------------------------- MODULE EventNotify_proofs -------------------------
(***************************************************************************)
(* Proofs about EventNotify, for any requests, endpoints, ignore lists and *)
(* operations, and a process that may end at any moment.                   *)
(***************************************************************************)
EXTENDS EventNotify, Integers, SequenceTheorems, TLAPS

Ev == Event \cup {NoEvent}
Queue == [events : Seq(Ev), closed : BOOLEAN, waiting : Seq({"run", "close"}), run : RunSteps,
          ev : Ev, closer : CloserSteps, recent : Nat]

Counters == [events : Int, pending : Int, successes : Int]

\* What every variable of the notification system may hold.
NotifyTypes ==
    /\ nextId \in 1..(MaxEvents + 1) /\ alive \in BOOLEAN
    /\ req \in [Writer -> Ev]
    /\ sent \in Seq(Ev)
    /\ bcast \in [state : {"select", "send", "close", "closed"}, ev : Ev, left : Seq(Endpoint),
                  shutdown : BOOLEAN]
    /\ eq \in [Endpoint -> Queue]
    /\ metrics \in [Endpoint -> Counters]
    /\ got \in [Endpoint -> Seq(Ev)]

\* The goroutine of the queue has an event that the endpoint has not answered.
Holding == {"write", "backoff", "post"}

\* The waiters are the goroutines that wait.
WaitersOK(e) ==
    /\ eq[e].run = "wait" => eq[e].waiting = <<"run">>
    /\ eq[e].run # "wait" /\ eq[e].closer = "wait" => eq[e].waiting = <<"close">>
    /\ eq[e].run # "wait" /\ eq[e].closer # "wait" => eq[e].waiting = <<>>

\* A closed queue takes no event and is empty before its goroutine ends and wakes the closer;
\* queues are closed one after the other.
ClosingOK(e) ==
    /\ eq[e].closed <=> eq[e].closer # "none"
    /\ eq[e].closed => eq[e].run # "wait" /\ alive /\ bcast.state \in {"close", "closed"}
    /\ eq[e].run = "gone" => eq[e].closed /\ eq[e].events = <<>>
    /\ eq[e].closer \in {"closing", "done"} => eq[e].run = "gone"
    /\ eq[e].closer \in {"wait", "closing"} =>
          bcast.state = "close" /\ bcast.left # <<>> /\ e = Head(bcast.left) /\ e \in Plain

\* The counters count what the queue and its goroutine hold.
Counted(run, n, m) ==
    /\ m.events = m.successes + n + (IF run \in Holding THEN 1 ELSE 0)
    /\ m.pending = n + (IF run \in Holding \cup {"egress"} THEN 1 ELSE 0)
CountersOK(e) == Counted(eq[e].run, Len(eq[e].events), metrics[e])

QueueOK(e) == WaitersOK(e) /\ ClosingOK(e) /\ CountersOK(e)

\* An event that was taken and that the endpoint wants is received or on its way.
OnItsWay(e, x) ==
    \/ x \in Range(got[e])
    \/ x \in Range(eq[e].events)
    \/ eq[e].run \in Holding /\ x = eq[e].ev
    \/ bcast.state = "send" /\ e \in Range(bcast.left) /\ x = bcast.ev

EndpointOK(e) ==
    /\ QueueOK(e)
    /\ alive => \A x \in Range(sent) : Wants(e, x) => OnItsWay(e, x)

NotifyInv ==
    /\ NotifyTypes
    /\ Sinks # <<>> /\ bcast.state \in {"send", "close"} => bcast.left # <<>>
    /\ \A e \in Endpoint : EndpointOK(e)
-----------------------------------------------------------------------------
\* A sequence as a set of elements.
LEMMA RangeAppend ==
  ASSUME NEW S, NEW s \in Seq(S), NEW x \in S
  PROVE  Append(s, x) \in Seq(S) /\ Range(Append(s, x)) = Range(s) \cup {x}
<1>1. /\ Append(s, x) \in Seq(S) /\ Len(Append(s, x)) = Len(s) + 1
      /\ \A i \in 1..Len(s) : Append(s, x)[i] = s[i]
      /\ Append(s, x)[Len(s) + 1] = x
  BY AppendProperties
<1>2. Len(s) \in Nat /\ DOMAIN s = 1..Len(s) /\ DOMAIN Append(s, x) = 1..(Len(s) + 1)
  BY <1>1, LenProperties
<1>3. QED
  BY <1>1, <1>2 DEF Range

LEMMA RangeTail ==
  ASSUME NEW S, NEW s \in Seq(S), s # <<>>
  PROVE  /\ Head(s) \in S /\ Tail(s) \in Seq(S) /\ Len(Tail(s)) = Len(s) - 1
         /\ Range(s) = {Head(s)} \cup Range(Tail(s))
<1>1. /\ Head(s) \in S /\ Tail(s) \in Seq(S) /\ Len(Tail(s)) = Len(s) - 1
      /\ \A i \in 1..Len(Tail(s)) : Tail(s)[i] = s[i + 1]
  BY HeadTailProperties
<1>2. /\ Len(s) \in Nat \ {0} /\ DOMAIN s = 1..Len(s) /\ DOMAIN Tail(s) = 1..(Len(s) - 1)
      /\ Head(s) = s[1]
  BY <1>1, LenProperties, EmptySeq
<1>3. ASSUME NEW i \in DOMAIN s PROVE s[i] \in {Head(s)} \cup Range(Tail(s))
  <2>1. CASE i = 1
    BY <1>2, <2>1
  <2>2. CASE i # 1
    <3>1. i - 1 \in DOMAIN Tail(s) /\ Tail(s)[i - 1] = s[i]
      BY <1>1, <1>2, <2>2
    <3>2. QED
      BY <3>1 DEF Range
  <2>3. QED
    BY <2>1, <2>2
<1>4. ASSUME NEW i \in DOMAIN Tail(s) PROVE Tail(s)[i] \in Range(s)
  <2>1. i + 1 \in DOMAIN s /\ Tail(s)[i] = s[i + 1]
    BY <1>1, <1>2
  <2>2. QED
    BY <2>1 DEF Range
<1>5. Head(s) \in Range(s)
  BY <1>2 DEF Range
<1>6. QED
  BY <1>1, <1>3, <1>4, <1>5 DEF Range

\* Without a sink there is no endpoint.
LEMMA SinksExist ==
  ASSUME NEW e \in Endpoint
  PROVE  Sinks # <<>>
  BY DEF Endpoint, Range

LEMMA LastSink ==
  ASSUME NEW S, NEW s \in Seq(S), s # <<>>
  PROVE  /\ Len(s) = 1 => Tail(s) = <<>> /\ Range(s) = {Head(s)}
         /\ Len(s) # 1 => Tail(s) # <<>>
<1>1. /\ Tail(s) \in Seq(S) /\ Len(Tail(s)) = Len(s) - 1 /\ Len(s) \in Nat \ {0}
      /\ Range(s) = {Head(s)} \cup Range(Tail(s))
  BY RangeTail, EmptySeq
<1>2. Len(Tail(s)) = 0 <=> Tail(s) = <<>>
  BY <1>1, EmptySeq, ZenonT(30)
<1>3. ASSUME Len(s) = 1 PROVE Tail(s) = <<>> /\ Range(s) = {Head(s)}
  <2>1. Tail(s) = <<>>
    BY <1>1, <1>2, <1>3
  <2>2. Range(Tail(s)) = {}
    BY <2>1 DEF Range
  <2>3. QED
    BY <1>1, <2>1, <2>2
<1>4. QED
  BY <1>1, <1>2, <1>3

\* What waking does to a queue, by who waits.
LEMMA Waking ==
  ASSUME NEW q \in Queue
  PROVE  /\ q.waiting = <<>> => Signal(q) = q /\ Broadcast(q) = q
         /\ q.waiting = <<"run">> => Signal(q) = [q EXCEPT !.waiting = <<>>, !.run = "next"]
         /\ q.waiting = <<"close">> => Broadcast(q) = [q EXCEPT !.waiting = <<>>, !.closer = "closing"]
<1>1. ASSUME q.waiting = <<>> PROVE Signal(q) = q /\ Broadcast(q) = q
  <2>1. Range(<<>>) = {}
    BY DEF Range
  <2>2. QED
    BY <1>1, <2>1, ZenonT(30) DEF Signal, Broadcast, Woken, Queue
<1>2. ASSUME q.waiting = <<"run">> PROVE Signal(q) = [q EXCEPT !.waiting = <<>>, !.run = "next"]
  <2>1. Head(<<"run">>) = "run" /\ Tail(<<"run">>) = <<>> /\ <<"run">> # <<>>
    OBVIOUS
  <2>2. QED
    BY <1>2, <2>1, ZenonT(30) DEF Signal, Woken, Queue
<1>3. ASSUME q.waiting = <<"close">>
      PROVE  Broadcast(q) = [q EXCEPT !.waiting = <<>>, !.closer = "closing"]
  <2>1. Range(<<"close">>) = {"close"}
    BY DEF Range
  <2>2. QED
    BY <1>3, <2>1, ZenonT(30) DEF Broadcast, Woken, Queue
<1>4. QED
  BY <1>1, <1>2, <1>3

\* An endpoint that a step does not touch.
LEMMA Elsewhere ==
  ASSUME NEW d \in Endpoint, EndpointOK(d), UNCHANGED <<sent, bcast, alive>>,
         eq'[d] = eq[d], metrics'[d] = metrics[d], got'[d] = got[d]
  PROVE  EndpointOK(d)'
<1>1. QueueOK(d)'
  BY ZenonT(30) DEF EndpointOK, QueueOK, WaitersOK, ClosingOK, CountersOK, Counted
<1>2. \A x : OnItsWay(d, x) => OnItsWay(d, x)'
  BY DEF OnItsWay
<1>3. \A x : Wants(d, x)' <=> Wants(d, x)
  BY DEF Wants
<1>4. QED
  BY <1>1, <1>2, <1>3 DEF EndpointOK

\* A step of one endpoint's goroutine: what remains to be shown is about that endpoint.
LEMMA GoroutineStep ==
  ASSUME NotifyInv, NEW e \in Endpoint, NEW q \in Queue,
         eq' = [eq EXCEPT ![e] = q], UNCHANGED <<nextId, req, sent, bcast, alive>>,
         NEW m \in Counters,
         metrics' = [metrics EXCEPT ![e] = m],
         NEW g \in Seq(Ev), got' = [got EXCEPT ![e] = g],
         QueueOK(e)',
         alive => \A x \in Range(sent) : Wants(e, x) /\ OnItsWay(e, x) => OnItsWay(e, x)'
  PROVE  NotifyInv'
<1>1. NotifyTypes'
  BY DEF NotifyInv, NotifyTypes
<1>2. ASSUME NEW d \in Endpoint, d # e PROVE EndpointOK(d)'
  <2>1. eq'[d] = eq[d] /\ metrics'[d] = metrics[d] /\ got'[d] = got[d]
    BY <1>2 DEF NotifyInv, NotifyTypes
  <2>2. EndpointOK(d)
    BY DEF NotifyInv
  <2>3. QED
    BY <2>1, <2>2, Elsewhere
<1>3. EndpointOK(e)'
  <2>1. alive => \A x \in Range(sent) : Wants(e, x) => OnItsWay(e, x)
    BY DEF NotifyInv, EndpointOK
  <2>2. alive' = alive /\ sent' = sent /\ \A x : Wants(e, x)' <=> Wants(e, x)
    BY DEF Wants
  <2>3. QED
    BY <2>1, <2>2 DEF EndpointOK
<1>4. QED
  BY <1>1, <1>2, <1>3 DEF NotifyInv

\* The counters follow the steps of the queue and of its goroutine.
LEMMA Counting ==
  ASSUME NEW n \in Nat, NEW m \in Counters
  PROVE  /\ Counted("next", n, m) <=> Counted("wait", n, m)
         /\ Counted("next", n, m) <=> Counted("gone", n, m)
         /\ Counted("next", n, m) /\ n # 0 => Counted("write", n - 1, m)
         /\ Counted("write", n, m) <=> Counted("backoff", n, m)
         /\ Counted("write", n, m) <=> Counted("post", n, m)
         /\ Counted("post", n, m) => Counted("egress", n, [m EXCEPT !.successes = @ + 1])
         /\ Counted("egress", n, m) => Counted("next", n, [m EXCEPT !.pending = @ - 1])
         /\ \A run : Counted(run, n, m) =>
               Counted(run, n + 1, [m EXCEPT !.events = @ + 1, !.pending = @ + 1])
  BY DEF Counted, Counters, Holding

LEMMA PopStep ==
  ASSUME NotifyInv, NEW e \in Endpoint, Next_Pop(e)
  PROVE  NotifyInv'
<1> DEFINE q == [eq[e] EXCEPT !.ev = Head(eq[e].events), !.events = Tail(eq[e].events), !.run = "write"]
<1>1. eq[e] \in Queue /\ QueueOK(e) /\ metrics[e] \in Counters
      /\ got[e] \in Seq(Ev)
  BY DEF NotifyInv, NotifyTypes, EndpointOK
<1>2. /\ Head(eq[e].events) \in Ev /\ Tail(eq[e].events) \in Seq(Ev)
      /\ Len(Tail(eq[e].events)) = Len(eq[e].events) - 1 /\ Len(eq[e].events) \in Nat \ {0}
      /\ Range(eq[e].events) = {Head(eq[e].events)} \cup Range(Tail(eq[e].events))
  BY <1>1, RangeTail, EmptySeq DEF Next_Pop, Queue
<1>3. q \in Queue /\ eq' = [eq EXCEPT ![e] = q] /\ eq'[e] = q
  BY <1>1, <1>2, ZenonT(30) DEF Next_Pop, Queue, RunSteps, NotifyInv, NotifyTypes
<1>4. /\ q.waiting = eq[e].waiting /\ q.closed = eq[e].closed /\ q.closer = eq[e].closer
      /\ q.run = "write" /\ q.events = Tail(eq[e].events) /\ q.ev = Head(eq[e].events)
  BY <1>1 DEF Queue
<1> HIDE DEF q
<1>5. metrics' = [metrics EXCEPT ![e] = metrics[e]] /\ got' = [got EXCEPT ![e] = got[e]]
      /\ metrics'[e] = metrics[e] /\ got'[e] = got[e]
  BY DEF Next_Pop, NotifyInv, NotifyTypes
<1>6. QueueOK(e)'
  <2>1. WaitersOK(e)'
    BY <1>1, <1>3, <1>4, ZenonT(30) DEF QueueOK, WaitersOK, Next_Pop
  <2>2. ClosingOK(e)'
    BY <1>1, <1>3, <1>4 DEF QueueOK, ClosingOK, Next_Pop
  <2>3. CountersOK(e)'
    <3>1. Counted("next", Len(eq[e].events), metrics[e])
      BY <1>1 DEF QueueOK, CountersOK, Next_Pop
    <3>2. Counted("write", Len(eq[e].events) - 1, metrics[e])
      BY <1>1, <1>2, <3>1, Counting, ZenonT(30)
    <3>3. QED
      BY <1>2, <1>3, <1>4, <1>5, <3>2, ZenonT(30) DEF CountersOK
  <2>4. QED
    BY <2>1, <2>2, <2>3 DEF QueueOK
<1>7. \A x : OnItsWay(e, x) => OnItsWay(e, x)'
  BY <1>2, <1>3, <1>4, <1>5 DEF OnItsWay, Next_Pop, Holding
<1>8. UNCHANGED <<nextId, req, sent, bcast, alive>>
  BY DEF Next_Pop
<1>9. QED
  BY <1>1, <1>3, <1>5, <1>6, <1>7, <1>8, GoroutineStep, ZenonT(30)

\* The goroutine of a queue of one endpoint waits, ends, and posts.
LEMMA WaitStep ==
  ASSUME NotifyInv, NEW e \in Endpoint, Next_Wait(e)
  PROVE  NotifyInv'
<1> DEFINE q == [eq[e] EXCEPT !.run = "wait", !.waiting = <<"run">>]
<1>1. eq[e] \in Queue /\ QueueOK(e) /\ metrics[e] \in Counters /\ got[e] \in Seq(Ev)
  BY DEF NotifyInv, NotifyTypes, EndpointOK
<1>2. eq[e].waiting = <<>> /\ Append(<<>>, "run") = <<"run">> /\ <<"run">> \in Seq({"run", "close"})
  BY <1>1 DEF QueueOK, WaitersOK, ClosingOK, Next_Wait
<1>3. q \in Queue /\ eq' = [eq EXCEPT ![e] = q] /\ eq'[e] = q
  BY <1>1, <1>2, ZenonT(30) DEF Next_Wait, Queue, RunSteps, NotifyInv, NotifyTypes
<1>4. /\ q.waiting = <<"run">> /\ q.closed = eq[e].closed /\ q.closer = eq[e].closer
      /\ q.run = "wait" /\ q.events = eq[e].events /\ q.ev = eq[e].ev
  BY <1>1 DEF Queue
<1> HIDE DEF q
<1>5. metrics' = [metrics EXCEPT ![e] = metrics[e]] /\ got' = [got EXCEPT ![e] = got[e]]
      /\ metrics'[e] = metrics[e] /\ got'[e] = got[e]
  BY DEF Next_Wait, NotifyInv, NotifyTypes
<1>6. QueueOK(e)'
  <2>1. WaitersOK(e)'
    BY <1>3, <1>4 DEF WaitersOK
  <2>2. ClosingOK(e)'
    BY <1>1, <1>3, <1>4 DEF QueueOK, ClosingOK, Next_Wait
  <2>3. CountersOK(e)'
    <3>1. Counted("next", Len(eq[e].events), metrics[e]) /\ Len(eq[e].events) \in Nat
      BY <1>1 DEF QueueOK, CountersOK, Next_Wait, Queue
    <3>2. QED
      BY <1>1, <1>3, <1>4, <1>5, <3>1, Counting, ZenonT(30) DEF CountersOK
  <2>4. QED
    BY <2>1, <2>2, <2>3 DEF QueueOK
<1>7. \A x : OnItsWay(e, x) => OnItsWay(e, x)'
  BY <1>3, <1>4, <1>5 DEF OnItsWay, Next_Wait, Holding
<1>8. UNCHANGED <<nextId, req, sent, bcast, alive>>
  BY DEF Next_Wait
<1>9. QED
  BY <1>1, <1>3, <1>5, <1>6, <1>7, <1>8, GoroutineStep, ZenonT(30)

LEMMA ClosedStep ==
  ASSUME NotifyInv, NEW e \in Endpoint, Next_Closed(e)
  PROVE  NotifyInv'
<1> DEFINE q == [eq[e] EXCEPT !.run = "gone", !.waiting = <<>>, !.closer = "closing"]
<1>1. eq[e] \in Queue /\ QueueOK(e) /\ metrics[e] \in Counters /\ got[e] \in Seq(Ev)
  BY DEF NotifyInv, NotifyTypes, EndpointOK
<1>2. eq[e].waiting = <<"close">> /\ eq[e].closer = "wait" /\ <<>> \in Seq({"run", "close"})
  BY <1>1 DEF QueueOK, WaitersOK, ClosingOK, Next_Closed, Queue, CloserSteps
<1>3. q \in Queue /\ eq' = [eq EXCEPT ![e] = q] /\ eq'[e] = q
  <2>1. Broadcast(eq[e]) = [eq[e] EXCEPT !.waiting = <<>>, !.closer = "closing"]
    BY <1>1, <1>2, Waking, ZenonT(30)
  <2>2. q \in Queue /\ q = [Broadcast(eq[e]) EXCEPT !.run = "gone"]
    BY <1>1, <1>2, <2>1, ZenonT(30) DEF Queue, RunSteps, CloserSteps
  <2>3. QED
    BY <2>2, ZenonT(30) DEF Next_Closed, NotifyInv, NotifyTypes
<1>4. /\ q.waiting = <<>> /\ q.closed = eq[e].closed /\ q.closer = "closing"
      /\ q.run = "gone" /\ q.events = eq[e].events /\ q.ev = eq[e].ev
  BY <1>1 DEF Queue
<1> HIDE DEF q
<1>5. metrics' = [metrics EXCEPT ![e] = metrics[e]] /\ got' = [got EXCEPT ![e] = got[e]]
      /\ metrics'[e] = metrics[e] /\ got'[e] = got[e]
  BY DEF Next_Closed, NotifyInv, NotifyTypes
<1>6. QueueOK(e)'
  <2>1. WaitersOK(e)'
    BY <1>3, <1>4 DEF WaitersOK
  <2>2. ClosingOK(e)'
    BY <1>1, <1>2, <1>3, <1>4, ZenonT(30) DEF QueueOK, ClosingOK, Next_Closed
  <2>3. CountersOK(e)'
    <3>1. Counted("next", Len(eq[e].events), metrics[e]) /\ Len(eq[e].events) \in Nat
      BY <1>1 DEF QueueOK, CountersOK, Next_Closed, Queue
    <3>2. QED
      BY <1>1, <1>3, <1>4, <1>5, <3>1, Counting, ZenonT(30) DEF CountersOK
  <2>4. QED
    BY <2>1, <2>2, <2>3 DEF QueueOK
<1>7. \A x : OnItsWay(e, x) => OnItsWay(e, x)'
  BY <1>3, <1>4, <1>5, ZenonT(30) DEF OnItsWay, Next_Closed, Holding
<1>8. UNCHANGED <<nextId, req, sent, bcast, alive>>
  BY DEF Next_Closed
<1>9. QED
  BY <1>1, <1>3, <1>5, <1>6, <1>7, <1>8, GoroutineStep, ZenonT(30)

\* Steps that change no more of the queue than its goroutine's place, its event and the breaker.
LEMMA PlaceStep ==
  ASSUME NotifyInv, NEW e \in Endpoint, UNCHANGED <<nextId, req, sent, bcast, alive>>,
         NEW run \in RunSteps, NEW ev \in Ev, NEW recent \in Nat,
         eq[e].run \in Holding \cup {"egress"}, run \notin {"wait", "gone"},
         eq' = [eq EXCEPT ![e] = [@ EXCEPT !.run = run, !.ev = ev, !.recent = recent]],
         NEW m \in Counters, metrics' = [metrics EXCEPT ![e] = m],
         Counted(eq[e].run, Len(eq[e].events), metrics[e]) => Counted(run, Len(eq[e].events), m),
         NEW g \in Seq(Ev), got' = [got EXCEPT ![e] = g], Range(got[e]) \subseteq Range(g),
         eq[e].run \in Holding => eq[e].ev \in Range(g) \/ (run \in Holding /\ ev = eq[e].ev)
  PROVE  NotifyInv'
<1> DEFINE q == [eq[e] EXCEPT !.run = run, !.ev = ev, !.recent = recent]
<1>1. eq[e] \in Queue /\ QueueOK(e)
  BY DEF NotifyInv, NotifyTypes, EndpointOK
<1>2. q \in Queue /\ eq' = [eq EXCEPT ![e] = q] /\ eq'[e] = q
  BY <1>1, ZenonT(30) DEF Queue, NotifyInv, NotifyTypes
<1>3. /\ q.waiting = eq[e].waiting /\ q.closed = eq[e].closed /\ q.closer = eq[e].closer
      /\ q.run = run /\ q.events = eq[e].events /\ q.ev = ev
  BY <1>1 DEF Queue
<1> HIDE DEF q
<1>4. metrics'[e] = m /\ got'[e] = g
  BY DEF NotifyInv, NotifyTypes
<1>5. QueueOK(e)'
  <2>1. WaitersOK(e)'
    BY <1>1, <1>2, <1>3 DEF QueueOK, WaitersOK, Holding
  <2>2. ClosingOK(e)'
    BY <1>1, <1>2, <1>3 DEF QueueOK, ClosingOK, Holding
  <2>3. CountersOK(e)'
    BY <1>1, <1>2, <1>3, <1>4 DEF QueueOK, CountersOK
  <2>4. QED
    BY <2>1, <2>2, <2>3 DEF QueueOK
<1>6. \A x : OnItsWay(e, x) => OnItsWay(e, x)'
  BY <1>2, <1>3, <1>4 DEF OnItsWay
<1>7. QED
  BY <1>2, <1>5, <1>6, GoroutineStep, ZenonT(30)

LEMMA ProceedStep ==
  ASSUME NotifyInv, NEW e \in Endpoint, Proceed(e)
  PROVE  NotifyInv'
<1>1. /\ eq[e] \in Queue /\ metrics[e] \in Counters /\ got[e] \in Seq(Ev) /\ Len(eq[e].events) \in Nat
      /\ metrics' = [metrics EXCEPT ![e] = metrics[e]] /\ got' = [got EXCEPT ![e] = got[e]]
      /\ UNCHANGED <<nextId, req, sent, bcast, alive>>
  BY DEF NotifyInv, NotifyTypes, Queue, Proceed
<1>2. PICK run \in {"post", "backoff"} :
         eq[e].run \in {"write", "backoff"} /\ eq' = [eq EXCEPT ![e].run = run]
  BY DEF Proceed
<1>3. eq' = [eq EXCEPT ![e] = [@ EXCEPT !.run = run, !.ev = eq[e].ev, !.recent = eq[e].recent]]
  <2>1. [eq[e] EXCEPT !.run = run]
          = [eq[e] EXCEPT !.run = run, !.ev = eq[e].ev, !.recent = eq[e].recent]
    BY <1>1, ZenonT(30) DEF Queue
  <2>2. QED
    BY <1>2, <2>1, ZenonT(30)
<1>4. Counted(eq[e].run, Len(eq[e].events), metrics[e]) => Counted(run, Len(eq[e].events), metrics[e])
  BY <1>1, <1>2, Counting, ZenonT(30)
<1>5. /\ eq[e].ev \in Ev /\ eq[e].recent \in Nat /\ run \in RunSteps /\ run \notin {"wait", "gone"}
      /\ eq[e].run \in Holding /\ run \in Holding
  BY <1>1, <1>2 DEF Queue, RunSteps, Holding
<1>6. QED
  BY <1>1, <1>3, <1>4, <1>5, PlaceStep, ZenonT(30)

LEMMA PostStep ==
  ASSUME NotifyInv, NEW e \in Endpoint, Post(e)
  PROVE  NotifyInv'
<1> DEFINE g == Append(got[e], eq[e].ev)
           m == [metrics[e] EXCEPT !.successes = @ + 1]
<1>1. /\ eq[e] \in Queue /\ metrics[e] \in Counters /\ got[e] \in Seq(Ev) /\ Len(eq[e].events) \in Nat
      /\ eq[e].ev \in Ev /\ UNCHANGED <<nextId, req, sent, bcast, alive>> /\ eq[e].run = "post"
  BY DEF NotifyInv, NotifyTypes, Queue, Post
<1>2. g \in Seq(Ev) /\ got' = [got EXCEPT ![e] = g] /\ Range(g) = Range(got[e]) \cup {eq[e].ev}
  BY <1>1, RangeAppend DEF Post
<1>3. m \in Counters /\ metrics' = [metrics EXCEPT ![e] = m]
  <2>1. metrics[e] \in Counters /\ metrics \in [Endpoint -> Counters]
    BY DEF NotifyInv, NotifyTypes
  <2>2. m \in Counters
    BY <2>1 DEF Counters
  <2>3. metrics' = [metrics EXCEPT ![e] = m]
    BY DEF Post
  <2>4. QED
    BY <2>2, <2>3
<1>4. eq' = [eq EXCEPT ![e] = [@ EXCEPT !.run = "egress", !.ev = eq[e].ev, !.recent = 0]]
  <2>1. [eq[e] EXCEPT !.run = "egress", !.recent = 0]
          = [eq[e] EXCEPT !.run = "egress", !.ev = eq[e].ev, !.recent = 0]
    BY <1>1, ZenonT(30) DEF Queue
  <2>2. eq' = [eq EXCEPT ![e] = [eq[e] EXCEPT !.run = "egress", !.recent = 0]]
    BY ZenonT(30) DEF Post, NotifyInv, NotifyTypes
  <2>3. QED
    BY <2>1, <2>2, ZenonT(30)
<1>5. Counted("post", Len(eq[e].events), metrics[e]) => Counted("egress", Len(eq[e].events), m)
  BY <1>1, Counting, ZenonT(30)
<1>6. /\ "egress" \in RunSteps /\ "egress" \notin {"wait", "gone"} /\ 0 \in Nat
      /\ eq[e].run \in Holding
  BY <1>1 DEF RunSteps, Holding
<1> HIDE DEF g, m
<1>7. QED
  BY <1>1, <1>2, <1>3, <1>4, <1>5, <1>6, PlaceStep, ZenonT(30)

LEMMA PostFailsStep ==
  ASSUME NotifyInv, NEW e \in Endpoint, PostFails(e)
  PROVE  NotifyInv'
<1> DEFINE recent == IF eq[e].recent < Threshold THEN eq[e].recent + 1 ELSE eq[e].recent
<1>1. /\ eq[e] \in Queue /\ metrics[e] \in Counters /\ got[e] \in Seq(Ev) /\ Len(eq[e].events) \in Nat
      /\ eq[e].ev \in Ev /\ UNCHANGED <<nextId, req, sent, bcast, alive>> /\ eq[e].run = "post"
      /\ metrics' = [metrics EXCEPT ![e] = metrics[e]]
  BY DEF NotifyInv, NotifyTypes, Queue, PostFails
<1>2. PICK g \in Seq(Ev) : got' = [got EXCEPT ![e] = g] /\ Range(got[e]) \subseteq Range(g)
  <2>1. /\ Append(got[e], eq[e].ev) \in Seq(Ev)
        /\ Range(got[e]) \subseteq Range(Append(got[e], eq[e].ev))
    BY <1>1, RangeAppend
  <2>2. got = [got EXCEPT ![e] = got[e]]
    BY DEF NotifyInv, NotifyTypes
  <2>3. QED
    BY <1>1, <2>1, <2>2, ZenonT(30) DEF PostFails
<1>3. recent \in Nat
  BY <1>1 DEF Queue
<1>4. eq' = [eq EXCEPT ![e] = [@ EXCEPT !.run = "write", !.ev = eq[e].ev, !.recent = recent]]
  <2>1. [eq[e] EXCEPT !.run = "write", !.recent = recent]
          = [eq[e] EXCEPT !.run = "write", !.ev = eq[e].ev, !.recent = recent]
    BY <1>1, ZenonT(30) DEF Queue
  <2>2. eq' = [eq EXCEPT ![e] = [eq[e] EXCEPT !.run = "write", !.recent = recent]]
    BY <1>1, ZenonT(30) DEF PostFails, NotifyInv, NotifyTypes, Queue
  <2>3. QED
    BY <2>1, <2>2, ZenonT(30)
<1>5. Counted("post", Len(eq[e].events), metrics[e]) => Counted("write", Len(eq[e].events), metrics[e])
  BY <1>1, Counting, ZenonT(30)
<1>6. /\ "write" \in RunSteps /\ "write" \notin {"wait", "gone"} /\ eq[e].run \in Holding
      /\ "write" \in Holding
  BY <1>1 DEF RunSteps, Holding
<1> HIDE DEF recent
<1>7. QED
  BY <1>1, <1>2, <1>3, <1>4, <1>5, <1>6, PlaceStep, ZenonT(30)

LEMMA EgressStep ==
  ASSUME NotifyInv, NEW e \in Endpoint, Egress(e)
  PROVE  NotifyInv'
<1> DEFINE m == [metrics[e] EXCEPT !.pending = @ - 1]
<1>1. /\ eq[e] \in Queue /\ metrics[e] \in Counters /\ got[e] \in Seq(Ev) /\ Len(eq[e].events) \in Nat
      /\ UNCHANGED <<nextId, req, sent, bcast, alive>> /\ eq[e].run = "egress"
      /\ got' = [got EXCEPT ![e] = got[e]]
  BY DEF NotifyInv, NotifyTypes, Queue, Egress
<1>2. m \in Counters /\ metrics' = [metrics EXCEPT ![e] = m]
  BY <1>1 DEF Egress, Counters
<1>3. eq' = [eq EXCEPT ![e] = [@ EXCEPT !.run = "next", !.ev = NoEvent, !.recent = eq[e].recent]]
  <2>1. [eq[e] EXCEPT !.run = "next", !.ev = NoEvent]
          = [eq[e] EXCEPT !.run = "next", !.ev = NoEvent, !.recent = eq[e].recent]
    BY <1>1, ZenonT(30) DEF Queue
  <2>2. eq' = [eq EXCEPT ![e] = [eq[e] EXCEPT !.run = "next", !.ev = NoEvent]]
    BY ZenonT(30) DEF Egress, NotifyInv, NotifyTypes
  <2>3. QED
    BY <2>1, <2>2, ZenonT(30)
<1>4. Counted("egress", Len(eq[e].events), metrics[e]) => Counted("next", Len(eq[e].events), m)
  BY <1>1, Counting, ZenonT(30)
<1>5. /\ "next" \in RunSteps /\ "next" \notin {"wait", "gone"} /\ eq[e].run \notin Holding
      /\ NoEvent \in Ev /\ eq[e].recent \in Nat
  BY <1>1 DEF RunSteps, Holding, Ev, Queue
<1> HIDE DEF m
<1>6. QED
  BY <1>1, <1>2, <1>3, <1>4, <1>5, PlaceStep, ZenonT(30)

\* The broadcaster hands the event to the next sink.
LEMMA DispatchStep ==
  ASSUME NotifyInv, NEW e \in Endpoint, Dispatch(e)
  PROVE  NotifyInv'
<1>1. /\ eq[e] \in Queue /\ metrics[e] \in Counters /\ eq \in [Endpoint -> Queue]
      /\ metrics \in [Endpoint -> Counters] /\ bcast.left \in Seq(Endpoint) /\ bcast.ev \in Ev
      /\ Len(eq[e].events) \in Nat /\ UNCHANGED <<nextId, req, sent, got, alive>>
  <2>1. /\ eq[e] \in Queue /\ metrics[e] \in Counters /\ eq \in [Endpoint -> Queue]
        /\ metrics \in [Endpoint -> Counters] /\ bcast.left \in Seq(Endpoint) /\ bcast.ev \in Ev
    BY DEF NotifyInv, NotifyTypes
  <2>2. eq[e].events \in Seq(Ev)
    BY <2>1 DEF Queue
  <2>3. Len(eq[e].events) \in Nat
    BY <2>2
  <2>4. UNCHANGED <<nextId, req, sent, got, alive>>
    BY DEF Dispatch
  <2>5. QED
    BY <2>1, <2>3, <2>4
<1>2. /\ bcast.left # <<>> /\ e = Head(bcast.left) /\ Tail(bcast.left) \in Seq(Endpoint)
      /\ Len(Tail(bcast.left)) = Len(bcast.left) - 1 /\ Len(bcast.left) \in Nat
      /\ Range(bcast.left) = {e} \cup Range(Tail(bcast.left))
  <2>1. bcast.left # <<>>
    BY SinksExist DEF NotifyInv, Dispatch
  <2>2. QED
    BY <1>1, <2>1, RangeTail DEF Dispatch
<1>3. /\ bcast'.state \in {"select", "send"} /\ bcast'.left \in Seq(Endpoint)
      /\ bcast' \in [state : {"select", "send", "close", "closed"}, ev : Ev, left : Seq(Endpoint),
                    shutdown : BOOLEAN]
      /\ bcast'.state = "send" => bcast'.left # <<>>
      /\ \A d \in Endpoint : d # e /\ d \in Range(bcast.left) =>
            bcast'.state = "send" /\ d \in Range(bcast'.left) /\ bcast'.ev = bcast.ev
  <2>0. bcast \in [state : {"select", "send", "close", "closed"}, ev : Ev, left : Seq(Endpoint),
                   shutdown : BOOLEAN]
        /\ bcast.state = "send" /\ NoEvent \in Ev /\ <<>> \in Seq(Endpoint)
    BY DEF NotifyInv, NotifyTypes, Dispatch, Ev
  <2>1. CASE Len(bcast.left) = 1
    <3>1. Range(bcast.left) = {e}
      BY <1>1, <1>2, <2>1, LastSink
    <3>2. QED
      BY <2>0, <2>1, <3>1, ZenonT(30) DEF Dispatch
  <2>2. CASE Len(bcast.left) # 1
    <3>1. Tail(bcast.left) # <<>>
      BY <1>1, <1>2, <2>2, LastSink
    <3>2. bcast' = [bcast EXCEPT !.left = Tail(bcast.left)]
      BY <2>2 DEF Dispatch
    <3>3. QED
      BY <1>2, <2>0, <3>1, <3>2, ZenonT(30)
  <2>3. QED
    BY <2>1, <2>2
<1>4. \A d \in Endpoint : QueueOK(d) /\ ~eq[d].closed /\ eq[d].closer = "none" /\ eq[d].run # "gone"
  BY DEF NotifyInv, EndpointOK, QueueOK, ClosingOK, Dispatch
<1>5. ASSUME NEW d \in Endpoint, eq'[d] = eq[d], metrics'[d] = metrics[d] PROVE QueueOK(d)'
  BY <1>4, <1>5 DEF QueueOK, WaitersOK, ClosingOK, CountersOK
<1>6. ASSUME NEW d \in Endpoint, NEW x \in Range(sent), alive, Wants(d, x), eq'[d] = eq[d],
             d = e => x # bcast.ev
      PROVE  OnItsWay(d, x)'
  <2>1. OnItsWay(d, x)
    BY <1>6 DEF NotifyInv, EndpointOK
  <2>2. QED
    BY <1>1, <1>3, <1>6, <2>1 DEF OnItsWay
<1>7. \A d, x : Wants(d, x)' <=> Wants(d, x)
  BY DEF Wants
<1>8. CASE ~Wants(e, bcast.ev)
  <2>1. eq' = eq /\ metrics' = metrics
    BY <1>8 DEF Dispatch
  <2>2. ASSUME NEW d \in Endpoint PROVE EndpointOK(d)'
    BY <1>1, <1>5, <1>6, <1>7, <1>8, <2>1 DEF EndpointOK
  <2>3. NotifyTypes'
    BY <1>1, <1>3, <2>1 DEF NotifyInv, NotifyTypes
  <2>4. QED
    BY <1>3, <2>2, <2>3 DEF NotifyInv
<1>9. CASE Wants(e, bcast.ev)
  <2> DEFINE a == [eq[e] EXCEPT !.events = Append(eq[e].events, bcast.ev)]
             q == Signal(a)
             m == [metrics[e] EXCEPT !.events = @ + 1, !.pending = @ + 1]
  <2>1. /\ Append(eq[e].events, bcast.ev) \in Seq(Ev) /\ eq[e].events \in Seq(Ev)
        /\ Range(Append(eq[e].events, bcast.ev)) = Range(eq[e].events) \cup {bcast.ev}
        /\ Len(Append(eq[e].events, bcast.ev)) = Len(eq[e].events) + 1
    <3>1. eq[e].events \in Seq(Ev) /\ bcast.ev \in Ev
      BY <1>1 DEF Queue
    <3>2. QED
      BY <3>1, RangeAppend, AppendProperties
  <2>2. /\ a \in Queue /\ a.events = Append(eq[e].events, bcast.ev) /\ a.run = eq[e].run
        /\ a.closed = eq[e].closed /\ a.closer = eq[e].closer /\ a.waiting = eq[e].waiting /\ a.ev = eq[e].ev
    BY <1>1, <2>1, ZenonT(30) DEF Queue
  <2>3. eq' = [eq EXCEPT ![e] = q] /\ metrics' = [metrics EXCEPT ![e] = m]
    <3>1. Enqueue(e, bcast.ev) /\ ~eq[e].closed
      BY <1>4, <1>9 DEF Dispatch
    <3>2. eq' = [eq EXCEPT ![e] = q]
      BY <3>1 DEF Enqueue
    <3>3. metrics' = [metrics EXCEPT ![e] = m]
      BY <1>1, <3>1 DEF Enqueue, Counters
    <3>4. QED
      BY <3>2, <3>3
  <2>4. m \in Counters
    <3>1. metrics[e].events + 1 \in Int /\ metrics[e].pending + 1 \in Int
      BY <1>1 DEF Counters
    <3>2. QED
      BY <1>1, <3>1, ZenonT(30) DEF Counters
  <2>5. \A run : Counted(run, Len(eq[e].events), metrics[e]) => Counted(run, Len(eq[e].events) + 1, m)
    BY <1>1, Counting, ZenonT(30)
  <2> HIDE DEF a, m
  <2>6. /\ q \in Queue /\ q.events = a.events /\ q.closed = a.closed /\ q.closer = a.closer /\ q.ev = a.ev
        /\ \/ q.run = "next" /\ a.run = "wait" /\ q.waiting = <<>>
           \/ q.run = a.run /\ q.waiting = a.waiting /\ a.run # "wait"
    <3>1. CASE eq[e].run = "wait"
      <4>1. a.waiting = <<"run">>
        BY <1>4, <2>2, <3>1 DEF QueueOK, WaitersOK
      <4>2. q = [a EXCEPT !.waiting = <<>>, !.run = "next"]
        BY <2>2, <4>1, Waking, ZenonT(30)
      <4>3. <<>> \in Seq({"run", "close"})
        OBVIOUS
      <4>4. QED
        BY <2>2, <3>1, <4>2, <4>3, ZenonT(30) DEF Queue, RunSteps
    <3>2. CASE eq[e].run # "wait"
      <4>1. a.waiting = <<>>
        BY <1>4, <2>2, <3>2 DEF QueueOK, WaitersOK
      <4>2. q = a
        BY <2>2, <4>1, Waking, ZenonT(30)
      <4>3. QED
        BY <2>2, <3>2, <4>2
    <3>3. QED
      BY <3>1, <3>2
  <2> HIDE DEF q
  <2>7. eq'[e] = q /\ metrics'[e] = m
    BY <1>1, <2>3
  <2>8. QueueOK(e)'
    <3>1. WaitersOK(e)' /\ ClosingOK(e)'
      BY <1>4, <2>2, <2>6, <2>7, ZenonT(30) DEF QueueOK, WaitersOK, ClosingOK
    <3>2. CountersOK(e)'
      <4>1. Counted(eq[e].run, Len(eq[e].events) + 1, m)
        BY <1>4, <2>5 DEF QueueOK, CountersOK
      <4>2. Counted(q.run, Len(eq[e].events) + 1, m)
        <5>1. Len(eq[e].events) + 1 \in Nat
          BY <1>1
        <5>2. CASE q.run = eq[e].run
          BY <4>1, <5>2
        <5>3. CASE q.run = "next" /\ eq[e].run = "wait"
          BY <2>4, <4>1, <5>1, <5>3, Counting, ZenonT(30)
        <5>4. QED
          BY <2>2, <2>6, <5>2, <5>3
      <4>3. QED
        BY <2>1, <2>2, <2>6, <2>7, <4>2 DEF CountersOK
    <3>3. QED
      BY <3>1, <3>2 DEF QueueOK
  <2>9. ASSUME NEW x \in Range(sent), alive, Wants(e, x) PROVE OnItsWay(e, x)'
    <3>1. OnItsWay(e, x)
      BY <2>9 DEF NotifyInv, EndpointOK
    <3>2. QED
      BY <1>1, <2>1, <2>2, <2>6, <2>7, <3>1, ZenonT(30) DEF OnItsWay, Holding
  <2>10. ASSUME NEW d \in Endpoint PROVE EndpointOK(d)'
    <3>1. CASE d = e
      BY <1>1, <1>7, <2>8, <2>9, <3>1 DEF EndpointOK
    <3>2. CASE d # e
      <4>1. eq'[d] = eq[d] /\ metrics'[d] = metrics[d]
        BY <1>1, <2>3, <3>2
      <4>2. QED
        BY <1>1, <1>5, <1>6, <1>7, <3>2, <4>1 DEF EndpointOK
    <3>3. QED
      BY <3>1, <3>2
  <2>11. NotifyTypes'
    BY <1>1, <1>3, <2>3, <2>4, <2>6 DEF NotifyInv, NotifyTypes
  <2>12. QED
    BY <1>3, <2>10, <2>11 DEF NotifyInv
<1>10. QED
  BY <1>8, <1>9

\* Requests make events, and the broadcaster takes one or refuses it.
LEMMA EventMade ==
  ASSUME NotifyInv, NEW w \in Writer, Operate(w)
  PROVE  NotifyInv'
<1>1. PICK op \in Op, ok \in BOOLEAN, statOk \in BOOLEAN :
         req' = [req EXCEPT ![w] = IF Dispatches(op, ok, statOk) THEN Bridge(Listen(op), nextId)
                                   ELSE NoEvent]
  BY ZenonT(30) DEF Operate
<1>2. nextId \in 1..MaxEvents /\ nextId' \in 1..(MaxEvents + 1)
  BY NotifyAssumption DEF NotifyInv, NotifyTypes, Operate
<1>3. \A action \in Actions : createManifestEvent(nextId, action) \in Event /\ createBlobEvent(nextId, action) \in Event
  BY <1>2 DEF createManifestEvent, createBlobEvent, Event, MediaTypes
<1>4. createDeleteEvent(nextId) \in Event
  BY <1>2 DEF createDeleteEvent, Event, Actions, MediaTypes
<1>5. Listen(op) \in {"ManifestPushed", "ManifestPulled", "BlobPushed", "BlobPulled", "BlobMounted",
                     "ManifestDeleted", "BlobDeleted", "TagDeleted", "RepoDeleted"}
  BY NotifyAssumption DEF Listen, ManifestListener, BlobListener
<1>6. Bridge(Listen(op), nextId) \in Ev
  BY <1>3, <1>4, <1>5 DEF Bridge, Ev, Actions
<1>7. NotifyTypes'
  BY <1>1, <1>2, <1>6 DEF NotifyInv, NotifyTypes, Operate, Ev
<1>8. ASSUME NEW d \in Endpoint PROVE EndpointOK(d)'
  BY Elsewhere DEF NotifyInv, Operate
<1>9. QED
  BY <1>7, <1>8 DEF NotifyInv, Operate

LEMMA AcceptStep ==
  ASSUME NotifyInv, NEW w \in Writer, Accept(w)
  PROVE  NotifyInv'
<1>1. req[w] \in Ev /\ sent \in Seq(Ev) /\ NoEvent \in Ev
  BY DEF NotifyInv, NotifyTypes, Ev
<1>2. sent' \in Seq(Ev) /\ Range(sent') = Range(sent) \cup {req[w]}
  BY <1>1, RangeAppend DEF Accept
<1>3. /\ bcast'.state = "send" /\ bcast'.ev = req[w] /\ bcast'.left = Sinks /\ bcast.state = "select"
      /\ bcast' \in [state : {"select", "send", "close", "closed"}, ev : Ev, left : Seq(Endpoint),
                    shutdown : BOOLEAN]
  BY <1>1, NotifyAssumption, ZenonT(30) DEF NotifyInv, NotifyTypes, Accept
<1>4. NotifyTypes'
  BY <1>1, <1>2, <1>3 DEF NotifyInv, NotifyTypes, Accept
<1>5. UNCHANGED <<eq, metrics, got, alive>>
  BY DEF Accept
<1>6. ASSUME NEW d \in Endpoint PROVE EndpointOK(d)'
  <2>1. QueueOK(d)'
    BY <1>3, <1>5, ZenonT(30) DEF NotifyInv, EndpointOK, QueueOK, WaitersOK, ClosingOK, CountersOK
  <2>2. ASSUME alive, NEW x \in Range(sent'), Wants(d, x) PROVE OnItsWay(d, x)'
    <3>1. CASE x = req[w]
      BY <1>3, <3>1 DEF OnItsWay, Endpoint
    <3>2. CASE x \in Range(sent)
      <4>1. OnItsWay(d, x)
        BY <2>2, <3>2 DEF NotifyInv, EndpointOK
      <4>2. QED
        BY <1>3, <1>5, <4>1 DEF OnItsWay
    <3>3. QED
      BY <1>2, <2>2, <3>1, <3>2
  <2>3. \A x : Wants(d, x)' <=> Wants(d, x)
    BY DEF Wants
  <2>4. Range(sent)' = Range(sent')
    BY DEF Range
  <2>5. QED
    BY <1>5, <2>1, <2>2, <2>3, <2>4 DEF EndpointOK
<1>7. QED
  BY <1>3, <1>4, <1>6 DEF NotifyInv

LEMMA RefusedStep ==
  ASSUME NotifyInv, NEW w \in Writer, Refused(w)
  PROVE  NotifyInv'
<1>1. NotifyTypes'
  BY ZenonT(30) DEF NotifyInv, NotifyTypes, Refused, Ev
<1>2. ASSUME NEW d \in Endpoint PROVE EndpointOK(d)'
  BY Elsewhere DEF NotifyInv, Refused
<1>3. QED
  BY <1>1, <1>2 DEF NotifyInv, Refused

\* The broadcaster is shut down: it closes one sink after the other.
LEMMA ShutdownStep ==
  ASSUME NotifyInv, Shutdown \/ BeginClose
  PROVE  NotifyInv'
<1>1. /\ UNCHANGED <<nextId, req, sent, eq, metrics, got, alive>>
      /\ \/ bcast'.state = bcast.state /\ bcast'.left = bcast.left /\ bcast'.ev = bcast.ev
         \/ bcast.state = "select" /\ bcast'.state = "close" /\ bcast'.left = Sinks
  BY ZenonT(30) DEF Shutdown, BeginClose, NotifyInv, NotifyTypes
<1>2. NotifyTypes'
  BY NotifyAssumption, ZenonT(30) DEF NotifyInv, NotifyTypes, Shutdown, BeginClose
<1>3. ASSUME NEW d \in Endpoint PROVE EndpointOK(d)'
  <2>1. QueueOK(d)'
    BY <1>1, ZenonT(30) DEF NotifyInv, EndpointOK, QueueOK, WaitersOK, ClosingOK, CountersOK
  <2>2. \A x : (Wants(d, x)' <=> Wants(d, x)) /\ (OnItsWay(d, x) => OnItsWay(d, x)')
    BY <1>1 DEF Wants, OnItsWay
  <2>3. QED
    BY <1>1, <2>1, <2>2 DEF NotifyInv, EndpointOK
<1>4. QED
  BY <1>1, <1>2, <1>3 DEF NotifyInv

\* The broadcaster goes on to the next sink to close.
LEMMA NextToClose ==
  ASSUME NotifyInv, bcast.state = "close", bcast.left # <<>>, bcast' = SinkClosed
  PROVE  /\ bcast'.state \in {"close", "closed"} /\ (bcast'.state = "close" => bcast'.left # <<>>)
         /\ bcast' \in [state : {"select", "send", "close", "closed"}, ev : Ev, left : Seq(Endpoint),
                       shutdown : BOOLEAN]
<1>1. /\ bcast \in [state : {"select", "send", "close", "closed"}, ev : Ev, left : Seq(Endpoint),
                    shutdown : BOOLEAN]
      /\ bcast.left \in Seq(Endpoint) /\ <<>> \in Seq(Endpoint)
  BY DEF NotifyInv, NotifyTypes
<1>2. Tail(bcast.left) \in Seq(Endpoint) /\ (Len(bcast.left) # 1 => Tail(bcast.left) # <<>>)
  BY <1>1, RangeTail, LastSink
<1>3. CASE Len(bcast.left) = 1
  BY <1>1, <1>3, ZenonT(30) DEF SinkClosed
<1>4. CASE Len(bcast.left) # 1
  <2>1. bcast' = [bcast EXCEPT !.left = Tail(bcast.left)]
    BY <1>4 DEF SinkClosed
  <2>2. QED
    BY <1>1, <1>2, <1>4, <2>1, ZenonT(30)
<1>5. QED
  BY <1>3, <1>4

LEMMA IgnoredStep ==
  ASSUME NotifyInv, NEW e \in Endpoint, CloseIgnored(e)
  PROVE  NotifyInv'
<1>1. bcast.state = "close" /\ bcast.left # <<>> /\ e = Head(bcast.left) /\ e \notin Plain
  BY SinksExist DEF NotifyInv, CloseIgnored
<1>2. /\ bcast'.state \in {"close", "closed"} /\ (bcast'.state = "close" => bcast'.left # <<>>)
      /\ bcast' \in [state : {"select", "send", "close", "closed"}, ev : Ev, left : Seq(Endpoint),
                    shutdown : BOOLEAN]
  BY <1>1, NextToClose DEF CloseIgnored
<1>3. UNCHANGED <<nextId, req, sent, eq, metrics, got, alive>>
  BY DEF CloseIgnored
<1>4. NotifyTypes'
  BY <1>2, <1>3 DEF NotifyInv, NotifyTypes
<1>5. ASSUME NEW d \in Endpoint PROVE EndpointOK(d)'
  <2>1. eq[d].closer \notin {"wait", "closing"}
    BY <1>1 DEF NotifyInv, EndpointOK, QueueOK, ClosingOK
  <2>2. QueueOK(d)'
    <3>1. WaitersOK(d) /\ ClosingOK(d) /\ CountersOK(d)
      BY DEF NotifyInv, EndpointOK, QueueOK
    <3>2. WaitersOK(d)' /\ CountersOK(d)'
      BY <1>3, <3>1, ZenonT(30) DEF WaitersOK, CountersOK
    <3>3. ClosingOK(d)'
      BY <1>2, <1>3, <2>1, <3>1 DEF ClosingOK
    <3>4. QED
      BY <3>2, <3>3 DEF QueueOK
  <2>3. \A x : (Wants(d, x)' <=> Wants(d, x)) /\ (OnItsWay(d, x) => OnItsWay(d, x)')
    BY <1>1, <1>3 DEF Wants, OnItsWay
  <2>4. QED
    BY <1>3, <2>2, <2>3 DEF NotifyInv, EndpointOK
<1>6. QED
  BY <1>2, <1>4, <1>5 DEF NotifyInv

LEMMA CloseQueueStep ==
  ASSUME NotifyInv, NEW e \in Endpoint, CloseQueue(e)
  PROVE  NotifyInv'
<1> DEFINE a == [eq[e] EXCEPT !.closed = TRUE]
           s == Signal(a)
           q == [s EXCEPT !.closer = "wait", !.waiting = Append(s.waiting, "close")]
<1>1. /\ eq[e] \in Queue /\ QueueOK(e) /\ metrics[e] \in Counters /\ got[e] \in Seq(Ev)
      /\ eq[e].closer = "none" /\ eq[e].run # "gone" /\ ~eq[e].closed
  BY DEF NotifyInv, NotifyTypes, EndpointOK, QueueOK, ClosingOK, CloseQueue
<1>2. /\ a \in Queue /\ a.events = eq[e].events /\ a.run = eq[e].run /\ a.closed
      /\ a.closer = eq[e].closer /\ a.waiting = eq[e].waiting /\ a.ev = eq[e].ev
  BY <1>1, ZenonT(30) DEF Queue
<1>3. eq' = [eq EXCEPT ![e] = q]
  BY DEF CloseQueue
<1> HIDE DEF a
<1>4. /\ s \in Queue /\ s.events = a.events /\ s.closed /\ s.closer = a.closer /\ s.ev = a.ev
      /\ s.waiting = <<>>
      /\ \/ s.run = "next" /\ a.run = "wait"
         \/ s.run = a.run /\ a.run # "wait"
  <2>1. CASE eq[e].run = "wait"
    <3>1. a.waiting = <<"run">>
      BY <1>1, <1>2, <2>1 DEF QueueOK, WaitersOK
    <3>2. s = [a EXCEPT !.waiting = <<>>, !.run = "next"]
      BY <1>2, <3>1, Waking, ZenonT(30)
    <3>3. <<>> \in Seq({"run", "close"})
      OBVIOUS
    <3>4. QED
      BY <1>2, <2>1, <3>2, <3>3, ZenonT(30) DEF Queue, RunSteps
  <2>2. CASE eq[e].run # "wait"
    <3>1. a.waiting = <<>>
      BY <1>1, <1>2, <2>2 DEF QueueOK, WaitersOK
    <3>2. s = a
      BY <1>2, <3>1, Waking, ZenonT(30)
    <3>3. QED
      BY <1>2, <2>2, <3>1, <3>2
  <2>3. QED
    BY <2>1, <2>2
<1> HIDE DEF s
<1>5. /\ q \in Queue /\ q.events = eq[e].events /\ q.closed /\ q.closer = "wait" /\ q.ev = eq[e].ev
      /\ q.waiting = <<"close">>
      /\ \/ q.run = "next" /\ eq[e].run = "wait"
         \/ q.run = eq[e].run /\ eq[e].run # "wait"
  <2>1. Append(s.waiting, "close") = <<"close">> /\ <<"close">> \in Seq({"run", "close"})
    BY <1>4
  <2>2. QED
    BY <1>2, <1>4, <2>1, ZenonT(30) DEF Queue, CloserSteps
<1> HIDE DEF q
<1>6. /\ metrics' = [metrics EXCEPT ![e] = metrics[e]] /\ got' = [got EXCEPT ![e] = got[e]]
      /\ metrics'[e] = metrics[e] /\ got'[e] = got[e] /\ eq'[e] = q
  BY <1>3, ZenonT(30) DEF CloseQueue, NotifyInv, NotifyTypes
<1>7. UNCHANGED <<nextId, req, sent, bcast, alive>> /\ alive
  BY DEF CloseQueue
<1>8. QueueOK(e)'
  <2>1. WaitersOK(e)'
    BY <1>5, <1>6 DEF WaitersOK
  <2>2. ClosingOK(e)'
    <3>1. bcast.left # <<>> /\ bcast.state = "close" /\ e = Head(bcast.left) /\ e \in Plain
      BY SinksExist DEF NotifyInv, CloseQueue
    <3>2. QED
      BY <1>1, <1>5, <1>6, <1>7, <3>1, ZenonT(30) DEF ClosingOK
  <2>3. CountersOK(e)'
    <3>1. Counted(eq[e].run, Len(eq[e].events), metrics[e]) /\ Len(eq[e].events) \in Nat
      BY <1>1 DEF QueueOK, CountersOK, Queue
    <3>2. Counted(q.run, Len(eq[e].events), metrics[e])
      BY <1>1, <1>5, <3>1, Counting, ZenonT(30)
    <3>3. QED
      BY <1>5, <1>6, <3>2 DEF CountersOK
  <2>4. QED
    BY <2>1, <2>2, <2>3 DEF QueueOK
<1>9. \A x : OnItsWay(e, x) => OnItsWay(e, x)'
  BY <1>5, <1>6, <1>7 DEF OnItsWay, Holding
<1>10. QED
  BY <1>1, <1>3, <1>5, <1>6, <1>7, <1>8, <1>9, GoroutineStep, ZenonT(30)

LEMMA CloseReturnsStep ==
  ASSUME NotifyInv, NEW e \in Endpoint, CloseReturns(e)
  PROVE  NotifyInv'
<1>1. /\ eq[e] \in Queue /\ QueueOK(e) /\ eq[e].closer = "closing" /\ bcast.state = "close"
      /\ bcast.left # <<>> /\ e = Head(bcast.left) /\ eq \in [Endpoint -> Queue]
  BY DEF NotifyInv, NotifyTypes, EndpointOK, QueueOK, ClosingOK, CloseReturns
<1>2. /\ bcast'.state \in {"close", "closed"} /\ (bcast'.state = "close" => bcast'.left # <<>>)
      /\ bcast' \in [state : {"select", "send", "close", "closed"}, ev : Ev, left : Seq(Endpoint),
                    shutdown : BOOLEAN]
  BY <1>1, NextToClose DEF CloseReturns
<1>3. UNCHANGED <<nextId, req, sent, metrics, got, alive>>
  BY DEF CloseReturns
<1>4. /\ eq'[e] \in Queue /\ eq'[e].closer = "done" /\ eq'[e].closed = eq[e].closed /\ eq'[e].run = eq[e].run
      /\ eq'[e].events = eq[e].events /\ eq'[e].waiting = eq[e].waiting /\ eq'[e].ev = eq[e].ev
      /\ eq' \in [Endpoint -> Queue] /\ \A d \in Endpoint \ {e} : eq'[d] = eq[d]
  BY <1>1, ZenonT(30) DEF CloseReturns, Queue, CloserSteps
<1>5. NotifyTypes'
  BY <1>2, <1>3, <1>4, ZenonT(30) DEF NotifyInv, NotifyTypes
<1>6. ASSUME NEW d \in Endpoint PROVE EndpointOK(d)'
  <2>1. EndpointOK(d) /\ WaitersOK(d) /\ ClosingOK(d) /\ CountersOK(d)
    BY DEF NotifyInv, EndpointOK, QueueOK
  <2>2. \A x : (Wants(d, x)' <=> Wants(d, x)) /\ (OnItsWay(d, x) => OnItsWay(d, x)')
    <3>1. eq'[d].events = eq[d].events /\ eq'[d].run = eq[d].run /\ eq'[d].ev = eq[d].ev
      BY <1>4, ZenonT(30)
    <3>2. QED
      BY <1>1, <1>3, <3>1 DEF Wants, OnItsWay
  <2>3. CASE d = e
    <3>1. WaitersOK(d)'
      BY <1>1, <1>4, <2>1, <2>3, ZenonT(30) DEF WaitersOK
    <3>2. ClosingOK(d)'
      BY <1>1, <1>2, <1>3, <1>4, <2>1, <2>3, ZenonT(30) DEF ClosingOK
    <3>3. CountersOK(d)'
      BY <1>3, <1>4, <2>1, <2>3, ZenonT(30) DEF CountersOK
    <3>4. QED
      BY <1>3, <2>1, <2>2, <3>1, <3>2, <3>3 DEF EndpointOK, QueueOK
  <2>4. CASE d # e
    <3>1. eq'[d] = eq[d]
      BY <1>4, <2>4
    <3>2. eq[d].closer \notin {"wait", "closing"}
      BY <1>1, <2>1, <2>4 DEF ClosingOK
    <3>3. WaitersOK(d)' /\ CountersOK(d)'
      BY <1>3, <2>1, <3>1, ZenonT(30) DEF WaitersOK, CountersOK
    <3>4. ClosingOK(d)'
      BY <1>2, <1>3, <2>1, <3>1, <3>2, ZenonT(30) DEF ClosingOK
    <3>5. QED
      BY <1>3, <2>1, <2>2, <3>3, <3>4 DEF EndpointOK, QueueOK
  <2>5. QED
    BY <2>3, <2>4
<1>7. QED
  BY <1>2, <1>5, <1>6 DEF NotifyInv

\* Starting and ending.
LEMMA NotifyFresh ==
  /\ NewQueue \in Queue /\ NewMetrics \in Counters /\ <<>> \in Seq(Ev) /\ NoEvent \in Ev
  /\ NewBroadcaster \in [state : {"select", "send", "close", "closed"}, ev : Ev, left : Seq(Endpoint),
                         shutdown : BOOLEAN]
<1>1. <<>> \in Seq(Ev) /\ <<>> \in Seq(Endpoint) /\ <<>> \in Seq({"run", "close"}) /\ NoEvent \in Ev
  BY EmptySeq DEF Ev
<1>2. NewQueue \in Queue
  BY <1>1 DEF NewQueue, Queue, RunSteps, CloserSteps
<1>3. NewMetrics \in Counters
  BY DEF NewMetrics, Counters
<1>4. NewBroadcaster \in [state : {"select", "send", "close", "closed"}, ev : Ev, left : Seq(Endpoint),
                         shutdown : BOOLEAN]
  BY <1>1 DEF NewBroadcaster
<1>5. QED
  BY <1>1, <1>2, <1>3, <1>4

LEMMA FreshQueue ==
  /\ NewQueue.run = "next" /\ NewQueue.closer = "none" /\ NewQueue.closed = FALSE
  /\ NewQueue.waiting = <<>> /\ NewQueue.events = <<>>
  /\ Counted("next", Len(<<>>), NewMetrics)
<1>1. Len(<<>>) = 0
  BY EmptySeq
<1>2. Counted("next", 0, NewMetrics)
  BY DEF Counted, NewMetrics, Holding
<1>3. QED
  BY <1>1, <1>2 DEF NewQueue

LEMMA NotifyInvInit ==
  NotifyInit => NotifyInv
<1> SUFFICES ASSUME NotifyInit PROVE NotifyInv
  OBVIOUS
<1>1. NotifyTypes
  <2>1. nextId \in 1..(MaxEvents + 1) /\ alive \in BOOLEAN
    BY NotifyAssumption DEF NotifyInit
  <2>2. /\ req \in [Writer -> Ev] /\ eq \in [Endpoint -> Queue]
        /\ metrics \in [Endpoint -> Counters] /\ got \in [Endpoint -> Seq(Ev)]
    BY NotifyFresh, ZenonT(30) DEF NotifyInit
  <2>3. QED
    BY <2>1, <2>2, NotifyFresh, ZenonT(30) DEF NotifyInit, NotifyTypes
<1>2. ASSUME NEW e \in Endpoint PROVE EndpointOK(e)
  <2>1. eq[e] = NewQueue /\ metrics[e] = NewMetrics
    BY DEF NotifyInit
  <2>2. WaitersOK(e) /\ ClosingOK(e) /\ CountersOK(e)
    BY <2>1, FreshQueue DEF WaitersOK, ClosingOK, CountersOK
  <2>3. Range(sent) = {}
    BY DEF NotifyInit, Range
  <2>4. QED
    BY <2>2, <2>3 DEF EndpointOK, QueueOK
<1>3. QED
  BY <1>1, <1>2 DEF NotifyInv, NotifyInit, NewBroadcaster

LEMMA EndStep ==
  ASSUME NotifyInv, End
  PROVE  NotifyInv'
<1>1. NotifyTypes'
  <2>1. /\ req' \in [Writer -> Ev] /\ eq' \in [Endpoint -> Queue] /\ metrics' \in [Endpoint -> Counters]
    BY NotifyFresh, ZenonT(30) DEF End
  <2>2. QED
    BY <2>1, NotifyFresh, ZenonT(30) DEF NotifyInv, NotifyTypes, End
<1>2. ASSUME NEW e \in Endpoint PROVE EndpointOK(e)'
  <2>1. eq'[e] = NewQueue /\ metrics'[e] = NewMetrics
    BY DEF End
  <2>2. WaitersOK(e)' /\ ClosingOK(e)' /\ CountersOK(e)'
    BY <2>1, FreshQueue DEF WaitersOK, ClosingOK, CountersOK
  <2>3. QED
    BY <2>2 DEF EndpointOK, QueueOK, End
<1>3. QED
  BY <1>1, <1>2 DEF NotifyInv, End, NewBroadcaster

LEMMA NotifyInvNext ==
  NotifyInv /\ [NotifyNext]_notifyVars => NotifyInv'
<1> SUFFICES ASSUME NotifyInv, [NotifyNext]_notifyVars PROVE NotifyInv'
  OBVIOUS
<1>1. CASE UNCHANGED notifyVars
  <2>1. NotifyTypes'
    BY <1>1 DEF notifyVars, NotifyInv, NotifyTypes
  <2>2. ASSUME NEW d \in Endpoint PROVE EndpointOK(d)'
    BY <1>1, Elsewhere DEF NotifyInv, notifyVars
  <2>3. QED
    BY <1>1, <2>1, <2>2 DEF NotifyInv, notifyVars
<1>2. ASSUME NEW w \in Writer, Operate(w) \/ Accept(w) \/ Refused(w) PROVE NotifyInv'
  BY <1>2, EventMade, AcceptStep, RefusedStep
<1>3. ASSUME NEW e \in Endpoint, Dispatch(e) \/ Next_Pop(e) \/ Next_Wait(e) \/ Next_Closed(e)
      PROVE  NotifyInv'
  BY <1>3, DispatchStep, PopStep, WaitStep, ClosedStep
<1>4. ASSUME NEW e \in Endpoint, Proceed(e) \/ Post(e) \/ PostFails(e) \/ Egress(e) PROVE NotifyInv'
  BY <1>4, ProceedStep, PostStep, PostFailsStep, EgressStep
<1>5. ASSUME NEW e \in Endpoint, CloseIgnored(e) \/ CloseQueue(e) \/ CloseReturns(e) PROVE NotifyInv'
  BY <1>5, IgnoredStep, CloseQueueStep, CloseReturnsStep
<1>6. CASE Shutdown \/ BeginClose \/ End
  BY <1>6, ShutdownStep, EndStep
<1>7. QED
  BY <1>1, <1>2, <1>3, <1>4, <1>5, <1>6 DEF NotifyNext

\* eventQueue.Close returns only when the queue it closes is flushed.
THEOREM NotifyFlushed == NotifySpec => []FlushedByClose
<1>1. NotifyInv => FlushedByClose
  <2> SUFFICES ASSUME NotifyInv, NEW e \in Plain, eq[e].closer \in {"closing", "done"}
               PROVE  /\ eq[e].events = <<>> /\ eq[e].run = "gone"
                      /\ metrics[e].pending = 0 /\ metrics[e].successes = metrics[e].events
                      /\ \A ev \in Range(sent) : Wants(e, ev) => ev \in Range(got[e])
    BY DEF FlushedByClose
  <2>1. e \in Endpoint /\ EndpointOK(e) /\ QueueOK(e) /\ metrics[e] \in Counters
    BY NotifyAssumption DEF NotifyInv, NotifyTypes, EndpointOK
  <2>2. /\ eq[e].run = "gone" /\ eq[e].events = <<>> /\ alive /\ bcast.state \in {"close", "closed"}
    BY <2>1 DEF QueueOK, ClosingOK
  <2>3. metrics[e].pending = 0 /\ metrics[e].successes = metrics[e].events
    <3>1. Counted("gone", 0, metrics[e])
      BY <2>1, <2>2, EmptySeq DEF QueueOK, CountersOK
    <3>2. QED
      BY <2>1, <3>1 DEF Counted, Counters, Holding
  <2>4. ASSUME NEW x \in Range(sent), Wants(e, x) PROVE x \in Range(got[e])
    <3>1. OnItsWay(e, x)
      BY <2>1, <2>2, <2>4 DEF EndpointOK
    <3>2. Range(<<>>) = {}
      BY DEF Range
    <3>3. QED
      BY <2>2, <3>1, <3>2 DEF OnItsWay, Holding
  <2>5. QED
    BY <2>2, <2>3, <2>4
<1>2. QED
  BY <1>1, NotifyInvInit, NotifyInvNext, PTL DEF NotifySpec
=============================================================================
