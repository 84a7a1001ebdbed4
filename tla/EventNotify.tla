----------------------------- MODULE EventNotify -----------------------------
(***************************************************************************)
(* Notifications: the listener around a repository (listener.go), the      *)
(* bridge that turns operations into events (bridge.go), the broadcaster   *)
(* of the go-events library, and for each endpoint the sink stack that     *)
(* NewEndpoint builds: ignoredSink, eventQueue with its goroutine, the     *)
(* library's retrying sink with a breaker, and httpSink.                   *)
(*                                                                         *)
(* A step is one critical section, one channel hand-over or one HTTP       *)
(* exchange.  The condition variable of the queue is the FIFO list of the  *)
(* goroutines that wait on it.  The process may end at any moment.         *)
(***************************************************************************)
EXTENDS Naturals, Sequences, Functions

CONSTANTS Writer,     \* requests being served
          Sinks,      \* the endpoints, in the order of the configuration
          Plain,      \* those configured without an ignore list
          IgnoreMediaTypes, IgnoreActions,  \* ignore lists of the others
          Op,         \* operations the requests perform
          Threshold,  \* failures after which the breaker backs off
          MaxEvents, MaxFaults,  \* bounds: operations, failed exchanges
          NoEvent, MayEnd  \* MayEnd: the process may be stopped

Endpoint == Range(Sinks)

ASSUME NotifyAssumption ==
    /\ Sinks \in Seq(Endpoint) /\ Plain \subseteq Endpoint
    /\ MaxEvents \in Nat /\ Threshold \in Nat
    /\ Op \subseteq {"ManifestPut", "ManifestGet", "ManifestDelete", "BlobPut", "BlobCommit", "BlobGet",
                    "BlobOpen", "BlobServe", "BlobMount", "BlobDelete", "Untag", "Remove"}

VARIABLES nextId, req, sent, bcast, eq, metrics, got, faults, alive

notifyVars == <<nextId, req, sent, bcast, eq, metrics, got, faults, alive>>

-----------------------------------------------------------------------------
\* The events of the bridge: [id, action, mediaType].
Actions == {"push", "pull", "mount", "delete"}
MediaTypes == {"manifest", "layer", "none"}

createManifestEvent(id, action) == [id |-> id, action |-> action, mediaType |-> "manifest"]
createBlobEvent(id, action) == [id |-> id, action |-> action, mediaType |-> "layer"]
createDeleteEvent(id) == [id |-> id, action |-> "delete", mediaType |-> "none"]

\* The bridge's methods.
Bridge(method, id) ==
    CASE method = "ManifestPushed" -> createManifestEvent(id, "push")
      [] method = "ManifestPulled" -> createManifestEvent(id, "pull")
      [] method = "BlobPushed" -> createBlobEvent(id, "push")
      [] method = "BlobPulled" -> createBlobEvent(id, "pull")
      [] method = "BlobMounted" -> createBlobEvent(id, "mount")
      [] method \in {"ManifestDeleted", "BlobDeleted", "TagDeleted", "RepoDeleted"} -> createDeleteEvent(id)

\* manifestServiceListener; blobServiceListener and blobWriterListener: the method called
\* for an operation.
ManifestListener(op) ==
    CASE op = "ManifestPut" -> "ManifestPushed"
      [] op = "ManifestGet" -> "ManifestPulled"
      [] op = "ManifestDelete" -> "ManifestDeleted"

BlobListener(op) ==
    CASE op \in {"BlobPut", "BlobCommit"} -> "BlobPushed"
      [] op \in {"BlobGet", "BlobOpen", "BlobServe"} -> "BlobPulled"
      [] op = "BlobMount" -> "BlobMounted"
      [] op = "BlobDelete" -> "BlobDeleted"

\* repositoryListener, tagServiceListener and removerListener
Listen(op) ==
    CASE op \in {"ManifestPut", "ManifestGet", "ManifestDelete"} -> ManifestListener(op)
      [] op = "Untag" -> "TagDeleted"
      [] op = "Remove" -> "RepoDeleted"
      [] OTHER -> BlobListener(op)

Pulls == {"BlobGet", "BlobOpen", "BlobServe"}

\* Pulls of a blob ask for its descriptor again before the event can be made.
Dispatches(op, ok, statOk) == ok /\ (op \in Pulls => statOk)

Event == [id : 1..MaxEvents, action : Actions, mediaType : MediaTypes]

\* ignoredSink.Write: whether the event is passed along.
Wants(e, ev) == e \in Plain \/ (ev.mediaType \notin IgnoreMediaTypes /\ ev.action \notin IgnoreActions)

-----------------------------------------------------------------------------
\* eq[e]: the queue, its goroutine (run, with the event it holds) and a caller of Close.
\* waiting: goroutines in cond.Wait, in order.
NewQueue == [events |-> <<>>, closed |-> FALSE, waiting |-> <<>>, run |-> "next",
             ev |-> NoEvent, closer |-> "none", recent |-> 0]
NewBroadcaster == [state |-> "select", ev |-> NoEvent, left |-> <<>>, shutdown |-> FALSE]
NewMetrics == [events |-> 0, pending |-> 0, successes |-> 0]

RunSteps == {"next", "wait", "write", "backoff", "post", "egress", "gone"}
CloserSteps == {"none", "wait", "closing", "done"}

\* Queues, broadcaster, listeners and metrics have their types.
NotifyTypeOK ==
    /\ nextId \in 1..(MaxEvents + 1) /\ faults \in 0..MaxFaults /\ alive \in BOOLEAN
    /\ req \in [Writer -> Event \cup {NoEvent}]
    /\ Range(sent) \subseteq Event
    /\ bcast.state \in {"select", "send", "close", "closed"}
    /\ bcast.ev \in Event \cup {NoEvent} /\ Range(bcast.left) \subseteq Endpoint
    /\ \A e \in Endpoint :
          /\ Range(eq[e].events) \subseteq Event /\ eq[e].ev \in Event \cup {NoEvent}
          /\ eq[e].run \in RunSteps /\ eq[e].closer \in CloserSteps
          /\ eq[e].recent \in 0..Threshold /\ Range(eq[e].waiting) \subseteq {"run", "close"}
          /\ metrics[e].pending >= 0 /\ Range(got[e]) \subseteq Event

NotifyInit ==
    /\ nextId = 1 /\ req = [w \in Writer |-> NoEvent]
    /\ sent = <<>>
    /\ bcast = NewBroadcaster
    /\ eq = [e \in Endpoint |-> NewQueue]
    /\ metrics = [e \in Endpoint |-> NewMetrics]
    /\ got = [e \in Endpoint |-> <<>>]
    /\ faults = 0 /\ alive \in BOOLEAN

\* cond.Signal wakes the goroutine that waits longest, cond.Broadcast all of them.
Woken(q, who) == [q EXCEPT !.run = IF "run" \in who THEN "next" ELSE @,
                           !.closer = IF "close" \in who THEN "closing" ELSE @]
Signal(q) == IF q.waiting = <<>> THEN q
             ELSE Woken([q EXCEPT !.waiting = Tail(@)], {Head(q.waiting)})
Broadcast(q) == Woken([q EXCEPT !.waiting = <<>>], Range(q.waiting))

-----------------------------------------------------------------------------
\* A request performs its operation; when it succeeded, the listener has an event to write.
Operate(w) ==
    /\ alive /\ req[w] = NoEvent /\ nextId <= MaxEvents
    /\ \E op \in Op, ok \in BOOLEAN, statOk \in BOOLEAN :
          LET event == IF Dispatches(op, ok, statOk) THEN Bridge(Listen(op), nextId) ELSE NoEvent
          IN /\ req' = [req EXCEPT ![w] = event]
    /\ nextId' = nextId + 1
    /\ UNCHANGED <<sent, bcast, eq, metrics, got, faults, alive>>

\* Broadcaster.Write and run: the hand-over of an event on the unbuffered channel.
Accept(w) ==
    /\ alive /\ req[w] # NoEvent /\ bcast.state = "select"
    /\ bcast' = [bcast EXCEPT !.state = "send", !.ev = req[w], !.left = Sinks]
    /\ sent' = Append(sent, req[w])
    /\ req' = [req EXCEPT ![w] = NoEvent]
    /\ UNCHANGED <<nextId, eq, metrics, got, faults, alive>>

\* Broadcaster.Write on a closed broadcaster: the listener logs the error.
Refused(w) ==
    /\ alive /\ req[w] # NoEvent /\ bcast.state = "closed"
    /\ req' = [req EXCEPT ![w] = NoEvent]
    /\ UNCHANGED <<nextId, sent, bcast, eq, metrics, got, faults, alive>>

Enqueue_Front(e, ev) ==
    IF eq[e].closed THEN UNCHANGED <<eq, metrics>>
    ELSE /\ eq' = [eq EXCEPT ![e] = Signal([eq[e] EXCEPT !.events = <<ev>> \o @])]
         /\ metrics' = [metrics EXCEPT ![e].events = @ + 1, ![e].pending = @ + 1]

\* eventQueue.Write, with the ingress listener of the metrics.
Enqueue(e, ev) ==
    IF eq[e].closed THEN UNCHANGED <<eq, metrics>>
    ELSE /\ eq' = [eq EXCEPT ![e] = Signal([eq[e] EXCEPT !.events = Append(@, ev)])]
         /\ metrics' = [metrics EXCEPT ![e].events = @ + 1, ![e].pending = @ + 1]

\* The broadcaster writes to each sink in turn and selects again after the last one.
Dispatch(e) ==
    /\ alive /\ bcast.state = "send" /\ e = Head(bcast.left)
    /\ IF Wants(e, bcast.ev) THEN Enqueue(e, bcast.ev) ELSE UNCHANGED <<eq, metrics>>
    /\ bcast' = IF Len(bcast.left) = 1
                THEN [bcast EXCEPT !.state = "select", !.ev = NoEvent, !.left = <<>>]
                ELSE [bcast EXCEPT !.left = Tail(@)]
    /\ UNCHANGED <<nextId, req, sent, got, faults, alive>>

-----------------------------------------------------------------------------
\* eventQueue.next: the front event, or a wait, or the end of the goroutine.
Next_Pop(e) ==
    /\ alive /\ eq[e].run = "next" /\ eq[e].events # <<>>
    /\ eq' = [eq EXCEPT ![e].ev = Head(eq[e].events), ![e].events = Tail(@), ![e].run = "write"]
    /\ UNCHANGED <<nextId, req, sent, bcast, metrics, got, faults, alive>>

Next_Wait(e) ==
    /\ alive /\ eq[e].run = "next" /\ eq[e].events = <<>> /\ ~eq[e].closed
    /\ eq' = [eq EXCEPT ![e].run = "wait", ![e].waiting = Append(@, "run")]
    /\ UNCHANGED <<nextId, req, sent, bcast, metrics, got, faults, alive>>

Next_Closed_Early(e) ==
    /\ alive /\ eq[e].run = "next" /\ eq[e].closed
    /\ eq' = [eq EXCEPT ![e] = [Broadcast(@) EXCEPT !.run = "gone"]]
    /\ UNCHANGED <<nextId, req, sent, bcast, metrics, got, faults, alive>>

Next_Closed(e) ==
    /\ alive /\ eq[e].run = "next" /\ eq[e].events = <<>> /\ eq[e].closed
    /\ eq' = [eq EXCEPT ![e] = [Broadcast(@) EXCEPT !.run = "gone"]]
    /\ UNCHANGED <<nextId, req, sent, bcast, metrics, got, faults, alive>>

\* RetryingSink.Write with Breaker.Proceed: back off once Threshold attempts in a row failed.
Proceed(e) ==
    /\ alive
    /\ \/ eq[e].run = "write" /\ eq' = [eq EXCEPT ![e].run = IF eq[e].recent < Threshold THEN "post" ELSE "backoff"]
       \/ eq[e].run = "backoff" /\ eq' = [eq EXCEPT ![e].run = "post"]
    /\ UNCHANGED <<nextId, req, sent, bcast, metrics, got, faults, alive>>

\* httpSink.Write, answered with a status in 200..399.
Post(e) ==
    /\ alive /\ eq[e].run = "post"
    /\ got' = [got EXCEPT ![e] = Append(@, eq[e].ev)]
    /\ metrics' = [metrics EXCEPT ![e].successes = @ + 1]
    /\ eq' = [eq EXCEPT ![e].run = "egress", ![e].recent = 0]
    /\ UNCHANGED <<nextId, req, sent, bcast, faults, alive>>

\* httpSink.Write, answered with another status or not at all; the endpoint may have received
\* the event all the same.  Failures and errors are counted apart, which nothing reads.
PostFails(e) ==
    /\ alive /\ eq[e].run = "post" /\ faults < MaxFaults
    /\ \E received \in BOOLEAN :
          got' = IF received THEN [got EXCEPT ![e] = Append(@, eq[e].ev)] ELSE got
    /\ eq' = [eq EXCEPT ![e].run = "write",
                        ![e].recent = IF @ < Threshold THEN @ + 1 ELSE @]
    /\ faults' = faults + 1
    /\ UNCHANGED <<nextId, req, sent, bcast, metrics, alive>>

\* The rest of eventQueue.run's iteration: the egress listener of the metrics.
Egress(e) ==
    /\ alive /\ eq[e].run = "egress"
    /\ metrics' = [metrics EXCEPT ![e].pending = @ - 1]
    /\ eq' = [eq EXCEPT ![e].run = "next", ![e].ev = NoEvent]
    /\ UNCHANGED <<nextId, req, sent, bcast, got, faults, alive>>

-----------------------------------------------------------------------------
\* Broadcaster.Close: asked for once, seen by the broadcaster's loop when it selects.
Shutdown ==
    /\ alive /\ ~bcast.shutdown
    /\ bcast' = [bcast EXCEPT !.shutdown = TRUE]
    /\ UNCHANGED <<nextId, req, sent, eq, metrics, got, faults, alive>>

BeginClose ==
    /\ alive /\ bcast.shutdown /\ bcast.state = "select"
    /\ bcast' = [bcast EXCEPT !.state = "close", !.left = Sinks]
    /\ UNCHANGED <<nextId, req, sent, eq, metrics, got, faults, alive>>

SinkClosed == IF Len(bcast.left) = 1 THEN [bcast EXCEPT !.state = "closed", !.left = <<>>]
              ELSE [bcast EXCEPT !.left = Tail(@)]

\* ignoredSink.Close returns at once; the queue behind it stays open.
CloseIgnored(e) ==
    /\ alive /\ bcast.state = "close" /\ e = Head(bcast.left) /\ e \notin Plain
    /\ bcast' = SinkClosed
    /\ UNCHANGED <<nextId, req, sent, eq, metrics, got, faults, alive>>

CloseQueue_NoSignal(e) ==
    /\ alive /\ bcast.state = "close" /\ e = Head(bcast.left) /\ e \in Plain
    /\ eq[e].closer = "none"
    /\ eq' = [eq EXCEPT ![e].closed = TRUE, ![e].closer = "wait", ![e].waiting = Append(@, "close")]
    /\ UNCHANGED <<nextId, req, sent, bcast, metrics, got, faults, alive>>

\* eventQueue.Close up to its cond.Wait.
CloseQueue(e) ==
    /\ alive /\ bcast.state = "close" /\ e = Head(bcast.left) /\ e \in Plain
    /\ eq[e].closer = "none"
    /\ LET q == Signal([eq[e] EXCEPT !.closed = TRUE])
       IN  eq' = [eq EXCEPT ![e] = [q EXCEPT !.closer = "wait", !.waiting = Append(q.waiting, "close")]]
    /\ UNCHANGED <<nextId, req, sent, bcast, metrics, got, faults, alive>>

\* eventQueue.Close after its cond.Wait: the sink below is closed.
CloseReturns(e) ==
    /\ alive /\ eq[e].closer = "closing"
    /\ eq' = [eq EXCEPT ![e].closer = "done"]
    /\ bcast' = SinkClosed
    /\ UNCHANGED <<nextId, req, sent, metrics, got, faults, alive>>

\* The process ends: main returned, or a crash.  The queues are in memory.
End ==
    /\ alive /\ MayEnd
    /\ alive' = FALSE
    /\ req' = [w \in Writer |-> NoEvent]
    /\ bcast' = NewBroadcaster
    /\ eq' = [e \in Endpoint |-> NewQueue]
    /\ metrics' = [e \in Endpoint |-> NewMetrics]
    /\ UNCHANGED <<nextId, sent, got, faults>>

NotifyNext ==
    \/ \E w \in Writer : Operate(w) \/ Accept(w) \/ Refused(w)
    \/ \E e \in Endpoint : \/ Dispatch(e)
                           \/ Next_Pop(e) \/ Next_Wait(e) \/ Next_Closed(e)
                           \/ Proceed(e) \/ Post(e) \/ PostFails(e) \/ Egress(e)
                           \/ CloseIgnored(e) \/ CloseQueue(e) \/ CloseReturns(e)
    \/ Shutdown \/ BeginClose \/ End

\* The goroutines of the broadcaster and of the queues run, and an exchange that does not
\* fail completes.  Nothing makes requests arrive, an exchange fail or the process end.
NotifyFairness ==
    /\ \A w \in Writer : WF_notifyVars(Accept(w) \/ Refused(w))
    /\ WF_notifyVars(BeginClose)
    /\ \A e \in Endpoint :
          /\ WF_notifyVars(Dispatch(e))
          /\ WF_notifyVars(\/ Next_Pop(e) \/ Next_Wait(e) \/ Next_Closed(e)
                           \/ Proceed(e) \/ Post(e) \/ Egress(e))
          /\ WF_notifyVars(CloseIgnored(e) \/ CloseQueue(e) \/ CloseReturns(e))

NotifySpec == NotifyInit /\ [][NotifyNext]_notifyVars /\ NotifyFairness

-----------------------------------------------------------------------------

\* "Close shuts down the event queue, flushing": when eventQueue.Close returns, every event
\* the queue ever accepted has been received, no event is accepted later, and the counters an
\* operator reads say so.
FlushedByClose ==
    \A e \in Plain : eq[e].closer \in {"closing", "done"} =>
        /\ eq[e].events = <<>> /\ eq[e].run = "gone"
        /\ metrics[e].pending = 0 /\ metrics[e].successes = metrics[e].events
        /\ \A ev \in Range(sent) : Wants(e, ev) => ev \in Range(got[e])

\* Closing the broadcaster ends: no goroutine misses the signal it waits for.
CloseEnds == bcast.shutdown ~> (bcast.state = "closed" \/ ~alive)
=============================================================================
