----------------------------- MODULE KafkaClient -----------------------------
(***************************************************************************)
(* The lifecycle of the Kafka client (kafka.service.ts): one session per   *)
(* consumer group, whose loop handles a message, dead-letters it if the    *)
(* handler fails and commits its offset; one task that rebuilds every      *)
(* client after a failure; the circuit breaker that producers and starting *)
(* sessions share; the shutdown.                                           *)
(*                                                                         *)
(* The log of a group is one partition of its topics; what a message says  *)
(* is left out.  A session reads from the committed offset of its group,   *)
(* or from the end of the log when there is none: skipped remembers what   *)
(* such a session passes over.  A handler that fails counts as one that is *)
(* done: its message goes to the dead letters and is committed, whether    *)
(* that send succeeds or not.                                              *)
(***************************************************************************)
EXTENDS Integers, FiniteSets

CONSTANTS
    Groups,      \* consumer groups
    Slots,       \* bound: sessions alive at a time, the detached ones included
    Messages,    \* bound: messages that arrive for a group
    Retries,     \* kafka.retry.retries
    Threshold,   \* failures that open the circuit breaker
    MaxCalls,    \* bound: messages being produced at a time
    MaxFaults    \* bound: calls to Kafka that fail

ASSUME KafkaAssumption ==
    /\ Messages \in Nat /\ Retries \in Nat \ {0} /\ Threshold \in Nat \ {0}
    /\ MaxCalls \in Nat /\ MaxFaults \in Nat /\ Groups # {} /\ IsFiniteSet(Groups)
    /\ IsFiniteSet(Slots)

VARIABLES
    health,      \* kafkaState
    configured,  \* consumerConfigs
    session,     \* session[i]: a consumer, its stream and its loop
    log,         \* log[g]: the number of messages that have arrived for g
    committed,   \* committed[g]: the offset the broker keeps for g, if any
    handled,     \* handled[g]: messages some loop has finished handling
    skipped,     \* skipped[g]: history, what sessions without an offset passed over
    task,        \* reconnectionTask
    requested,   \* reconnectRequested
    stopping,    \* shuttingDown
    failures,    \* the failures the circuit breaker counts
    calls,       \* the calls of produce the circuit breaker has let through
    faults

offsets == <<committed, handled, skipped>>
breaker == <<failures, calls>>
vars == <<health, configured, session, log, offsets, task, requested, stopping,
          breaker, faults>>

States == {"initializing", "ready", "reconnecting", "failed", "disabled"}

\* A session: its stream is open while the maps hold it, closing once a close
\* has succeeded and detached when it failed; pos is the offset it reads from.
NoSession == [stream |-> "none", group |-> CHOOSE g \in Groups : TRUE,
              at |-> "idle", pos |-> 0]
Session(g, pos) == [stream |-> "open", group |-> g, at |-> "idle", pos |-> pos]

\* The task: what it waits for, its attempt and the groups it has to start.
NoTask == [at |-> "none", attempt |-> 0, groups |-> {}]
Attempt(n) == [at |-> "wait", attempt |-> n, groups |-> {}]

\* The broker has no committed offset.
NoOffset == -1

\* Where the sessions may be at first: one of each group.
FirstSessions ==
    {f \in [Slots -> {NoSession} \cup {Session(g, 0) : g \in Groups}] :
        \A g \in Groups : \E i \in Slots : {j \in Slots : f[j] = Session(g, 0)} = {i}}

ASSUME SlotsSuffice == FirstSessions # {}

OpenSessions(g) == {i \in Slots : session[i].stream = "open" /\ session[i].group = g}

\* A startup without failures is over: every group has called consume and its
\* session waits for the first message after its offset, if it has one, or
\* after the end of its log.
Init ==
    /\ health = "ready" /\ configured = Groups
    /\ session = CHOOSE f \in FirstSessions : TRUE
    /\ log = [g \in Groups |-> 0] /\ committed \in [Groups -> {NoOffset, 0}]
    /\ handled = [g \in Groups |-> {}] /\ skipped = [g \in Groups |-> {}]
    /\ task = NoTask /\ requested = FALSE /\ stopping = FALSE
    /\ failures = 0 /\ calls = 0 /\ faults = 0

-----------------------------------------------------------------------------
(* Failures *)

Free == {i \in Slots : session[i].stream = "none"}
Closing == {i \in Slots : session[i].stream = "closing"}
Detached == {i \in Slots : session[i].stream = "detached"}

\* reconnectCandidateActive: replacement clients are being started.
Candidate == task.at \in {"start", "session"}

\* Mutant: a failure during a reconnect is taken as part of it.
HandleFailureOnce ==
    IF stopping
    THEN UNCHANGED <<health, task, requested>>
    ELSE /\ health' = "reconnecting"
         /\ task' = (IF task = NoTask THEN Attempt(1) ELSE task)
         /\ UNCHANGED requested

\* Mutant: the shutdown is not looked at.
HandleFailureAlways ==
    /\ health' = "reconnecting"
    /\ task' = (IF task = NoTask THEN Attempt(1) ELSE task)
    /\ requested' = (requested \/ (task # NoTask /\ (Candidate \/ health = "ready")))

\* handleKafkaFailure and scheduleReconnect: a failure of a replacement client
\* asks for another rebuild, one of a client that is being replaced does not.
HandleFailure ==
    IF stopping
    THEN UNCHANGED <<health, task, requested>>
    ELSE /\ health' = "reconnecting"
         /\ task' = (IF task = NoTask THEN Attempt(1) ELSE task)
         /\ requested' = (requested \/ (task # NoTask /\ (Candidate \/ health = "ready")))

Fault == faults < MaxFaults /\ faults' = faults + 1

\* CircuitBreaker.execute: a call that finds the breaker open is refused until
\* the reset timeout is over.  Calls overlap, so that it may count more failures
\* than open it.
Admitted ==
    \/ failures < Threshold /\ UNCHANGED failures
    \/ failures >= Threshold /\ failures' = 0
Refused == failures >= Threshold

\* Mutant: a success is taken off although none is counted.
SucceedsBelow == failures' = failures - 1 /\ UNCHANGED faults

\* The call it let through has returned.
Succeeds == failures' = (IF failures = 0 THEN 0 ELSE failures - 1) /\ UNCHANGED faults
Fails == failures' = failures + 1 /\ Fault

-----------------------------------------------------------------------------
(* The processing loop of a session *)

Set(i, at) == session' = [session EXCEPT ![i].at = at]
LoopEnds(i) == session' = [session EXCEPT ![i] = NoSession]

\* The stream delivers the next message, unless it is being closed.
Fetch(i) ==
    /\ session[i].stream \in {"open", "detached"} /\ session[i].at = "idle"
    /\ session[i].pos < log[session[i].group]
    /\ Set(i, "handling")
    /\ UNCHANGED <<health, configured, log, offsets, task, requested, stopping,
                   breaker, faults>>

\* onMessage has returned, or failed and the message was sent to the dead
\* letters.
Handled(i) ==
    /\ session[i].at = "handling"
    /\ Set(i, "commit")
    /\ handled' = [handled EXCEPT ![session[i].group] = @ \cup {session[i].pos + 1}]
    /\ UNCHANGED <<health, configured, log, committed, skipped, task, requested,
                   stopping, breaker, faults>>

\* Mutant: the offset is committed before the handler has returned.
CommitEarly(i) ==
    /\ session[i].at \in {"handling", "commit"}
    /\ session' = [session EXCEPT ![i].at = "idle", ![i].pos = @ + 1]
    /\ committed' = [committed EXCEPT ![session[i].group] = session[i].pos + 1]
    /\ UNCHANGED <<health, configured, log, handled, skipped, task, requested,
                   stopping, breaker, faults>>

Commit(i) ==
    /\ session[i].at = "commit"
    /\ session' = [session EXCEPT ![i].at = "idle", ![i].pos = @ + 1]
    /\ committed' = [committed EXCEPT ![session[i].group] = session[i].pos + 1]
    /\ UNCHANGED <<health, configured, log, handled, skipped, task, requested,
                   stopping, breaker, faults>>

\* The loop stops, so that no later offset is committed.
CommitFails(i) ==
    /\ session[i].at = "commit" /\ Fault
    /\ LoopEnds(i) /\ HandleFailure
    /\ UNCHANGED <<configured, log, offsets, stopping, breaker>>

\* The stream or the consumer of a session fails while it waits for a message.
StreamFails(i) ==
    /\ session[i].stream \in {"open", "detached"} /\ session[i].at = "idle" /\ Fault
    /\ LoopEnds(i) /\ HandleFailure
    /\ UNCHANGED <<configured, log, offsets, stopping, breaker>>

\* The loop of a stream that was closed.
Drained(i) ==
    /\ session[i].stream = "closing" /\ session[i].at = "idle"
    /\ LoopEnds(i)
    /\ UNCHANGED <<health, configured, log, offsets, task, requested, stopping,
                   breaker, faults>>

Loop(i) == Fetch(i) \/ Handled(i) \/ Commit(i) \/ Drained(i)

-----------------------------------------------------------------------------
(* Producers *)

\* produce: the dead letters and the events of the scheduler.
Produce ==
    /\ calls < MaxCalls /\ Admitted /\ calls' = calls + 1
    /\ UNCHANGED <<health, configured, session, log, offsets, task, requested,
                   stopping, faults>>

Produced ==
    /\ calls > 0 /\ (Succeeds \/ Fails) /\ calls' = calls - 1
    /\ UNCHANGED <<health, configured, session, log, offsets, task, requested, stopping>>

\* The producer emits an error, or isConnected finds a client disconnected.
ProducerFails ==
    /\ Fault /\ ~stopping /\ HandleFailure
    /\ UNCHANGED <<configured, session, log, offsets, stopping, breaker>>

\* Another service produces a message for group g.
Arrive(g) ==
    /\ log[g] < Messages /\ log' = [log EXCEPT ![g] = @ + 1]
    /\ UNCHANGED <<health, configured, session, offsets, task, requested, stopping,
                   breaker, faults>>

-----------------------------------------------------------------------------
(* Starting and closing sessions *)

Opens(g, pos) ==
    Free # {} /\ session' = [session EXCEPT ![CHOOSE i \in Free : TRUE] = Session(g, pos)]

\* Mutant: the session starts at the end of the log although an offset is kept.
StartSessionLatest(g) == Opens(g, log[g]) /\ UNCHANGED skipped

\* startConsumerSession in mode 'committed', which falls back to 'latest'.
StartSession(g) ==
    IF committed[g] = NoOffset
    THEN /\ Opens(g, log[g])
         /\ skipped' = [skipped EXCEPT ![g] = @ \cup ((1 .. log[g]) \ handled[g])]
    ELSE Opens(g, committed[g]) /\ UNCHANGED skipped

\* closeConsumer for the groups gs: a close succeeds, and the loop is waited
\* for, or the loop runs on detached.
CloseAll(gs, ok) ==
    session' = [i \in Slots |->
        IF session[i].stream = "open" /\ session[i].group \in gs
        THEN [session[i] EXCEPT !.stream = IF i \in ok THEN "closing" ELSE "detached"]
        ELSE session[i]]

Closes(gs) ==
    \/ CloseAll(gs, Slots) /\ UNCHANGED faults
    \/ /\ Cardinality(Detached) + Cardinality(Groups) < Cardinality(Slots)
       /\ \E i \in Slots : session[i].stream = "open" /\ CloseAll(gs, Slots \ {i})
       /\ Fault

-----------------------------------------------------------------------------
(* The reconnect task: performReconnect and restartKafkaClients *)

Ends(state) ==
    /\ health' = state
    /\ task' = [task EXCEPT !.at = "done", !.groups = {}]

\* Mutant: the attempts are exhausted and nobody is told.
AttemptFailsSilently ==
    /\ requested' = FALSE
    /\ IF task.attempt < Retries
       THEN task' = Attempt(task.attempt + 1) /\ UNCHANGED health
       ELSE Ends(health)

\* An attempt has failed: the next one, or none is left.
AttemptFails ==
    /\ requested' = FALSE
    /\ IF task.attempt < Retries
       THEN task' = Attempt(task.attempt + 1) /\ UNCHANGED health
       ELSE Ends(IF stopping THEN health ELSE "failed")

\* The delay is over.
TaskCloses ==
    /\ task.at = "wait"
    /\ IF stopping
       THEN Ends(health) /\ UNCHANGED <<session, faults>>
       ELSE /\ task' = [task EXCEPT !.at = "close", !.groups = configured]
            /\ Closes(configured) /\ UNCHANGED health
    /\ UNCHANGED <<configured, log, offsets, requested, stopping, breaker>>

\* Mutant: the loops of the old clients are not waited for.
TaskClosedAtOnce ==
    /\ task.at = "close"
    /\ IF stopping
       THEN Ends("ready")
       ELSE task' = [task EXCEPT !.at = "start"] /\ UNCHANGED health
    /\ UNCHANGED <<configured, session, log, offsets, requested, stopping, breaker,
                   faults>>

\* The old clients are closed; at a shutdown no replacement is started.
TaskClosed ==
    /\ task.at = "close" /\ Closing = {}
    /\ IF stopping
       THEN Ends("ready")
       ELSE task' = [task EXCEPT !.at = "start"] /\ UNCHANGED health
    /\ UNCHANGED <<configured, session, log, offsets, requested, stopping, breaker,
                   faults>>

\* The circuit breaker lets the next session start.
TaskStarts ==
    /\ task.at = "start" /\ task.groups # {}
    /\ Admitted /\ task' = [task EXCEPT !.at = "session"]
    /\ UNCHANGED <<health, configured, session, log, offsets, requested, stopping,
                   calls, faults>>

TaskStarted ==
    /\ task.at = "session"
    /\ \E g \in task.groups :
         /\ StartSession(g) /\ Succeeds
         /\ task' = [task EXCEPT !.at = "start", !.groups = @ \ {g}]
    /\ UNCHANGED <<health, configured, log, committed, handled, requested, stopping, calls>>

\* The producer or a session cannot be started.
TaskFails ==
    /\ \/ task.at = "start" /\ task.groups = configured /\ Fault /\ UNCHANGED failures
       \/ task.at = "start" /\ task.groups # {} /\ Refused /\ UNCHANGED <<failures, faults>>
       \/ task.at = "session" /\ Fails
    /\ AttemptFails
    /\ UNCHANGED <<configured, session, log, offsets, stopping, calls>>

\* Every replacement runs, unless one has failed meanwhile.
TaskReady ==
    /\ task.at = "start" /\ task.groups = {}
    /\ IF requested THEN AttemptFails ELSE Ends("ready") /\ UNCHANGED requested
    /\ UNCHANGED <<configured, session, log, offsets, stopping, breaker, faults>>

\* The finally clause of scheduleReconnect
TaskFinally ==
    /\ task.at = "done"
    /\ requested' = FALSE
    /\ IF requested /\ ~stopping
       THEN health' = "reconnecting" /\ task' = Attempt(1)
       ELSE task' = NoTask /\ UNCHANGED health
    /\ UNCHANGED <<configured, session, log, offsets, stopping, breaker, faults>>

Reconnect ==
    \/ TaskCloses \/ TaskClosed \/ TaskStarts \/ TaskStarted \/ TaskFails
    \/ TaskReady \/ TaskFinally

-----------------------------------------------------------------------------
(* onApplicationShutdown *)

Shutdown ==
    /\ ~stopping /\ stopping' = TRUE
    /\ UNCHANGED <<health, configured, session, log, offsets, task, requested,
                   breaker, faults>>

AnyOpen == \E g \in Groups : OpenSessions(g) # {}

\* The task has finished; every session is closed.
ShutdownCloses ==
    /\ stopping /\ task = NoTask /\ configured # {} /\ AnyOpen
    /\ Closes(Groups)
    /\ UNCHANGED <<health, configured, log, offsets, task, requested, stopping, breaker>>

\* Mutant: nothing is waited for before the client is disabled.
ShutdownEndsAtOnce ==
    /\ stopping /\ configured # {} /\ ~AnyOpen
    /\ health' = "disabled" /\ configured' = {}
    /\ UNCHANGED <<session, log, offsets, task, requested, stopping, breaker, faults>>

\* The finally clause of the shutdown
ShutdownEnds ==
    /\ stopping /\ task = NoTask /\ configured # {} /\ ~AnyOpen /\ Closing = {}
    /\ health' = "disabled" /\ configured' = {}
    /\ UNCHANGED <<session, log, offsets, task, requested, stopping, breaker, faults>>

-----------------------------------------------------------------------------

Next ==
    \/ \E i \in Slots : Loop(i) \/ CommitFails(i) \/ StreamFails(i)
    \/ \E g \in Groups : Arrive(g)
    \/ Produce \/ Produced \/ ProducerFails
    \/ Reconnect
    \/ Shutdown \/ ShutdownCloses \/ ShutdownEnds

Spec == Init /\ [][Next]_vars

\* Handlers return, timers fire and closes and starts come to an end.
Fairness ==
    /\ \A i \in Slots : WF_vars(Loop(i))
    /\ WF_vars(Reconnect)
    /\ WF_vars(ShutdownCloses) /\ WF_vars(ShutdownEnds)

FairSpec == Spec /\ Fairness
-----------------------------------------------------------------------------
(* Properties *)

\* Every variable keeps its type (the maps and fields of KafkaService).
TypeOK ==
    /\ health \in States /\ configured \subseteq Groups
    /\ session \in [Slots -> [stream : {"none", "open", "closing", "detached"},
                              group : Groups, at : {"idle", "handling", "commit"},
                              pos : 0 .. Messages]]
    /\ log \in [Groups -> 0 .. Messages]
    /\ committed \in [Groups -> {NoOffset} \cup (0 .. Messages)]
    /\ handled \in [Groups -> SUBSET (1 .. Messages)]
    /\ skipped \in [Groups -> SUBSET (1 .. Messages)]
    /\ task \in [at : {"none", "wait", "close", "start", "session", "done"},
                 attempt : 0 .. Retries, groups : SUBSET Groups]
    /\ requested \in BOOLEAN /\ stopping \in BOOLEAN
    /\ faults \in 0 .. MaxFaults /\ failures \in 0 .. faults /\ calls \in 0 .. MaxCalls

\* A group has one session, unless a close has failed: the loop of the old one
\* has ended, its message in flight committed, before a replacement starts.
OneSession ==
    \A i, j \in Slots :
        session[i].group = session[j].group
        /\ {session[i].stream, session[j].stream} \subseteq {"open", "closing"} => i = j

Settled(g) == handled[g] \cup skipped[g]

\* No committed offset passes a message nobody has handled, through failed
\* commits, redelivery and detached loops, but those a session without an
\* offset has passed over.
NothingSkipped == \A g \in Groups : 1 .. committed[g] \subseteq Settled(g)

\* Whatever fails, the handlers see what OrderedDelivery promises: a replacement
\* or a detached session repeats messages, and none overtakes one before it; a
\* replacement passes messages over only while the group has no offset.
Delivery == INSTANCE OrderedDelivery

ImplementsDelivery == Delivery!Spec

\* Ready with no rebuild pending means that every group is consumed: a failure
\* of a replacement during its own start is not overwritten by ready.
ReadyMeansRunning ==
    health = "ready" /\ task = NoTask /\ ~stopping =>
        \A g \in configured : OpenSessions(g) # {}

\* After the shutdown no rebuild runs and no session is left open, nor one whose
\* close is still waiting for its message in flight.
StoppedForGood == health = "disabled" => task = NoTask /\ ~AnyOpen /\ Closing = {}

\* A rebuild comes to an end: the health is ready, failed or disabled.
Recovers ==
    health = "reconnecting" /\ task.at \in {"wait", "close", "start", "session"}
        ~> health # "reconnecting"

\* A shutdown ends, also one that meets a rebuild, and nothing revives the client.
Stops == stopping ~> [](health = "disabled")

\* The client has given up, was shut down, or a failure that came between its last
\* attempt and the finally clause has left it reconnecting with no task.
GivenUp ==
    \/ health \in {"failed", "disabled"}
    \/ health = "reconnecting" /\ task = NoTask

\* Every message that arrives is handled, unless a session without an offset has
\* passed it over or the client gives up.
AllHandled ==
    \A g \in Groups : \A m \in 1 .. Messages :
        m <= log[g] ~> m \in Settled(g) \/ GivenUp
=============================================================================
