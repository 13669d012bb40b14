------------------------- MODULE TransitionScheduler -------------------------
(***************************************************************************)
(* How the phases of one challenge are opened and closed on time: the      *)
(* BullMQ worker that turns a due job into a message, the Kafka consumer   *)
(* that handles the message, the chain that opens the successors of a      *)
(* closed phase, the update handler, the synchronisation cron and the      *)
(* recovery after a restart.  They run in one Node process and interleave  *)
(* at every await; PhaseJobs holds the jobs they share.                    *)
(*                                                                         *)
(* A phase row is its stage and its two scheduled dates here; PhaseStore   *)
(* has the transactions behind OpenRow and CloseRow.                       *)
(***************************************************************************)
EXTENDS PhaseJobs, Sequences, FiniteSets

CONSTANTS
    Pred,        \* Pred[p]: the predecessor of p, or None
    Guarded,     \* phases whose close waits for pending work (Review)
    Immediate,   \* phases an update closes when overdue (Registration, Submission)
    StartOf,     \* StartOf[p]: the scheduledStartDate at launch
    Duration,    \* the duration of every phase
    Delay,       \* the backoff of a deferred close
    MaxBacklog,  \* bound: transition messages not yet consumed
    MaxFaults,   \* bound: crashes, failed calls and redeliveries
    MaxEdits     \* bound: changes of a date by a challenge manager

ASSUME SchedulerAssumption ==
    /\ Pred \in [Phases -> Phases \cup {None}]
    /\ Guarded \subseteq Phases /\ Immediate \subseteq Phases \ Guarded
    /\ StartOf \in [Phases -> Time]
    /\ Duration \in Nat \ {0} /\ Delay \in Nat \ {0}
    /\ MaxBacklog \in Nat /\ MaxFaults \in Nat /\ MaxEdits \in Nat
    /\ Callers = {"consumer", "chain", "sync", "recovery"}

VARIABLES
    now,        \* the clock
    stage,      \* stage[p]: waiting, open or ended
    startAt,    \* startAt[p]: scheduledStartDate
    endAt,      \* endAt[p]: scheduledEndDate
    pending,    \* phases with reviews still to be completed
    topic,      \* autopilot.phase.transition, up to the committed offset
    notices,    \* challenge.notification.update messages not yet committed
    runner,     \* the job the queue worker runs
    proc,       \* proc[c]: the handler the caller c is in
    chain,      \* chain[p]: what the phase chain has still to do for p
    obsolete,   \* the jobs the running synchronisation has found obsolete
    recovering, \* the process has restarted and not recovered yet
    faults, edits

vars == <<registry, queue, placing, now, stage, startAt, endAt, pending, topic,
          notices, runner, proc, chain, obsolete, recovering, faults, edits>>

rowVars == <<stage, startAt, endAt>>
budget == <<faults, edits>>

\* A transition as it is produced.
Message == [phase : Phases, state : {"START", "END"}]

Idle == [kind |-> "idle"]
ToOpen == [kind |-> "open"]
ToSchedule(job) == [kind |-> "schedule", job |-> job]
Updaters == {"consumer", "sync", "recovery"}

Later(t) == IF t > Horizon THEN Horizon ELSE t

-----------------------------------------------------------------------------
(* The phase rows *)

\* The phases that p comes after.
Above[p \in Phases] == IF Pred[p] = None THEN {} ELSE {Pred[p]} \cup Above[Pred[p]]

\* A phase opened early, after its end, or too late to last its duration gets
\* new dates from now.
Adjusts(p) ==
    \/ startAt[p] > now
    \/ startAt[p] < now /\ endAt[p] < now + Duration

\* The ends of the rows once p is open with new dates: the phases below it that
\* have not started follow their predecessor (rescheduleSuccessorPhases).
Follows(p, q) == Pred[q] # None /\ p \in Above[q] /\ stage[q] = "waiting"

IsReschedule(p, end) ==
    \A q \in Phases :
        end[q] = IF q = p THEN Later(now + Duration)
                 ELSE IF Follows(p, q) THEN Later(end[Pred[q]] + Duration)
                 ELSE endAt[q]

OpenRow(p) ==
    /\ stage[p] = "waiting"
    /\ stage' = [stage EXCEPT ![p] = "open"]
    /\ \/ /\ Adjusts(p)
          /\ \E end \in [Phases -> Time] :
               /\ IsReschedule(p, end)
               /\ endAt' = end
               /\ startAt' = [q \in Phases |->
                     IF q = p THEN now ELSE IF Follows(p, q) THEN end[Pred[q]] ELSE startAt[q]]
       \/ ~Adjusts(p) /\ UNCHANGED <<startAt, endAt>>

\* The successors of a closed phase that the chain is called with.
CloseRow(p) ==
    /\ stage[p] = "open"
    /\ stage' = [stage EXCEPT ![p] = "ended"]
    /\ chain' = [q \in Phases |->
          IF Pred[q] = p /\ stage[q] = "waiting" THEN ToOpen ELSE chain[q]]
    /\ UNCHANGED <<startAt, endAt>>

PredEnded(p) == Pred[p] = None \/ stage[Pred[p]] = "ended"

\* Mutant: the operation is put where the state belongs.
StartAsOpen(p) == [phase |-> p, state |-> "open", date |-> startAt[p]]

Start(p) == [phase |-> p, state |-> "START", date |-> startAt[p]]
End(p) == [phase |-> p, state |-> "END", date |-> endAt[p]]

\* Mutant: the predecessor is not looked at.
StartableUnordered == {p \in Phases : stage[p] = "waiting" /\ startAt[p] <= now}

\* What synchronisation and recovery want scheduled.
Startable == {p \in Phases : stage[p] = "waiting" /\ startAt[p] <= now /\ PredEnded(p)}
Open == {p \in Phases : stage[p] = "open"}

\* findPhasesToSchedule and scheduleRelevantPhases.
Plan ==
    LET future == {p \in Phases : stage[p] = "waiting" /\ startAt[p] > now /\ PredEnded(p)}
    IN IF Startable # {} THEN {Start(p) : p \in Startable}
       ELSE IF Open # {} THEN {End(p) : p \in Open}
       ELSE {End(p) : p \in {q \in future : \A r \in future : startAt[q] <= startAt[r]}}

Init ==
    /\ JobsInit
    /\ now = 0
    /\ stage = [p \in Phases |-> "waiting"]
    /\ startAt = StartOf
    /\ endAt = [p \in Phases |-> Later(StartOf[p] + Duration)]
    /\ pending = Guarded
    /\ topic = <<>>
    /\ notices = 1                      \* the challenge has just become ACTIVE
    /\ runner = Idle
    /\ proc = [c \in Callers |-> Idle]
    /\ chain = [p \in Phases |-> Idle]
    /\ obsolete = {}
    /\ recovering = FALSE
    /\ faults = 0 /\ edits = 0

-----------------------------------------------------------------------------
(* The queue worker: runScheduledTransition *)

Fault == faults < MaxFaults /\ faults' = faults + 1

RunStart(p) ==
    /\ runner = Idle
    /\ StartJob(p, now)
    /\ runner' = [kind |-> "check", phase |-> p]
    /\ UNCHANGED <<rowVars, now, pending, topic, notices, proc, chain, obsolete, recovering, budget>>

\* Mutant: an END is skipped for the phases it is for.
StillNeededInverted(p, state) == stage[p] # "open"

\* A phase already in the target state is skipped; nothing looks at the date.
StillNeeded(p, state) ==
    IF state = "END" THEN stage[p] = "open" ELSE stage[p] # "open"

RunFire ==
    /\ runner.kind = "check"
    /\ LET p == runner.phase IN
         \/ /\ StillNeeded(p, queue[p].state)
            /\ Len(topic) < MaxBacklog
            /\ topic' = Append(topic, [phase |-> p, state |-> queue[p].state])
            /\ UNCHANGED faults
         \/ /\ ~StillNeeded(p, queue[p].state)
            /\ UNCHANGED <<topic, faults>>
         \/ /\ Fault                     \* the read or the produce fails
            /\ UNCHANGED topic
    /\ runner' = [runner EXCEPT !.kind = "finally"]
    /\ UNCHANGED <<jobVars, rowVars, now, pending, notices, proc, chain, obsolete, recovering, edits>>

RunFinally ==
    /\ runner.kind = "finally"
    /\ ForgetJob(runner.phase)
    /\ runner' = [runner EXCEPT !.kind = "complete"]
    /\ UNCHANGED <<rowVars, now, pending, topic, notices, proc, chain, obsolete, recovering, budget>>

RunComplete ==
    /\ runner.kind = "complete"
    /\ CompleteJob(runner.phase)
    /\ runner' = Idle
    /\ UNCHANGED <<rowVars, now, pending, topic, notices, proc, chain, obsolete, recovering, budget>>

-----------------------------------------------------------------------------
(* The consumer of autopilot.phase.transition: handlePhaseTransition *)

Free(c) == placing[c] = None

Handled(msg, outcome) ==
    proc' = [proc EXCEPT !["consumer"] =
               [kind |-> "handled", phase |-> msg.phase, state |-> msg.state, outcome |-> outcome]]

ConsumerReady == topic # <<>> /\ proc["consumer"] = Idle

\* A START opens a waiting phase; replayed for an open or ended phase it is refused.
HandleStart ==
    /\ ConsumerReady /\ Head(topic).state = "START"
    /\ IF stage[Head(topic).phase] = "waiting"
       THEN OpenRow(Head(topic).phase) /\ Handled(Head(topic), "opened")
       ELSE UNCHANGED rowVars /\ Handled(Head(topic), "skipped")
    /\ UNCHANGED <<jobVars, now, pending, topic, notices, runner, chain, obsolete, recovering, budget>>

\* An END closes an open phase with no pending work.
HandleEnd ==
    /\ ConsumerReady /\ Head(topic).state = "END"
    /\ LET p == Head(topic).phase IN
         IF stage[p] = "open"
         THEN p \notin pending /\ CloseRow(p) /\ Handled(Head(topic), "closed")
         ELSE UNCHANGED <<rowVars, chain>> /\ Handled(Head(topic), "skipped")
    /\ UNCHANGED <<jobVars, now, pending, topic, notices, runner, obsolete, recovering, budget>>

\* An END of a phase with pending work is deferred: deferReviewPhaseClosure adds
\* the next attempt through SchedulerService, which cancels nothing first.
DeferEnd ==
    /\ ConsumerReady /\ Head(topic).state = "END"
    /\ LET p == Head(topic).phase IN
         /\ stage[p] = "open" /\ p \in pending
         /\ Added([phase |-> p, state |-> "END", date |-> Later(now + Delay)])
         /\ Handled(Head(topic), "deferred")
    /\ UNCHANGED <<placing, rowVars, now, pending, topic, notices, runner, chain, obsolete, recovering, budget>>

\* advancePhase swallows its errors: the message counts as processed.
HandleFails ==
    /\ ConsumerReady /\ Fault
    /\ Handled(Head(topic), "failed")
    /\ UNCHANGED <<jobVars, rowVars, now, pending, topic, notices, runner, chain, obsolete, recovering, edits>>

\* After an END the job of the phase, if the registry knows one, is cancelled;
\* then the offset is committed, or the message will be delivered again.
Cleaned ==
    /\ proc["consumer"].kind = "handled"
    /\ IF proc["consumer"].state = "END"
       THEN CancelKnown(proc["consumer"].phase)
       ELSE UNCHANGED <<queue, registry>>
    /\ proc' = [proc EXCEPT !["consumer"] = Idle]
    /\ UNCHANGED <<placing, rowVars, now, pending, notices, runner, chain, obsolete, recovering, edits>>

Commit == Cleaned /\ topic' = Tail(topic) /\ UNCHANGED faults

CommitFails == Cleaned /\ Fault /\ UNCHANGED topic

-----------------------------------------------------------------------------
(* The phase chain: openPhaseAndSchedule, not awaited by the close *)

ChainOpen(p) ==
    /\ chain[p] = ToOpen /\ Free("chain")
    /\ IF stage[p] = "waiting"
       THEN /\ OpenRow(p)
            /\ chain' = [chain EXCEPT ![p] = ToSchedule(End(p))']
       ELSE /\ chain' = [chain EXCEPT ![p] = Idle]
            /\ UNCHANGED rowVars
    /\ UNCHANGED <<jobVars, now, pending, topic, notices, runner, proc, obsolete, recovering, budget>>

ChainSchedule(p) ==
    /\ chain[p].kind = "schedule"
    /\ BeginReschedule("chain", chain[p].job)
    /\ chain' = [chain EXCEPT ![p] = Idle]
    /\ UNCHANGED <<rowVars, now, pending, topic, notices, runner, proc, obsolete, recovering, budget>>

-----------------------------------------------------------------------------
(* handleChallengeUpdate, run by the consumer, the synchronisation or recovery *)

Overdue == {p \in Immediate : stage[p] = "open" /\ endAt[p] < now}
OpenGuarded == {p \in Guarded : stage[p] = "open"}

\* What synchronisation does last: the obsolete jobs are removed.
Removing == IF obsolete = {} THEN Idle ELSE [kind |-> "remove"]

\* One read of the challenge decides what to close and what to schedule; the
\* overdue phases are closed first, then the reviews that are ready.
Update ==
    [kind |-> IF Overdue = {} THEN "reviews" ELSE "overdue",
     closes |-> IF Overdue = {} THEN OpenGuarded ELSE Overdue,
     reviews |-> OpenGuarded, plan |-> Plan, reload |-> FALSE]

UpdateBegin ==
    /\ notices > 0 /\ proc["consumer"] = Idle
    /\ proc' = [proc EXCEPT !["consumer"] = Update]
    /\ UNCHANGED <<jobVars, rowVars, now, pending, topic, notices, runner, chain, obsolete, recovering, budget>>

Closing(c) == proc[c].kind \in {"overdue", "reviews"}

\* processPastDueOpenPhases cancels the job of an overdue phase and closes it if
\* it is still open; closeReadyReviewPhases closes a review with nothing pending.
UpdateClose(c, p) ==
    /\ Closing(c) /\ p \in proc[c].closes
    /\ IF proc[c].kind = "overdue" THEN CancelKnown(p) ELSE UNCHANGED <<queue, registry>>
    /\ IF stage[p] = "open" /\ p \notin pending
       THEN CloseRow(p) ELSE UNCHANGED <<rowVars, chain>>
    /\ proc' = [proc EXCEPT ![c].closes = @ \ {p},
                            ![c].reload = @ \/ (stage[p] = "open" /\ p \notin pending)]
    /\ UNCHANGED <<placing, now, pending, topic, notices, runner, obsolete, recovering, budget>>

\* From the overdue phases to the reviews; the challenge is read again when a
\* close was attempted.
UpdateReviews(c) ==
    /\ proc[c].kind = "overdue" /\ proc[c].closes = {}
    /\ proc' = [proc EXCEPT ![c] =
          [kind |-> "reviews",
           closes |-> IF @.reload THEN OpenGuarded ELSE @.reviews,
           reviews |-> @.reviews,
           plan |-> IF @.reload THEN Plan ELSE @.plan,
           reload |-> FALSE]]
    /\ UNCHANGED <<jobVars, rowVars, now, pending, topic, notices, runner, chain, obsolete, recovering, budget>>

\* It is read again after the reviews, too.
UpdateReload(c) ==
    /\ proc[c].kind = "reviews" /\ proc[c].closes = {} /\ proc[c].reload
    /\ proc' = [proc EXCEPT ![c].plan = Plan, ![c].reload = FALSE]
    /\ UNCHANGED <<jobVars, rowVars, now, pending, topic, notices, runner, chain, obsolete, recovering, budget>>

Scheduling(c) == proc[c].kind = "reviews" /\ proc[c].closes = {} /\ ~proc[c].reload

UpdateSchedule(c, job) ==
    /\ Scheduling(c) /\ job \in proc[c].plan
    /\ BeginReschedule(c, job)
    /\ proc' = [proc EXCEPT ![c].plan = @ \ {job}]
    /\ UNCHANGED <<rowVars, now, pending, topic, notices, runner, chain, obsolete, recovering, budget>>

\* The consumer commits the notice; synchronisation goes on to its removals.
UpdateEnd(c) ==
    /\ Scheduling(c) /\ proc[c].plan = {} /\ Free(c)
    /\ proc' = [proc EXCEPT ![c] = IF c = "sync" THEN Removing ELSE Idle]
    /\ notices' = IF c = "consumer" THEN notices - 1 ELSE notices
    /\ UNCHANGED <<jobVars, rowVars, now, pending, topic, runner, chain, obsolete, recovering, budget>>

\* The add of any schedule call.
Schedule(c) ==
    /\ FinishSchedule(c)
    /\ UNCHANGED <<rowVars, now, pending, topic, notices, runner, proc, chain, obsolete, recovering, budget>>

-----------------------------------------------------------------------------
(* synchronizeChallenges *)

\* The active challenges are read, with what to schedule for them.
SyncRead ==
    /\ proc["sync"] = Idle
    /\ proc' = [proc EXCEPT !["sync"] =
          [kind |-> "read", wants |-> {Start(p) : p \in Startable} \cup {End(p) : p \in Open},
           replay |-> OpenGuarded # {}]]
    /\ UNCHANGED <<jobVars, rowVars, now, pending, topic, notices, runner, chain, obsolete, recovering, budget>>

\* Then the keys of the registry are copied; the registry itself stays live.
SyncKeys ==
    /\ proc["sync"].kind = "read"
    /\ obsolete' = {p \in Phases : registry[p] # None
                                   /\ \A job \in proc["sync"].wants : job.phase # p}
    /\ proc' = [proc EXCEPT !["sync"].kind = "scan"]
    /\ UNCHANGED <<jobVars, rowVars, now, pending, topic, notices, runner, chain, recovering, budget>>

\* Mutant: only schedules the registry knows are brought up to date.
SyncScheduleKnown(job) ==
    /\ proc["sync"].kind = "scan" /\ job \in proc["sync"].wants /\ Free("sync")
    /\ IF registry[job.phase] # None
       THEN BeginReschedule("sync", job)
       ELSE UNCHANGED jobVars
    /\ proc' = [proc EXCEPT !["sync"].wants = @ \ {job}]
    /\ UNCHANGED <<rowVars, now, pending, topic, notices, runner, chain, obsolete, recovering, budget>>

SyncSchedule(job) ==
    /\ proc["sync"].kind = "scan" /\ job \in proc["sync"].wants /\ Free("sync")
    /\ LET known == registry[job.phase] IN
         CASE known = None -> BeginSchedule("sync", job)
           [] known # None /\ (known.date # job.date \/ known.state # job.state) ->
                BeginReschedule("sync", job)
           [] OTHER -> UNCHANGED jobVars
    /\ proc' = [proc EXCEPT !["sync"].wants = @ \ {job}]
    /\ UNCHANGED <<rowVars, now, pending, topic, notices, runner, chain, obsolete, recovering, budget>>

\* Mutant: the open review is not replayed.
SyncScannedOnly ==
    /\ proc["sync"].kind = "scan" /\ proc["sync"].wants = {} /\ Free("sync")
    /\ proc' = [proc EXCEPT !["sync"] = Removing]
    /\ UNCHANGED <<jobVars, rowVars, now, pending, topic, notices, runner, chain, obsolete, recovering, budget>>

\* An open review is replayed through the update handler before the removals.
SyncScanned ==
    /\ proc["sync"].kind = "scan" /\ proc["sync"].wants = {} /\ Free("sync")
    /\ proc' = [proc EXCEPT !["sync"] = IF @.replay THEN Update ELSE Removing]
    /\ UNCHANGED <<jobVars, rowVars, now, pending, topic, notices, runner, chain, obsolete, recovering, budget>>

SyncRemove(p) ==
    /\ proc["sync"].kind = "remove" /\ p \in obsolete
    /\ CancelKnown(p)
    /\ obsolete' = obsolete \ {p}
    /\ proc' = [proc EXCEPT !["sync"] = Removing']
    /\ UNCHANGED <<placing, rowVars, now, pending, topic, notices, runner, chain, recovering, budget>>

-----------------------------------------------------------------------------
(* Restart *)

Crash ==
    /\ Fault
    /\ JobsCrash
    /\ runner' = Idle
    /\ proc' = [c \in Callers |-> Idle]
    /\ chain' = [p \in Phases |-> Idle]
    /\ obsolete' = {}
    /\ recovering' = TRUE
    /\ UNCHANGED <<rowVars, now, pending, topic, notices, edits>>

\* The events that should have happened by now.
Due == {[phase |-> p, state |-> "START"] : p \in Startable}
       \cup {[phase |-> p, state |-> "END"] : p \in {q \in Open : endAt[q] <= now}}

Producing(due) == IF due = {} THEN Idle ELSE [kind |-> "produce", due |-> due]

\* onApplicationBootstrap: a challenge with an open review is replayed as an
\* update; otherwise what is due is produced, message by message.
Recover ==
    /\ recovering /\ recovering' = FALSE
    /\ proc' = [proc EXCEPT !["recovery"] = IF OpenGuarded # {} THEN Update ELSE Producing(Due)]
    /\ UNCHANGED <<jobVars, rowVars, now, pending, topic, notices, runner, chain, obsolete, budget>>

\* triggerKafkaEvent, which reads the phase again.
RecoverSend(msg) ==
    /\ proc["recovery"].kind = "produce" /\ msg \in proc["recovery"].due
    /\ IF StillNeeded(msg.phase, msg.state)
       THEN Len(topic) < MaxBacklog /\ topic' = Append(topic, msg)
       ELSE UNCHANGED topic
    /\ proc' = [proc EXCEPT !["recovery"] = Producing(@.due \ {msg})]
    /\ UNCHANGED <<jobVars, rowVars, now, pending, notices, runner, chain, obsolete, recovering, budget>>

\* The first produce that fails ends the recovery; there is one for each crash.
RecoverFails ==
    /\ proc["recovery"].kind = "produce"
    /\ proc' = [proc EXCEPT !["recovery"] = Idle]
    /\ UNCHANGED <<jobVars, rowVars, now, pending, topic, notices, runner, chain, obsolete, recovering, budget>>

-----------------------------------------------------------------------------
(* The environment *)

Tick ==
    /\ now < Horizon
    /\ now' = now + 1
    /\ UNCHANGED <<jobVars, rowVars, pending, topic, notices, runner, proc, chain, obsolete, recovering, budget>>

\* The reviewers of an open phase submit the last review.
CompleteWork(p) ==
    /\ p \in pending /\ stage[p] = "open"
    /\ pending' = pending \ {p}
    /\ UNCHANGED <<jobVars, rowVars, now, topic, notices, runner, proc, chain, obsolete, recovering, budget>>

\* A challenge manager moves the end of a phase; the update is announced.
EditEnd(p, t) ==
    /\ edits < MaxEdits /\ edits' = edits + 1
    /\ stage[p] # "ended" /\ t # endAt[p] /\ t > startAt[p]
    /\ endAt' = [endAt EXCEPT ![p] = t]
    /\ notices' = notices + 1
    /\ UNCHANGED <<jobVars, stage, startAt, now, pending, topic, runner, proc, chain, obsolete, recovering, faults>>

-----------------------------------------------------------------------------
Worker == (\E p \in Phases : RunStart(p)) \/ RunFire \/ RunFinally \/ RunComplete

Consumer == HandleStart \/ HandleEnd \/ DeferEnd \/ Commit \/ UpdateBegin

Chain == \E p \in Phases : ChainOpen(p) \/ ChainSchedule(p)

Updating(c) ==
    \/ \E p \in Phases : UpdateClose(c, p)
    \/ UpdateReviews(c) \/ UpdateReload(c)
    \/ \E job \in Payload : UpdateSchedule(c, job)
    \/ UpdateEnd(c)

Sync ==
    \/ SyncRead \/ SyncKeys \/ SyncScanned
    \/ \E job \in Payload : SyncSchedule(job)
    \/ \E p \in Phases : SyncRemove(p)

Recovery == Recover \/ \E msg \in Message : RecoverSend(msg)

Environment ==
    \/ Tick
    \/ \E p \in Phases : CompleteWork(p)
    \/ \E p \in Phases, t \in Time : EditEnd(p, t)

Next ==
    \/ Worker \/ Consumer \/ Chain \/ Sync \/ Recovery
    \/ \E c \in Updaters : Updating(c)
    \/ \E c \in Callers : Schedule(c)
    \/ HandleFails \/ CommitFails \/ RecoverFails \/ Crash
    \/ Environment

\* The event loop, the queue worker, the consumer and the cron keep running, and
\* time passes; faults, reviews and edits are never owed.
Fairness ==
    /\ WF_vars(Worker) /\ WF_vars(Consumer) /\ WF_vars(Chain)
    /\ WF_vars(Sync) /\ WF_vars(Recovery) /\ WF_vars(Tick)
    /\ \A c \in Updaters : WF_vars(Updating(c))
    /\ \A c \in Callers : WF_vars(Schedule(c))

Spec == Init /\ [][Next]_vars /\ Fairness
-----------------------------------------------------------------------------
(* Properties *)

Procs ==
    {Idle, [kind |-> "remove"]}
    \cup [kind : {"handled"}, phase : Phases, state : {"START", "END"},
          outcome : {"opened", "closed", "deferred", "skipped", "failed"}]
    \cup [kind : {"overdue", "reviews"}, closes : SUBSET Phases, reviews : SUBSET Phases,
          plan : SUBSET Payload, reload : BOOLEAN]
    \cup [kind : {"read", "scan"}, wants : SUBSET Payload, replay : BOOLEAN]
    \cup [kind : {"produce"}, due : SUBSET Message]

TypeOK ==
    /\ JobsTypeOK
    /\ now \in Time
    /\ stage \in [Phases -> {"waiting", "open", "ended"}]
    /\ startAt \in [Phases -> Time] /\ endAt \in [Phases -> Time]
    /\ pending \subseteq Guarded
    /\ topic \in Seq(Message) /\ Len(topic) <= MaxBacklog
    /\ notices \in 0 .. (1 + MaxEdits)
    /\ runner \in {Idle} \cup [kind : {"check", "finally", "complete"}, phase : Phases]
    /\ proc \in [Callers -> Procs]
    /\ chain \in [Phases -> {Idle, ToOpen} \cup {ToSchedule(job) : job \in Payload}]
    /\ obsolete \subseteq Phases
    /\ recovering \in BOOLEAN
    /\ faults \in 0 .. MaxFaults /\ edits \in 0 .. MaxEdits

\* A phase never opens before its predecessor has ended, whatever stale plans,
\* queued jobs, messages and chain callbacks are in flight: the predecessor is
\* checked when a START is planned, never when it is carried out.
OpenedInOrder ==
    [][\A p \in Phases :
         stage[p] = "waiting" /\ stage'[p] = "open" => PredEnded(p)]_vars

DueToStart(p) == p \in Startable
DueToEnd(p) == stage[p] = "open" /\ endAt[p] <= now /\ p \notin pending

\* An open phase past its end with no work pending is eventually closed, across a
\* crash or a failed call.  It holds for a review, which synchronisation replays.
EventuallyCloses == \A p \in Phases : DueToEnd(p) ~> stage[p] = "ended"

\* The registry says that the transition p needs is scheduled, and no job is.
Orphaned(p) == registry[p] \in {Start(p), End(p)} /\ queue[p] = None

\* Whatever fails, a phase past its end is closed, and one past its start is
\* opened, unless the registry has kept an entry without a job.
ClosesUnlessOrphaned ==
    \A p \in Phases : DueToEnd(p) ~> (stage[p] = "ended" \/ Orphaned(p))

OpensUnlessOrphaned ==
    \A p \in Phases : DueToStart(p) ~> (stage[p] # "waiting" \/ Orphaned(p))
=============================================================================
