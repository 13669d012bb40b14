# Autopilot v6 in TLA+

Autopilot moves Topcoder challenges through their phases: it opens and closes
challenge phases on schedule, on events of the review system and after
failures. This directory holds TLA+ models of that logic, the TLC
configurations that check them and the proofs TLAPS checks. All paths below are
relative to `src/`, the repository.

## 1. The system

One Node process, started by `src/main.ts`, shares PostgreSQL databases with
other services and talks to Kafka and Redis. Everything below runs on its event
loop and interleaves at every `await`.

| Component | State it keeps | Operations | Hard part |
| --- | --- | --- | --- |
| `ChallengeApiService` | `Challenge.status`, `currentPhaseNames`, the phase rows (PostgreSQL) | `advancePhase`, `createPostMortemPhase`, `createPostMortemPhasePreserving`, `createContinuationPhase`, `completeChallenge`, `cancelChallenge` | reads before the transactions that write; only one of them locks |
| `SchedulerService` | `scheduledJobs` (memory), the BullMQ queue (Redis), finalization timers and retry counters | schedule, cancel, run a job, `advancePhase` and the handlers of closed phases | two records of one job; `advancePhase` swallows its errors |
| `PhaseScheduleManager` | status cache, fingerprints of processed phases | new challenge, update, transition, reschedule, phase chain | plans from snapshots, schedules after awaits |
| `SyncService` | none | every 3 minutes: compare the database with the registry | snapshot against a live map |
| `RecoveryService` | none | after a start: messages for everything due | registry empty, queue not |
| `KafkaService` | producer, consumer, sessions, reconnect timer | produce, sequential consume with commit, dead letters, reconnect | at-least-once, restart of sessions |
| Consumers | none | dispatch of 13 topics, every handler error is logged and dropped | lost events |
| `AutopilotService` | lock of the approval loop | review completed, appeals, AI workflows, approval and final fix loop | duplicates of events |
| `First2FinishService` | verification timers | iterative review loop | concurrent submissions |
| `ChallengeCompletionService` | none | winners, completion, cancellation | repeated by timers and by events |
| `ReviewAssignmentService`, `ResourceEventHandler` | pollers by phase | hold back a phase until it is staffed; reviewers added and removed | poller against chain, stale snapshots |
| `PhaseReviewService`, `ReviewService` | pending reviews (PostgreSQL) | create, prune, count | duplicates |
| Finance, marathon match, members, resources, notifications | none | HTTP and SQL calls | repeated calls |
| Action log, auth, config, health | none that the rest reads | | |

How they interact: a due BullMQ job becomes an `autopilot.phase.transition`
message; the consumer handles it with `SchedulerService.advancePhase`, which
calls `ChallengeApiService.advancePhase`; a close returns the successors, which
the phase chain callback opens without being awaited (`void`, in
`phase-schedule-manager.service.ts:79`) and for which it schedules an END.
Challenge updates, the synchronisation cron and recovery write the same
schedule concurrently.

What makes each component correct, in one line: phase rows live once (open
once, end once); an open or a close has one winner; `currentPhaseNames` names
the open phases; phases open in order; every transition that is due happens;
what the registry believes is in the queue; a challenge is finished once, with
an outcome it earned; every submission gets its iterative review and every
reviewer a review; one consumer session per group, which skips no message.
`PROJECT.json` lists the hazards at their lines, with the properties that watch
each.

## 2. Modules

| Module | Models | Composes |
| --- | --- | --- |
| `PhaseLifecycle` | abstract: the life of a phase row | |
| `OrderedDelivery` | abstract: what the handlers of a consumer group may rely on | |
| `PhaseStore` | `challenge-api.service.ts`, the transactions on one challenge | implements `PhaseLifecycle` |
| `PhaseStore_proofs` | theorems about it | |
| `PhaseJobs` | the registry, the queue and the calls that change them | |
| `TransitionScheduler` | worker, consumer, phase chain, update handler, synchronisation, recovery | extends `PhaseJobs`; implements `PhaseLifecycle` (proved) |
| `TransitionScheduler_proofs` | theorems about both | |
| `ChallengeFlow` | how a challenge ends: handlers of closed phases, finalization and its retries, updates, payments | |
| `IterativeReview` | the First2Finish loop | |
| `ApprovalLoop` | Approval and Final Fix phases, their reviews and submissions | |
| `ReviewAssignment` | staffing of a Review phase: pollers, resource events, pending reviews | |
| `KafkaClient` | sessions, commits, rebuilds, circuit breaker, shutdown | implements `OrderedDelivery` |
| `ChallengeFlow_proofs`, `IterativeReview_proofs`, `ApprovalLoop_proofs`, `ReviewAssignment_proofs`, `KafkaClient_proofs` | theorems about these modules; `ChallengeFlow` and `ApprovalLoop` keep `PhaseLifecycle` | |
| `IterativeProgress_proofs` | what keeps the First2Finish loop going; extends `IterativeReview_proofs` | |
| `MC...` | instances for TLC | |

The five modules of the second group stand beside `TransitionScheduler` rather
than on top of it: each takes from it only that a due transition is delivered
at some time, possibly late, twice or after a restart, and models what the
services do with it. They compose several services each: `advancePhase` with the
service that its handlers call, the consumer that runs them one message at a
time, and the cron or timers that run beside it.

### PhaseStore

State: `status`, `rows` (presence, `isOpen`, and whether `actualStartDate` and
`actualEndDate` are set), `names` (`currentPhaseNames`), `call` (what each
concurrent caller has read and not yet committed). `opened` and `closed` count
the successes reported to callers; they are history variables no guard reads.

`advancePhase` is two steps: `AdvanceRead` is everything up to the transaction,
with all its refusals, `AdvanceOpen` and `AdvanceClose` are the conditional
`updateMany` and the write of the names, `AdvanceFails` the case that no row
matched or the transaction failed. `createPostMortemPhase` holds the row lock
from its first statement, so it is one step; `createPostMortemPhasePreserving`
and `createContinuationPhase` do not lock and are a read and a write.
`FinishRead`/`FinishWrite` are the completion and cancellation calls: their
callers test the status, the write itself is unconditional. `Crash` drops every
call in flight. Dates, durations, winners and metadata are abstracted; creation
with `openImmediately = false`, which no caller uses, is left out.

### PhaseJobs and TransitionScheduler

One challenge with a tree of phases given by `Pred`. `registry` is the
`scheduledJobs` map, `queue` the BullMQ jobs, `placing[c]` a payload caller `c`
has cancelled for and not yet added: the await inside
`schedulePhaseTransition`. A BullMQ job can be removed only while it is not
active, and an add whose job id exists is ignored; both are modelled from how
`SchedulerService` uses the queue and are the contract of that library.

| Actor | Code | Actions |
| --- | --- | --- |
| queue worker | `runScheduledTransition`, `triggerKafkaEvent` | `RunStart`, `RunFire`, `RunFinally`, `RunComplete` |
| consumer | `handlePhaseTransition`, `SchedulerService.advancePhase` | `HandleStart`, `HandleEnd`, `DeferEnd`, `HandleFails`, `Commit`, `CommitFails` |
| phase chain | `openPhaseAndSchedule` | `ChainOpen`, `ChainSchedule` |
| updates | `handleChallengeUpdate` (from the consumer, synchronisation or recovery) | `UpdateBegin`, `UpdateClose`, `UpdateReviews`, `UpdateReload`, `UpdateSchedule`, `UpdateEnd` |
| synchronisation | `synchronizeChallenges` | `SyncRead`, `SyncKeys`, `SyncSchedule`, `SyncScanned`, `SyncRemove` |
| restart | process end, `onApplicationBootstrap` | `Crash`, `Recover`, `RecoverSend`, `RecoverFails` |
| environment | clock, reviewers, challenge managers | `Tick`, `CompleteWork`, `EditEnd` |

Abstractions. A phase is a stage and two dates; the transactions behind
`OpenRow` and `CloseRow` are those of `PhaseStore` and are one step here, with the
new dates `rescheduleSuccessorPhases` gives the successors after the transaction.
The awaits around the queue call inside one schedule operation
(`scheduler.service.ts:306-313`, `387-396`) are one step with it. A
phase in `Guarded` is one whose close waits for pending work, modelled from
Review (`pending` stands for coverage, completed and pending reviews together);
a phase in `Immediate` is one an update closes when it is overdue. Screening,
approval, appeals and AI phases defer in the same way and are not told apart,
nor is the assignment gate before a review opens. The zero-submission check of
an update, the refresh of review scorecards and everything that only sends
messages is left out. `Commit` joins the cleanup after an END with the commit of
the offset: nothing but the consumer reads the offset. Recovery produces its
messages in the order of the phase array; the model takes any order.

### ChallengeFlow

`stage` gives each phase row its stage; `run[h]` is where the handler `h` is and
what it has read (`lastOne` is the snapshot that is read again after a close, or
the one an update reads).
`attempts` and `timer` are `finalizationAttempts` and
`finalizationRetryTimers`, `cached` the status cache of the update handler.

| Code | Actions |
| --- | --- |
| `advancePhase` END, the decision to finalize, the chain | `CloseRead`, `Close`, `Reload`, `Finish`, `Chain`, `Start`, `Open` |
| `handleRegistrationPhaseClosed`, `handleSubmissionPhaseClosed`, `handleScreeningPhaseClosed`, `handlePostMortemPhaseClosed` | `RegistrationRead` ... `PostMortemCancel`, `HandlerFails` |
| `attemptChallengeFinalization`, `finalizeChallenge`, `ensureCancelledPostMortem` | `FinalRead` ... `SettleOutcome`, `AttemptFails`, `PreserveFails`, `TimerFires` |
| `handleChallengeUpdate`, `reconcileClosedSubmission`, `evaluateManualPhaseCompletion` | `UpdateSettled`, `UpdateRead`, `Evaluate` |
| the process | `Crash` |

A due transition is an action that may happen whenever its guards allow it.
`ChallengeApiService.advancePhase` reads the status before the transaction that
writes (`challenge-api.service.ts:326`), and the transaction tests only the row: so
`CloseRead`, `Start` and `Chain` test the status, `Close` and `Open` do not, and a
phase may end or open after the challenge was settled. `OutcomeIsFinal` says that
such a late close, with the finalization that may follow it, replaces no outcome.
`Replayed` is what the cron selects, without the 24 hours it looks back and its page
of 200 challenges (`sync.service.ts:24-25`, `259-301`): a payable challenge that is
not paid within them is not seen again. The
rows between two transitions, the Approval phase and the AI-only branch of the
finalization are not here; nor is a Submission phase reopened by a manager.

### IterativeReview

The control of each handler is a stack of frames, the innermost call first:
`stack["consumer"]` for the topics, the others for the cron and the verification
timer. A frame is named for the step it stands before; `Handle(a)` takes one step
of one frame, so that all handlers overlap at every await. `phases` is the
sequence of Iterative Review phases, `review[p, s]` the review of submission `s`
in phase `p`. `Submit` to `SubmissionEnds` are the environment; `EndRead` to
`FinalizeWrite` are `advancePhase`; the rest is `first2finish.service.ts`, one
action per stretch between awaits. The END reads the status of the challenge
(`EndRead`) before it writes the row (`EndClose`), as in `ChallengeFlow`; reopening a
phase and closing it on completion test the status in the step that writes. One
reviewer; the AI screening gate and calls that fail are left out, and so is Topgear,
which runs the same loop but whose Submission END finalizes the challenge whatever
phase is open (`scheduler.service.ts:1487-1497`).

### ApprovalLoop

The same layout with three actors: the consumer, a `stale` handler that runs on
after a Kafka session was restarted and its message came again, and the
background (timer, cron). `due[p]` is the END scheduled for a phase and whether
it prevents the finalization. `abandoned` is a history variable: it records the
ways, listed below, in which the code loses what the loop waits for.

| Code | Actions |
| --- | --- |
| `advancePhase` END of an Approval or Final Fix, `deferApprovalPhaseClosure` | `PendingRead`, `CompletedRead` with `StoreRead`, `EndClose`, `FinalizeWrite` |
| `handleReviewCompleted`, `closeOpenFinalFixPhases`, `ensureFollowUpFinalFixPhase` | `ConsumeReview`, `CreateFix` |
| `handleApprovalSubmissionLoop`, `createApprovalForFinalFixSubmission`, `createApprovalReviewsForSubmission` | `ConsumeSubmission`, `LoopCheck`, `CreateApproval`, `AssignApproval` |
| `handlePhaseOpenedForChallenge` as the cron replays it | `Update`, `PrepareDelete`, `PrepareCreate` |
| sessions, process, cron, timer | `Restart`, `Crash`, `Schedule`, `Fire` |

`StoreRead` is the read of the status before the transaction of the close; `EndClose`
closes an open row whatever the status is by then. Of the calls, those that
create a phase or a review may fail (`createFinalFixPhase`, `createApprovalPhase`,
`createPendingReview`); the close and the finalization do not, since `ChallengeFlow`
has their failures and retries. An AI-only
challenge, whose Approval closes without reviews (`scheduler.service.ts:945-994`), is
outside.

### ReviewAssignment

One Review phase, its reviewers and one submission. `poller` is the callback of
the registered poller: the map has one entry per phase whoever asks first, and
the entry a removed reviewer leaves does nothing when the phase is staffed.
`EnsureRead` and `EnsureDecide` are `evaluateAssignmentStatus` with what its
three callers make of the answer. Frames are as in `IterativeReview`. The reads
of the END guards are one step (`EndGuards`).

A review is pending, started or completed. `started` stands for every status that
`getPendingReviewCount` counts (`review.service.ts:1496-1499`) and
`deletePendingReviewsForResource` does not delete (`2020-2023`). The schema of the
review database is not in the repository: that there are such reviews is inferred
from the two WHERE clauses.

Calls fail where the code swallows the error and commits the message: the reads of
a resource event (`ConsumeFails`), the creation of one review (`CreateFails`), every
other call, the deletion of the reviews of a removed reviewer among them
(`CallFails`). Nobody repeats such work unless the cron does. Two history variables
record what is left behind: `missed`, the reviewers whose review could not be
created, and `haunted`, the reviewers whose unfinished review no deletion takes away,
because it was started before the removal, was created after it by a handler that
had read the reviewers before, or its deletion failed. A handler that dies in a crash
is different: its message comes again.

### KafkaClient

`session[i]` is a consumer with its stream and its loop; `committed[g]` is the
broker's offset, `handled[g]` what some loop has handled. `task` is
`reconnectionTask` with the place it waits at. `HandleFailure` is part of the
action that fails, because it runs without an await. Sessions of failed closes
live on, detached, as in the code. A handler that fails counts as handled: its
message goes to the dead letters and is committed even if that send fails too.
A session reads from the committed offset of its group and, if there is none, from
the end of the log (mode `committed`, `fallbackMode` `latest`,
`kafka.service.ts:374-375`). A group starts with an offset or without one
(`NoOffset`); `skipped[g]` records the messages that a replacement session passed over
because nothing had been committed yet. The circuit breaker is tested when a call
begins and counts when it returns (`circuit-breaker.ts:18`, `27-31`): calls that overlap
may count more failures than `Threshold`.

The model begins after a startup without failures, with every group consuming. A
failure of one group's session while the next is being started, which does not end
the process, and `startConsumerSession` with `updateHealth = true` (`396-399`), which
may then report ready during a rebuild, are not in it. The microtask between the end of a rebuild and its
`finally` clause is a state (`done`) here; `Recovers` does not speak of it. A failure
that falls into it after the last attempt leaves the client reconnecting without a
rebuild, until the next failure starts one (`handleKafkaFailure` asks for another
rebuild only while clients are being replaced or the state is ready).

## 3. What the runs check

| Run | Instance | Shows |
| --- | --- | --- |
| `store` | two workers, Submission, Review and Approval scheduled, spare ids, 5 calls | types, `DatesAgree`, `OneWinner`, refinement of `PhaseLifecycle` |
| `store_locked` | the same without preserving creations | `AtMostOnePostMortem` |
| `schedule` | Submission then Review, no faults | types, `OpenedInOrder` |
| `schedule_restart` | Submission, one fault (crash, failed call, failed commit), one edit | `OpensUnlessOrphaned`, `ClosesUnlessOrphaned` |
| `schedule_review` | Review, one fault | `EventuallyCloses` |
| `flow` | two handlers in flight, 2 attempts, two failed calls or crashes | types, `QueuedHasOwner`, `OutcomeIsEarned`, `OutcomeIsFinal`, `EndsUnlessAbandoned`, `PaidUnlessCallFailed` |
| `iterative` | two submissions, two phases, one background handler, review messages twice | types, `WinnerPassed`, `OutcomeIsFinal`, `EveryReviewed` |
| `kafka` | two groups, one with an offset and one without, three session slots, two messages each, 2 retries, a threshold of 1, one call, 2 faults | types, `OneSession`, `ReadyMeansRunning`, `StoppedForGood`, `Recovers`, `Stops`, `AllHandled`, refinement of `OrderedDelivery` |
| `approval` | one approver, two submissions, four phases, one mishap | types, `OneOpenApproval`, `EndedWithVerdict`, `VerdictsKept`, `WaitsUnlessAbandoned` |
| `assignment` | two reviewers of whom one is required, three changes, one mishap | types, `OpensWhenStaffed`, `EveryReviewerServed`, `ClosesUnlessHeld`, `PollingEnds` |

Two runs show the code doing something else than the documentation says; each is
a finding in `PROJECT.json`.

| Run | What happens |
| --- | --- |
| `iterative_cut` | Registration and Submission are over and a review fails. The END of its phase opens the next round (`reconcileClosedIterativeReviewPhase`) and creates its pending review; then the finalization is decided on the rows the close had returned, which show no open phase, and the challenge is cancelled for failed reviews |
| `approval_rejected` | The only review of an Approval fails. Before its message is handled the timer ends the phase, which has no pending review; all phases have ended, so the challenge is completed; the message finds the phase closed and is ignored |

Both are races, with the timer or with the snapshot of a close. What the passing
properties say holds around them: `WinnerPassed` and `EndedWithVerdict` are true
in those behaviours too.

### What the code does that no property forbids

The models show more than the properties say. These behaviours are reachable;
the properties name the first five groups as exceptions.

- `abandoned` in `ApprovalLoop`: a crash between the close of a phase and the
  Final Fix or finalization that follows; a failed `createFinalFixPhase`; a replay
  whose `createPendingReview` fails, because the phase counts as processed all
  the same; a rejected Approval that relies on a Final Fix of its snapshot which
  has ended meanwhile; a deferred END that keeps `preventFinalization` and comes
  last.
- `Abandoned` in `ChallengeFlow`: after the last attempt ("Manual intervention
  required") or a crash, only an update finishes the challenge, and nobody has to
  send one.
- `Stranded` in `IterativeReview`: `prepareNextIterativeReview`
  (`first2finish.service.ts:938`) does nothing while the latest Iterative Review
  phase is open, and `processFirst2FinishSubmission` drops a submission when the
  first open phase has a review. With three submissions the two can meet: a late
  message (a reviewer added, a submission repeated) opens an empty phase; the next
  submission opens another one, while a replay or the verification timer gives it to
  the first; a third submission is dropped because that phase is under review. When
  the review fails, the latest phase is still open and empty, and its fingerprint
  is processed: the third submission waits until another message comes.
- `haunted` and `missed` in `ReviewAssignment`: the unfinished review of a removed
  reviewer keeps the phase open for ever when it was started before the removal,
  when a handler that had read the reviewers before creates it afterwards, or when its
  deletion fails; a reviewer whose review could not be created waits in a phase that
  has been replayed.
- `skipped` in `KafkaClient`: when a session fails before its group has committed
  anything, its replacement starts at the end of the log, and the messages between
  are handled by nobody.
- `ApprovalLoop`: a submission that arrives while an Approval is open is dropped;
  one delivered twice can open an Approval for a submission already rejected; a
  review message delivered twice to overlapping handlers can open two Final
  Fixes; a Final Fix that ends without a submission completes the challenge; the
  replay of a continuation Approval replaces the pending review of the Final Fix
  submission by one of the original winner.
- `ReviewAssignment`: a poller that a removed reviewer leaves after the phase has
  closed runs for ever.
- `PhaseStore`: overlapping `advancePhase` calls can lose a name from
  `currentPhaseNames`; a challenge completed between the read and the transaction
  is still advanced; `createPostMortemPhasePreserving` does not lock, so that two
  of its calls may make two Post-Mortems.
- `TransitionScheduler`: an END planned before a late opening closes the phase
  early; the cleanup after an END cancels the retry its deferral has scheduled;
  after a restart the job of an old date stays in Redis and the new one is
  ignored; an add between the end and the removal of a job is ignored, while the
  registry records it. `OpensUnlessOrphaned` and `ClosesUnlessOrphaned` name the
  last two.

One more divergence needs no run: `AUTOPILOT_FLOW.md:55` has the worker call
`SchedulerService.advancePhase` directly after it has published the message;
`runScheduledTransition` only publishes.

### Bounds

`MaxCalls` bounds the calls on the store; 5 are enough for two complete
open/close pairs to overlap and for a stale open to commit after a close, the
longest scenario among the properties. Spare ids allow two creations of every
kind. `Horizon` is the last date, from which everything is due: 3 lets a phase
open on time, late or after its end and be rescheduled. `MaxBacklog = 1` keeps
one transition message unconsumed; a second would only repeat what redelivery
(`CommitFails`) and the two other producers already do. `MaxFaults` and
`MaxEdits` are 0 or 1: a second crash starts from states the first one reaches,
and a recovery that fails is not counted, since there is one recovery for each
crash. With both phases and a fault the state space exceeds what a run may take,
so faults are explored with one phase; `OpenedInOrder` is proved for any number
of phases and faults.

| Constant | Bound | Why it is enough |
| --- | --- | --- |
| `Handlers` (`flow`) | 2 | every property is about two overlapping callers; a third repeats one of their roles |
| `MaxAttempts`, `MaxMishaps` (`flow`) | 2, 2 | both attempts may fail and the count be given up; a crash may fall at every step, before or after a failed call or another crash |
| `NumSubs`, `MaxPhases` (`iterative`) | 2, 2 | one submission under review and one that waits; a third phase is `OutOfPhases`. `Stranded` takes three submissions and three phases, beyond what a run may take; `OnlyStrandedAtRest` is proved for any number |
| `Background`, `Repeated` (`iterative`) | 1, review messages | a replay or timer beside the consumer; the repeated message is the one that can prepare two rounds |
| `Slots` (`kafka`) | 3 | two sessions and one detached by a close that failed |
| `Messages`, `Retries`, `Threshold`, `MaxCalls`, `MaxFaults` (`kafka`) | 2, 2, 1, 1, 2 | two faults exhaust both attempts of a rebuild, or fail a client and then its replacement, or open the breaker and then fail a client; of two messages one is committed and one is in flight. The order of any number of messages is proved (`ClientDeliversInOrder`) |
| `Approvers` (`approval`) | 1 | two exceed what a run may take |
| `NumSubs`, `MaxPhases` (`approval`) | 2, 4 | a rejection, a Final Fix, its submission, a second Approval and a second Final Fix |
| `Reviewers`, `Required`, `MaxChanges` (`assignment`) | 2, 1, 3 | both assigned and one removed, so that the phase stays staffed with the review of the removed one |
| `MaxMishaps` (`approval`, `assignment`) | 1 | one crash, restart or call that fails at any step where the modules above let it fail |

Where background handlers are bounded to one at a time, the cron, the timers and
the chain exclude each other in the model and not in the code; each may still be
interrupted at every await by the consumer.

### Fairness

`TransitionScheduler`: weak fairness of the worker, the consumer, the chain, the
synchronisation cron, recovery, each update in progress, each schedule call in
progress and the clock: the event loop runs every continuation, BullMQ delivers
a job whose delay is over, the consumer loop polls for ever, the cron fires every
three minutes. Crashes, failures, edits and the work of reviewers are not owed.
`EventuallyCloses` therefore speaks of phases without pending work. `PhaseStore`
has no liveness properties: a caller may give up.

The other modules assume the same. A handler that has begun is run on
(`WF(Handle)`), topics are consumed, timers fire. The cron replays what
`synchronizeChallenges` selects and nothing else: a challenge whose phases have
all ended gets no update in `ChallengeFlow` unless it is payable. Strong fairness
stands where the bound on handlers, and not the code, makes actors wait for each
other (`CloseRead`, `Start`, `TimerFires` and `Update` of `ChallengeFlow`, `Fire` and `Update` of
`ApprovalLoop`, the cron of `ReviewAssignment`), and for a topic consumed by a
handler that is busy now and then. `IterativeReview` and `ReviewAssignment` let
reviewers do their work in the end, since their properties are about what comes
after it; `ApprovalLoop` does not. Failures and crashes are bounded and never
owed. In `KafkaClient` the broker answers, a close ends and a handler returns: a
handler that hangs would hang its session, and a rebuild that waits for it, in
the code as well.

## 4. What is proved

`PhaseStore_proofs` proves, for any phases, workers and number of calls:

- `TypeCorrect`, `DatesAlwaysAgree`, `OneWinnerAlways`: `PhaseStore!Spec => []...`.
  The inductive invariant is `Inv == TypeOK /\ DatesAgree /\ Claims`. `OneWinner`
  is not inductive: `Claims` ties the counters to the row (an open counted once
  means the row has started, a close counted once that it has ended), and
  `DatesAgree` carries it, because the WHERE clauses test `isOpen` and
  `actualEndDate`, and only their agreement with the past makes a second open
  impossible.
- `StoreImplementsLifecycle`: every step maps to a step or stutter of
  `PhaseLifecycle`. `RowStep` analyses each action once and the other theorems
  use it.
- `OnePostMortemUnderLock`: `AtMostOnePostMortem`, assuming `LockedCreation` (no
  preserving creation, one Post-Mortem launched at most, and Post-Mortems ordered
  after the phases they follow, as their start dates are). The lookup under the
  lock sees every Post-Mortem, so the creation is reached only when there is none.

The assumptions are those of `StoreAssumption`, chiefly that Approval, the
continuations and the bases are not called Post-Mortem.

`TransitionScheduler_proofs` proves, for any tree of phases, any horizon and any
number of messages, faults and edits:

- `SchedulerTypeCorrect`, from the inductive invariant `Shape`. Types alone are not
  inductive: the number of notices is one plus the edits at most and a committed
  message was there to commit (`ConsumerInput`), and the job of the running worker
  exists because nobody can remove or replace it (`RunnerOwnsJob`, a fact about the
  contract of BullMQ that the proof needs and no result in itself). Each action has a
  lemma; those of the job operations (`CancelJobs`, `AddJobs`, `BeginFirstJobs`) carry
  most of it.
- `AlwaysOpenedInOrder`: the action property `OpenedInOrder`. The code checks the
  predecessor when it plans a START and never when it opens the phase, so the
  invariant `StartsInOrder` has to follow a START through every place it can be
  in (plans and wants of handlers, half-made schedule calls, the queue, the
  topic, the chain): in each, the predecessor has ended already. It is kept
  because no action un-ends a phase (`StagesMove`, `OrderKept`).
- `SchedulerImplementsLifecycle`: the scheduler as a whole, with its stale plans,
  redelivery, replays and crashes, implements `PhaseLifecycle`. Every step that
  touches a row is an open or a close (`RowSteps`), each guarded by the stage.

The assumptions are `SchedulerAssumption` and `JobsAssumption`: types, and that
`None` is no job. BullMQ's refusal to remove an active job or to add a second job
with one id is part of the model (`Removable`, `Added`), not proved.

`ChallengeFlow_proofs` proves, for any number of handlers, attempts and mishaps
(`FlowAssumption`):

- `FlowTypeCorrect`, `QueueHasOwner`, `OutcomeEarned` and the action property
  `OutcomeStays`. The invariant is `Typed`, `World` and `Sound(run[h])` for
  each handler. `Sound` says what the reads of a handler are still worth when it
  acts: most facts it may rely on (nothing was submitted, the screening failed, the
  reviews are over) can only become true, and the rest it reads again. That they
  never become false is `Kept`, proved once for `Next`; with it the other handlers
  survive each step, and an action has only its own handler to look at.
- `FlowKeepsLifecycle`: every step is one of `PhaseLifecycle` or a stutter, the
  deletion of a phase that a Post-Mortem replaces included.
- `FlowHasNoDeadEnd` and `PaymentNeverForgotten`: the safety behind
  `EndsUnlessAbandoned` and `PaidUnlessCallFailed`. While a challenge is ACTIVE and
  not `Abandoned`, there is a handler at work, a timer, a phase that may end or start,
  or an open phase the cron replays; and a payable challenge that was not paid is
  news to the update handler unless a call failed. The first uses `QueuedHasOwner`,
  the second that the status cache never runs ahead of the payment (`PaymentSeen`).

`IterativeReview_proofs` proves, for any submissions, phases and background
handlers (`IterativeAssumption`, chiefly that the consumer is not one of them):

- `IterativeTypeCorrect`, `WinnerAlwaysPassed` and the action property
  `OutcomeStays`. The invariant follows what stands on the stacks: background
  handlers never have a frame that ends a phase or the challenge; a frame about
  to complete the challenge names a submission that passed, with the challenge not
  failed; a finalization that has read finds the challenge ACTIVE still, and decides
  without a winner only when no such frame waits below it (`Stacks`, `Deciding`).

`IterativeProgress_proofs` proves, under the same assumptions, what keeps the loop
going:

- `ReviewsAlwaysFollowed`: an open phase with a completed review has another review
  pending, the message of the completion unread, or the consumer about to end it.
- `SubmissionsAlwaysWait`: while a submission has no review, a message, the consumer
  at work or a pending review leads on, or the latest phase is open and empty.
- `OnlyStrandedAtRest`: the safety behind `EveryReviewed`. At rest every submission
  has its review, or the challenge has ended, or it is `Stranded`. The proof attempt
  is how `Stranded` was found: without the exception the invariant is false from
  three submissions on, which no run reaches.

The invariant is `Going`: these two, and that a frame still holds what it read
(`Sound`: a review is only created in a phase that has started, a frame that ends a
phase has seen a completed review) and that only frames which wait for their callee
stand below another on the stack of the consumer (`Nested`).

`ApprovalLoop_proofs` proves, for any approvers, submissions, phases and mishaps
(`ApprovalAssumption`: there is an approver and a submission):

- `LoopTypeCorrect`, `OneApprovalAtATime`, `NoEndWithoutVerdict` and the action
  property `VerdictsStay`. Two facts carry the invariant. The handler that opens
  the next Approval holds the lock, alone, and no Approval is open when it stands
  at the creation (`Stacks`): so opens cannot meet, in spite of the await between
  check and creation. And a frame that closes an Approval has seen a completed
  review (`Seen`), which no later step undoes (`Kept`).
- `LockNeverLeaks`: the lock is held exactly while a handler stands between the
  check and the end of the loop, whatever restarts or crashes.
- `NeverStuckHalfway`: the safety behind `WaitsUnlessAbandoned`. A challenge that
  waits for nobody and is not over has a handler that owes what follows the phase it
  closed, or an open Approval that may end or is still to be prepared. The invariant
  `Forward` follows the obligation through the frames: an END that prevents the
  finalization is always run by a handler that goes on with the Final Fix.
- `LoopKeepsLifecycle`: an Approval or Final Fix is created open and ends once.

`KafkaClient_proofs` proves, for any groups, session slots, messages, retries and
faults (`KafkaAssumption`, and `SlotsSuffice`: there are slots for one session of
every group at the start):

- `KafkaTypeCorrect`, `NothingEverSkipped`, `OneSessionAlways`,
  `ReadyAlwaysMeansRunning` and `ShutdownIsFinal`. `NothingSkipped` says
  that no offset passes a message that was neither handled nor passed over by a
  session without an offset (`skipped`). It needs `Positions`: a loop stands where everything before it has been handled, whichever
  session handled it, or was passed over. `OneSession` and `ReadyMeansRunning` need what a rebuild has
  done at the await it stands at: it has closed the sessions of the groups it will
  start (`Rebuild`), and a session that fails meanwhile is noted in `requested`
  (`Running`). A stopped client has no task and no open session (`Stopped`).
- `ClientDeliversInOrder`: `Spec => ImplementsDelivery`, the refinement of
  `OrderedDelivery`: no handler sees a message before it has returned from all in
  front of it, and no offset passes one it has not returned from, the messages
  passed over while the group had no offset apart. `NothingEverSkipped`
  is the state it rests on.
- `NothingStranded`: when the client is ready and no rebuild is pending, a message
  neither handled nor passed over is in front of an open session, what `AllHandled` needs in each state;
  `NothingRevives`: after a shutdown the client changes no more.

`ReviewAssignment_proofs` proves, for any reviewers, changes and mishaps
(`AssignmentAssumption`):

- `AssignmentTypeCorrect`, from the types of frames and messages.
- `NoRemovalForgotten`, the safety half of `ClosesUnlessHeld`: each unfinished review
  of a removed reviewer is one of the three kinds of `haunted`, or it is pending and
  its removal is in the topic, or at the consumer with the deletion next
  (`RemovalsOwed`). A crash puts the message back.
- `ReviewerNeverForgotten`, the safety behind `EveryReviewerServed`: whoever is
  assigned to the open phase, has no review and was not `missed` is in an unread message, or the
  consumer is about to read the reviewers or has read him, or a replay is to come, or
  under way, that has not left him out (`Watched`). It needs that a phase is neither
  processed nor replayed before it opens (`Fresh`), that only reviews of removed
  reviewers are deleted (`Honest`), and the form of the stacks (`Shallow`).
- `NothingElseHoldsThePhase`, the safety behind `ClosesUnlessHeld`, from the two: when
  nothing is left to do, the staffed phase passes the guards of its END unless the
  review of a haunted reviewer or a missed one holds it.

Model-checked only: liveness itself (`EventuallyCloses`, `OpensUnlessOrphaned`,
`Recovers`, `PollingEnds` and the others), since TLAPS knows neither fairness nor
`ENABLED`, and everything a violation run shows. For `EveryReviewed`,
`EveryReviewerServed`, `ClosesUnlessHeld`, `EndsUnlessAbandoned`,
`PaidUnlessCallFailed`, `WaitsUnlessAbandoned` and `AllHandled` the theorems above say,
for every value of the constants, that no state is one from which nothing could lead
on; that something in the end does is what the runs add. `OpensUnlessOrphaned` and
`ClosesUnlessOrphaned` have no such kernel: whatever state it finds, synchronisation
starts again from the database, so that they rest on the fairness of the cron and the
worker and not on an invariant.

## 5. Not modelled

- Appeals and appeals response: the fast track (`openAppealsPhasesNow`), the chain
  and the response guard. They need appeals beside reviews; `OneWinner` covers the
  two opens that may meet.
- AI screening and AI review: the guard of the END, the restart of an AI Screening
  phase on a submission, the AI-only finalization. The decisions are made by
  another service.
- Marathon match, Topgear late submission and checkpoint winners: branches of the
  same handlers on challenge types with rules of their own.
- What is written as winners, points, statistics, scores and metadata; notifications,
  finance beyond the moment it is called, members, the action log.
- Authentication, configuration, health endpoints.
- Backoff delays, successor dates beyond what `TransitionScheduler` needs, and the
  selection of submissions by score: pure functions, within the reach of unit
  tests.
- Startup of the Kafka client, which ends the process when it fails.
