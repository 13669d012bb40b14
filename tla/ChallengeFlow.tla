---------------------------- MODULE ChallengeFlow ----------------------------
(***************************************************************************)
(* How one challenge ends.  A phase that closes is followed by a handler:  *)
(* no registrations, no submissions and failed screening lead to a         *)
(* Post-Mortem and a cancellation, the end of the last phase to the        *)
(* finalization, which is retried by a timer.  Challenge updates (from the *)
(* topic or replayed by the cron) repair what the handlers left undone.    *)
(* All of it runs in one Node process and interleaves at every await.      *)
(*                                                                         *)
(* PhaseStore has the transactions and TransitionScheduler the jobs: here  *)
(* a phase is its stage, and a due transition is an action that may happen.*)
(***************************************************************************)
EXTENDS Naturals, FiniteSets

CONSTANTS
    Handlers,     \* the handler invocations that may be in flight
    MaxAttempts,  \* finalizationRetryMaxAttempts
    MaxMishaps    \* bound: calls that fail and restarts of the process

ASSUME FlowAssumption ==
    /\ IsFiniteSet(Handlers) /\ Handlers # {}
    /\ MaxAttempts \in Nat \ {0} /\ MaxMishaps \in Nat

Registration == "Registration"
Submission == "Submission"
Screening == "Screening"
Review == "Review"
PostMortem == "Post-Mortem"
Phases == {Registration, Submission, Screening, Review, PostMortem}

Stages == {"absent", "waiting", "open", "ended"}
Cancelled == {"ZERO_REGISTRATIONS", "ZERO_SUBMISSIONS", "FAILED_SCREENING", "FAILED_REVIEW"}
Statuses == {"ACTIVE", "COMPLETED"} \cup Cancelled
Payable == {"COMPLETED", "FAILED_REVIEW"}

VARIABLES
    status,      \* the status of the challenge row
    stage,       \* stage[p]: where the row of phase p is
    registered,  \* the challenge has a submitter resource
    submitted,   \* it has an active contest submission
    screening,   \* what screening finds of the submissions
    summary,     \* what generateReviewSummaries makes of the reviews
    paid,        \* finance-api has accepted a payment request
    run,         \* run[h]: where the handler h is
    attempts,    \* finalizationAttempts, 0 when the map has no entry
    timer,       \* finalizationRetryTimers has an entry
    cached,      \* the last status the update handler has seen, or none
    faults, crashes

vars == <<status, stage, registered, submitted, screening, summary, paid, run,
          attempts, timer, cached, faults, crashes>>

world == <<registered, submitted, screening, summary>>
memory == <<attempts, timer, cached>>
budget == <<faults, crashes>>

Idle == [at |-> "idle"]
Busy(h) == run[h] # Idle

\* The control of h moves to a step and keeps the rest of its record.
Go(h, step) == run' = [run EXCEPT ![h].at = step]
Done(h) == run' = [run EXCEPT ![h] = Idle]
At(h, step) == run[h].at = step

\* A call fails, within the bound.
Fail == faults + crashes < MaxMishaps /\ faults' = faults + 1 /\ UNCHANGED crashes

Present == {p \in Phases : stage[p] # "absent"}
AllEnded == Present # {} /\ \A p \in Present : stage[p] = "ended"

\* The phases after a base phase, in the order of the rows.
After(p) ==
    CASE p = Registration -> Phases \ {Registration}
      [] p = Submission -> {Screening, Review, PostMortem}
      [] p = Screening -> {Review, PostMortem}
      [] OTHER -> {}

Successors(p) ==
    CASE p = Submission -> IF stage[Screening] # "absent" THEN {Screening} ELSE {Review}
      [] p = Screening -> {Review}
      [] OTHER -> {}

\* Every active submission failed screening.
ScreenedOut == submitted /\ stage[Screening] # "absent" /\ screening = "failed"

\* What screening finds matters only where the phase exists, and the summaries only
\* where something can pass it.
Init ==
    /\ status = "ACTIVE"
    /\ \E s \in {"absent", "waiting"} :
         stage = [p \in Phases |->
                    CASE p \in {Registration, Submission} -> "open"
                      [] p = Screening -> s
                      [] p = Review -> "waiting"
                      [] p = PostMortem -> "absent"]
    /\ registered = FALSE /\ submitted = FALSE
    /\ screening \in {"passed", "failed"} /\ (stage[Screening] = "absent" => screening = "passed")
    /\ summary \in {"failing", "passing"} /\ (screening = "failed" => summary = "passing")
    /\ paid = FALSE
    /\ run = [h \in Handlers |-> Idle]
    /\ attempts = 0 /\ timer = FALSE /\ cached = "none"
    /\ faults = 0 /\ crashes = 0

-----------------------------------------------------------------------------
(* Members and reviewers *)

Register ==
    /\ stage[Registration] = "open" /\ ~registered
    /\ registered' = TRUE
    /\ UNCHANGED <<status, stage, submitted, screening, summary, paid, run, memory, budget>>

Submit ==
    /\ stage[Submission] = "open" /\ registered /\ ~submitted
    /\ submitted' = TRUE
    /\ UNCHANGED <<status, stage, registered, screening, summary, paid, run, memory, budget>>

-----------------------------------------------------------------------------
(* advancePhase: a due END and the handler of the closed phase *)

\* Review closes with at least one completed review (deferReviewPhaseClosure
\* otherwise), which only a submission that passed screening can have.
Ready(p) == p = Review => submitted /\ ~ScreenedOut

\* advancePhase up to the transaction: the guards of the scheduler, and the store
\* reads the challenge and tests its status.
CloseRead(h, p) ==
    /\ ~Busy(h) /\ status = "ACTIVE" /\ stage[p] = "open" /\ Ready(p)
    /\ run' = [run EXCEPT ![h] = [at |-> "close", caller |-> "end", base |-> p, lastOne |-> FALSE]]
    /\ UNCHANGED <<status, stage, world, paid, memory, budget>>

\* The close transaction looks at the row only, whatever the status is by now.
Close(h) ==
    /\ At(h, "close")
    /\ LET p == run[h].base IN
         IF stage[p] = "open"
         THEN stage' = [stage EXCEPT ![p] = "ended"] /\ Go(h, "reload")
         ELSE Done(h) /\ UNCHANGED stage
    /\ UNCHANGED <<status, world, paid, memory, budget>>

HandlerOf(p) ==
    CASE p = Registration -> "regRead"
      [] p = Submission -> "subRead"
      [] p = Screening -> "screenRead"
      [] p = PostMortem -> "pmRead"
      [] OTHER -> "finish"

\* The rows are read again.  This snapshot decides about finalization later,
\* whatever the handler of the closed phase and others do in between.
Reload(h) ==
    /\ At(h, "reload")
    /\ run' = [run EXCEPT ![h].at = HandlerOf(run[h].base), ![h].lastOne = AllEnded]
    /\ UNCHANGED <<status, stage, world, paid, memory, budget>>

\* attemptChallengeFinalization up to its first await: the attempt is counted in
\* the step that decides on it.
StartAttempt(h) ==
    /\ attempts' = attempts + 1
    /\ run' = [run EXCEPT ![h] = [at |-> "finalRead", number |-> attempts + 1]]

\* Mutant: the finalization starts without looking at the other phases.
FinishAnyway(h) ==
    /\ At(h, "finish")
    /\ StartAttempt(h)
    /\ UNCHANGED <<status, stage, world, paid, timer, cached, budget>>

\* No open, incomplete or next phase: finalize.
Finish(h) ==
    /\ At(h, "finish") /\ run[h].lastOne
    /\ StartAttempt(h)
    /\ UNCHANGED <<status, stage, world, paid, timer, cached, budget>>

\* Phase p may be opened as far as a caller of advancePhase can see.
Openable(p) == status = "ACTIVE" /\ stage[p] = "waiting"

\* Otherwise the chain opens the successor, or leaves it: it is gone, the challenge is no
\* longer ACTIVE, or its reviewers are missing and a poller will start it.
Chain(h) ==
    /\ At(h, "finish") /\ ~run[h].lastOne
    /\ \/ \E p \in Successors(run[h].base) :
            Openable(p) /\ run' = [run EXCEPT ![h].at = "open", ![h].base = p]
       \/ Done(h)
    /\ UNCHANGED <<status, stage, world, paid, memory, budget>>

\* A START posted by the cron, the recovery or a reviewer poller, when the
\* predecessor has ended.
Start(h, p) ==
    /\ ~Busy(h) /\ Openable(p)
    /\ \E q \in Present : p \in Successors(q) /\ stage[q] = "ended"
    /\ run' = [run EXCEPT ![h] = [at |-> "open", caller |-> "end", base |-> p, lastOne |-> FALSE]]
    /\ UNCHANGED <<status, stage, world, paid, memory, budget>>

\* The open transaction looks at the row only.
Open(h) ==
    /\ At(h, "open")
    /\ Done(h)
    /\ LET p == run[h].base IN
         stage' = [stage EXCEPT ![p] = IF @ = "waiting" THEN "open" ELSE @]
    /\ UNCHANGED <<status, world, paid, memory, budget>>

-----------------------------------------------------------------------------
(* The handlers of a closed Registration, Submission and Screening phase *)

\* The two callers of the submission handler: the END lets the chain run when
\* there are submissions, the update goes on to evaluateManualPhaseCompletion.
Continue(h) == IF run[h].caller = "end" THEN "finish" ELSE "evaluate"

\* An error of the handler: that of Submission ends the caller, those of the
\* others are logged and the caller goes on.
Swallow(h) ==
    IF run[h].base = Submission \/ run[h].at \in {"close", "reload", "open"}
    THEN Done(h) ELSE Go(h, "finish")

Fails(h, steps) ==
    /\ run[h].at \in steps
    /\ Fail
    /\ Swallow(h)
    /\ UNCHANGED <<status, stage, world, memory>>

\* handleRegistrationPhaseClosed
RegistrationRead(h) ==
    /\ At(h, "regRead")
    /\ Go(h, IF registered THEN "finish" ELSE "createPM")
    /\ UNCHANGED <<status, stage, world, paid, memory, budget>>

\* handleSubmissionPhaseClosed: getActiveContestSubmissionIds
SubmissionRead(h) ==
    /\ At(h, "subRead")
    /\ Go(h, IF submitted THEN Continue(h) ELSE "createPM")
    /\ UNCHANGED <<status, stage, world, paid, memory, budget>>

\* createPostMortemPhase: one transaction under the lock of the row
Replaced(base) ==
    [p \in Phases |-> IF p = PostMortem THEN "open"
                      ELSE IF p \in After(base) THEN "absent" ELSE stage[p]]

\* Mutant: the Post-Mortem is created before the cancellation.
ScreeningReadSwapped(h) ==
    /\ At(h, "screenRead")
    /\ IF ScreenedOut
       THEN Go(h, "cancel") /\ stage' = Replaced(Screening)
       ELSE Go(h, "finish") /\ UNCHANGED stage
    /\ UNCHANGED <<status, world, paid, memory, budget>>

\* handleScreeningPhaseClosed: cancels before it creates the Post-Mortem
ScreeningRead(h) ==
    /\ At(h, "screenRead")
    /\ Go(h, IF ScreenedOut THEN "cancel" ELSE "finish")
    /\ UNCHANGED <<status, stage, world, paid, memory, budget>>

CreatePostMortem(h) ==
    /\ At(h, "createPM")
    /\ stage[run[h].base] # "absent"
    /\ stage' = Replaced(run[h].base)
    /\ Go(h, "reviews")
    /\ UNCHANGED <<status, world, paid, memory, budget>>

\* The base phase was deleted by a concurrent handler: NotFoundException.
CreateRefused(h) ==
    /\ At(h, "createPM")
    /\ stage[run[h].base] = "absent"
    /\ Swallow(h)
    /\ UNCHANGED <<status, stage, world, paid, memory, budget>>

\* The pending Post-Mortem reviews; then the cancellation that Submission needs,
\* the schedule of the END that the others do, and the payment of screening.
PostMortemReviews(h) ==
    /\ At(h, "reviews")
    /\ IF run[h].base = Submission THEN Go(h, "cancel") ELSE Done(h)
    /\ paid' = (paid \/ run[h].base = Screening)
    /\ UNCHANGED <<status, stage, world, memory, budget>>

ZeroReason == IF registered THEN "ZERO_SUBMISSIONS" ELSE "ZERO_REGISTRATIONS"

\* Mutant: a cancellation without its reason.
CancelEmptyBare(h) ==
    /\ At(h, "cancel") /\ run[h].base = Submission
    /\ status' = "CANCELLED"
    /\ Done(h)
    /\ UNCHANGED <<stage, world, paid, memory, budget>>

\* cancelChallenge: an unconditional write of the status
CancelEmpty(h) ==
    /\ At(h, "cancel") /\ run[h].base = Submission
    /\ status' = ZeroReason
    /\ cached' = (IF run[h].caller = "update" THEN ZeroReason ELSE cached)
    /\ Done(h)
    /\ UNCHANGED <<stage, world, paid, attempts, timer, budget>>

CancelScreened(h) ==
    /\ At(h, "cancel") /\ run[h].base = Screening
    /\ status' = "FAILED_SCREENING"
    /\ Go(h, "createPM")
    /\ UNCHANGED <<stage, world, paid, memory, budget>>

\* handlePostMortemPhaseClosed: a challenge already cancelled keeps its status
PostMortemRead(h) ==
    /\ At(h, "pmRead")
    /\ IF status \in Cancelled THEN Done(h) ELSE Go(h, "pmCancel")
    /\ UNCHANGED <<status, stage, world, paid, memory, budget>>

PostMortemCancel(h) ==
    /\ At(h, "pmCancel")
    /\ status' = ZeroReason
    /\ Done(h)
    /\ UNCHANGED <<stage, world, paid, memory, budget>>

\* A failed call after the cancellation of screening still pays (finally).
HandlerFails(h) ==
    /\ Fails(h, {"close", "reload", "open", "regRead", "subRead", "screenRead", "createPM", "reviews", "cancel",
                 "pmRead", "pmCancel"})
    /\ paid' = (paid \/ (run[h].base = Screening /\ run[h].at \in {"createPM", "reviews"}))

CloseHandler(h) ==
    \/ Close(h) \/ Reload(h) \/ Finish(h) \/ Chain(h) \/ Open(h)
    \/ RegistrationRead(h) \/ SubmissionRead(h) \/ ScreeningRead(h)
    \/ CreatePostMortem(h) \/ CreateRefused(h) \/ PostMortemReviews(h)
    \/ CancelEmpty(h) \/ CancelScreened(h)
    \/ PostMortemRead(h) \/ PostMortemCancel(h)

-----------------------------------------------------------------------------
(* attemptChallengeFinalization and finalizeChallenge *)

\* Mutant: the attempt that gives up forgets the timer and keeps the counter.
RetryKeepsCount(h) ==
    /\ Done(h)
    /\ timer' = (timer \/ run[h].number < MaxAttempts)
    /\ UNCHANGED attempts

\* scheduleFinalizationRetry: a timer that is set wins, else the last attempt
\* gives up and forgets the count.
Retry(h) ==
    /\ Done(h)
    /\ timer' = (timer \/ run[h].number < MaxAttempts)
    /\ attempts' = (IF ~timer /\ run[h].number >= MaxAttempts THEN 0 ELSE attempts)

\* finalizeChallenge returned true: clearFinalizationRetry.
Settle(h) ==
    /\ Done(h)
    /\ timer' = FALSE /\ attempts' = 0

\* A challenge that is not ACTIVE is paid for again if it is payable.
FinalReadSettled(h) ==
    /\ At(h, "finalRead") /\ status # "ACTIVE"
    /\ paid' = (paid \/ status \in Payable)
    /\ Settle(h)
    /\ UNCHANGED <<status, stage, world, cached, budget>>

FinalRead(h) ==
    /\ At(h, "finalRead") /\ status = "ACTIVE"
    /\ Go(h, "summaries")
    /\ UNCHANGED <<status, stage, world, paid, memory, budget>>

\* What the summaries make of an ACTIVE challenge.
Verdict ==
    CASE ~submitted -> "ZERO_SUBMISSIONS"
      [] submitted /\ summary = "failing" -> "FAILED_REVIEW"
      [] OTHER -> "COMPLETED"

Summaries(h) ==
    /\ At(h, "summaries")
    /\ run' = [run EXCEPT ![h] =
                 [at |-> "write", number |-> run[h].number, reason |-> Verdict]]
    /\ UNCHANGED <<status, stage, world, paid, memory, budget>>

\* completeChallenge or cancelChallenge
WriteOutcome(h) ==
    /\ At(h, "write")
    /\ status' = run[h].reason
    /\ Go(h, IF run[h].reason = "COMPLETED" THEN "settle" ELSE "preserve")
    /\ UNCHANGED <<stage, world, paid, memory, budget>>

\* ensureCancelledPostMortem: an existing Post-Mortem is returned as it is, and
\* an error is logged only.
PreservePostMortem(h) ==
    /\ At(h, "preserve")
    /\ stage' = [stage EXCEPT ![PostMortem] = IF @ = "absent" THEN "open" ELSE @]
    /\ Go(h, "settle")
    /\ UNCHANGED <<status, world, paid, memory, budget>>

PreserveFails(h) ==
    /\ At(h, "preserve") /\ Fail
    /\ Go(h, "settle")
    /\ UNCHANGED <<status, stage, world, paid, memory>>

\* generateChallengePayments is started and not awaited; its failure is logged.
SettleOutcome(h) ==
    /\ At(h, "settle")
    /\ \/ paid' = (paid \/ run[h].reason \in Payable) /\ UNCHANGED budget
       \/ UNCHANGED paid /\ run[h].reason \in Payable /\ Fail
    /\ Settle(h)
    /\ UNCHANGED <<status, stage, world, cached>>

\* A call throws, or finalizeChallenge returns false (no review data yet).
AttemptFails(h) ==
    /\ run[h].at \in {"finalRead", "summaries", "write"} /\ Fail
    /\ Retry(h)
    /\ UNCHANGED <<status, stage, world, paid, cached>>

Finalization(h) ==
    \/ FinalReadSettled(h) \/ FinalRead(h)
    \/ Summaries(h) \/ WriteOutcome(h) \/ PreservePostMortem(h) \/ SettleOutcome(h)

TimerFires(h) ==
    /\ ~Busy(h) /\ timer
    /\ timer' = FALSE
    /\ StartAttempt(h)
    /\ UNCHANGED <<status, stage, world, paid, cached, budget>>

-----------------------------------------------------------------------------
(* handleChallengeUpdate *)

\* triggerFinanceGenerationForPayableStatus: only when the status is news.
News == status \in Payable /\ cached # status

\* Mutant: only a change of status that was seen is paid for.
UpdateSettledSeen(h) ==
    /\ ~Busy(h) /\ status # "ACTIVE"
    /\ paid' = (paid \/ (News /\ cached # "none"))
    /\ cached' = status
    /\ UNCHANGED <<status, stage, world, run, attempts, timer, budget>>

UpdateSettled(h) ==
    /\ ~Busy(h) /\ status # "ACTIVE"
    /\ \/ paid' = (paid \/ News) /\ UNCHANGED budget
       \/ News /\ UNCHANGED paid /\ Fail
    /\ cached' = status
    /\ UNCHANGED <<status, stage, world, run, attempts, timer>>

\* Mutant: the closed Submission is not reconciled.
UpdateReadLazy(h) ==
    /\ ~Busy(h) /\ status = "ACTIVE"
    /\ run' = [run EXCEPT ![h] =
          [at |-> "evaluate", caller |-> "update", base |-> Submission, lastOne |-> AllEnded]]
    /\ UNCHANGED <<status, stage, world, paid, memory, budget>>

\* reconcileClosedSubmission and evaluateManualPhaseCompletion decide on the
\* snapshot that is read here.
UpdateRead(h) ==
    /\ ~Busy(h) /\ status = "ACTIVE"
    /\ run' = [run EXCEPT ![h] =
          [at |-> IF stage[PostMortem] = "absent" /\ stage[Submission] = "ended"
                  THEN "subRead" ELSE "evaluate",
           caller |-> "update", base |-> Submission, lastOne |-> AllEnded]]
    /\ UNCHANGED <<status, stage, world, paid, memory, budget>>

\* evaluateManualPhaseCompletion
Evaluate(h) ==
    /\ At(h, "evaluate")
    /\ cached' = "ACTIVE"
    /\ IF run[h].lastOne /\ attempts = 0 /\ ~timer
       THEN StartAttempt(h)
       ELSE Done(h) /\ UNCHANGED attempts
    /\ UNCHANGED <<status, stage, world, paid, timer, budget>>

\* The cron replays the update of an ACTIVE challenge with an open Screening or
\* Review, and of a payable one.
Replayed ==
    \/ status = "ACTIVE" /\ \E p \in {Screening, Review} : stage[p] = "open"
    \/ status \in Payable

Update(h) == UpdateSettled(h) \/ UpdateRead(h)
-----------------------------------------------------------------------------
\* The maps, the timer and the handlers in flight die with the process.
Crash ==
    /\ faults + crashes < MaxMishaps /\ crashes' = crashes + 1
    /\ run' = [h \in Handlers |-> Idle]
    /\ attempts' = 0 /\ timer' = FALSE /\ cached' = "none"
    /\ UNCHANGED <<status, stage, world, paid, faults>>

\* A step of a handler in flight, whose calls return.
Handle(h) == CloseHandler(h) \/ Evaluate(h) \/ Finalization(h)

Next ==
    \/ Register \/ Submit
    \/ \E h \in Handlers :
         \/ \E p \in Phases : CloseRead(h, p) \/ Start(h, p)
         \/ Handle(h)
         \/ TimerFires(h)
         \/ Update(h)
         \/ HandlerFails(h) \/ AttemptFails(h) \/ PreserveFails(h)
    \/ Crash

Spec == Init /\ [][Next]_vars

\* Every call returns, every timer fires, a due transition is delivered (jobs
\* and the cron) and the cron replays updates.
\* Nothing makes an update arrive otherwise.  Strong where the updates of
\* others may hold the handlers of this instance again and again.
Fairness ==
    /\ \A h \in Handlers : WF_vars(Handle(h))
    /\ SF_vars(\E h \in Handlers : TimerFires(h))
    /\ SF_vars(\E h \in Handlers, p \in Phases : Start(h, p))
    /\ SF_vars(\E h \in Handlers, p \in Phases : CloseRead(h, p))
    /\ SF_vars(Replayed /\ \E h \in Handlers : Update(h))

FairSpec == Spec /\ Fairness
-----------------------------------------------------------------------------
(* Properties *)

AttemptSteps == {"finalRead", "summaries", "write", "preserve", "settle"}
HandlerSteps == {"close", "reload", "open", "regRead", "subRead", "screenRead",
                 "createPM", "reviews", "cancel", "pmRead", "pmCancel", "finish",
                 "evaluate"}

\* Every variable keeps its type.
TypeOK ==
    /\ status \in Statuses
    /\ stage \in [Phases -> Stages]
    /\ registered \in BOOLEAN /\ submitted \in BOOLEAN /\ paid \in BOOLEAN
    /\ screening \in {"passed", "failed"}
    /\ summary \in {"failing", "passing"}
    /\ \A h \in Handlers :
         \/ run[h] = Idle
         \/ run[h].at \in HandlerSteps /\ run[h].base \in Phases
         \/ run[h].at \in AttemptSteps /\ run[h].number \in Nat \ {0}
    /\ attempts \in Nat /\ timer \in BOOLEAN
    /\ cached \in Statuses \cup {"none"}
    /\ faults \in Nat /\ crashes \in Nat /\ faults + crashes <= MaxMishaps

\* evaluateManualPhaseCompletion leaves a challenge alone while the attempts
\* map has an entry ("already queued for finalization").  So an entry must
\* always have an owner, a timer or an attempt in flight: an entry left behind
\* by two overlapping attempts would block every later repair.
QueuedHasOwner ==
    attempts > 0 => timer \/ \E h \in Handlers : run[h].at \in AttemptSteps

\* completeChallenge and cancelChallenge write without a condition, and four
\* kinds of handler call them: whatever overlaps, an outcome is never replaced
\* by another (the two empty ones apart, which agree that nothing was delivered).
OutcomeIsFinal ==
    [][status # "ACTIVE" =>
         \/ status' = status
         \/ {status, status'} \subseteq {"ZERO_REGISTRATIONS", "ZERO_SUBMISSIONS"}]_vars

\* A challenge is cancelled as empty only when nothing was submitted, and
\* finalized by review only after the Review phase has ended.
OutcomeIsEarned ==
    /\ status \in {"ZERO_REGISTRATIONS", "ZERO_SUBMISSIONS"} => ~submitted
    /\ status \in Payable => submitted /\ stage[Review] = "ended"

\* All phases are over, the challenge is still ACTIVE and nothing in memory will
\* finalize it: an update must come.  It is how a challenge is left after the
\* last attempt ("Manual intervention required") and after a crash.
Abandoned ==
    /\ status = "ACTIVE" /\ AllEnded
    /\ attempts = 0 /\ ~timer /\ \A h \in Handlers : ~Busy(h)

\* A challenge whose Submission is over reaches an outcome, through failed
\* calls and restarts, unless it is abandoned or every submission failed
\* screening (whose handler is not repeated).
EndsUnlessAbandoned ==
    (stage[Submission] = "ended" /\ ~ScreenedOut) ~> (status # "ACTIVE" \/ Abandoned)

\* The process may stop between the write of a payable outcome and the payment:
\* the cron replays payable challenges, so that unless a call to finance-api
\* fails the payment is asked for in the end.
PaidUnlessCallFailed ==
    (status \in Payable /\ faults = 0) ~> (paid \/ faults > 0)
=============================================================================
