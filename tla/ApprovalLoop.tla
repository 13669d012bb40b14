---------------------------- MODULE ApprovalLoop ----------------------------
(***************************************************************************)
(* The loop of Approval and Final Fix phases at the end of a challenge: an *)
(* Approval that is rejected opens a Final Fix, a submission in the Final  *)
(* Fix opens the next Approval, an Approval that passes ends the loop.     *)
(*                                                                         *)
(* The consumer handles one message at a time.  When its session restarts, *)
(* the message comes again while its first handler ("stale") runs on.  In  *)
(* the background a timer fires the END of a phase or the cron replays the *)
(* challenge (bound: one at a time).  All overlap at every await.          *)
(*                                                                         *)
(* The winning submission 1 passed its reviews and has its final score.    *)
(* All approvers have their role, so the coverage is satisfied.            *)
(***************************************************************************)
EXTENDS Naturals, Sequences, FiniteSets

CONSTANTS
    Approvers,
    NumSubs,      \* bound: submissions, the first of which won the review
    MaxPhases,    \* bound: Approval and Final Fix phases
    MaxMishaps    \* bound: crashes, restarts of the consumer's session and
                  \* calls to the databases that fail

ASSUME ApprovalAssumption ==
    /\ Approvers # {}
    /\ NumSubs \in Nat \ {0} /\ MaxPhases \in Nat \ {0}
    /\ MaxMishaps \in Nat

Subs == 1 .. NumSubs
Winner == 1
Ids == 1 .. MaxPhases
Actors == {"consumer", "stale", "background"}
Verdicts == {"passed", "failed"}

VARIABLES
    status,      \* of the challenge: ACTIVE or COMPLETED
    phases,      \* the phases of the loop, in the order they were created
    review,      \* review[p, r, s]: that of submission s by approver r in phase p
    arrived,     \* how many submissions there are
    inbox,       \* messages nobody has consumed
    stack,       \* stack[a]: the frames of the handler a runs, innermost first
    handling,    \* the messages the consumer handles: at most one
    locked,      \* approvalResubmissionLocks has the challenge
    due,         \* due[p]: the END scheduled for a phase, plain or one that
                 \* prevents the finalization
    processed,   \* processedOpenPhaseFingerprints
    mishaps,     \* how many have happened
    abandoned    \* what the loop waits for is lost

vars == <<status, phases, review, arrived, inbox, stack, handling, locked, due,
          processed, mishaps, abandoned>>

world == <<arrived, inbox, handling>>
memory == <<locked, due, processed>>
history == <<mishaps, abandoned>>

Phase(kind) == [kind |-> kind, open |-> TRUE]

\* An Approval has been opened; preparing its reviews may have failed.
Init ==
    /\ status = "ACTIVE" /\ phases = <<Phase("approval")>>
    /\ \E made \in BOOLEAN :
         review = [k \in Ids \X Approvers \X Subs |->
                     IF made /\ k[1] = 1 /\ k[3] = Winner THEN "pending" ELSE "none"]
    /\ arrived = 1 /\ inbox = {}
    /\ stack = [a \in Actors |-> <<>>] /\ handling = {}
    /\ locked = FALSE
    /\ due = [p \in Ids |-> "plain"]
    /\ processed = {}
    /\ mishaps = 0 /\ abandoned = FALSE

-----------------------------------------------------------------------------
(* What the handlers read *)

IsOpen(p) == p \in DOMAIN phases /\ phases[p].open
Of(kind) == {p \in DOMAIN phases : phases[p].kind = kind}
Open(kind) == {p \in Of(kind) : phases[p].open}
LatestOf(S) == CHOOSE x \in S : \A y \in S : y <= x
AllEnded(ph) == \A p \in DOMAIN ph : ~ph[p].open

\* The reviews of a phase that have one of the given states
In(p, states) == {k \in Approvers \X Subs : review[<<p, k[1], k[2]>>] \in states}
Pending(p) == In(p, {"pending"})
Completed(p) == In(p, Verdicts)

-----------------------------------------------------------------------------
(* Frames and messages *)

Busy(a) == stack[a] # <<>>
Top(a) == Head(stack[a])
At(a, step) == Busy(a) /\ Top(a).at = step

\* The frame of a is replaced by the frames fs.  A message is handled, and its
\* offset committed, when its handler returns.
Continue(a, fs) == stack' = [stack EXCEPT ![a] = fs \o Tail(@)]
Return(a) == Continue(a, <<>>)
Start(a, fs) == ~Busy(a) /\ stack' = [stack EXCEPT ![a] = fs]

\* advancePhase with the state END
End(p, prevent) == [at |-> "pending", phase |-> p, prevent |-> prevent]
Finalize == [at |-> "finalize"]
\* ensureFollowUpFinalFixPhase: fixing, the snapshot has an open Final Fix
FollowUp(p, fixing) == [at |-> "followup", phase |-> p, fixing |-> fixing]
Prepare(p) == [at |-> "prepare", phase |-> p]

ReviewCompleted(p, r, s) == [kind |-> "completed", phase |-> p, approver |-> r, sub |-> s]
Submission(s) == [kind |-> "submission", sub |-> s]

Mishap == mishaps < MaxMishaps /\ mishaps' = mishaps + 1

-----------------------------------------------------------------------------
(* Approvers and submitters *)

CompleteReview ==
    /\ \E p \in DOMAIN phases, r \in Approvers, s \in Subs, v \in Verdicts :
         /\ status = "ACTIVE" /\ IsOpen(p) /\ review[<<p, r, s>>] = "pending"
         /\ review' = [review EXCEPT ![<<p, r, s>>] = v]
         /\ inbox' = inbox \cup {ReviewCompleted(p, r, s)}
    /\ UNCHANGED <<status, phases, arrived, handling, stack, memory, history>>

Submit ==
    /\ status = "ACTIVE" /\ Open("fix") # {} /\ arrived < NumSubs
    /\ arrived' = arrived + 1
    /\ inbox' = inbox \cup {Submission(arrived + 1)}
    /\ UNCHANGED <<status, phases, review, handling, stack, memory, history>>

-----------------------------------------------------------------------------
(* advancePhase: the END of a phase *)

\* deferApprovalPhaseClosure schedules the END again, with its flags.
Defer(a) ==
    /\ due' = [due EXCEPT ![Top(a).phase] = IF Top(a).prevent THEN "prevent" ELSE "plain"]
    /\ Return(a)

\* An Approval does not end while a review is pending...
PendingRead(a) ==
    /\ At(a, "pending")
    /\ LET p == Top(a).phase IN
         CASE ~IsOpen(p) -> Return(a) /\ UNCHANGED due
           [] IsOpen(p) /\ phases[p].kind = "approval" /\ Pending(p) # {} -> Defer(a)
           [] OTHER -> Continue(a, <<[Top(a) EXCEPT !.at = "completed"]>>) /\ UNCHANGED due
    /\ UNCHANGED <<status, phases, review, world, locked, processed, history>>

\* The store reads the challenge: one that is no longer ACTIVE keeps its phases.
StoreRead(a) ==
    /\ Continue(a, IF status = "ACTIVE" THEN <<[Top(a) EXCEPT !.at = "close"]>> ELSE <<>>)
    /\ UNCHANGED due

\* Mutant: an Approval without reviews ends.
CompletedReadSkipped(a) ==
    /\ At(a, "completed")
    /\ StoreRead(a)
    /\ UNCHANGED <<status, phases, review, world, locked, processed, history>>

\* ... nor before one is completed.
CompletedRead(a) ==
    /\ At(a, "completed")
    /\ LET p == Top(a).phase IN
         IF phases[p].kind = "approval" /\ Completed(p) = {}
         THEN Defer(a)
         ELSE StoreRead(a)
    /\ UNCHANGED <<status, phases, review, world, locked, processed, history>>

\* The transaction looks at the row only, and the challenge may be over by now; or the
\* store was late and has read so.  The phases it returns decide about the finalization.
\* A deferred END still prevents it, although its handler is gone.
EndClose(a) ==
    /\ At(a, "close")
    /\ LET p == Top(a).phase IN
         \/ /\ IsOpen(p)
            /\ phases' = [phases EXCEPT ![p].open = FALSE]
            /\ abandoned' = (abandoned \/ (/\ Top(a).prevent /\ a = "background"
                                           /\ AllEnded(phases')))
            /\ Continue(a, IF ~Top(a).prevent /\ AllEnded(phases') THEN <<Finalize>> ELSE <<>>)
         \/ /\ ~IsOpen(p) \/ status # "ACTIVE"
            /\ Return(a) /\ UNCHANGED <<phases, abandoned>>
    /\ UNCHANGED <<status, review, world, memory, mishaps>>

\* Mutant: the status of a failed review.
FinalizeWriteFailed(a) ==
    /\ At(a, "finalize")
    /\ status' = "CANCELLED_FAILED_REVIEW"
    /\ Return(a)
    /\ UNCHANGED <<phases, review, world, memory, history>>

\* finalizeChallenge: submission 1 has passed its reviews and wins.
FinalizeWrite(a) ==
    /\ At(a, "finalize")
    /\ status' = "COMPLETED"
    /\ Return(a)
    /\ UNCHANGED <<phases, review, world, memory, history>>

Advance(a) == PendingRead(a) \/ CompletedRead(a) \/ EndClose(a) \/ FinalizeWrite(a)

-----------------------------------------------------------------------------
(* A completed review *)

\* The ENDs of the phases S, one after the other in their order.
Orders(S) == {q \in [1 .. Cardinality(S) -> S] : \A i, j \in DOMAIN q : i < j => q[i] < q[j]}
EndAll(q) == [i \in DOMAIN q |-> End(q[i], FALSE)]

\* A message is consumed by a handler that reads the challenge first.
Take(m, fs) ==
    /\ m \in inbox
    /\ Start("consumer", fs)
    /\ inbox' = inbox \ {m} /\ handling' = {m}

Passed(m) == review[<<m.phase, m.approver, m.sub>>] = "passed"

\* handleReviewCompleted: the Final Fix phases are those of its first read, and
\* the review of a phase that is closed is ignored.
ConsumeReview(m) ==
    /\ m.kind = "completed"
    /\ \E fixes \in Orders(Open("fix")) :
         LET p == m.phase IN
         Take(m, CASE status # "ACTIVE" \/ ~IsOpen(p) -> <<>>
                   [] status = "ACTIVE" /\ IsOpen(p) /\ Passed(m) ->
                        <<End(p, FALSE)>> \o EndAll(fixes)
                   [] OTHER -> <<End(p, TRUE), FollowUp(p, Open("fix") # {})>>)
    /\ UNCHANGED <<status, phases, review, arrived, memory, history>>

\* Mutant: no second Final Fix is created.
CreateFixOnce(a) ==
    /\ At(a, "followup")
    /\ phases' = IF Of("fix") = {} THEN Append(phases, Phase("fix")) ELSE phases
    /\ Return(a)
    /\ UNCHANGED <<status, review, world, memory, history>>

\* ensureFollowUpFinalFixPhase: createContinuationPhase opens the phase without
\* looking at the challenge; an error is logged.  The Final Fix of the snapshot
\* may have ended.
CreateFix(a) ==
    /\ At(a, "followup")
    /\ \/ /\ Top(a).fixing
          /\ abandoned' = (abandoned \/ Open("fix") = {})
          /\ UNCHANGED <<phases, mishaps>>
       \/ /\ ~Top(a).fixing /\ Len(phases) < MaxPhases
          /\ phases' = Append(phases, Phase("fix"))
          /\ UNCHANGED history
       \/ ~Top(a).fixing /\ Mishap /\ abandoned' = TRUE /\ UNCHANGED phases
    /\ Return(a)
    /\ UNCHANGED <<status, review, world, memory>>

-----------------------------------------------------------------------------
(* A submission in the Final Fix *)

Starts == status = "ACTIVE" /\ Open("approval") = {} /\ Open("fix") # {}

Check(m) == [at |-> "check", fix |-> LatestOf(Open("fix")), sub |-> m.sub]

\* Mutant: the lock is not looked at.
ConsumeSubmissionUnlocked(m) ==
    /\ m.kind = "submission"
    /\ IF Starts /\ Of("approval") # {}
       THEN Take(m, <<Check(m)>>) /\ locked' = TRUE
       ELSE Take(m, <<>>) /\ UNCHANGED locked
    /\ UNCHANGED <<status, phases, review, arrived, due, processed, history>>

\* handleApprovalSubmissionLoop: the read, then without an await the lock
ConsumeSubmission(m) ==
    /\ m.kind = "submission"
    /\ IF Starts /\ Of("approval") # {} /\ ~locked
       THEN Take(m, <<Check(m)>>) /\ locked' = TRUE
       ELSE Take(m, <<>>) /\ UNCHANGED locked
    /\ UNCHANGED <<status, phases, review, arrived, due, processed, history>>

\* createApprovalForFinalFixSubmission: the second read.  Whatever ends the
\* handler unlocks.
LoopCheck(a) ==
    /\ At(a, "check")
    /\ IF Starts /\ IsOpen(Top(a).fix)
       THEN Continue(a, <<[at |-> "create", sub |-> Top(a).sub]>>) /\ UNCHANGED locked
       ELSE Return(a) /\ locked' = FALSE
    /\ UNCHANGED <<status, phases, review, world, due, processed, history>>

CreateApproval(a) ==
    /\ At(a, "create")
    /\ \/ /\ Len(phases) < MaxPhases
          /\ phases' = Append(phases, Phase("approval"))
          /\ Continue(a, <<[at |-> "assign", phase |-> Len(phases) + 1, sub |-> Top(a).sub]>>)
          /\ UNCHANGED <<locked, history>>
       \/ Mishap /\ Return(a) /\ locked' = FALSE /\ UNCHANGED <<phases, abandoned>>
    /\ UNCHANGED <<status, review, world, due, processed>>

\* The reviews of the given submission that are not there yet
WithReviews(p, s) ==
    [k \in DOMAIN review |->
       IF k[1] = p /\ k[3] = s /\ review[k] = "none" THEN "pending" ELSE review[k]]

\* createApprovalReviewsForSubmission: the errors of each approver are logged.
AssignApproval(a) ==
    /\ At(a, "assign")
    /\ \/ review' = WithReviews(Top(a).phase, Top(a).sub) /\ UNCHANGED history
       \/ Mishap /\ UNCHANGED <<review, abandoned>>
    /\ Return(a) /\ locked' = FALSE
    /\ UNCHANGED <<status, phases, world, due, processed>>

Loop(a) == LoopCheck(a) \/ CreateApproval(a) \/ AssignApproval(a)

-----------------------------------------------------------------------------
(* The replay of an open Approval *)

\* Mutant: every review of another submission is deleted.
PrepareDeleteAny(a) ==
    /\ At(a, "prepare")
    /\ review' = [k \in DOMAIN review |->
                    IF k[1] = Top(a).phase /\ k[3] # Winner THEN "none" ELSE review[k]]
    /\ Continue(a, <<[Top(a) EXCEPT !.at = "prepared"]>>)
    /\ UNCHANGED <<status, phases, world, memory, history>>

\* handlePhaseOpenedForChallenge: the best final score selects the submission
\* an Approval is about.  deleteStalePendingSubmissionReviews removes the other
\* reviews that are not completed...
PrepareDelete(a) ==
    /\ At(a, "prepare")
    /\ review' = [k \in DOMAIN review |->
                    IF k[1] = Top(a).phase /\ k[3] # Winner /\ review[k] = "pending"
                    THEN "none" ELSE review[k]]
    /\ Continue(a, <<[Top(a) EXCEPT !.at = "prepared"]>>)
    /\ UNCHANGED <<status, phases, world, memory, history>>

\* ... and createPendingReview adds those missing.  The errors of each approver
\* are logged and the phase counts as processed all the same.
PrepareCreate(a) ==
    /\ At(a, "prepared")
    /\ \/ review' = WithReviews(Top(a).phase, Winner) /\ UNCHANGED history
       \/ Mishap /\ abandoned' = TRUE /\ UNCHANGED review
    /\ processed' = processed \cup {Top(a).phase}
    /\ Return(a)
    /\ UNCHANGED <<status, phases, world, locked, due>>

Reconcile(a) == PrepareDelete(a) \/ PrepareCreate(a)

-----------------------------------------------------------------------------
(* The actors *)

Consume(m) == ConsumeReview(m) \/ ConsumeSubmission(m)

\* The session restarts while its message is being handled.
Restart ==
    /\ Mishap
    /\ Busy("consumer") /\ ~Busy("stale")
    /\ stack' = [stack EXCEPT !["stale"] = stack["consumer"], !["consumer"] = <<>>]
    /\ inbox' = inbox \cup handling /\ handling' = {}
    /\ UNCHANGED <<status, phases, review, arrived, memory, abandoned>>

\* A handler that has closed a phase and owes the Final Fix or the finalization
\* that follows; nobody takes over from it.
Owes(a) ==
    \E i \in DOMAIN stack[a] :
        LET f == stack[a][i]
        IN  \/ f.at = "finalize"
            \/ f.at = "followup" /\ ~IsOpen(f.phase) /\ Open("fix") = {}

\* The process crashes: what is being handled comes again.
Crash ==
    /\ Mishap
    /\ abandoned' = (abandoned \/ \E a \in Actors : Owes(a))
    /\ stack' = [a \in Actors |-> <<>>]
    /\ inbox' = inbox \cup (IF Busy("consumer") THEN handling ELSE {}) /\ handling' = {}
    /\ locked' = FALSE /\ processed' = {}
    /\ due' = [p \in Ids |-> "plain"]
    /\ UNCHANGED <<status, phases, review, arrived>>

\* The cron gives an open phase its END back, with the date of the phase.
Schedule(p) ==
    /\ status = "ACTIVE" /\ IsOpen(p) /\ due[p] # "plain"
    /\ due' = [due EXCEPT ![p] = "plain"]
    /\ UNCHANGED <<status, phases, review, world, stack, locked, processed, history>>

\* The END of an open phase is due, be it the date of the phase or that of an
\* attempt deferred.
Fire(p) ==
    /\ IsOpen(p)
    /\ Start("background", <<End(p, due[p] = "prevent")>>)
    /\ UNCHANGED <<status, phases, review, world, memory, history>>

\* handleChallengeUpdate: the open Approvals that are not processed, or the
\* finalization of a challenge whose phases have all ended.
Update ==
    /\ status = "ACTIVE"
    /\ LET unseen == Open("approval") \ processed IN
         \/ \E p \in unseen : Start("background", <<Prepare(p)>>)
         \/ AllEnded(phases) /\ Start("background", <<Finalize>>)
    /\ processed' = processed \cap Open("approval")
    /\ UNCHANGED <<status, phases, review, world, locked, due, history>>

Handle(a) == Advance(a) \/ CreateFix(a) \/ Loop(a) \/ Reconcile(a)

Next ==
    \/ CompleteReview \/ Submit
    \/ \E m \in inbox : Consume(m)
    \/ Restart \/ Crash
    \/ \E p \in Ids : Schedule(p) \/ Fire(p)
    \/ Update
    \/ \E a \in Actors : Handle(a)

Spec == Init /\ [][Next]_vars

\* The event loop runs every handler on, the topics are consumed, the cron
\* schedules and replays an open Approval (no one has to update a challenge
\* without one), and the timer fires.  The last two do not wait for each other
\* in the code: strong fairness makes up for the bound on the background.
Fairness ==
    /\ \A a \in Actors : WF_vars(Handle(a))
    /\ WF_vars(\E m \in inbox : Consume(m))
    /\ \A p \in Ids : WF_vars(Schedule(p)) /\ SF_vars(Fire(p))
    /\ SF_vars(Open("approval") # {} /\ Update)

FairSpec == Spec /\ Fairness
-----------------------------------------------------------------------------
(* Properties *)

\* Every variable keeps its type.
TypeOK ==
    /\ status \in {"ACTIVE", "COMPLETED"}
    /\ phases \in Seq([kind : {"approval", "fix"}, open : BOOLEAN]) /\ Len(phases) \in Ids
    /\ review \in [Ids \X Approvers \X Subs -> Verdicts \cup {"none", "pending"}]
    /\ arrived \in Subs /\ Cardinality(handling) <= 1
    /\ locked \in BOOLEAN
    /\ due \in [Ids -> {"plain", "prevent"}] /\ mishaps \in 0 .. MaxMishaps
    /\ processed \subseteq Ids /\ abandoned \in BOOLEAN

\* However often a submission is delivered, there is one open Approval at most
\* (createContinuationPhase itself would open any number).
OneOpenApproval == Cardinality(Open("approval")) <= 1

\* No Approval ends without a verdict, although its reviews are deleted and
\* created while its END is under way.
EndedWithVerdict == \A p \in Of("approval") : ~IsOpen(p) => Completed(p) # {}

\* Replays prepare the reviews of an Approval again; a verdict given stays.
VerdictsKept ==
    [][\A k \in DOMAIN review : review[k] \in Verdicts => review'[k] = review[k]]_vars

\* The challenge is over, or it waits for an approver or for a submission.
Waiting ==
    \/ status # "ACTIVE"
    \/ \E p \in Open("approval") : Pending(p) # {}
    \/ Open("fix") # {}

\* A handler that the bound MaxPhases stops
OutOfPhases ==
    /\ Len(phases) = MaxPhases
    /\ \E a \in Actors : At(a, "create") \/ (At(a, "followup") /\ ~Top(a).fixing)

\* A challenge never hangs in the loop, except by a crash that loses what was to
\* follow a closed phase, by a failing call that leaves a rejected Approval
\* without its Final Fix or a replayed Approval without reviews, by a rejected
\* Approval that relies on a Final Fix which has ended meanwhile, or by a deferred
\* END that comes last and still prevents the finalization.
WaitsUnlessAbandoned == []<>(Waiting \/ OutOfPhases) \/ <>abandoned

\* A rejected Approval opens a Final Fix (AUTOPILOT_FLOW.md, "An Approval review
\* finished"), so that the challenge is not completed before there is one.
RejectionOpensFix ==
    /\ status = "COMPLETED"
    /\ \E p \in Of("approval") : Completed(p) # {} /\ In(p, {"passed"}) = {}
    => Of("fix") # {}
=============================================================================
