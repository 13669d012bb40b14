--------------------------- MODULE IterativeReview ---------------------------
(***************************************************************************)
(* The iterative review loop of a First2Finish challenge: each submission  *)
(* gets a review in an Iterative Review phase of its own, in order of      *)
(* arrival, until one passes and its submitter wins.  A Topgear challenge  *)
(* runs the same loop, but the END of its submission phase finalizes the   *)
(* challenge whatever phase is open, which is left out.                    *)
(*                                                                         *)
(* Handlers overlap at every await: the consumer's, which handles one      *)
(* message at a time (a submission, a completed review, the first reviewer,*)
(* a due END), and in the background those of the challenge updates that   *)
(* the cron replays and of the timer that verifies an assignment.  A       *)
(* handler calls others; its control is a stack of frames, the innermost   *)
(* call first.                                                             *)
(*                                                                         *)
(* One reviewer; the AI screening gate is left out.                        *)
(***************************************************************************)
EXTENDS Naturals, Sequences, FiniteSets

CONSTANTS
    NumSubs,     \* submissions that arrive, numbered in their order
    MaxPhases,   \* bound: Iterative Review phases of the challenge
    Background,  \* bound: handlers of the cron and the timer at a time
    Repeated     \* bound: the kinds of messages that may come twice

ASSUME IterativeAssumption ==
    /\ NumSubs \in Nat \ {0} /\ MaxPhases \in Nat \ {0}
    /\ "consumer" \notin Background
    /\ Repeated \subseteq {"submission", "completed", "reviewer"}

Subs == 1 .. NumSubs
Ids == 1 .. MaxPhases
Actors == {"consumer"} \cup Background

VARIABLES
    status,      \* ACTIVE, COMPLETED or FAILED_REVIEW
    winner,      \* the submission of the winner, 0 for none
    delivering,  \* the Registration and Submission phases are open
    arrived,     \* how many submissions there are
    staffed,     \* the challenge has its reviewer
    phases,      \* the Iterative Review phases by start: waiting, open or ended
    review,      \* review[p, s]: the review of submission s in phase p
    inbox,       \* messages nobody has consumed
    stack,       \* stack[a]: the frames of the handler a runs
    verifying,   \* iterativeAssignmentRetryTimers has an entry
    processed    \* processedOpenPhaseFingerprints: phases an update has seen open

vars == <<status, winner, delivering, arrived, staffed, phases, review, inbox,
          stack, verifying, processed>>

memory == <<verifying, processed>>
challenge == <<status, winner, delivering>>
world == <<arrived, staffed, inbox>>

Results == {"failed", "passed"}
None == 0

Init ==
    /\ status = "ACTIVE" /\ winner = None /\ delivering = TRUE
    /\ arrived = 0 /\ staffed = FALSE
    /\ phases = <<"waiting">>
    /\ review = [k \in Ids \X Subs |-> "none"]
    /\ inbox = {}
    /\ stack = [a \in Actors |-> <<>>]
    /\ verifying = FALSE /\ processed = {}

-----------------------------------------------------------------------------
(* What the handlers read *)

\* The reviews of a phase that have one of the given states.
In(p, states) == {s \in Subs : review[<<p, s>>] \in states}

\* getPendingReviewCount, getExistingReviewPairs; getCompletedReviewCountForPhase
Pending(p) == In(p, {"pending"})
Completed(p) == In(p, Results)

\* getReviewerSubmissionPairs: the reviewer has, or had, this submission.
Seen(s) == \E p \in Ids : review[<<p, s>>] # "none"

Latest == Len(phases)
IsOpen(p) == phases[p] = "open"
IsSeed == phases[Latest] = "waiting"
OpenPhases == {p \in DOMAIN phases : IsOpen(p)}
LeastOf(S) == CHOOSE x \in S : \A y \in S : x <= y
EarliestOpen == IF OpenPhases = {} THEN None ELSE LeastOf(OpenPhases)

Over(ph) == \A p \in DOMAIN ph : ph[p] = "ended"

\* The first candidate, the preferred submission before the others.
Choice(preferred, candidates) ==
    CASE preferred \in candidates -> preferred
      [] preferred \notin candidates /\ candidates # {} -> LeastOf(candidates)
      [] OTHER -> None

-----------------------------------------------------------------------------
(* Frames *)

Busy(a) == stack[a] # <<>>
Top(a) == Head(stack[a])
At(a, step) == Busy(a) /\ Top(a).at = step

\* The frame of a is replaced by the frames fs: <<>> returns to the caller.
Continue(a, fs) == stack' = [stack EXCEPT ![a] = fs \o Tail(@)]
Return(a) == Continue(a, <<>>)
Start(a, f) == ~Busy(a) /\ stack' = [stack EXCEPT ![a] = <<f>>]

\* advancePhase of an Iterative Review phase, state END
End(p, refresh) == [at |-> "end", phase |-> p, refresh |-> refresh]
Closed == [at |-> "closed"]
PrepareNext(last) == [at |-> "next", last |-> last]
Finalize == [at |-> "finalize"]
Finish(s) == [at |-> "finish", sub |-> s]
\* A phase to be opened for a submission: the seed base, or one after it.
OpenNext(base, seed, preferred) ==
    [at |-> "open", base |-> base, seed |-> seed, sub |-> preferred]
\* retain: a phase that gets no review stays open.
Assign(p, preferred, retain) ==
    [at |-> "assign", phase |-> p, sub |-> preferred, retain |-> retain]

-----------------------------------------------------------------------------
(* Submitters, the reviewer and the messages about them *)

Submission(s) == [kind |-> "submission", sub |-> s]
ReviewCompleted(p, s) == [kind |-> "completed", phase |-> p, sub |-> s]
ReviewerAdded == [kind |-> "reviewer"]

Submit ==
    /\ delivering /\ arrived < NumSubs
    /\ arrived' = arrived + 1
    /\ inbox' = inbox \cup {Submission(arrived + 1)}
    /\ UNCHANGED <<challenge, staffed, phases, review, stack, memory>>

AddReviewer ==
    /\ ~staffed /\ staffed' = TRUE
    /\ inbox' = inbox \cup {ReviewerAdded}
    /\ UNCHANGED <<challenge, arrived, phases, review, stack, memory>>

CompleteReview ==
    /\ \E p \in Ids, s \in Subs, r \in Results :
         /\ review[<<p, s>>] = "pending"
         /\ review' = [review EXCEPT ![<<p, s>>] = r]
         /\ inbox' = inbox \cup {ReviewCompleted(p, s)}
    /\ UNCHANGED <<challenge, arrived, staffed, phases, stack, memory>>

\* The Submission phase of a challenge with submissions ends.
SubmissionEnds ==
    /\ delivering /\ arrived > 0 /\ status = "ACTIVE" /\ ~Busy("consumer")
    /\ delivering' = FALSE
    /\ IF Over(phases)
       THEN Start("consumer", Finalize)
       ELSE UNCHANGED stack
    /\ UNCHANGED <<status, winner, world, phases, review, memory>>

-----------------------------------------------------------------------------
(* advancePhase on an Iterative Review phase *)

\* Deferred unless a review is completed and none is pending.  Then the store reads the
\* challenge: one that is no longer ACTIVE keeps its phases.
EndRead(a) ==
    /\ At(a, "end")
    /\ LET p == Top(a).phase IN
         CASE ~IsOpen(p) -> Continue(a, IF Top(a).refresh THEN <<Closed>> ELSE <<>>)
           [] IsOpen(p) /\ Completed(p) # {} /\ Pending(p) = {} /\ status = "ACTIVE" ->
                Continue(a, <<[Top(a) EXCEPT !.at = "close"]>>)
           [] OTHER -> Return(a)
    /\ UNCHANGED <<challenge, world, phases, review, memory>>

\* The transaction looks at the row only, and the challenge may be over by now; or the
\* store was late and has read so.  The phases it returns decide about the finalization,
\* after the refresh may have opened another phase.
EndClose(a) ==
    /\ At(a, "close")
    /\ LET p == Top(a).phase IN
         \/ /\ IsOpen(p)
            /\ phases' = [phases EXCEPT ![p] = "ended"]
            /\ Continue(a, (IF Top(a).refresh THEN <<Closed>> ELSE <<>>)
                           \o (IF ~delivering /\ Over(phases') THEN <<Finalize>> ELSE <<>>))
         \/ (~IsOpen(p) \/ status # "ACTIVE") /\ Return(a) /\ UNCHANGED phases
    /\ UNCHANGED <<challenge, world, review, memory>>

\* attemptChallengeFinalization: every submission counts with the scores it
\* has, one without a review as failing.
Passing == {s \in Subs : \E p \in Ids : review[<<p, s>>] = "passed"}

FinalizeRead(a) ==
    /\ At(a, "finalize")
    /\ Continue(a, IF status = "ACTIVE"
                   THEN <<[at |-> "outcome", sub |-> Choice(None, Passing)]>> ELSE <<>>)
    /\ UNCHANGED <<challenge, world, phases, review, memory>>

\* Mutant: without a winner the challenge is cancelled for another reason.
FinalizeWriteCancelled(a) ==
    /\ At(a, "outcome")
    /\ status' = (IF Top(a).sub = None THEN "CANCELLED" ELSE "COMPLETED")
    /\ winner' = (IF Top(a).sub = None THEN winner ELSE Top(a).sub)
    /\ Return(a)
    /\ UNCHANGED <<delivering, world, phases, review, memory>>

FinalizeWrite(a) ==
    /\ At(a, "outcome")
    /\ status' = (IF Top(a).sub = None THEN "FAILED_REVIEW" ELSE "COMPLETED")
    /\ winner' = (IF Top(a).sub = None THEN winner ELSE Top(a).sub)
    /\ Return(a)
    /\ UNCHANGED <<delivering, world, phases, review, memory>>

Advance(a) == EndRead(a) \/ EndClose(a) \/ FinalizeRead(a) \/ FinalizeWrite(a)

-----------------------------------------------------------------------------
(* The completion of a review *)

\* Mutant: the status of the challenge is not looked at.
CompletedReadAnyStatus(a) ==
    /\ At(a, "completed")
    /\ LET p == Top(a).phase
           s == Top(a).sub
       IN  IF ~IsOpen(p)
           THEN Continue(a, <<Closed>>)
           ELSE Continue(a, IF review[<<p, s>>] = "passed"
                            THEN <<End(p, FALSE), Finish(s)>>
                            ELSE <<End(p, TRUE), PrepareNext(s)>>)
    /\ UNCHANGED <<challenge, world, phases, review, memory>>

\* handleReviewCompleted and handleIterativeReviewCompletion: the END first,
\* then the outcome.  A closed phase is reconciled.
CompletedRead(a) ==
    /\ At(a, "completed")
    /\ LET p == Top(a).phase
           s == Top(a).sub
       IN  CASE status # "ACTIVE" -> Return(a)
             [] status = "ACTIVE" /\ ~IsOpen(p) -> Continue(a, <<Closed>>)
             [] OTHER -> Continue(a, IF review[<<p, s>>] = "passed"
                                     THEN <<End(p, FALSE), Finish(s)>>
                                     ELSE <<End(p, TRUE), PrepareNext(s)>>)
    /\ UNCHANGED <<challenge, world, phases, review, memory>>

\* closeOpenSubmissionAndRegistrationPhases, whose last close may finalize
FinishClose(a) ==
    /\ At(a, "finish")
    /\ delivering' = (delivering /\ status # "ACTIVE")
    /\ LET win == [at |-> "win", sub |-> Top(a).sub]
       IN  Continue(a, IF delivering /\ ~delivering' /\ Over(phases) THEN <<Finalize, win>> ELSE <<win>>)
    /\ UNCHANGED <<status, winner, world, phases, review, memory>>

\* completeChallengeWithWinners: an unconditional write
FinishWrite(a) ==
    /\ At(a, "win")
    /\ status' = "COMPLETED" /\ winner' = Top(a).sub
    /\ Return(a)
    /\ UNCHANGED <<delivering, world, phases, review, memory>>

\* Mutant: any completed review of the closed phase counts as passing.
ClosedReadAny(a) ==
    /\ At(a, "closed")
    /\ CASE status # "ACTIVE" -> Return(a)
         [] status = "ACTIVE" /\ ~IsOpen(Latest) /\ Completed(Latest) # {} ->
              \E s \in Completed(Latest) : Continue(a, <<Finish(s)>>)
         [] OTHER -> Continue(a, <<PrepareNext(None)>>)
    /\ UNCHANGED <<challenge, world, phases, review, memory>>

\* Mutant: a closed phase without a winner is left to the handler of its review.
ClosedReadStops(a) ==
    /\ At(a, "closed")
    /\ CASE status # "ACTIVE" -> Return(a)
         [] status = "ACTIVE" /\ ~IsOpen(Latest) /\ In(Latest, {"passed"}) # {} ->
              \E s \in In(Latest, {"passed"}) : Continue(a, <<Finish(s)>>)
         [] OTHER -> Return(a)
    /\ UNCHANGED <<challenge, world, phases, review, memory>>

\* handleIterativePhaseClosed: it looks at the latest phase, whichever closed.
ClosedRead(a) ==
    /\ At(a, "closed")
    /\ CASE status # "ACTIVE" -> Return(a)
         [] status = "ACTIVE" /\ ~IsOpen(Latest) /\ In(Latest, {"passed"}) # {} ->
              \E s \in In(Latest, {"passed"}) : Continue(a, <<Finish(s)>>)
         [] OTHER -> Continue(a, <<PrepareNext(None)>>)
    /\ UNCHANGED <<challenge, world, phases, review, memory>>

\* prepareNextIterativeReview: the next submission the reviewer has not seen
NextRead(a) ==
    /\ At(a, "next")
    /\ LET s == Choice(None, {t \in 1 .. arrived : t # Top(a).last /\ ~Seen(t)})
       IN  Continue(a, IF status = "ACTIVE" /\ ~IsOpen(Latest) /\ staffed /\ s # None
                       THEN <<OpenNext(Latest, IsSeed, s)>> ELSE <<>>)
    /\ UNCHANGED <<challenge, world, phases, review, memory>>

Outcome(a) ==
    \/ CompletedRead(a) \/ FinishClose(a) \/ FinishWrite(a)
    \/ ClosedRead(a) \/ NextRead(a)

-----------------------------------------------------------------------------
(* A new phase and its review *)

\* processFirst2FinishSubmission: an open phase decides first.
SubmissionRead(a) ==
    /\ At(a, "submission")
    /\ Continue(a,
         CASE status # "ACTIVE" \/ ~staffed -> <<>>
           [] status = "ACTIVE" /\ staffed /\ EarliestOpen # None ->
              <<[at |-> "check", phase |-> EarliestOpen,
                 base |-> Latest, seed |-> IsSeed, sub |-> Top(a).sub,
                 earlier |-> \E p \in DOMAIN phases : phases[p] = "ended"]>>
           [] OTHER -> IF Top(a).sub = None /\ arrived = 0 THEN <<>>
                       ELSE <<OpenNext(Latest, IsSeed, Top(a).sub)>>)
    /\ UNCHANGED <<challenge, world, phases, review, memory>>

\* It waits for the review of the open phase.  Without one, it asks for the
\* close of the phase when an earlier phase has ended (which advancePhase can
\* only defer) and opens another.
SubmissionCheck(a) ==
    /\ At(a, "check")
    /\ LET f == Top(a) IN
         Continue(a,
           CASE In(f.phase, {"pending"} \cup Results) # {} -> <<>>
             [] In(f.phase, {"pending"} \cup Results) = {} /\ f.earlier ->
                  <<End(f.phase, TRUE), OpenNext(f.base, f.seed, f.sub)>>
             [] OTHER -> <<Assign(f.phase, f.sub, FALSE)>>)
    /\ UNCHANGED <<challenge, world, phases, review, memory>>

\* The seed can be used: it opens now, or another actor has opened it meanwhile.
Usable(f) ==
    /\ f.seed
    /\ \/ IsOpen(f.base)
       \/ phases[f.base] = "waiting" /\ status = "ACTIVE"

\* reopenSeedIterativePhase
Reopen(a) ==
    /\ At(a, "open") /\ Usable(Top(a))
    /\ phases' = [phases EXCEPT ![Top(a).base] = "open"]
    /\ Continue(a, <<Assign(Top(a).base, Top(a).sub, FALSE)>>)
    /\ UNCHANGED <<challenge, world, review, memory>>

\* createContinuationPhase: without a lock and without looking at the status.
CreatePhase(a) ==
    /\ At(a, "open") /\ ~Usable(Top(a)) /\ Latest < MaxPhases
    /\ phases' = Append(phases, "open")
    /\ Continue(a, <<Assign(Latest + 1, Top(a).sub, FALSE)>>)
    /\ UNCHANGED <<challenge, world, review, memory>>

\* assignIterativeReviewToReviewers up to createPendingReview
AssignRead(a) ==
    /\ At(a, "assign")
    /\ LET f == Top(a)
           s == Choice(f.sub, {t \in 1 .. arrived : ~Seen(t)})
       IN  Continue(a,
             CASE s # None -> <<[f EXCEPT !.at = "create", !.sub = s]>>
               [] s = None /\ ~f.retain /\ arrived > 0 -> <<End(f.phase, TRUE)>>
               [] OTHER -> <<>>)
    /\ UNCHANGED <<challenge, world, phases, review, memory>>

\* createPendingReview: under an advisory lock, and only if this phase has no
\* review of the submission; the next candidate otherwise.
CreateReview(a) ==
    /\ At(a, "create")
    /\ LET f == Top(a) IN
         IF review[<<f.phase, f.sub>>] = "none"
         THEN /\ review' = [review EXCEPT ![<<f.phase, f.sub>>] = "pending"]
              /\ verifying' = TRUE
              /\ Return(a)
         ELSE /\ Continue(a, <<[f EXCEPT !.at = "assign", !.sub = None]>>)
              /\ UNCHANGED <<review, verifying>>
    /\ UNCHANGED <<challenge, world, phases, processed>>

\* handleIterativePhaseOpened: for the latest phase, if it has no review
OpenedRead(a) ==
    /\ At(a, "opened")
    /\ LET p == Top(a).phase IN
         Continue(a, (IF /\ status = "ACTIVE" /\ p = Latest /\ IsOpen(p) /\ staffed
                         /\ In(p, {"pending"} \cup Results) = {}
                      THEN <<Assign(p, None, TRUE)>> ELSE <<>>)
                     \o <<[at |-> "processed", phase |-> p]>>)
    /\ UNCHANGED <<challenge, world, phases, review, memory>>

\* The update has processed the phase and will not look at it again.
Processed(a) ==
    /\ At(a, "processed")
    /\ processed' = processed \cup {Top(a).phase}
    /\ Return(a)
    /\ UNCHANGED <<challenge, world, phases, review, verifying>>

Provide(a) ==
    \/ SubmissionRead(a) \/ SubmissionCheck(a)
    \/ Reopen(a) \/ CreatePhase(a)
    \/ AssignRead(a) \/ CreateReview(a)
    \/ OpenedRead(a) \/ Processed(a)

-----------------------------------------------------------------------------
(* The actors *)

Handler(m) ==
    CASE m.kind = "submission" -> [at |-> "submission", sub |-> m.sub]
      [] m.kind = "completed" -> [at |-> "completed", phase |-> m.phase, sub |-> m.sub]
      [] m.kind = "reviewer" -> [at |-> "submission", sub |-> None]

\* The topics are consumed one message at a time, in any order.
Consume(m) ==
    /\ m \in inbox
    /\ Start("consumer", Handler(m))
    /\ inbox' = inbox \ {m}
    /\ UNCHANGED <<challenge, arrived, staffed, phases, review, memory>>

\* The same, but the commit is lost and the message comes again.
ConsumeTwice(m) ==
    /\ m \in inbox /\ m.kind \in Repeated
    /\ Start("consumer", Handler(m))
    /\ UNCHANGED <<challenge, world, phases, review, memory>>

\* The END scheduled for an open phase, or that of an attempt deferred.
Due(p) ==
    /\ p \in OpenPhases
    /\ Start("consumer", End(p, TRUE))
    /\ UNCHANGED <<challenge, world, phases, review, memory>>

\* An update that finds an open phase it has not processed yet.
ReplayUpdate(p) ==
    /\ status = "ACTIVE" /\ p \in OpenPhases \ processed
    /\ \E b \in Background : Start(b, [at |-> "opened", phase |-> p])
    /\ UNCHANGED <<challenge, world, phases, review, memory>>

\* verifyIterativeAssignment, a while after an assignment
Verify ==
    /\ verifying /\ verifying' = FALSE
    /\ IF status = "ACTIVE" /\ EarliestOpen # None /\ staffed
          /\ In(EarliestOpen, {"pending"} \cup Results) = {}
       THEN \E b \in Background : Start(b, Assign(EarliestOpen, None, TRUE))
       ELSE UNCHANGED stack
    /\ UNCHANGED <<challenge, world, phases, review, processed>>

Handle(a) == Advance(a) \/ Outcome(a) \/ Provide(a)

Next ==
    \/ Submit \/ AddReviewer \/ CompleteReview \/ SubmissionEnds
    \/ \E m \in inbox : Consume(m) \/ ConsumeTwice(m)
    \/ \E p \in Ids : Due(p) \/ ReplayUpdate(p)
    \/ Verify
    \/ \E a \in Actors : Handle(a)

Spec == Init /\ [][Next]_vars

\* The event loop runs every handler on, the topics are consumed, the cron and
\* the timer fire and the reviewer works.
Fairness ==
    /\ \A a \in Actors : WF_vars(Handle(a))
    /\ SF_vars(\E m \in inbox : Consume(m))
    /\ WF_vars(CompleteReview)
    /\ WF_vars(\E p \in Ids : ReplayUpdate(p)) /\ WF_vars(Verify)

FairSpec == Spec /\ Fairness
-----------------------------------------------------------------------------
(* Properties *)

\* Every variable keeps its type (the schema of the challenge and the review).
TypeOK ==
    /\ status \in {"ACTIVE", "COMPLETED", "FAILED_REVIEW"}
    /\ winner \in Subs \cup {None} /\ delivering \in BOOLEAN
    /\ arrived \in 0 .. NumSubs /\ staffed \in BOOLEAN
    /\ Len(phases) \in Ids /\ \A p \in DOMAIN phases : phases[p] \in {"waiting", "open", "ended"}
    /\ review \in [Ids \X Subs -> Results \cup {"none", "pending"}]
    /\ verifying \in BOOLEAN /\ processed \subseteq Ids

\* A challenge that is completed has a winner whose review passed, whichever of
\* the three paths (the completion, the closed phase, the finalization) wrote it.
WinnerPassed == status = "COMPLETED" => winner \in Passing

\* The outcome of a challenge is not rewritten, although every writer writes
\* unconditionally some awaits after it read the status.
OutcomeIsFinal == [][status # "ACTIVE" => status' = status]_vars

\* A handler that the bound MaxPhases stops
OutOfPhases ==
    Latest = MaxPhases /\ \E a \in Actors : At(a, "open") /\ ~Usable(Top(a))

\* The latest phase is open and empty, an update has processed it, and nothing is
\* left to happen: the submissions still waiting have to wait for another message.
Stranded ==
    /\ IsOpen(Latest) /\ In(Latest, {"pending"} \cup Results) = {}
    /\ OpenPhases \subseteq processed /\ ~verifying
    /\ inbox = {} /\ \A a \in Actors : ~Busy(a)
    /\ \A p \in Ids : Pending(p) = {}

\* Once the challenge has a reviewer, every submission gets its review unless
\* the challenge ends: a submission that finds another under review is dropped
\* by its own handler and picked up by the handler of that review.  That handler
\* gives up when it finds the latest phase open (prepareNextIterativeReview), so
\* that an empty one strands what it should have picked up.
EveryReviewed ==
    (arrived = NumSubs /\ staffed)
        ~> \/ (\A s \in Subs : Seen(s)) \/ status # "ACTIVE"
           \/ Stranded \/ OutOfPhases

\* A failed review prepares the next round; the challenge is not failed while
\* the review of that round is pending (AUTOPILOT_FLOW.md, "An Iterative Review
\* finished").
FailsOnlyWhenReviewed ==
    [][status = "ACTIVE" /\ status' = "FAILED_REVIEW" => \A p \in Ids : Pending(p) = {}]_vars
=============================================================================
