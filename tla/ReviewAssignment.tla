-------------------------- MODULE ReviewAssignment --------------------------
(***************************************************************************)
(* The reviewers of one Review phase: it may not open before enough of     *)
(* them are assigned, and reviewers come and go at any time.               *)
(*                                                                         *)
(* Who may open the phase: the phase chain when the predecessor ends, the  *)
(* START the cron schedules, the handler of a new reviewer, and a poller   *)
(* that one of them leaves behind.  A poller carries the callback of the   *)
(* caller that started it; the one a removed reviewer leaves has none.     *)
(* Who prepares the reviews: whoever opens the phase, the handler of a new *)
(* reviewer, and the cron, which replays an open phase.                    *)
(*                                                                         *)
(* The consumer handles one message at a time, and after a crash again the *)
(* one it was at.  All handlers overlap at every await.  A call that fails *)
(* ends its handler, which nobody repeats: haunted and missed remember the *)
(* reviews and reviewers that may be left behind.  One submission is under *)
(* review: the handlers treat each of several alike.                       *)
(***************************************************************************)
EXTENDS Naturals, Sequences, FiniteSets

CONSTANTS
    Reviewers,    \* bound: the Reviewer resources there ever are
    Required,     \* memberReviewerCount
    MaxChanges,   \* bound: reviewers assigned or removed
    MaxMishaps    \* bound: crashes and calls that fail

ASSUME AssignmentAssumption == Required \in Nat \ {0} /\ {MaxChanges, MaxMishaps} \subseteq Nat

\* In the background: the cron, the timers and the phase chain (bound: one at
\* a time).
Actors == {"consumer", "poller", "background"}

\* What a poller does when the reviewers are there
Callbacks == {"start", "chain", "nothing"}

VARIABLES
    phase,       \* future (the predecessor runs), waiting, open or closed
    resource,    \* resource[r]: absent, assigned or removed
    review,      \* review[r]: none, pending, started or completed
    inbox,       \* resource events nobody has consumed
    stack,       \* stack[a]: the frames of the handler a runs, innermost first
    handling,    \* the message the consumer handles
    poller,      \* the callback of the registered poller, or none
    processed,   \* processedOpenPhaseFingerprints has the open phase
    changes,     \* how many reviewers were assigned or removed
    mishaps,     \* how many mishaps have happened
    haunted,     \* removed reviewers whose review is left by every deletion
    missed       \* reviewers whose review could not be created

vars == <<phase, resource, review, inbox, stack, handling, poller, processed,
          changes, mishaps, haunted, missed>>

database == <<phase, resource, review>>
messages == <<inbox, handling>>
history == <<changes, mishaps, haunted, missed>>

Init ==
    /\ phase = "future"
    /\ resource \in [Reviewers -> {"absent", "assigned"}]
    /\ review = [r \in Reviewers |-> "none"]
    /\ inbox = {} /\ handling = {}
    /\ stack = [a \in Actors |-> <<>>]
    /\ poller = "none" /\ processed = FALSE
    /\ changes = 0 /\ mishaps = 0 /\ haunted = {} /\ missed = {}

Assigned == {r \in Reviewers : resource[r] = "assigned"}
Staffed == Cardinality(Assigned) >= Required

\* What getPendingReviewCount counts; only the pending ones are ever deleted.
Unfinished == {"pending", "started"}

-----------------------------------------------------------------------------
(* Frames and messages *)

Busy(a) == stack[a] # <<>>
Top(a) == Head(stack[a])
At(a, step) == Busy(a) /\ Top(a).at = step

\* The frame of a is replaced by the frames fs.
Continue(a, fs) == stack' = [stack EXCEPT ![a] = fs \o Tail(@)]
Return(a) == Continue(a, <<>>)
Go(a, step) == Continue(a, <<[Top(a) EXCEPT !.at = step]>>)
Start(a, fs) == ~Busy(a) /\ stack' = [stack EXCEPT ![a] = fs]

\* SchedulerService.advancePhase with the state START and the transaction it
\* or openPhaseAndSchedule ends in; the latter clears the poller.
StartFrame == [at |-> "start"]
OpenFrame(clears) == [at |-> "open", clears |-> clears]

\* ensureAssignmentsOrSchedule; then: what its caller does when it says yes
EnsureFrame(callback, then) ==
    [at |-> "ensure", use |-> "ensure", callback |-> callback, then |-> then]
PollFrame(then) == [at |-> "ensure", use |-> "poll", callback |-> "nothing", then |-> then]
RemovedFrame == [at |-> "ensure", use |-> "removed", callback |-> "nothing", then |-> <<>>]

\* handlePhaseOpened, called by the opener, the cron or for a new reviewer
PrepareFrame(by) == [at |-> "prepare", by |-> by]
DeleteFrame(r) == [at |-> "delete", reviewer |-> r]

CallbackFrames(callback) ==
    CASE callback = "start" -> <<StartFrame>>
      [] callback = "chain" -> <<OpenFrame(TRUE)>>
      [] callback = "nothing" -> <<>>

Event(kind, r) == [kind |-> kind, reviewer |-> r]

\* Whose review is not created, or not deleted, when a call fails, and by nobody
\* later
LeftOut(rs) ==
    missed' = missed \cup
        {r \in rs : phase = "open" /\ resource[r] = "assigned" /\ review[r] = "none"}
NotDeleted(rs) == haunted' = haunted \cup {r \in rs : review[r] = "pending"}

Mishap == mishaps < MaxMishaps /\ mishaps' = mishaps + 1 /\ UNCHANGED changes

-----------------------------------------------------------------------------
(* Copilots and reviewers *)

Change == changes < MaxChanges /\ changes' = changes + 1 /\ UNCHANGED <<mishaps, missed>>

Assign(r) ==
    /\ resource[r] = "absent" /\ phase # "closed" /\ Change
    /\ resource' = [resource EXCEPT ![r] = "assigned"]
    /\ inbox' = inbox \cup {Event("created", r)}
    /\ UNCHANGED <<phase, review, handling, stack, poller, processed, haunted>>

Remove(r) ==
    /\ resource[r] = "assigned" /\ phase # "closed" /\ Change
    /\ resource' = [resource EXCEPT ![r] = "removed"]
    /\ inbox' = inbox \cup {Event("deleted", r)}
    /\ haunted' = haunted \cup {q \in {r} : review[q] = "started"}
    /\ UNCHANGED <<phase, review, handling, stack, poller, processed>>

StartReview(r) ==
    /\ phase = "open" /\ resource[r] = "assigned" /\ review[r] = "pending"
    /\ review' = [review EXCEPT ![r] = "started"]
    /\ UNCHANGED <<phase, resource, messages, stack, poller, processed, history>>

CompleteReview(r) ==
    /\ phase = "open" /\ resource[r] = "assigned" /\ review[r] \in Unfinished
    /\ review' = [review EXCEPT ![r] = "completed"]
    /\ UNCHANGED <<phase, resource, messages, stack, poller, processed, history>>

-----------------------------------------------------------------------------
(* ReviewAssignmentService *)

\* Mutant: a registered poller is answer enough.
EnsureReadLazy(a) ==
    /\ At(a, "ensure")
    /\ IF poller # "none" /\ Top(a).use = "ensure" THEN Return(a) ELSE Go(a, "decide")
    /\ UNCHANGED <<database, messages, poller, processed, history>>

\* Mutant: an open phase is left to the next poll.
EnsureReadKeeps(a) ==
    /\ At(a, "ensure")
    /\ IF phase = "open" THEN Continue(a, Top(a).then) ELSE Go(a, "decide")
    /\ UNCHANGED <<database, messages, poller, processed, history>>

\* evaluateAssignmentStatus reads the challenge.  Open, or a read that failed
\* (the phase counts as missing): ensure says yes, a poller ends, and a removed
\* reviewer has no consequence.
EnsureRead(a) ==
    /\ At(a, "ensure")
    /\ \/ /\ phase = "open" /\ UNCHANGED history
          /\ poller' = IF Top(a).use = "removed" THEN poller ELSE "none"
          /\ Continue(a, IF Top(a).use = "ensure" THEN Top(a).then ELSE <<>>)
       \/ /\ Mishap /\ UNCHANGED <<haunted, missed>>
          /\ poller' = IF Top(a).use = "removed" THEN poller ELSE "none"
          /\ Continue(a, IF Top(a).use = "ensure" THEN Top(a).then ELSE <<>>)
       \/ phase # "open" /\ Go(a, "decide") /\ UNCHANGED <<poller, history>>
    /\ UNCHANGED <<database, messages, processed>>

\* ... then the resources.  The answer no leaves a poller, unless there is one.
EnsureDecide(a) ==
    /\ At(a, "decide")
    /\ LET f == Top(a) IN
         IF Staffed
         THEN /\ Continue(a, f.then)
              /\ poller' = IF f.use = "ensure" THEN "none" ELSE poller
         ELSE /\ Return(a)
              /\ poller' = IF f.use # "poll" /\ poller = "none" THEN f.callback ELSE poller
    /\ UNCHANGED <<database, messages, processed, history>>

\* The interval of the poller elapses; its last run is over.
Poll ==
    /\ poller # "none"
    /\ Start("poller", <<PollFrame(CallbackFrames(poller))>>)
    /\ UNCHANGED <<database, messages, poller, processed, history>>

-----------------------------------------------------------------------------
(* Opening the phase *)

\* The chain that follows the END of the predecessor
PredecessorEnds ==
    /\ phase = "future"
    /\ phase' = "waiting"
    /\ Start("background", <<EnsureFrame("chain", <<OpenFrame(TRUE)>>)>>)
    /\ UNCHANGED <<resource, review, messages, poller, processed, history>>

\* advancePhase START: an open phase is skipped.
StartRead(a) ==
    /\ At(a, "start")
    /\ Continue(a, IF phase = "open" THEN <<>>
                   ELSE <<EnsureFrame("start", <<OpenFrame(FALSE)>>)>>)
    /\ UNCHANGED <<database, messages, poller, processed, history>>

\* The transaction opens a phase that has neither opened nor ended.
Open(a) ==
    /\ At(a, "open")
    /\ IF phase = "waiting"
       THEN /\ phase' = "open"
            /\ poller' = IF Top(a).clears THEN "none" ELSE poller
            /\ Continue(a, <<PrepareFrame("opening")>>)
       ELSE Return(a) /\ UNCHANGED <<phase, poller>>
    /\ UNCHANGED <<resource, review, messages, processed, history>>

-----------------------------------------------------------------------------
(* Preparing the reviews *)

\* handlePhaseOpened reads the reviewers...
PrepareRead(a) ==
    /\ At(a, "prepare")
    /\ Continue(a, <<[at |-> "create", left |-> Assigned, by |-> Top(a).by]>>)
    /\ UNCHANGED <<database, messages, poller, processed, history>>

\* ... and creates the review of each, unless it is there.
PrepareCreate(a) ==
    /\ At(a, "create")
    /\ \/ \E r \in Top(a).left :
            /\ review' = IF review[r] = "none"
                         THEN [review EXCEPT ![r] = "pending"] ELSE review
            /\ haunted' = haunted \cup
                   {q \in {r} : review[q] = "none" /\ resource[q] = "removed"}
            /\ Continue(a, <<[Top(a) EXCEPT !.left = @ \ {r}]>>)
            /\ UNCHANGED processed
       \/ /\ Top(a).left = {}
          /\ processed' = (processed \/ (Top(a).by = "replay" /\ phase = "open"))
          /\ Return(a)
          /\ UNCHANGED <<review, haunted>>
    /\ UNCHANGED <<phase, resource, messages, poller, changes, mishaps, missed>>

\* A review that cannot be created is left out and the others are created: the
\* replay counts as done, the message of the reviewer as handled.
CreateFails(a) ==
    /\ At(a, "create") /\ Mishap
    /\ \E r \in Top(a).left :
         /\ LeftOut({q \in {r} : Top(a).by # "opening"})
         /\ Continue(a, <<[Top(a) EXCEPT !.left = @ \ {r}]>>)
    /\ UNCHANGED <<database, messages, poller, processed, haunted>>

-----------------------------------------------------------------------------
(* ResourceEventHandler *)

\* A message is handled, and its offset committed, when its handler returns.
Take(m, fs) ==
    /\ m \in inbox
    /\ Start("consumer", fs)
    /\ inbox' = inbox \ {m} /\ handling' = {m}
    /\ UNCHANGED <<database, poller, processed>>

\* Mutant: the work of a new reviewer is left to the opening of the phase.
ConsumeCreatedNoSync(m) ==
    /\ m.kind = "created"
    /\ Take(m, IF phase = "waiting" THEN <<EnsureFrame("start", <<StartFrame>>)>> ELSE <<>>)
    /\ UNCHANGED history

\* handleResourceCreated: one read of the challenge tells whether the phase may
\* open (maybeOpenDeferredReviewPhases) or is open and needs the reviews.
ConsumeCreated(m) ==
    /\ m.kind = "created"
    /\ Take(m, CASE phase = "waiting" -> <<EnsureFrame("start", <<StartFrame>>)>>
                 [] phase = "open" -> <<PrepareFrame("event")>>
                 [] phase \in {"future", "closed"} -> <<>>)
    /\ UNCHANGED history

\* Mutant: a phase with enough reviewers left is not looked at.
ConsumeDeletedIfShort(m) ==
    /\ m.kind = "deleted"
    /\ Take(m, IF Staffed THEN <<>> ELSE <<DeleteFrame(m.reviewer), RemovedFrame>>)
    /\ UNCHANGED history

\* handleResourceDeleted, whatever the state of the phase
ConsumeDeleted(m) ==
    /\ m.kind = "deleted"
    /\ Take(m, <<DeleteFrame(m.reviewer), RemovedFrame>>)
    /\ UNCHANGED history

\* The handler cannot read the challenge or the resource: nothing is done, and
\* the message counts as handled.
ConsumeFails(m) ==
    /\ Take(m, <<>>) /\ Mishap
    /\ LeftOut({r \in Reviewers : m = Event("created", r)})
    /\ NotDeleted({r \in Reviewers : m = Event("deleted", r)})

\* Mutant: the review is marked and stays.
DeletePendingMarks(a) ==
    /\ At(a, "delete")
    /\ LET r == Top(a).reviewer IN
         review' = IF review[r] = "pending" THEN [review EXCEPT ![r] = "deleted"] ELSE review
    /\ Return(a)
    /\ UNCHANGED <<phase, resource, messages, poller, processed, history>>

\* deletePendingReviewsForResource leaves a review that was started.
DeletePending(a) ==
    /\ At(a, "delete")
    /\ LET r == Top(a).reviewer IN
         review' = IF review[r] = "pending" THEN [review EXCEPT ![r] = "none"] ELSE review
    /\ Return(a)
    /\ UNCHANGED <<phase, resource, messages, poller, processed, history>>

\* Any other call fails: the handler ends, behind a failed deletion with the
\* check of the reviewers that are left.
CallFails(a) ==
    /\ Busy(a) /\ Top(a).at \notin {"ensure", "create"} /\ Mishap
    /\ Return(a)
    /\ LeftOut({r \in Reviewers : /\ At(a, "prepare") /\ Top(a).by = "event"
                                  /\ Event("created", r) \in handling})
    /\ NotDeleted({r \in Reviewers : At(a, "delete") /\ Top(a).reviewer = r})
    /\ UNCHANGED <<database, messages, poller, processed>>

-----------------------------------------------------------------------------
(* The END of the phase *)

\* advancePhase END: the guards.  An END one of them stops is deferred, and due
\* again later.  (They are separate reads; none of the properties is about what
\* happens between them.)
EndGuards(a) ==
    /\ At(a, "end")
    /\ IF /\ Staffed
          /\ \E r \in Reviewers : review[r] = "completed"
          /\ \A r \in Reviewers : review[r] \notin Unfinished
       THEN Go(a, "close") ELSE Return(a)
    /\ UNCHANGED <<database, messages, poller, processed, history>>

EndClose(a) ==
    /\ At(a, "close")
    /\ phase' = IF phase = "open" THEN "closed" ELSE phase
    /\ Return(a)
    /\ UNCHANGED <<resource, review, messages, poller, processed, history>>

-----------------------------------------------------------------------------
(* The actors *)

\* synchronizeChallenges: the START of a phase that waits, the replay of an
\* open one (handleChallengeUpdate).
ScheduleStart ==
    /\ phase = "waiting" /\ Start("background", <<StartFrame>>)
    /\ UNCHANGED <<database, messages, poller, processed, history>>

Replay ==
    /\ phase = "open" /\ ~processed /\ Start("background", <<PrepareFrame("replay")>>)
    /\ UNCHANGED <<database, messages, poller, processed, history>>

\* The END is due: the date of the phase, a deferral, a completed review.
Fire ==
    /\ phase = "open" /\ Start("background", <<[at |-> "end"]>>)
    /\ UNCHANGED <<database, messages, poller, processed, history>>

Consume == \E m \in inbox : ConsumeCreated(m) \/ ConsumeDeleted(m)

\* The process crashes: what is being handled comes again.
Crash ==
    /\ Mishap /\ UNCHANGED <<haunted, missed>>
    /\ stack' = [a \in Actors |-> <<>>]
    /\ inbox' = inbox \cup (IF Busy("consumer") THEN handling ELSE {}) /\ handling' = {}
    /\ poller' = "none" /\ processed' = FALSE
    /\ UNCHANGED database

Handle(a) ==
    \/ EnsureRead(a) \/ EnsureDecide(a) \/ StartRead(a) \/ Open(a)
    \/ PrepareRead(a) \/ PrepareCreate(a) \/ DeletePending(a)
    \/ EndGuards(a) \/ EndClose(a)

Next ==
    \/ \E r \in Reviewers : Assign(r) \/ Remove(r) \/ StartReview(r) \/ CompleteReview(r)
    \/ PredecessorEnds \/ Consume \/ Poll
    \/ ScheduleStart \/ Replay \/ Fire
    \/ Crash \/ \E m \in inbox : ConsumeFails(m)
    \/ \E a \in Actors : Handle(a) \/ CreateFails(a) \/ CallFails(a)

Spec == Init /\ [][Next]_vars

\* The event loop runs every handler on, the topics are consumed, intervals
\* elapse, the cron looks at the challenge again and again, and a deferred END
\* is due again.  In the code the last three do not wait for each other: strong
\* fairness makes up for the bound on the background.  Reviewers do their work.
Fairness ==
    /\ \A a \in Actors : WF_vars(Handle(a))
    /\ WF_vars(Consume) /\ WF_vars(Poll)
    /\ SF_vars(ScheduleStart) /\ SF_vars(Replay) /\ SF_vars(Fire)
    /\ \A r \in Reviewers : WF_vars(CompleteReview(r))

FairSpec == Spec /\ Fairness
-----------------------------------------------------------------------------
(* Properties *)

\* Every variable keeps its type.
TypeOK ==
    /\ phase \in {"future", "waiting", "open", "closed"}
    /\ resource \in [Reviewers -> {"absent", "assigned", "removed"}]
    /\ review \in [Reviewers -> {"none", "pending", "started", "completed"}]
    /\ poller \in Callbacks \cup {"none"}
    /\ Cardinality(handling) <= 1 /\ processed \in BOOLEAN
    /\ changes \in 0 .. MaxChanges /\ mishaps \in 0 .. MaxMishaps
    /\ haunted \subseteq Reviewers /\ missed \subseteq Reviewers

\* A phase whose turn has come and that has its reviewers opens, although a
\* poller without a callback may have taken the place of one that would open it
\* and a failed read ends a poller.
OpensWhenStaffed == []<>(~Staffed \/ phase # "waiting")

\* Every reviewer assigned to an open phase gets a review, whatever snapshot the
\* handler of the assignment had and whoever crashed, unless the calls of the
\* handler or of the replay that would create it have failed.
EveryReviewerServed ==
    \A r \in Reviewers :
        (resource[r] = "assigned" /\ phase = "open")
            ~> \/ review[r] # "none" \/ r \in missed
               \/ resource[r] # "assigned" \/ phase # "open"

\* The unfinished review of a removed reviewer that no deletion takes away,
\* because it was started, its deletion has failed, or a handler that had read
\* the reviewers before created it after the deletion.
Orphan(r) == r \in haunted /\ resource[r] = "removed" /\ review[r] \in Unfinished

\* A reviewer whose review could not be created.
Idle(r) == r \in missed /\ resource[r] = "assigned" /\ review[r] = "none"

\* The phase ends when its reviewers have done their work, unless it is held open
\* by such a review or waits for such a reviewer.
ClosesUnlessHeld ==
    []<>(~Staffed \/ phase # "open" \/ \E r \in Reviewers : Orphan(r) \/ Idle(r))

\* An open phase is not polled for ever.
PollingEnds == phase = "open" ~> (poller = "none" \/ phase = "closed")
=============================================================================
