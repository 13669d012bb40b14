----------------------- MODULE ReviewAssignment_proofs -----------------------
(***************************************************************************)
(* Proofs about ReviewAssignment, for any reviewers and bounds: types; that *)
(* the removal of a reviewer is never forgotten while a review of his is    *)
(* pending, but for those haunted names; and that a reviewer assigned to    *)
(* the open phase is never forgotten, but for those missed names; so that,  *)
(* when nothing is left to do, only such a review or reviewer holds the     *)
(* phase open.                                                              *)
(***************************************************************************)
EXTENDS ReviewAssignment, FiniteSetTheorems, SequenceTheorems, TLAPS

Thens == {<<>>, <<StartFrame>>, <<OpenFrame(TRUE)>>, <<OpenFrame(FALSE)>>}

Frames ==
    [at : {"start", "end", "close"}] \cup [at : {"open"}, clears : BOOLEAN]
    \cup [at : {"ensure", "decide"}, use : {"ensure", "poll", "removed"},
          callback : Callbacks, then : Thens]
    \cup [at : {"prepare"}, by : {"opening", "replay", "event"}]
    \cup [at : {"create"}, left : SUBSET Reviewers, by : {"opening", "replay", "event"}]
    \cup [at : {"delete"}, reviewer : Reviewers]

Stacks == stack \in [Actors -> Seq(Frames)]

Events == [kind : {"created", "deleted"}, reviewer : Reviewers]

\* The variables TypeOK speaks of, each with its type
Typed ==
    /\ phase \in {"future", "waiting", "open", "closed"}
    /\ resource \in [Reviewers -> {"absent", "assigned", "removed"}]
    /\ review \in [Reviewers -> {"none", "pending", "started", "completed"}]
    /\ poller \in Callbacks \cup {"none"}
    /\ processed \in BOOLEAN
    /\ changes \in 0 .. MaxChanges /\ mishaps \in 0 .. MaxMishaps
    /\ haunted \subseteq Reviewers /\ missed \subseteq Reviewers

Topics ==
    /\ inbox \subseteq Events /\ handling \subseteq Events
    /\ \A m, n \in handling : m = n

\* The removal of r is in the topic, or the consumer is about to delete his review,
\* and after a crash gets the message again.
Owed(r) ==
    \/ Event("deleted", r) \in inbox
    \/ /\ Event("deleted", r) \in handling
       /\ At("consumer", "delete") /\ Top("consumer").reviewer = r

Left(r) == resource[r] = "removed" /\ review[r] \in Unfinished /\ r \notin haunted

\* The unfinished review of a removed reviewer that haunted does not name is one
\* that can be deleted, and will be.
RemovalsOwed == \A r \in Reviewers : Left(r) => review[r] = "pending" /\ Owed(r)

Inv == Typed /\ Topics /\ Stacks /\ RemovalsOwed

-----------------------------------------------------------------------------
(* Sequences of frames *)

LEMMA TopTyped ==
    ASSUME Stacks, NEW a \in Actors, Busy(a)
    PROVE  Top(a) \in Frames /\ Tail(stack[a]) \in Seq(Frames)
BY HeadTailProperties DEF Stacks, Busy, Top

LEMMA FewFrames ==
    /\ <<>> \in Seq(Frames)
    /\ \A f \in Frames : <<f>> \in Seq(Frames)
    /\ \A f, g \in Frames : <<f, g>> \in Seq(Frames)
OBVIOUS

\* What a handler may be continued with when an assignment check says yes
LEMMA ThenTyped == \A fs \in Thens : fs \in Seq(Frames)
<1>1. {StartFrame, OpenFrame(TRUE), OpenFrame(FALSE)} \subseteq Frames
    BY DEF Frames, StartFrame, OpenFrame
<1> QED BY <1>1, FewFrames DEF Thens

LEMMA ContinueTyped ==
    ASSUME Stacks, NEW a \in Actors, Busy(a), NEW fs \in Seq(Frames), Continue(a, fs)
    PROVE  Stacks'
<1>1. fs \o Tail(stack[a]) \in Seq(Frames)
    BY TopTyped, ConcatProperties
<1> QED BY <1>1 DEF Continue, Stacks

LEMMA ReturnTyped ==
    ASSUME Stacks, NEW a \in Actors, Busy(a), Return(a)
    PROVE  Stacks'
BY ContinueTyped, FewFrames DEF Return

LEMMA StartTyped ==
    ASSUME Stacks, NEW a \in Actors, NEW fs \in Seq(Frames), Start(a, fs)
    PROVE  Stacks'
BY DEF Start, Stacks

\* A handler that is not about to delete a review leaves alone one that is.
LEMMA DeletionStays ==
    ASSUME Stacks, NEW a \in Actors, Busy(a), Top(a).at # "delete", NEW fs, Continue(a, fs)
    PROVE  stack'["consumer"] = stack["consumer"] \/ ~At("consumer", "delete")
BY DEF Continue, Stacks, At, Actors

LEMMA StartStays ==
    ASSUME Stacks, NEW a \in Actors, NEW fs, Start(a, fs)
    PROVE  stack'["consumer"] = stack["consumer"] \/ ~At("consumer", "delete")
BY DEF Start, Stacks, At, Actors, Busy

-----------------------------------------------------------------------------
(* Removals that are owed stay owed *)

LEMMA OwedKept ==
    ASSUME RemovalsOwed, inbox \subseteq inbox', handling' = handling,
           stack'["consumer"] = stack["consumer"] \/ ~At("consumer", "delete"),
           \A r \in Reviewers : Left(r)' => Left(r) /\ review'[r] = review[r]
    PROVE  RemovalsOwed'
<1> SUFFICES ASSUME NEW r \in Reviewers, Left(r)'
             PROVE  review'[r] = "pending" /\ Owed(r)'
    BY DEF RemovalsOwed
<1>1. Owed(r) /\ review'[r] = "pending"
    BY DEF RemovalsOwed
<1>2. Event("deleted", r)' = Event("deleted", r)
    BY DEF Event
<1> QED BY <1>1, <1>2 DEF Owed, At, Busy, Top

\* Steps of a handler that only move its frames, the poller or processed
LEMMA QuietStep ==
    ASSUME Inv, UNCHANGED <<phase, resource, review, inbox, handling>>,
           haunted \subseteq haunted', haunted' \subseteq Reviewers, missed' \subseteq Reviewers,
           NEW a \in Actors, Busy(a), Top(a).at # "delete",
           NEW fs \in Seq(Frames), Continue(a, fs),
           poller' \in Callbacks \cup {"none"}, processed' \in BOOLEAN,
           changes' \in 0 .. MaxChanges, mishaps' \in 0 .. MaxMishaps
    PROVE  Inv'
<1>1. Stacks'
    BY ContinueTyped DEF Inv
<1>2. RemovalsOwed'
  <2>1. stack'["consumer"] = stack["consumer"] \/ ~At("consumer", "delete")
      BY DeletionStays DEF Inv
  <2> QED BY <2>1, OwedKept DEF Inv, Left
<1> QED BY <1>1, <1>2 DEF Inv, Typed, Topics

\* A handler that starts, not with a message
LEMMA BeginStep ==
    ASSUME Inv, UNCHANGED <<resource, review, messages, poller, processed, history>>,
           phase' \in {"future", "waiting", "open", "closed"},
           NEW a \in Actors, NEW f \in Frames, Start(a, <<f>>)
    PROVE  Inv'
<1>1. Stacks'
    BY StartTyped, FewFrames DEF Inv
<1>2. RemovalsOwed'
  <2>1. stack'["consumer"] = stack["consumer"] \/ ~At("consumer", "delete")
      BY StartStays DEF Inv
  <2> QED BY <2>1, OwedKept DEF Inv, Left, messages, history
<1> QED BY <1>1, <1>2 DEF Inv, Typed, Topics, messages, history

-----------------------------------------------------------------------------
(* One lemma for each action *)

LEMMA InitInv == Init => Inv
<1> SUFFICES ASSUME Init PROVE Inv
    OBVIOUS
<1>1. Typed
  <2>1. MaxChanges \in Nat /\ MaxMishaps \in Nat
      BY AssignmentAssumption DEF AssignmentAssumption
  <2>2. /\ resource \in [Reviewers -> {"absent", "assigned", "removed"}]
        /\ review \in [Reviewers -> {"none", "pending", "started", "completed"}]
      BY DEF Init
  <2>3. changes \in 0 .. MaxChanges /\ mishaps \in 0 .. MaxMishaps
      BY <2>1 DEF Init
  <2>4. /\ phase = "future" /\ poller = "none" /\ processed \in BOOLEAN
        /\ haunted = {} /\ missed = {}
      BY DEF Init
  <2> QED BY <2>2, <2>3, <2>4 DEF Typed
<1>2. Topics /\ Stacks
    BY FewFrames DEF Init, Topics, Stacks
<1>3. RemovalsOwed
    BY DEF Init, RemovalsOwed, Left, Unfinished
<1> QED BY <1>1, <1>2, <1>3 DEF Inv

LEMMA BudgetTyped ==
    ASSUME Typed, Change \/ Mishap
    PROVE  changes' \in 0 .. MaxChanges /\ mishaps' \in 0 .. MaxMishaps
BY AssignmentAssumption DEF Typed, Change, Mishap, AssignmentAssumption

LEMMA AssignStep == ASSUME Inv, NEW r \in Reviewers, Assign(r) PROVE Inv'
<1>1. Typed'
    BY BudgetTyped DEF Inv, Typed, Assign, Change
<1>2. Topics'
    BY DEF Inv, Topics, Assign, Events, Event
<1>3. Stacks'
    BY DEF Inv, Stacks, Assign
<1>4. RemovalsOwed'
  <2>1. \A q \in Reviewers : resource'[q] = "removed" => resource[q] = "removed"
      BY DEF Inv, Typed, Assign
  <2>2. inbox \subseteq inbox'
      BY DEF Assign
  <2> QED BY <2>1, <2>2, OwedKept DEF Inv, Left, Assign
<1> QED BY <1>1, <1>2, <1>3, <1>4 DEF Inv

\* The removal is in the topic.
LEMMA RemoveStep == ASSUME Inv, NEW r \in Reviewers, Remove(r) PROVE Inv'
<1>1. Typed'
    BY BudgetTyped DEF Inv, Typed, Remove, Change
<1>2. Topics'
    BY DEF Inv, Topics, Remove, Events, Event
<1>3. Stacks'
    BY DEF Inv, Stacks, Remove
<1>4. RemovalsOwed'
  <2> SUFFICES ASSUME NEW q \in Reviewers, Left(q)'
               PROVE  review[q] = "pending" /\ Owed(q)'
      BY DEF RemovalsOwed, Remove
  <2>1. CASE q = r
      BY <2>1 DEF Remove, Owed, Event, Left, Unfinished
  <2>2. CASE q # r
    <3>1. Left(q)
        BY <2>2 DEF Inv, Typed, Remove, Left
    <3>2. Owed(q) /\ review[q] = "pending"
        BY <3>1 DEF Inv, RemovalsOwed
    <3> QED BY <3>2 DEF Remove, Owed, At, Busy, Top, Event
  <2> QED BY <2>1, <2>2
<1> QED BY <1>1, <1>2, <1>3, <1>4 DEF Inv

\* The reviewer is not a removed one.
LEMMA ReviewStep ==
    ASSUME Inv, NEW r \in Reviewers, StartReview(r) \/ CompleteReview(r) PROVE Inv'
<1>1. Typed'
    BY DEF Inv, Typed, StartReview, CompleteReview, history
<1>2. Topics' /\ Stacks'
    BY DEF Inv, Topics, Stacks, StartReview, CompleteReview, messages
<1>3. RemovalsOwed'
  <2>1. \A q \in Reviewers : resource[q] = "removed" => review'[q] = review[q]
      BY DEF Inv, Typed, StartReview, CompleteReview
  <2>2. UNCHANGED <<resource, haunted, messages, stack>>
      BY DEF StartReview, CompleteReview, history
  <2> QED BY <2>1, <2>2, OwedKept DEF Inv, Left, messages
<1> QED BY <1>1, <1>2, <1>3 DEF Inv

LEMMA EnsureReadStep == ASSUME Inv, NEW a \in Actors, EnsureRead(a) PROVE Inv'
<1>1. Busy(a) /\ Top(a).at = "ensure"
    BY DEF EnsureRead, At
<1>2. Top(a) \in [at : {"ensure"}, use : {"ensure", "poll", "removed"},
                   callback : Callbacks, then : Thens]
    BY <1>1, TopTyped DEF Inv, Frames
<1>3. PICK fs : fs \in {<<>>, Top(a).then, <<[Top(a) EXCEPT !.at = "decide"]>>}
                /\ Continue(a, fs)
    BY DEF EnsureRead, Go
<1>4. [Top(a) EXCEPT !.at = "decide"] \in Frames
    BY <1>2 DEF Frames
<1>5. fs \in Seq(Frames)
    BY <1>2, <1>3, <1>4, FewFrames, ThenTyped
<1>6. /\ changes' \in 0 .. MaxChanges /\ mishaps' \in 0 .. MaxMishaps
      /\ haunted' = haunted /\ missed' = missed
    BY BudgetTyped DEF EnsureRead, history, Inv, Typed
<1>7. poller' \in Callbacks \cup {"none"} /\ processed' \in BOOLEAN
    BY DEF EnsureRead, Inv, Typed
<1> QED BY <1>1, <1>3, <1>5, <1>6, <1>7, QuietStep
        DEF EnsureRead, database, messages, Inv, Typed

LEMMA EnsureDecideStep == ASSUME Inv, NEW a \in Actors, EnsureDecide(a) PROVE Inv'
<1>1. Busy(a) /\ Top(a).at = "decide"
    BY DEF EnsureDecide, At
<1>2. Top(a) \in [at : {"decide"}, use : {"ensure", "poll", "removed"},
                   callback : Callbacks, then : Thens]
    BY <1>1, TopTyped DEF Inv, Frames
<1>3. PICK fs : fs \in {<<>>, Top(a).then} /\ Continue(a, fs)
    BY DEF EnsureDecide, Return
<1>4. fs \in Seq(Frames)
    BY <1>2, <1>3, FewFrames, ThenTyped
<1>5. poller' \in Callbacks \cup {"none"} /\ processed' \in BOOLEAN
    BY <1>2 DEF EnsureDecide, Inv, Typed
<1> QED BY <1>1, <1>3, <1>4, <1>5, QuietStep
        DEF EnsureDecide, database, messages, history, Inv, Typed

LEMMA StartReadStep == ASSUME Inv, NEW a \in Actors, StartRead(a) PROVE Inv'
<1>1. Busy(a) /\ Top(a).at = "start"
    BY DEF StartRead, At
<1>2. EnsureFrame("start", <<OpenFrame(FALSE)>>) \in Frames
    BY DEF EnsureFrame, Frames, Thens, Callbacks
<1>3. PICK fs \in {<<>>, <<EnsureFrame("start", <<OpenFrame(FALSE)>>)>>} : Continue(a, fs)
    BY DEF StartRead
<1>4. fs \in Seq(Frames)
    BY <1>2, <1>3, FewFrames
<1> QED BY <1>1, <1>3, <1>4, QuietStep DEF StartRead, database, messages, history, Inv, Typed

LEMMA OpenStep == ASSUME Inv, NEW a \in Actors, Open(a) PROVE Inv'
<1>1. Busy(a) /\ Top(a).at = "open"
    BY DEF Open, At
<1>2. PrepareFrame("opening") \in Frames
    BY DEF PrepareFrame, Frames
<1>3. PICK fs \in {<<>>, <<PrepareFrame("opening")>>} : Continue(a, fs)
    BY DEF Open, Return
<1>4. Stacks'
    BY <1>1, <1>2, <1>3, FewFrames, ContinueTyped DEF Inv
<1>5. RemovalsOwed'
  <2>1. stack'["consumer"] = stack["consumer"] \/ ~At("consumer", "delete")
      BY <1>1, <1>3, DeletionStays DEF Inv
  <2> QED BY <2>1, OwedKept DEF Inv, Left, Open, messages, history
<1> QED BY <1>4, <1>5 DEF Inv, Typed, Topics, Open, messages, history

LEMMA PrepareReadStep == ASSUME Inv, NEW a \in Actors, PrepareRead(a) PROVE Inv'
<1> DEFINE f == [at |-> "create", left |-> Assigned, by |-> Top(a).by]
<1>1. Busy(a) /\ Top(a).at = "prepare" /\ Continue(a, <<f>>)
    BY DEF PrepareRead, At
<1>2. f \in Frames
    BY <1>1, TopTyped DEF Inv, Frames, Assigned
<1>3. <<f>> \in Seq(Frames)
    BY <1>2, FewFrames
<1> HIDE DEF f
<1> QED BY <1>1, <1>3, QuietStep DEF PrepareRead, database, messages, history, Inv, Typed

\* A review created for a reviewer removed since is what haunted records.
LEMMA PrepareCreateStep == ASSUME Inv, NEW a \in Actors, PrepareCreate(a) PROVE Inv'
<1>1. Busy(a) /\ Top(a).at = "create"
    BY DEF PrepareCreate, At
<1>2. Top(a) \in [at : {"create"}, left : SUBSET Reviewers,
                   by : {"opening", "replay", "event"}]
    BY <1>1, TopTyped DEF Inv, Frames
<1>3. ASSUME NEW r \in Top(a).left,
             review' = IF review[r] = "none" THEN [review EXCEPT ![r] = "pending"] ELSE review,
             haunted' = haunted \cup {q \in {r} : review[q] = "none" /\ resource[q] = "removed"},
             Continue(a, <<[Top(a) EXCEPT !.left = @ \ {r}]>>),
             UNCHANGED processed
      PROVE  Inv'
  <2>1. [Top(a) EXCEPT !.left = @ \ {r}] \in Frames
      BY <1>2 DEF Frames
  <2>2. <<[Top(a) EXCEPT !.left = @ \ {r}]>> \in Seq(Frames)
      BY <2>1, FewFrames
  <2>3. Stacks'
      BY <1>1, <1>3, <2>2, ContinueTyped DEF Inv
  <2>4. r \in Reviewers
      BY <1>2
  <2>5. Typed'
      BY <1>3, <2>4 DEF Inv, Typed, PrepareCreate
  <2>6. RemovalsOwed'
    <3>1. stack'["consumer"] = stack["consumer"] \/ ~At("consumer", "delete")
        BY <1>1, <1>3, DeletionStays DEF Inv
    <3>2. \A q \in Reviewers : Left(q)' => Left(q) /\ review'[q] = review[q]
        BY <1>3, <2>4 DEF Inv, Typed, PrepareCreate, Left
    <3> QED BY <1>3, <3>1, <3>2, OwedKept DEF Inv, PrepareCreate, messages
  <2> QED BY <2>3, <2>5, <2>6 DEF Inv, Topics, PrepareCreate, messages
<1>4. ASSUME processed' = (processed \/ (Top(a).by = "replay" /\ phase = "open")),
             Return(a), UNCHANGED <<review, haunted>>
      PROVE  Inv'
  <2>1. processed' \in BOOLEAN
      BY <1>2, <1>4 DEF Inv, Typed
  <2>2. Continue(a, <<>>)
      BY <1>4 DEF Return
  <2> QED BY <1>1, <1>4, <2>1, <2>2, FewFrames, QuietStep
          DEF PrepareCreate, messages, Inv, Typed
<1> QED BY <1>3, <1>4 DEF PrepareCreate

\* The removal is paid: no pending review of the reviewer is left.
LEMMA DeletePendingStep == ASSUME Inv, NEW a \in Actors, DeletePending(a) PROVE Inv'
<1> DEFINE d == Top(a).reviewer
<1>1. Busy(a) /\ Top(a).at = "delete"
    BY DEF DeletePending, At
<1>2. d \in Reviewers
    BY <1>1, TopTyped DEF Inv, Frames
<1>3. Stacks'
    BY <1>1, ReturnTyped DEF Inv, DeletePending
<1>4. Typed'
    BY <1>2 DEF Inv, Typed, DeletePending, history
<1>5. RemovalsOwed'
  <2> SUFFICES ASSUME NEW q \in Reviewers, Left(q)'
               PROVE  review'[q] = "pending" /\ Owed(q)'
      BY DEF RemovalsOwed
  <2>1. Left(q)
      BY <1>2 DEF Inv, Typed, DeletePending, history, Left, Unfinished
  <2>2. Owed(q) /\ review[q] = "pending"
      BY <2>1 DEF Inv, RemovalsOwed
  <2>3. q # d /\ review'[q] = review[q]
      BY <1>2, <2>2 DEF Inv, Typed, DeletePending, Left, Unfinished
  <2>4. a = "consumer" \/ stack'["consumer"] = stack["consumer"]
      BY DEF DeletePending, Return, Continue, Inv, Stacks, Actors
  <2> QED BY <2>2, <2>4, <2>3 DEF DeletePending, Owed, At, Busy, Top, messages, Event
<1> QED BY <1>3, <1>4, <1>5 DEF Inv, Topics, DeletePending, messages

LEMMA EndStep == ASSUME Inv, NEW a \in Actors, EndGuards(a) \/ EndClose(a) PROVE Inv'
<1>1. Busy(a) /\ Top(a).at \in {"end", "close"}
    BY DEF EndGuards, EndClose, At
<1>2. Top(a) \in [at : {"start", "end", "close"}]
    BY <1>1, TopTyped DEF Inv, Frames
<1>3. [Top(a) EXCEPT !.at = "close"] \in Frames
    BY <1>2 DEF Frames
<1>4. PICK fs \in {<<>>, <<[Top(a) EXCEPT !.at = "close"]>>} : Continue(a, fs)
    BY DEF EndGuards, EndClose, Go, Return
<1>5. Stacks'
    BY <1>1, <1>3, <1>4, FewFrames, ContinueTyped DEF Inv
<1>6. RemovalsOwed'
  <2>1. stack'["consumer"] = stack["consumer"] \/ ~At("consumer", "delete")
      BY <1>1, <1>4, DeletionStays DEF Inv
  <2> QED BY <2>1, OwedKept DEF Inv, Left, EndGuards, EndClose, database, messages, history
<1> QED BY <1>5, <1>6
        DEF Inv, Typed, Topics, EndGuards, EndClose, database, messages, history

\* A failed deletion makes the review one that haunted names.
LEMMA CallFailsStep == ASSUME Inv, NEW a \in Actors, CallFails(a) PROVE Inv'
<1>1. Busy(a) /\ Return(a) /\ UNCHANGED <<database, messages, poller, processed>>
    BY DEF CallFails
<1>2. /\ haunted \subseteq haunted' /\ haunted' \subseteq Reviewers
      /\ missed' \subseteq Reviewers
    BY DEF CallFails, NotDeleted, LeftOut, Inv, Typed
<1>3. changes' \in 0 .. MaxChanges /\ mishaps' \in 0 .. MaxMishaps
    BY BudgetTyped DEF CallFails, Inv
<1>4. CASE Top(a).at # "delete"
  <2>1. Continue(a, <<>>)
      BY <1>1 DEF Return
  <2> QED BY <1>1, <1>2, <1>3, <1>4, <2>1, FewFrames, QuietStep
          DEF database, messages, Inv, Typed
<1>5. CASE Top(a).at = "delete"
  <2>1. Stacks'
      BY <1>1, ReturnTyped DEF Inv
  <2>2. Typed' /\ Topics'
      BY <1>1, <1>2, <1>3 DEF Inv, Typed, Topics, database, messages
  <2>3. RemovalsOwed'
    <3> SUFFICES ASSUME NEW q \in Reviewers, Left(q)'
                 PROVE  review'[q] = "pending" /\ Owed(q)'
        BY DEF RemovalsOwed
    <3>1. Left(q)
        BY <1>1, <1>2 DEF Left, database
    <3>2. Owed(q) /\ review[q] = "pending"
        BY <3>1 DEF Inv, RemovalsOwed
    <3>3. q # Top(a).reviewer
        BY <1>1, <1>5, <3>2 DEF CallFails, NotDeleted, Left, At
    <3>4. a = "consumer" \/ stack'["consumer"] = stack["consumer"]
        BY <1>1 DEF Return, Continue, Inv, Stacks, Actors
    <3> QED BY <1>1, <3>2, <3>3, <3>4 DEF Owed, At, Busy, Top, database, messages, Event
  <2> QED BY <2>1, <2>2, <2>3 DEF Inv
<1> QED BY <1>4, <1>5

LEMMA CreateFailsStep == ASSUME Inv, NEW a \in Actors, CreateFails(a) PROVE Inv'
<1>1. /\ Busy(a) /\ Top(a).at = "create"
      /\ UNCHANGED <<database, messages, poller, processed, haunted>>
    BY DEF CreateFails, At
<1>2. Top(a) \in [at : {"create"}, left : SUBSET Reviewers,
                   by : {"opening", "replay", "event"}]
    BY <1>1, TopTyped DEF Inv, Frames
<1>3. PICK r \in Top(a).left :
          /\ LeftOut({q \in {r} : Top(a).by # "opening"})
          /\ Continue(a, <<[Top(a) EXCEPT !.left = @ \ {r}]>>)
    BY DEF CreateFails
<1>4. [Top(a) EXCEPT !.left = @ \ {r}] \in Frames
    BY <1>2 DEF Frames
<1>5. <<[Top(a) EXCEPT !.left = @ \ {r}]>> \in Seq(Frames)
    BY <1>4, FewFrames
<1>6. missed' \subseteq Reviewers
    BY <1>2, <1>3 DEF LeftOut, Inv, Typed
<1>7. changes' \in 0 .. MaxChanges /\ mishaps' \in 0 .. MaxMishaps
    BY BudgetTyped DEF CreateFails, Inv
<1> QED BY <1>1, <1>3, <1>5, <1>6, <1>7, QuietStep DEF database, messages, Inv, Typed

\* The removal moves from the topic to the handler, which begins with the deletion.
LEMMA ConsumeStep == ASSUME Inv, Consume PROVE Inv'
<1>1. PICK m \in inbox : ConsumeCreated(m) \/ ConsumeDeleted(m)
    BY DEF Consume
<1>2. m \in Events
    BY <1>1 DEF Inv, Topics
<1>3. PICK fs \in Seq(Frames) :
        /\ Take(m, fs)
        /\ m.kind = "deleted" => fs = <<DeleteFrame(m.reviewer), RemovedFrame>>
        /\ UNCHANGED history
  <2>1. EnsureFrame("start", <<StartFrame>>) \in Frames
      BY DEF EnsureFrame, Frames, Thens, Callbacks
  <2>2. PrepareFrame("event") \in Frames
      BY DEF PrepareFrame, Frames
  <2>3. DeleteFrame(m.reviewer) \in Frames
      BY <1>2 DEF DeleteFrame, Frames, Events
  <2>4. RemovedFrame \in Frames
      BY DEF RemovedFrame, Frames, Thens, Callbacks
  <2>5. CASE ConsumeCreated(m)
      BY <2>1, <2>2, <2>5, FewFrames DEF ConsumeCreated, Inv, Typed
  <2>6. CASE ConsumeDeleted(m)
      BY <2>3, <2>4, <2>6, FewFrames DEF ConsumeDeleted
  <2> QED BY <1>1, <2>5, <2>6
<1>4. Stacks'
    BY <1>3, StartTyped DEF Inv, Take, Actors
<1>5. Topics'
    BY <1>2, <1>3 DEF Inv, Topics, Take
<1>6. RemovalsOwed'
  <2> SUFFICES ASSUME NEW q \in Reviewers, Left(q)'
               PROVE  review'[q] = "pending" /\ Owed(q)'
      BY DEF RemovalsOwed
  <2>1. Left(q) /\ review' = review
      BY <1>3 DEF Take, database, history, Left
  <2>2. Owed(q) /\ review[q] = "pending"
      BY <2>1 DEF Inv, RemovalsOwed
  <2>3. Event("deleted", q) \in inbox
      BY <1>3, <2>2 DEF Owed, Take, Start, At
  <2>4. CASE m = Event("deleted", q)
    <3>1. m.kind = "deleted" /\ m.reviewer = q
        BY <2>4 DEF Event
    <3>2. stack'["consumer"] = <<DeleteFrame(q), RemovedFrame>> /\ m \in handling'
        BY <1>3, <3>1 DEF Take, Start, Inv, Stacks, Actors
    <3>3. Head(stack'["consumer"]) = DeleteFrame(q) /\ stack'["consumer"] # <<>>
        BY <3>2
    <3> QED BY <2>1, <2>2, <2>4, <3>2, <3>3 DEF Owed, At, Busy, Top, DeleteFrame, Event
  <2>5. CASE m # Event("deleted", q)
      BY <1>3, <2>1, <2>2, <2>3, <2>5 DEF Owed, Take, Event
  <2> QED BY <2>4, <2>5
<1> QED BY <1>3, <1>4, <1>5, <1>6 DEF Inv, Typed, Take, database, history

\* A removal that is lost makes the review one that haunted names.
LEMMA ConsumeFailsStep == ASSUME Inv, NEW m \in inbox, ConsumeFails(m) PROVE Inv'
<1>1. /\ Take(m, <<>>) /\ haunted \subseteq haunted' /\ haunted' \subseteq Reviewers
      /\ missed' \subseteq Reviewers
    BY DEF ConsumeFails, NotDeleted, LeftOut, Inv, Typed
<1>2. Stacks'
    BY <1>1, StartTyped, FewFrames DEF Inv, Take, Actors
<1>3. Topics'
    BY <1>1 DEF Inv, Topics, Take
<1>4. Typed'
    BY <1>1, BudgetTyped DEF Inv, Typed, ConsumeFails, Take, database
<1>5. RemovalsOwed'
  <2> SUFFICES ASSUME NEW q \in Reviewers, Left(q)'
               PROVE  review'[q] = "pending" /\ Owed(q)'
      BY DEF RemovalsOwed
  <2>1. Left(q) /\ review' = review
      BY <1>1 DEF Left, Take, database
  <2>2. Owed(q) /\ review[q] = "pending"
      BY <2>1 DEF Inv, RemovalsOwed
  <2>3. Event("deleted", q) \in inbox
      BY <1>1, <2>2 DEF Owed, Take, Start, At
  <2>4. m # Event("deleted", q)
      BY <2>2 DEF ConsumeFails, NotDeleted, Left
  <2> QED BY <1>1, <2>1, <2>2, <2>3, <2>4 DEF Owed, Take, Event
<1> QED BY <1>2, <1>3, <1>4, <1>5 DEF Inv

\* What the consumer was at comes again.
LEMMA CrashStep == ASSUME Inv, Crash PROVE Inv'
<1>1. Typed'
    BY BudgetTyped DEF Inv, Typed, Crash, database
<1>2. Topics' /\ Stacks'
    BY FewFrames DEF Inv, Topics, Stacks, Crash
<1>3. RemovalsOwed'
  <2> SUFFICES ASSUME NEW q \in Reviewers, Left(q)'
               PROVE  review'[q] = "pending" /\ Owed(q)'
      BY DEF RemovalsOwed
  <2>1. Left(q) /\ review' = review
      BY DEF Crash, database, Left
  <2>2. Owed(q) /\ review[q] = "pending"
      BY <2>1 DEF Inv, RemovalsOwed
  <2> QED BY <2>1, <2>2 DEF Owed, Crash, At, Event
<1> QED BY <1>1, <1>2, <1>3 DEF Inv

LEMMA BeginsStep ==
    ASSUME Inv, Poll \/ PredecessorEnds \/ ScheduleStart \/ Replay \/ Fire
    PROVE  Inv'
<1>1. CASE Poll
  <2>1. CallbackFrames(poller) \in Thens
      BY <1>1 DEF Poll, CallbackFrames, Thens, Inv, Typed, Callbacks
  <2>2. PollFrame(CallbackFrames(poller)) \in Frames
      BY <2>1 DEF PollFrame, Frames, Callbacks
  <2> QED BY <1>1, <2>2, BeginStep DEF Poll, database, Inv, Typed, Actors
<1>2. CASE PredecessorEnds
  <2>1. EnsureFrame("chain", <<OpenFrame(TRUE)>>) \in Frames
      BY DEF EnsureFrame, Frames, Thens, Callbacks
  <2> QED BY <1>2, <2>1, BeginStep DEF PredecessorEnds, Actors
<1>3. CASE ScheduleStart \/ Replay \/ Fire
  <2>1. {StartFrame, PrepareFrame("replay"), [at |-> "end"]} \subseteq Frames
      BY DEF StartFrame, PrepareFrame, Frames
  <2> QED BY <1>3, <2>1, BeginStep
          DEF ScheduleStart, Replay, Fire, database, Inv, Typed, Actors
<1> QED BY <1>1, <1>2, <1>3

LEMMA InvStep == Inv /\ [Next]_vars => Inv'
<1> SUFFICES ASSUME Inv, [Next]_vars PROVE Inv'
    OBVIOUS
<1>1. CASE UNCHANGED vars
    BY <1>1 DEF vars, Inv, Typed, Topics, Stacks, RemovalsOwed, Left, Owed, At, Busy, Top, Event
<1>2. CASE \E r \in Reviewers : Assign(r) \/ Remove(r) \/ StartReview(r) \/ CompleteReview(r)
    BY <1>2, AssignStep, RemoveStep, ReviewStep
<1>3. CASE \E a \in Actors : CreateFails(a) \/ CallFails(a)
    BY <1>3, CreateFailsStep, CallFailsStep
<1>4. CASE \E a \in Actors : Handle(a)
    BY <1>4, EnsureReadStep, EnsureDecideStep, StartReadStep, OpenStep, PrepareReadStep,
       PrepareCreateStep, DeletePendingStep, EndStep DEF Handle
<1> QED BY <1>1, <1>2, <1>3, <1>4, ConsumeStep, ConsumeFailsStep, CrashStep, BeginsStep DEF Next

LEMMA InvAlways == Spec => []Inv
<1> QED BY InitInv, InvStep, PTL DEF Spec

-----------------------------------------------------------------------------
(* The theorems *)

\* Every variable keeps its type, and the consumer is at one message at a time.
THEOREM AssignmentTypeCorrect == Spec => []TypeOK
<1>1. Inv => TypeOK
  <2> SUFFICES ASSUME Inv PROVE Cardinality(handling) <= 1
      BY DEF Inv, Typed, TypeOK
  <2>1. CASE handling = {}
      BY <2>1, FS_EmptySet
  <2>2. CASE handling # {}
    <3>1. PICK m : handling = {m}
        BY <2>2 DEF Inv, Topics
    <3> QED BY <3>1, FS_Singleton
  <2> QED BY <2>1, <2>2
<1> QED BY <1>1, InvAlways, PTL

\* The review of a removed reviewer is not forgotten, in spite of crashes between
\* the consumption of his removal and the deletion: it is pending, and its removal
\* still in the topic or about to be carried out, unless it was started before, a
\* handler created it afterwards, or a call of the handler has failed.
THEOREM NoRemovalForgotten == Spec => []RemovalsOwed
<1>1. Inv => RemovalsOwed
    BY DEF Inv
<1> QED BY <1>1, InvAlways, PTL

-----------------------------------------------------------------------------
(* Reviewers are not forgotten either *)

\* A handler is one frame, except that of a removal, which has its second check
\* under the deletion.
Shallow ==
    \A a \in Actors : Busy(a) =>
        \/ Tail(stack[a]) = <<>>
        \/ At(a, "delete") /\ Tail(stack[a]) = <<RemovedFrame>>

\* Removals are of reviewers that are gone: nobody comes back.
Honest ==
    /\ \A r \in Reviewers :
           Event("deleted", r) \in inbox \cup handling => resource[r] = "removed"
    /\ \A a \in Actors : At(a, "delete") => resource[Top(a).reviewer] = "removed"

\* Reviews are created for those who are or have been reviewers.
Known ==
    /\ \A r \in Reviewers : resource[r] = "absent" => review[r] = "none"
    /\ \A a \in Actors : At(a, "create") =>
           \A r \in Top(a).left : resource[r] # "absent"

\* No phase is prepared before it opens, and none replayed.
Fresh ==
    phase \in {"future", "waiting"} =>
        /\ ~processed
        /\ \A a \in Actors : At(a, "prepare") \/ At(a, "create") => Top(a).by # "replay"

\* The handler of the assignment of r is about to read the reviewers, or has r
\* among those it has read.
Serving(r) ==
    /\ Event("created", r) \in handling /\ Top("consumer").by = "event"
    /\ \/ At("consumer", "prepare")
       \/ At("consumer", "create") /\ r \in Top("consumer").left

\* What there is to make r a review: the message of his assignment, unread or being
\* handled, or a replay, to come or under way, that has not left r out.
Watched(r) ==
    \/ Event("created", r) \in inbox
    \/ Serving(r)
    \/ /\ ~processed
       /\ \A a \in Actors :
              At(a, "create") /\ Top(a).by = "replay" => r \in Top(a).left

\* Whoever is assigned to the open phase and has no review is watched, but for
\* those whose review could not be created.
ReviewersWatched ==
    phase = "open" => \A r \in Assigned \ missed : review[r] = "none" => Watched(r)

Served == Shallow /\ Honest /\ Known /\ Fresh /\ ReviewersWatched

LEMMA InitServed == Init => Served
BY DEF Init, Served, Shallow, Honest, Known, Fresh, ReviewersWatched, Busy, At

\* A handler that is not deleting has but one frame to replace.
LEMMA OnlyFrame ==
    ASSUME Stacks, Shallow, NEW a \in Actors, Busy(a), Top(a).at # "delete",
           NEW fs \in Seq(Frames), Continue(a, fs)
    PROVE  stack' = [stack EXCEPT ![a] = fs]
<1>1. Tail(stack[a]) = <<>>
    BY DEF Shallow, At
<1>2. fs \o <<>> = fs
    BY ConcatEmptySeq
<1> QED BY <1>1, <1>2 DEF Continue, Stacks

LEMMA ShallowKept ==
    ASSUME Stacks, Shallow, NEW a \in Actors, NEW fs,
           fs = <<>> \/ \E f \in Frames : fs = <<f>>,
           stack' = [stack EXCEPT ![a] = fs]
    PROVE  Shallow'
<1> SUFFICES ASSUME NEW q \in Actors, stack'[q] # <<>>
             PROVE  \/ Tail(stack'[q]) = <<>>
                    \/ At(q, "delete")' /\ Tail(stack'[q]) = <<RemovedFrame>>
    BY DEF Shallow, Busy, RemovedFrame
<1>1. CASE q = a
  <2>1. PICK f \in Frames : fs = <<f>>
      BY <1>1 DEF Stacks
  <2>2. Tail(<<f>>) = <<>>
      OBVIOUS
  <2> QED BY <1>1, <2>1, <2>2 DEF Stacks
<1>2. CASE q # a
    BY <1>2 DEF Stacks, Shallow, At, Busy, Top
<1> QED BY <1>1, <1>2

\* Steps of handlers that neither prepare nor delete
LEMMA AsideStep ==
    ASSUME Inv, Served, UNCHANGED <<resource, review, inbox, handling, processed, missed>>,
           phase' = "open" => phase = "open",
           phase' \in {"future", "waiting"} => phase \in {"future", "waiting"},
           NEW a \in Actors, \A s \in {"prepare", "create", "delete"} : ~At(a, s),
           NEW fs, stack' = [stack EXCEPT ![a] = fs],
           \/ fs = <<>>
           \/ \E f \in Frames : fs = <<f>> /\ f.at \notin {"prepare", "create", "delete"}
    PROVE  Served'
<1>1. Shallow'
    BY ShallowKept DEF Inv, Served
<1>2. \A s \in {"prepare", "create", "delete"} : ~At(a, s)'
  <2>1. CASE fs = <<>>
      BY <2>1 DEF At, Busy, Inv, Stacks
  <2>2. ASSUME NEW f \in Frames, fs = <<f>>, f.at \notin {"prepare", "create", "delete"}
        PROVE  \A s \in {"prepare", "create", "delete"} : ~At(a, s)'
    <3>1. stack'[a] = <<f>> /\ Head(<<f>>) = f
        BY <2>2 DEF Inv, Stacks
    <3> QED BY <2>2, <3>1 DEF At, Top
  <2> QED BY <2>1, <2>2
<1>3. \A q \in Actors : q # a => stack'[q] = stack[q]
    BY DEF Inv, Stacks
<1>4. \A q \in Actors : \A s \in {"prepare", "create", "delete"} :
          /\ At(q, s)' <=> At(q, s)
          /\ At(q, s) => Head(stack'[q]) = Head(stack[q])
    BY <1>2, <1>3 DEF At, Busy, Top
<1>5. Honest'
    BY <1>4 DEF Served, Honest, Top, Event
<1>6. Known'
    BY <1>4 DEF Served, Known, Top
<1>7. Fresh'
    BY <1>4 DEF Served, Fresh, Top
<1>8. ReviewersWatched'
  <2> SUFFICES ASSUME phase' = "open", NEW r \in Reviewers, resource[r] = "assigned",
                      review[r] = "none", r \notin missed
               PROVE  Watched(r)'
      BY DEF ReviewersWatched, Assigned
  <2>1. Watched(r)
      BY DEF Served, ReviewersWatched, Assigned
  <2>2. "consumer" \in Actors
      BY DEF Actors
  <2> QED BY <1>4, <2>1, <2>2 DEF Watched, Serving, Event, Top
<1> QED BY <1>1, <1>5, <1>6, <1>7, <1>8 DEF Served

\* What a frame in place of another leaves of the other actors
LEMMA NowAt ==
    ASSUME Stacks, NEW a \in Actors, NEW fs, stack' = [stack EXCEPT ![a] = fs]
    PROVE  /\ \A q \in Actors : q # a => stack'[q] = stack[q]
           /\ fs = <<>> => \A s : ~At(a, s)'
           /\ \A f : fs = <<f>> => Top(a)' = f /\ \A s : At(a, s)' <=> f.at = s
<1>1. stack'[a] = fs
    BY DEF Stacks
<1>2. \A f : Head(<<f>>) = f /\ <<f>> # <<>>
    OBVIOUS
<1> QED BY <1>1, <1>2 DEF At, Busy, Top, Stacks

LEMMA EnsureReadServed ==
    ASSUME Inv, Served, NEW a \in Actors, EnsureRead(a) \/ EnsureDecide(a) PROVE Served'
<1>1. Busy(a) /\ Top(a).at \in {"ensure", "decide"}
    BY DEF EnsureRead, EnsureDecide, At
<1>2. Top(a) \in [at : {"ensure", "decide"}, use : {"ensure", "poll", "removed"},
                   callback : Callbacks, then : Thens]
    BY <1>1, TopTyped DEF Inv, Frames
<1>3. PICK fs : fs \in {<<>>, Top(a).then, <<[Top(a) EXCEPT !.at = "decide"]>>}
                /\ Continue(a, fs)
    BY DEF EnsureRead, EnsureDecide, Go, Return
<1>4. [Top(a) EXCEPT !.at = "decide"] \in Frames
    BY <1>2 DEF Frames
<1>5. fs = <<>> \/ \E f \in Frames : fs = <<f>> /\ f.at \notin {"prepare", "create", "delete"}
  <2>1. CASE fs = Top(a).then
    <3>1. StartFrame \in Frames /\ StartFrame.at = "start"
        BY DEF Frames, StartFrame
    <3>2. \A b \in BOOLEAN : OpenFrame(b) \in Frames /\ OpenFrame(b).at = "open"
        BY DEF Frames, OpenFrame
    <3> QED BY <1>2, <2>1, <3>1, <3>2 DEF Thens
  <2>2. CASE fs = <<[Top(a) EXCEPT !.at = "decide"]>>
    <3>1. [Top(a) EXCEPT !.at = "decide"].at = "decide"
        BY <1>2
    <3> QED BY <2>2, <3>1, <1>4
  <2> QED BY <1>3, <2>1, <2>2
<1>6. stack' = [stack EXCEPT ![a] = fs]
    BY <1>1, <1>3, <1>5, FewFrames, OnlyFrame DEF Inv, Served
<1>7. UNCHANGED <<phase, resource, review, inbox, handling, processed, missed>>
    BY DEF EnsureRead, EnsureDecide, database, messages, history
<1>8. \A s \in {"prepare", "create", "delete"} : ~At(a, s)
    BY <1>1 DEF At
<1> QED BY <1>5, <1>6, <1>7, <1>8, AsideStep

LEMMA StartReadServed ==
    ASSUME Inv, Served, NEW a \in Actors, StartRead(a) PROVE Served'
<1> DEFINE f == EnsureFrame("start", <<OpenFrame(FALSE)>>)
<1>1. Busy(a) /\ Top(a).at = "start"
    BY DEF StartRead, At
<1>2. f \in Frames /\ f.at = "ensure"
    BY DEF EnsureFrame, Frames, Thens, Callbacks
<1>3. PICK fs \in {<<>>, <<f>>} : Continue(a, fs)
    BY DEF StartRead
<1> HIDE DEF f
<1>4. stack' = [stack EXCEPT ![a] = fs]
    BY <1>1, <1>2, <1>3, FewFrames, OnlyFrame DEF Inv, Served
<1>5. \A s \in {"prepare", "create", "delete"} : ~At(a, s)
    BY <1>1 DEF At
<1>6. UNCHANGED <<phase, resource, review, inbox, handling, processed, missed>>
    BY DEF StartRead, database, messages, history
<1>7. \/ fs = <<>>
      \/ \E g \in Frames : fs = <<g>> /\ g.at \notin {"prepare", "create", "delete"}
    BY <1>2, <1>3
<1> QED BY <1>4, <1>5, <1>6, <1>7, AsideStep

LEMMA EndServed ==
    ASSUME Inv, Served, NEW a \in Actors, EndGuards(a) \/ EndClose(a) PROVE Served'
<1> DEFINE f == [Top(a) EXCEPT !.at = "close"]
<1>1. Busy(a) /\ Top(a).at \in {"end", "close"}
    BY DEF EndGuards, EndClose, At
<1>2. Top(a) \in [at : {"start", "end", "close"}]
    BY <1>1, TopTyped DEF Inv, Frames
<1>3. f \in Frames /\ f.at = "close"
    BY <1>2 DEF Frames
<1>4. PICK fs \in {<<>>, <<f>>} : Continue(a, fs)
    BY DEF EndGuards, EndClose, Go, Return
<1> HIDE DEF f
<1>5. stack' = [stack EXCEPT ![a] = fs]
    BY <1>1, <1>3, <1>4, FewFrames, OnlyFrame DEF Inv, Served
<1>6. \A s \in {"prepare", "create", "delete"} : ~At(a, s)
    BY <1>1 DEF At
<1>7. /\ UNCHANGED <<resource, review, inbox, handling, processed, missed>>
      /\ phase' = phase \/ phase' = "closed"
    BY DEF EndGuards, EndClose, database, messages, history
<1>8. \/ fs = <<>>
      \/ \E g \in Frames : fs = <<g>> /\ g.at \notin {"prepare", "create", "delete"}
    BY <1>3, <1>4
<1> QED BY <1>5, <1>6, <1>7, <1>8, AsideStep

\* The phase opens; nobody has prepared it.
LEMMA OpenServed ==
    ASSUME Inv, Served, NEW a \in Actors, Open(a) PROVE Served'
<1>1. Busy(a) /\ Top(a).at = "open"
    BY DEF Open, At
<1>2. \A s \in {"prepare", "create", "delete"} : ~At(a, s)
    BY <1>1 DEF At
<1>3. UNCHANGED <<resource, review, inbox, handling, processed, missed>>
    BY DEF Open, messages, history
<1>4. CASE phase # "waiting"
  <2>1. Continue(a, <<>>) /\ phase' = phase
      BY <1>4 DEF Open, Return
  <2>2. stack' = [stack EXCEPT ![a] = <<>>]
      BY <1>1, <2>1, FewFrames, OnlyFrame DEF Inv, Served
  <2> QED BY <1>2, <1>3, <2>1, <2>2, AsideStep
<1>5. CASE phase = "waiting"
  <2> DEFINE f == PrepareFrame("opening")
  <2>1. f \in Frames /\ f.at = "prepare" /\ f.by = "opening"
      BY DEF PrepareFrame, Frames
  <2>2. phase' = "open" /\ Continue(a, <<f>>)
      BY <1>5 DEF Open
  <2> HIDE DEF f
  <2>3. stack' = [stack EXCEPT ![a] = <<f>>]
      BY <1>1, <2>1, <2>2, FewFrames, OnlyFrame DEF Inv, Served
  <2>4. /\ \A q \in Actors : q # a => stack'[q] = stack[q]
        /\ Top(a)' = f /\ \A s : At(a, s)' <=> f.at = s
      BY <2>3, NowAt DEF Inv
  <2>5. Shallow'
      BY <2>1, <2>3, ShallowKept DEF Inv, Served
  <2>6. Honest'
      BY <1>3, <2>1, <2>4 DEF Served, Honest, At, Busy, Top, Event
  <2>7. Known'
      BY <1>3, <2>1, <2>4 DEF Served, Known, At, Busy, Top
  <2>8. Fresh'
      BY <2>2 DEF Fresh
  <2>9. ReviewersWatched'
    <3>1. ~processed' /\ \A q \in Actors : At(q, "create")' => Top(q)'.by # "replay"
        BY <1>3, <1>5, <2>1, <2>4 DEF Served, Fresh, At, Busy, Top
    <3> QED BY <3>1 DEF ReviewersWatched, Watched
  <2> QED BY <2>5, <2>6, <2>7, <2>8, <2>9 DEF Served
<1> QED BY <1>4, <1>5

\* All who are assigned now are read.
LEMMA PrepareReadServed ==
    ASSUME Inv, Served, NEW a \in Actors, PrepareRead(a) PROVE Served'
<1> DEFINE f == [at |-> "create", left |-> Assigned, by |-> Top(a).by]
<1>1. Busy(a) /\ Top(a).at = "prepare" /\ Continue(a, <<f>>)
    BY DEF PrepareRead, At
<1>2. f \in Frames
    BY <1>1, TopTyped DEF Inv, Frames, Assigned
<1>3. f.at = "create" /\ f.left = Assigned /\ f.by = Top(a).by
    OBVIOUS
<1> HIDE DEF f
<1>4. stack' = [stack EXCEPT ![a] = <<f>>]
    BY <1>1, <1>2, FewFrames, OnlyFrame DEF Inv, Served
<1>5. /\ \A q \in Actors : q # a => stack'[q] = stack[q]
      /\ Top(a)' = f /\ \A s : At(a, s)' <=> f.at = s
    BY <1>4, NowAt DEF Inv
<1>6. UNCHANGED <<phase, resource, review, inbox, handling, processed, missed>>
    BY DEF PrepareRead, database, messages, history
<1>7. Shallow'
    BY <1>2, <1>4, ShallowKept DEF Inv, Served
<1>8. Honest'
    BY <1>3, <1>5, <1>6 DEF Served, Honest, At, Busy, Top, Event
<1>9. Known'
    BY <1>3, <1>5, <1>6 DEF Served, Known, At, Busy, Top, Assigned
<1>10. Fresh'
    BY <1>1, <1>3, <1>5, <1>6 DEF Served, Fresh, At, Busy, Top
<1>11. ReviewersWatched'
  <2> SUFFICES ASSUME phase = "open", NEW r \in Assigned \ missed, review[r] = "none"
               PROVE  Watched(r)'
      BY <1>6 DEF ReviewersWatched, Assigned
  <2>1. \/ Event("created", r) \in inbox
        \/ Serving(r)
        \/ /\ ~processed
           /\ \A q \in Actors : At(q, "create") /\ Top(q).by = "replay" => r \in Top(q).left
      BY DEF Served, ReviewersWatched, Watched
  <2>2. CASE Event("created", r) \in inbox
      BY <1>6, <2>2 DEF Watched, Event
  <2>3. CASE a = "consumer" /\ Serving(r)
      BY <1>1, <1>3, <1>5, <1>6, <2>3 DEF Watched, Serving, Event
  <2>4. CASE a # "consumer" /\ Serving(r)
    <3>1. stack'["consumer"] = stack["consumer"]
        BY <1>5, <2>4 DEF Actors
    <3> QED BY <1>6, <2>4, <3>1 DEF Watched, Serving, At, Busy, Top, Event
  <2>5. CASE /\ ~processed
             /\ \A q \in Actors : At(q, "create") /\ Top(q).by = "replay" => r \in Top(q).left
      BY <1>3, <1>5, <1>6, <2>5 DEF Watched, At, Busy, Top
  <2> QED BY <2>1, <2>2, <2>3, <2>4, <2>5
<1> QED BY <1>7, <1>8, <1>9, <1>10, <1>11 DEF Served

\* The reviewer leaves the list when he has his review.
LEMMA PrepareCreateServed ==
    ASSUME Inv, Served, NEW a \in Actors, PrepareCreate(a) PROVE Served'
<1>1. Busy(a) /\ Top(a).at = "create"
    BY DEF PrepareCreate, At
<1>2. Top(a) \in [at : {"create"}, left : SUBSET Reviewers,
                   by : {"opening", "replay", "event"}]
    BY <1>1, TopTyped DEF Inv, Frames
<1>3. UNCHANGED <<phase, resource, inbox, handling, missed>>
    BY DEF PrepareCreate, messages
<1>4. ASSUME NEW r \in Top(a).left,
             review' = IF review[r] = "none" THEN [review EXCEPT ![r] = "pending"] ELSE review,
             Continue(a, <<[Top(a) EXCEPT !.left = @ \ {r}]>>),
             UNCHANGED processed
      PROVE  Served'
  <2> DEFINE f == [Top(a) EXCEPT !.left = @ \ {r}]
  <2>1. /\ f \in Frames /\ f.at = "create" /\ f.left = Top(a).left \ {r}
        /\ f.by = Top(a).by
      BY <1>2 DEF Frames
  <2>2. Continue(a, <<f>>)
      BY <1>4
  <2> HIDE DEF f
  <2>3. stack' = [stack EXCEPT ![a] = <<f>>]
      BY <1>1, <2>1, <2>2, FewFrames, OnlyFrame DEF Inv, Served
  <2>4. /\ \A q \in Actors : q # a => stack'[q] = stack[q]
        /\ Top(a)' = f /\ \A s : At(a, s)' <=> f.at = s
      BY <2>3, NowAt DEF Inv
  <2>5. resource[r] # "absent" /\ r \in Reviewers
      BY <1>1, <1>2 DEF Served, Known, At
  <2>6. review'[r] # "none" /\ \A q \in Reviewers \ {r} : review'[q] = review[q]
      BY <1>4, <2>5 DEF Inv, Typed
  <2>7. Shallow'
      BY <2>1, <2>3, ShallowKept DEF Inv, Served
  <2>8. Honest'
      BY <1>3, <2>1, <2>4 DEF Served, Honest, At, Busy, Top, Event
  <2>9. Known'
    <3>1. \A q \in Reviewers : resource'[q] = "absent" => review'[q] = "none"
        BY <1>3, <2>5, <2>6 DEF Served, Known
    <3>2. \A q \in f.left : resource'[q] # "absent"
        BY <1>1, <1>3, <2>1 DEF Served, Known, At
    <3> QED BY <1>3, <2>4, <3>1, <3>2 DEF Served, Known, At, Busy, Top
  <2>10. Fresh'
      BY <1>1, <1>3, <1>4, <2>1, <2>4 DEF Served, Fresh, At, Busy, Top
  <2>11. ReviewersWatched'
    <3> SUFFICES ASSUME phase = "open", NEW q \in Assigned \ missed, review'[q] = "none"
                 PROVE  Watched(q)'
        BY <1>3 DEF ReviewersWatched, Assigned
    <3>1. q # r /\ review[q] = "none"
        BY <2>6 DEF Assigned
    <3>2. \/ Event("created", q) \in inbox
          \/ Serving(q)
          \/ /\ ~processed
             /\ \A p \in Actors :
                    At(p, "create") /\ Top(p).by = "replay" => q \in Top(p).left
        BY <3>1 DEF Served, ReviewersWatched, Watched
    <3>3. CASE Event("created", q) \in inbox
        BY <1>3, <3>3 DEF Watched, Event
    <3>4. CASE a # "consumer" /\ Serving(q)
        BY <1>3, <2>4, <3>4 DEF Watched, Serving, At, Busy, Top, Actors, Event
    <3>5. CASE a = "consumer" /\ Serving(q)
        BY <1>1, <1>3, <2>1, <2>4, <3>1, <3>5 DEF Watched, Serving, At, Event
    <3>6. CASE /\ ~processed
               /\ \A p \in Actors :
                      At(p, "create") /\ Top(p).by = "replay" => q \in Top(p).left
        BY <1>1, <1>4, <2>1, <2>4, <3>1, <3>6 DEF Watched, At, Busy, Top
    <3> QED BY <3>2, <3>3, <3>4, <3>5, <3>6
  <2> QED BY <2>7, <2>8, <2>9, <2>10, <2>11 DEF Served
<1>5. ASSUME Top(a).left = {}, processed' = (processed \/ (Top(a).by = "replay" /\ phase = "open")),
             Return(a), UNCHANGED review
      PROVE  Served'
  <2>1. stack' = [stack EXCEPT ![a] = <<>>]
      BY <1>1, <1>5, FewFrames, OnlyFrame DEF Inv, Served, Return
  <2>2. /\ \A q \in Actors : q # a => stack'[q] = stack[q]
        /\ \A s : ~At(a, s)'
      BY <2>1, NowAt DEF Inv
  <2>3. Shallow'
      BY <2>1, ShallowKept DEF Inv, Served
  <2>4. Honest'
      BY <1>3, <2>2 DEF Served, Honest, At, Busy, Top, Event
  <2>5. Known'
      BY <1>3, <1>5, <2>2 DEF Served, Known, At, Busy, Top
  <2>6. Fresh'
    <3>1. phase \in {"future", "waiting"} => processed' = processed
        BY <1>5 DEF Inv, Typed
    <3> QED BY <1>3, <2>2, <3>1 DEF Served, Fresh, At, Busy, Top
  <2>7. ReviewersWatched'
    <3> SUFFICES ASSUME phase = "open", NEW q \in Assigned \ missed, review[q] = "none"
                 PROVE  Watched(q)'
        BY <1>3, <1>5 DEF ReviewersWatched, Assigned
    <3>1. \/ Event("created", q) \in inbox
          \/ Serving(q)
          \/ /\ ~processed
             /\ \A p \in Actors :
                    At(p, "create") /\ Top(p).by = "replay" => q \in Top(p).left
        BY DEF Served, ReviewersWatched, Watched
    <3>2. CASE Event("created", q) \in inbox
        BY <1>3, <3>2 DEF Watched, Event
    <3>3. CASE Serving(q)
      <4>1. a # "consumer"
          BY <1>1, <1>5, <3>3 DEF Serving, At
      <4>2. stack'["consumer"] = stack["consumer"]
          BY <2>2, <4>1 DEF Actors
      <4> QED BY <1>3, <3>3, <4>2 DEF Watched, Serving, At, Busy, Top, Event
    <3>4. CASE /\ ~processed
               /\ \A p \in Actors :
                      At(p, "create") /\ Top(p).by = "replay" => q \in Top(p).left
      <4>1. Top(a).by # "replay"
          BY <1>1, <1>5, <3>4 DEF At
      <4>2. ~processed'
          BY <1>5, <3>4, <4>1
      <4> QED BY <2>2, <3>4, <4>2 DEF Watched, At, Busy, Top
    <3> QED BY <3>1, <3>2, <3>3, <3>4
  <2> QED BY <2>3, <2>4, <2>5, <2>6, <2>7 DEF Served
<1> QED BY <1>4, <1>5 DEF PrepareCreate

\* The reviewer leaves the list without a review: missed names him, unless nobody
\* counts on this handler.
LEMMA CreateFailsServed ==
    ASSUME Inv, Served, NEW a \in Actors, CreateFails(a) PROVE Served'
<1>1. Busy(a) /\ Top(a).at = "create"
    BY DEF CreateFails, At
<1>2. Top(a) \in [at : {"create"}, left : SUBSET Reviewers,
                   by : {"opening", "replay", "event"}]
    BY <1>1, TopTyped DEF Inv, Frames
<1>3. UNCHANGED <<phase, resource, review, inbox, handling, processed>>
    BY DEF CreateFails, database, messages
<1>4. PICK r \in Top(a).left :
          /\ LeftOut({q \in {r} : Top(a).by # "opening"})
          /\ Continue(a, <<[Top(a) EXCEPT !.left = @ \ {r}]>>)
    BY DEF CreateFails
<1> DEFINE f == [Top(a) EXCEPT !.left = @ \ {r}]
<1>5. /\ f \in Frames /\ f.at = "create" /\ f.left = Top(a).left \ {r}
      /\ f.by = Top(a).by
    BY <1>2 DEF Frames
<1>6. Continue(a, <<f>>)
    BY <1>4
<1> HIDE DEF f
<1>7. stack' = [stack EXCEPT ![a] = <<f>>]
    BY <1>1, <1>5, <1>6, FewFrames, OnlyFrame DEF Inv, Served
<1>8. /\ \A q \in Actors : q # a => stack'[q] = stack[q]
      /\ Top(a)' = f /\ \A s : At(a, s)' <=> f.at = s
    BY <1>7, NowAt DEF Inv
<1>9. Shallow'
    BY <1>5, <1>7, ShallowKept DEF Inv, Served
<1>10. Honest'
    BY <1>3, <1>5, <1>8 DEF Served, Honest, At, Busy, Top, Event
<1>11. Known'
  <2>1. \A q \in f.left : resource'[q] # "absent"
      BY <1>1, <1>3, <1>5 DEF Served, Known, At
  <2> QED BY <1>3, <1>8, <2>1 DEF Served, Known, At, Busy, Top
<1>12. Fresh'
    BY <1>1, <1>3, <1>5, <1>8 DEF Served, Fresh, At, Busy, Top
<1>13. ReviewersWatched'
  <2> SUFFICES ASSUME phase = "open", NEW q \in Assigned, review[q] = "none",
                      q \notin missed'
               PROVE  Watched(q)'
      BY <1>3 DEF ReviewersWatched, Assigned
  <2>1. q \notin missed /\ (q = r => Top(a).by = "opening")
      BY <1>4 DEF LeftOut, Assigned
  <2>2. \/ Event("created", q) \in inbox
        \/ Serving(q)
        \/ /\ ~processed
           /\ \A p \in Actors : At(p, "create") /\ Top(p).by = "replay" => q \in Top(p).left
      BY <2>1 DEF Served, ReviewersWatched, Watched
  <2>3. CASE Event("created", q) \in inbox
      BY <1>3, <2>3 DEF Watched, Event
  <2>4. CASE a # "consumer" /\ Serving(q)
      BY <1>3, <1>8, <2>4 DEF Watched, Serving, At, Busy, Top, Actors, Event
  <2>5. CASE a = "consumer" /\ Serving(q)
      BY <1>1, <1>3, <1>5, <1>8, <2>1, <2>5 DEF Watched, Serving, At, Event
  <2>6. CASE /\ ~processed
             /\ \A p \in Actors : At(p, "create") /\ Top(p).by = "replay" => q \in Top(p).left
      BY <1>1, <1>3, <1>5, <1>8, <2>1, <2>6 DEF Watched, At, Busy, Top
  <2> QED BY <2>2, <2>3, <2>4, <2>5, <2>6
<1> QED BY <1>9, <1>10, <1>11, <1>12, <1>13 DEF Served

\* A review is deleted, or not, of a reviewer who is gone.
LEMMA DeletionServed ==
    ASSUME Inv, Served, NEW a \in Actors, At(a, "delete"), Return(a),
           UNCHANGED <<phase, resource, inbox, handling, processed>>, missed \subseteq missed',
           \A q \in Reviewers : q # Top(a).reviewer => review'[q] = review[q]
    PROVE  Served'
<1> DEFINE d == Top(a).reviewer
<1>1. Busy(a) /\ Top(a).at = "delete"
    BY DEF At
<1>2. d \in Reviewers /\ resource[d] = "removed"
    BY <1>1, TopTyped DEF Inv, Frames, Served, Honest, At
<1>3. /\ UNCHANGED <<phase, resource, inbox, handling, processed>>
      /\ \A q \in Reviewers : resource[q] # "removed" => review'[q] = review[q]
    BY <1>2
<1>4. PICK fs : /\ fs \in {<<>>, <<RemovedFrame>>}
                /\ stack' = [stack EXCEPT ![a] = fs]
  <2>1. Tail(stack[a]) \in {<<>>, <<RemovedFrame>>}
      BY <1>1 DEF Served, Shallow
  <2>2. <<>> \o Tail(stack[a]) = Tail(stack[a])
      BY <1>1, TopTyped, ConcatEmptySeq DEF Inv
  <2> QED BY <2>1, <2>2 DEF Return, Continue
<1>5. RemovedFrame \in Frames /\ RemovedFrame.at = "ensure"
    BY DEF RemovedFrame, Frames, Thens, Callbacks
<1>6. /\ \A q \in Actors : q # a => stack'[q] = stack[q]
      /\ \A s \in {"prepare", "create", "delete"} : ~At(a, s)'
    BY <1>4, <1>5, NowAt DEF Inv
<1>7. Shallow'
    BY <1>4, <1>5, ShallowKept DEF Inv, Served
<1>8. Honest'
    BY <1>3, <1>6 DEF Served, Honest, At, Busy, Top, Event
<1>9. Known'
    BY <1>3, <1>6 DEF Served, Known, At, Busy, Top
<1>10. Fresh'
    BY <1>3, <1>6 DEF Served, Fresh, At, Busy, Top
<1>11. ReviewersWatched'
  <2> SUFFICES ASSUME phase = "open", NEW r \in Assigned \ missed, review'[r] = "none"
               PROVE  Watched(r)'
      BY <1>3 DEF ReviewersWatched, Assigned
  <2>1. review[r] = "none"
      BY <1>3 DEF Assigned
  <2>2. Watched(r)
      BY <2>1 DEF Served, ReviewersWatched
  <2>3. \A q \in Actors : \A s \in {"prepare", "create"} :
            /\ At(q, s)' <=> At(q, s)
            /\ At(q, s) => Top(q)' = Top(q)
      BY <1>1, <1>6 DEF At, Busy, Top
  <2>4. "consumer" \in Actors
      BY DEF Actors
  <2> QED BY <1>3, <2>2, <2>3, <2>4 DEF Watched, Serving, Event
<1> QED BY <1>7, <1>8, <1>9, <1>10, <1>11 DEF Served

LEMMA DeletePendingServed ==
    ASSUME Inv, Served, NEW a \in Actors, DeletePending(a) PROVE Served'
<1>1. Top(a).reviewer \in Reviewers
    BY TopTyped DEF DeletePending, At, Inv, Frames
<1>2. \A q \in Reviewers : q # Top(a).reviewer => review'[q] = review[q]
    BY <1>1 DEF DeletePending, Inv, Typed
<1> QED BY <1>2, DeletionServed DEF DeletePending, messages, history

\* A handler that gives up: the one of an assignment leaves its reviewer to missed.
LEMMA CallFailsServed ==
    ASSUME Inv, Served, NEW a \in Actors, CallFails(a) PROVE Served'
<1>1. /\ Busy(a) /\ Top(a).at # "create" /\ Return(a)
      /\ UNCHANGED <<phase, resource, review, inbox, handling, processed>>
    BY DEF CallFails, database, messages
<1>2. missed \subseteq missed'
    BY DEF CallFails, LeftOut
<1>3. CASE At(a, "delete")
    BY <1>1, <1>2, <1>3, DeletionServed
<1>4. CASE ~At(a, "delete")
  <2>1. stack' = [stack EXCEPT ![a] = <<>>]
      BY <1>1, <1>4, FewFrames, OnlyFrame DEF Inv, Served, Return, At
  <2>2. /\ \A q \in Actors : q # a => stack'[q] = stack[q]
        /\ \A s : ~At(a, s)'
      BY <2>1, NowAt DEF Inv
  <2>3. Shallow'
      BY <2>1, ShallowKept DEF Inv, Served
  <2>4. Honest'
      BY <1>1, <2>2 DEF Served, Honest, At, Busy, Top, Event
  <2>5. Known'
      BY <1>1, <2>2 DEF Served, Known, At, Busy, Top
  <2>6. Fresh'
      BY <1>1, <2>2 DEF Served, Fresh, At, Busy, Top
  <2>7. ReviewersWatched'
    <3> SUFFICES ASSUME phase = "open", NEW q \in Assigned, review[q] = "none",
                        q \notin missed'
                 PROVE  Watched(q)'
        BY <1>1 DEF ReviewersWatched, Assigned
    <3>1. Watched(q)
        BY <1>2 DEF Served, ReviewersWatched
    <3>2. CASE a = "consumer" /\ Serving(q)
      <4>1. At(a, "prepare") /\ Top(a).by = "event" /\ Event("created", q) \in handling
          BY <1>1, <3>2 DEF Serving, At
      <4> QED BY <4>1 DEF CallFails, LeftOut, Assigned
    <3>3. CASE a # "consumer" /\ Serving(q)
      <4>1. stack'["consumer"] = stack["consumer"]
          BY <2>2, <3>3 DEF Actors
      <4> QED BY <1>1, <3>3, <4>1 DEF Watched, Serving, At, Busy, Top, Event
    <3>4. CASE ~Serving(q)
        BY <1>1, <2>2, <3>1, <3>4 DEF Watched, At, Busy, Top, Event
    <3> QED BY <3>2, <3>3, <3>4
  <2> QED BY <2>3, <2>4, <2>5, <2>6, <2>7 DEF Served
<1> QED BY <1>3, <1>4

\* Whoever is assigned has his message in the topic.
LEMMA PeopleServed ==
    ASSUME Inv, Served, NEW r \in Reviewers,
           Assign(r) \/ Remove(r) \/ StartReview(r) \/ CompleteReview(r)
    PROVE  Served'
<1>1. UNCHANGED <<phase, handling, stack, processed, missed>>
    BY DEF Assign, Remove, StartReview, CompleteReview, Change, messages, history
<1>2. /\ \A q \in Reviewers : resource[q] = "removed" => resource'[q] = "removed"
      /\ \A q \in Reviewers : resource'[q] = "absent" => resource[q] = "absent"
      /\ \A q \in Reviewers : resource'[q] = "assigned" /\ resource[q] # "assigned"
             => Event("created", q) \in inbox'
    BY DEF Assign, Remove, StartReview, CompleteReview, Inv, Typed
<1>3. /\ inbox \subseteq inbox'
      /\ \A q \in Reviewers : Event("deleted", q) \in inbox' =>
             Event("deleted", q) \in inbox \/ resource'[q] = "removed"
    BY DEF Assign, Remove, StartReview, CompleteReview, messages, Event, Inv, Typed
<1>4. \A q \in Reviewers :
          \/ review'[q] = review[q]
          \/ review[q] # "none" /\ review'[q] # "none" /\ resource' = resource
    BY DEF StartReview, CompleteReview, Unfinished, Assign, Remove, Inv, Typed
<1>5. Shallow' /\ Fresh'
    BY <1>1 DEF Served, Shallow, Fresh, At, Busy, Top, RemovedFrame
<1>6. Honest'
  <2>1. \A q \in Reviewers : Event("deleted", q) \in inbox' \cup handling'
            => resource'[q] = "removed"
      BY <1>1, <1>2, <1>3 DEF Served, Honest
  <2>2. ASSUME NEW a \in Actors, At(a, "delete")
        PROVE  resource'[Top(a).reviewer] = "removed"
    <3>1. Top(a).reviewer \in Reviewers
        BY <2>2, TopTyped DEF Inv, Frames, At
    <3> QED BY <1>2, <2>2, <3>1 DEF Served, Honest
  <2> QED BY <1>1, <2>1, <2>2 DEF Honest, At, Busy, Top, Event
<1>7. Known'
  <2>1. \A q \in Reviewers : resource'[q] = "absent" => review'[q] = "none"
      BY <1>2, <1>4 DEF Served, Known
  <2>2. ASSUME NEW a \in Actors, At(a, "create"), NEW q \in Top(a).left
        PROVE  resource'[q] # "absent"
    <3>1. q \in Reviewers
        BY <2>2, TopTyped DEF Inv, Frames, At
    <3> QED BY <1>2, <2>2, <3>1 DEF Served, Known
  <2> QED BY <1>1, <2>1, <2>2 DEF Known, At, Busy, Top
<1>8. ReviewersWatched'
  <2> SUFFICES ASSUME phase = "open", NEW q \in Reviewers, resource'[q] = "assigned",
                      review'[q] = "none", q \notin missed
               PROVE  Watched(q)'
      BY <1>1 DEF ReviewersWatched, Assigned
  <2>1. CASE resource[q] # "assigned"
      BY <1>2, <2>1 DEF Watched, Event
  <2>2. CASE resource[q] = "assigned"
    <3>1. Watched(q)
        BY <1>4, <2>2 DEF Served, ReviewersWatched, Assigned
    <3> QED BY <1>1, <1>3, <3>1 DEF Watched, Serving, Event, At, Busy, Top
  <2> QED BY <2>1, <2>2
<1> QED BY <1>5, <1>6, <1>7, <1>8 DEF Served

\* A handler in the background, or the poller, begins.
LEMMA BeginsServed ==
    ASSUME Inv, Served, Poll \/ PredecessorEnds \/ ScheduleStart \/ Fire
    PROVE  Served'
<1> DEFINE Work == {PollFrame(CallbackFrames(poller)), StartFrame, [at |-> "end"],
                    EnsureFrame("chain", <<OpenFrame(TRUE)>>)}
<1>1. PICK a \in {"poller", "background"}, f \in Work :
          /\ f = PollFrame(CallbackFrames(poller)) => poller # "none"
          /\ Start(a, <<f>>)
    BY DEF Poll, PredecessorEnds, ScheduleStart, Fire, PollFrame, EnsureFrame, StartFrame
<1>2. /\ UNCHANGED <<resource, review, inbox, handling, processed, missed>>
      /\ phase' = phase \/ (phase = "future" /\ phase' = "waiting")
    BY DEF Poll, PredecessorEnds, ScheduleStart, Fire, database, messages, history
<1>3. f \in Frames /\ f.at \notin {"prepare", "create", "delete"}
  <2>1. CASE f = PollFrame(CallbackFrames(poller))
    <3>1. CallbackFrames(poller) \in Thens
        BY <1>1, <2>1 DEF CallbackFrames, Thens, Inv, Typed, Callbacks
    <3> QED BY <2>1, <3>1 DEF PollFrame, Frames, Callbacks
  <2>2. CASE f = EnsureFrame("chain", <<OpenFrame(TRUE)>>)
      BY <2>2 DEF EnsureFrame, Frames, Thens, Callbacks
  <2>3. CASE f = StartFrame \/ f = [at |-> "end"]
      BY <2>3 DEF StartFrame, Frames
  <2> QED BY <1>1, <2>1, <2>2, <2>3
<1>4. a \in Actors /\ ~Busy(a) /\ stack' = [stack EXCEPT ![a] = <<f>>]
    BY <1>1 DEF Start, Actors
<1>5. \A s \in {"prepare", "create", "delete"} : ~At(a, s)
    BY <1>4 DEF At
<1> QED BY <1>2, <1>3, <1>4, <1>5, AsideStep

\* A replay leaves nobody out that it has not read.
LEMMA ReplayServed == ASSUME Inv, Served, Replay PROVE Served'
<1> DEFINE f == PrepareFrame("replay")
<1>1. f \in Frames /\ f.at = "prepare"
    BY DEF PrepareFrame, Frames
<1>2. /\ phase = "open" /\ ~Busy("background")
      /\ stack' = [stack EXCEPT !["background"] = <<f>>]
      /\ UNCHANGED <<phase, resource, review, inbox, handling, processed, missed>>
    BY DEF Replay, Start, database, messages, history
<1> HIDE DEF f
<1>3. /\ "background" \in Actors /\ "consumer" \in Actors
      /\ \A q \in Actors : q # "background" => stack'[q] = stack[q]
      /\ \A s : At("background", s)' <=> f.at = s
    BY <1>2, NowAt DEF Inv, Actors
<1>4. Shallow'
    BY <1>1, <1>2, <1>3, ShallowKept DEF Inv, Served
<1>5. Honest'
    BY <1>1, <1>2, <1>3 DEF Served, Honest, At, Busy, Top, Event
<1>6. Known'
    BY <1>1, <1>2, <1>3 DEF Served, Known, At, Busy, Top
<1>7. Fresh'
    BY <1>2 DEF Fresh
<1>8. ReviewersWatched'
  <2> SUFFICES ASSUME NEW r \in Assigned \ missed, review[r] = "none"
               PROVE  Watched(r)'
      BY <1>2 DEF ReviewersWatched, Assigned
  <2>1. Watched(r)
      BY <1>2 DEF Served, ReviewersWatched
  <2>2. stack'["consumer"] = stack["consumer"]
      BY <1>3
  <2> QED BY <1>1, <1>2, <1>3, <2>1, <2>2 DEF Watched, Serving, At, Busy, Top, Event
<1> QED BY <1>4, <1>5, <1>6, <1>7, <1>8 DEF Served

\* The message of an assignment is consumed: the open phase is prepared; one that
\* is not open has nobody to serve yet.
LEMMA ConsumeServed == ASSUME Inv, Served, Consume PROVE Served'
<1>1. PICK m \in inbox : ConsumeCreated(m) \/ ConsumeDeleted(m)
    BY DEF Consume
<1>2. m \in Events
    BY <1>1 DEF Inv, Topics
<1>3. PICK fs : Take(m, fs)
                /\ \/ fs = <<>> /\ m.kind = "created" /\ phase # "open"
                   \/ fs = <<EnsureFrame("start", <<StartFrame>>)>> /\ m.kind = "created"
                      /\ phase # "open"
                   \/ fs = <<PrepareFrame("event")>> /\ phase = "open"
                   \/ fs = <<DeleteFrame(m.reviewer), RemovedFrame>> /\ m.kind = "deleted"
                /\ UNCHANGED missed
    BY <1>1 DEF history, ConsumeCreated, ConsumeDeleted, Inv, Typed
<1>4. /\ ~Busy("consumer") /\ stack' = [stack EXCEPT !["consumer"] = fs]
      /\ inbox' = inbox \ {m} /\ handling' = {m}
      /\ UNCHANGED <<phase, resource, review, processed, missed>>
    BY <1>3 DEF Take, Start, database
<1>5. /\ "consumer" \in Actors
      /\ stack'["consumer"] = fs /\ \A q \in Actors : q # "consumer" => stack'[q] = stack[q]
    BY <1>4 DEF Actors, Inv, Stacks
<1>6. \A s : ~At("consumer", s)
    BY <1>4 DEF At
<1>7. /\ \A s \in {"create"} : ~At("consumer", s)'
      /\ At("consumer", "prepare")' => phase = "open" /\ Top("consumer")'.by = "event"
      /\ At("consumer", "delete")' => m.kind = "deleted" /\ Top("consumer")'.reviewer = m.reviewer
      /\ stack'["consumer"] # <<>> => \/ Tail(stack'["consumer"]) = <<>>
                                      \/ /\ At("consumer", "delete")'
                                         /\ Tail(stack'["consumer"]) = <<RemovedFrame>>
  <2> DEFINE e == EnsureFrame("start", <<StartFrame>>)
             p == PrepareFrame("event")
             d == DeleteFrame(m.reviewer)
  <2>1. /\ e.at = "ensure" /\ p.at = "prepare" /\ p.by = "event"
        /\ d.at = "delete" /\ d.reviewer = m.reviewer
      BY DEF EnsureFrame, PrepareFrame, DeleteFrame
  <2>2. fs = <<>> \/ fs = <<e>> \/ (fs = <<p>> /\ phase = "open")
        \/ (fs = <<d, RemovedFrame>> /\ m.kind = "deleted")
      BY <1>3
  <2> HIDE DEF e, p, d
  <2>3. CASE fs = <<>>
      BY <1>5, <2>3 DEF At, Busy
  <2>4. CASE fs = <<e>>
    <3>1. Head(stack'["consumer"]) = e /\ Tail(stack'["consumer"]) = <<>>
        BY <1>5, <2>4
    <3> QED BY <2>1, <3>1 DEF At, Top
  <2>5. CASE fs = <<p>> /\ phase = "open"
    <3>1. Head(stack'["consumer"]) = p /\ Tail(stack'["consumer"]) = <<>>
        BY <1>5, <2>5
    <3> QED BY <2>1, <2>5, <3>1 DEF At, Top
  <2>6. CASE fs = <<d, RemovedFrame>> /\ m.kind = "deleted"
    <3>1. Head(fs) = d /\ Tail(fs) = <<RemovedFrame>> /\ fs # <<>>
        BY <2>6
    <3> QED BY <1>5, <2>1, <2>6, <3>1 DEF At, Top, Busy
  <2> QED BY <2>2, <2>3, <2>4, <2>5, <2>6
<1>8. Shallow'
    BY <1>5, <1>7 DEF Served, Shallow, At, Busy, Top, RemovedFrame
<1>9. m.kind = "deleted" => m.reviewer \in Reviewers /\ m = Event("deleted", m.reviewer)
    BY <1>2 DEF Events, Event
<1>10. Honest'
  <2>1. m.kind = "deleted" => resource[m.reviewer] = "removed"
      BY <1>1, <1>9 DEF Served, Honest
  <2>2. \A q \in Reviewers : Event("deleted", q) \in inbox' \cup handling'
            => resource[q] = "removed"
      BY <1>1, <1>4 DEF Served, Honest
  <2>3. ASSUME NEW a \in Actors, At(a, "delete")'
        PROVE  resource[Top(a)'.reviewer] = "removed"
    <3>1. CASE a = "consumer"
        BY <1>7, <2>1, <2>3, <3>1
    <3>2. CASE a # "consumer"
        BY <1>5, <2>3, <3>2 DEF Served, Honest, At, Busy, Top
    <3> QED BY <3>1, <3>2
  <2> QED BY <1>4, <2>2, <2>3 DEF Honest, Event
<1>11. Known'
  <2>1. ASSUME NEW a \in Actors, At(a, "create")', NEW q \in Top(a)'.left
        PROVE  resource[q] # "absent"
    <3>1. a # "consumer"
        BY <1>7, <2>1
    <3> QED BY <1>5, <2>1, <3>1 DEF Served, Known, At, Busy, Top
  <2> QED BY <1>4, <2>1 DEF Served, Known
<1>12. Fresh'
  <2>1. ASSUME NEW a \in Actors, phase \in {"future", "waiting"},
               At(a, "prepare")' \/ At(a, "create")'
        PROVE  Top(a)'.by # "replay"
    <3>1. CASE a = "consumer"
        BY <1>7, <2>1, <3>1
    <3>2. CASE a # "consumer"
        BY <1>5, <2>1, <3>2 DEF Served, Fresh, At, Busy, Top
    <3> QED BY <3>1, <3>2
  <2> QED BY <1>4, <2>1 DEF Served, Fresh
<1>13. ReviewersWatched'
  <2> SUFFICES ASSUME phase = "open", NEW r \in Assigned \ missed, review[r] = "none"
               PROVE  Watched(r)'
      BY <1>4 DEF ReviewersWatched, Assigned
  <2>1. \/ Event("created", r) \in inbox
        \/ /\ ~processed
           /\ \A q \in Actors : At(q, "create") /\ Top(q).by = "replay" => r \in Top(q).left
      BY <1>6 DEF Served, ReviewersWatched, Watched, Serving
  <2>2. CASE /\ ~processed
             /\ \A q \in Actors : At(q, "create") /\ Top(q).by = "replay" => r \in Top(q).left
      BY <1>4, <1>5, <1>7, <2>2 DEF Watched, At, Busy, Top
  <2>3. CASE Event("created", r) \in inbox /\ m # Event("created", r)
      BY <1>4, <2>3 DEF Watched, Event
  <2>4. CASE m = Event("created", r)
    <3>1. fs = <<PrepareFrame("event")>>
        BY <1>3, <2>4 DEF Event
    <3>2. Head(fs) = PrepareFrame("event") /\ fs # <<>>
        BY <3>1
    <3>3. At("consumer", "prepare")'
        BY <1>5, <3>2 DEF At, Busy, Top, PrepareFrame
    <3>4. Top("consumer")'.by = "event" /\ Event("created", r)' \in handling'
        BY <1>4, <1>7, <2>4, <3>3 DEF Event
    <3> QED BY <3>3, <3>4 DEF Watched, Serving
  <2> QED BY <2>1, <2>2, <2>3, <2>4
<1> QED BY <1>8, <1>10, <1>11, <1>12, <1>13 DEF Served

\* The message of an assignment is lost: missed names the reviewer, if he needs
\* the review now.
LEMMA ConsumeFailsServed ==
    ASSUME Inv, Served, NEW m \in inbox, ConsumeFails(m) PROVE Served'
<1>1. /\ ~Busy("consumer") /\ stack' = [stack EXCEPT !["consumer"] = <<>>]
      /\ inbox' = inbox \ {m} /\ handling' = {m}
      /\ UNCHANGED <<phase, resource, review, processed>>
    BY DEF ConsumeFails, Take, Start, database
<1>2. "consumer" \in Actors /\ stack' = stack
    BY <1>1 DEF Actors, Busy, Inv, Stacks
<1>3. missed \subseteq missed'
    BY DEF ConsumeFails, LeftOut
<1>4. Shallow' /\ Known' /\ Fresh'
    BY <1>1, <1>2 DEF Served, Shallow, Known, Fresh, At, Busy, Top, RemovedFrame
<1>5. Honest'
    BY <1>1, <1>2 DEF Served, Honest, At, Busy, Top, Event
<1>6. ReviewersWatched'
  <2> SUFFICES ASSUME phase = "open", NEW r \in Assigned, review[r] = "none",
                      r \notin missed'
               PROVE  Watched(r)'
      BY <1>1 DEF ReviewersWatched, Assigned
  <2>1. Watched(r) /\ ~Serving(r)
      BY <1>1, <1>3 DEF Served, ReviewersWatched, Serving, At
  <2>2. m # Event("created", r)
      BY DEF ConsumeFails, LeftOut, Assigned
  <2> QED BY <1>1, <1>2, <2>1, <2>2 DEF Watched, At, Busy, Top, Event
<1> QED BY <1>4, <1>5, <1>6 DEF Served

\* After a crash the phase is replayed.
LEMMA CrashServed == ASSUME Inv, Served, Crash PROVE Served'
<1>1. /\ \A a \in Actors : ~Busy(a)'
      /\ UNCHANGED <<phase, resource, review, missed>> /\ ~processed' /\ handling' = {}
      /\ inbox' \subseteq inbox \cup handling
    BY DEF Crash, Busy, database
<1>2. \A a \in Actors : \A s : ~At(a, s)'
    BY <1>1 DEF At
<1> QED BY <1>1, <1>2 DEF Served, Shallow, Honest, Known, Fresh, ReviewersWatched, Watched,
           Event

LEMMA ServedStep == Inv /\ Served /\ [Next]_vars => Served'
<1> SUFFICES ASSUME Inv, Served, [Next]_vars PROVE Served'
    OBVIOUS
<1>1. CASE UNCHANGED vars
    BY <1>1 DEF vars, Served, Shallow, Honest, Known, Fresh, ReviewersWatched, Watched,
       Serving, Assigned, At, Busy, Top, Event, RemovedFrame
<1>2. CASE \E r \in Reviewers : Assign(r) \/ Remove(r) \/ StartReview(r) \/ CompleteReview(r)
    BY <1>2, PeopleServed
<1>3. CASE \E a \in Actors : Handle(a)
    BY <1>3, EnsureReadServed, StartReadServed, OpenServed, PrepareReadServed,
       PrepareCreateServed, DeletePendingServed, EndServed DEF Handle
<1>4. CASE \E a \in Actors : CreateFails(a) \/ CallFails(a)
    BY <1>4, CreateFailsServed, CallFailsServed
<1> QED BY <1>1, <1>2, <1>3, <1>4, ConsumeServed, ConsumeFailsServed, CrashServed, BeginsServed, ReplayServed DEF Next

LEMMA ServedAlways == Spec => [](Inv /\ Served)
<1> QED BY InitInv, InvStep, InitServed, ServedStep, PTL DEF Spec

\* A reviewer assigned to the open phase is never forgotten, whatever snapshot
\* the handler of his assignment had and whoever crashed: until he has a review,
\* his message is unread or being handled, or the cron has a replay to do that
\* serves him, unless a call of one of these has failed.  It is what
\* EveryReviewerServed rests on.
THEOREM ReviewerNeverForgotten == Spec => []ReviewersWatched
<1> QED BY ServedAlways, PTL DEF Served

\* Nothing is left to do, and nobody assigned has a review to complete.
Rest ==
    /\ inbox = {} /\ processed /\ \A a \in Actors : ~Busy(a)
    /\ \A r \in Assigned : review[r] \notin Unfinished

\* The guards of the END, see EndGuards
Passes ==
    /\ Staffed
    /\ \E r \in Reviewers : review[r] = "completed"
    /\ \A r \in Reviewers : review[r] \notin Unfinished

\* When nothing is left to do, the open phase with enough reviewers passes the
\* guards of its END, but for the reviews and reviewers haunted and missed name:
\* no other review of a removed reviewer and no other reviewer without a review
\* keeps it open.  It is what ClosesUnlessHeld rests on.
THEOREM NothingElseHoldsThePhase ==
    Spec => [](/\ phase = "open" /\ Staffed /\ Rest
               /\ \A r \in Reviewers : ~Orphan(r) /\ ~Idle(r)
               => Passes)
<1> DEFINE Free == \A r \in Reviewers : ~Orphan(r) /\ ~Idle(r)
<1>1. Inv /\ Served => (phase = "open" /\ Staffed /\ Rest /\ Free => Passes)
  <2> SUFFICES ASSUME Inv, Served, phase = "open", Staffed, Rest, Free
               PROVE  Passes
      OBVIOUS
  <2>1. \A r \in Assigned : review[r] = "completed"
    <3>1. "consumer" \in Actors
        BY DEF Actors
    <3>2. \A r \in Assigned : ~Watched(r)
        BY <3>1 DEF Watched, Serving, At, Rest
    <3>3. \A r \in Assigned : review[r] # "none"
        BY <3>2 DEF Served, ReviewersWatched, Idle, Assigned
    <3> QED BY <3>3 DEF Inv, Typed, Assigned, Rest, Unfinished
  <2>2. Assigned # {}
    <3>1. Cardinality({}) = 0 /\ Required > 0
        BY FS_EmptySet, AssignmentAssumption DEF AssignmentAssumption
    <3>2. Assigned = {} => Cardinality(Assigned) = 0
        BY <3>1
    <3>3. Cardinality(Assigned) >= Required
        BY DEF Staffed
    <3> QED BY <3>1, <3>2, <3>3, AssignmentAssumption DEF AssignmentAssumption
  <2>3. ASSUME NEW r \in Reviewers, review[r] \in Unfinished PROVE FALSE
    <3>1. CASE resource[r] = "assigned"
        BY <2>3, <3>1 DEF Assigned, Rest
    <3>2. CASE resource[r] = "absent"
        BY <2>3, <3>2 DEF Served, Known, Unfinished
    <3>3. CASE resource[r] = "removed"
      <4>1. Left(r)
          BY <2>3, <3>3 DEF Orphan, Left
      <4>2. Owed(r)
          BY <4>1 DEF Inv, RemovalsOwed
      <4>3. "consumer" \in Actors
          BY DEF Actors
      <4> QED BY <4>2, <4>3 DEF Owed, At, Rest
    <3> QED BY <3>1, <3>2, <3>3 DEF Inv, Typed
  <2> QED BY <2>1, <2>2, <2>3 DEF Assigned, Passes
<1> QED BY <1>1, ServedAlways, PTL
=============================================================================
