------------------------ MODULE IterativeReview_proofs ------------------------
(***************************************************************************)
(* Proofs about IterativeReview, for any number of submissions, phases and *)
(* background handlers: a winner has passed, and an outcome is final.      *)
(***************************************************************************)
EXTENDS IterativeReview, SequenceTheorems, WellFoundedInduction, TLAPS

Maybe == Subs \cup {None}
Stages == {"waiting", "open", "ended"}

\* Frames that decide nothing themselves
Calm ==
    [at : {"end", "close"}, phase : Ids, refresh : BOOLEAN]
    \cup [at : {"closed", "finalize"}]
    \cup [at : {"next"}, last : Maybe]
    \cup [at : {"completed"}, phase : Ids, sub : Subs]
    \cup [at : {"submission"}, sub : Maybe]
    \cup [at : {"check"}, phase : Ids, base : Ids, seed : BOOLEAN, sub : Maybe,
          earlier : BOOLEAN]
    \cup [at : {"open"}, base : Ids, seed : BOOLEAN, sub : Maybe]
    \cup [at : {"assign", "create"}, phase : Ids, sub : Maybe, retain : BOOLEAN]

\* The frames of the background: their assignments leave a phase open, so that
\* none of them ever ends a phase or the challenge.
BackFrames ==
    [at : {"assign", "create"}, phase : Ids, sub : Maybe, retain : {TRUE}]
    \cup [at : {"opened", "processed"}, phase : Ids]

\* Frames that are about to complete the challenge for a submission that passed
Winning == [at : {"finish", "win"}, sub : {s \in Passing : status # "FAILED_REVIEW"}]

Frames == Calm \cup Winning
FramesOf(a) == IF a = "consumer" THEN Frames ELSE BackFrames

\* A finalization that has read the challenge: it is still ACTIVE, and without
\* a winner no caller of the finalization is about to name one.
Deciding ==
    /\ At("consumer", "outcome") /\ status = "ACTIVE"
    /\ Top("consumer") \in [at : {"outcome"}, sub : Passing \cup {None}]
    /\ Tail(stack["consumer"]) \in Seq(Frames)
    /\ Top("consumer").sub = None => Tail(stack["consumer"]) \in Seq(Calm)

Stacks ==
    /\ stack = [a \in Actors |-> stack[a]]
    /\ \A a \in Actors : stack[a] \in Seq(FramesOf(a)) \/ (a = "consumer" /\ Deciding)

Messages ==
    [kind : {"submission"}, sub : Subs]
    \cup [kind : {"completed"}, phase : Ids, sub : Subs]
    \cup [kind : {"reviewer"}]

Inv ==
    /\ TypeOK /\ phases \in Seq(Stages) /\ inbox \subseteq Messages
    /\ WinnerPassed /\ Stacks

-----------------------------------------------------------------------------
(* Submissions and phases *)

LEMMA LeastFacts ==
    ASSUME NEW S, S \subseteq Nat, S # {}
    PROVE  LeastOf(S) \in S
<1> DEFINE Less == OpToRel(<, Nat)
<1>1. PICK x \in S : \A y \in S : <<y, x>> \notin Less
    BY NatLessThanWellFounded, WFMin, Zenon
<1>2. ASSUME NEW y \in S PROVE x <= y
  <2>1. <<y, x>> \in Nat \X Nat /\ ~(<<y, x>>[1] < <<y, x>>[2])
      BY <1>1 DEF OpToRel
  <2>2. ~(y < x)
      BY <2>1
  <2> QED BY <2>2
<1>3. \E z \in S : \A y \in S : z <= y
    BY <1>2
<1> QED BY <1>3 DEF LeastOf

LEMMA ChoiceFacts ==
    ASSUME NEW preferred, NEW C, C \subseteq Nat
    PROVE  Choice(preferred, C) \in C \/ (C = {} /\ Choice(preferred, C) = None)
<1>1. CASE preferred \in C
    BY <1>1 DEF Choice
<1>2. CASE preferred \notin C /\ C # {}
    BY <1>2, LeastFacts DEF Choice
<1>3. CASE preferred \notin C /\ C = {}
    BY <1>3 DEF Choice
<1> QED BY <1>1, <1>2, <1>3

LEMMA SubFacts == Subs \subseteq Nat /\ None \notin Subs /\ None \in Maybe /\ Subs \subseteq Maybe
BY IterativeAssumption DEF Subs, None, Maybe, IterativeAssumption

LEMMA PhaseFacts ==
    ASSUME TypeOK, phases \in Seq(Stages)
    PROVE  /\ Latest \in Ids /\ Latest \in Nat
           /\ DOMAIN phases = 1 .. Latest /\ DOMAIN phases \subseteq Ids /\ Ids \subseteq Nat
           /\ OpenPhases \subseteq Ids
           /\ EarliestOpen \in Ids \/ EarliestOpen = None
           /\ None \notin Ids
<1>1. Latest \in Ids /\ Latest \in Nat /\ DOMAIN phases = 1 .. Latest
    BY LenProperties DEF TypeOK, Latest
<1>2. DOMAIN phases \subseteq Ids /\ Ids \subseteq Nat /\ None \notin Ids
    BY <1>1, IterativeAssumption DEF Ids, None, IterativeAssumption
<1>3. OpenPhases \subseteq Ids /\ OpenPhases \subseteq Nat
    BY <1>2 DEF OpenPhases
<1>4. EarliestOpen \in Ids \/ EarliestOpen = None
    BY <1>3, LeastFacts DEF EarliestOpen
<1> QED BY <1>1, <1>2, <1>3, <1>4

LEMMA PhaseSet ==
    ASSUME TypeOK, phases \in Seq(Stages), NEW p \in Ids, NEW stage \in Stages,
           phases' = [phases EXCEPT ![p] = stage]
    PROVE  phases' \in Seq(Stages) /\ Len(phases') \in Ids
<1>1. CASE p \in 1 .. Len(phases)
    BY <1>1, ExceptSeq DEF TypeOK
<1>2. CASE p \notin 1 .. Len(phases)
  <2>1. phases' = phases
      BY <1>2, PhaseFacts, LenProperties
  <2> QED BY <2>1 DEF TypeOK
<1> QED BY <1>1, <1>2

LEMMA PhaseAdd ==
    ASSUME TypeOK, phases \in Seq(Stages), Latest < MaxPhases,
           phases' = Append(phases, "open")
    PROVE  phases' \in Seq(Stages) /\ Len(phases') \in Ids /\ Latest + 1 \in Ids
<1>1. phases' \in Seq(Stages) /\ Len(phases') = Len(phases) + 1
    BY AppendProperties DEF Stages
<1>2. Latest + 1 \in Ids
    BY PhaseFacts, IterativeAssumption DEF Ids, IterativeAssumption
<1> QED BY <1>1, <1>2 DEF Latest

\* TypeOK speaks of the phases without saying that they are a sequence.
LEMMA PhasesTyped ==
    ASSUME NEW ph \in Seq(Stages)
    PROVE  \A p \in DOMAIN ph : ph[p] \in {"waiting", "open", "ended"}
BY LenProperties, ElementOfSeq DEF Stages

-----------------------------------------------------------------------------
(* A review that passed stays *)

PassedKept == \A k \in DOMAIN review : review[k] = "passed" => review'[k] = "passed"

LEMMA NextKeeps == ASSUME [Next]_vars PROVE PassedKept
<1>1. CASE UNCHANGED vars
    BY <1>1 DEF vars, PassedKept
<1>2. CASE Submit \/ AddReviewer \/ SubmissionEnds \/ Verify
    BY <1>2 DEF Submit, AddReviewer, SubmissionEnds, Verify, PassedKept
<1>3. CASE CompleteReview
    BY <1>3 DEF CompleteReview, PassedKept
<1>4. CASE \E m \in inbox : Consume(m) \/ ConsumeTwice(m)
    BY <1>4 DEF Consume, ConsumeTwice, PassedKept
<1>5. CASE \E p \in Ids : Due(p) \/ ReplayUpdate(p)
    BY <1>5 DEF Due, ReplayUpdate, PassedKept
<1>6. ASSUME NEW a \in Actors, Handle(a) PROVE PassedKept
  <2>1. CASE Advance(a)
      BY <2>1 DEF Advance, EndRead, EndClose, FinalizeRead, FinalizeWrite, PassedKept
  <2>2. CASE Outcome(a)
      BY <2>2 DEF Outcome, CompletedRead, FinishClose, FinishWrite, ClosedRead, NextRead, PassedKept
  <2>3. CASE SubmissionRead(a) \/ SubmissionCheck(a) \/ Reopen(a) \/ CreatePhase(a)
      BY <2>3 DEF SubmissionRead, SubmissionCheck, Reopen, CreatePhase, PassedKept
  <2>4. CASE AssignRead(a) \/ OpenedRead(a) \/ Processed(a)
      BY <2>4 DEF AssignRead, OpenedRead, Processed, PassedKept
  <2>5. CASE CreateReview(a)
      BY <2>5 DEF CreateReview, PassedKept
  <2> QED BY <1>6, <2>1, <2>2, <2>3, <2>4, <2>5 DEF Handle, Provide
<1> QED BY <1>1, <1>2, <1>3, <1>4, <1>5, <1>6 DEF Next

LEMMA PassingKept ==
    ASSUME TypeOK, PassedKept
    PROVE  Passing \subseteq Passing'
BY DEF TypeOK, PassedKept, Passing

\* Frames that would complete the challenge outlive every write of the status
\* but that of a failure.
LEMMA FramesKept ==
    ASSUME Passing \subseteq Passing', status' = status \/ status' # "FAILED_REVIEW"
    PROVE  Frames \subseteq Frames'
BY DEF Frames, Winning

-----------------------------------------------------------------------------
(* What a step does to the stacks *)

LEMMA TopFacts ==
    ASSUME Stacks, NEW a \in Actors, Busy(a), Top(a).at # "outcome"
    PROVE  /\ stack[a] \in Seq(FramesOf(a))
           /\ Top(a) \in FramesOf(a) /\ Tail(stack[a]) \in Seq(FramesOf(a))
<1>1. stack[a] \in Seq(FramesOf(a))
    BY DEF Stacks, Deciding, At
<1> QED BY <1>1, HeadTailProperties DEF Busy, Top

\* What the step a frame stands before says about it
LEMMA AtFacts ==
    ASSUME Stacks, NEW a \in Actors, Busy(a), Top(a).at # "outcome"
    PROVE  /\ Top(a).at \in {"assign", "create"} =>
                /\ Top(a).phase \in Ids /\ Top(a).sub \in Maybe /\ Top(a).retain \in BOOLEAN
                /\ Top(a) \in [at : {"assign", "create"}, phase : Ids, sub : Maybe,
                               retain : BOOLEAN]
                /\ a # "consumer" => Top(a).retain
           /\ Top(a).at \in {"opened", "processed"} => a # "consumer" /\ Top(a).phase \in Ids
           /\ Top(a).at \notin {"assign", "create", "opened", "processed"} => a = "consumer"
           /\ Top(a).at \in {"end", "close"} =>
                Top(a) \in [at : {"end", "close"}, phase : Ids, refresh : BOOLEAN]
           /\ Top(a).at = "next" => Top(a).last \in Maybe
           /\ Top(a).at = "completed" => Top(a).phase \in Ids /\ Top(a).sub \in Subs
           /\ Top(a).at = "submission" => Top(a).sub \in Maybe
           /\ Top(a).at = "check" =>
                /\ Top(a).phase \in Ids /\ Top(a).base \in Ids /\ Top(a).seed \in BOOLEAN
                /\ Top(a).sub \in Maybe
           /\ Top(a).at = "open" =>
                Top(a).base \in Ids /\ Top(a).seed \in BOOLEAN /\ Top(a).sub \in Maybe
           /\ Top(a).at \in {"finish", "win"} =>
                Top(a).sub \in Passing /\ status # "FAILED_REVIEW"
<1>1. CASE a = "consumer"
  <2>1. Top(a) \in Frames
      BY <1>1, TopFacts DEF FramesOf
  <2>2. CASE Top(a) \in Winning
      BY <1>1, <2>2 DEF Winning
  <2>3. CASE Top(a) \in Calm
      BY <1>1, <2>3 DEF Calm
  <2> QED BY <2>1, <2>2, <2>3 DEF Frames
<1>2. CASE a # "consumer"
  <2>1. Top(a) \in BackFrames
      BY <1>2, TopFacts DEF FramesOf
  <2> QED BY <1>2, <2>1 DEF BackFrames
<1> QED BY <1>1, <1>2

\* The stack of one actor changes: those of the others are as sound as before.
LEMMA StacksChange ==
    ASSUME Stacks, NEW a \in Actors,
           Passing \subseteq Passing', Frames \subseteq Frames',
           status' = status \/ a = "consumer",
           stack' = [b \in Actors |-> stack'[b]],
           \A b \in Actors \ {a} : stack'[b] = stack[b],
           stack'[a] \in Seq(FramesOf(a)') \/ (a = "consumer" /\ Deciding')
    PROVE  Stacks'
<1>1. ASSUME NEW b \in Actors, b # a
      PROVE  stack'[b] \in Seq(FramesOf(b)') \/ (b = "consumer" /\ Deciding')
  <2>1. stack'[b] = stack[b]
      BY <1>1
  <2>2. CASE stack[b] \in Seq(FramesOf(b))
    <3>1. FramesOf(b) \subseteq FramesOf(b)'
        BY DEF FramesOf
    <3> QED BY <2>1, <2>2, <3>1, SeqMonotonic
  <2>3. CASE b = "consumer" /\ Deciding
    <3>1. status' = "ACTIVE"
        BY <1>1, <2>3 DEF Deciding
    <3>2. Tail(stack["consumer"]) \in Seq(Frames')
        BY <2>3, SeqMonotonic DEF Deciding
    <3>3. Top("consumer")' = Top("consumer") /\ At("consumer", "outcome")'
        BY <2>1, <2>3 DEF Deciding, At, Busy, Top
    <3>4. Top("consumer") \in [at : {"outcome"}, sub : Passing' \cup {None}]
        BY <2>3 DEF Deciding
    <3> QED BY <2>1, <2>3, <3>1, <3>2, <3>3, <3>4 DEF Deciding
  <2> QED BY <2>2, <2>3 DEF Stacks
<1> QED BY <1>1 DEF Stacks

LEMMA ContinueStacks ==
    ASSUME Stacks, NEW a \in Actors, Busy(a), Top(a).at # "outcome",
           Passing \subseteq Passing', Frames \subseteq Frames',
           status' = status \/ a = "consumer",
           NEW fs \in Seq(FramesOf(a)'), Continue(a, fs)
    PROVE  Stacks'
<1>1. FramesOf(a) \subseteq FramesOf(a)'
    BY DEF FramesOf
<1>2. Tail(stack[a]) \in Seq(FramesOf(a)')
    BY <1>1, TopFacts, SeqMonotonic
<1>3. fs \o Tail(stack[a]) \in Seq(FramesOf(a)')
    BY <1>2, ConcatProperties
<1>4. /\ stack' = [b \in Actors |-> stack'[b]]
      /\ \A b \in Actors \ {a} : stack'[b] = stack[b]
      /\ stack'[a] = fs \o Tail(stack[a])
    BY DEF Continue, Stacks
<1> QED BY <1>3, <1>4, StacksChange

LEMMA StartStacks ==
    ASSUME Stacks, NEW a \in Actors, NEW f \in FramesOf(a)',
           Passing \subseteq Passing', Frames \subseteq Frames', status' = status,
           Start(a, f)
    PROVE  Stacks'
<1>1. /\ stack' = [b \in Actors |-> stack'[b]]
      /\ \A b \in Actors \ {a} : stack'[b] = stack[b]
      /\ stack'[a] = <<f>>
    BY DEF Start, Stacks
<1>2. <<f>> \in Seq(FramesOf(a)')
    OBVIOUS
<1> QED BY <1>1, <1>2, StacksChange

LEMMA StacksSame ==
    ASSUME Stacks, Passing \subseteq Passing', Frames \subseteq Frames', status' = status,
           UNCHANGED stack
    PROVE  Stacks'
<1>1. "consumer" \in Actors /\ FramesOf("consumer") \subseteq FramesOf("consumer")'
    BY DEF Actors, FramesOf
<1>2. ASSUME Deciding PROVE Deciding'
  <2>1. Tail(stack["consumer"]) \in Seq(Frames')
      BY <1>2, SeqMonotonic DEF Deciding
  <2>2. Top("consumer")' = Top("consumer") /\ At("consumer", "outcome")'
      BY <1>2 DEF Deciding, At, Busy, Top
  <2>3. Top("consumer") \in [at : {"outcome"}, sub : Passing' \cup {None}]
      BY <1>2 DEF Deciding
  <2> QED BY <1>2, <2>1, <2>2, <2>3 DEF Deciding
<1>3. stack["consumer"] \in Seq(FramesOf("consumer")) => stack["consumer"] \in Seq(FramesOf("consumer")')
    BY <1>1, SeqMonotonic
<1>4. stack' = [b \in Actors |-> stack'[b]] /\ \A b \in Actors : stack'[b] = stack[b]
    BY DEF Stacks
<1>5. stack'["consumer"] \in Seq(FramesOf("consumer")') \/ Deciding'
    BY <1>1, <1>2, <1>3, <1>4 DEF Stacks
<1> QED BY <1>1, <1>4, <1>5, StacksChange

-----------------------------------------------------------------------------
(* Frames that steps add *)

LEMMA SeqOne ==
    ASSUME NEW S, NEW e \in S
    PROVE  <<e>> \in Seq(S)
OBVIOUS

LEMMA SeqTwo ==
    ASSUME NEW S, NEW e \in S, NEW f \in S
    PROVE  <<e, f>> \in Seq(S)
OBVIOUS

LEMMA CalmFrames ==
    /\ \A p \in Ids, refresh \in BOOLEAN : End(p, refresh) \in Calm
    /\ Closed \in Calm /\ Finalize \in Calm
    /\ \A s \in Maybe : PrepareNext(s) \in Calm
    /\ \A p \in Ids, seed \in BOOLEAN, s \in Maybe : OpenNext(p, seed, s) \in Calm
    /\ \A p \in Ids, s \in Maybe, retain \in BOOLEAN : Assign(p, s, retain) \in Calm
<1>1. \A p \in Ids, refresh \in BOOLEAN : End(p, refresh) \in Calm
    BY DEF End, Calm
<1>2. Closed \in Calm /\ Finalize \in Calm
    BY DEF Closed, Finalize, Calm
<1>3. \A s \in Maybe : PrepareNext(s) \in Calm
    BY DEF PrepareNext, Calm
<1>4. \A p \in Ids, seed \in BOOLEAN, s \in Maybe : OpenNext(p, seed, s) \in Calm
    BY DEF OpenNext, Calm
<1>5. \A p \in Ids, s \in Maybe, retain \in BOOLEAN : Assign(p, s, retain) \in Calm
    BY DEF Assign, Calm
<1> QED BY <1>1, <1>2, <1>3, <1>4, <1>5

\* A step that writes no outcome
LEMMA SameOutcome ==
    ASSUME Inv, PassedKept, UNCHANGED <<status, winner>>
    PROVE  Passing \subseteq Passing' /\ Frames \subseteq Frames' /\ WinnerPassed'
BY PassingKept, FramesKept DEF Inv, WinnerPassed

LEMMA ContinueConsumer ==
    ASSUME Inv, PassedKept, UNCHANGED <<status, winner>>,
           NEW a \in Actors, a = "consumer", Busy(a), Top(a).at # "outcome",
           NEW fs \in Seq(Frames'), Continue(a, fs)
    PROVE  Stacks' /\ WinnerPassed'
<1>1. Passing \subseteq Passing' /\ Frames \subseteq Frames' /\ WinnerPassed'
    BY SameOutcome
<1>2. fs \in Seq(FramesOf(a)')
    BY DEF FramesOf
<1> QED BY <1>1, <1>2, ContinueStacks DEF Inv

LEMMA ContinueCalm ==
    ASSUME Inv, PassedKept, UNCHANGED <<status, winner>>,
           NEW a \in Actors, a = "consumer", Busy(a), Top(a).at # "outcome",
           NEW fs \in Seq(Calm), Continue(a, fs)
    PROVE  Stacks' /\ WinnerPassed'
<1>1. fs \in Seq(Frames')
    BY SeqMonotonic DEF Frames
<1> QED BY <1>1, ContinueConsumer

LEMMA ContinueBackground ==
    ASSUME Inv, PassedKept, UNCHANGED <<status, winner>>,
           NEW a \in Actors, a # "consumer", Busy(a), Top(a).at # "outcome",
           NEW fs \in Seq(BackFrames), Continue(a, fs)
    PROVE  Stacks' /\ WinnerPassed'
<1>1. Passing \subseteq Passing' /\ Frames \subseteq Frames' /\ WinnerPassed'
    BY SameOutcome
<1>2. fs \in Seq(FramesOf(a)')
    BY DEF FramesOf
<1> QED BY <1>1, <1>2, ContinueStacks DEF Inv

LEMMA StartCalm ==
    ASSUME Inv, PassedKept, UNCHANGED <<status, winner>>,
           NEW f \in Calm, Start("consumer", f)
    PROVE  Stacks' /\ WinnerPassed'
<1>1. Passing \subseteq Passing' /\ Frames \subseteq Frames' /\ WinnerPassed'
    BY SameOutcome
<1>2. f \in FramesOf("consumer")' /\ "consumer" \in Actors
    BY DEF FramesOf, Frames, Actors
<1> QED BY <1>1, <1>2, StartStacks DEF Inv

LEMMA StartBackground ==
    ASSUME Inv, PassedKept, UNCHANGED <<status, winner>>,
           NEW b \in Background, NEW f \in BackFrames, Start(b, f)
    PROVE  Stacks' /\ WinnerPassed'
<1>1. Passing \subseteq Passing' /\ Frames \subseteq Frames' /\ WinnerPassed'
    BY SameOutcome
<1>2. f \in FramesOf(b)' /\ b \in Actors
    BY IterativeAssumption DEF FramesOf, Actors, IterativeAssumption
<1> QED BY <1>1, <1>2, StartStacks DEF Inv

LEMMA IdleStacks ==
    ASSUME Inv, PassedKept, UNCHANGED <<status, winner, stack>>
    PROVE  Stacks' /\ WinnerPassed'
BY SameOutcome, StacksSame DEF Inv

\* What Inv asks for beside the stacks, when phases and reviews are left alone
LEMMA RestTyped ==
    ASSUME Inv, UNCHANGED <<challenge, world, phases, review, memory>>
    PROVE  TypeOK' /\ phases' \in Seq(Stages) /\ inbox' \subseteq Messages
           /\ UNCHANGED <<status, winner>>
BY DEF Inv, TypeOK, challenge, world, memory

-----------------------------------------------------------------------------
(* advancePhase *)

LEMMA EndReadStep ==
    ASSUME Inv, PassedKept, NEW a \in Actors, EndRead(a)
    PROVE  Inv'
<1>1. Busy(a) /\ Top(a).at = "end"
    BY DEF EndRead, At
<1>2. a = "consumer" /\ Top(a) \in [at : {"end", "close"}, phase : Ids, refresh : BOOLEAN]
    BY <1>1, AtFacts DEF Inv
<1>3. TypeOK' /\ phases' \in Seq(Stages) /\ inbox' \subseteq Messages
      /\ UNCHANGED <<status, winner>>
    BY RestTyped DEF EndRead
<1> DEFINE closing == [Top(a) EXCEPT !.at = "close"]
<1>4. closing \in Calm
    BY <1>2 DEF Calm
<1>5. Continue(a, <<Closed>>) \/ Continue(a, <<>>) \/ Continue(a, <<closing>>)
    BY DEF EndRead, Return
<1> HIDE DEF closing
<1>6. PICK fs \in Seq(Calm) : Continue(a, fs)
    BY <1>4, <1>5, CalmFrames, EmptySeq, SeqOne
<1>7. Stacks' /\ WinnerPassed'
    BY <1>1, <1>2, <1>3, <1>6, ContinueCalm
<1> QED BY <1>3, <1>7 DEF Inv

LEMMA EndCloseStep ==
    ASSUME Inv, PassedKept, NEW a \in Actors, EndClose(a)
    PROVE  Inv'
<1>1. Busy(a) /\ Top(a).at = "close"
    BY DEF EndClose, At
<1>2. a = "consumer" /\ Top(a).phase \in Ids
    BY <1>1, AtFacts DEF Inv
<1>3. phases' \in Seq(Stages) /\ Len(phases') \in Ids
  <2>1. UNCHANGED phases \/ phases' = [phases EXCEPT ![Top(a).phase] = "ended"]
      BY DEF EndClose
  <2> QED BY <1>2, <2>1, PhaseSet DEF Inv, TypeOK, Stages
<1>4. PICK fs \in Seq(Calm) : Continue(a, fs)
  <2>1. PICK f \in {<<Closed>>, <<>>}, g \in {<<Finalize>>, <<>>} :
            Continue(a, f \o g) \/ Continue(a, <<>>)
      BY DEF EndClose, Return
  <2>2. f \in Seq(Calm) /\ g \in Seq(Calm) /\ <<>> \in Seq(Calm)
      BY CalmFrames, EmptySeq, SeqOne
  <2>3. f \o g \in Seq(Calm)
      BY <2>2, ConcatProperties
  <2> QED BY <2>1, <2>2, <2>3
<1>5. UNCHANGED <<status, winner>>
    BY DEF EndClose, challenge
<1>6. Stacks' /\ WinnerPassed'
    BY <1>1, <1>2, <1>4, <1>5, ContinueCalm
<1>7. TypeOK' /\ inbox' \subseteq Messages
    BY <1>3, PhasesTyped DEF EndClose, Inv, TypeOK, challenge, world, memory
<1> QED BY <1>3, <1>6, <1>7 DEF Inv

\* The outcome is chosen: without a winner no frame below names one.
LEMMA FinalizeReadStep ==
    ASSUME Inv, PassedKept, NEW a \in Actors, FinalizeRead(a)
    PROVE  Inv'
<1>1. Busy(a) /\ Top(a).at = "finalize"
    BY DEF FinalizeRead, At
<1>2. a = "consumer" /\ Tail(stack[a]) \in Seq(Frames)
    BY <1>1, AtFacts, TopFacts DEF Inv, FramesOf
<1>3. TypeOK' /\ phases' \in Seq(Stages) /\ inbox' \subseteq Messages
      /\ UNCHANGED <<status, winner>>
    BY RestTyped DEF FinalizeRead
<1>4. CASE Continue(a, <<>>)
  <2>1. Stacks' /\ WinnerPassed'
      BY <1>1, <1>2, <1>3, <1>4, EmptySeq, ContinueCalm
  <2> QED BY <1>3, <2>1 DEF Inv
<1> DEFINE f == [at |-> "outcome", sub |-> Choice(None, Passing)]
<1>5. CASE status = "ACTIVE" /\ Continue(a, <<f>>)
  <2>1. Passing \subseteq Passing' /\ Frames \subseteq Frames' /\ WinnerPassed'
      BY <1>3, SameOutcome
  <2>2. f \in [at : {"outcome"}, sub : Passing \cup {None}] /\ f.at = "outcome"
        /\ (f.sub = None => Passing = {})
    <3>1. Passing \subseteq Nat /\ None \notin Passing
        BY SubFacts DEF Passing
    <3>2. Choice(None, Passing) \in Passing
          \/ (Passing = {} /\ Choice(None, Passing) = None)
        BY <3>1, ChoiceFacts
    <3> QED BY <3>1, <3>2
  <2> HIDE DEF f
  <2>3. /\ stack' = [b \in Actors |-> stack'[b]]
        /\ \A b \in Actors \ {a} : stack'[b] = stack[b]
        /\ stack'[a] = <<f>> \o Tail(stack[a])
      BY <1>5 DEF Continue, Inv, Stacks
  <2>4. Head(stack'[a]) = f /\ Tail(stack'[a]) = Tail(stack[a]) /\ stack'[a] # <<>>
    <3> DEFINE S == Frames \cup {f}
    <3>1. <<f>> \in Seq(S) /\ Tail(stack[a]) \in Seq(S) /\ Len(<<f>>) = 1 /\ <<f>>[1] = f
        BY <1>2, SeqMonotonic
    <3> HIDE DEF S
    <3> DEFINE t == Tail(stack[a])
               u == <<f>> \o t
    <3>2. t \in Seq(S) /\ Len(t) \in Nat
        BY <3>1, LenProperties
    <3> HIDE DEF t
    <3>3. /\ u \in Seq(S) /\ Len(u) = 1 + Len(t)
          /\ \A i \in 1 .. 1 + Len(t) : u[i] = IF i <= 1 THEN <<f>>[i] ELSE t[i - 1]
        BY <3>1, <3>2, ConcatProperties
    <3> HIDE DEF u
    <3>4. u # <<>> /\ Head(u) = f
        BY <3>1, <3>2, <3>3, EmptySeq
    <3>5. Tail(u) \in Seq(S) /\ Len(Tail(u)) = Len(t) /\ \A i \in 1 .. Len(t) : Tail(u)[i] = u[i + 1]
        BY <3>2, <3>3, <3>4, HeadTailProperties
    <3>6. \A i \in 1 .. Len(t) : Tail(u)[i] = t[i]
      <4> TAKE i \in 1 .. Len(t)
      <4>1. i + 1 \in 1 .. 1 + Len(t) /\ ~(i + 1 <= 1) /\ (i + 1) - 1 = i
          BY <3>2
      <4> QED BY <3>3, <3>5, <4>1
    <3>7. Tail(u) = t
        BY <3>2, <3>5, <3>6, SeqEqual
    <3> QED BY <2>3, <3>4, <3>7 DEF u, t
  <2>5. Deciding'
    <3>1. Top("consumer")' = f /\ At("consumer", "outcome")'
        BY <1>2, <2>2, <2>4 DEF Top, At, Busy
    <3>2. Tail(stack'["consumer"]) \in Seq(Frames')
        BY <1>2, <2>1, <2>4, SeqMonotonic
    <3>3. f.sub = None => Tail(stack'["consumer"]) \in Seq(Calm)
      <4>1. Passing = {} => Frames = Calm
          BY DEF Frames, Winning
      <4> QED BY <1>2, <2>2, <2>4, <4>1
    <3>4. f \in [at : {"outcome"}, sub : Passing' \cup {None}]
        BY <2>1, <2>2
    <3> QED BY <1>3, <1>5, <3>1, <3>2, <3>3, <3>4 DEF Deciding
  <2>6. Stacks'
      BY <1>2, <1>3, <2>1, <2>3, <2>5, StacksChange DEF Inv
  <2> QED BY <1>3, <2>1, <2>6 DEF Inv
<1> QED BY <1>4, <1>5 DEF FinalizeRead

LEMMA FinalizeWriteStep ==
    ASSUME Inv, PassedKept, NEW a \in Actors, FinalizeWrite(a)
    PROVE  Inv' /\ status = "ACTIVE"
<1>1. a = "consumer" /\ Deciding
  <2>1. Busy(a) /\ Top(a).at = "outcome"
      BY DEF FinalizeWrite, At
  <2>2. CASE stack[a] \in Seq(FramesOf(a))
    <3>1. Top(a) \in FramesOf(a)
        BY <2>1, <2>2, HeadTailProperties DEF Busy, Top
    <3>2. CASE a = "consumer"
        BY <2>1, <3>1, <3>2 DEF FramesOf, Frames, Calm, Winning
    <3>3. CASE a # "consumer"
        BY <2>1, <3>1, <3>3 DEF FramesOf, BackFrames
    <3> QED BY <3>2, <3>3
  <2> QED BY <2>2 DEF Inv, Stacks
<1>2. Passing \subseteq Passing'
    BY PassingKept DEF Inv
<1>3. /\ stack' = [b \in Actors |-> stack'[b]]
      /\ \A b \in Actors \ {a} : stack'[b] = stack[b]
      /\ stack'[a] = Tail(stack[a])
  <2>1. <<>> \o Tail(stack[a]) = Tail(stack[a])
      BY <1>1, ConcatEmptySeq DEF Deciding
  <2> QED BY <2>1 DEF FinalizeWrite, Return, Continue, Inv, Stacks
<1>4. CASE Top(a).sub = None
  <2>1. status' = "FAILED_REVIEW" /\ winner' = winner
      BY <1>4 DEF FinalizeWrite
  <2>2. stack'[a] \in Seq(FramesOf(a)')
    <3>1. Tail(stack[a]) \in Seq(Calm)
        BY <1>1, <1>4 DEF Deciding
    <3>2. Tail(stack[a]) \in Seq(Frames')
        BY <3>1, SeqMonotonic DEF Frames
    <3> QED BY <1>1, <1>3, <3>2 DEF FramesOf
  <2>3. ASSUME NEW b \in Actors, b # a PROVE stack'[b] \in Seq(FramesOf(b)')
      BY <1>1, <1>3, <2>3 DEF Inv, Stacks, FramesOf
  <2>4. Stacks'
      BY <1>3, <2>2, <2>3 DEF Stacks
  <2>5. TypeOK' /\ phases' \in Seq(Stages) /\ inbox' \subseteq Messages
      BY <2>1 DEF FinalizeWrite, Inv, TypeOK, world, memory
  <2> QED BY <1>1, <2>1, <2>4, <2>5 DEF Inv, WinnerPassed, Deciding
<1>5. CASE Top(a).sub # None
  <2>1. status' = "COMPLETED" /\ winner' = Top(a).sub /\ Top(a).sub \in Passing
      BY <1>1, <1>5 DEF FinalizeWrite, Deciding
  <2>2. Frames \subseteq Frames'
      BY <1>2, <2>1, FramesKept
  <2>3. stack'[a] \in Seq(FramesOf(a)')
    <3>1. Tail(stack[a]) \in Seq(Frames')
        BY <1>1, <2>2, SeqMonotonic DEF Deciding
    <3> QED BY <1>1, <1>3, <3>1 DEF FramesOf
  <2>4. Stacks'
      BY <1>1, <1>2, <1>3, <2>2, <2>3, StacksChange DEF Inv
  <2>5. TypeOK' /\ phases' \in Seq(Stages) /\ inbox' \subseteq Messages
      BY <2>1 DEF FinalizeWrite, Inv, TypeOK, world, memory, Passing
  <2> QED BY <1>1, <1>2, <2>1, <2>4, <2>5 DEF Inv, WinnerPassed, Deciding
<1> QED BY <1>4, <1>5

-----------------------------------------------------------------------------
(* The completion of a review *)

\* The frame of a challenge that is about to be completed for s
LEMMA WinningFrame ==
    ASSUME NEW s \in Passing, status # "FAILED_REVIEW"
    PROVE  Finish(s) \in Frames /\ [at |-> "win", sub |-> s] \in Frames
BY DEF Finish, Frames, Winning

LEMMA CompletedReadStep ==
    ASSUME Inv, PassedKept, NEW a \in Actors, CompletedRead(a)
    PROVE  Inv'
<1>1. Busy(a) /\ Top(a).at = "completed"
    BY DEF CompletedRead, At
<1>2. a = "consumer" /\ Top(a).phase \in Ids /\ Top(a).sub \in Subs
    BY <1>1, AtFacts DEF Inv
<1>3. TypeOK' /\ phases' \in Seq(Stages) /\ inbox' \subseteq Messages
      /\ UNCHANGED <<status, winner>>
    BY RestTyped DEF CompletedRead
<1> DEFINE p == Top(a).phase
           s == Top(a).sub
<1>4. \/ Continue(a, <<>>)
      \/ Continue(a, <<Closed>>)
      \/ /\ status = "ACTIVE" /\ review[<<p, s>>] = "passed"
         /\ Continue(a, <<End(p, FALSE), Finish(s)>>)
      \/ Continue(a, <<End(p, TRUE), PrepareNext(s)>>)
    BY DEF CompletedRead, Return
<1>5. Frames \subseteq Frames' /\ Calm \subseteq Frames
    BY <1>3, SameOutcome DEF Frames
<1>6. PICK fs \in Seq(Frames') : Continue(a, fs)
  <2>1. <<>> \in Seq(Frames') /\ <<Closed>> \in Seq(Frames')
      BY <1>5, CalmFrames, EmptySeq, SeqOne
  <2>2. <<End(p, TRUE), PrepareNext(s)>> \in Seq(Frames')
    <3>1. End(p, TRUE) \in Frames' /\ PrepareNext(s) \in Frames'
        BY <1>2, <1>5, CalmFrames, SubFacts
    <3> QED BY <3>1, SeqTwo
  <2>3. ASSUME status = "ACTIVE", review[<<p, s>>] = "passed"
        PROVE  <<End(p, FALSE), Finish(s)>> \in Seq(Frames')
    <3>1. s \in Passing
        BY <1>2, <2>3 DEF Passing
    <3>2. End(p, FALSE) \in Frames' /\ Finish(s) \in Frames'
        BY <1>2, <1>5, <2>3, <3>1, CalmFrames, WinningFrame
    <3> QED BY <3>2, SeqTwo
  <2> QED BY <1>4, <2>1, <2>2, <2>3
<1>7. Stacks' /\ WinnerPassed'
    BY <1>1, <1>2, <1>3, <1>6, ContinueConsumer
<1> QED BY <1>3, <1>7 DEF Inv

LEMMA FinishCloseStep ==
    ASSUME Inv, PassedKept, NEW a \in Actors, FinishClose(a)
    PROVE  Inv'
<1>1. Busy(a) /\ Top(a).at = "finish"
    BY DEF FinishClose, At
<1>2. a = "consumer" /\ Top(a).sub \in Passing /\ status # "FAILED_REVIEW"
    BY <1>1, AtFacts DEF Inv
<1>3. UNCHANGED <<status, winner>>
    BY DEF FinishClose
<1>4. Frames \subseteq Frames' /\ Calm \subseteq Frames
    BY <1>3, SameOutcome DEF Frames
<1> DEFINE win == [at |-> "win", sub |-> Top(a).sub]
<1>5. win \in Frames' /\ Finalize \in Frames'
    BY <1>2, <1>4, WinningFrame, CalmFrames
<1>6. Continue(a, <<Finalize, win>>) \/ Continue(a, <<win>>)
    BY DEF FinishClose
<1> HIDE DEF win
<1>7. PICK fs \in Seq(Frames') : Continue(a, fs)
    BY <1>5, <1>6, SeqOne, SeqTwo
<1>8. Stacks' /\ WinnerPassed'
    BY <1>1, <1>2, <1>3, <1>7, ContinueConsumer
<1>9. delivering' \in BOOLEAN
    BY DEF FinishClose, Inv, TypeOK
<1>10. TypeOK' /\ phases' \in Seq(Stages) /\ inbox' \subseteq Messages
    BY <1>9 DEF FinishClose, Inv, TypeOK, world, memory
<1> QED BY <1>8, <1>10 DEF Inv

LEMMA FinishWriteStep ==
    ASSUME Inv, PassedKept, NEW a \in Actors, FinishWrite(a)
    PROVE  Inv' /\ (status # "ACTIVE" => status' = status)
<1>1. Busy(a) /\ Top(a).at = "win"
    BY DEF FinishWrite, At
<1>2. a = "consumer" /\ Top(a).sub \in Passing /\ status # "FAILED_REVIEW"
    BY <1>1, AtFacts DEF Inv
<1>3. status' = "COMPLETED" /\ winner' = Top(a).sub
    BY DEF FinishWrite
<1>4. Passing \subseteq Passing' /\ Frames \subseteq Frames'
    BY <1>3, PassingKept, FramesKept DEF Inv
<1>5. <<>> \in Seq(FramesOf(a)')
    BY EmptySeq
<1>6. Stacks'
    BY <1>1, <1>2, <1>4, <1>5, ContinueStacks DEF FinishWrite, Return, Inv
<1>7. TypeOK' /\ phases' \in Seq(Stages) /\ inbox' \subseteq Messages
    BY <1>2, <1>3 DEF FinishWrite, Inv, TypeOK, world, memory, Passing
<1> QED BY <1>2, <1>3, <1>4, <1>6, <1>7 DEF Inv, WinnerPassed, TypeOK

LEMMA ClosedReadStep ==
    ASSUME Inv, PassedKept, NEW a \in Actors, ClosedRead(a)
    PROVE  Inv'
<1>1. Busy(a) /\ Top(a).at = "closed"
    BY DEF ClosedRead, At
<1>2. a = "consumer"
    BY <1>1, AtFacts DEF Inv
<1>3. TypeOK' /\ phases' \in Seq(Stages) /\ inbox' \subseteq Messages
      /\ UNCHANGED <<status, winner>>
    BY RestTyped DEF ClosedRead
<1>4. \/ Continue(a, <<>>)
      \/ status = "ACTIVE" /\ \E s \in In(Latest, {"passed"}) : Continue(a, <<Finish(s)>>)
      \/ Continue(a, <<PrepareNext(None)>>)
    BY DEF ClosedRead, Return
<1>5. Frames \subseteq Frames' /\ Calm \subseteq Frames
    BY <1>3, SameOutcome DEF Frames
<1>6. PICK fs \in Seq(Frames') : Continue(a, fs)
  <2>1. <<>> \in Seq(Frames') /\ <<PrepareNext(None)>> \in Seq(Frames')
    <3>1. PrepareNext(None) \in Frames'
        BY <1>5, CalmFrames, SubFacts
    <3> QED BY <3>1, EmptySeq, SeqOne
  <2>2. ASSUME status = "ACTIVE", NEW s \in In(Latest, {"passed"})
        PROVE  <<Finish(s)>> \in Seq(Frames')
    <3>1. s \in Passing
        BY PhaseFacts DEF In, Passing, Inv
    <3>2. Finish(s) \in Frames'
        BY <1>5, <2>2, <3>1, WinningFrame
    <3> QED BY <3>2, SeqOne
  <2> QED BY <1>4, <2>1, <2>2
<1>7. Stacks' /\ WinnerPassed'
    BY <1>1, <1>2, <1>3, <1>6, ContinueConsumer
<1> QED BY <1>3, <1>7 DEF Inv

LEMMA NextReadStep ==
    ASSUME Inv, PassedKept, NEW a \in Actors, NextRead(a)
    PROVE  Inv'
<1>1. Busy(a) /\ Top(a).at = "next"
    BY DEF NextRead, At
<1>2. a = "consumer"
    BY <1>1, AtFacts DEF Inv
<1>3. TypeOK' /\ phases' \in Seq(Stages) /\ inbox' \subseteq Messages
      /\ UNCHANGED <<status, winner>>
    BY RestTyped DEF NextRead
<1> DEFINE C == {t \in 1 .. arrived : t # Top(a).last /\ ~Seen(t)}
           s == Choice(None, C)
<1>4. s \in Maybe
  <2>1. C \subseteq Subs
      BY IterativeAssumption DEF Inv, TypeOK, Subs, IterativeAssumption
  <2> HIDE DEF C
  <2> QED BY <2>1, ChoiceFacts, SubFacts
<1>5. Continue(a, <<OpenNext(Latest, IsSeed, s)>>) \/ Continue(a, <<>>)
    BY DEF NextRead
<1> HIDE DEF s
<1>6. OpenNext(Latest, IsSeed, s) \in Calm
  <2>1. IsSeed \in BOOLEAN /\ Latest \in Ids
      BY PhaseFacts DEF IsSeed, Inv
  <2> QED BY <1>4, <2>1, CalmFrames
<1>7. PICK fs \in Seq(Calm) : Continue(a, fs)
    BY <1>5, <1>6, EmptySeq, SeqOne
<1>8. Stacks' /\ WinnerPassed'
    BY <1>1, <1>2, <1>3, <1>7, ContinueCalm
<1> QED BY <1>3, <1>8 DEF Inv

-----------------------------------------------------------------------------
(* A new phase and its review *)

LEMMA SubmissionReadStep ==
    ASSUME Inv, PassedKept, NEW a \in Actors, SubmissionRead(a)
    PROVE  Inv'
<1>1. Busy(a) /\ Top(a).at = "submission"
    BY DEF SubmissionRead, At
<1>2. a = "consumer" /\ Top(a).sub \in Maybe
    BY <1>1, AtFacts DEF Inv
<1>3. TypeOK' /\ phases' \in Seq(Stages) /\ inbox' \subseteq Messages
      /\ UNCHANGED <<status, winner>>
    BY RestTyped DEF SubmissionRead
<1> DEFINE earlier == \E p \in DOMAIN phases : phases[p] = "ended"
           check == [at |-> "check", phase |-> EarliestOpen,
                     base |-> Latest, seed |-> IsSeed, sub |-> Top(a).sub,
                     earlier |-> earlier]
           next == OpenNext(Latest, IsSeed, Top(a).sub)
<1>4. \/ Continue(a, <<>>)
      \/ EarliestOpen # None /\ Continue(a, <<check>>)
      \/ Continue(a, <<next>>)
    BY DEF SubmissionRead
<1>5. IsSeed \in BOOLEAN /\ Latest \in Ids
    BY PhaseFacts DEF IsSeed, Inv
<1>6. next \in Calm
    BY <1>2, <1>5, CalmFrames
<1>7. EarliestOpen # None => check \in Calm
  <2>1. earlier \in BOOLEAN
      OBVIOUS
  <2> HIDE DEF earlier
  <2>2. EarliestOpen # None => EarliestOpen \in Ids
      BY PhaseFacts DEF Inv
  <2> QED BY <1>2, <1>5, <2>1, <2>2 DEF Calm
<1> HIDE DEF check, next
<1>8. PICK fs \in Seq(Calm) : Continue(a, fs)
    BY <1>4, <1>6, <1>7, EmptySeq, SeqOne
<1>9. Stacks' /\ WinnerPassed'
    BY <1>1, <1>2, <1>3, <1>8, ContinueCalm
<1> QED BY <1>3, <1>9 DEF Inv

LEMMA SubmissionCheckStep ==
    ASSUME Inv, PassedKept, NEW a \in Actors, SubmissionCheck(a)
    PROVE  Inv'
<1>1. Busy(a) /\ Top(a).at = "check"
    BY DEF SubmissionCheck, At
<1>2. /\ a = "consumer" /\ Top(a).phase \in Ids /\ Top(a).base \in Ids
      /\ Top(a).seed \in BOOLEAN /\ Top(a).sub \in Maybe
    BY <1>1, AtFacts DEF Inv
<1>3. TypeOK' /\ phases' \in Seq(Stages) /\ inbox' \subseteq Messages
      /\ UNCHANGED <<status, winner>>
    BY RestTyped DEF SubmissionCheck
<1> DEFINE f == Top(a)
<1>4. \/ Continue(a, <<>>)
      \/ Continue(a, <<End(f.phase, TRUE), OpenNext(f.base, f.seed, f.sub)>>)
      \/ Continue(a, <<Assign(f.phase, f.sub, FALSE)>>)
    BY DEF SubmissionCheck
<1>5. /\ End(f.phase, TRUE) \in Calm /\ OpenNext(f.base, f.seed, f.sub) \in Calm
      /\ Assign(f.phase, f.sub, FALSE) \in Calm
    BY <1>2, CalmFrames
<1>6. PICK fs \in Seq(Calm) : Continue(a, fs)
    BY <1>4, <1>5, EmptySeq, SeqOne, SeqTwo
<1>7. Stacks' /\ WinnerPassed'
    BY <1>1, <1>2, <1>3, <1>6, ContinueCalm
<1> QED BY <1>3, <1>7 DEF Inv

LEMMA OpenStep ==
    ASSUME Inv, PassedKept, NEW a \in Actors, Reopen(a) \/ CreatePhase(a)
    PROVE  Inv'
<1>1. Busy(a) /\ Top(a).at = "open"
    BY DEF Reopen, CreatePhase, At
<1>2. a = "consumer" /\ Top(a).base \in Ids /\ Top(a).sub \in Maybe
    BY <1>1, AtFacts DEF Inv
<1>3. PICK p \in Ids :
        Continue(a, <<Assign(p, Top(a).sub, FALSE)>>)
        /\ phases' \in Seq(Stages) /\ Len(phases') \in Ids
  <2>1. CASE Reopen(a)
    <3>1. phases' \in Seq(Stages) /\ Len(phases') \in Ids
        BY <1>2, <2>1, PhaseSet DEF Reopen, Inv, Stages
    <3> QED BY <1>2, <2>1, <3>1 DEF Reopen
  <2>2. CASE CreatePhase(a)
    <3>1. phases' \in Seq(Stages) /\ Len(phases') \in Ids /\ Latest + 1 \in Ids
        BY <2>2, PhaseAdd DEF CreatePhase, Inv
    <3> QED BY <2>2, <3>1 DEF CreatePhase
  <2> QED BY <2>1, <2>2
<1>4. <<Assign(p, Top(a).sub, FALSE)>> \in Seq(Calm)
  <2>1. Assign(p, Top(a).sub, FALSE) \in Calm
      BY <1>2, CalmFrames
  <2> QED BY <2>1, SeqOne
<1>5. UNCHANGED <<challenge, world, review, memory>>
    BY DEF Reopen, CreatePhase
<1>6. UNCHANGED <<status, winner>>
    BY <1>5 DEF challenge
<1>7. Stacks' /\ WinnerPassed'
    BY <1>1, <1>2, <1>3, <1>4, <1>6, ContinueCalm
<1>8. TypeOK' /\ inbox' \subseteq Messages
    BY <1>3, <1>5, PhasesTyped DEF Inv, TypeOK, challenge, world, memory
<1> QED BY <1>3, <1>7, <1>8 DEF Inv

\* In the background the same, with a phase that stays open
LEMMA AssignReadStep ==
    ASSUME Inv, PassedKept, NEW a \in Actors, AssignRead(a)
    PROVE  Inv'
<1>1. Busy(a) /\ Top(a).at = "assign"
    BY DEF AssignRead, At
<1>2. /\ Top(a).phase \in Ids
      /\ Top(a) \in [at : {"assign", "create"}, phase : Ids, sub : Maybe, retain : BOOLEAN]
      /\ a # "consumer" => Top(a).retain
    BY <1>1, AtFacts DEF Inv
<1>3. TypeOK' /\ phases' \in Seq(Stages) /\ inbox' \subseteq Messages
      /\ UNCHANGED <<status, winner>>
    BY RestTyped DEF AssignRead
<1> DEFINE f == Top(a)
           C == {t \in 1 .. arrived : ~Seen(t)}
           s == Choice(f.sub, C)
           create == [f EXCEPT !.at = "create", !.sub = s]
<1>4. s \in Maybe
  <2>1. C \subseteq Subs
      BY IterativeAssumption DEF Inv, TypeOK, Subs, IterativeAssumption
  <2> HIDE DEF C
  <2> QED BY <2>1, ChoiceFacts, SubFacts
<1>5. \/ Continue(a, <<create>>)
      \/ ~f.retain /\ Continue(a, <<End(f.phase, TRUE)>>)
      \/ Continue(a, <<>>)
    BY DEF AssignRead
<1> HIDE DEF s
<1>6. create \in Calm /\ (a # "consumer" => create \in BackFrames)
    BY <1>2, <1>4 DEF Calm, BackFrames
<1>7. End(f.phase, TRUE) \in Calm
    BY <1>2, CalmFrames
<1>8. CASE a = "consumer"
  <2> HIDE DEF create
  <2>1. PICK fs \in Seq(Calm) : Continue(a, fs)
      BY <1>5, <1>6, <1>7, EmptySeq, SeqOne
  <2>2. Stacks' /\ WinnerPassed'
      BY <1>1, <1>3, <1>8, <2>1, ContinueCalm
  <2> QED BY <1>3, <2>2 DEF Inv
<1>9. CASE a # "consumer"
  <2> HIDE DEF create
  <2>1. PICK fs \in Seq(BackFrames) : Continue(a, fs)
      BY <1>2, <1>5, <1>6, <1>9, EmptySeq, SeqOne
  <2>2. Stacks' /\ WinnerPassed'
      BY <1>1, <1>3, <1>9, <2>1, ContinueBackground
  <2> QED BY <1>3, <2>2 DEF Inv
<1> QED BY <1>8, <1>9

LEMMA CreateReviewStep ==
    ASSUME Inv, PassedKept, NEW a \in Actors, CreateReview(a)
    PROVE  Inv'
<1>1. Busy(a) /\ Top(a).at = "create"
    BY DEF CreateReview, At
<1>2. /\ Top(a) \in [at : {"assign", "create"}, phase : Ids, sub : Maybe, retain : BOOLEAN]
      /\ a # "consumer" => Top(a).retain
    BY <1>1, AtFacts DEF Inv
<1> DEFINE again == [Top(a) EXCEPT !.at = "assign", !.sub = None]
<1>3. again \in Calm /\ (a # "consumer" => again \in BackFrames)
    BY <1>2, SubFacts DEF Calm, BackFrames
<1>4. Continue(a, <<>>) \/ Continue(a, <<again>>)
    BY DEF CreateReview, Return
<1>5. UNCHANGED <<status, winner>>
    BY DEF CreateReview, challenge
<1>6. Stacks' /\ WinnerPassed'
  <2> HIDE DEF again
  <2>1. CASE a = "consumer"
    <3>1. PICK fs \in Seq(Calm) : Continue(a, fs)
        BY <1>3, <1>4, EmptySeq, SeqOne
    <3> QED BY <1>1, <1>5, <2>1, <3>1, ContinueCalm
  <2>2. CASE a # "consumer"
    <3>1. PICK fs \in Seq(BackFrames) : Continue(a, fs)
        BY <1>3, <1>4, <2>2, EmptySeq, SeqOne
    <3> QED BY <1>1, <1>5, <2>2, <3>1, ContinueBackground
  <2> QED BY <2>1, <2>2
<1>7. review' \in [Ids \X Subs -> Results \cup {"none", "pending"}]
    BY DEF CreateReview, Inv, TypeOK
<1>8. verifying' \in BOOLEAN
    BY DEF CreateReview, Inv, TypeOK
<1>9. TypeOK' /\ phases' \in Seq(Stages) /\ inbox' \subseteq Messages
    BY <1>7, <1>8 DEF CreateReview, Inv, TypeOK, challenge, world
<1> QED BY <1>6, <1>9 DEF Inv

LEMMA OpenedReadStep ==
    ASSUME Inv, PassedKept, NEW a \in Actors, OpenedRead(a)
    PROVE  Inv'
<1>1. Busy(a) /\ Top(a).at = "opened"
    BY DEF OpenedRead, At
<1>2. a # "consumer" /\ Top(a).phase \in Ids
    BY <1>1, AtFacts DEF Inv
<1>3. TypeOK' /\ phases' \in Seq(Stages) /\ inbox' \subseteq Messages
      /\ UNCHANGED <<status, winner>>
    BY RestTyped DEF OpenedRead
<1> DEFINE f == Assign(Top(a).phase, None, TRUE)
           g == [at |-> "processed", phase |-> Top(a).phase]
<1>4. f \in BackFrames /\ g \in BackFrames
    BY <1>2, SubFacts DEF Assign, BackFrames
<1>5. Continue(a, <<f>> \o <<g>>) \/ Continue(a, <<>> \o <<g>>)
    BY DEF OpenedRead
<1> HIDE DEF f, g
<1>6. PICK fs \in Seq(BackFrames) : Continue(a, fs)
  <2>1. <<f>> \in Seq(BackFrames) /\ <<g>> \in Seq(BackFrames) /\ <<>> \in Seq(BackFrames)
      BY <1>4, EmptySeq, SeqOne
  <2>2. <<f>> \o <<g>> \in Seq(BackFrames) /\ <<>> \o <<g>> \in Seq(BackFrames)
      BY <2>1, ConcatProperties
  <2> QED BY <1>5, <2>2
<1>7. Stacks' /\ WinnerPassed'
    BY <1>1, <1>2, <1>3, <1>6, ContinueBackground
<1> QED BY <1>3, <1>7 DEF Inv

LEMMA ProcessedStep ==
    ASSUME Inv, PassedKept, NEW a \in Actors, Processed(a)
    PROVE  Inv'
<1>1. Busy(a) /\ Top(a).at = "processed"
    BY DEF Processed, At
<1>2. a # "consumer" /\ Top(a).phase \in Ids
    BY <1>1, AtFacts DEF Inv
<1>3. UNCHANGED <<status, winner>> /\ <<>> \in Seq(BackFrames)
    BY EmptySeq DEF Processed, challenge
<1>4. Stacks' /\ WinnerPassed'
    BY <1>1, <1>2, <1>3, ContinueBackground DEF Processed, Return
<1>5. TypeOK' /\ phases' \in Seq(Stages) /\ inbox' \subseteq Messages
    BY <1>2 DEF Processed, Inv, TypeOK, challenge, world
<1> QED BY <1>4, <1>5 DEF Inv

-----------------------------------------------------------------------------
(* The environment and the starts of handlers *)

LEMMA SubmitStep ==
    ASSUME Inv, PassedKept, Submit
    PROVE  Inv'
<1>1. UNCHANGED <<status, winner, stack>>
    BY DEF Submit, challenge
<1>2. arrived + 1 \in Subs /\ arrived' \in 0 .. NumSubs
    BY IterativeAssumption DEF Submit, Inv, TypeOK, Subs, IterativeAssumption
<1>3. inbox' \subseteq Messages
    BY <1>2 DEF Submit, Inv, Submission, Messages
<1>4. TypeOK' /\ phases' \in Seq(Stages)
    BY <1>2 DEF Submit, Inv, TypeOK, challenge, memory
<1> QED BY <1>1, <1>3, <1>4, IdleStacks DEF Inv

LEMMA ReviewerStep ==
    ASSUME Inv, PassedKept, AddReviewer
    PROVE  Inv'
<1>1. UNCHANGED <<status, winner, stack>>
    BY DEF AddReviewer, challenge
<1>2. TypeOK' /\ phases' \in Seq(Stages) /\ inbox' \subseteq Messages
    BY DEF AddReviewer, Inv, TypeOK, challenge, memory, ReviewerAdded, Messages
<1> QED BY <1>1, <1>2, IdleStacks DEF Inv

LEMMA CompleteReviewStep ==
    ASSUME Inv, PassedKept, CompleteReview
    PROVE  Inv'
<1>1. UNCHANGED <<status, winner, stack>>
    BY DEF CompleteReview, challenge
<1>2. review' \in [Ids \X Subs -> Results \cup {"none", "pending"}]
    BY DEF CompleteReview, Inv, TypeOK
<1>3. inbox' \subseteq Messages
  <2>1. PICK p \in Ids, s \in Subs : inbox' = inbox \cup {ReviewCompleted(p, s)}
      BY DEF CompleteReview
  <2>2. ReviewCompleted(p, s) \in Messages
      BY DEF ReviewCompleted, Messages
  <2> QED BY <2>1, <2>2 DEF Inv
<1>4. TypeOK' /\ phases' \in Seq(Stages)
    BY <1>2 DEF CompleteReview, Inv, TypeOK, challenge, memory
<1> QED BY <1>1, <1>3, <1>4, IdleStacks DEF Inv

LEMMA SubmissionEndsStep ==
    ASSUME Inv, PassedKept, SubmissionEnds
    PROVE  Inv'
<1>1. UNCHANGED <<status, winner>> /\ delivering' = FALSE
    BY DEF SubmissionEnds
<1>2. Stacks' /\ WinnerPassed'
  <2>1. CASE UNCHANGED stack
      BY <1>1, <2>1, IdleStacks
  <2>2. CASE Start("consumer", Finalize)
      BY <1>1, <2>2, StartCalm, CalmFrames
  <2> QED BY <2>1, <2>2 DEF SubmissionEnds
<1>3. TypeOK' /\ phases' \in Seq(Stages) /\ inbox' \subseteq Messages
    BY <1>1 DEF SubmissionEnds, Inv, TypeOK, world, memory
<1> QED BY <1>2, <1>3 DEF Inv

LEMMA HandlerTyped == ASSUME NEW m \in Messages PROVE Handler(m) \in Calm
<1>1. CASE m \in [kind : {"submission"}, sub : Subs]
    BY <1>1, SubFacts DEF Handler, Calm
<1>2. CASE m \in [kind : {"completed"}, phase : Ids, sub : Subs]
    BY <1>2 DEF Handler, Calm
<1>3. CASE m \in [kind : {"reviewer"}]
    BY <1>3, SubFacts DEF Handler, Calm
<1> QED BY <1>1, <1>2, <1>3 DEF Messages

LEMMA ConsumeStep ==
    ASSUME Inv, PassedKept, NEW m \in inbox, Consume(m) \/ ConsumeTwice(m)
    PROVE  Inv'
<1>1. Handler(m) \in Calm /\ Start("consumer", Handler(m))
    BY HandlerTyped DEF Consume, ConsumeTwice, Inv
<1>2. UNCHANGED <<challenge, arrived, staffed, phases, review, memory>>
      /\ inbox' \subseteq inbox
    BY DEF Consume, ConsumeTwice, world
<1>3. UNCHANGED <<status, winner>>
    BY <1>2 DEF challenge
<1>4. Stacks' /\ WinnerPassed'
    BY <1>1, <1>3, StartCalm
<1>5. TypeOK' /\ phases' \in Seq(Stages) /\ inbox' \subseteq Messages
    BY <1>2 DEF Inv, TypeOK, challenge, memory
<1> QED BY <1>4, <1>5 DEF Inv

LEMMA DueStep ==
    ASSUME Inv, PassedKept, NEW p \in Ids, Due(p)
    PROVE  Inv'
<1>1. TypeOK' /\ phases' \in Seq(Stages) /\ inbox' \subseteq Messages
      /\ UNCHANGED <<status, winner>>
    BY RestTyped DEF Due
<1>2. End(p, TRUE) \in Calm
    BY CalmFrames
<1> QED BY <1>1, <1>2, StartCalm DEF Due, Inv

LEMMA ReplayStep ==
    ASSUME Inv, PassedKept, NEW p \in Ids, ReplayUpdate(p)
    PROVE  Inv'
<1>1. TypeOK' /\ phases' \in Seq(Stages) /\ inbox' \subseteq Messages
      /\ UNCHANGED <<status, winner>>
    BY RestTyped DEF ReplayUpdate
<1> DEFINE f == [at |-> "opened", phase |-> p]
<1>2. f \in BackFrames
    BY DEF BackFrames
<1>3. PICK b \in Background : Start(b, f)
    BY DEF ReplayUpdate
<1> HIDE DEF f
<1> QED BY <1>1, <1>2, <1>3, StartBackground DEF Inv

LEMMA VerifyStep ==
    ASSUME Inv, PassedKept, Verify
    PROVE  Inv'
<1>1. UNCHANGED <<status, winner>>
    BY DEF Verify, challenge
<1>2. Stacks' /\ WinnerPassed'
  <2>1. CASE UNCHANGED stack
      BY <1>1, <2>1, IdleStacks
  <2>2. CASE EarliestOpen # None
             /\ \E b \in Background : Start(b, Assign(EarliestOpen, None, TRUE))
    <3>1. EarliestOpen \in Ids
        BY <2>2, PhaseFacts DEF Inv
    <3>2. Assign(EarliestOpen, None, TRUE) \in BackFrames
        BY <3>1, SubFacts DEF Assign, BackFrames
    <3> QED BY <1>1, <2>2, <3>2, StartBackground
  <2> QED BY <2>1, <2>2 DEF Verify
<1>3. TypeOK' /\ phases' \in Seq(Stages) /\ inbox' \subseteq Messages
    BY DEF Verify, Inv, TypeOK, challenge, world
<1> QED BY <1>2, <1>3 DEF Inv

-----------------------------------------------------------------------------
(* The invariant *)

LEMMA InitInv == Init => Inv
<1> SUFFICES ASSUME Init PROVE Inv
    OBVIOUS
<1>1. 1 \in Ids /\ Len(phases) = 1 /\ phases \in Seq(Stages)
    BY IterativeAssumption DEF Init, Ids, Stages, IterativeAssumption
<1>2. arrived \in 0 .. NumSubs
    BY IterativeAssumption DEF Init, IterativeAssumption
<1>3. review \in [Ids \X Subs -> Results \cup {"none", "pending"}]
    BY DEF Init
<1>4. TypeOK
    BY <1>1, <1>2, <1>3, PhasesTyped DEF Init, TypeOK
<1>5. Stacks
    BY EmptySeq DEF Init, Stacks
<1> QED BY <1>1, <1>4, <1>5 DEF Init, Inv, WinnerPassed

LEMMA HandleStep ==
    ASSUME Inv, PassedKept, NEW a \in Actors, Handle(a)
    PROVE  Inv' /\ (status # "ACTIVE" => status' = status)
<1>1. CASE EndRead(a) \/ EndClose(a) \/ FinalizeRead(a)
  <2>1. Inv'
      BY <1>1, EndReadStep, EndCloseStep, FinalizeReadStep
  <2> QED BY <1>1, <2>1 DEF EndRead, EndClose, FinalizeRead, challenge
<1>2. CASE FinalizeWrite(a)
    BY <1>2, FinalizeWriteStep
<1>3. CASE FinishWrite(a)
    BY <1>3, FinishWriteStep
<1>4. CASE CompletedRead(a) \/ FinishClose(a) \/ ClosedRead(a) \/ NextRead(a)
  <2>1. Inv'
      BY <1>4, CompletedReadStep, FinishCloseStep, ClosedReadStep, NextReadStep
  <2> QED BY <1>4, <2>1 DEF CompletedRead, FinishClose, ClosedRead, NextRead, challenge
<1>5. CASE SubmissionRead(a) \/ SubmissionCheck(a) \/ Reopen(a) \/ CreatePhase(a)
  <2>1. Inv'
      BY <1>5, SubmissionReadStep, SubmissionCheckStep, OpenStep
  <2> QED BY <1>5, <2>1 DEF SubmissionRead, SubmissionCheck, Reopen, CreatePhase, challenge
<1>6. CASE AssignRead(a) \/ CreateReview(a) \/ OpenedRead(a) \/ Processed(a)
  <2>1. Inv'
      BY <1>6, AssignReadStep, CreateReviewStep, OpenedReadStep, ProcessedStep
  <2> QED BY <1>6, <2>1 DEF AssignRead, CreateReview, OpenedRead, Processed, challenge
<1> QED BY <1>1, <1>2, <1>3, <1>4, <1>5, <1>6 DEF Handle, Advance, Outcome, Provide

LEMMA InvStep ==
    ASSUME Inv, [Next]_vars
    PROVE  Inv' /\ (status # "ACTIVE" => status' = status)
<1>1. PassedKept
    BY NextKeeps
<1>2. CASE UNCHANGED vars
  <2>1. Stacks' /\ WinnerPassed'
      BY <1>1, <1>2, IdleStacks DEF vars
  <2> QED BY <1>2, <2>1 DEF vars, Inv, TypeOK
<1>3. CASE Submit \/ AddReviewer \/ CompleteReview \/ SubmissionEnds
  <2>1. Inv'
      BY <1>1, <1>3, SubmitStep, ReviewerStep, CompleteReviewStep, SubmissionEndsStep
  <2> QED BY <1>3, <2>1 DEF Submit, AddReviewer, CompleteReview, SubmissionEnds, challenge
<1>4. CASE \E m \in inbox : Consume(m) \/ ConsumeTwice(m)
  <2>1. Inv'
      BY <1>1, <1>4, ConsumeStep
  <2> QED BY <1>4, <2>1 DEF Consume, ConsumeTwice, challenge
<1>5. CASE \E p \in Ids : Due(p) \/ ReplayUpdate(p)
  <2>1. Inv'
      BY <1>1, <1>5, DueStep, ReplayStep
  <2> QED BY <1>5, <2>1 DEF Due, ReplayUpdate, challenge
<1>6. CASE Verify
  <2>1. Inv'
      BY <1>1, <1>6, VerifyStep
  <2> QED BY <1>6, <2>1 DEF Verify, challenge
<1>7. CASE \E a \in Actors : Handle(a)
    BY <1>1, <1>7, HandleStep
<1> QED BY <1>2, <1>3, <1>4, <1>5, <1>6, <1>7 DEF Next

LEMMA InvAlways == Spec => []Inv
<1>1. Inv /\ [Next]_vars => Inv'
    BY InvStep
<1> QED BY InitInv, <1>1, PTL DEF Spec

-----------------------------------------------------------------------------
(* The theorems *)

\* Every variable keeps its type: the challenge, its phases, reviews and maps.
THEOREM IterativeTypeCorrect == Spec => []TypeOK
<1>1. Inv => TypeOK
    BY DEF Inv
<1> QED BY <1>1, InvAlways, PTL

\* A completed challenge has a winner whose review passed, whichever of the three
\* paths wrote it (handleIterativeReviewCompletion, handleIterativePhaseClosed,
\* finalizeChallenge).
THEOREM WinnerAlwaysPassed == Spec => []WinnerPassed
<1>1. Inv => WinnerPassed
    BY DEF Inv
<1> QED BY <1>1, InvAlways, PTL

\* An outcome is not rewritten, although the writes are unconditional and follow
\* the read of the status by some awaits (completeChallengeWithWinners,
\* finalizeChallenge).
THEOREM OutcomeStays == Spec => OutcomeIsFinal
<1>1. Inv /\ [Next]_vars => [status # "ACTIVE" => status' = status]_vars
    BY InvStep
<1> QED BY <1>1, InvAlways, PTL DEF Spec, OutcomeIsFinal
=============================================================================
