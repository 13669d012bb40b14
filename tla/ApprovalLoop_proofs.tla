------------------------- MODULE ApprovalLoop_proofs -------------------------
(***************************************************************************)
(* Proofs about ApprovalLoop, for any approvers and bounds: there is never *)
(* more than one open Approval, none ends without a verdict, and a verdict *)
(* given stays; the lock never leaks, nothing stops half-way unless it was *)
(* abandoned, and phases keep the life of PhaseLifecycle.                  *)
(***************************************************************************)
EXTENDS ApprovalLoop, FiniteSetTheorems, SequenceTheorems, TLAPS

\* An END whose phase has been read knows it, and one that may close an
\* Approval has seen a completed review.
EndFrame == [at : {"pending", "completed", "close"}, phase : Ids, prevent : BOOLEAN]

Seen(f) ==
    /\ f.at # "pending" => f.phase \in DOMAIN phases
    /\ f.at = "close" /\ phases[f.phase].kind = "approval" => Completed(f.phase) # {}

\* The frames of every handler but the one that opens the next Approval
Frames ==
    {f \in EndFrame : Seen(f)} \cup [at : {"finalize"}]
        \cup [at : {"followup"}, phase : Ids, fixing : BOOLEAN]
        \cup [at : {"prepare", "prepared"}, phase : Ids]

\* The handler that opens the next Approval has no other frame.
Looping(a) ==
    Busy(a) /\ Top(a).at \in {"check", "create", "assign"} /\ stack[a] = <<Top(a)>>

\* It has the lock, and so it alone can open an Approval.
Stacks ==
    /\ stack = [a \in Actors |-> stack[a]]
    /\ \A a \in Actors : Looping(a) \/ stack[a] \in Seq(Frames)
    /\ \A a \in Actors : Looping(a) => locked /\ \A b \in Actors : Looping(b) => a = b
    /\ \A a \in Actors : At(a, "create") => Open("approval") = {}

Messages ==
    [kind : {"completed"}, phase : Ids, approver : Approvers, sub : Subs]
        \cup [kind : {"submission"}, sub : Subs]

OneOpen == \A p, q \in Open("approval") : p = q

Inv ==
    /\ TypeOK
    /\ inbox \subseteq Messages /\ handling \subseteq Messages
    /\ OneOpen /\ EndedWithVerdict /\ Stacks

-----------------------------------------------------------------------------
(* Sequences of frames *)

LEMMA OneFrame ==
    ASSUME NEW f
    PROVE  /\ Head(<<f>>) = f /\ <<f>> # <<>>
           /\ <<f>> \o Tail(<<f>>) = <<f>> /\ <<>> \o Tail(<<f>>) = <<>>
           /\ \A g : <<g>> \o Tail(<<f>>) = <<g>>
<1>1. Head(<<f>>) = f /\ <<f>> # <<>> /\ Tail(<<f>>) = <<>>
    OBVIOUS
<1>2. \A g : <<g>> \o <<>> = <<g>>
  <2> TAKE g
  <2>1. <<g>> \in Seq({g})
      OBVIOUS
  <2> QED BY <2>1, ConcatEmptySeq
<1>3. <<>> \o <<>> = <<>>
    BY ConcatEmptySeq, EmptySeq
<1> QED BY <1>1, <1>2, <1>3

\* The frames that are on no stack of their own are not those of the loop.
LEMMA TopFacts ==
    ASSUME NEW a \in Actors, stack[a] \in Seq(Frames), Busy(a)
    PROVE  /\ Top(a) \in Frames /\ Tail(stack[a]) \in Seq(Frames)
           /\ Top(a).at \notin {"check", "create", "assign"}
<1>1. Top(a) \in Frames /\ Tail(stack[a]) \in Seq(Frames)
    BY HeadTailProperties DEF Busy, Top
<1> QED BY <1>1 DEF Frames, EndFrame

\* At a step that is not of the loop, a handler has plain frames.
LEMMA PlainTop ==
    ASSUME Stacks, NEW a \in Actors, Busy(a),
           Top(a).at \notin {"check", "create", "assign"}
    PROVE  stack[a] \in Seq(Frames) /\ Top(a) \in Frames /\ Tail(stack[a]) \in Seq(Frames)
<1>1. stack[a] \in Seq(Frames)
    BY DEF Stacks, Looping
<1> QED BY <1>1, TopFacts

LEMMA LoopTop ==
    ASSUME Stacks, NEW a \in Actors, Busy(a),
           Top(a).at \in {"check", "create", "assign"}
    PROVE  Looping(a)
<1>1. ~(stack[a] \in Seq(Frames))
    BY TopFacts
<1> QED BY <1>1 DEF Stacks

-----------------------------------------------------------------------------
(* What no step undoes *)

Grows ==
    \A p \in DOMAIN phases : p \in DOMAIN phases' /\ phases'[p].kind = phases[p].kind

\* The body of VerdictsKept
Kept == \A k \in DOMAIN review : review[k] \in Verdicts => review'[k] = review[k]

LEMMA NextKeeps == ASSUME [Next]_vars PROVE Kept
<1>1. CASE UNCHANGED vars
    BY <1>1 DEF vars, Kept
<1>2. CASE CompleteReview
    BY <1>2 DEF CompleteReview, Kept, Verdicts
<1>3. CASE Submit
    BY <1>3 DEF Submit, Kept
<1>4. CASE \E m \in inbox : Consume(m)
    BY <1>4 DEF Consume, ConsumeReview, ConsumeSubmission, Kept
<1>5. CASE Restart \/ Crash
    BY <1>5 DEF Restart, Crash, Kept
<1>6. CASE \E p \in Ids : Schedule(p) \/ Fire(p)
    BY <1>6 DEF Schedule, Fire, Kept
<1>7. CASE Update
    BY <1>7 DEF Update, Kept
<1>8. ASSUME NEW a \in Actors, Handle(a) PROVE Kept
  <2>1. CASE PendingRead(a) \/ CompletedRead(a) \/ EndClose(a) \/ FinalizeWrite(a)
      BY <2>1 DEF PendingRead, CompletedRead, StoreRead, EndClose, FinalizeWrite, Kept
  <2>2. CASE CreateFix(a) \/ LoopCheck(a) \/ CreateApproval(a)
      BY <2>2 DEF CreateFix, LoopCheck, CreateApproval, Kept
  <2>3. CASE AssignApproval(a)
      BY <2>3 DEF AssignApproval, WithReviews, Kept, Verdicts
  <2>4. CASE PrepareDelete(a)
      BY <2>4 DEF PrepareDelete, Kept, Verdicts
  <2>5. CASE PrepareCreate(a)
      BY <2>5 DEF PrepareCreate, WithReviews, Kept, Verdicts
  <2> QED BY <1>8, <2>1, <2>2, <2>3, <2>4, <2>5 DEF Handle, Advance, Loop, Reconcile
<1> QED BY <1>1, <1>2, <1>3, <1>4, <1>5, <1>6, <1>7, <1>8 DEF Next

LEMMA CompletedKept ==
    ASSUME TypeOK, Kept, NEW p \in Ids, Completed(p) # {}
    PROVE  Completed(p)' # {}
<1>1. PICK k \in Approvers \X Subs : review[<<p, k[1], k[2]>>] \in Verdicts
    BY DEF Completed, In
<1>2. <<p, k[1], k[2]>> \in DOMAIN review
    BY <1>1 DEF TypeOK
<1>3. review'[<<p, k[1], k[2]>>] \in Verdicts
    BY <1>1, <1>2 DEF Kept
<1> QED BY <1>3 DEF Completed, In

LEMMA PhaseFacts ==
    ASSUME TypeOK
    PROVE  /\ Len(phases) \in Nat /\ Len(phases) <= MaxPhases /\ 1 <= Len(phases)
           /\ DOMAIN phases = 1 .. Len(phases) /\ DOMAIN phases \subseteq Ids
           /\ \A p \in DOMAIN phases :
                phases[p] \in [kind : {"approval", "fix"}, open : BOOLEAN]
<1>1. /\ Len(phases) \in Nat /\ Len(phases) <= MaxPhases /\ 1 <= Len(phases)
      /\ DOMAIN phases = 1 .. Len(phases)
    BY LenProperties, ApprovalAssumption DEF TypeOK, Ids, ApprovalAssumption
<1>2. DOMAIN phases \subseteq Ids
    BY <1>1, ApprovalAssumption DEF Ids, ApprovalAssumption
<1>3. \A p \in DOMAIN phases : phases[p] \in [kind : {"approval", "fix"}, open : BOOLEAN]
    BY <1>1, ElementOfSeq DEF TypeOK
<1> QED BY <1>1, <1>2, <1>3

LEMMA FramesKept ==
    ASSUME TypeOK, Kept, Grows
    PROVE  Frames \subseteq Frames'
<1>1. ASSUME NEW f \in EndFrame, Seen(f) PROVE Seen(f)'
  <2>1. f.phase \in Ids
      BY DEF EndFrame
  <2> QED BY <1>1, <2>1, CompletedKept DEF Seen, Grows
<1> QED BY <1>1 DEF Frames

-----------------------------------------------------------------------------
(* What a step does to the stacks *)

Moves(a) ==
    /\ stack' = [b \in Actors |-> stack'[b]]
    /\ \A b \in Actors \ {a} : stack'[b] = stack[b]

LEMMA ContinueMoves ==
    ASSUME Stacks, NEW a \in Actors, NEW fs, Continue(a, fs)
    PROVE  Moves(a) /\ stack'[a] = fs \o Tail(stack[a])
BY DEF Stacks, Continue, Moves

LEMMA ContinuePlain ==
    ASSUME Stacks, NEW a \in Actors, stack[a] \in Seq(Frames), Busy(a), Frames \subseteq Frames',
           NEW fs \in Seq(Frames'), Continue(a, fs)
    PROVE  Moves(a) /\ stack'[a] \in Seq(Frames')
<1>1. Tail(stack[a]) \in Seq(Frames')
    BY TopFacts, SeqMonotonic
<1>2. fs \o Tail(stack[a]) \in Seq(Frames')
    BY <1>1, ConcatProperties
<1> QED BY <1>2, ContinueMoves

LEMMA StartMoves ==
    ASSUME Stacks, NEW a \in Actors, NEW fs, Start(a, fs)
    PROVE  Moves(a) /\ stack'[a] = fs /\ ~Busy(a) /\ ~Looping(a)
BY DEF Stacks, Start, Moves, Looping

\* A step of plain frames leaves the loop alone.
LEMMA StacksPlain ==
    ASSUME Stacks, NEW a \in Actors, Moves(a), ~Looping(a),
           stack'[a] \in Seq(Frames'), Frames \subseteq Frames', locked' = locked,
           Open("approval")' \subseteq Open("approval")
    PROVE  Stacks'
<1>1. ~Looping(a)' /\ ~At(a, "create")'
  <2>1. Busy(a)' => Head(stack'[a]) \in Frames'
      BY HeadTailProperties DEF Busy
  <2> QED BY <2>1 DEF Looping, At, Busy, Top, Frames, EndFrame
<1>2. ASSUME NEW b \in Actors, b # a
      PROVE  /\ stack'[b] = stack[b] /\ Looping(b)' = Looping(b)
             /\ At(b, "create")' = At(b, "create")
    BY <1>2 DEF Moves, Looping, At, Busy, Top
<1>3. ASSUME NEW b \in Actors PROVE Looping(b)' \/ stack'[b] \in Seq(Frames')
    BY <1>2, SeqMonotonic DEF Stacks
<1>4. ASSUME NEW b \in Actors, Looping(b)'
      PROVE  locked' /\ \A c \in Actors : Looping(c)' => b = c
    BY <1>1, <1>2, <1>4 DEF Stacks
<1>5. ASSUME NEW b \in Actors, At(b, "create")' PROVE Open("approval")' = {}
    BY <1>1, <1>2, <1>5 DEF Stacks
<1> QED BY <1>3, <1>4, <1>5 DEF Stacks, Moves

\* A step of the loop, or its begin
LEMMA StacksLoop ==
    ASSUME Stacks, NEW a \in Actors, Moves(a), Frames \subseteq Frames',
           \A b \in Actors : Looping(b) => b = a,
           \/ stack'[a] = <<>>
           \/ \E g : /\ stack'[a] = <<g>> /\ g.at \in {"check", "create", "assign"} /\ locked'
                     /\ g.at = "create" => Open("approval")' = {}
    PROVE  Stacks'
<1>1. ASSUME NEW b \in Actors, b # a
      PROVE  stack'[b] \in Seq(Frames') /\ ~Looping(b)' /\ ~At(b, "create")'
  <2>1. stack'[b] = stack[b] /\ stack[b] \in Seq(Frames)
      BY <1>1 DEF Stacks, Moves
  <2>2. Busy(b)' => Head(stack'[b]) \in Frames
      BY <2>1, HeadTailProperties DEF Busy
  <2>3. ~Looping(b)' /\ ~At(b, "create")'
      BY <2>2 DEF Looping, At, Busy, Top, Frames, EndFrame
  <2> QED BY <2>1, <2>3, SeqMonotonic
<1>2. CASE stack'[a] = <<>>
  <2>1. ~Looping(a)' /\ ~At(a, "create")' /\ stack'[a] \in Seq(Frames')
      BY <1>2, EmptySeq DEF Looping, At, Busy
  <2> QED BY <1>1, <2>1 DEF Stacks, Moves
<1>3. CASE \E g : /\ stack'[a] = <<g>> /\ g.at \in {"check", "create", "assign"} /\ locked'
                  /\ g.at = "create" => Open("approval")' = {}
  <2>1. PICK g : /\ stack'[a] = <<g>> /\ g.at \in {"check", "create", "assign"} /\ locked'
                 /\ g.at = "create" => Open("approval")' = {}
      BY <1>3
  <2>2. Head(stack'[a]) = g /\ stack'[a] # <<>>
      BY <2>1, OneFrame
  <2>3. Looping(a)' /\ (At(a, "create")' => Open("approval")' = {})
      BY <2>1, <2>2 DEF Looping, At, Busy, Top
  <2> QED BY <1>1, <2>1, <2>3 DEF Stacks, Moves
<1> QED BY <1>2, <1>3

LEMMA StacksSame ==
    ASSUME Stacks, UNCHANGED <<stack, locked>>, Frames \subseteq Frames',
           Open("approval")' \subseteq Open("approval")
    PROVE  Stacks'
<1>1. ASSUME NEW b \in Actors
      PROVE  Looping(b)' = Looping(b) /\ At(b, "create")' = At(b, "create")
    BY DEF Looping, At, Busy, Top
<1>2. ASSUME NEW b \in Actors PROVE Looping(b)' \/ stack'[b] \in Seq(Frames')
    BY <1>1, SeqMonotonic DEF Stacks
<1> QED BY <1>1, <1>2 DEF Stacks

LEMMA PhasesSame ==
    ASSUME Inv, Kept, UNCHANGED phases
    PROVE  /\ Frames \subseteq Frames' /\ OneOpen' /\ EndedWithVerdict'
           /\ Open("approval")' = Open("approval")
<1>1. Frames \subseteq Frames'
    BY FramesKept DEF Grows, Inv
<1>2. Open("approval")' = Open("approval") /\ Of("approval")' = Of("approval")
    BY DEF Open, Of
<1>3. EndedWithVerdict'
  <2>1. ASSUME NEW p \in Of("approval"), ~IsOpen(p) PROVE Completed(p)' # {}
    <3>1. p \in Ids
        BY PhaseFacts DEF Inv, Of
    <3> QED BY <2>1, <3>1, CompletedKept DEF Inv, EndedWithVerdict
  <2> QED BY <1>2, <2>1 DEF EndedWithVerdict, IsOpen
<1> QED BY <1>1, <1>2, <1>3 DEF Inv, OneOpen

-----------------------------------------------------------------------------
(* advancePhase *)

LEMMA DeferTyped ==
    ASSUME TypeOK, NEW a \in Actors, Top(a).prevent \in BOOLEAN, Defer(a)
    PROVE  due' \in [Ids -> {"plain", "prevent"}]
BY DEF Defer, TypeOK

LEMMA PendingStep ==
    ASSUME Inv, Kept, NEW a \in Actors, PendingRead(a)
    PROVE  Inv'
<1>1. Busy(a) /\ Top(a).at = "pending" /\ ~Looping(a)
    BY DEF PendingRead, At, Looping
<1>2. stack[a] \in Seq(Frames) /\ Top(a) \in EndFrame
    BY <1>1, PlainTop DEF Inv, Frames
<1>3. Frames \subseteq Frames' /\ OneOpen' /\ EndedWithVerdict'
      /\ Open("approval")' = Open("approval")
    BY PhasesSame DEF PendingRead
<1>4. \/ Continue(a, <<>>)
      \/ IsOpen(Top(a).phase) /\ Continue(a, <<[Top(a) EXCEPT !.at = "completed"]>>)
    BY DEF PendingRead, Defer, Return
<1>5. Moves(a) /\ stack'[a] \in Seq(Frames')
  <2>1. CASE Continue(a, <<>>)
      BY <1>1, <1>2, <1>3, <2>1, ContinuePlain, EmptySeq DEF Inv
  <2>2. CASE IsOpen(Top(a).phase) /\ Continue(a, <<[Top(a) EXCEPT !.at = "completed"]>>)
    <3>1. [Top(a) EXCEPT !.at = "completed"] \in Frames
        BY <1>2, <2>2 DEF IsOpen, Frames, EndFrame, Seen
    <3>2. <<[Top(a) EXCEPT !.at = "completed"]>> \in Seq(Frames')
        BY <1>3, <3>1
    <3> QED BY <1>1, <1>2, <1>3, <2>2, <3>2, ContinuePlain DEF Inv
  <2> QED BY <1>4, <2>1, <2>2
<1>6. Stacks'
    BY <1>1, <1>3, <1>5, StacksPlain DEF Inv, PendingRead
<1>7. due' \in [Ids -> {"plain", "prevent"}]
    BY <1>2, DeferTyped DEF PendingRead, Inv, TypeOK, EndFrame
<1>8. TypeOK' /\ inbox' \subseteq Messages /\ handling' \subseteq Messages
    BY <1>7 DEF PendingRead, Inv, TypeOK, world, history
<1> QED BY <1>3, <1>6, <1>8 DEF Inv

LEMMA CompletedStep ==
    ASSUME Inv, Kept, NEW a \in Actors, CompletedRead(a)
    PROVE  Inv'
<1>1. Busy(a) /\ Top(a).at = "completed" /\ ~Looping(a)
    BY DEF CompletedRead, StoreRead, At, Looping
<1>2. stack[a] \in Seq(Frames) /\ Top(a) \in EndFrame /\ Seen(Top(a))
    BY <1>1, PlainTop DEF Inv, Frames
<1>3. Frames \subseteq Frames' /\ OneOpen' /\ EndedWithVerdict'
      /\ Open("approval")' = Open("approval")
    BY PhasesSame DEF CompletedRead, StoreRead
<1> DEFINE closing == [Top(a) EXCEPT !.at = "close"]
<1>4. \/ Continue(a, <<>>)
      \/ /\ phases[Top(a).phase].kind = "approval" => Completed(Top(a).phase) # {}
         /\ Continue(a, <<closing>>)
    BY DEF CompletedRead, StoreRead, Defer, Return
<1>5. Moves(a) /\ stack'[a] \in Seq(Frames')
  <2>1. CASE Continue(a, <<>>)
      BY <1>1, <1>2, <1>3, <2>1, ContinuePlain, EmptySeq DEF Inv
  <2>2. CASE /\ phases[Top(a).phase].kind = "approval" => Completed(Top(a).phase) # {}
             /\ Continue(a, <<closing>>)
    <3>1. closing \in EndFrame /\ closing.phase = Top(a).phase /\ closing.at = "close"
        BY <1>2 DEF EndFrame
    <3>2. Seen(closing)
        BY <1>1, <1>2, <2>2, <3>1 DEF Seen
    <3>3. <<closing>> \in Seq(Frames')
      <4>1. closing \in Frames
          BY <3>1, <3>2 DEF Frames
      <4>2. closing \in Frames'
          BY <1>3, <4>1
      <4> HIDE DEF closing
      <4> QED BY <4>2
    <3> HIDE DEF closing
    <3> QED BY <1>1, <1>2, <1>3, <2>2, <3>3, ContinuePlain DEF Inv
  <2> QED BY <1>4, <2>1, <2>2
<1>6. Stacks'
    BY <1>1, <1>3, <1>5, StacksPlain DEF Inv, CompletedRead, StoreRead
<1>7. due' \in [Ids -> {"plain", "prevent"}]
    BY <1>2, DeferTyped DEF CompletedRead, StoreRead, Inv, TypeOK, EndFrame
<1>8. TypeOK' /\ inbox' \subseteq Messages /\ handling' \subseteq Messages
    BY <1>7 DEF CompletedRead, StoreRead, Inv, TypeOK, world, history
<1> QED BY <1>3, <1>6, <1>8 DEF Inv

LEMMA CloseStep ==
    ASSUME Inv, Kept, NEW a \in Actors, EndClose(a)
    PROVE  Inv'
<1>1. Busy(a) /\ Top(a).at = "close" /\ ~Looping(a)
    BY DEF EndClose, At, Looping
<1>2. stack[a] \in Seq(Frames) /\ Top(a) \in EndFrame /\ Seen(Top(a))
    BY <1>1, PlainTop DEF Inv, Frames
<1> DEFINE p == Top(a).phase
<1>3. p \in DOMAIN phases /\ p \in Ids
    BY <1>1, <1>2, PhaseFacts DEF Seen, Inv
<1>4. \/ UNCHANGED phases
      \/ phases' = [phases EXCEPT ![p].open = FALSE]
    BY DEF EndClose
<1>5. /\ DOMAIN phases' = DOMAIN phases
      /\ \A q \in DOMAIN phases : phases'[q].kind = phases[q].kind
      /\ \A q \in DOMAIN phases : phases'[q].open => phases[q].open
      /\ \A q \in DOMAIN phases : q = p \/ phases'[q] = phases[q]
  <2>1. CASE UNCHANGED phases
      BY <2>1
  <2>2. CASE phases' = [phases EXCEPT ![p].open = FALSE]
      BY <1>3, <2>2, PhaseFacts DEF Inv
  <2> QED BY <1>4, <2>1, <2>2
<1>6. Frames \subseteq Frames' /\ Open("approval")' \subseteq Open("approval")
      /\ Of("approval")' = Of("approval")
    BY <1>5, FramesKept DEF Grows, Inv, Open, Of
<1>7. OneOpen'
    BY <1>6 DEF OneOpen, Inv
<1>8. EndedWithVerdict'
  <2>1. ASSUME NEW q \in Of("approval"), ~IsOpen(q)' PROVE Completed(q)' # {}
    <3>1. q \in DOMAIN phases /\ q \in Ids /\ phases[q].kind = "approval"
        BY PhaseFacts DEF Inv, Of
    <3>2. Completed(q) # {}
        BY <1>1, <1>2, <1>5, <2>1, <3>1 DEF Seen, IsOpen, Inv, EndedWithVerdict
    <3> QED BY <3>1, <3>2, CompletedKept DEF Inv
  <2> QED BY <1>6, <2>1 DEF EndedWithVerdict
<1>9. Moves(a) /\ stack'[a] \in Seq(Frames')
  <2>1. <<Finalize>> \in Seq(Frames') /\ <<>> \in Seq(Frames')
    <3>1. Finalize \in Frames'
        BY DEF Finalize, Frames
    <3> HIDE DEF Finalize
    <3> QED BY <3>1, EmptySeq
  <2>2. PICK fs \in Seq(Frames') : Continue(a, fs)
    <3>1. Continue(a, <<Finalize>>) \/ Continue(a, <<>>)
        BY DEF EndClose, Return
    <3> QED BY <2>1, <3>1
  <2> QED BY <1>1, <1>2, <1>6, <2>2, ContinuePlain DEF Inv
<1>10. Stacks'
    BY <1>1, <1>6, <1>9, StacksPlain DEF Inv, EndClose, memory
<1>11. phases' \in Seq([kind : {"approval", "fix"}, open : BOOLEAN]) /\ Len(phases') \in Ids
  <2>1. CASE UNCHANGED phases
      BY <2>1 DEF Inv, TypeOK
  <2>2. CASE phases' = [phases EXCEPT ![p].open = FALSE]
    <3>1. [phases[p] EXCEPT !.open = FALSE] \in [kind : {"approval", "fix"}, open : BOOLEAN]
        BY <1>3, PhaseFacts DEF Inv
    <3>2. phases' = [phases EXCEPT ![p] = [phases[p] EXCEPT !.open = FALSE]]
        BY <2>2
    <3>3. p \in 1 .. Len(phases)
        BY <1>3, PhaseFacts DEF Inv
    <3> HIDE DEF p
    <3> QED BY <3>1, <3>2, <3>3, ExceptSeq DEF Inv, TypeOK
  <2> QED BY <1>4, <2>1, <2>2
<1>12. abandoned' \in BOOLEAN
    BY DEF EndClose, Inv, TypeOK
<1>13. TypeOK' /\ inbox' \subseteq Messages /\ handling' \subseteq Messages
    BY <1>11, <1>12 DEF EndClose, Inv, TypeOK, world, memory
<1> QED BY <1>7, <1>8, <1>10, <1>13 DEF Inv

LEMMA FinalizeStep ==
    ASSUME Inv, Kept, NEW a \in Actors, FinalizeWrite(a)
    PROVE  Inv'
<1>1. Busy(a) /\ Top(a).at = "finalize" /\ ~Looping(a)
    BY DEF FinalizeWrite, At, Looping
<1>2. stack[a] \in Seq(Frames)
    BY <1>1, PlainTop DEF Inv
<1>3. Frames \subseteq Frames' /\ OneOpen' /\ EndedWithVerdict'
      /\ Open("approval")' = Open("approval")
    BY PhasesSame DEF FinalizeWrite
<1>4. Moves(a) /\ stack'[a] \in Seq(Frames')
    BY <1>1, <1>2, <1>3, ContinuePlain, EmptySeq DEF FinalizeWrite, Return, Inv
<1>5. Stacks'
    BY <1>1, <1>3, <1>4, StacksPlain DEF Inv, FinalizeWrite, memory
<1>6. TypeOK' /\ inbox' \subseteq Messages /\ handling' \subseteq Messages
    BY DEF FinalizeWrite, Inv, TypeOK, world, memory, history
<1> QED BY <1>3, <1>5, <1>6 DEF Inv

-----------------------------------------------------------------------------
(* New phases *)

\* A phase is added: those before it stay what they are.
LEMMA AppendPhase ==
    ASSUME Inv, Kept, NEW kind \in {"approval", "fix"}, Len(phases) < MaxPhases,
           phases' = Append(phases, Phase(kind))
    PROVE  /\ Frames \subseteq Frames' /\ EndedWithVerdict'
           /\ phases' \in Seq([kind : {"approval", "fix"}, open : BOOLEAN])
           /\ Len(phases') \in Ids
           /\ Open("approval")' = IF kind = "approval"
                                  THEN Open("approval") \cup {Len(phases) + 1}
                                  ELSE Open("approval")
<1>1. Phase(kind) \in [kind : {"approval", "fix"}, open : BOOLEAN]
      /\ Phase(kind).kind = kind /\ Phase(kind).open
    BY DEF Phase
<1> HIDE DEF Phase
<1>2. /\ phases' \in Seq([kind : {"approval", "fix"}, open : BOOLEAN])
      /\ Len(phases') = Len(phases) + 1
      /\ \A p \in 1 .. Len(phases) : phases'[p] = phases[p]
      /\ phases'[Len(phases) + 1] = Phase(kind)
    BY <1>1, AppendProperties DEF Inv, TypeOK
<1>3. Len(phases) \in Nat /\ DOMAIN phases = 1 .. Len(phases)
      /\ DOMAIN phases' = 1 .. Len(phases) + 1
    BY <1>2, PhaseFacts, LenProperties DEF Inv
<1>4. Len(phases') \in Ids
    BY <1>2, <1>3, ApprovalAssumption DEF Ids, ApprovalAssumption
<1>5. /\ \A p \in DOMAIN phases : p \in DOMAIN phases' /\ phases'[p] = phases[p]
      /\ \A p \in DOMAIN phases' : p \in DOMAIN phases \/ p = Len(phases) + 1
      /\ Len(phases) + 1 \in DOMAIN phases' /\ Len(phases) + 1 \notin DOMAIN phases
    BY <1>2, <1>3
<1>6. Frames \subseteq Frames'
    BY <1>5, FramesKept DEF Grows, Inv
<1>7. EndedWithVerdict'
  <2>1. ASSUME NEW p \in Of("approval")', ~IsOpen(p)' PROVE Completed(p)' # {}
    <3>1. p \in DOMAIN phases'
        BY DEF Of
    <3>2. p \in DOMAIN phases
        BY <1>1, <1>2, <1>5, <2>1, <3>1 DEF IsOpen
    <3>3. p \in Of("approval") /\ ~IsOpen(p) /\ p \in Ids
        BY <1>5, <2>1, <3>2, PhaseFacts DEF Of, IsOpen, Inv
    <3> QED BY <3>3, CompletedKept DEF Inv, EndedWithVerdict
  <2> QED BY <2>1 DEF EndedWithVerdict
<1>8. ASSUME NEW p
      PROVE  p \in Open("approval")' <=>
               p \in Open("approval") \/ (kind = "approval" /\ p = Len(phases) + 1)
    BY <1>1, <1>2, <1>5 DEF Open, Of
<1> QED BY <1>2, <1>4, <1>6, <1>7, <1>8

LEMMA FixStep ==
    ASSUME Inv, Kept, NEW a \in Actors, CreateFix(a)
    PROVE  Inv'
<1>1. Busy(a) /\ Top(a).at = "followup" /\ ~Looping(a)
    BY DEF CreateFix, At, Looping
<1>2. stack[a] \in Seq(Frames)
    BY <1>1, PlainTop DEF Inv
<1>3. \/ UNCHANGED phases
      \/ Len(phases) < MaxPhases /\ phases' = Append(phases, Phase("fix"))
    BY DEF CreateFix
<1>4. /\ Frames \subseteq Frames' /\ EndedWithVerdict' /\ Open("approval")' = Open("approval")
      /\ phases' \in Seq([kind : {"approval", "fix"}, open : BOOLEAN]) /\ Len(phases') \in Ids
    BY <1>3, PhasesSame, AppendPhase DEF Inv, TypeOK
<1>5. OneOpen'
    BY <1>4 DEF OneOpen, Inv
<1>6. Moves(a) /\ stack'[a] \in Seq(Frames')
    BY <1>1, <1>2, <1>4, ContinuePlain, EmptySeq DEF CreateFix, Return, Inv
<1>7. Stacks'
    BY <1>1, <1>4, <1>6, StacksPlain DEF Inv, CreateFix, memory
<1>8. abandoned' \in BOOLEAN /\ mishaps' \in 0 .. MaxMishaps
  <2>1. abandoned' \in BOOLEAN
      BY DEF CreateFix, history, Inv, TypeOK
  <2>2. UNCHANGED mishaps \/ Mishap
      BY DEF CreateFix, history
  <2> QED BY <2>1, <2>2, ApprovalAssumption DEF Mishap, Inv, TypeOK, ApprovalAssumption
<1>9. TypeOK' /\ inbox' \subseteq Messages /\ handling' \subseteq Messages
    BY <1>4, <1>8 DEF CreateFix, Inv, TypeOK, world, memory
<1> QED BY <1>4, <1>5, <1>7, <1>9 DEF Inv

\* What the handler of the loop has to itself
LEMMA LoopFacts ==
    ASSUME Stacks, NEW a \in Actors, Busy(a), Top(a).at \in {"check", "create", "assign"}
    PROVE  /\ locked /\ \A b \in Actors : Looping(b) => b = a
           /\ \A fs : Continue(a, fs) => Moves(a) /\ stack'[a] = fs \o Tail(<<Top(a)>>)
<1>1. Looping(a)
    BY LoopTop
<1>2. locked /\ \A b \in Actors : Looping(b) => b = a
    BY <1>1 DEF Stacks
<1>3. stack[a] = <<Top(a)>>
    BY <1>1 DEF Looping
<1> HIDE DEF Top
<1>4. ASSUME NEW fs, Continue(a, fs) PROVE Moves(a) /\ stack'[a] = fs \o Tail(<<Top(a)>>)
    BY <1>3, <1>4, ContinueMoves
<1> QED BY <1>2, <1>4

LEMMA CheckStep ==
    ASSUME Inv, Kept, NEW a \in Actors, LoopCheck(a)
    PROVE  Inv'
<1>1. Busy(a) /\ Top(a).at = "check"
    BY DEF LoopCheck, At
<1>2. Frames \subseteq Frames' /\ OneOpen' /\ EndedWithVerdict'
      /\ Open("approval")' = Open("approval")
    BY PhasesSame DEF LoopCheck
<1>3. locked /\ (\A b \in Actors : Looping(b) => b = a)
      /\ \A fs : Continue(a, fs) => Moves(a) /\ stack'[a] = fs \o Tail(<<Top(a)>>)
    BY <1>1, LoopFacts DEF Inv
<1> DEFINE g == [at |-> "create", sub |-> Top(a).sub]
<1>4. \/ Continue(a, <<>>)
      \/ Continue(a, <<g>>) /\ locked' /\ Open("approval") = {}
    BY <1>3 DEF LoopCheck, Return, Starts
<1>5. Moves(a) /\ \/ stack'[a] = <<>>
                  \/ stack'[a] = <<g>> /\ locked' /\ Open("approval") = {}
    BY <1>3, <1>4, OneFrame
<1>6. g.at = "create"
    OBVIOUS
<1> HIDE DEF g
<1>7. Stacks'
    BY <1>2, <1>3, <1>5, <1>6, StacksLoop DEF Inv
<1>8. TypeOK' /\ inbox' \subseteq Messages /\ handling' \subseteq Messages
    BY DEF LoopCheck, Inv, TypeOK, world, history
<1> QED BY <1>2, <1>7, <1>8 DEF Inv

LEMMA CreateStep ==
    ASSUME Inv, Kept, NEW a \in Actors, CreateApproval(a)
    PROVE  Inv'
<1>1. Busy(a) /\ Top(a).at = "create" /\ Open("approval") = {}
    BY DEF CreateApproval, At, Inv, Stacks
<1>2. locked /\ (\A b \in Actors : Looping(b) => b = a)
      /\ \A fs : Continue(a, fs) => Moves(a) /\ stack'[a] = fs \o Tail(<<Top(a)>>)
    BY <1>1, LoopFacts DEF Inv
<1>3. \/ UNCHANGED phases
      \/ Len(phases) < MaxPhases /\ phases' = Append(phases, Phase("approval"))
    BY DEF CreateApproval
<1>4. /\ Frames \subseteq Frames' /\ EndedWithVerdict'
      /\ phases' \in Seq([kind : {"approval", "fix"}, open : BOOLEAN]) /\ Len(phases') \in Ids
      /\ Open("approval")' \subseteq {Len(phases) + 1}
    BY <1>1, <1>3, PhasesSame, AppendPhase DEF Inv, TypeOK
<1>5. OneOpen'
    BY <1>4 DEF OneOpen
<1> DEFINE g == [at |-> "assign", phase |-> Len(phases) + 1, sub |-> Top(a).sub]
<1>6. Continue(a, <<>>) \/ (Continue(a, <<g>>) /\ locked')
    BY <1>2 DEF CreateApproval, Return
<1>7. Moves(a) /\ (stack'[a] = <<>> \/ (stack'[a] = <<g>> /\ locked'))
    BY <1>2, <1>6, OneFrame
<1>8. g.at = "assign"
    OBVIOUS
<1> HIDE DEF g
<1>9. Stacks'
    BY <1>2, <1>4, <1>7, <1>8, StacksLoop DEF Inv
<1>10. locked' \in BOOLEAN
    BY DEF CreateApproval, Inv, TypeOK
<1>11. UNCHANGED abandoned /\ mishaps' \in 0 .. MaxMishaps
  <2>1. UNCHANGED abandoned /\ (UNCHANGED mishaps \/ Mishap)
      BY DEF CreateApproval, history
  <2> QED BY <2>1, ApprovalAssumption DEF Mishap, Inv, TypeOK, ApprovalAssumption
<1>12. TypeOK' /\ inbox' \subseteq Messages /\ handling' \subseteq Messages
    BY <1>4, <1>10, <1>11 DEF CreateApproval, Inv, TypeOK, world
<1> QED BY <1>4, <1>5, <1>9, <1>12 DEF Inv

-----------------------------------------------------------------------------
(* Reviews that handlers create and delete *)

LEMMA WithReviewsTyped ==
    ASSUME TypeOK, NEW p, NEW s
    PROVE  WithReviews(p, s) \in [Ids \X Approvers \X Subs -> Verdicts \cup {"none", "pending"}]
BY DEF WithReviews, TypeOK

LEMMA MishapTyped ==
    ASSUME TypeOK, UNCHANGED mishaps \/ Mishap
    PROVE  mishaps' \in 0 .. MaxMishaps
BY ApprovalAssumption DEF Mishap, TypeOK, ApprovalAssumption

LEMMA AssignStep ==
    ASSUME Inv, Kept, NEW a \in Actors, AssignApproval(a)
    PROVE  Inv'
<1>1. Busy(a) /\ Top(a).at = "assign"
    BY DEF AssignApproval, At
<1>2. Frames \subseteq Frames' /\ OneOpen' /\ EndedWithVerdict'
    BY PhasesSame DEF AssignApproval
<1>3. (\A b \in Actors : Looping(b) => b = a)
      /\ \A fs : Continue(a, fs) => Moves(a) /\ stack'[a] = fs \o Tail(<<Top(a)>>)
    BY <1>1, LoopFacts DEF Inv
<1>4. Moves(a) /\ stack'[a] = <<>>
    BY <1>3, OneFrame DEF AssignApproval, Return
<1>5. Stacks'
    BY <1>2, <1>3, <1>4, StacksLoop DEF Inv
<1>6. review' \in [Ids \X Approvers \X Subs -> Verdicts \cup {"none", "pending"}]
    BY WithReviewsTyped DEF AssignApproval, Inv, TypeOK
<1>7. UNCHANGED abandoned /\ mishaps' \in 0 .. MaxMishaps
    BY MishapTyped DEF AssignApproval, history, Inv
<1>8. TypeOK' /\ inbox' \subseteq Messages /\ handling' \subseteq Messages
    BY <1>6, <1>7 DEF AssignApproval, Inv, TypeOK, world
<1> QED BY <1>2, <1>5, <1>8 DEF Inv

LEMMA DeleteStep ==
    ASSUME Inv, Kept, NEW a \in Actors, PrepareDelete(a)
    PROVE  Inv'
<1>1. Busy(a) /\ Top(a).at = "prepare" /\ ~Looping(a)
    BY DEF PrepareDelete, At, Looping
<1>2. stack[a] \in Seq(Frames) /\ Top(a) \in [at : {"prepare", "prepared"}, phase : Ids]
    BY <1>1, PlainTop DEF Inv, Frames, EndFrame
<1>3. Frames \subseteq Frames' /\ OneOpen' /\ EndedWithVerdict'
      /\ Open("approval")' = Open("approval")
    BY PhasesSame DEF PrepareDelete
<1>4. Moves(a) /\ stack'[a] \in Seq(Frames')
  <2>1. [Top(a) EXCEPT !.at = "prepared"] \in Frames'
      BY <1>2 DEF Frames
  <2>2. <<[Top(a) EXCEPT !.at = "prepared"]>> \in Seq(Frames')
      BY <2>1
  <2> QED BY <1>1, <1>2, <1>3, <2>2, ContinuePlain DEF PrepareDelete, Inv
<1>5. Stacks'
    BY <1>1, <1>3, <1>4, StacksPlain DEF Inv, PrepareDelete, memory
<1>6. review' \in [Ids \X Approvers \X Subs -> Verdicts \cup {"none", "pending"}]
    BY DEF PrepareDelete, Inv, TypeOK
<1>7. TypeOK' /\ inbox' \subseteq Messages /\ handling' \subseteq Messages
    BY <1>6 DEF PrepareDelete, Inv, TypeOK, world, memory, history
<1> QED BY <1>3, <1>5, <1>7 DEF Inv

LEMMA PreparedStep ==
    ASSUME Inv, Kept, NEW a \in Actors, PrepareCreate(a)
    PROVE  Inv'
<1>1. Busy(a) /\ Top(a).at = "prepared" /\ ~Looping(a)
    BY DEF PrepareCreate, At, Looping
<1>2. stack[a] \in Seq(Frames) /\ Top(a).phase \in Ids
    BY <1>1, PlainTop DEF Inv, Frames, EndFrame
<1>3. Frames \subseteq Frames' /\ OneOpen' /\ EndedWithVerdict'
      /\ Open("approval")' = Open("approval")
    BY PhasesSame DEF PrepareCreate
<1>4. Moves(a) /\ stack'[a] \in Seq(Frames')
    BY <1>1, <1>2, <1>3, ContinuePlain, EmptySeq DEF PrepareCreate, Return, Inv
<1>5. Stacks'
    BY <1>1, <1>3, <1>4, StacksPlain DEF Inv, PrepareCreate
<1>6. review' \in [Ids \X Approvers \X Subs -> Verdicts \cup {"none", "pending"}]
    BY WithReviewsTyped DEF PrepareCreate, Inv, TypeOK
<1>7. abandoned' \in BOOLEAN /\ mishaps' \in 0 .. MaxMishaps
    BY MishapTyped DEF PrepareCreate, history, Inv, TypeOK
<1>8. processed' \subseteq Ids
    BY <1>2 DEF PrepareCreate, Inv, TypeOK
<1>9. TypeOK' /\ inbox' \subseteq Messages /\ handling' \subseteq Messages
    BY <1>6, <1>7, <1>8 DEF PrepareCreate, Inv, TypeOK, world
<1> QED BY <1>3, <1>5, <1>9 DEF Inv

-----------------------------------------------------------------------------
(* Messages *)

\* A handler with plain frames begins.
LEMMA StartPlain ==
    ASSUME Stacks, NEW a \in Actors, NEW fs \in Seq(Frames), Start(a, fs),
           Frames \subseteq Frames', locked' = locked,
           Open("approval")' \subseteq Open("approval")
    PROVE  Stacks'
<1>1. Moves(a) /\ stack'[a] = fs /\ ~Looping(a)
    BY StartMoves
<1>2. stack'[a] \in Seq(Frames')
    BY <1>1, SeqMonotonic
<1> QED BY <1>1, <1>2, StacksPlain

LEMMA EndTyped ==
    ASSUME NEW p \in Ids, NEW prevent \in BOOLEAN
    PROVE  End(p, prevent) \in Frames
BY DEF End, Frames, EndFrame, Seen

LEMMA EndsTyped ==
    ASSUME TypeOK, NEW q \in Orders(Open("fix"))
    PROVE  EndAll(q) \in Seq(Frames)
<1>1. Open("fix") \in SUBSET (1 .. Len(phases)) /\ Open("fix") \subseteq Ids
    BY PhaseFacts DEF Open, Of
<1>2. IsFiniteSet(1 .. Len(phases))
    BY PhaseFacts, FS_Interval
<1>3. Cardinality(Open("fix")) \in Nat
    BY <1>1, <1>2, FS_Subset, FS_CardinalityType
<1> DEFINE n == Cardinality(Open("fix"))
<1>4. q \in [1 .. n -> Ids]
    BY <1>1 DEF Orders
<1>5. \A i \in 1 .. n : End(q[i], FALSE) \in Frames
    BY <1>4, EndTyped
<1>6. EndAll(q) = [i \in 1 .. n |-> End(q[i], FALSE)]
    BY <1>4 DEF EndAll
<1> HIDE DEF n
<1>7. EndAll(q) \in [1 .. n -> Frames]
    BY <1>5, <1>6
<1> QED BY <1>3, <1>7 DEF n

LEMMA TakeTyped ==
    ASSUME Inv, NEW m \in inbox, NEW fs, Take(m, fs)
    PROVE  /\ inbox' \subseteq Messages /\ handling' \subseteq Messages
           /\ Cardinality(handling') <= 1 /\ m \in Messages
BY FS_Singleton DEF Take, Inv

LEMMA ReviewStep ==
    ASSUME Inv, Kept, NEW m \in inbox, ConsumeReview(m)
    PROVE  Inv'
<1>1. Frames \subseteq Frames' /\ OneOpen' /\ EndedWithVerdict'
      /\ Open("approval")' = Open("approval")
    BY PhasesSame DEF ConsumeReview
<1>2. m.phase \in Ids
    BY DEF ConsumeReview, Inv, Messages
<1>3. PICK fixes \in Orders(Open("fix")) :
        \/ Take(m, <<>>)
        \/ Take(m, <<End(m.phase, FALSE)>> \o EndAll(fixes))
        \/ Take(m, <<End(m.phase, TRUE), FollowUp(m.phase, Open("fix") # {})>>)
    BY DEF ConsumeReview
<1>4. PICK fs \in Seq(Frames) : Take(m, fs)
  <2>1. <<>> \in Seq(Frames)
      BY EmptySeq
  <2>2. <<End(m.phase, FALSE)>> \o EndAll(fixes) \in Seq(Frames)
    <3> DEFINE e == End(m.phase, FALSE)
    <3>1. e \in Frames
        BY <1>2, EndTyped
    <3> HIDE DEF e
    <3>2. <<e>> \in Seq(Frames)
        BY <3>1
    <3>3. EndAll(fixes) \in Seq(Frames)
        BY EndsTyped DEF Inv
    <3>4. <<e>> \o EndAll(fixes) \in Seq(Frames)
        BY <3>2, <3>3, ConcatProperties
    <3> QED BY <3>4 DEF e
  <2>3. <<End(m.phase, TRUE), FollowUp(m.phase, Open("fix") # {})>> \in Seq(Frames)
    <3> DEFINE fixing == Open("fix") # {}
               e == End(m.phase, TRUE)
               f == FollowUp(m.phase, fixing)
    <3>1. e \in Frames
        BY <1>2, EndTyped
    <3>2. f \in Frames
      <4>1. fixing \in BOOLEAN
          OBVIOUS
      <4> HIDE DEF fixing
      <4> QED BY <1>2, <4>1 DEF FollowUp, Frames
    <3> HIDE DEF e, f
    <3>3. <<e, f>> \in Seq(Frames)
        BY <3>1, <3>2
    <3> QED BY <3>3 DEF e, f
  <2> QED BY <1>3, <2>1, <2>2, <2>3
<1>5. Stacks'
    BY <1>1, <1>4, StartPlain DEF Take, Inv, ConsumeReview, memory, Actors
<1>6. /\ inbox' \subseteq Messages /\ handling' \subseteq Messages
      /\ Cardinality(handling') <= 1
    BY <1>4, TakeTyped
<1>7. TypeOK'
    BY <1>6 DEF ConsumeReview, Inv, TypeOK, memory, history
<1> QED BY <1>1, <1>5, <1>6, <1>7 DEF Inv

LEMMA SubmissionStep ==
    ASSUME Inv, Kept, NEW m \in inbox, ConsumeSubmission(m)
    PROVE  Inv'
<1>1. Frames \subseteq Frames' /\ OneOpen' /\ EndedWithVerdict'
      /\ Open("approval")' = Open("approval")
    BY PhasesSame DEF ConsumeSubmission
<1>2. CASE Take(m, <<>>) /\ UNCHANGED locked
  <2>1. Stacks'
      BY <1>1, <1>2, StartPlain, EmptySeq DEF Take, Inv, Actors
  <2>2. /\ inbox' \subseteq Messages /\ handling' \subseteq Messages
        /\ Cardinality(handling') <= 1
      BY <1>2, TakeTyped
  <2>3. TypeOK'
      BY <1>2, <2>2 DEF ConsumeSubmission, Inv, TypeOK, history
  <2> QED BY <1>1, <2>1, <2>2, <2>3 DEF Inv
<1>3. CASE ~locked /\ Take(m, <<Check(m)>>) /\ locked' = TRUE
  <2>1. Moves("consumer") /\ stack'["consumer"] = <<Check(m)>>
      BY <1>3, StartMoves DEF Take, Inv, Actors
  <2>2. \A b \in Actors : ~Looping(b)
      BY <1>3 DEF Inv, Stacks
  <2>3. Check(m).at = "check"
      BY DEF Check
  <2> HIDE DEF Check
  <2>4. Stacks'
      BY <1>1, <1>3, <2>1, <2>2, <2>3, StacksLoop DEF Inv, Actors
  <2>5. /\ inbox' \subseteq Messages /\ handling' \subseteq Messages
        /\ Cardinality(handling') <= 1
      BY <1>3, TakeTyped
  <2>6. TypeOK'
      BY <1>3, <2>5 DEF ConsumeSubmission, Inv, TypeOK, history
  <2> QED BY <1>1, <2>4, <2>5, <2>6 DEF Inv
<1> QED BY <1>2, <1>3 DEF ConsumeSubmission

-----------------------------------------------------------------------------
(* Sessions, the process, timers and the cron *)

LEMMA RestartStep ==
    ASSUME Inv, Kept, Restart
    PROVE  Inv'
<1>1. Frames \subseteq Frames' /\ OneOpen' /\ EndedWithVerdict'
      /\ Open("approval")' = Open("approval")
    BY PhasesSame DEF Restart
<1>2. /\ stack' = [b \in Actors |-> stack'[b]]
      /\ stack'["stale"] = stack["consumer"] /\ stack'["consumer"] = <<>>
      /\ stack'["background"] = stack["background"]
      /\ stack["stale"] = <<>>
    BY DEF Restart, Inv, Stacks, Actors, Busy
<1>3. /\ Looping("stale")' = Looping("consumer") /\ ~Looping("consumer")' /\ ~Looping("stale")
      /\ Looping("background")' = Looping("background")
      /\ At("stale", "create")' = At("consumer", "create") /\ ~At("consumer", "create")'
      /\ At("background", "create")' = At("background", "create")
    BY <1>2 DEF Looping, At, Busy, Top
<1>4. ASSUME NEW b \in Actors PROVE Looping(b)' \/ stack'[b] \in Seq(Frames')
  <2>1. stack'["consumer"] \in Seq(Frames')
      BY <1>2, EmptySeq
  <2>2. Looping("stale")' \/ stack'["stale"] \in Seq(Frames')
      BY <1>1, <1>2, <1>3, SeqMonotonic DEF Inv, Stacks, Actors
  <2>3. Looping("background")' \/ stack'["background"] \in Seq(Frames')
      BY <1>1, <1>2, <1>3, SeqMonotonic DEF Inv, Stacks, Actors
  <2> QED BY <2>1, <2>2, <2>3 DEF Actors
<1>5. ASSUME NEW b \in Actors, Looping(b)'
      PROVE  locked' /\ \A c \in Actors : Looping(c)' => b = c
    BY <1>3, <1>5 DEF Inv, Stacks, Actors, Restart, memory
<1>6. ASSUME NEW b \in Actors, At(b, "create")' PROVE Open("approval")' = {}
    BY <1>1, <1>3, <1>6 DEF Inv, Stacks, Actors
<1>7. Stacks'
    BY <1>2, <1>4, <1>5, <1>6 DEF Stacks
<1>8. inbox' \subseteq Messages /\ handling' \subseteq Messages /\ Cardinality(handling') <= 1
    BY FS_EmptySet DEF Restart, Inv
<1>9. mishaps' \in 0 .. MaxMishaps
    BY MishapTyped DEF Restart, Inv
<1>10. TypeOK'
    BY <1>8, <1>9 DEF Restart, Inv, TypeOK, memory
<1> QED BY <1>1, <1>7, <1>8, <1>10 DEF Inv

LEMMA CrashStep ==
    ASSUME Inv, Kept, Crash
    PROVE  Inv'
<1>1. OneOpen' /\ EndedWithVerdict'
    BY PhasesSame DEF Crash
<1>2. Stacks'
  <2>1. stack' = [b \in Actors |-> <<>>]
      BY DEF Crash
  <2>2. \A b \in Actors : ~Looping(b)' /\ ~At(b, "create")' /\ stack'[b] \in Seq(Frames')
      BY <2>1, EmptySeq DEF Looping, At, Busy
  <2> QED BY <2>1, <2>2 DEF Stacks
<1>3. inbox' \subseteq Messages /\ handling' \subseteq Messages /\ Cardinality(handling') <= 1
    BY FS_EmptySet DEF Crash, Inv
<1>4. mishaps' \in 0 .. MaxMishaps
    BY MishapTyped DEF Crash, Inv
<1>5. abandoned' \in BOOLEAN
    BY DEF Crash, Inv, TypeOK
<1>6. TypeOK'
    BY <1>3, <1>4, <1>5 DEF Crash, Inv, TypeOK
<1> QED BY <1>1, <1>2, <1>3, <1>6 DEF Inv

LEMMA ScheduleStep ==
    ASSUME Inv, Kept, NEW p \in Ids, Schedule(p)
    PROVE  Inv'
<1>1. Frames \subseteq Frames' /\ OneOpen' /\ EndedWithVerdict'
      /\ Open("approval")' = Open("approval")
    BY PhasesSame DEF Schedule
<1>2. Stacks'
    BY <1>1, StacksSame DEF Schedule, Inv
<1>3. TypeOK' /\ inbox' \subseteq Messages /\ handling' \subseteq Messages
    BY DEF Schedule, Inv, TypeOK, world, history
<1> QED BY <1>1, <1>2, <1>3 DEF Inv

LEMMA FireStep ==
    ASSUME Inv, Kept, NEW p \in Ids, Fire(p)
    PROVE  Inv'
<1>1. Frames \subseteq Frames' /\ OneOpen' /\ EndedWithVerdict'
      /\ Open("approval")' = Open("approval")
    BY PhasesSame DEF Fire
<1>2. PICK fs \in Seq(Frames) : Start("background", fs)
  <2>1. PICK prevent \in BOOLEAN : Start("background", <<End(p, prevent)>>)
      BY DEF Fire
  <2>2. End(p, prevent) \in Frames
      BY EndTyped
  <2>3. <<End(p, prevent)>> \in Seq(Frames)
      BY <2>2
  <2> QED BY <2>1, <2>3
<1>3. Stacks'
    BY <1>1, <1>2, StartPlain DEF Fire, Inv, memory, Actors
<1>4. TypeOK' /\ inbox' \subseteq Messages /\ handling' \subseteq Messages
    BY DEF Fire, Inv, TypeOK, world, memory, history
<1> QED BY <1>1, <1>3, <1>4 DEF Inv

LEMMA UpdateStep ==
    ASSUME Inv, Kept, Update
    PROVE  Inv'
<1>1. Frames \subseteq Frames' /\ OneOpen' /\ EndedWithVerdict'
      /\ Open("approval")' = Open("approval")
    BY PhasesSame DEF Update
<1>2. PICK fs \in Seq(Frames) : Start("background", fs)
  <2>1. CASE \E p \in Open("approval") \ processed : Start("background", <<Prepare(p)>>)
    <3>1. PICK p \in Open("approval") : Start("background", <<Prepare(p)>>)
        BY <2>1
    <3>2. Prepare(p) \in Frames
        BY PhaseFacts DEF Inv, Prepare, Frames, Open, Of
    <3>3. <<Prepare(p)>> \in Seq(Frames)
        BY <3>2
    <3> QED BY <3>1, <3>3
  <2>2. CASE Start("background", <<Finalize>>)
    <3>1. Finalize \in Frames
        BY DEF Finalize, Frames
    <3>2. <<Finalize>> \in Seq(Frames)
        BY <3>1
    <3> QED BY <2>2, <3>2
  <2> QED BY <2>1, <2>2 DEF Update
<1>3. Stacks'
    BY <1>1, <1>2, StartPlain DEF Update, Inv, Actors
<1>4. TypeOK' /\ inbox' \subseteq Messages /\ handling' \subseteq Messages
    BY DEF Update, Inv, TypeOK, world, history
<1> QED BY <1>1, <1>3, <1>4 DEF Inv

-----------------------------------------------------------------------------
(* Approvers and submitters *)

LEMMA CompleteStep ==
    ASSUME Inv, Kept, CompleteReview
    PROVE  Inv'
<1>1. Frames \subseteq Frames' /\ OneOpen' /\ EndedWithVerdict'
      /\ Open("approval")' = Open("approval")
    BY PhasesSame DEF CompleteReview
<1>2. Stacks'
    BY <1>1, StacksSame DEF CompleteReview, Inv, memory
<1>3. PICK p \in DOMAIN phases, r \in Approvers, s \in Subs, v \in Verdicts :
        /\ review' = [review EXCEPT ![<<p, r, s>>] = v]
        /\ inbox' = inbox \cup {ReviewCompleted(p, r, s)}
    BY DEF CompleteReview
<1>4. p \in Ids
    BY PhaseFacts DEF Inv
<1>5. ReviewCompleted(p, r, s) \in Messages
    BY <1>4 DEF ReviewCompleted, Messages
<1>6. inbox' \subseteq Messages
    BY <1>3, <1>5 DEF Inv
<1>7. review' \in [Ids \X Approvers \X Subs -> Verdicts \cup {"none", "pending"}]
    BY <1>3 DEF Inv, TypeOK
<1>8. TypeOK' /\ handling' \subseteq Messages
    BY <1>7 DEF CompleteReview, Inv, TypeOK, memory, history
<1> QED BY <1>1, <1>2, <1>6, <1>8 DEF Inv

LEMMA SubmitStep ==
    ASSUME Inv, Kept, Submit
    PROVE  Inv'
<1>1. Frames \subseteq Frames' /\ OneOpen' /\ EndedWithVerdict'
      /\ Open("approval")' = Open("approval")
    BY PhasesSame DEF Submit
<1>2. Stacks'
    BY <1>1, StacksSame DEF Submit, Inv, memory
<1>3. arrived + 1 \in Subs
    BY ApprovalAssumption DEF Submit, Inv, TypeOK, Subs, ApprovalAssumption
<1>4. inbox' \subseteq Messages
    BY <1>3 DEF Submit, Inv, Submission, Messages
<1>5. TypeOK' /\ handling' \subseteq Messages
    BY <1>3 DEF Submit, Inv, TypeOK, memory, history
<1> QED BY <1>1, <1>2, <1>4, <1>5 DEF Inv

-----------------------------------------------------------------------------
(* The invariant *)

LEMMA InitInv == Init => Inv
<1> SUFFICES ASSUME Init PROVE Inv
    OBVIOUS
<1>1. phases = <<Phase("approval")>> /\ 1 \in Ids
    BY ApprovalAssumption DEF Init, Ids, ApprovalAssumption
<1>2. /\ Phase("approval") \in [kind : {"approval", "fix"}, open : BOOLEAN]
      /\ Phase("approval").open
    BY DEF Phase
<1>3. /\ phases \in Seq([kind : {"approval", "fix"}, open : BOOLEAN])
      /\ DOMAIN phases = {1} /\ Len(phases) = 1 /\ phases[1] = Phase("approval")
  <2> HIDE DEF Phase
  <2> QED BY <1>1, <1>2
<1>4. OneOpen
    BY <1>3 DEF OneOpen, Open, Of
<1>5. EndedWithVerdict
    BY <1>2, <1>3 DEF EndedWithVerdict, IsOpen, Of
<1>6. Stacks
  <2>1. stack = [b \in Actors |-> <<>>]
      BY DEF Init
  <2>2. \A b \in Actors : ~Looping(b) /\ ~At(b, "create") /\ stack[b] \in Seq(Frames)
      BY <2>1, EmptySeq DEF Looping, At, Busy
  <2> QED BY <2>1, <2>2 DEF Stacks
<1>7. review \in [Ids \X Approvers \X Subs -> Verdicts \cup {"none", "pending"}]
    BY DEF Init
<1>8. TypeOK
  <2>1. Cardinality(handling) <= 1
      BY FS_EmptySet DEF Init
  <2>2. arrived \in Subs /\ mishaps \in 0 .. MaxMishaps
      BY ApprovalAssumption DEF Init, Subs, ApprovalAssumption
  <2>3. due \in [Ids -> {"plain", "prevent"}]
      BY DEF Init
  <2> QED BY <1>1, <1>3, <1>7, <2>1, <2>2, <2>3 DEF Init, TypeOK
<1> QED BY <1>4, <1>5, <1>6, <1>8 DEF Init, Inv

LEMMA SameInv == Inv /\ UNCHANGED vars => Inv'
<1> SUFFICES ASSUME Inv, UNCHANGED vars PROVE Inv'
    OBVIOUS
<1>1. Kept
    BY DEF vars, Kept
<1>2. Frames \subseteq Frames' /\ OneOpen' /\ EndedWithVerdict'
      /\ Open("approval")' = Open("approval")
    BY <1>1, PhasesSame DEF vars
<1>3. Stacks'
    BY <1>2, StacksSame DEF vars, Inv
<1> QED BY <1>2, <1>3 DEF vars, Inv, TypeOK

LEMMA InvStep == Inv /\ [Next]_vars => Inv'
<1> SUFFICES ASSUME Inv, [Next]_vars PROVE Inv'
    OBVIOUS
<1>1. Kept
    BY NextKeeps
<1>2. CASE UNCHANGED vars
    BY <1>2, SameInv
<1>3. CASE CompleteReview \/ Submit
    BY <1>1, <1>3, CompleteStep, SubmitStep
<1>4. CASE \E m \in inbox : Consume(m)
    BY <1>1, <1>4, ReviewStep, SubmissionStep DEF Consume
<1>5. CASE Restart \/ Crash
    BY <1>1, <1>5, RestartStep, CrashStep
<1>6. CASE \E p \in Ids : Schedule(p) \/ Fire(p)
    BY <1>1, <1>6, ScheduleStep, FireStep
<1>7. CASE Update
    BY <1>1, <1>7, UpdateStep
<1>8. ASSUME NEW a \in Actors, Handle(a) PROVE Inv'
  <2>1. CASE Advance(a)
      BY <1>1, <2>1, PendingStep, CompletedStep, CloseStep, FinalizeStep DEF Advance
  <2>2. CASE CreateFix(a) \/ Loop(a)
      BY <1>1, <2>2, FixStep, CheckStep, CreateStep, AssignStep DEF Loop
  <2>3. CASE Reconcile(a)
      BY <1>1, <2>3, DeleteStep, PreparedStep DEF Reconcile
  <2> QED BY <1>8, <2>1, <2>2, <2>3 DEF Handle
<1> QED BY <1>2, <1>3, <1>4, <1>5, <1>6, <1>7, <1>8 DEF Next

LEMMA InvAlways == Spec => []Inv
<1> QED BY InitInv, InvStep, PTL DEF Spec

-----------------------------------------------------------------------------
(* The theorems *)

\* Every variable keeps its type: the phases, reviews, the lock and the jobs.
THEOREM LoopTypeCorrect == Spec => []TypeOK
<1>1. Inv => TypeOK
    BY DEF Inv
<1> QED BY <1>1, InvAlways, PTL

\* There is one open Approval at most, although createContinuationPhase opens
\* one without a look at the others and messages are delivered again to a
\* second handler: the lock of handleApprovalSubmissionLoop is enough.
THEOREM OneApprovalAtATime == Spec => []OneOpenApproval
<1>1. Inv => OneOpenApproval
  <2> SUFFICES ASSUME Inv PROVE Cardinality(Open("approval")) <= 1
      BY DEF OneOpenApproval
  <2>1. CASE Open("approval") = {}
      BY <2>1, FS_EmptySet
  <2>2. CASE Open("approval") # {}
    <3>1. PICK p : Open("approval") = {p}
        BY <2>2 DEF Inv, OneOpen
    <3>2. Cardinality({p}) = 1
        BY FS_Singleton
    <3> QED BY <3>1, <3>2
  <2> QED BY <2>1, <2>2
<1> QED BY <1>1, InvAlways, PTL

\* No Approval has ended without a verdict (the guards of advancePhase), whatever
\* the handlers that create and delete reviews do meanwhile.
THEOREM NoEndWithoutVerdict == Spec => []EndedWithVerdict
<1>1. Inv => EndedWithVerdict
    BY DEF Inv
<1> QED BY <1>1, InvAlways, PTL

\* A verdict stays: deleteStalePendingSubmissionReviews and createPendingReview
\* never touch a completed review.
THEOREM VerdictsStay == Spec => VerdictsKept
<1>1. [Next]_vars => [\A k \in DOMAIN review : review[k] \in Verdicts => review'[k] = review[k]]_vars
    BY NextKeeps DEF Kept
<1> QED BY <1>1, PTL DEF Spec, VerdictsKept

-----------------------------------------------------------------------------
(* The lock and what still moves a challenge *)

\* Whatever ends handleApprovalSubmissionLoop unlocks, and nobody else does: the
\* challenge is in approvalResubmissionLocks exactly while a handler of a
\* submission stands between the first read and its end.
LockHeld == locked <=> \E a \in Actors : Looping(a)

\* A challenge that waits for nobody and is not over is never stuck, unless it
\* was abandoned: a handler owes the Final Fix or the finalization after the
\* phase it closed, or there is an open Approval that its END may close, or that
\* the cron is still to prepare.  What WaitsUnlessAbandoned needs in each state.
NeverStuck ==
    abandoned \/ Waiting
    \/ (\E a \in Actors : Owes(a))
    \/ \E p \in Open("approval") : Completed(p) # {} \/ p \notin processed

Preventing(f) == f.at \in {"pending", "completed", "close"} /\ f.prevent

Follows(a) == \E i \in DOMAIN stack[a] : stack[a][i].at \in {"finalize", "followup"}

\* An END that prevents the finalization is run first, and the consumer goes on
\* with the Final Fix that follows.
Followed ==
    \A a \in Actors : \A i \in DOMAIN stack[a] :
        Preventing(stack[a][i]) => i = 1 /\ (a # "background" => Follows(a))

\* After the last phase has ended somebody still knows what follows.
Owed ==
    status = "ACTIVE" /\ AllEnded(phases) => \E a \in Actors : Follows(a)

\* A processed Approval has a review by every approver.
Prepared == \A p \in processed, r \in Approvers : review[<<p, r, Winner>>] # "none"

Forward == Inv /\ LockHeld /\ Followed /\ (abandoned \/ (Owed /\ Prepared))

LEMMA Popped ==
    ASSUME NEW S, NEW s \in Seq(S), s # <<>>, NEW g
    PROVE  /\ DOMAIN s = 1 .. Len(s) /\ Len(s) \in Nat \ {0}
           /\ <<>> \o Tail(s) = Tail(s)
           /\ DOMAIN Tail(s) = 1 .. Len(s) - 1
           /\ \A i \in 1 .. Len(s) - 1 : Tail(s)[i] = s[i + 1]
           /\ DOMAIN (<<g>> \o Tail(s)) = 1 .. Len(s)
           /\ (<<g>> \o Tail(s))[1] = g
           /\ \A i \in 2 .. Len(s) : (<<g>> \o Tail(s))[i] = s[i]
<1>1. DOMAIN s = 1 .. Len(s) /\ Len(s) \in Nat \ {0}
    BY LenProperties, EmptySeq
<1>2. /\ Tail(s) \in Seq(S) /\ Len(Tail(s)) = Len(s) - 1
      /\ \A i \in 1 .. Len(s) - 1 : Tail(s)[i] = s[i + 1]
    BY HeadTailProperties
<1>3. DOMAIN Tail(s) = 1 .. Len(s) - 1
    BY <1>2, LenProperties
<1>4. <<>> \o Tail(s) = Tail(s)
    BY <1>2, ConcatEmptySeq
<1>5. <<g>> \in Seq(S \cup {g}) /\ Len(<<g>>) = 1 /\ <<g>>[1] = g
    OBVIOUS
<1>6. Tail(s) \in Seq(S \cup {g})
    BY <1>2, SeqMonotonic
<1>7. /\ <<g>> \o Tail(s) \in Seq(S \cup {g})
      /\ Len(<<g>> \o Tail(s)) = Len(s)
      /\ \A i \in 1 .. Len(s) : (<<g>> \o Tail(s))[i] =
            IF i <= 1 THEN <<g>>[i] ELSE Tail(s)[i - 1]
    BY <1>1, <1>2, <1>5, <1>6, ConcatProperties
<1>8. DOMAIN (<<g>> \o Tail(s)) = 1 .. Len(s)
    BY <1>7, LenProperties
<1>9. (<<g>> \o Tail(s))[1] = g
    BY <1>1, <1>5, <1>7
<1>10. ASSUME NEW i \in 2 .. Len(s) PROVE (<<g>> \o Tail(s))[i] = s[i]
  <2>1. i \in 1 .. Len(s) /\ ~(i <= 1) /\ i - 1 \in 1 .. Len(s) - 1 /\ (i - 1) + 1 = i
      BY <1>1
  <2> QED BY <1>2, <1>7, <2>1
<1> QED BY <1>1, <1>2, <1>3, <1>4, <1>8, <1>9, <1>10

LEMMA SomeSeq ==
    ASSUME Stacks, NEW a \in Actors
    PROVE  \E S : stack[a] \in Seq(S)
<1>1. CASE Looping(a)
  <2>1. stack[a] = <<Top(a)>>
      BY <1>1 DEF Looping
  <2> HIDE DEF Top
  <2>2. <<Top(a)>> \in Seq({Top(a)})
      OBVIOUS
  <2> QED BY <2>1, <2>2
<1>2. CASE stack[a] \in Seq(Frames)
    BY <1>2
<1> QED BY <1>1, <1>2 DEF Stacks

\* A handler goes on: with nothing, or with one frame that prevents the
\* finalization only if the one before did.  What follows in its stack stays.
LEMMA ContinueForward ==
    ASSUME Stacks, Followed, NEW a \in Actors, Busy(a), NEW fs, Continue(a, fs),
           \/ fs = <<>>
           \/ \E g : fs = <<g>> /\ (Preventing(g) => Preventing(Top(a)))
    PROVE  /\ \A b \in Actors \ {a} : Follows(b)' = Follows(b)
           /\ Top(a).at \notin {"finalize", "followup"} /\ Follows(a) => Follows(a)'
           /\ fs = <<>> \/ Top(a).at \notin {"finalize", "followup"} => Followed'
           /\ fs = <<>> => \A i \in DOMAIN stack'[a] : ~Preventing(stack'[a][i])
           /\ (\E g : fs = <<g>> /\ g.at = "finalize") => Follows(a)'
<1>1. Moves(a) /\ stack'[a] = fs \o Tail(stack[a])
    BY ContinueMoves
<1>2. PICK S : stack[a] \in Seq(S)
    BY SomeSeq
<1> DEFINE s == stack[a]
<1>3. s # <<>> /\ Top(a) = s[1]
    BY <1>2, HeadTailProperties DEF Busy, Top
<1>4. /\ DOMAIN s = 1 .. Len(s) /\ Len(s) \in Nat \ {0}
      /\ <<>> \o Tail(s) = Tail(s)
      /\ DOMAIN Tail(s) = 1 .. Len(s) - 1
      /\ \A i \in 1 .. Len(s) - 1 : Tail(s)[i] = s[i + 1]
      /\ \A g : /\ DOMAIN (<<g>> \o Tail(s)) = 1 .. Len(s)
                /\ (<<g>> \o Tail(s))[1] = g
                /\ \A i \in 2 .. Len(s) : (<<g>> \o Tail(s))[i] = s[i]
    BY <1>2, <1>3, Popped
<1>5. ASSUME NEW b \in Actors \ {a} PROVE Follows(b)' = Follows(b) /\ stack'[b] = stack[b]
    BY <1>1 DEF Moves, Follows
<1>6. \A i \in DOMAIN s : Preventing(s[i]) => i = 1 /\ (a # "background" => Follows(a))
    BY DEF Followed
<1>7. CASE fs = <<>>
  <2>1. stack'[a] = Tail(s)
      BY <1>1, <1>4, <1>7
  <2>2. ASSUME Top(a).at \notin {"finalize", "followup"}, Follows(a) PROVE Follows(a)'
    <3>1. PICK i \in DOMAIN s : s[i].at \in {"finalize", "followup"}
        BY <2>2 DEF Follows
    <3>2. i # 1
        BY <1>3, <2>2, <3>1
    <3>3. i - 1 \in DOMAIN Tail(s) /\ Tail(s)[i - 1] = s[i]
        BY <1>4, <3>1, <3>2
    <3> QED BY <2>1, <3>1, <3>3 DEF Follows
  <2>3. ASSUME NEW i \in DOMAIN stack'[a] PROVE ~Preventing(stack'[a][i])
    <3>1. i \in 1 .. Len(s) - 1 /\ stack'[a][i] = s[i + 1] /\ i + 1 \in DOMAIN s /\ i + 1 # 1
        BY <1>4, <2>1, <2>3
    <3> QED BY <1>6, <3>1
  <2>4. Followed'
      BY <1>5, <2>3 DEF Followed, Preventing
  <2>5. ~\E g : fs = <<g>>
      BY <1>7
  <2> QED BY <1>5, <2>2, <2>3, <2>4, <2>5
<1>8. CASE \E g : fs = <<g>> /\ (Preventing(g) => Preventing(Top(a)))
  <2>1. PICK g : fs = <<g>> /\ (Preventing(g) => Preventing(Top(a)))
      BY <1>8
  <2>2. /\ DOMAIN stack'[a] = 1 .. Len(s) /\ stack'[a][1] = g
        /\ \A i \in 2 .. Len(s) : stack'[a][i] = s[i]
      BY <1>1, <1>4, <2>1
  <2>3. ASSUME Top(a).at \notin {"finalize", "followup"}, Follows(a) PROVE Follows(a)'
    <3>1. PICK i \in DOMAIN s : s[i].at \in {"finalize", "followup"}
        BY <2>3 DEF Follows
    <3>2. i # 1
        BY <1>3, <2>3, <3>1
    <3>3. i \in DOMAIN stack'[a] /\ stack'[a][i] = s[i]
        BY <1>4, <2>2, <3>1, <3>2
    <3> QED BY <3>1, <3>3 DEF Follows
  <2>4. ASSUME Top(a).at \notin {"finalize", "followup"} PROVE Followed'
    <3>1. ASSUME NEW i \in DOMAIN stack'[a], Preventing(stack'[a][i])
          PROVE  i = 1 /\ (a # "background" => Follows(a)')
      <4>1. CASE i = 1
        <5>1. Preventing(s[1]) /\ 1 \in DOMAIN s
            BY <1>3, <1>4, <2>1, <2>2, <3>1, <4>1
        <5> QED BY <1>6, <2>3, <2>4, <4>1, <5>1
      <4>2. CASE i # 1
        <5>1. i \in 2 .. Len(s) /\ i \in DOMAIN s
            BY <1>4, <2>2, <3>1, <4>2
        <5>2. Preventing(s[i])
            BY <2>2, <3>1, <5>1
        <5> QED BY <1>6, <4>2, <5>1, <5>2
      <4> QED BY <4>1, <4>2
    <3> QED BY <1>5, <3>1 DEF Followed, Preventing
  <2>5. (\E h : fs = <<h>> /\ h.at = "finalize") => Follows(a)'
    <3>1. ASSUME NEW h, fs = <<h>>, h.at = "finalize" PROVE Follows(a)'
      <4>1. h = g
          BY <2>1, <3>1
      <4>2. 1 \in DOMAIN stack'[a]
          BY <1>4, <2>2
      <4> QED BY <2>2, <3>1, <4>1, <4>2 DEF Follows
    <3> QED BY <3>1
  <2>6. fs # <<>>
      BY <2>1
  <2> QED BY <1>5, <2>3, <2>4, <2>5, <2>6
<1> QED BY <1>7, <1>8

LEMMA LockStep ==
    ASSUME Inv, LockHeld, [Next]_vars, Inv'
    PROVE  LockHeld'
<1> SUFFICES ASSUME locked' PROVE \E a \in Actors : Looping(a)'
    BY DEF LockHeld, Inv, Stacks
<1>1. ASSUME NEW a \in Actors, Moves(a), ~Looping(a), locked' = locked
      PROVE  \E b \in Actors : Looping(b)'
  <2>1. PICK b \in Actors : Looping(b)
      BY <1>1 DEF LockHeld
  <2>2. stack'[b] = stack[b]
      BY <1>1, <2>1 DEF Moves
  <2> QED BY <2>1, <2>2 DEF Looping, Busy, Top
<1>2. CASE UNCHANGED <<stack, locked>>
  <2>1. PICK b \in Actors : Looping(b)
      BY <1>2 DEF LockHeld
  <2> QED BY <1>2, <2>1 DEF Looping, Busy, Top
<1>3. CASE Crash
    BY <1>3 DEF Crash
<1>4. CASE Restart
  <2>1. PICK b \in Actors : Looping(b)
      BY <1>4 DEF LockHeld, Restart, memory
  <2>2. /\ stack'["stale"] = stack["consumer"] /\ ~Busy("stale")
        /\ stack'["background"] = stack["background"]
      BY <1>4 DEF Restart, Inv, Stacks, Actors
  <2>3. CASE b = "consumer"
      BY <2>1, <2>2, <2>3 DEF Looping, Busy, Top, Actors
  <2>4. CASE b = "background"
      BY <2>1, <2>2, <2>4 DEF Looping, Busy, Top, Actors
  <2>5. b # "stale"
      BY <2>1, <2>2 DEF Looping
  <2> QED BY <2>3, <2>4, <2>5 DEF Actors
<1>5. ASSUME NEW a \in Actors, NEW fs, Start(a, fs), locked' = locked
      PROVE  \E b \in Actors : Looping(b)'
  <2>1. Moves(a) /\ ~Looping(a)
      BY <1>5, StartMoves DEF Inv
  <2> QED BY <1>1, <1>5, <2>1
<1>6. CASE \E m \in inbox : Consume(m)
  <2>1. PICK m \in inbox : ConsumeReview(m) \/ ConsumeSubmission(m)
      BY <1>6 DEF Consume
  <2>2. CASE \E fs : Start("consumer", fs) /\ locked' = locked
      BY <1>5, <2>2 DEF Actors
  <2>3. CASE Start("consumer", <<Check(m)>>)
    <3>1. stack'["consumer"] = <<Check(m)>> /\ Check(m).at = "check"
        BY <2>3, StartMoves DEF Inv, Actors, Check
    <3> HIDE DEF Check
    <3>2. Looping("consumer")'
        BY <3>1, OneFrame DEF Looping, Busy, Top
    <3> QED BY <3>2 DEF Actors
  <2> QED BY <2>1, <2>2, <2>3 DEF ConsumeReview, ConsumeSubmission, Take, memory
<1>7. CASE (\E p \in Ids : Schedule(p) \/ Fire(p)) \/ Update
  <2>1. \/ UNCHANGED <<stack, locked>>
        \/ \E fs : Start("background", fs) /\ locked' = locked
      BY <1>7 DEF Schedule, Fire, Update, memory
  <2> QED BY <1>2, <1>5, <2>1 DEF Actors
<1>8. ASSUME NEW a \in Actors, Handle(a) PROVE \E b \in Actors : Looping(b)'
  <2>1. CASE Advance(a) \/ CreateFix(a) \/ Reconcile(a)
    <3>1. /\ \E fs : Continue(a, fs)
          /\ Busy(a) /\ Top(a).at \notin {"check", "create", "assign"} /\ locked' = locked
        BY <2>1 DEF Advance, Reconcile, PendingRead, CompletedRead, StoreRead, EndClose, FinalizeWrite,
             CreateFix, PrepareDelete, PrepareCreate, Defer, Return, At, memory
    <3>2. Moves(a) /\ ~Looping(a)
        BY <3>1, ContinueMoves DEF Inv, Looping
    <3> QED BY <1>1, <3>1, <3>2
  <2>2. CASE Loop(a)
    <3>1. Busy(a) /\ Top(a).at \in {"check", "create", "assign"}
        BY <2>2 DEF Loop, LoopCheck, CreateApproval, AssignApproval, At
    <3>2. PICK g : Continue(a, <<g>>) /\ g.at \in {"create", "assign"}
      <4>1. \/ \E g : Continue(a, <<g>>) /\ g = [at |-> "create", sub |-> Top(a).sub]
            \/ \E g : /\ Continue(a, <<g>>)
                     /\ g = [at |-> "assign", phase |-> Len(phases) + 1, sub |-> Top(a).sub]
          BY <2>2 DEF Loop, LoopCheck, CreateApproval, AssignApproval
      <4> QED BY <4>1
    <3>3. stack'[a] = <<g>>
        BY <3>1, <3>2, LoopFacts, OneFrame DEF Inv
    <3>4. Looping(a)'
        BY <3>2, <3>3, OneFrame DEF Looping, Busy, Top
    <3> QED BY <3>4
  <2> QED BY <1>8, <2>1, <2>2 DEF Handle
<1>9. CASE CompleteReview \/ Submit \/ UNCHANGED vars
    BY <1>2, <1>9 DEF CompleteReview, Submit, vars, memory
<1> QED BY <1>3, <1>4, <1>6, <1>7, <1>8, <1>9 DEF Next

LEMMA AbandonedStays == ASSUME [Next]_vars PROVE abandoned => abandoned'
<1>1. ASSUME NEW a \in Actors, Handle(a) PROVE abandoned => abandoned'
    BY <1>1 DEF Handle, Advance, PendingRead, CompletedRead, StoreRead, EndClose, FinalizeWrite, CreateFix,
         Loop, LoopCheck, CreateApproval, AssignApproval, Reconcile, PrepareDelete,
         PrepareCreate, history
<1>2. CASE \/ CompleteReview \/ Submit \/ \E m \in inbox : Consume(m)
           \/ Restart \/ Crash \/ (\E p \in Ids : Schedule(p) \/ Fire(p)) \/ Update
    BY <1>2 DEF CompleteReview, Submit, Consume, ConsumeReview, ConsumeSubmission, Restart,
         Crash, Schedule, Fire, Update, history
<1>3. CASE UNCHANGED vars
    BY <1>3 DEF vars
<1> QED BY <1>1, <1>2, <1>3 DEF Next

\* The reviews of the winning submission are never deleted...
LEMMA WinnerReviewsStay ==
    ASSUME TypeOK, [Next]_vars, NEW p \in Ids, NEW r \in Approvers,
           review[<<p, r, Winner>>] # "none"
    PROVE  review'[<<p, r, Winner>>] # "none"
<1> DEFINE k == <<p, r, Winner>>
<1>1. k \in DOMAIN review /\ k[1] = p /\ k[3] = Winner
    BY ApprovalAssumption DEF TypeOK, Winner, Subs, ApprovalAssumption
<1>2. CASE UNCHANGED review
    BY <1>2
<1>3. CASE CompleteReview
    BY <1>1, <1>3 DEF CompleteReview, Verdicts
<1>4. CASE \E q, s : review' = WithReviews(q, s)
    BY <1>1, <1>4 DEF WithReviews
<1>5. CASE \E a \in Actors : PrepareDelete(a)
    BY <1>1, <1>5 DEF PrepareDelete
<1>6. ASSUME NEW a \in Actors, Handle(a), ~PrepareDelete(a)
      PROVE  UNCHANGED review \/ \E q, s : review' = WithReviews(q, s)
    BY <1>6 DEF Handle, Advance, PendingRead, CompletedRead, StoreRead, EndClose, FinalizeWrite, CreateFix,
         Loop, LoopCheck, CreateApproval, AssignApproval, Reconcile, PrepareCreate
<1>7. CASE \/ Submit \/ (\E m \in inbox : Consume(m)) \/ Restart \/ Crash
           \/ (\E q \in Ids : Schedule(q) \/ Fire(q)) \/ Update \/ UNCHANGED vars
    BY <1>2, <1>7 DEF Submit, Consume, ConsumeReview, ConsumeSubmission, Restart, Crash,
         Schedule, Fire, Update, vars
<1> QED BY <1>2, <1>3, <1>4, <1>5, <1>6, <1>7 DEF Next

\* ... and a phase counts as processed when its reviews have been made.
LEMMA PreparedKept ==
    ASSUME Inv, Inv', Prepared, [Next]_vars
    PROVE  abandoned' \/ Prepared'
<1>1. CASE processed' \subseteq processed
  <2>1. ASSUME NEW p \in processed', NEW r \in Approvers
        PROVE  review'[<<p, r, Winner>>] # "none"
    <3>1. p \in processed /\ p \in Ids
        BY <1>1 DEF Inv, TypeOK
    <3> QED BY <3>1, WinnerReviewsStay DEF Prepared, Inv
  <2> QED BY <2>1 DEF Prepared
<1>2. ASSUME NEW a \in Actors, PrepareCreate(a) PROVE abandoned' \/ Prepared'
  <2> DEFINE q == Top(a).phase
  <2>1. CASE abandoned'
      BY <2>1
  <2>2. CASE review' = WithReviews(q, Winner)
    <3>1. ASSUME NEW p \in processed', NEW r \in Approvers
          PROVE  review'[<<p, r, Winner>>] # "none"
      <4>1. p \in Ids
          BY DEF Inv, TypeOK
      <4>2. CASE p \in processed
          BY <4>1, <4>2, WinnerReviewsStay DEF Prepared, Inv
      <4>3. CASE p = q
        <5>1. <<p, r, Winner>> \in DOMAIN review
            BY <4>1, ApprovalAssumption DEF Inv, TypeOK, Winner, Subs, ApprovalAssumption
        <5> QED BY <2>2, <4>3, <5>1 DEF WithReviews
      <4> QED BY <1>2, <4>2, <4>3 DEF PrepareCreate
    <3> QED BY <3>1 DEF Prepared
  <2> QED BY <1>2, <2>1, <2>2 DEF PrepareCreate
<1>3. ASSUME NEW a \in Actors, Handle(a), ~PrepareCreate(a) PROVE processed' = processed
    BY <1>3 DEF Handle, Advance, PendingRead, CompletedRead, StoreRead, EndClose, FinalizeWrite, CreateFix,
         Loop, LoopCheck, CreateApproval, AssignApproval, Reconcile, PrepareDelete, memory
<1>4. CASE \/ CompleteReview \/ Submit \/ (\E m \in inbox : Consume(m)) \/ Restart \/ Crash
           \/ (\E q \in Ids : Schedule(q) \/ Fire(q)) \/ Update \/ UNCHANGED vars
  <2>1. processed' \subseteq processed
      BY <1>4 DEF CompleteReview, Submit, Consume, ConsumeReview, ConsumeSubmission, Restart,
           Crash, Schedule, Fire, Update, vars, memory
  <2> QED BY <1>1, <2>1
<1> QED BY <1>1, <1>2, <1>3, <1>4 DEF Next

LEMMA StartForward ==
    ASSUME Stacks, Followed, NEW a \in Actors, NEW fs, Start(a, fs),
           \A i \in DOMAIN fs : Preventing(fs[i]) =>
               /\ i = 1
               /\ a # "background" => \E j \in DOMAIN fs : fs[j].at = "followup"
    PROVE  Followed' /\ \A b \in Actors : Follows(b) => Follows(b)'
<1>1. Moves(a) /\ stack'[a] = fs /\ stack[a] = <<>>
    BY StartMoves DEF Busy
<1>2. ASSUME NEW b \in Actors, b # a PROVE Follows(b)' = Follows(b) /\ stack'[b] = stack[b]
    BY <1>1, <1>2 DEF Moves, Follows
<1>3. ~Follows(a)
  <2>1. DOMAIN <<>> = {}
      OBVIOUS
  <2> QED BY <1>1, <2>1 DEF Follows
<1>4. ASSUME NEW i \in DOMAIN stack'[a], Preventing(stack'[a][i])
      PROVE  i = 1 /\ (a # "background" => Follows(a)')
    BY <1>1, <1>4 DEF Follows
<1>5. ASSUME NEW b \in Actors, NEW i \in DOMAIN stack'[b], Preventing(stack'[b][i])
      PROVE  i = 1 /\ (b # "background" => Follows(b)')
    BY <1>2, <1>4, <1>5 DEF Followed
<1> QED BY <1>2, <1>3, <1>5 DEF Followed, Preventing

LEMMA KeepOwed ==
    ASSUME UNCHANGED <<status, phases>>, \A b \in Actors : Follows(b) => Follows(b)'
    PROVE  Owed => Owed'
BY DEF Owed, AllEnded

\* A phase just added is open.
LEMMA AppendOwed ==
    ASSUME TypeOK, NEW kind, phases' = Append(phases, Phase(kind))
    PROVE  Owed'
<1>1. Phase(kind).open
    BY DEF Phase
<1> HIDE DEF Phase
<1>2. phases \in Seq([kind : {"approval", "fix"}, open : BOOLEAN] \cup {Phase(kind)})
    BY SeqMonotonic DEF TypeOK
<1>3. /\ Len(phases') = Len(phases) + 1 /\ phases'[Len(phases) + 1] = Phase(kind)
      /\ phases' \in Seq([kind : {"approval", "fix"}, open : BOOLEAN] \cup {Phase(kind)})
    BY <1>2, AppendProperties
<1>4. Len(phases) + 1 \in DOMAIN phases'
    BY <1>3, PhaseFacts, LenProperties
<1> QED BY <1>1, <1>3, <1>4 DEF Owed, AllEnded

LEMMA CloseForward ==
    ASSUME Inv, Followed, NEW a \in Actors, EndClose(a)
    PROVE  Followed' /\ (abandoned' \/ (Owed => Owed'))
<1>1. Busy(a) /\ Top(a).at = "close"
    BY DEF EndClose, At
<1>2. \/ Continue(a, <<>>)
      \/ Continue(a, <<Finalize>>)
    BY DEF EndClose, Return
<1>3. Finalize.at = "finalize" /\ ~Preventing(Finalize)
    BY DEF Finalize, Preventing
<1> HIDE DEF Finalize
<1>4. /\ Followed'
      /\ \A b \in Actors : Follows(b) => Follows(b)'
      /\ Continue(a, <<Finalize>>) => Follows(a)'
    BY <1>1, <1>2, <1>3, ContinueForward DEF Inv
<1>5. CASE UNCHANGED phases
    BY <1>4, <1>5, KeepOwed DEF EndClose
<1>6. CASE ~AllEnded(phases')
    BY <1>4, <1>6 DEF Owed, AllEnded
<1>7. CASE /\ AllEnded(phases')
           /\ abandoned' = (abandoned \/ (/\ Top(a).prevent /\ a = "background"
                                          /\ AllEnded(phases')))
           /\ Continue(a, IF ~Top(a).prevent /\ AllEnded(phases') THEN <<Finalize>> ELSE <<>>)
  <2>1. CASE ~Top(a).prevent
      BY <1>4, <1>7, <2>1 DEF Owed
  <2>2. CASE Top(a).prevent /\ a = "background"
      BY <1>4, <1>7, <2>2
  <2>3. CASE Top(a).prevent /\ a # "background"
    <3>1. PICK S : stack[a] \in Seq(S)
        BY SomeSeq DEF Inv
    <3>2. Top(a) = stack[a][1] /\ 1 \in DOMAIN stack[a]
        BY <1>1, <3>1, HeadTailProperties, Popped DEF Busy, Top
    <3>3. Follows(a)
        BY <1>1, <2>3, <3>2 DEF Followed, Preventing
    <3> QED BY <1>4, <3>3 DEF Owed
  <2> QED BY <2>1, <2>2, <2>3
<1> QED BY <1>4, <1>5, <1>6, <1>7 DEF EndClose

LEMMA HandleForward ==
    ASSUME Inv, Followed, NEW a \in Actors, Handle(a)
    PROVE  Followed' /\ (abandoned' \/ (Owed => Owed'))
<1>1. CASE EndClose(a)
    BY <1>1, CloseForward
<1>2. CASE PendingRead(a) \/ CompletedRead(a)
  <2>1. /\ Busy(a) /\ Top(a).at \in {"pending", "completed"} /\ UNCHANGED <<status, phases>>
        /\ \/ Continue(a, <<>>)
           \/ Continue(a, <<[Top(a) EXCEPT !.at = "completed"]>>)
           \/ Continue(a, <<[Top(a) EXCEPT !.at = "close"]>>)
      BY <1>2 DEF PendingRead, CompletedRead, StoreRead, Defer, Return, At
  <2>2. Top(a) \in EndFrame
      BY <2>1, PlainTop DEF Inv, Frames
  <2>3. /\ Preventing([Top(a) EXCEPT !.at = "completed"]) => Preventing(Top(a))
        /\ Preventing([Top(a) EXCEPT !.at = "close"]) => Preventing(Top(a))
      BY <2>1, <2>2 DEF EndFrame, Preventing
  <2>4. Followed' /\ \A b \in Actors : Follows(b) => Follows(b)'
    <3> DEFINE read == [Top(a) EXCEPT !.at = "completed"]
               close == [Top(a) EXCEPT !.at = "close"]
    <3> HIDE DEF read, close
    <3> QED BY <2>1, <2>3, ContinueForward DEF Inv, read, close
  <2> QED BY <2>1, <2>4, KeepOwed
<1>3. CASE FinalizeWrite(a)
  <2>1. Busy(a) /\ Continue(a, <<>>) /\ status' # "ACTIVE"
      BY <1>3 DEF FinalizeWrite, At, Return
  <2> QED BY <2>1, ContinueForward DEF Inv, Owed
<1>4. CASE CreateFix(a)
  <2>1. Busy(a) /\ Continue(a, <<>>)
      BY <1>4 DEF CreateFix, At, Return
  <2>2. Followed'
      BY <2>1, ContinueForward DEF Inv
  <2>3. CASE phases' = Append(phases, Phase("fix"))
      BY <2>2, <2>3, AppendOwed DEF Inv
  <2>4. CASE abandoned'
      BY <2>2, <2>4
  <2>5. CASE UNCHANGED phases /\ Open("fix") # {}
      BY <2>2, <2>5 DEF Open, Of, Owed, AllEnded
  <2> QED BY <1>4, <2>3, <2>4, <2>5 DEF CreateFix
<1>5. CASE Loop(a) \/ Reconcile(a)
  <2>1. /\ Busy(a) /\ Top(a).at \notin {"finalize", "followup"}
        /\ \/ Continue(a, <<>>)
           \/ \E g : Continue(a, <<g>>) /\ g.at \in {"create", "assign", "prepared"}
      <3>1. CASE LoopCheck(a)
          BY <3>1 DEF LoopCheck, At, Return
      <3>2. CASE CreateApproval(a)
          BY <3>2 DEF CreateApproval, At, Return
      <3>3. CASE PrepareDelete(a)
        <4>1. Busy(a) /\ Top(a).at = "prepare"
            BY <3>3 DEF PrepareDelete, At
        <4>2. Top(a) \in [at : {"prepare", "prepared"}, phase : Ids]
            BY <4>1, PlainTop DEF Inv, Frames, EndFrame
        <4>3. [Top(a) EXCEPT !.at = "prepared"].at = "prepared"
            BY <4>2
        <4> QED BY <3>3, <4>1, <4>3 DEF PrepareDelete
      <3>4. CASE AssignApproval(a) \/ PrepareCreate(a)
          BY <3>4 DEF AssignApproval, PrepareCreate, At, Return
      <3> QED BY <1>5, <3>1, <3>2, <3>3, <3>4 DEF Loop, Reconcile
  <2>2. Followed' /\ \A b \in Actors : Follows(b) => Follows(b)'
    <3>1. CASE Continue(a, <<>>)
        BY <2>1, <3>1, ContinueForward DEF Inv
    <3>2. ASSUME NEW g, Continue(a, <<g>>), g.at \in {"create", "assign", "prepared"}
          PROVE  Followed' /\ \A b \in Actors : Follows(b) => Follows(b)'
      <4>1. ~Preventing(g)
          BY <3>2 DEF Preventing
      <4> QED BY <2>1, <3>2, <4>1, ContinueForward DEF Inv
    <3> QED BY <2>1, <3>1, <3>2
  <2>3. \/ UNCHANGED <<status, phases>>
        \/ phases' = Append(phases, Phase("approval"))
      BY <1>5 DEF Loop, Reconcile, LoopCheck, CreateApproval, AssignApproval, PrepareDelete,
           PrepareCreate
  <2>4. CASE UNCHANGED <<status, phases>>
      BY <2>2, <2>4, KeepOwed
  <2>5. CASE phases' = Append(phases, Phase("approval"))
      BY <2>2, <2>5, AppendOwed DEF Inv
  <2> QED BY <2>3, <2>4, <2>5
<1> QED BY <1>1, <1>2, <1>3, <1>4, <1>5 DEF Handle, Advance

\* The ENDs that close Final Fix phases do not prevent the finalization.
LEMMA EndsPlain ==
    ASSUME NEW q, NEW e, e.prevent = FALSE, NEW S, NEW n \in Nat, q \in [1 .. n -> S]
    PROVE  \A i \in DOMAIN (<<e>> \o EndAll(q)) : ~Preventing((<<e>> \o EndAll(q))[i])
<1> DEFINE Ends == [at : {"pending"}, phase : S, prevent : {FALSE}]
<1>1. EndAll(q) \in [1 .. n -> Ends]
    BY DEF EndAll, End
<1> HIDE DEF Ends
<1>2. EndAll(q) \in Seq(Ends \cup {e}) /\ <<e>> \in Seq(Ends \cup {e})
    BY <1>1
<1>3. <<e>> \o EndAll(q) \in Seq(Ends \cup {e})
    BY <1>2, ConcatProperties
<1>4. ASSUME NEW i \in DOMAIN (<<e>> \o EndAll(q))
      PROVE  (<<e>> \o EndAll(q))[i] \in Ends \cup {e}
    BY <1>3
<1>5. \A f \in Ends \cup {e} : ~Preventing(f)
    BY DEF Preventing, Ends
<1> QED BY <1>4, <1>5

LEMMA ReviewForward ==
    ASSUME Inv, Followed, NEW m \in inbox, ConsumeReview(m)
    PROVE  Followed' /\ \A b \in Actors : Follows(b) => Follows(b)'
<1> DEFINE Safe(fs) ==
        /\ Start("consumer", fs)
        /\ \A i \in DOMAIN fs : Preventing(fs[i]) =>
             i = 1 /\ \E j \in DOMAIN fs : fs[j].at = "followup"
<1>1. PICK fixes \in Orders(Open("fix")) :
        \/ Start("consumer", <<>>)
        \/ Start("consumer", <<End(m.phase, FALSE)>> \o EndAll(fixes))
        \/ Start("consumer", <<End(m.phase, TRUE), FollowUp(m.phase, Open("fix") # {})>>)
    BY DEF ConsumeReview, Take
<1>2. CASE Start("consumer", <<>>)
    BY <1>2, StartForward DEF Inv, Actors
<1>3. CASE Start("consumer", <<End(m.phase, FALSE)>> \o EndAll(fixes))
  <2> DEFINE e == End(m.phase, FALSE)
             n == Cardinality(Open("fix"))
  <2>1. e.prevent = FALSE
      BY DEF End
  <2>2. Open("fix") \in SUBSET (1 .. Len(phases))
      BY PhaseFacts DEF Open, Of, Inv
  <2>3. IsFiniteSet(1 .. Len(phases))
      BY PhaseFacts, FS_Interval DEF Inv
  <2>4. n \in Nat
      BY <2>2, <2>3, FS_Subset, FS_CardinalityType
  <2>5. fixes \in [1 .. n -> Open("fix")]
      BY DEF Orders
  <2> HIDE DEF e, n
  <2>6. \A i \in DOMAIN (<<e>> \o EndAll(fixes)) : ~Preventing((<<e>> \o EndAll(fixes))[i])
      BY <2>1, <2>4, <2>5, EndsPlain
  <2>7. Start("consumer", <<e>> \o EndAll(fixes))
      BY <1>3 DEF e
  <2> QED BY <2>6, <2>7, StartForward DEF Inv, Actors
<1>4. CASE Start("consumer", <<End(m.phase, TRUE), FollowUp(m.phase, Open("fix") # {})>>)
  <2> DEFINE e == End(m.phase, TRUE)
             f == FollowUp(m.phase, Open("fix") # {})
             fs == <<e, f>>
  <2>1. f.at = "followup"
      BY DEF FollowUp
  <2> HIDE DEF e, f
  <2>2. DOMAIN fs = {1, 2} /\ fs[1] = e /\ fs[2] = f
      OBVIOUS
  <2>3. ~Preventing(f)
      BY <2>1 DEF Preventing
  <2>4. Start("consumer", fs)
      BY <1>4 DEF e, f
  <2> HIDE DEF fs
  <2>5. ASSUME NEW i \in DOMAIN fs, Preventing(fs[i])
        PROVE  i = 1 /\ \E j \in DOMAIN fs : fs[j].at = "followup"
      BY <2>1, <2>2, <2>3, <2>5
  <2> QED BY <2>4, <2>5, StartForward DEF Inv, Actors
<1> QED BY <1>1, <1>2, <1>3, <1>4

\* A handler that starts with one frame; the background may prevent.
LEMMA StartOneForward ==
    ASSUME Inv, Followed, NEW a \in Actors, NEW f, Start(a, <<f>>),
           a = "background" \/ ~Preventing(f)
    PROVE  Followed' /\ \A b \in Actors : Follows(b) => Follows(b)'
<1> DEFINE fs == <<f>>
<1>1. DOMAIN fs = {1} /\ fs[1] = f
    OBVIOUS
<1> HIDE DEF fs
<1>2. Start(a, fs)
    BY DEF fs
<1> QED BY <1>1, <1>2, StartForward DEF Inv

LEMMA RestartForward ==
    ASSUME Inv, Followed, Restart
    PROVE  Followed' /\ (Owed => Owed')
<1>1. /\ stack'["stale"] = stack["consumer"] /\ stack'["consumer"] = <<>>
      /\ stack'["background"] = stack["background"] /\ stack["stale"] = <<>>
    BY DEF Restart, Inv, Stacks, Actors, Busy
<1>2. DOMAIN <<>> = {}
    OBVIOUS
<1>3. /\ Follows("stale")' = Follows("consumer") /\ ~Follows("consumer")' /\ ~Follows("stale")
      /\ Follows("background")' = Follows("background")
    BY <1>1, <1>2 DEF Follows
<1>4. Followed'
  <2>1. ASSUME NEW b \in Actors, NEW i \in DOMAIN stack'[b], Preventing(stack'[b][i])
        PROVE  i = 1 /\ (b # "background" => Follows(b)')
    <3>1. CASE b = "stale"
        BY <1>1, <1>3, <2>1, <3>1 DEF Followed, Actors
    <3>2. CASE b = "background"
        BY <1>1, <2>1, <3>2 DEF Followed, Actors
    <3>3. b # "consumer"
        BY <1>1, <1>2, <2>1
    <3> QED BY <3>1, <3>2, <3>3 DEF Actors
  <2> QED BY <2>1 DEF Followed, Preventing
<1> QED BY <1>3, <1>4 DEF Owed, AllEnded, Restart, Actors

LEMMA CrashForward ==
    ASSUME Inv, Crash
    PROVE  Followed' /\ (abandoned' \/ (Owed => Owed'))
<1>1. Followed'
  <2>1. \A b \in Actors : DOMAIN stack'[b] = {}
      BY DEF Crash
  <2> QED BY <2>1 DEF Followed
<1>2. CASE \E a \in Actors : Follows(a) /\ AllEnded(phases)
  <2>1. PICK a \in Actors : Follows(a) /\ AllEnded(phases)
      BY <1>2
  <2>2. Open("fix") = {} /\ \A p : ~IsOpen(p)
      BY <2>1 DEF Open, Of, IsOpen, AllEnded
  <2>3. Owes(a)
      BY <2>1, <2>2 DEF Follows, Owes
  <2> QED BY <1>1, <2>3 DEF Crash
<1>3. CASE ~\E a \in Actors : Follows(a) /\ AllEnded(phases)
  <2>1. status' = status /\ phases' = phases
      BY DEF Crash
  <2> QED BY <1>1, <1>3, <2>1 DEF Owed, AllEnded
<1> QED BY <1>2, <1>3

LEMMA OwedStep ==
    ASSUME Inv, Followed, [Next]_vars
    PROVE  Followed' /\ (abandoned' \/ (Owed => Owed'))
<1>1. CASE \E a \in Actors : Handle(a)
    BY <1>1, HandleForward
<1>2. CASE Restart \/ Crash
    BY <1>2, RestartForward, CrashForward
<1>3. CASE \E m \in inbox : ConsumeReview(m)
    BY <1>3, ReviewForward, KeepOwed DEF ConsumeReview
<1>4. ASSUME NEW m \in inbox, ConsumeSubmission(m)
      PROVE  Followed' /\ (Owed => Owed')
  <2>1. Start("consumer", <<>>) \/ Start("consumer", <<Check(m)>>)
      BY <1>4 DEF ConsumeSubmission, Take
  <2>2. ~Preventing(Check(m))
      BY DEF Check, Preventing
  <2> HIDE DEF Check
  <2>3. Followed' /\ \A b \in Actors : Follows(b) => Follows(b)'
    <3>1. CASE Start("consumer", <<>>)
        BY <3>1, StartForward DEF Inv, Actors
    <3>2. CASE Start("consumer", <<Check(m)>>)
        BY <2>2, <3>2, StartOneForward DEF Actors
    <3> QED BY <2>1, <3>1, <3>2
  <2> QED BY <1>4, <2>3, KeepOwed DEF ConsumeSubmission
<1>5. CASE (\E p \in Ids : Fire(p)) \/ Update
  <2>1. \E f : Start("background", <<f>>)
      BY <1>5 DEF Fire, Update
  <2>2. UNCHANGED <<status, phases>>
      BY <1>5 DEF Fire, Update
  <2>3. Followed' /\ \A b \in Actors : Follows(b) => Follows(b)'
      BY <2>1, StartOneForward DEF Actors
  <2> QED BY <2>2, <2>3, KeepOwed
<1>6. CASE CompleteReview \/ Submit \/ (\E p \in Ids : Schedule(p)) \/ UNCHANGED vars
  <2>1. UNCHANGED <<status, phases, stack>>
      BY <1>6 DEF CompleteReview, Submit, Schedule, vars
  <2> QED BY <2>1 DEF Followed, Follows, Owed, AllEnded
<1> QED BY <1>1, <1>2, <1>3, <1>4, <1>5, <1>6 DEF Next, Consume

LEMMA InitForward == Init => Forward
<1> SUFFICES ASSUME Init PROVE Forward
    OBVIOUS
<1>1. \A a \in Actors : stack[a] = <<>> /\ DOMAIN stack[a] = {}
    BY DEF Init
<1>2. Followed /\ LockHeld
    BY <1>1 DEF Init, Followed, LockHeld, Looping, Busy
<1>3. Prepared
    BY DEF Init, Prepared
<1>4. Owed
  <2>1. phases = <<Phase("approval")>> /\ Phase("approval").open
      BY DEF Init, Phase
  <2> HIDE DEF Phase
  <2>2. 1 \in DOMAIN phases /\ phases[1].open
      BY <2>1
  <2> QED BY <2>2 DEF Owed, AllEnded
<1> QED BY <1>2, <1>3, <1>4, InitInv DEF Forward

LEMMA ForwardStep == Forward /\ [Next]_vars => Forward'
<1> SUFFICES ASSUME Forward, [Next]_vars PROVE Forward'
    OBVIOUS
<1>1. Inv'
    BY InvStep DEF Forward
<1>2. LockHeld' /\ Followed'
    BY <1>1, LockStep, OwedStep DEF Forward
<1>3. abandoned' \/ (Owed' /\ Prepared')
    BY <1>1, AbandonedStays, OwedStep, PreparedKept DEF Forward
<1> QED BY <1>1, <1>2, <1>3 DEF Forward

LEMMA ForwardAlways == Spec => []Forward
<1> QED BY InitForward, ForwardStep, PTL DEF Spec

LEMMA ForwardMoves == Forward => NeverStuck
<1> SUFFICES ASSUME Forward, ~abandoned, ~Waiting
             PROVE  \/ \E a \in Actors : Owes(a)
                    \/ \E p \in Open("approval") : Completed(p) # {} \/ p \notin processed
    BY DEF NeverStuck
<1>1. status = "ACTIVE" /\ Open("fix") = {} /\ \A p \in Open("approval") : Pending(p) = {}
    BY DEF Waiting
<1>2. Owed /\ Prepared
    BY DEF Forward
<1>3. CASE AllEnded(phases)
  <2>1. PICK a \in Actors : Follows(a)
      BY <1>1, <1>3, <1>2 DEF Owed
  <2>2. \A p : ~IsOpen(p)
      BY <1>3 DEF IsOpen, AllEnded
  <2> QED BY <1>1, <2>1, <2>2 DEF Follows, Owes
<1>4. CASE ~AllEnded(phases)
  <2>1. PICK p \in DOMAIN phases : phases[p].open
      BY <1>4 DEF AllEnded
  <2>2. p \in Open("approval") /\ p \in Ids
    <3>1. TypeOK
        BY DEF Forward, Inv
    <3>2. phases[p] \in [kind : {"approval", "fix"}, open : BOOLEAN] /\ p \in Ids
        BY <3>1, PhaseFacts
    <3>3. p \notin Open("fix")
        BY <1>1
    <3> QED BY <2>1, <3>2, <3>3 DEF Open, Of
  <2>3. CASE p \in processed
    <3>1. PICK r \in Approvers : review[<<p, r, Winner>>] # "none"
        BY <1>2, <2>3, ApprovalAssumption DEF Prepared, ApprovalAssumption
    <3>2. Winner \in Subs /\ <<r, Winner>> \in Approvers \X Subs
        BY ApprovalAssumption DEF ApprovalAssumption, Winner, Subs
    <3> HIDE DEF Winner
    <3>3. review[<<p, r, Winner>>] # "pending"
      <4>1. Pending(p) = {}
          BY <1>1, <2>2
      <4> QED BY <3>2, <4>1 DEF Pending, In
    <3>4. review[<<p, r, Winner>>] \in Verdicts
      <4>1. review \in [Ids \X Approvers \X Subs -> Verdicts \cup {"none", "pending"}]
          BY DEF Forward, Inv, TypeOK
      <4> QED BY <2>2, <3>1, <3>2, <3>3, <4>1
    <3>5. Completed(p) # {}
        BY <3>2, <3>4 DEF Completed, In
    <3> QED BY <2>2, <3>5
  <2> QED BY <2>2, <2>3
<1> QED BY <1>3, <1>4

\* approvalResubmissionLocks never keeps a challenge locked without a handler
\* that will unlock it: no error, refusal, restart or crash leaks the lock.
THEOREM LockNeverLeaks == Spec => []LockHeld
<1>1. Forward => LockHeld
    BY DEF Forward
<1> QED BY <1>1, ForwardAlways, PTL

\* The loop never stops half-way unless it was abandoned: whoever closes the last
\* phase owes what follows, and an open Approval is prepared or will be.
THEOREM NeverStuckHalfway == Spec => []NeverStuck
<1> QED BY ForwardMoves, ForwardAlways, PTL

-----------------------------------------------------------------------------
(* The life of a phase *)

\* Phase p of the loop as a row of the store
PhaseLife ==
    [p \in Ids |-> IF p \notin DOMAIN phases THEN "unborn"
                   ELSE IF phases[p].open THEN "open" ELSE "ended"]

Lifecycle == INSTANCE PhaseLifecycle
                 WITH life <- PhaseLife, Phases <- Ids, Scheduled <- {}, PostMortems <- {}

\* Nobody opens a phase again, closes one that is closed or changes two at once.
LEMMA PhasesMove ==
    ASSUME Inv, [Next]_vars
    PROVE  \/ UNCHANGED phases
           \/ \E p \in DOMAIN phases :
                phases[p].open /\ phases' = [phases EXCEPT ![p].open = FALSE]
           \/ \E kind \in {"approval", "fix"} :
                Len(phases) < MaxPhases /\ phases' = Append(phases, Phase(kind))
<1>1. ASSUME NEW a \in Actors, EndClose(a)
      PROVE  \/ UNCHANGED phases
             \/ \E p \in DOMAIN phases :
                  phases[p].open /\ phases' = [phases EXCEPT ![p].open = FALSE]
    BY <1>1 DEF EndClose, IsOpen
<1>2. ASSUME NEW a \in Actors, CreateFix(a) \/ CreateApproval(a)
      PROVE  \/ UNCHANGED phases
             \/ \E kind \in {"approval", "fix"} :
                  Len(phases) < MaxPhases /\ phases' = Append(phases, Phase(kind))
    BY <1>2 DEF CreateFix, CreateApproval
<1>3. ASSUME NEW a \in Actors, Handle(a), ~EndClose(a), ~CreateFix(a), ~CreateApproval(a)
      PROVE  UNCHANGED phases
    BY <1>3 DEF Handle, Advance, PendingRead, CompletedRead, StoreRead, FinalizeWrite, Loop, LoopCheck,
         AssignApproval, Reconcile, PrepareDelete, PrepareCreate
<1>4. CASE \/ CompleteReview \/ Submit \/ (\E m \in inbox : Consume(m)) \/ Restart \/ Crash
           \/ (\E p \in Ids : Schedule(p) \/ Fire(p)) \/ Update \/ UNCHANGED vars
    BY <1>4 DEF CompleteReview, Submit, Consume, ConsumeReview, ConsumeSubmission, Restart,
         Crash, Schedule, Fire, Update, vars
<1> QED BY <1>1, <1>2, <1>3, <1>4 DEF Next

LEMMA LifeStep ==
    ASSUME Inv, Inv', [Next]_vars
    PROVE  [Lifecycle!Next]_PhaseLife
<1>1. CASE UNCHANGED phases
    BY <1>1 DEF PhaseLife
<1>2. ASSUME NEW p \in DOMAIN phases, phases[p].open,
             phases' = [phases EXCEPT ![p].open = FALSE]
      PROVE  Lifecycle!Next
  <2>1. /\ DOMAIN phases' = DOMAIN phases /\ ~phases'[p].open
        /\ \A q \in DOMAIN phases : q = p \/ phases'[q] = phases[q]
      BY <1>2, PhaseFacts DEF Inv
  <2>2. PhaseLife' \in [Ids -> Lifecycle!Stage]
      BY DEF PhaseLife, Lifecycle!Stage
  <2>3. ASSUME NEW q \in Ids PROVE Lifecycle!Step(q)
    <3>1. CASE q = p
        BY <1>2, <2>1, <3>1 DEF PhaseLife, Lifecycle!Step, Lifecycle!Moves
    <3>2. CASE q # p
        BY <2>1, <3>2 DEF PhaseLife, Lifecycle!Step
    <3> QED BY <3>1, <3>2
  <2> QED BY <2>2, <2>3 DEF Lifecycle!Next
<1>3. ASSUME NEW kind \in {"approval", "fix"}, Len(phases) < MaxPhases,
             phases' = Append(phases, Phase(kind))
      PROVE  Lifecycle!Next
  <2> DEFINE n == Len(phases) + 1
  <2>1. Phase(kind) \in [kind : {"approval", "fix"}, open : BOOLEAN] /\ Phase(kind).open
      BY DEF Phase
  <2> HIDE DEF Phase
  <2>2. /\ Len(phases') = n /\ phases'[n] = Phase(kind)
        /\ \A q \in 1 .. Len(phases) : phases'[q] = phases[q]
      BY <1>3, <2>1, AppendProperties DEF Inv, TypeOK
  <2>3. DOMAIN phases = 1 .. Len(phases) /\ DOMAIN phases' = 1 .. n /\ Len(phases) \in Nat
      BY <2>2, PhaseFacts, LenProperties DEF Inv, TypeOK
  <2>4. PhaseLife' \in [Ids -> Lifecycle!Stage]
      BY DEF PhaseLife, Lifecycle!Stage
  <2>5. ASSUME NEW q \in Ids PROVE Lifecycle!Step(q)
    <3>1. CASE q = n
      <4>1. PhaseLife[q] = "unborn" /\ PhaseLife'[q] = "open"
          BY <2>1, <2>2, <2>3, <3>1 DEF PhaseLife
      <4> QED BY <4>1 DEF Lifecycle!Step, Lifecycle!Moves
    <3>2. CASE q # n
      <4>1. q \in DOMAIN phases' <=> q \in DOMAIN phases
          BY <2>3, <3>2 DEF Ids
      <4>2. PhaseLife'[q] = PhaseLife[q]
          BY <2>2, <2>3, <4>1 DEF PhaseLife
      <4> QED BY <4>2 DEF Lifecycle!Step
    <3> QED BY <3>1, <3>2
  <2> QED BY <2>4, <2>5 DEF Lifecycle!Next
<1> QED BY <1>1, <1>2, <1>3, PhasesMove

\* The loop asks of the store only what PhaseLifecycle promises for a row: an
\* Approval or a Final Fix is created open and ends at most once, whichever of the
\* overlapping handlers ends it.
THEOREM LoopKeepsLifecycle == Spec => [][Lifecycle!Next]_PhaseLife
<1>1. Inv /\ Inv' /\ [Next]_vars => [Lifecycle!Next]_PhaseLife
    BY LifeStep
<1> QED BY <1>1, InvAlways, PTL DEF Spec
=============================================================================
