----------------------- MODULE IterativeProgress_proofs -----------------------
(***************************************************************************)
(* What keeps the loop of IterativeReview going, for any number of         *)
(* submissions, phases and background handlers: while a submission has no  *)
(* review something is left that leads to one, but for one state.  This is *)
(* the safety behind EveryReviewed, which TLC checks under fairness.       *)
(***************************************************************************)
EXTENDS IterativeReview_proofs

Empty(p) == In(p, {"pending"} \cup Results) = {}
Unseen == \E s \in 1 .. arrived : ~Seen(s)

\* The consumer has more before it than the end of a phase.
Working ==
    /\ Busy("consumer")
    /\ Top("consumer").at \in {"end", "close"} => Tail(stack["consumer"]) # <<>>

\* While an ACTIVE challenge has a reviewer and a submission without a review, a
\* message, the consumer's handler or a pending review leads on, or the latest
\* phase is open and empty.
SubmissionWaits ==
    status = "ACTIVE" /\ staffed /\ Unseen =>
        \/ inbox # {} \/ Working \/ \E p \in Ids : Pending(p) # {}
        \/ IsOpen(Latest) /\ Empty(Latest)

\* The consumer is about to end phase p, or decides whether it can.
Serves(p) ==
    /\ Busy("consumer") /\ Top("consumer").at \in {"completed", "end", "close"}
    /\ Top("consumer").phase = p

\* An open phase with a completed review has another one pending, or a message
\* or the handler at work will end it.
ReviewFollowed ==
    status = "ACTIVE" =>
        \A p \in OpenPhases : Completed(p) # {} =>
            \/ Pending(p) # {} \/ \E s \in Subs : ReviewCompleted(p, s) \in inbox
            \/ Serves(p)

-----------------------------------------------------------------------------
(* What a frame has read and still holds *)

AnyFrames ==
    Calm \cup BackFrames
    \cup [at : {"finish", "win"}, sub : Subs] \cup [at : {"outcome"}, sub : Maybe]

Started(p) == p \in DOMAIN phases /\ phases[p] # "waiting"

SoundFrames ==
    {f \in AnyFrames :
        /\ f.at = "next" => f.last = None \/ Seen(f.last)
        /\ f.at = "completed" => review[<<f.phase, f.sub>>] # "none"
        /\ f.at = "close" => Completed(f.phase) # {}
        /\ f.at \in {"check", "open"} => f.base \in DOMAIN phases
        /\ f.at \in {"assign", "create", "opened"} => Started(f.phase)
        /\ f.at = "create" => f.sub \in Subs}

\* The frames that wait below another one
Later == {f \in AnyFrames : f.at \in {"next", "finish", "win", "open", "finalize", "closed"}}

Sound ==
    /\ \A a \in Actors : stack[a] \in Seq(SoundFrames)
    /\ \A m \in inbox : m.kind = "completed" => review[<<m.phase, m.sub>>] # "none"
    /\ \A p \in Ids, s \in Subs : review[<<p, s>>] # "none" => Started(p)

Nested ==
    Busy("consumer") =>
        /\ Tail(stack["consumer"]) \in Seq(Later)
        /\ Top("consumer").at = "check" => Top("consumer").phase \in OpenPhases

Going == Sound /\ Nested /\ ReviewFollowed /\ SubmissionWaits

-----------------------------------------------------------------------------
(* Stacks *)

LEMMA ConcatOne ==
    ASSUME NEW S, NEW e \in S, NEW t \in Seq(S)
    PROVE  /\ <<e>> \o t \in Seq(S) /\ <<e>> \o t # <<>>
           /\ Head(<<e>> \o t) = e /\ Tail(<<e>> \o t) = t
<1> DEFINE u == <<e>> \o t
<1>1. <<e>> \in Seq(S) /\ Len(<<e>>) = 1 /\ <<e>>[1] = e /\ Len(t) \in Nat
    BY LenProperties
<1>2. /\ u \in Seq(S) /\ Len(u) = 1 + Len(t)
      /\ \A i \in 1 .. 1 + Len(t) : u[i] = IF i <= 1 THEN <<e>>[i] ELSE t[i - 1]
    BY <1>1, ConcatProperties
<1> HIDE DEF u
<1>3. u # <<>> /\ Head(u) = e
    BY <1>1, <1>2, EmptySeq
<1>4. Tail(u) \in Seq(S) /\ Len(Tail(u)) = Len(t) /\ \A i \in 1 .. Len(t) : Tail(u)[i] = u[i + 1]
    BY <1>1, <1>2, <1>3, HeadTailProperties
<1>5. \A i \in 1 .. Len(t) : Tail(u)[i] = t[i]
  <2> TAKE i \in 1 .. Len(t)
  <2>1. i + 1 \in 1 .. 1 + Len(t) /\ ~(i + 1 <= 1) /\ (i + 1) - 1 = i
      BY <1>1
  <2> QED BY <1>2, <1>4, <2>1
<1>6. Tail(u) = t
    BY <1>1, <1>4, <1>5, SeqEqual
<1> QED BY <1>2, <1>3, <1>6 DEF u

LEMMA PairIs ==
    ASSUME NEW S, NEW e \in S, NEW f \in S
    PROVE  <<e>> \o <<f>> = <<e, f>>
<1> DEFINE u == <<e>>
           v == <<f>>
           w == <<e, f>>
<1>1. u \in Seq(S) /\ v \in Seq(S) /\ w \in Seq(S) /\ Len(u) = 1 /\ Len(v) = 1 /\ Len(w) = 2
    OBVIOUS
<1>2. u[1] = e /\ v[1] = f /\ w[1] = e /\ w[2] = f
    OBVIOUS
<1> HIDE DEF u, v, w
<1>3. u \o v \in Seq(S) /\ Len(u \o v) = 2 /\ (u \o v)[1] = e /\ (u \o v)[2] = f
  <2>1. /\ u \o v \in Seq(S) /\ Len(u \o v) = Len(u) + Len(v)
        /\ \A i \in 1 .. Len(u) + Len(v) :
             (u \o v)[i] = IF i <= Len(u) THEN u[i] ELSE v[i - Len(u)]
      BY <1>1, ConcatProperties
  <2>2. 1 \in 1 .. Len(u) + Len(v) /\ 2 \in 1 .. Len(u) + Len(v) /\ 2 - 1 = 1
      BY <1>1
  <2> QED BY <1>1, <1>2, <2>1, <2>2
<1>4. \A i \in 1 .. Len(w) : w[i] = (u \o v)[i]
  <2> TAKE i \in 1 .. Len(w)
  <2>1. i = 1 \/ i = 2
      BY <1>1
  <2> QED BY <1>2, <1>3, <2>1
<1>5. w = u \o v
    BY <1>1, <1>3, <1>4, SeqEqual
<1> QED BY <1>5 DEF u, v, w

LEMMA ConcatTwo ==
    ASSUME NEW S, NEW e \in S, NEW f \in S, NEW t \in Seq(S)
    PROVE  /\ <<e, f>> \o t \in Seq(S) /\ <<e, f>> \o t # <<>>
           /\ Head(<<e, f>> \o t) = e /\ Tail(<<e, f>> \o t) = <<f>> \o t
<1>1. <<e>> \in Seq(S) /\ <<f>> \in Seq(S) /\ <<f>> \o t \in Seq(S)
    BY SeqOne, ConcatOne
<1>2. <<e, f>> = <<e>> \o <<f>>
    BY PairIs
<1>3. <<e, f>> \o t = <<e>> \o (<<f>> \o t)
    BY <1>1, <1>2, ConcatAssociative
<1> QED BY <1>1, <1>3, ConcatOne

LEMMA ContinueIs ==
    ASSUME Inv, NEW a \in Actors, NEW fs, Continue(a, fs)
    PROVE  /\ stack'[a] = fs \o Tail(stack[a])
           /\ \A b \in Actors \ {a} : stack'[b] = stack[b]
BY DEF Continue, Inv, Stacks

LEMMA StartIs ==
    ASSUME Inv, NEW a \in Actors, NEW f, Start(a, f)
    PROVE  /\ stack[a] = <<>> /\ stack'[a] = <<f>>
           /\ \A b \in Actors \ {a} : stack'[b] = stack[b]
BY DEF Start, Busy, Inv, Stacks

LEMMA ConsumerActs == "consumer" \in Actors
BY DEF Actors

\* The consumer's stack after a step that returns, that goes on with a frame, and
\* that calls another first
LEMMA Popped ==
    ASSUME Inv, Nested, Busy("consumer"), Continue("consumer", <<>>)
    PROVE  /\ stack'["consumer"] = Tail(stack["consumer"])
           /\ Nested' /\ (Tail(stack["consumer"]) # <<>> => Working')
<1> DEFINE t == Tail(stack["consumer"])
<1>1. t \in Seq(Later)
    BY DEF Nested
<1>2. stack'["consumer"] = t
    BY <1>1, ContinueIs, ConsumerActs, ConcatEmptySeq
<1>3. t # <<>> => Head(t) \in Later /\ Tail(t) \in Seq(Later)
    BY <1>1, HeadTailProperties
<1>4. t # <<>> => Head(t).at \notin {"check", "end", "close"}
    BY <1>3 DEF Later
<1>5. Busy("consumer")' <=> t # <<>>
    BY <1>2 DEF Busy
<1>6. Top("consumer")' = Head(t)
    BY <1>2 DEF Top
<1> HIDE DEF t
<1>7. Nested'
    BY <1>2, <1>3, <1>4, <1>5, <1>6 DEF Nested, Later
<1> QED BY <1>2, <1>4, <1>5, <1>6, <1>7 DEF Working, t

LEMMA Replaced ==
    ASSUME Inv, Nested, Busy("consumer"), NEW e \in AnyFrames, Continue("consumer", <<e>>),
           e.at = "check" => e.phase \in OpenPhases'
    PROVE  /\ Busy("consumer")' /\ Top("consumer")' = e
           /\ Tail(stack["consumer"])' = Tail(stack["consumer"])
           /\ Nested' /\ (e.at \notin {"end", "close"} => Working')
<1> DEFINE t == Tail(stack["consumer"])
<1>1. t \in Seq(Later)
    BY DEF Nested
<1>2. t \in Seq(AnyFrames)
    BY <1>1, SeqMonotonic DEF Later
<1>3. stack'["consumer"] = <<e>> \o t
    BY ContinueIs, ConsumerActs
<1> HIDE DEF t
<1>4. stack'["consumer"] # <<>> /\ Head(stack'["consumer"]) = e /\ Tail(stack'["consumer"]) = t
    BY <1>2, <1>3, ConcatOne
<1>5. Busy("consumer")' /\ Top("consumer")' = e
    BY <1>4 DEF Busy, Top
<1>6. Nested'
    BY <1>1, <1>4, <1>5 DEF Nested, Later, AnyFrames
<1> QED BY <1>4, <1>5, <1>6 DEF Working, t

LEMMA Called ==
    ASSUME Inv, Nested, Busy("consumer"), NEW e \in AnyFrames, NEW f \in Later,
           Continue("consumer", <<e, f>>), e.at # "check"
    PROVE  Busy("consumer")' /\ Top("consumer")' = e /\ Nested' /\ Working'
<1> DEFINE t == Tail(stack["consumer"])
<1>1. t \in Seq(Later) /\ f \in AnyFrames
    BY DEF Nested, Later
<1>2. t \in Seq(AnyFrames)
    BY <1>1, SeqMonotonic DEF Later
<1>3. stack'["consumer"] = <<e, f>> \o t
    BY ContinueIs, ConsumerActs
<1> HIDE DEF t
<1>4. /\ stack'["consumer"] # <<>> /\ Head(stack'["consumer"]) = e
      /\ Tail(stack'["consumer"]) = <<f>> \o t
    BY <1>1, <1>2, <1>3, ConcatTwo
<1>5. <<f>> \o t \in Seq(Later) /\ <<f>> \o t # <<>>
    BY <1>1, ConcatOne
<1>6. Busy("consumer")' /\ Top("consumer")' = e
    BY <1>4 DEF Busy, Top
<1>7. Nested'
    BY <1>4, <1>5, <1>6 DEF Nested, Later, AnyFrames
<1> QED BY <1>4, <1>5, <1>6, <1>7 DEF Working

-----------------------------------------------------------------------------
(* Reviews and phases only ever get further, and so do the frames. *)

Grows ==
    /\ \A k \in Ids \X Subs :
         /\ review[k] # "none" => review'[k] # "none"
         /\ review[k] \in Results => review'[k] \in Results
    /\ \A p \in DOMAIN phases :
         p \in DOMAIN phases' /\ (phases[p] # "waiting" => phases'[p] # "waiting")

LEMMA ReviewsGrow ==
    ASSUME Inv, UNCHANGED review, UNCHANGED phases
    PROVE  Grows
BY DEF Grows

LEMMA EndCloseGrows == ASSUME Inv, NEW a \in Actors, EndClose(a) PROVE Grows
BY DEF EndClose, Grows

LEMMA ReopenGrows == ASSUME Inv, NEW a \in Actors, Reopen(a) PROVE Grows
BY DEF Reopen, Grows

LEMMA CreatePhaseGrows == ASSUME Inv, NEW a \in Actors, CreatePhase(a) PROVE Grows
<1>1. phases \in Seq(Stages) /\ "open" \in Stages /\ phases' = Append(phases, "open")
    BY DEF CreatePhase, Inv, Stages
<1>2. /\ Len(phases') = Len(phases) + 1 /\ phases' \in Seq(Stages) /\ Len(phases) \in Nat
      /\ \A i \in 1 .. Len(phases) : phases'[i] = phases[i]
    BY <1>1, AppendProperties, LenProperties
<1>3. DOMAIN phases = 1 .. Len(phases) /\ DOMAIN phases' = 1 .. Len(phases')
    BY <1>1, <1>2, LenProperties
<1> QED BY <1>2, <1>3 DEF CreatePhase, Grows

LEMMA CreateReviewGrows == ASSUME Inv, NEW a \in Actors, CreateReview(a) PROVE Grows
<1>1. UNCHANGED phases
    BY DEF CreateReview
<1>2. \/ UNCHANGED review
      \/ /\ review' = [review EXCEPT ![<<Top(a).phase, Top(a).sub>>] = "pending"]
         /\ review[<<Top(a).phase, Top(a).sub>>] = "none"
    BY DEF CreateReview
<1> QED BY <1>1, <1>2 DEF Grows, Inv, TypeOK, Results

LEMMA CompleteReviewGrows == ASSUME Inv, CompleteReview PROVE Grows
BY DEF CompleteReview, Grows, Inv, TypeOK, Results

LEMMA FramesGrow == ASSUME Inv, Grows PROVE SoundFrames \subseteq SoundFrames'
<1> SUFFICES ASSUME NEW f \in SoundFrames PROVE f \in SoundFrames'
    OBVIOUS
<1>1. f \in AnyFrames /\ f \in AnyFrames'
    BY DEF SoundFrames, AnyFrames, Calm, BackFrames, Maybe, Subs, Ids
<1>2. ASSUME f.at = "next" PROVE f.last = None \/ Seen(f.last)'
  <2>1. f.last \in Maybe
      BY <1>1, <1>2 DEF AnyFrames, Calm, BackFrames
  <2>2. f.last = None \/ Seen(f.last)
      BY <1>2 DEF SoundFrames
  <2> QED BY <2>1, <2>2 DEF Seen, Grows, Maybe
<1>3. ASSUME f.at = "completed" PROVE review'[<<f.phase, f.sub>>] # "none"
  <2>1. f.phase \in Ids /\ f.sub \in Subs
      BY <1>1, <1>3 DEF AnyFrames, Calm, BackFrames
  <2> QED BY <1>3, <2>1 DEF SoundFrames, Grows
<1>4. ASSUME f.at = "close" PROVE Completed(f.phase)' # {}
  <2>1. f.phase \in Ids
      BY <1>1, <1>4 DEF AnyFrames, Calm, BackFrames
  <2>2. PICK s \in Subs : review[<<f.phase, s>>] \in Results
      BY <1>4 DEF SoundFrames, Completed, In
  <2>3. review'[<<f.phase, s>>] \in Results
      BY <2>1, <2>2 DEF Grows
  <2> QED BY <2>3 DEF Completed, In
<1>5. f.at \in {"check", "open"} => f.base \in DOMAIN phases'
    BY DEF SoundFrames, Grows
<1>6. f.at \in {"assign", "create", "opened"} => Started(f.phase)'
    BY DEF SoundFrames, Started, Grows
<1>7. f.at = "create" => f.sub \in Subs
    BY DEF SoundFrames
<1> QED BY <1>1, <1>2, <1>3, <1>4, <1>5, <1>6, <1>7 DEF SoundFrames, Subs

\* A step adds sound frames to one stack.
LEMMA SoundContinue ==
    ASSUME Inv, Sound, Grows, NEW a \in Actors, Busy(a),
           NEW fs \in Seq(SoundFrames'), Continue(a, fs)
    PROVE  \A b \in Actors : stack'[b] \in Seq(SoundFrames')
<1>1. \A b \in Actors : stack[b] \in Seq(SoundFrames')
    BY FramesGrow, SeqMonotonic DEF Sound
<1>2. Tail(stack[a]) \in Seq(SoundFrames')
    BY <1>1, HeadTailProperties DEF Busy
<1>3. stack'[a] \in Seq(SoundFrames')
  <2>1. fs \o Tail(stack[a]) \in Seq(SoundFrames')
      BY <1>2, ConcatProperties
  <2> QED BY <2>1, ContinueIs
<1> QED BY <1>1, <1>3, ContinueIs

LEMMA SoundStart ==
    ASSUME Inv, Sound, Grows, NEW a \in Actors, NEW f \in SoundFrames', Start(a, f)
    PROVE  \A b \in Actors : stack'[b] \in Seq(SoundFrames')
<1>1. \A b \in Actors : stack[b] \in Seq(SoundFrames')
    BY FramesGrow, SeqMonotonic DEF Sound
<1>2. stack'[a] \in Seq(SoundFrames')
    BY StartIs, SeqOne
<1> QED BY <1>1, <1>2, StartIs

LEMMA SoundIdle ==
    ASSUME Inv, Sound, Grows, UNCHANGED stack
    PROVE  \A b \in Actors : stack'[b] \in Seq(SoundFrames')
BY FramesGrow, SeqMonotonic DEF Sound

\* Messages and reviews stay sound where no review begins.
LEMMA SoundRest ==
    ASSUME Inv, Sound, Grows, \A b \in Actors : stack'[b] \in Seq(SoundFrames'),
           inbox' \subseteq inbox, UNCHANGED review
    PROVE  Sound'
BY DEF Sound, Grows, Started

\* A frame that says nothing about reviews and phases
LEMMA PlainFrame ==
    ASSUME NEW f \in AnyFrames,
           f.at \notin {"next", "completed", "close", "check", "open", "assign", "create", "opened"}
    PROVE  f \in SoundFrames'
<1>1. f \in AnyFrames'
    BY DEF AnyFrames, Calm, BackFrames, Maybe, Subs, Ids
<1> QED BY <1>1 DEF SoundFrames

LEMMA TopSound ==
    ASSUME Sound, NEW a \in Actors, Busy(a)
    PROVE  Top(a) \in SoundFrames /\ Top(a) \in AnyFrames
BY HeadTailProperties DEF Sound, Busy, Top, SoundFrames

-----------------------------------------------------------------------------
(* Steps of the consumer's handler that leave the reviews and messages alone *)

LEMMA ReturnGoes ==
    ASSUME Inv, Sound, Nested, Grows, UNCHANGED review, inbox' \subseteq inbox,
           Busy("consumer"), Continue("consumer", <<>>)
    PROVE  Sound' /\ Nested' /\ (Tail(stack["consumer"]) # <<>> => Working')
<1>1. \A b \in Actors : stack'[b] \in Seq(SoundFrames')
    BY EmptySeq, ConsumerActs, SoundContinue
<1> QED BY <1>1, SoundRest, Popped

LEMMA GoOnGoes ==
    ASSUME Inv, Sound, Nested, Grows, UNCHANGED review, inbox' \subseteq inbox,
           Busy("consumer"), NEW e \in SoundFrames', Continue("consumer", <<e>>),
           e.at = "check" => e.phase \in OpenPhases'
    PROVE  /\ Sound' /\ Nested'
           /\ Busy("consumer")' /\ Top("consumer")' = e
           /\ Tail(stack["consumer"])' = Tail(stack["consumer"])
           /\ (e.at \notin {"end", "close"} => Working')
<1>1. e \in AnyFrames
    BY DEF SoundFrames, AnyFrames, Calm, BackFrames, Maybe, Subs, Ids
<1>2. \A b \in Actors : stack'[b] \in Seq(SoundFrames')
    BY SeqOne, ConsumerActs, SoundContinue
<1> QED BY <1>1, <1>2, SoundRest, Replaced

LEMMA CallGoes ==
    ASSUME Inv, Sound, Nested, Grows, UNCHANGED review, inbox' \subseteq inbox,
           Busy("consumer"), NEW e \in SoundFrames', NEW f \in SoundFrames', f \in Later,
           Continue("consumer", <<e, f>>), e.at # "check"
    PROVE  Sound' /\ Nested' /\ Busy("consumer")' /\ Top("consumer")' = e /\ Working'
<1>1. e \in AnyFrames
    BY DEF SoundFrames, AnyFrames, Calm, BackFrames, Maybe, Subs, Ids
<1>2. \A b \in Actors : stack'[b] \in Seq(SoundFrames')
    BY SeqTwo, ConsumerActs, SoundContinue
<1> QED BY <1>1, <1>2, SoundRest, Called

\* The variables the two properties speak of, beside the stacks
Same == UNCHANGED <<status, arrived, staffed, phases, review, inbox>>

LEMMA SameWaits ==
    ASSUME SubmissionWaits, Same,
           status = "ACTIVE" /\ staffed /\ Unseen /\ Working =>
               \/ Working' \/ inbox # {} \/ \E p \in Ids : Pending(p) # {}
               \/ IsOpen(Latest) /\ Empty(Latest)
    PROVE  SubmissionWaits'
<1>1. /\ Unseen' = Unseen /\ status' = status /\ staffed' = staffed /\ inbox' = inbox
      /\ (IsOpen(Latest) /\ Empty(Latest))' = (IsOpen(Latest) /\ Empty(Latest))
      /\ \A p \in Ids : Pending(p)' = Pending(p)
    BY DEF Same, Unseen, Seen, IsOpen, Latest, Empty, In, Pending
<1> QED BY <1>1 DEF SubmissionWaits

LEMMA SameFollowed ==
    ASSUME ReviewFollowed, Same,
           \A p \in OpenPhases :
               status = "ACTIVE" /\ Completed(p) # {} /\ Serves(p) => Pending(p) # {} \/ Serves(p)'
    PROVE  ReviewFollowed'
<1>1. /\ OpenPhases' = OpenPhases /\ status' = status /\ inbox' = inbox
      /\ \A p : Completed(p)' = Completed(p) /\ Pending(p)' = Pending(p)
    BY DEF Same, OpenPhases, IsOpen, Completed, Pending, In
<1> QED BY <1>1 DEF ReviewFollowed

LEMMA SameGrows ==
    ASSUME Inv, Same
    PROVE  Grows /\ UNCHANGED review /\ inbox' \subseteq inbox
BY ReviewsGrow DEF Same

\* A pending or completed review of an open phase, when the handler at work is not
\* about to end that phase
LEMMA Held ==
    ASSUME ReviewFollowed, status = "ACTIVE", NEW p \in OpenPhases, ~Empty(p), ~Serves(p),
           p \in Ids
    PROVE  inbox # {} \/ \E q \in Ids : Pending(q) # {}
<1>1. Pending(p) # {} \/ Completed(p) # {}
    BY DEF Empty, In, Pending, Completed
<1> QED BY <1>1 DEF ReviewFollowed

-----------------------------------------------------------------------------
(* advancePhase *)

LEMMA EndReadGoes ==
    ASSUME Inv, Going, NEW a \in Actors, EndRead(a)
    PROVE  Going'
<1>1. Busy(a) /\ Top(a).at = "end"
    BY DEF EndRead, At
<1>2. a = "consumer" /\ Top(a) \in [at : {"end", "close"}, phase : Ids, refresh : BOOLEAN]
    BY <1>1, AtFacts DEF Inv
<1>3. Same
    BY DEF EndRead, Same, challenge, world
<1>4. Grows /\ UNCHANGED review /\ inbox' \subseteq inbox
    BY <1>3, SameGrows
<1> DEFINE p == Top(a).phase
           closing == [Top(a) EXCEPT !.at = "close"]
<1>5. CASE ~IsOpen(p) /\ Continue(a, <<Closed>>)
  <2>1. Closed \in SoundFrames' /\ Closed.at = "closed"
      BY CalmFrames, PlainFrame DEF Closed, AnyFrames
  <2>2. Sound' /\ Nested' /\ Working'
      BY <1>1, <1>2, <1>4, <1>5, <2>1, GoOnGoes DEF Going
  <2>3. ReviewFollowed'
      BY <1>2, <1>3, <1>5, SameFollowed DEF Going, Serves, OpenPhases
  <2> QED BY <1>3, <2>2, <2>3, SameWaits DEF Going
<1>6. CASE /\ Continue(a, <<>>)
           /\ ~IsOpen(p) \/ Completed(p) = {} \/ Pending(p) # {} \/ status # "ACTIVE"
  <2>1. Sound' /\ Nested' /\ (Tail(stack["consumer"]) # <<>> => Working')
      BY <1>1, <1>2, <1>4, <1>6, ReturnGoes DEF Going
  <2>2. ReviewFollowed'
      BY <1>2, <1>3, <1>6, SameFollowed DEF Going, Serves, OpenPhases
  <2>3. Working => Working'
      BY <1>1, <1>2, <2>1 DEF Working
  <2> QED BY <1>3, <2>1, <2>2, <2>3, SameWaits DEF Going
<1>7. CASE Continue(a, <<closing>>) /\ Completed(p) # {}
  <2>1. closing \in AnyFrames' /\ closing.at = "close" /\ closing.phase = p
      BY <1>2 DEF AnyFrames, Calm, Ids
  <2>2. {s \in Subs : review'[<<p, s>>] \in Results} # {}
      BY <1>4, <1>7 DEF Completed, In
  <2> HIDE DEF closing
  <2>3. closing \in SoundFrames'
      BY <2>1, <2>2 DEF SoundFrames, Completed, In
  <2>4. /\ Sound' /\ Nested' /\ Busy("consumer")' /\ Top("consumer")' = closing
        /\ Tail(stack["consumer"])' = Tail(stack["consumer"])
      BY <1>1, <1>2, <1>4, <1>7, <2>1, <2>3, GoOnGoes DEF Going
  <2>5. ReviewFollowed'
      BY <1>2, <1>3, <2>1, <2>4, SameFollowed DEF Going, Serves
  <2>6. Working => Working'
      BY <1>1, <1>2, <2>4 DEF Working
  <2> QED BY <1>3, <2>4, <2>5, <2>6, SameWaits DEF Going
<1> QED BY <1>5, <1>6, <1>7 DEF EndRead, Return

LEMMA EndCloseGoes ==
    ASSUME Inv, Going, NEW a \in Actors, EndClose(a)
    PROVE  Going'
<1>1. Busy(a) /\ Top(a).at = "close"
    BY DEF EndClose, At
<1>2. a = "consumer" /\ Top(a).phase \in Ids
    BY <1>1, AtFacts DEF Inv
<1>3. Grows /\ UNCHANGED review /\ inbox' = inbox /\ UNCHANGED <<status, arrived, staffed>>
    BY EndCloseGrows DEF EndClose, challenge, world
<1> DEFINE p == Top(a).phase
<1>4. Completed(p) # {}
    BY <1>1, TopSound DEF Going, SoundFrames
<1>5. CASE /\ ~(IsOpen(p) /\ status = "ACTIVE") /\ Continue(a, <<>>) /\ UNCHANGED phases
  <2>1. Same
      BY <1>3, <1>5 DEF Same
  <2>2. Sound' /\ Nested' /\ (Tail(stack["consumer"]) # <<>> => Working')
      BY <1>1, <1>2, <1>3, <1>5, ReturnGoes DEF Going
  <2>3. ReviewFollowed'
      BY <1>2, <1>5, <2>1, SameFollowed DEF Going, Serves, OpenPhases
  <2>4. Working => Working'
      BY <1>1, <1>2, <2>2 DEF Working
  <2> QED BY <2>1, <2>2, <2>3, <2>4, SameWaits DEF Going
<1>6. CASE /\ IsOpen(p) /\ phases' = [phases EXCEPT ![p] = "ended"]
           /\ \/ Continue(a, <<>>) \/ Continue(a, <<Closed>>)
              \/ Continue(a, <<Finalize>>) \/ Continue(a, <<Closed, Finalize>>)
  <2>1. Closed \in SoundFrames' /\ Finalize \in SoundFrames'
    <3>1. Closed \in AnyFrames /\ Finalize \in AnyFrames
        BY CalmFrames DEF AnyFrames
    <3> QED BY <3>1, PlainFrame DEF Closed, Finalize
  <2>2. Closed.at = "closed" /\ Finalize.at = "finalize" /\ Finalize \in Later
      BY CalmFrames DEF Closed, Finalize, Later, AnyFrames
  <2>3. Sound' /\ Nested' /\ (Working => Working')
    <3>1. CASE Continue(a, <<>>)
      <4>1. Sound' /\ Nested' /\ (Tail(stack["consumer"]) # <<>> => Working')
          BY <1>1, <1>2, <1>3, <3>1, ReturnGoes DEF Going
      <4> QED BY <1>1, <1>2, <4>1 DEF Working
    <3>2. CASE Continue(a, <<Closed>>)
        BY <1>1, <1>2, <1>3, <2>1, <2>2, <3>2, GoOnGoes DEF Going
    <3>3. CASE Continue(a, <<Finalize>>)
        BY <1>1, <1>2, <1>3, <2>1, <2>2, <3>3, GoOnGoes DEF Going
    <3>4. CASE Continue(a, <<Closed, Finalize>>)
        BY <1>1, <1>2, <1>3, <2>1, <2>2, <3>4, CallGoes DEF Going
    <3> QED BY <1>6, <3>1, <3>2, <3>3, <3>4
  <2>4. /\ DOMAIN phases' = DOMAIN phases /\ Latest' = Latest
        /\ \A q \in DOMAIN phases \ {p} : phases'[q] = phases[q]
        /\ p \in DOMAIN phases => phases'[p] = "ended"
    <3>1. DOMAIN phases' = DOMAIN phases
        BY <1>6
    <3>2. phases \in Seq(Stages) /\ phases' \in Seq(Stages)
        BY <1>2, <1>6, PhaseSet DEF Inv, Stages
    <3>3. Len(phases') = Len(phases)
        BY <3>1, <3>2, LenProperties
    <3> QED BY <1>6, <3>1, <3>3 DEF Latest
  <2>5. /\ \A q : Completed(q)' = Completed(q) /\ Pending(q)' = Pending(q) /\ Empty(q)' = Empty(q)
        /\ Unseen' = Unseen
      BY <1>3 DEF Completed, Pending, Empty, In, Unseen, Seen
  <2>6. ReviewFollowed'
    <3> SUFFICES ASSUME status = "ACTIVE", NEW q \in OpenPhases', Completed(q) # {}
                 PROVE  \/ Pending(q) # {} \/ \E s \in Subs : ReviewCompleted(q, s) \in inbox
        BY <1>3, <2>5 DEF ReviewFollowed
    <3>1. q \in OpenPhases /\ q # p
        BY <2>4 DEF OpenPhases, IsOpen
    <3> QED BY <1>2, <3>1 DEF Going, ReviewFollowed, Serves
  <2>7. SubmissionWaits'
    <3>1. IsOpen(Latest) /\ Empty(Latest) => (IsOpen(Latest) /\ Empty(Latest))'
      <4>1. Empty(Latest) => Latest # p
          BY <1>4 DEF Empty, Completed, In
      <4>2. Latest \in DOMAIN phases
          BY PhaseFacts, IterativeAssumption DEF Inv, Ids, IterativeAssumption
      <4> QED BY <2>4, <2>5, <4>1, <4>2 DEF IsOpen
    <3> QED BY <1>3, <2>3, <2>5, <3>1 DEF Going, SubmissionWaits
  <2> QED BY <2>3, <2>6, <2>7 DEF Going
<1>7. QED
  <2>1. <<>> \o <<>> = <<>> /\ <<Closed>> \o <<>> = <<Closed>> /\ <<>> \o <<Finalize>> = <<Finalize>>
        /\ <<Closed>> \o <<Finalize>> = <<Closed, Finalize>>
    <3>1. Closed \in Calm /\ Finalize \in Calm
        BY CalmFrames
    <3>2. <<Closed>> \in Seq(Calm) /\ <<Finalize>> \in Seq(Calm) /\ <<>> \in Seq(Calm)
        BY <3>1, SeqOne, EmptySeq
    <3>3. <<Closed>> \o <<Finalize>> = <<Closed, Finalize>>
        BY <3>1, PairIs
    <3> QED BY <3>2, <3>3, ConcatEmptySeq
  <2> QED BY <1>5, <1>6, <2>1 DEF EndClose, Return

\* A finalization that has read the challenge goes on to write the outcome.
LEMMA FinalizeReadGoes ==
    ASSUME Inv, Going, NEW a \in Actors, FinalizeRead(a)
    PROVE  Going'
<1>1. Busy(a) /\ Top(a).at = "finalize"
    BY DEF FinalizeRead, At
<1>2. a = "consumer"
    BY <1>1, AtFacts DEF Inv
<1>3. Same
    BY DEF FinalizeRead, Same, challenge, world
<1>4. Grows /\ UNCHANGED review /\ inbox' \subseteq inbox
    BY <1>3, SameGrows
<1>5. ReviewFollowed'
    BY <1>1, <1>2, <1>3, SameFollowed DEF Going, Serves
<1>6. CASE status # "ACTIVE" /\ Continue(a, <<>>)
  <2>1. Sound' /\ Nested'
      BY <1>1, <1>2, <1>4, <1>6, ReturnGoes DEF Going
  <2> QED BY <1>3, <1>5, <1>6, <2>1, SameWaits DEF Going
<1> DEFINE f == [at |-> "outcome", sub |-> Choice(None, Passing)]
<1>7. CASE Continue(a, <<f>>)
  <2>1. f \in AnyFrames /\ f.at = "outcome"
    <3>1. Passing \subseteq Nat /\ Passing \subseteq Subs
        BY SubFacts DEF Passing
    <3>2. Choice(None, Passing) \in Maybe
        BY <3>1, ChoiceFacts, SubFacts
    <3> QED BY <3>2 DEF AnyFrames
  <2> HIDE DEF f
  <2>2. f \in SoundFrames'
      BY <2>1, PlainFrame
  <2>3. Sound' /\ Nested' /\ Working'
      BY <1>1, <1>2, <1>4, <1>7, <2>1, <2>2, GoOnGoes DEF Going
  <2> QED BY <1>3, <1>5, <2>3, SameWaits DEF Going
<1> QED BY <1>6, <1>7 DEF FinalizeRead

\* An outcome is written: the two properties speak of ACTIVE challenges.
LEMMA WriteGoes ==
    ASSUME Inv, Going, NEW a \in Actors, FinalizeWrite(a) \/ FinishWrite(a)
    PROVE  Going'
<1>1. Busy(a) /\ Continue(a, <<>>) /\ status' # "ACTIVE"
      /\ UNCHANGED <<world, phases, review, memory>>
    BY DEF FinalizeWrite, FinishWrite, At, Return
<1>2. Grows /\ UNCHANGED review /\ inbox' \subseteq inbox /\ OpenPhases' = OpenPhases
    BY <1>1, ReviewsGrow DEF world, OpenPhases, IsOpen
<1>3. CASE a = "consumer"
  <2>1. Sound' /\ Nested'
      BY <1>1, <1>2, <1>3, ReturnGoes DEF Going
  <2> QED BY <1>1, <2>1 DEF Going, ReviewFollowed, SubmissionWaits
<1>4. CASE a # "consumer"
  <2>1. \A b \in Actors : stack'[b] \in Seq(SoundFrames')
      BY <1>1, <1>2, EmptySeq, SoundContinue DEF Going
  <2>2. Sound'
      BY <1>2, <2>1, SoundRest DEF Going
  <2>3. stack'["consumer"] = stack["consumer"]
      BY <1>1, <1>4, ContinueIs, ConsumerActs
  <2>4. Nested'
      BY <1>2, <2>3 DEF Going, Nested, Busy, Top
  <2> QED BY <1>1, <2>2, <2>4 DEF Going, ReviewFollowed, SubmissionWaits
<1> QED BY <1>3, <1>4

-----------------------------------------------------------------------------
(* The completion of a review *)

LEMMA CompletedReadGoes ==
    ASSUME Inv, Going, NEW a \in Actors, CompletedRead(a)
    PROVE  Going'
<1>1. Busy(a) /\ Top(a).at = "completed"
    BY DEF CompletedRead, At
<1>2. a = "consumer" /\ Top(a).phase \in Ids /\ Top(a).sub \in Subs
    BY <1>1, AtFacts DEF Inv
<1>3. Same
    BY DEF CompletedRead, Same, challenge, world
<1>4. Grows /\ UNCHANGED review /\ inbox' \subseteq inbox
    BY <1>3, SameGrows
<1> DEFINE p == Top(a).phase
           s == Top(a).sub
<1>5. CASE status # "ACTIVE" /\ Continue(a, <<>>)
  <2>1. Sound' /\ Nested'
      BY <1>1, <1>2, <1>4, <1>5, ReturnGoes DEF Going
  <2>2. status' # "ACTIVE"
      BY <1>3, <1>5 DEF Same
  <2> QED BY <2>1, <2>2 DEF Going, ReviewFollowed, SubmissionWaits
<1>6. CASE ~IsOpen(p) /\ Continue(a, <<Closed>>)
  <2>1. Closed \in SoundFrames' /\ Closed.at = "closed"
      BY CalmFrames, PlainFrame DEF Closed, AnyFrames
  <2>2. Sound' /\ Nested' /\ Working'
      BY <1>1, <1>2, <1>4, <1>6, <2>1, GoOnGoes DEF Going
  <2>3. ReviewFollowed'
      BY <1>2, <1>3, <1>6, SameFollowed DEF Going, Serves, OpenPhases
  <2> QED BY <1>3, <2>2, <2>3, SameWaits DEF Going
<1>7. CASE \/ Continue(a, <<End(p, FALSE), Finish(s)>>)
           \/ Continue(a, <<End(p, TRUE), PrepareNext(s)>>)
  <2>1. PICK e, f : Continue(a, <<e, f>>) /\ e \in {End(p, FALSE), End(p, TRUE)}
                    /\ f \in {Finish(s), PrepareNext(s)}
      BY <1>7
  <2>2. e \in AnyFrames /\ e.at = "end" /\ e.phase = p
    <3>1. End(p, FALSE) \in Calm /\ End(p, TRUE) \in Calm
        BY <1>2, CalmFrames
    <3>2. e \in AnyFrames
        BY <2>1, <3>1 DEF AnyFrames
    <3>3. \A refresh : End(p, refresh).at = "end" /\ End(p, refresh).phase = p
        BY DEF End
    <3> QED BY <2>1, <3>2, <3>3
  <2>3. e \in SoundFrames'
      BY <2>2, PlainFrame
  <2>4. f \in SoundFrames' /\ f \in Later
    <3>1. CASE f = Finish(s)
      <4>1. f \in AnyFrames /\ f.at = "finish"
          BY <1>2, <3>1 DEF Finish, AnyFrames
      <4> QED BY <4>1, PlainFrame DEF Later
    <3>2. CASE f = PrepareNext(s)
      <4>1. f \in AnyFrames /\ f \in AnyFrames' /\ f.at = "next" /\ f.last = s
          BY <1>2, <3>2, SubFacts DEF PrepareNext, AnyFrames, Calm, Maybe, Subs
      <4>2. review[<<p, s>>] # "none"
          BY <1>1, TopSound DEF Going, SoundFrames
      <4>3. \E q \in Ids : review'[<<q, s>>] # "none"
          BY <1>2, <1>4, <4>2
      <4> QED BY <4>1, <4>3 DEF SoundFrames, Seen, Later
    <3> QED BY <2>1, <3>1, <3>2
  <2>5. Sound' /\ Nested' /\ Busy("consumer")' /\ Top("consumer")' = e /\ Working'
      BY <1>1, <1>2, <1>4, <2>1, <2>2, <2>3, <2>4, CallGoes DEF Going
  <2>6. ReviewFollowed'
      BY <1>2, <1>3, <2>2, <2>5, SameFollowed DEF Going, Serves
  <2> QED BY <1>3, <2>5, <2>6, SameWaits DEF Going
<1> QED BY <1>5, <1>6, <1>7 DEF CompletedRead, Return

LEMMA FinishCloseGoes ==
    ASSUME Inv, Going, NEW a \in Actors, FinishClose(a)
    PROVE  Going'
<1>1. Busy(a) /\ Top(a).at = "finish"
    BY DEF FinishClose, At
<1>2. a = "consumer" /\ Top(a).sub \in Subs
    BY <1>1, AtFacts DEF Inv, Passing
<1>3. Same
    BY DEF FinishClose, Same, world
<1>4. Grows /\ UNCHANGED review /\ inbox' \subseteq inbox
    BY <1>3, SameGrows
<1>5. ReviewFollowed'
    BY <1>1, <1>2, <1>3, SameFollowed DEF Going, Serves
<1> DEFINE win == [at |-> "win", sub |-> Top(a).sub]
<1>6. win \in AnyFrames /\ win.at = "win" /\ Finalize \in AnyFrames /\ Finalize.at = "finalize"
    BY <1>2, CalmFrames DEF AnyFrames, Finalize
<1>7. Continue(a, <<Finalize, win>>) \/ Continue(a, <<win>>)
    BY DEF FinishClose
<1> HIDE DEF win
<1>8. win \in SoundFrames' /\ Finalize \in SoundFrames' /\ win \in Later
    BY <1>6, PlainFrame DEF Later
<1>9. Sound' /\ Nested' /\ Working'
  <2>1. CASE Continue(a, <<Finalize, win>>)
      BY <1>1, <1>2, <1>4, <1>6, <1>8, <2>1, CallGoes DEF Going
  <2>2. CASE Continue(a, <<win>>)
      BY <1>1, <1>2, <1>4, <1>6, <1>8, <2>2, GoOnGoes DEF Going
  <2> QED BY <1>7, <2>1, <2>2
<1> QED BY <1>3, <1>5, <1>9, SameWaits DEF Going

LEMMA ClosedReadGoes ==
    ASSUME Inv, Going, NEW a \in Actors, ClosedRead(a)
    PROVE  Going'
<1>1. Busy(a) /\ Top(a).at = "closed"
    BY DEF ClosedRead, At
<1>2. a = "consumer"
    BY <1>1, AtFacts DEF Inv
<1>3. Same
    BY DEF ClosedRead, Same, challenge, world
<1>4. Grows /\ UNCHANGED review /\ inbox' \subseteq inbox
    BY <1>3, SameGrows
<1>5. ReviewFollowed'
    BY <1>1, <1>2, <1>3, SameFollowed DEF Going, Serves
<1>6. CASE status # "ACTIVE" /\ Continue(a, <<>>)
  <2>1. Sound' /\ Nested'
      BY <1>1, <1>2, <1>4, <1>6, ReturnGoes DEF Going
  <2> QED BY <1>3, <1>5, <1>6, <2>1, SameWaits DEF Going
<1>7. CASE \/ \E s \in In(Latest, {"passed"}) : Continue(a, <<Finish(s)>>)
           \/ Continue(a, <<PrepareNext(None)>>)
  <2>1. PICK e : /\ Continue(a, <<e>>)
                 /\ (\E s \in Subs : e = Finish(s)) \/ e = PrepareNext(None)
      BY <1>7 DEF In
  <2>2. e \in SoundFrames' /\ e.at \in {"finish", "next"}
    <3>1. CASE \E s \in Subs : e = Finish(s)
      <4>1. e \in AnyFrames /\ e.at = "finish"
          BY <3>1 DEF Finish, AnyFrames
      <4> QED BY <4>1, PlainFrame
    <3>2. CASE e = PrepareNext(None)
      <4>1. e \in AnyFrames' /\ e.at = "next" /\ e.last = None
          BY <3>2 DEF PrepareNext, AnyFrames, Calm, Maybe
      <4> QED BY <4>1 DEF SoundFrames
    <3> QED BY <2>1, <3>1, <3>2
  <2>3. Sound' /\ Nested' /\ Working'
      BY <1>1, <1>2, <1>4, <2>1, <2>2, GoOnGoes DEF Going
  <2> QED BY <1>3, <1>5, <2>3, SameWaits DEF Going
<1> QED BY <1>6, <1>7 DEF ClosedRead, Return

LEMMA LatestFacts ==
    ASSUME Inv
    PROVE  /\ Latest \in Ids /\ Latest \in DOMAIN phases /\ IsSeed \in BOOLEAN
           /\ IsOpen(Latest) => Latest \in OpenPhases
<1>1. Latest \in Ids /\ DOMAIN phases = 1 .. Latest
    BY PhaseFacts DEF Inv
<1> QED BY <1>1, IterativeAssumption DEF Ids, IterativeAssumption, IsSeed, OpenPhases

\* The next submission, if there is one: an open phase waits for its own review.
LEMMA NextReadGoes ==
    ASSUME Inv, Going, NEW a \in Actors, NextRead(a)
    PROVE  Going'
<1>1. Busy(a) /\ Top(a).at = "next"
    BY DEF NextRead, At
<1>2. a = "consumer" /\ Top(a).last \in Maybe
    BY <1>1, AtFacts DEF Inv
<1>3. Same
    BY DEF NextRead, Same, challenge, world
<1>4. Grows /\ UNCHANGED review /\ inbox' \subseteq inbox
    BY <1>3, SameGrows
<1>5. ReviewFollowed'
    BY <1>1, <1>2, <1>3, SameFollowed DEF Going, Serves
<1> DEFINE C == {t \in 1 .. arrived : t # Top(a).last /\ ~Seen(t)}
           s == Choice(None, C)
           e == OpenNext(Latest, IsSeed, s)
<1>6. C \subseteq Subs /\ C \subseteq Nat
    BY IterativeAssumption DEF Inv, TypeOK, Subs, IterativeAssumption
<1>7. s \in C \/ (C = {} /\ s = None)
  <2> HIDE DEF C
  <2> QED BY <1>6, ChoiceFacts
<1>8. s \in Maybe /\ (s = None => ~Unseen)
  <2>1. s = None => C = {}
      BY <1>6, <1>7, SubFacts
  <2>2. Top(a).last = None \/ Seen(Top(a).last)
      BY <1>1, TopSound DEF Going, SoundFrames
  <2>3. C = {} => ~Unseen
    <3> SUFFICES ASSUME C = {}, NEW t \in 1 .. arrived PROVE Seen(t)
        BY DEF Unseen
    <3>1. t = Top(a).last \/ Seen(t)
        OBVIOUS
    <3>2. t # None
        BY DEF Inv, TypeOK, None
    <3> QED BY <2>2, <3>1, <3>2
  <2> QED BY <1>6, <1>7, <2>1, <2>3, SubFacts
<1>9. \/ Continue(a, <<e>>)
      \/ /\ Continue(a, <<>>)
         /\ ~(status = "ACTIVE" /\ ~IsOpen(Latest) /\ staffed /\ s # None)
    BY DEF NextRead
<1> HIDE DEF s
<1>10. CASE Continue(a, <<e>>)
  <2>1. e \in AnyFrames /\ e \in AnyFrames'
      BY <1>8, LatestFacts, CalmFrames DEF AnyFrames
  <2>2. e.at = "open" /\ e.base = Latest /\ Latest \in DOMAIN phases'
      BY <1>3, LatestFacts DEF OpenNext, Same
  <2> HIDE DEF e
  <2>3. e \in SoundFrames'
      BY <2>1, <2>2 DEF SoundFrames
  <2>4. Sound' /\ Nested' /\ Working'
      BY <1>1, <1>2, <1>4, <1>10, <2>2, <2>3, GoOnGoes DEF Going
  <2> QED BY <1>3, <1>5, <2>4, SameWaits DEF Going
<1>11. CASE /\ Continue(a, <<>>)
            /\ ~(status = "ACTIVE" /\ ~IsOpen(Latest) /\ staffed /\ s # None)
  <2>1. Sound' /\ Nested'
      BY <1>1, <1>2, <1>4, <1>11, ReturnGoes DEF Going
  <2>2. ASSUME status = "ACTIVE", staffed, Unseen
        PROVE  \/ inbox # {} \/ \E q \in Ids : Pending(q) # {}
               \/ IsOpen(Latest) /\ Empty(Latest)
    <3>1. IsOpen(Latest)
        BY <1>8, <1>11, <2>2
    <3>2. Latest \in OpenPhases /\ Latest \in Ids
        BY <3>1, LatestFacts
    <3>3. ~Serves(Latest)
        BY <1>1, <1>2 DEF Serves
    <3> QED BY <2>2, <3>1, <3>2, <3>3, Held DEF Going
  <2> QED BY <1>3, <1>5, <2>1, <2>2, SameWaits DEF Going
<1> QED BY <1>9, <1>10, <1>11

-----------------------------------------------------------------------------
(* A new phase and its review *)

LEMMA EarliestFacts ==
    ASSUME Inv
    PROVE  EarliestOpen = None \/ (EarliestOpen \in OpenPhases /\ EarliestOpen \in Ids)
<1>1. OpenPhases \subseteq Nat /\ OpenPhases \subseteq Ids
    BY PhaseFacts DEF Inv, OpenPhases
<1>2. CASE OpenPhases # {}
  <2>1. LeastOf(OpenPhases) \in OpenPhases
      BY <1>1, <1>2, LeastFacts
  <2> QED BY <1>1, <1>2, <2>1 DEF EarliestOpen
<1> QED BY <1>2 DEF EarliestOpen

\* An open phase has started, and no review is in a phase that has not.
LEMMA OpenStarted == ASSUME NEW p \in OpenPhases PROVE Started(p)
BY DEF OpenPhases, IsOpen, Started

\* A submission is dropped only for an open phase, which is looked at next.
LEMMA SubmissionReadGoes ==
    ASSUME Inv, Going, NEW a \in Actors, SubmissionRead(a)
    PROVE  Going'
<1>1. Busy(a) /\ Top(a).at = "submission"
    BY DEF SubmissionRead, At
<1>2. a = "consumer" /\ Top(a).sub \in Maybe
    BY <1>1, AtFacts DEF Inv
<1>3. Same
    BY DEF SubmissionRead, Same, challenge, world
<1>4. Grows /\ UNCHANGED review /\ inbox' \subseteq inbox
    BY <1>3, SameGrows
<1>5. ReviewFollowed'
    BY <1>1, <1>2, <1>3, SameFollowed DEF Going, Serves
<1> DEFINE earlier == \E p \in DOMAIN phases : phases[p] = "ended"
           check == [at |-> "check", phase |-> EarliestOpen,
                     base |-> Latest, seed |-> IsSeed, sub |-> Top(a).sub,
                     earlier |-> earlier]
           next == OpenNext(Latest, IsSeed, Top(a).sub)
<1>6. \/ Continue(a, <<>>) /\ (status # "ACTIVE" \/ ~staffed \/ arrived = 0)
      \/ EarliestOpen # None /\ Continue(a, <<check>>)
      \/ Continue(a, <<next>>)
    BY DEF SubmissionRead
<1>7. next \in AnyFrames /\ next.at = "open" /\ next.base = Latest
    BY <1>2, LatestFacts, CalmFrames DEF AnyFrames, OpenNext
<1>8. check.at = "check" /\ check.base = Latest /\ check.phase = EarliestOpen
      /\ (EarliestOpen # None => check \in AnyFrames)
  <2>1. earlier \in BOOLEAN
      OBVIOUS
  <2> HIDE DEF earlier
  <2> QED BY <1>2, <2>1, LatestFacts, EarliestFacts DEF AnyFrames, Calm
<1>9. Latest \in DOMAIN phases' /\ OpenPhases' = OpenPhases
    BY <1>3, LatestFacts DEF Same, OpenPhases, IsOpen
<1> HIDE DEF check, next
<1>10. CASE Continue(a, <<>>) /\ (status # "ACTIVE" \/ ~staffed \/ arrived = 0)
  <2>1. Sound' /\ Nested'
      BY <1>1, <1>2, <1>4, <1>10, ReturnGoes DEF Going
  <2>2. arrived = 0 => ~Unseen
      BY DEF Unseen
  <2> QED BY <1>3, <1>5, <1>10, <2>1, <2>2, SameWaits DEF Going
<1>11. CASE EarliestOpen # None /\ Continue(a, <<check>>)
  <2>1. check \in SoundFrames'
      BY <1>8, <1>9, <1>11 DEF SoundFrames, AnyFrames, Calm, BackFrames, Maybe, Subs, Ids
  <2>2. check.phase \in OpenPhases'
      BY <1>8, <1>9, <1>11, EarliestFacts
  <2>3. Sound' /\ Nested' /\ Working'
      BY <1>1, <1>2, <1>4, <1>8, <1>11, <2>1, <2>2, GoOnGoes DEF Going
  <2> QED BY <1>3, <1>5, <2>3, SameWaits DEF Going
<1>12. CASE Continue(a, <<next>>)
  <2>1. next \in SoundFrames'
      BY <1>7, <1>9 DEF SoundFrames, AnyFrames, Calm, BackFrames, Maybe, Subs, Ids
  <2>2. Sound' /\ Nested' /\ Working'
      BY <1>1, <1>2, <1>4, <1>7, <1>12, <2>1, GoOnGoes DEF Going
  <2> QED BY <1>3, <1>5, <2>2, SameWaits DEF Going
<1> QED BY <1>6, <1>10, <1>11, <1>12

\* It is dropped for the review of that phase, which is pending or followed.
LEMMA SubmissionCheckGoes ==
    ASSUME Inv, Going, NEW a \in Actors, SubmissionCheck(a)
    PROVE  Going'
<1>1. Busy(a) /\ Top(a).at = "check"
    BY DEF SubmissionCheck, At
<1>2. /\ a = "consumer" /\ Top(a).phase \in Ids /\ Top(a).base \in Ids
      /\ Top(a).seed \in BOOLEAN /\ Top(a).sub \in Maybe
    BY <1>1, AtFacts DEF Inv
<1>3. Same
    BY DEF SubmissionCheck, Same, challenge, world
<1>4. Grows /\ UNCHANGED review /\ inbox' \subseteq inbox
    BY <1>3, SameGrows
<1>5. ReviewFollowed'
    BY <1>1, <1>2, <1>3, SameFollowed DEF Going, Serves
<1> DEFINE f == Top(a)
           end == End(f.phase, TRUE)
           next == OpenNext(f.base, f.seed, f.sub)
           assign == Assign(f.phase, f.sub, FALSE)
<1>6. f.phase \in OpenPhases /\ Started(f.phase) /\ f.base \in DOMAIN phases
    BY <1>1, <1>2, OpenStarted, TopSound DEF Going, Nested, SoundFrames
<1>7. /\ end \in AnyFrames /\ end.at = "end"
      /\ next \in AnyFrames /\ next.at = "open" /\ next.base = f.base
      /\ assign \in AnyFrames /\ assign.at = "assign" /\ assign.phase = f.phase
    BY <1>2, CalmFrames DEF AnyFrames, End, OpenNext, Assign
<1>8. \/ Continue(a, <<>>) /\ ~Empty(f.phase)
      \/ Continue(a, <<end, next>>)
      \/ Continue(a, <<assign>>)
    BY DEF SubmissionCheck, Empty
<1> HIDE DEF end, next, assign
<1>9. f.base \in DOMAIN phases' /\ f.phase \in DOMAIN phases' /\ phases'[f.phase] # "waiting"
    BY <1>3, <1>6 DEF Same, Started
<1>10. CASE Continue(a, <<>>) /\ ~Empty(f.phase)
  <2>1. Sound' /\ Nested'
      BY <1>1, <1>2, <1>4, <1>10, ReturnGoes DEF Going
  <2>2. ~Serves(f.phase)
      BY <1>1, <1>2 DEF Serves
  <2>3. status = "ACTIVE" => inbox # {} \/ \E q \in Ids : Pending(q) # {}
      BY <1>2, <1>6, <1>10, <2>2, Held DEF Going
  <2> QED BY <1>3, <1>5, <2>1, <2>3, SameWaits DEF Going
<1>11. CASE Continue(a, <<end, next>>)
  <2>1. end \in SoundFrames'
      BY <1>7, PlainFrame
  <2>2. next \in SoundFrames' /\ next \in Later
      BY <1>7, <1>9 DEF SoundFrames, Later, AnyFrames, Calm, BackFrames, Maybe, Subs, Ids
  <2>3. Sound' /\ Nested' /\ Working'
      BY <1>1, <1>2, <1>4, <1>7, <1>11, <2>1, <2>2, CallGoes DEF Going
  <2> QED BY <1>3, <1>5, <2>3, SameWaits DEF Going
<1>12. CASE Continue(a, <<assign>>)
  <2>1. assign \in SoundFrames'
      BY <1>7, <1>9 DEF SoundFrames, Started, AnyFrames, Calm, BackFrames, Maybe, Subs, Ids
  <2>2. Sound' /\ Nested' /\ Working'
      BY <1>1, <1>2, <1>4, <1>7, <1>12, <2>1, GoOnGoes DEF Going
  <2> QED BY <1>3, <1>5, <2>2, SameWaits DEF Going
<1> QED BY <1>8, <1>10, <1>11, <1>12

\* A phase opens without reviews, and its assignment is next.
LEMMA OpenGoes ==
    ASSUME Inv, Going, NEW a \in Actors, Reopen(a) \/ CreatePhase(a)
    PROVE  Going'
<1>1. Busy(a) /\ Top(a).at = "open"
    BY DEF Reopen, CreatePhase, At
<1>2. a = "consumer" /\ Top(a).base \in Ids /\ Top(a).sub \in Maybe
    BY <1>1, AtFacts DEF Inv
<1>3. Grows /\ UNCHANGED review /\ inbox' = inbox
    BY ReopenGrows, CreatePhaseGrows DEF Reopen, CreatePhase, world
<1>4. PICK p \in Ids :
        /\ Continue(a, <<Assign(p, Top(a).sub, FALSE)>>)
        /\ p \in DOMAIN phases' /\ phases'[p] = "open"
        /\ \A q \in DOMAIN phases' \ {p} : q \in DOMAIN phases /\ phases'[q] = phases[q]
        /\ p \in OpenPhases \/ ~Started(p)
  <2>1. CASE Reopen(a)
    <3>1. Top(a).base \in DOMAIN phases
        BY <1>1, TopSound DEF Going, SoundFrames
    <3> QED BY <1>2, <2>1, <3>1 DEF Reopen, Usable, OpenPhases, IsOpen, Started
  <2>2. CASE CreatePhase(a)
    <3>1. Latest + 1 \in Ids /\ phases \in Seq(Stages) /\ "open" \in Stages
        BY <2>2, PhaseAdd DEF CreatePhase, Inv, Stages
    <3>2. /\ Len(phases') = Latest + 1 /\ phases' \in Seq(Stages) /\ Latest \in Nat
          /\ \A i \in 1 .. Latest : phases'[i] = phases[i]
          /\ phases'[Latest + 1] = "open"
        BY <2>2, <3>1, AppendProperties, LenProperties DEF CreatePhase, Latest
    <3>3. DOMAIN phases = 1 .. Latest /\ DOMAIN phases' = 1 .. Latest + 1
        BY <3>1, <3>2, LenProperties DEF Latest
    <3>4. Latest + 1 \in DOMAIN phases' /\ ~Started(Latest + 1)
        BY <3>2, <3>3 DEF Started
    <3>5. \A q \in DOMAIN phases' \ {Latest + 1} : q \in DOMAIN phases /\ phases'[q] = phases[q]
        BY <3>2, <3>3
    <3>6. Continue(a, <<Assign(Latest + 1, Top(a).sub, FALSE)>>)
        BY <2>2 DEF CreatePhase
    <3> QED BY <3>1, <3>2, <3>4, <3>5, <3>6
  <2> QED BY <2>1, <2>2
<1> DEFINE e == Assign(p, Top(a).sub, FALSE)
<1>5. e \in AnyFrames /\ e.at = "assign" /\ e.phase = p
    BY <1>2, CalmFrames DEF AnyFrames, Assign
<1> HIDE DEF e
<1>6. e \in SoundFrames'
    BY <1>4, <1>5 DEF SoundFrames, Started, AnyFrames, Calm, BackFrames, Maybe, Subs, Ids
<1>7. Sound' /\ Nested' /\ Working'
    BY <1>1, <1>2, <1>3, <1>4, <1>5, <1>6, GoOnGoes DEF Going, e
<1>8. ReviewFollowed'
  <2>1. \A q : Completed(q)' = Completed(q) /\ Pending(q)' = Pending(q)
      BY <1>3 DEF Completed, Pending, In
  <2>2. UNCHANGED status
      BY DEF Reopen, CreatePhase, challenge
  <2>3. ASSUME NEW q \in OpenPhases', Completed(q) # {} PROVE q \in OpenPhases
    <3>1. CASE q # p
        BY <1>4, <3>1 DEF OpenPhases, IsOpen
    <3>2. CASE q = p /\ ~Started(p)
      <4>1. PICK s \in Subs : review[<<p, s>>] # "none"
          BY <2>3, <3>2 DEF Completed, In, Results
      <4> QED BY <3>2, <4>1 DEF Going, Sound
    <3> QED BY <1>4, <3>1, <3>2
  <2>4. \A q : ~Serves(q)
      BY <1>1, <1>2 DEF Serves
  <2> QED BY <1>3, <2>1, <2>2, <2>3, <2>4 DEF Going, ReviewFollowed
<1> QED BY <1>7, <1>8 DEF Going, SubmissionWaits

\* What the background does on its own stack
LEMMA BackgroundSame ==
    ASSUME Inv, Going, stack'["consumer"] = stack["consumer"], Same, Sound'
    PROVE  Going'
<1>1. OpenPhases' = OpenPhases /\ Working' = Working /\ \A p : Serves(p)' = Serves(p)
    BY DEF Same, OpenPhases, IsOpen, Working, Serves, Busy, Top
<1>2. Nested'
    BY <1>1 DEF Going, Nested, Busy, Top
<1> QED BY <1>1, <1>2, SameWaits, SameFollowed DEF Going

\* Without a candidate every submission has been seen.
LEMMA AssignReadGoes ==
    ASSUME Inv, Going, NEW a \in Actors, AssignRead(a)
    PROVE  Going'
<1>1. Busy(a) /\ Top(a).at = "assign"
    BY DEF AssignRead, At
<1>2. /\ Top(a).phase \in Ids
      /\ Top(a) \in [at : {"assign", "create"}, phase : Ids, sub : Maybe, retain : BOOLEAN]
    BY <1>1, AtFacts DEF Inv
<1>3. Same
    BY DEF AssignRead, Same, challenge, world
<1>4. Grows /\ UNCHANGED review /\ inbox' \subseteq inbox
    BY <1>3, SameGrows
<1> DEFINE f == Top(a)
           C == {t \in 1 .. arrived : ~Seen(t)}
           s == Choice(f.sub, C)
           create == [f EXCEPT !.at = "create", !.sub = s]
           end == End(f.phase, TRUE)
<1>5. C \subseteq Subs /\ C \subseteq Nat
    BY IterativeAssumption DEF Inv, TypeOK, Subs, IterativeAssumption
<1>6. s \in C \/ (C = {} /\ s = None)
  <2> HIDE DEF C
  <2> QED BY <1>5, ChoiceFacts
<1>7. s \in Maybe /\ (s = None => ~Unseen)
    BY <1>5, <1>6, SubFacts DEF Unseen
<1>8. \/ s # None /\ Continue(a, <<create>>)
      \/ s = None /\ (Continue(a, <<end>>) \/ Continue(a, <<>>))
    BY DEF AssignRead
<1> HIDE DEF s
<1>9. create \in AnyFrames /\ create.at = "create" /\ create.phase = f.phase /\ create.sub = s
    BY <1>2, <1>7 DEF AnyFrames, Calm
<1>10. end \in AnyFrames /\ end.at = "end"
    BY <1>2, CalmFrames DEF AnyFrames, End
<1>11. f.phase \in DOMAIN phases' /\ phases'[f.phase] # "waiting"
    BY <1>1, <1>3, TopSound DEF Going, SoundFrames, Started, Same
<1> HIDE DEF create, end
<1>12. (s # None => create \in SoundFrames') /\ end \in SoundFrames'
  <2>1. s # None => create \in SoundFrames'
      BY <1>7, <1>9, <1>11 DEF SoundFrames, Started, AnyFrames, Calm, BackFrames, Maybe, Subs, Ids
  <2> QED BY <1>10, <2>1, PlainFrame
<1>13. CASE a = "consumer"
  <2>1. ReviewFollowed'
      BY <1>1, <1>3, <1>13, SameFollowed DEF Going, Serves
  <2>2. CASE s # None /\ Continue(a, <<create>>)
    <3>1. Sound' /\ Nested' /\ Working'
        BY <1>1, <1>4, <1>9, <1>12, <1>13, <2>2, GoOnGoes DEF Going
    <3> QED BY <1>3, <2>1, <3>1, SameWaits DEF Going
  <2>3. CASE s = None /\ Continue(a, <<end>>)
    <3>1. Sound' /\ Nested'
        BY <1>1, <1>4, <1>10, <1>12, <1>13, <2>3, GoOnGoes DEF Going
    <3> QED BY <1>3, <1>7, <2>1, <2>3, <3>1, SameWaits DEF Going
  <2>4. CASE s = None /\ Continue(a, <<>>)
    <3>1. Sound' /\ Nested'
        BY <1>1, <1>4, <1>13, <2>4, ReturnGoes DEF Going
    <3> QED BY <1>3, <1>7, <2>1, <2>4, <3>1, SameWaits DEF Going
  <2> QED BY <1>8, <2>2, <2>3, <2>4
<1>14. CASE a # "consumer"
  <2>1. PICK fs \in Seq(SoundFrames') : Continue(a, fs)
      BY <1>8, <1>12, EmptySeq, SeqOne
  <2>2. \A b \in Actors : stack'[b] \in Seq(SoundFrames')
      BY <1>1, <1>4, <2>1, SoundContinue DEF Going
  <2>3. Sound'
      BY <1>4, <2>2, SoundRest DEF Going
  <2>4. stack'["consumer"] = stack["consumer"]
      BY <1>14, <2>1, ContinueIs, ConsumerActs
  <2> QED BY <1>3, <2>3, <2>4, BackgroundSame
<1> QED BY <1>13, <1>14

\* A review begins in a phase that has started; the rest goes as before.
LEMMA CreateReviewGoes ==
    ASSUME Inv, Going, NEW a \in Actors, CreateReview(a)
    PROVE  Going'
<1>1. Busy(a) /\ Top(a).at = "create"
    BY DEF CreateReview, At
<1> DEFINE f == Top(a)
<1>2. f \in [at : {"assign", "create"}, phase : Ids, sub : Maybe, retain : BOOLEAN]
    BY <1>1, AtFacts DEF Inv
<1>3. Started(f.phase) /\ f.sub \in Subs /\ f.phase \in Ids
    BY <1>1, <1>2, TopSound DEF Going, SoundFrames
<1>4. Grows /\ UNCHANGED <<status, arrived, staffed, phases, inbox>>
    BY CreateReviewGrows DEF CreateReview, challenge, world
<1> DEFINE again == [f EXCEPT !.at = "assign", !.sub = None]
<1>5. CASE review' = [review EXCEPT ![<<f.phase, f.sub>>] = "pending"] /\ Continue(a, <<>>)
           /\ review[<<f.phase, f.sub>>] = "none"
  <2>1. /\ review'[<<f.phase, f.sub>>] = "pending"
        /\ \A k \in Ids \X Subs : k # <<f.phase, f.sub>> => review'[k] = review[k]
      BY <1>3, <1>5 DEF Inv, TypeOK
  <2>2. \A b \in Actors : stack'[b] \in Seq(SoundFrames')
      BY <1>1, <1>4, <1>5, EmptySeq, SoundContinue DEF Going
  <2>3. Sound'
    <3>1. \A m \in inbox' : m.kind = "completed" => review'[<<m.phase, m.sub>>] # "none"
      <4> SUFFICES ASSUME NEW m \in inbox, m.kind = "completed"
                   PROVE  review'[<<m.phase, m.sub>>] # "none"
          BY <1>4
      <4>1. m.phase \in Ids /\ m.sub \in Subs
          BY DEF Inv, Messages
      <4> QED BY <1>4, <4>1 DEF Going, Sound, Grows
    <3>2. \A p \in Ids, s \in Subs : review'[<<p, s>>] # "none" => Started(p)'
      <4> TAKE p \in Ids, s \in Subs
      <4>1. review'[<<p, s>>] # "none" => review[<<p, s>>] # "none" \/ p = f.phase
          BY <2>1
      <4> QED BY <1>3, <1>4, <4>1 DEF Going, Sound, Started
    <3> QED BY <2>2, <3>1, <3>2 DEF Sound
  <2>4. Nested'
    <3>1. CASE a = "consumer"
        BY <1>1, <1>5, <3>1, Popped DEF Going
    <3>2. CASE a # "consumer"
      <4>1. stack'["consumer"] = stack["consumer"]
          BY <1>5, <3>2, ContinueIs, ConsumerActs
      <4>2. OpenPhases' = OpenPhases
          BY <1>4 DEF OpenPhases, IsOpen
      <4> QED BY <4>1, <4>2 DEF Going, Nested, Busy, Top
    <3> QED BY <3>1, <3>2
  <2>5. SubmissionWaits'
    <3>1. {s \in Subs : review'[<<f.phase, s>>] \in {"pending"}} # {}
        BY <1>3, <2>1
    <3> QED BY <1>3, <3>1 DEF SubmissionWaits, Pending, In
  <2>6. ReviewFollowed'
    <3> SUFFICES ASSUME status = "ACTIVE", NEW p \in OpenPhases,
                        {s \in Subs : review'[<<p, s>>] \in Results} # {}
                 PROVE  \/ {s \in Subs : review'[<<p, s>>] \in {"pending"}} # {}
                        \/ \E s \in Subs : ReviewCompleted(p, s) \in inbox
                        \/ Serves(p)'
        BY <1>4 DEF ReviewFollowed, OpenPhases, IsOpen, Completed, Pending, In
    <3>1. p \in Ids
        BY PhaseFacts DEF Inv
    <3>2. Completed(p) # {}
        BY <2>1, <3>1 DEF Completed, In, Results
    <3>3. Pending(p) \subseteq {s \in Subs : review'[<<p, s>>] \in {"pending"}}
        BY <2>1, <3>1 DEF Pending, In
    <3>4. Serves(p) => Serves(p)'
      <4>1. CASE a = "consumer"
          BY <1>1, <4>1 DEF Serves
      <4>2. CASE a # "consumer"
        <5>1. stack'["consumer"] = stack["consumer"]
            BY <1>5, <4>2, ContinueIs, ConsumerActs
        <5> QED BY <5>1 DEF Serves, Busy, Top
      <4> QED BY <4>1, <4>2
    <3> QED BY <3>2, <3>3, <3>4 DEF Going, ReviewFollowed
  <2> QED BY <2>3, <2>4, <2>5, <2>6 DEF Going
<1>6. CASE UNCHANGED review /\ Continue(a, <<again>>)
  <2>1. Same
      BY <1>4, <1>6 DEF Same
  <2>2. again \in AnyFrames /\ again.at = "assign" /\ again.phase = f.phase
      BY <1>2, SubFacts DEF AnyFrames, Calm
  <2>3. f.phase \in DOMAIN phases' /\ phases'[f.phase] # "waiting"
      BY <1>3, <1>4 DEF Started
  <2> HIDE DEF again
  <2>4. again \in SoundFrames'
      BY <2>2, <2>3 DEF SoundFrames, Started, AnyFrames, Calm, BackFrames, Maybe, Subs, Ids
  <2>5. CASE a = "consumer"
    <3>1. Sound' /\ Nested' /\ Working'
        BY <1>1, <1>4, <1>6, <2>2, <2>4, <2>5, GoOnGoes DEF Going
    <3>2. ReviewFollowed'
        BY <1>1, <2>1, <2>5, SameFollowed DEF Going, Serves
    <3> QED BY <2>1, <3>1, <3>2, SameWaits DEF Going
  <2>6. CASE a # "consumer"
    <3>1. \A b \in Actors : stack'[b] \in Seq(SoundFrames')
        BY <1>1, <1>4, <1>6, <2>4, SeqOne, SoundContinue DEF Going
    <3>2. Sound'
        BY <1>4, <1>6, <3>1, SoundRest DEF Going
    <3>3. stack'["consumer"] = stack["consumer"]
        BY <1>6, <2>6, ContinueIs, ConsumerActs
    <3> QED BY <2>1, <3>2, <3>3, BackgroundSame
  <2> QED BY <2>5, <2>6
<1> QED BY <1>5, <1>6 DEF CreateReview, Return

\* The handler of a replayed update
LEMMA OpenedGoes ==
    ASSUME Inv, Going, NEW a \in Actors, OpenedRead(a) \/ Processed(a)
    PROVE  Going'
<1>1. Busy(a) /\ Top(a).at \in {"opened", "processed"}
    BY DEF OpenedRead, Processed, At
<1>2. a # "consumer" /\ Top(a).phase \in Ids
    BY <1>1, AtFacts DEF Inv
<1>3. Same
    BY DEF OpenedRead, Processed, Same, challenge, world
<1>4. Grows /\ UNCHANGED review /\ inbox' \subseteq inbox
    BY <1>3, SameGrows
<1>5. PICK fs \in Seq(SoundFrames') : Continue(a, fs)
  <2>1. CASE OpenedRead(a)
    <3> DEFINE f == Assign(Top(a).phase, None, TRUE)
               g == [at |-> "processed", phase |-> Top(a).phase]
    <3>1. Top(a).phase \in DOMAIN phases' /\ phases'[Top(a).phase] # "waiting"
        BY <1>1, <1>3, <2>1, TopSound DEF OpenedRead, At, Going, SoundFrames, Started, Same
    <3>2. /\ f \in AnyFrames /\ f.at = "assign" /\ f.phase = Top(a).phase
          /\ g \in AnyFrames /\ g.at = "processed"
        BY <1>2, CalmFrames, SubFacts DEF AnyFrames, Assign, BackFrames
    <3>3. Continue(a, <<f>> \o <<g>>) \/ Continue(a, <<>> \o <<g>>)
        BY <2>1 DEF OpenedRead
    <3> HIDE DEF f, g
    <3>4. f \in SoundFrames'
        BY <3>1, <3>2 DEF SoundFrames, Started, AnyFrames, Calm, BackFrames, Maybe, Subs, Ids
    <3>5. g \in SoundFrames'
        BY <3>2, PlainFrame
    <3>6. <<f>> \o <<g>> \in Seq(SoundFrames') /\ <<>> \o <<g>> \in Seq(SoundFrames')
      <4>1. <<f>> \in Seq(SoundFrames') /\ <<g>> \in Seq(SoundFrames') /\ <<>> \in Seq(SoundFrames')
          BY <3>4, <3>5, EmptySeq, SeqOne
      <4> QED BY <4>1, ConcatProperties
    <3> QED BY <3>3, <3>6
  <2>2. CASE Processed(a)
      BY <2>2, EmptySeq DEF Processed, Return
  <2> QED BY <2>1, <2>2
<1>6. \A b \in Actors : stack'[b] \in Seq(SoundFrames')
    BY <1>1, <1>4, <1>5, SoundContinue DEF Going
<1>7. Sound'
    BY <1>4, <1>6, SoundRest DEF Going
<1>8. stack'["consumer"] = stack["consumer"]
    BY <1>2, <1>5, ContinueIs, ConsumerActs
<1> QED BY <1>3, <1>7, <1>8, BackgroundSame

-----------------------------------------------------------------------------
(* The environment and the starts of handlers *)

\* A message arrives.
LEMMA ArrivalGoes ==
    ASSUME Inv, Going, Submit \/ AddReviewer
    PROVE  Going'
<1>1. UNCHANGED <<status, phases, review, stack>> /\ inbox \subseteq inbox' /\ inbox' # {}
    BY DEF Submit, AddReviewer, challenge
<1>2. \A m \in inbox' \ inbox : m.kind # "completed"
    BY DEF Submit, AddReviewer, Submission, ReviewerAdded
<1>3. \A b \in Actors : stack'[b] \in Seq(SoundFrames')
    BY <1>1, ReviewsGrow, SoundIdle DEF Going
<1>4. Sound'
    BY <1>1, <1>2, <1>3 DEF Going, Sound, Started
<1>5. OpenPhases' = OpenPhases /\ \A p : /\ Serves(p)' = Serves(p)
                                        /\ Pending(p)' = Pending(p) /\ Completed(p)' = Completed(p)
    BY <1>1 DEF OpenPhases, IsOpen, Serves, Busy, Top, Pending, Completed, In
<1>6. Nested' /\ ReviewFollowed'
    BY <1>1, <1>5 DEF Going, Nested, ReviewFollowed, Busy, Top
<1> QED BY <1>1, <1>4, <1>6 DEF Going, SubmissionWaits

LEMMA CompleteReviewGoes ==
    ASSUME Inv, Going, CompleteReview
    PROVE  Going'
<1>1. PICK p \in Ids, s \in Subs, r \in Results :
        /\ review[<<p, s>>] = "pending"
        /\ review' = [review EXCEPT ![<<p, s>>] = r]
        /\ inbox' = inbox \cup {ReviewCompleted(p, s)}
    BY DEF CompleteReview
<1>2. UNCHANGED <<status, phases, stack>> /\ Grows
    BY CompleteReviewGrows DEF CompleteReview, challenge
<1>3. /\ review'[<<p, s>>] = r
      /\ \A k \in Ids \X Subs : k # <<p, s>> => review'[k] = review[k]
    BY <1>1 DEF Inv, TypeOK
<1>4. \A b \in Actors : stack'[b] \in Seq(SoundFrames')
    BY <1>2, SoundIdle DEF Going
<1>5. Sound'
  <2>1. ASSUME NEW m \in inbox', m.kind = "completed" PROVE review'[<<m.phase, m.sub>>] # "none"
    <3>1. CASE m = ReviewCompleted(p, s)
        BY <1>3, <3>1 DEF ReviewCompleted, Results
    <3>2. CASE m \in inbox
      <4>1. m.phase \in Ids /\ m.sub \in Subs
          BY <2>1, <3>2 DEF Inv, Messages
      <4> QED BY <1>2, <2>1, <3>2, <4>1 DEF Going, Sound, Grows
    <3> QED BY <1>1, <2>1, <3>1, <3>2
  <2>2. \A q \in Ids, t \in Subs : review'[<<q, t>>] # "none" => Started(q)'
    <3> TAKE q \in Ids, t \in Subs
    <3>1. review'[<<q, t>>] # "none" => review[<<q, t>>] # "none"
        BY <1>1, <1>3
    <3> QED BY <1>2, <3>1 DEF Going, Sound, Started
  <2> QED BY <1>4, <2>1, <2>2 DEF Sound
<1>6. Nested'
    BY <1>2 DEF Going, Nested, Busy, Top, OpenPhases, IsOpen
<1>7. ReviewFollowed'
  <2> SUFFICES ASSUME status = "ACTIVE", NEW q \in OpenPhases,
                      {t \in Subs : review'[<<q, t>>] \in Results} # {}
               PROVE  \/ {t \in Subs : review'[<<q, t>>] \in {"pending"}} # {}
                      \/ \E t \in Subs : ReviewCompleted(q, t) \in inbox'
                      \/ Serves(q)'
      BY <1>2 DEF ReviewFollowed, OpenPhases, IsOpen, Completed, Pending, In
  <2>1. CASE q = p
      BY <1>1, <2>1
  <2>2. CASE q # p
    <3>1. q \in Ids
        BY PhaseFacts DEF Inv
    <3>2. Completed(q) # {} /\ Pending(q) = {t \in Subs : review'[<<q, t>>] \in {"pending"}}
        BY <1>3, <2>2, <3>1 DEF Completed, Pending, In
    <3>3. Serves(q)' = Serves(q)
        BY <1>2 DEF Serves, Busy, Top
    <3> QED BY <1>1, <3>2, <3>3 DEF Going, ReviewFollowed
  <2> QED BY <2>1, <2>2
<1> QED BY <1>1, <1>5, <1>6, <1>7 DEF Going, SubmissionWaits

\* The consumer starts on a frame.
LEMMA Begun ==
    ASSUME Inv, NEW f \in AnyFrames, Start("consumer", f), f.at # "check"
    PROVE  /\ ~Busy("consumer") /\ Busy("consumer")' /\ Top("consumer")' = f /\ Nested'
           /\ (f.at \notin {"end", "close"} => Working')
<1>1. stack["consumer"] = <<>> /\ stack'["consumer"] = <<f>>
    BY StartIs, ConsumerActs
<1>2. <<f>> # <<>> /\ Head(<<f>>) = f /\ Tail(<<f>>) = <<>>
    OBVIOUS
<1>3. <<>> \in Seq(Later)
    BY EmptySeq
<1>4. Busy("consumer")' /\ Top("consumer")' = f /\ Tail(stack["consumer"])' = <<>>
    BY <1>1, <1>2 DEF Busy, Top
<1>5. Nested'
    BY <1>3, <1>4 DEF Nested, Later, AnyFrames
<1> QED BY <1>1, <1>4, <1>5 DEF Busy, Working

LEMMA SubmissionEndsGoes ==
    ASSUME Inv, Going, SubmissionEnds
    PROVE  Going'
<1>1. Same /\ ~Busy("consumer")
    BY DEF SubmissionEnds, Same, world
<1>2. Grows /\ UNCHANGED review /\ inbox' \subseteq inbox
    BY <1>1, SameGrows
<1>3. CASE UNCHANGED stack
  <2>1. Sound'
      BY <1>2, <1>3, SoundIdle, SoundRest DEF Going
  <2> QED BY <1>1, <1>3, <2>1, BackgroundSame
<1>4. CASE Start("consumer", Finalize)
  <2>1. Finalize \in AnyFrames /\ Finalize.at = "finalize"
      BY CalmFrames DEF AnyFrames, Finalize
  <2>2. Finalize \in SoundFrames'
      BY <2>1, PlainFrame
  <2>3. Sound'
      BY <1>2, <1>4, <2>2, ConsumerActs, SoundStart, SoundRest DEF Going
  <2>4. Nested' /\ Working'
      BY <1>4, <2>1, Begun
  <2>5. ReviewFollowed'
      BY <1>1, SameFollowed DEF Going, Serves
  <2> QED BY <1>1, <2>3, <2>4, <2>5, SameWaits DEF Going
<1> QED BY <1>3, <1>4 DEF SubmissionEnds

\* What the consumer takes from the inbox it handles.
LEMMA ConsumeGoes ==
    ASSUME Inv, Going, NEW m \in inbox, Consume(m) \/ ConsumeTwice(m)
    PROVE  Going'
<1> DEFINE f == Handler(m)
<1>1. f \in AnyFrames /\ f.at \in {"submission", "completed"}
      /\ (f.at = "completed" => m.kind = "completed" /\ f.phase = m.phase /\ f.sub = m.sub)
  <2>1. f \in Calm
      BY HandlerTyped DEF Inv
  <2>2. m.kind \in {"submission", "completed", "reviewer"}
      BY DEF Inv, Messages
  <2> QED BY <2>1, <2>2 DEF Handler, AnyFrames
<1>2. /\ Start("consumer", f) /\ UNCHANGED <<status, arrived, staffed, phases, review>>
      /\ inbox' \subseteq inbox /\ inbox \ {m} \subseteq inbox'
    BY DEF Consume, ConsumeTwice, challenge, world
<1> HIDE DEF f
<1>3. Grows
    BY <1>2, ReviewsGrow
<1>4. f \in SoundFrames'
  <2>1. f.at = "completed" => review'[<<f.phase, f.sub>>] # "none"
      BY <1>1, <1>2 DEF Going, Sound
  <2> QED BY <1>1, <2>1 DEF SoundFrames, AnyFrames, Calm, BackFrames, Maybe, Subs, Ids
<1>5. Sound'
    BY <1>2, <1>3, <1>4, ConsumerActs, SoundStart, SoundRest DEF Going
<1>6. ~Busy("consumer") /\ Busy("consumer")' /\ Top("consumer")' = f /\ Nested' /\ Working'
    BY <1>1, <1>2, Begun
<1>7. ReviewFollowed'
  <2>1. OpenPhases' = OpenPhases /\ \A p : Pending(p)' = Pending(p) /\ Completed(p)' = Completed(p)
      BY <1>2 DEF OpenPhases, IsOpen, Pending, Completed, In
  <2> SUFFICES ASSUME status = "ACTIVE", NEW p \in OpenPhases, Completed(p) # {}
               PROVE  \/ Pending(p) # {} \/ \E s \in Subs : ReviewCompleted(p, s) \in inbox'
                      \/ Serves(p)'
      BY <1>2, <2>1 DEF ReviewFollowed
  <2>2. Pending(p) # {} \/ \E s \in Subs : ReviewCompleted(p, s) \in inbox
      BY <1>6 DEF Going, ReviewFollowed, Serves
  <2>3. ASSUME NEW s \in Subs, m = ReviewCompleted(p, s) PROVE Serves(p)'
    <3>1. f.at = "completed" /\ f.phase = p
        BY <2>3 DEF f, Handler, ReviewCompleted
    <3> QED BY <1>6, <3>1 DEF Serves
  <2> QED BY <1>2, <2>2, <2>3
<1> QED BY <1>5, <1>6, <1>7 DEF Going, SubmissionWaits

LEMMA DueGoes ==
    ASSUME Inv, Going, NEW p \in Ids, Due(p)
    PROVE  Going'
<1>1. Same /\ Start("consumer", End(p, TRUE))
    BY DEF Due, Same, challenge, world
<1>2. Grows /\ UNCHANGED review /\ inbox' \subseteq inbox
    BY <1>1, SameGrows
<1>3. End(p, TRUE) \in AnyFrames /\ End(p, TRUE).at = "end"
    BY CalmFrames DEF AnyFrames, End
<1>4. End(p, TRUE) \in SoundFrames'
    BY <1>3, PlainFrame
<1>5. Sound'
    BY <1>1, <1>2, <1>4, ConsumerActs, SoundStart, SoundRest DEF Going
<1>6. ~Busy("consumer") /\ Nested'
    BY <1>1, <1>3, Begun
<1>7. ReviewFollowed'
    BY <1>1, <1>6, SameFollowed DEF Going, Serves
<1> QED BY <1>1, <1>5, <1>6, <1>7, SameWaits DEF Going, Working

\* A handler starts in the background.
LEMMA BackgroundStarts ==
    ASSUME Inv, Going, Same, NEW b \in Background, NEW f \in SoundFrames', Start(b, f)
    PROVE  Going'
<1>1. Grows /\ UNCHANGED review /\ inbox' \subseteq inbox
    BY SameGrows
<1>2. b \in Actors /\ b # "consumer"
    BY IterativeAssumption DEF Actors, IterativeAssumption
<1>3. Sound'
    BY <1>1, <1>2, SoundStart, SoundRest DEF Going
<1>4. stack'["consumer"] = stack["consumer"]
    BY <1>2, StartIs, ConsumerActs
<1> QED BY <1>3, <1>4, BackgroundSame

LEMMA ReplayGoes ==
    ASSUME Inv, Going, NEW p \in Ids, ReplayUpdate(p)
    PROVE  Going'
<1>1. Same /\ p \in OpenPhases
    BY DEF ReplayUpdate, Same, challenge, world
<1> DEFINE f == [at |-> "opened", phase |-> p]
<1>2. f \in AnyFrames /\ f.at = "opened" /\ f.phase = p
    BY DEF AnyFrames, BackFrames
<1>3. p \in DOMAIN phases' /\ phases'[p] # "waiting"
    BY <1>1, OpenStarted DEF Same, Started
<1>4. PICK b \in Background : Start(b, f)
    BY DEF ReplayUpdate
<1> HIDE DEF f
<1>5. f \in SoundFrames'
    BY <1>2, <1>3 DEF SoundFrames, Started, AnyFrames, Calm, BackFrames, Maybe, Subs, Ids
<1> QED BY <1>1, <1>4, <1>5, BackgroundStarts

LEMMA VerifyGoes ==
    ASSUME Inv, Going, Verify
    PROVE  Going'
<1>1. Same
    BY DEF Verify, Same, challenge, world
<1>2. Grows /\ UNCHANGED review /\ inbox' \subseteq inbox
    BY <1>1, SameGrows
<1>3. CASE UNCHANGED stack
  <2>1. Sound'
      BY <1>2, <1>3, SoundIdle, SoundRest DEF Going
  <2> QED BY <1>1, <1>3, <2>1, BackgroundSame
<1> DEFINE f == Assign(EarliestOpen, None, TRUE)
<1>4. CASE EarliestOpen # None /\ \E b \in Background : Start(b, f)
  <2>1. EarliestOpen \in Ids /\ EarliestOpen \in OpenPhases
      BY <1>4, EarliestFacts
  <2>2. f \in AnyFrames /\ f.at = "assign" /\ f.phase = EarliestOpen
      BY <2>1, CalmFrames, SubFacts DEF AnyFrames, Assign
  <2>3. EarliestOpen \in DOMAIN phases' /\ phases'[EarliestOpen] # "waiting"
      BY <1>1, <2>1, OpenStarted DEF Same, Started
  <2>4. PICK b \in Background : Start(b, f)
      BY <1>4
  <2> HIDE DEF f
  <2>5. f \in SoundFrames'
      BY <2>2, <2>3 DEF SoundFrames, Started, AnyFrames, Calm, BackFrames, Maybe, Subs, Ids
  <2> QED BY <1>1, <2>4, <2>5, BackgroundStarts
<1> QED BY <1>3, <1>4 DEF Verify

-----------------------------------------------------------------------------
(* The invariant *)

LEMMA InitGoing == Init => Going
<1> SUFFICES ASSUME Init PROVE Going
    OBVIOUS
<1>1. Sound
    BY EmptySeq DEF Init, Sound
<1>2. ~Busy("consumer")
    BY ConsumerActs DEF Init, Busy
<1>3. ReviewFollowed
  <2> SUFFICES ASSUME NEW p \in OpenPhases PROVE FALSE
      BY DEF ReviewFollowed
  <2> QED BY DEF Init, OpenPhases, IsOpen
<1>4. SubmissionWaits
    BY DEF Init, SubmissionWaits
<1> QED BY <1>1, <1>2, <1>3, <1>4 DEF Going, Nested

LEMMA GoingStep ==
    ASSUME Inv, Going, [Next]_vars
    PROVE  Going'
<1>1. CASE UNCHANGED vars
  <2>1. Same /\ UNCHANGED stack
      BY <1>1 DEF vars, Same
  <2>2. Sound'
      BY <2>1, SameGrows, SoundIdle, SoundRest DEF Going
  <2> QED BY <2>1, <2>2, BackgroundSame
<1>2. CASE Submit \/ AddReviewer \/ CompleteReview \/ SubmissionEnds
    BY <1>2, ArrivalGoes, CompleteReviewGoes, SubmissionEndsGoes
<1>3. CASE \E m \in inbox : Consume(m) \/ ConsumeTwice(m)
    BY <1>3, ConsumeGoes
<1>4. CASE \E p \in Ids : Due(p) \/ ReplayUpdate(p)
    BY <1>4, DueGoes, ReplayGoes
<1>5. CASE Verify
    BY <1>5, VerifyGoes
<1>6. ASSUME NEW a \in Actors, Handle(a) PROVE Going'
  <2>1. CASE Advance(a)
      BY <2>1, EndReadGoes, EndCloseGoes, FinalizeReadGoes, WriteGoes DEF Advance
  <2>2. CASE Outcome(a)
      BY <2>2, CompletedReadGoes, FinishCloseGoes, WriteGoes, ClosedReadGoes, NextReadGoes
      DEF Outcome
  <2>3. CASE SubmissionRead(a) \/ SubmissionCheck(a) \/ Reopen(a) \/ CreatePhase(a)
      BY <2>3, SubmissionReadGoes, SubmissionCheckGoes, OpenGoes
  <2>4. CASE AssignRead(a) \/ CreateReview(a) \/ OpenedRead(a) \/ Processed(a)
      BY <2>4, AssignReadGoes, CreateReviewGoes, OpenedGoes
  <2> QED BY <1>6, <2>1, <2>2, <2>3, <2>4 DEF Handle, Provide
<1> QED BY <1>1, <1>2, <1>3, <1>4, <1>5, <1>6 DEF Next

LEMMA GoingAlways == Spec => []Going
<1>1. Inv /\ Going /\ [Next]_vars => Going'
    BY GoingStep
<1> QED BY InitGoing, InvAlways, <1>1, PTL DEF Spec

-----------------------------------------------------------------------------
(* The theorems *)

\* An open phase with a completed review has another review pending, or the message
\* of the completion is still there, or the consumer is about to end the phase
\* (handleIterativeReviewCompletion; an END that advancePhase defers forgets none).
THEOREM ReviewsAlwaysFollowed == Spec => []ReviewFollowed
<1>1. Going => ReviewFollowed
    BY DEF Going
<1> QED BY <1>1, GoingAlways, PTL

\* While an ACTIVE challenge has a reviewer and a submission without a review, a
\* message, a handler of the consumer or a pending review leads on, or the latest
\* phase is open and empty (processFirst2FinishSubmission drops a submission for a
\* phase that is open, prepareNextIterativeReview picks it up when it closes).
THEOREM SubmissionsAlwaysWait == Spec => []SubmissionWaits
<1>1. Going => SubmissionWaits
    BY DEF Going
<1> QED BY <1>1, GoingAlways, PTL

\* Nothing is left to happen: no message, handler, review, replay or timer.
Rests ==
    /\ inbox = {} /\ (\A a \in Actors : ~Busy(a)) /\ \A p \in Ids : Pending(p) = {}
    /\ OpenPhases \subseteq processed /\ ~verifying

\* The safety behind EveryReviewed: when nothing is left to happen every submission
\* has its review, unless the challenge has ended or its latest phase is open and
\* empty.  No other interleaving of the handlers loses a submission.
THEOREM OnlyStrandedAtRest ==
    Spec => [](Rests /\ staffed =>
                   (\A s \in 1 .. arrived : Seen(s)) \/ status # "ACTIVE" \/ Stranded)
<1>1. Going => (Rests /\ staffed =>
                   (\A s \in 1 .. arrived : Seen(s)) \/ status # "ACTIVE" \/ Stranded)
  <2> SUFFICES ASSUME Going, Rests, staffed, status = "ACTIVE", Unseen PROVE Stranded
      BY DEF Unseen
  <2>1. IsOpen(Latest) /\ Empty(Latest)
      BY ConsumerActs DEF Going, SubmissionWaits, Rests, Working
  <2> QED BY <2>1 DEF Rests, Stranded, Empty
<1> QED BY <1>1, GoingAlways, PTL
=============================================================================
