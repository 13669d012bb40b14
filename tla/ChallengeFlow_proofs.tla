------------------------- MODULE ChallengeFlow_proofs -------------------------
(***************************************************************************)
(* Proofs about ChallengeFlow, for any number of handlers, attempts,       *)
(* failing calls and crashes: an outcome is earned and never replaced by   *)
(* another, and a challenge queued for finalization has an owner; phases   *)
(* keep the life of PhaseLifecycle; and, as long as nothing is abandoned,  *)
(* no state is a dead end and no payment is forgotten.                     *)
(***************************************************************************)
EXTENDS ChallengeFlow, TLAPS

HandlerRun == [at : HandlerSteps, caller : {"end", "update"}, base : Phases, lastOne : BOOLEAN]
EarlyRun == [at : {"finalRead", "summaries"}, number : Nat \ {0}]
LateRun == [at : {"write", "preserve", "settle"}, number : Nat \ {0}, reason : Statuses]
RunType == {Idle} \cup HandlerRun \cup EarlyRun \cup LateRun

\* What the variables are, a little more than TypeOK says: no row of the first
\* two phases ever waits.
Typed ==
    /\ status \in Statuses
    /\ stage \in [Phases -> Stages]
    /\ stage[Registration] # "waiting" /\ stage[Submission] # "waiting"
    /\ registered \in BOOLEAN /\ submitted \in BOOLEAN /\ paid \in BOOLEAN
    /\ screening \in {"passed", "failed"} /\ summary \in {"failing", "passing"}
    /\ run \in [Handlers -> RunType]
    /\ attempts \in Nat /\ timer \in BOOLEAN
    /\ cached \in Statuses \cup {"none"}
    /\ faults \in Nat /\ crashes \in Nat /\ faults + crashes <= MaxMishaps

\* Facts about the world that no step undoes.
Zero == {"ZERO_REGISTRATIONS", "ZERO_SUBMISSIONS"}

\* Nothing was submitted, and nothing can be any more.
Empty ==
    /\ ~submitted
    /\ stage[Submission] # "open" \/ (~registered /\ stage[Registration] # "open")

Reviewed == submitted /\ ~ScreenedOut /\ stage[Review] = "ended"

\* What a finalization may count on when it starts, and after its first read.
Over == stage[Submission] # "open" /\ (submitted => Reviewed \/ status = "FAILED_SCREENING")
Decided == stage[Submission] # "open" /\ (submitted => Reviewed)

\* The rows and the status agree.
World ==
    /\ submitted => registered
    /\ stage[Review] = "ended" => submitted /\ ~ScreenedOut
    /\ stage[Review] = "absent" => Empty \/ status = "FAILED_SCREENING"
    /\ stage[PostMortem] # "absent" => Empty \/ status \in Cancelled
    /\ status \in Zero => Empty
    /\ status = "FAILED_SCREENING" => ScreenedOut
    /\ status \in Payable => Reviewed /\ status = Verdict
    /\ timer => Over

\* What the record r of a handler has made sure of.
Sound(r) ==
    /\ r.at = "close" /\ r.base = Review => submitted /\ ~ScreenedOut
    /\ r.at \in {"close", "reload"} /\ r.base = PostMortem => Empty
    /\ r.at = "reload" /\ r.base \in {Registration, Submission} => stage[r.base] # "open"
    /\ r.at = "regRead" => r.base = Registration /\ stage[Registration] # "open"
    /\ r.at = "subRead" => r.base = Submission /\ stage[Submission] # "open"
    /\ r.at = "screenRead" => r.base = Screening
    /\ r.at \in {"createPM", "reviews"} =>
         \/ r.base \in {Registration, Submission} /\ Empty
         \/ r.base = Screening /\ status = "FAILED_SCREENING"
    /\ r.at = "cancel" =>
         \/ r.base = Submission /\ Empty
         \/ r.base = Screening /\ ScreenedOut
    /\ r.at \in {"pmRead", "pmCancel"} => r.base = PostMortem /\ Empty
    /\ r.at \in HandlerSteps /\ r.lastOne => Over
    /\ r.at \in AttemptSteps => Over
    /\ r.at \in {"summaries", "write"} => Decided
    /\ r.at = "write" => r.reason = Verdict
    /\ r.at = "preserve" => status \in Cancelled

Inv == Typed /\ World /\ \A h \in Handlers : Sound(run[h])

-----------------------------------------------------------------------------
(* What a step does to the record of its handler *)

Others(h) == \A g \in Handlers \ {h} : run'[g] = run[g]

LEMMA AtFacts ==
    ASSUME Typed, NEW h \in Handlers
    PROVE  /\ run[h].at \in HandlerSteps => run[h] \in HandlerRun
           /\ run[h].at \in {"finalRead", "summaries"} => run[h] \in EarlyRun
           /\ run[h].at \in {"write", "preserve", "settle"} => run[h] \in LateRun
<1>1. run[h] \in RunType
    BY DEF Typed
<1> QED BY <1>1 DEF RunType, Idle, HandlerRun, EarlyRun, LateRun, HandlerSteps

LEMMA GoFacts ==
    ASSUME Typed, NEW h \in Handlers, run[h] \in HandlerRun,
           NEW step \in HandlerSteps, Go(h, step)
    PROVE  /\ run' \in [Handlers -> RunType] /\ Others(h)
           /\ run'[h] \in HandlerRun /\ run'[h].at = step
           /\ run'[h].base = run[h].base /\ run'[h].lastOne = run[h].lastOne
<1>1. run \in [Handlers -> RunType]
    BY DEF Typed
<1>2. [run[h] EXCEPT !.at = step] \in HandlerRun
    BY DEF HandlerRun
<1>3. run' = [run EXCEPT ![h] = [run[h] EXCEPT !.at = step]]
    BY <1>1 DEF Go
<1>4. run'[h] = [run[h] EXCEPT !.at = step]
    BY <1>1, <1>3
<1>5. run' \in [Handlers -> RunType] /\ Others(h)
    BY <1>1, <1>2, <1>3 DEF RunType, Others
<1> QED BY <1>2, <1>4, <1>5 DEF HandlerRun

LEMMA GoEarlyFacts ==
    ASSUME Typed, NEW h \in Handlers, run[h] \in EarlyRun, Go(h, "summaries")
    PROVE  /\ run' \in [Handlers -> RunType] /\ Others(h)
           /\ run'[h].at = "summaries"
<1>1. run \in [Handlers -> RunType]
    BY DEF Typed
<1>2. [run[h] EXCEPT !.at = "summaries"] \in EarlyRun
    BY DEF EarlyRun
<1>3. run' = [run EXCEPT ![h] = [run[h] EXCEPT !.at = "summaries"]]
    BY <1>1 DEF Go
<1>4. run'[h] = [run[h] EXCEPT !.at = "summaries"]
    BY <1>1, <1>3
<1>5. run' \in [Handlers -> RunType] /\ Others(h)
    BY <1>1, <1>2, <1>3 DEF RunType, Others
<1> QED BY <1>2, <1>4, <1>5 DEF EarlyRun

LEMMA GoLateFacts ==
    ASSUME Typed, NEW h \in Handlers, run[h] \in LateRun,
           NEW step \in {"preserve", "settle"}, Go(h, step)
    PROVE  /\ run' \in [Handlers -> RunType] /\ Others(h)
           /\ run'[h].at = step /\ run'[h].reason = run[h].reason
<1>1. run \in [Handlers -> RunType]
    BY DEF Typed
<1>2. [run[h] EXCEPT !.at = step] \in LateRun
    BY DEF LateRun
<1>3. run' = [run EXCEPT ![h] = [run[h] EXCEPT !.at = step]]
    BY <1>1 DEF Go
<1>4. run'[h] = [run[h] EXCEPT !.at = step]
    BY <1>1, <1>3
<1>5. run' \in [Handlers -> RunType] /\ Others(h)
    BY <1>1, <1>2, <1>3 DEF RunType, Others
<1> QED BY <1>2, <1>4, <1>5 DEF LateRun

LEMMA DoneFacts ==
    ASSUME Typed, NEW h \in Handlers, Done(h)
    PROVE  run' \in [Handlers -> RunType] /\ Others(h) /\ run'[h] = Idle
BY DEF Done, Typed, RunType, Others

LEMMA StartFacts ==
    ASSUME Typed, NEW h \in Handlers, StartAttempt(h)
    PROVE  /\ run' \in [Handlers -> RunType] /\ Others(h)
           /\ run'[h].at = "finalRead" /\ attempts' \in Nat \ {0}
<1>1. attempts + 1 \in Nat \ {0}
    BY DEF Typed
<1>2. [at |-> "finalRead", number |-> attempts + 1] \in EarlyRun
    BY <1>1 DEF EarlyRun
<1> QED BY <1>1, <1>2 DEF StartAttempt, Typed, RunType, Others

LEMMA SetFacts ==
    ASSUME Typed, NEW h \in Handlers, NEW r \in RunType, run' = [run EXCEPT ![h] = r]
    PROVE  run' \in [Handlers -> RunType] /\ Others(h) /\ run'[h] = r
BY DEF Typed, Others

-----------------------------------------------------------------------------
(* Types *)

\* The stages of the rows that a step creates, opens, ends or deletes.
LEMMA ReplacedTyped ==
    ASSUME Typed, NEW base \in Phases
    PROVE  /\ Replaced(base) \in [Phases -> Stages]
           /\ Replaced(base)[Registration] \in {stage[Registration], "absent"}
           /\ Replaced(base)[Submission] \in {stage[Submission], "absent"}
           /\ Replaced(base)[PostMortem] = "open"
BY DEF Typed, Replaced, Phases, Stages, Registration, Submission, Screening, Review, PostMortem

\* What the transactions that open and end a row do to the rows.
Opens(p) == stage[p] = "waiting" /\ stage' = [stage EXCEPT ![p] = "open"]
Ends(p) == stage[p] = "open" /\ stage' = [stage EXCEPT ![p] = "ended"]

LEMMA OpensTyped ==
    ASSUME Typed, NEW p \in Phases, Opens(p) \/ Ends(p)
    PROVE  /\ stage' \in [Phases -> Stages]
           /\ stage'[Registration] # "waiting" /\ stage'[Submission] # "waiting"
BY DEF Typed, Opens, Ends, Phases, Stages, Registration, Submission, Screening, Review, PostMortem

\* A due START or END finds an idle handler.
LEMMA BeginFacts ==
    ASSUME Typed, NEW h \in Handlers, NEW p \in Phases, CloseRead(h, p) \/ Start(h, p)
    PROVE  /\ run' \in [Handlers -> RunType] /\ Others(h) /\ run[h] = Idle
           /\ run'[h].base = p /\ run'[h].lastOne = FALSE
           /\ (CloseRead(h, p) /\ run'[h].at = "close") \/ run'[h].at = "open"
           /\ UNCHANGED <<status, stage, world, paid, memory, budget>>
<1>1. PICK step \in {"close", "open"} :
         /\ run' = [run EXCEPT ![h] =
                      [at |-> step, caller |-> "end", base |-> p, lastOne |-> FALSE]]
         /\ step = "close" => CloseRead(h, p)
    BY DEF CloseRead, Start
<1>2. [at |-> step, caller |-> "end", base |-> p, lastOne |-> FALSE] \in RunType
    BY DEF RunType, HandlerRun, HandlerSteps
<1>3. run[h] = Idle /\ UNCHANGED <<status, stage, world, paid, memory, budget>>
    BY DEF CloseRead, Start, Busy
<1> QED BY <1>1, <1>2, <1>3, SetFacts

LEMMA CloseFacts ==
    ASSUME Typed, NEW h \in Handlers, Close(h)
    PROVE  /\ run[h] \in HandlerRun /\ run[h].at = "close" /\ run[h].base \in Phases
           /\ \/ Ends(run[h].base) /\ Go(h, "reload")
              \/ UNCHANGED stage /\ Done(h)
           /\ UNCHANGED <<status, world, paid, memory, budget>>
<1>1. run[h] \in HandlerRun /\ run[h].at = "close"
    BY AtFacts DEF Close, At, HandlerSteps
<1> QED BY <1>1 DEF Close, Ends, HandlerRun

LEMMA ReloadFacts ==
    ASSUME Typed, NEW h \in Handlers, Reload(h)
    PROVE  /\ run[h] \in HandlerRun /\ run[h].at = "reload" /\ run[h].base \in Phases
           /\ run' \in [Handlers -> RunType] /\ Others(h)
           /\ run'[h].at = HandlerOf(run[h].base) /\ run'[h].base = run[h].base
           /\ run'[h].lastOne = AllEnded
           /\ UNCHANGED <<status, stage, world, paid, memory, budget>>
<1>1. run[h] \in HandlerRun /\ run[h].at = "reload"
    BY AtFacts DEF Reload, At, HandlerSteps
<1> DEFINE r == [run[h] EXCEPT !.at = HandlerOf(run[h].base), !.lastOne = AllEnded]
<1>2. AllEnded \in BOOLEAN /\ HandlerOf(run[h].base) \in HandlerSteps
    BY DEF AllEnded, HandlerOf, HandlerSteps
<1>3. r \in HandlerRun /\ r.at = HandlerOf(run[h].base) /\ r.base = run[h].base
      /\ r.lastOne = AllEnded
    BY <1>1, <1>2 DEF HandlerRun
<1>4. run' = [run EXCEPT ![h] = r]
    BY DEF Reload, Typed
<1> HIDE DEF r
<1>5. r \in RunType
    BY <1>3 DEF RunType
<1>6. run' \in [Handlers -> RunType] /\ Others(h) /\ run'[h] = r
    BY <1>4, <1>5, SetFacts
<1> QED BY <1>1, <1>3, <1>6 DEF Reload, HandlerRun

LEMMA ChainFacts ==
    ASSUME Typed, NEW h \in Handlers, Chain(h)
    PROVE  /\ run' \in [Handlers -> RunType] /\ Others(h)
           /\ \/ run'[h] = Idle
              \/ run'[h].at = "open" /\ run'[h].lastOne = FALSE
           /\ UNCHANGED <<status, stage, world, paid, memory, budget>>
<1>1. run[h] \in HandlerRun /\ run[h].lastOne = FALSE
    BY AtFacts DEF Chain, At, HandlerSteps, HandlerRun
<1>2. CASE Done(h)
    BY <1>2, DoneFacts DEF Chain
<1>3. CASE \E p \in Successors(run[h].base) :
              run' = [run EXCEPT ![h].at = "open", ![h].base = p]
  <2>1. PICK p \in Phases : run' = [run EXCEPT ![h].at = "open", ![h].base = p]
      BY <1>3 DEF Successors, Phases
  <2>2. run' = [run EXCEPT ![h] = [run[h] EXCEPT !.at = "open", !.base = p]]
      BY <2>1 DEF Typed
  <2>3. [run[h] EXCEPT !.at = "open", !.base = p] \in RunType
      BY <1>1 DEF HandlerRun, HandlerSteps, RunType
  <2>4. run' \in [Handlers -> RunType] /\ Others(h)
        /\ run'[h] = [run[h] EXCEPT !.at = "open", !.base = p]
      BY <2>2, <2>3, SetFacts
  <2> QED BY <1>1, <2>4 DEF Chain, HandlerRun
<1> QED BY <1>2, <1>3 DEF Chain

LEMMA OpenFacts ==
    ASSUME Typed, NEW h \in Handlers, Open(h)
    PROVE  /\ run[h] \in HandlerRun /\ run[h].base \in Phases /\ Done(h)
           /\ UNCHANGED stage \/ Opens(run[h].base)
           /\ UNCHANGED <<status, world, paid, memory, budget>>
<1>1. run[h] \in HandlerRun
    BY AtFacts DEF Open, At, HandlerSteps
<1>2. run[h].base \in Phases
    BY <1>1 DEF HandlerRun
<1> QED BY <1>1, <1>2 DEF Open, Opens, Typed

LEMMA TypeInit == Init => Typed
<1> SUFFICES ASSUME Init PROVE Typed
    OBVIOUS
<1>1. stage \in [Phases -> Stages] /\ stage[Registration] = "open" /\ stage[Submission] = "open"
    BY DEF Init, Phases, Stages, Registration, Submission, Screening, Review, PostMortem
<1>2. run \in [Handlers -> RunType]
    BY DEF Init, RunType
<1>3. faults \in Nat /\ crashes \in Nat /\ faults + crashes <= MaxMishaps
    BY FlowAssumption DEF Init, FlowAssumption
<1>4. status \in Statuses /\ cached \in Statuses \cup {"none"} /\ attempts \in Nat
    BY DEF Init, Statuses
<1>5. /\ registered \in BOOLEAN /\ submitted \in BOOLEAN /\ paid \in BOOLEAN /\ timer \in BOOLEAN
      /\ screening \in {"passed", "failed"} /\ summary \in {"failing", "passing"}
    BY DEF Init
<1> QED BY <1>1, <1>2, <1>3, <1>4, <1>5 DEF Typed

\* The reasons of a cancellation and what a finalization makes of the summaries.
LEMMA ReasonsTyped == ZeroReason \in Statuses /\ Verdict \in Statuses
BY DEF ZeroReason, Verdict, Statuses, Cancelled

\* What is left to show of a step that leaves some of the variables alone.
LEMMA TypedIf ==
    ASSUME Typed,
           status' \in Statuses,
           stage' \in [Phases -> Stages],
           stage'[Registration] # "waiting", stage'[Submission] # "waiting",
           UNCHANGED world \/ (UNCHANGED <<screening, summary>>
                               /\ registered' \in BOOLEAN /\ submitted' \in BOOLEAN),
           paid' \in BOOLEAN, run' \in [Handlers -> RunType],
           attempts' \in Nat, timer' \in BOOLEAN, cached' \in Statuses \cup {"none"},
           \/ UNCHANGED budget \/ Fail
           \/ UNCHANGED faults /\ crashes' = crashes + 1 /\ faults + crashes < MaxMishaps
    PROVE  Typed'
<1>1. faults' \in Nat /\ crashes' \in Nat /\ faults' + crashes' <= MaxMishaps
    BY FlowAssumption DEF Typed, budget, Fail, FlowAssumption
<1>2. registered' \in BOOLEAN /\ submitted' \in BOOLEAN
      /\ screening' \in {"passed", "failed"} /\ summary' \in {"failing", "passing"}
    BY DEF Typed, world
<1> QED BY <1>1, <1>2 DEF Typed

LEMMA TypeStep == Typed /\ [Next]_vars => Typed'
<1> SUFFICES ASSUME Typed, [Next]_vars PROVE Typed'
    OBVIOUS
<1>0. /\ status \in Statuses /\ stage \in [Phases -> Stages]
      /\ stage[Registration] # "waiting" /\ stage[Submission] # "waiting"
      /\ paid \in BOOLEAN /\ run \in [Handlers -> RunType]
      /\ attempts \in Nat /\ timer \in BOOLEAN /\ cached \in Statuses \cup {"none"}
    BY DEF Typed
<1>1. CASE Register \/ Submit
    BY <1>0, <1>1, TypedIf DEF Register, Submit, Typed, memory, budget
<1>2. ASSUME NEW h \in Handlers, NEW p \in Phases, CloseRead(h, p) \/ Start(h, p)
      PROVE  Typed'
    BY <1>0, <1>2, BeginFacts, TypedIf DEF memory
<1>4. ASSUME NEW h \in Handlers, Handle(h) PROVE Typed'
  <2>1. CASE Finish(h)
      BY <1>0, <2>1, TypedIf, StartFacts, GoFacts, AtFacts
      DEF Finish, At, HandlerSteps
  <2>2. CASE Chain(h)
      BY <1>0, <2>2, ChainFacts, TypedIf DEF memory
  <2>20. CASE Close(h)
    <3>1. run' \in [Handlers -> RunType]
        BY <2>20, CloseFacts, GoFacts, DoneFacts DEF HandlerSteps
    <3>2. /\ stage' \in [Phases -> Stages]
          /\ stage'[Registration] # "waiting" /\ stage'[Submission] # "waiting"
        BY <1>0, <2>20, CloseFacts, OpensTyped
    <3> QED BY <1>0, <2>20, <3>1, <3>2, CloseFacts, TypedIf DEF memory
  <2>21. CASE Reload(h)
      BY <1>0, <2>21, ReloadFacts, TypedIf DEF memory
  <2>22. CASE Open(h)
    <3>1. /\ stage' \in [Phases -> Stages]
          /\ stage'[Registration] # "waiting" /\ stage'[Submission] # "waiting"
        BY <1>0, <2>22, OpenFacts, OpensTyped
    <3> QED BY <1>0, <2>22, <3>1, OpenFacts, DoneFacts, TypedIf DEF memory
  <2>3. CASE RegistrationRead(h)
      BY <1>0, <2>3, TypedIf, GoFacts, AtFacts DEF RegistrationRead, At, HandlerSteps, memory
  <2>4. CASE SubmissionRead(h)
      BY <1>0, <2>4, TypedIf, GoFacts, AtFacts
      DEF SubmissionRead, Continue, At, HandlerSteps, memory
  <2>5. CASE ScreeningRead(h)
      BY <1>0, <2>5, TypedIf, GoFacts, AtFacts DEF ScreeningRead, At, HandlerSteps, memory
  <2>6. CASE CreatePostMortem(h)
    <3>1. run[h] \in HandlerRun /\ run' \in [Handlers -> RunType]
        BY <2>6, AtFacts, GoFacts DEF CreatePostMortem, At, HandlerSteps
    <3>2. run[h].base \in Phases
        BY <3>1 DEF HandlerRun
    <3> QED BY <1>0, <2>6, <3>1, <3>2, ReplacedTyped, TypedIf DEF CreatePostMortem, memory
  <2>7. CASE CreateRefused(h)
      BY <1>0, <2>7, TypedIf, GoFacts, DoneFacts, AtFacts
      DEF CreateRefused, Swallow, At, HandlerSteps, memory
  <2>8. CASE PostMortemReviews(h)
      BY <1>0, <2>8, TypedIf, GoFacts, DoneFacts, AtFacts
      DEF PostMortemReviews, At, HandlerSteps, memory
  <2>9. CASE CancelEmpty(h)
      BY <1>0, <2>9, TypedIf, DoneFacts, ReasonsTyped DEF CancelEmpty
  <2>10. CASE CancelScreened(h)
      BY <1>0, <2>10, TypedIf, GoFacts, AtFacts
      DEF CancelScreened, At, HandlerSteps, Statuses, Cancelled, memory
  <2>11. CASE PostMortemRead(h)
      BY <1>0, <2>11, TypedIf, GoFacts, DoneFacts, AtFacts
      DEF PostMortemRead, At, HandlerSteps, memory
  <2>12. CASE PostMortemCancel(h)
      BY <1>0, <2>12, TypedIf, DoneFacts, ReasonsTyped DEF PostMortemCancel, memory
  <2>13. CASE Evaluate(h)
      BY <1>0, <2>13, TypedIf, StartFacts, DoneFacts DEF Evaluate, Statuses
  <2>14. CASE FinalReadSettled(h)
      BY <1>0, <2>14, TypedIf, DoneFacts DEF FinalReadSettled, Settle
  <2>15. CASE FinalRead(h)
      BY <1>0, <2>15, TypedIf, GoEarlyFacts, AtFacts DEF FinalRead, At, memory
  <2>16. CASE Summaries(h)
    <3>1. run[h] \in EarlyRun
        BY <2>16, AtFacts DEF Summaries, At
    <3>2. [at |-> "write", number |-> run[h].number, reason |-> Verdict] \in LateRun
        BY <3>1, ReasonsTyped DEF EarlyRun, LateRun
    <3>3. run' \in [Handlers -> RunType]
        BY <1>0, <2>16, <3>2 DEF Summaries, RunType
    <3> QED BY <1>0, <2>16, <3>3, TypedIf DEF Summaries, memory
  <2>17. CASE WriteOutcome(h)
    <3>1. run[h] \in LateRun
        BY <2>17, AtFacts DEF WriteOutcome, At
    <3>2. status' \in Statuses
        BY <2>17, <3>1 DEF WriteOutcome, LateRun
    <3> QED BY <1>0, <2>17, <3>1, <3>2, TypedIf, GoLateFacts DEF WriteOutcome, memory
  <2>18. CASE PreservePostMortem(h)
    <3>1. stage' \in [Phases -> Stages]
          /\ stage'[Registration] = stage[Registration] /\ stage'[Submission] = stage[Submission]
        BY <1>0, <2>18 DEF PreservePostMortem, Stages, Phases, Registration, Submission, PostMortem
    <3> QED BY <1>0, <2>18, <3>1, TypedIf, GoLateFacts, AtFacts
        DEF PreservePostMortem, At, memory
  <2>19. CASE SettleOutcome(h)
      BY <1>0, <2>19, TypedIf, DoneFacts DEF SettleOutcome, Settle
  <2> QED
      BY <1>4, <2>1, <2>2, <2>3, <2>4, <2>5, <2>6, <2>7, <2>8, <2>9, <2>10, <2>11, <2>12,
         <2>13, <2>14, <2>15, <2>16, <2>17, <2>18, <2>19, <2>20, <2>21, <2>22
      DEF Handle, CloseHandler, Finalization
<1>5. ASSUME NEW h \in Handlers, TimerFires(h) PROVE Typed'
    BY <1>0, <1>5, TypedIf, StartFacts DEF TimerFires
<1>6. ASSUME NEW h \in Handlers, Update(h) PROVE Typed'
  <2>1. CASE UpdateSettled(h)
      BY <1>0, <2>1, TypedIf DEF UpdateSettled
  <2>2. CASE UpdateRead(h)
    <3>1. PICK step \in HandlerSteps : run' = [run EXCEPT ![h] =
              [at |-> step, caller |-> "update", base |-> Submission, lastOne |-> AllEnded]]
        BY <2>2 DEF UpdateRead, HandlerSteps
    <3>2. [at |-> step, caller |-> "update", base |-> Submission, lastOne |-> AllEnded]
             \in HandlerRun
        BY DEF HandlerRun, AllEnded, Phases
    <3>3. run' \in [Handlers -> RunType]
        BY <1>0, <3>1, <3>2 DEF RunType
    <3> QED BY <1>0, <2>2, <3>3, TypedIf DEF UpdateRead, memory
  <2> QED BY <1>6, <2>1, <2>2 DEF Update
<1>7. ASSUME NEW h \in Handlers, HandlerFails(h) PROVE Typed'
  <2>1. run[h] \in HandlerRun
      BY <1>7, AtFacts DEF HandlerFails, Fails, HandlerSteps
  <2>2. run' \in [Handlers -> RunType]
      BY <1>7, <2>1, GoFacts, DoneFacts DEF HandlerFails, Fails, Swallow, HandlerSteps
  <2> QED BY <1>0, <1>7, <2>2, TypedIf DEF HandlerFails, Fails, memory
<1>8. ASSUME NEW h \in Handlers, AttemptFails(h) PROVE Typed'
    BY <1>0, <1>8, TypedIf, DoneFacts DEF AttemptFails, Retry
<1>9. ASSUME NEW h \in Handlers, PreserveFails(h) PROVE Typed'
    BY <1>0, <1>9, TypedIf, GoLateFacts, AtFacts DEF PreserveFails, At, memory
<1>10. CASE Crash
  <2>1. run' \in [Handlers -> RunType]
      BY <1>10 DEF Crash, RunType
  <2> QED BY <1>0, <1>10, <2>1, TypedIf DEF Crash
<1>11. CASE UNCHANGED vars
    BY <1>0, <1>11, TypedIf DEF vars, world, memory, budget
<1> QED
    BY <1>1, <1>2, <1>4, <1>5, <1>6, <1>7, <1>8, <1>9, <1>10, <1>11 DEF Next

-----------------------------------------------------------------------------
(* What no step undoes *)

\* The body of OutcomeIsFinal
StatusKept ==
    status # "ACTIVE" => status' = status \/ {status, status'} \subseteq Zero

Kept ==
    /\ StatusKept
    /\ submitted => submitted'
    /\ \A p \in {Registration, Submission} : stage[p] # "open" => stage'[p] # "open"
    /\ Empty => Empty'
    /\ ScreenedOut => ScreenedOut'
    /\ submitted /\ ~ScreenedOut => ~ScreenedOut'
    /\ Reviewed => Reviewed'
    /\ Over => Over'
    /\ Decided => Decided' /\ Verdict' = Verdict

\* A handler that does not move keeps what it has made sure of.
LEMMA SoundKept ==
    ASSUME Kept, NEW h \in Handlers, Sound(run[h]), run'[h] = run[h]
    PROVE  Sound(run[h])'
<1>1. (status \in Cancelled => status' \in Cancelled)
      /\ (status = "FAILED_SCREENING" => status' = "FAILED_SCREENING")
    BY DEF Kept, StatusKept, Zero, Cancelled
<1> QED BY <1>1 DEF Kept, Sound

\* Steps that touch neither the rows nor the status nor what was delivered.
LEMMA QuietKept ==
    ASSUME World, UNCHANGED <<status, stage, world>>, timer' => timer \/ Over
    PROVE  Kept /\ World'
<1>1. UNCHANGED <<registered, submitted, screening, summary>>
    BY DEF world
<1>2. /\ Empty' = Empty /\ ScreenedOut' = ScreenedOut /\ Reviewed' = Reviewed
      /\ Over' = Over /\ Decided' = Decided /\ Verdict' = Verdict
    BY <1>1 DEF Empty, ScreenedOut, Reviewed, Over, Decided, Verdict
<1> QED BY <1>1, <1>2 DEF Kept, StatusKept, World

\* Steps of the members and of the phases: rows open and end.
LEMMA StageKept ==
    ASSUME Typed, World, NEW p \in Phases,
           \/ Opens(p)
           \/ Ends(p) /\ (p = Review => submitted /\ ~ScreenedOut),
           UNCHANGED <<status, world, timer>>
    PROVE  Kept /\ World'
<1>1. UNCHANGED <<registered, submitted, screening, summary>>
    BY DEF world
<1>2. /\ stage \in [Phases -> Stages]
      /\ stage[Registration] # "waiting" /\ stage[Submission] # "waiting"
    BY DEF Typed
<1>3. /\ \A q \in Phases : (stage'[q] = "absent") <=> (stage[q] = "absent")
      /\ \A q \in {Registration, Submission} : stage[q] # "open" => stage'[q] # "open"
      /\ stage[Review] = "ended" => stage'[Review] = "ended"
      /\ stage'[Review] = "ended" => stage[Review] = "ended" \/ (submitted /\ ~ScreenedOut)
    BY <1>2 DEF Opens, Ends, Stages, Phases, Registration, Submission, Screening, Review, PostMortem
<1>4. {Registration, Submission, Screening, Review, PostMortem} \subseteq Phases
    BY DEF Phases
<1>5. ScreenedOut' = ScreenedOut /\ Verdict' = Verdict
    BY <1>1, <1>3, <1>4 DEF ScreenedOut, Verdict
<1>6. (Empty => Empty') /\ (Reviewed => Reviewed')
    BY <1>1, <1>3, <1>5 DEF Empty, Reviewed
<1>7. (Over => Over') /\ (Decided => Decided')
    BY <1>1, <1>3, <1>6 DEF Over, Decided
<1>8. Kept
    BY <1>1, <1>3, <1>5, <1>6, <1>7 DEF Kept, StatusKept
<1>9. World'
    BY <1>1, <1>3, <1>4, <1>5, <1>6, <1>7 DEF World
<1> QED BY <1>8, <1>9

\* A submission comes before any outcome.
LEMMA MembersKept ==
    ASSUME Typed, World, Register \/ Submit
    PROVE  Kept /\ World'
<1>1. UNCHANGED <<status, stage, screening, summary, timer>>
    BY DEF Register, Submit, memory
<1>2. CASE Register
  <2>1. UNCHANGED submitted /\ stage[Registration] = "open" /\ registered'
      BY <1>2 DEF Register
  <2>2. (Empty => Empty') /\ ScreenedOut' = ScreenedOut /\ Verdict' = Verdict
      BY <1>1, <2>1 DEF Empty, ScreenedOut, Verdict
  <2>3. Reviewed' = Reviewed
      BY <1>1, <2>1, <2>2 DEF Reviewed
  <2> QED BY <1>1, <2>1, <2>2, <2>3 DEF Kept, StatusKept, World, Over, Decided
<1>3. CASE Submit
  <2>1. ~submitted /\ submitted' /\ registered' /\ stage[Submission] = "open" /\ ~Empty
      BY <1>3 DEF Submit, Empty
  <2>2. ~Over /\ ~Decided /\ ~Reviewed /\ ~ScreenedOut
      BY <2>1 DEF Over, Decided, Reviewed, ScreenedOut
  <2>3. status \notin Zero \cup Payable \cup {"FAILED_SCREENING"}
        /\ ~timer /\ stage[Review] \notin {"ended", "absent"}
      BY <2>1, <2>2 DEF World
  <2> QED BY <1>1, <2>1, <2>2, <2>3 DEF Kept, StatusKept, World
<1> QED BY <1>2, <1>3

\* A Post-Mortem replaces phases that nobody will need: nothing was submitted,
\* or the challenge has already failed screening.
LEMMA PostMortemKept ==
    ASSUME Typed, World, NEW h \in Handlers, Sound(run[h]), CreatePostMortem(h)
    PROVE  Kept /\ World'
<1>1. /\ run[h].at = "createPM" /\ stage' = Replaced(run[h].base)
      /\ UNCHANGED <<status, registered, submitted, screening, summary, timer>>
    BY DEF CreatePostMortem, At, world, memory
<1>2. \/ run[h].base \in {Registration, Submission} /\ Empty
      \/ run[h].base = Screening /\ status = "FAILED_SCREENING"
    BY <1>1 DEF Sound
<1>3. CASE run[h].base \in {Registration, Submission} /\ Empty
  <2>1. /\ stage'[Registration] = stage[Registration]
        /\ stage'[Submission] \in {stage[Submission], "absent"}
        /\ stage'[Review] = "absent"
      BY <1>1, <1>3
      DEF Replaced, After, Phases, Registration, Submission, Screening, Review, PostMortem
  <2>2. ~submitted /\ ~submitted' /\ Empty'
      BY <1>1, <1>3, <2>1 DEF Empty
  <2>3. ~ScreenedOut /\ ~Reviewed /\ status \notin Payable \cup {"FAILED_SCREENING"}
        /\ Verdict' = Verdict
      BY <1>1, <2>2 DEF ScreenedOut, Reviewed, World, Verdict
  <2> QED BY <1>1, <2>1, <2>2, <2>3 DEF Kept, StatusKept, World, Over, Decided
<1>4. CASE run[h].base = Screening /\ status = "FAILED_SCREENING"
  <2>1. /\ \A p \in {Registration, Submission, Screening} : stage'[p] = stage[p]
        /\ stage'[Review] = "absent"
      BY <1>1, <1>4
      DEF Replaced, After, Phases, Registration, Submission, Screening, Review, PostMortem
  <2>2. submitted /\ ScreenedOut /\ ScreenedOut' /\ ~Empty /\ ~Reviewed
      BY <1>1, <1>4, <2>1 DEF World, ScreenedOut, Empty, Reviewed
  <2> QED BY <1>1, <1>4, <2>1, <2>2 DEF Kept, StatusKept, World, Over, Decided, Zero, Payable, Cancelled
<1> QED BY <1>2, <1>3, <1>4

\* The Post-Mortem of a challenge that is cancelled
LEMMA PreserveKept ==
    ASSUME Typed, World, NEW h \in Handlers, Sound(run[h]), PreservePostMortem(h)
    PROVE  Kept /\ World'
<1>1. /\ UNCHANGED <<status, registered, submitted, screening, summary, timer>>
      /\ \A p \in Phases \ {PostMortem} : stage'[p] = stage[p]
      /\ status \in Cancelled
    BY DEF PreservePostMortem, At, Sound, world, memory, Typed
<1>2. {Registration, Submission, Screening, Review} \subseteq Phases \ {PostMortem}
    BY DEF Phases, Registration, Submission, Screening, Review, PostMortem
<1>3. /\ Empty' = Empty /\ ScreenedOut' = ScreenedOut /\ Verdict' = Verdict
    BY <1>1, <1>2 DEF Empty, ScreenedOut, Verdict
<1>4. Reviewed' = Reviewed
    BY <1>1, <1>2, <1>3 DEF Reviewed
<1>5. Over' = Over /\ Decided' = Decided
    BY <1>1, <1>2, <1>4 DEF Over, Decided
<1> QED BY <1>1, <1>2, <1>3, <1>4, <1>5 DEF Kept, StatusKept, World

\* What is left to show of a step that writes the status.
LEMMA WriteKept ==
    ASSUME World, UNCHANGED <<stage, world, timer>>, StatusKept,
           status' \in Zero => Empty,
           status' = "FAILED_SCREENING" => ScreenedOut,
           status' \in Payable => Reviewed /\ status' = Verdict,
           status' # "ACTIVE"
    PROVE  Kept /\ World'
<1>1. /\ UNCHANGED <<registered, submitted, screening, summary>>
      /\ Empty' = Empty /\ ScreenedOut' = ScreenedOut /\ Verdict' = Verdict
    BY DEF world, Empty, ScreenedOut, Verdict
<1>2. Reviewed' = Reviewed
    BY <1>1 DEF Reviewed
<1>3. /\ status = "FAILED_SCREENING" => status' = "FAILED_SCREENING"
      /\ status \in Cancelled => status' \in Cancelled
    BY DEF StatusKept, Zero, Cancelled
<1>4. (Over => Over') /\ Decided' = Decided
    BY <1>1, <1>2, <1>3 DEF Over, Decided
<1> QED BY <1>1, <1>2, <1>3, <1>4 DEF Kept, World

\* A challenge in which nothing was submitted has no other outcome.
LEMMA EmptyStatus ==
    ASSUME Typed, World, Empty
    PROVE  status \in Zero \cup {"ACTIVE"} /\ ZeroReason \in Zero
BY DEF Typed, World, Empty, ScreenedOut, Reviewed, Statuses, Cancelled, Payable, Zero, ZeroReason

LEMMA CancelEmptyKept ==
    ASSUME Typed, World, NEW h \in Handlers, Sound(run[h]),
           CancelEmpty(h) \/ PostMortemCancel(h)
    PROVE  Kept /\ World'
<1>1. Empty /\ status' = ZeroReason /\ UNCHANGED <<stage, world, timer>>
    BY DEF CancelEmpty, PostMortemCancel, At, Sound, Submission, Screening, memory
<1>2. StatusKept /\ status' \in Zero
    BY <1>1, EmptyStatus DEF StatusKept
<1>3. status' \notin Payable /\ status' # "FAILED_SCREENING" /\ status' # "ACTIVE"
    BY <1>2 DEF Zero, Payable
<1> QED BY <1>1, <1>2, <1>3, WriteKept

LEMMA CancelScreenedKept ==
    ASSUME Typed, World, NEW h \in Handlers, Sound(run[h]), CancelScreened(h)
    PROVE  Kept /\ World'
<1>1. ScreenedOut /\ status' = "FAILED_SCREENING" /\ UNCHANGED <<stage, world, timer>>
    BY DEF CancelScreened, At, Sound, Submission, Screening, memory
<1>2. status \notin Zero \cup Payable
    BY <1>1 DEF World, ScreenedOut, Empty, Reviewed
<1>3. StatusKept
    BY <1>1, <1>2 DEF StatusKept, Typed, Statuses, Cancelled, Zero, Payable
<1>4. status' \notin Zero \cup Payable /\ status' # "ACTIVE"
    BY <1>1 DEF Zero, Payable
<1> QED BY <1>1, <1>3, <1>4, WriteKept

\* Two finalizations that overlap decide alike, and like one that was over.
LEMMA WriteOutcomeKept ==
    ASSUME Typed, World, NEW h \in Handlers, Sound(run[h]), WriteOutcome(h)
    PROVE  Kept /\ World'
<1>1. Decided /\ status' = Verdict /\ UNCHANGED <<stage, world, timer>>
    BY DEF WriteOutcome, At, Sound, memory
<1>2. CASE ~submitted
  <2>0. Verdict = "ZERO_SUBMISSIONS"
      BY <1>2 DEF Verdict
  <2>1. Empty /\ status' = "ZERO_SUBMISSIONS"
      BY <1>1, <1>2, <2>0 DEF Decided, Empty
  <2>2. StatusKept
      BY <2>1, EmptyStatus DEF StatusKept, Zero
  <2> QED BY <1>1, <2>1, <2>2, WriteKept DEF Zero, Payable
<1>3. CASE submitted
  <2>1. Reviewed /\ status' = Verdict /\ Verdict \in Payable
      BY <1>1, <1>3 DEF Decided, Verdict, Payable
  <2>2. status \notin Zero \cup {"FAILED_SCREENING"}
      BY <1>3, <2>1 DEF World, Empty, Reviewed
  <2>3. StatusKept
      BY <2>1, <2>2 DEF StatusKept, World, Typed, Statuses, Cancelled, Zero, Payable
  <2>4. status' \notin Zero \cup {"FAILED_SCREENING", "ACTIVE"}
      BY <2>1 DEF Zero, Payable
  <2> QED BY <1>1, <2>1, <2>3, <2>4, WriteKept
<1> QED BY <1>2, <1>3

-----------------------------------------------------------------------------
(* What a handler has made sure of *)

\* When no phase is open or waiting, a finalization may start.
LEMMA EndedOver ==
    ASSUME Typed, World, AllEnded
    PROVE  Over
<1>1. \A p \in {Submission, Review} : stage[p] \in {"ended", "absent"}
    BY DEF AllEnded, Present, Phases
<1>2. submitted => ~Empty
    BY DEF Empty
<1> QED BY <1>1, <1>2 DEF World, Over, Reviewed

\* A step of one handler keeps Inv if it keeps the world and the handler is
\* sound after it.
LEMMA Combine ==
    ASSUME Inv, Typed', Kept, World', NEW h \in Handlers, Others(h), Sound(run[h])'
    PROVE  Inv' /\ StatusKept
<1>1. \A g \in Handlers \ {h} : Sound(run[g])'
    BY SoundKept DEF Inv, Others
<1> QED BY <1>1 DEF Inv, Kept

LEMMA CombineNone ==
    ASSUME Inv, Typed', Kept, World', UNCHANGED run
    PROVE  Inv' /\ StatusKept
<1>1. \A g \in Handlers : Sound(run[g])'
    BY SoundKept DEF Inv
<1> QED BY <1>1 DEF Inv, Kept

LEMMA IdleSound == ASSUME NEW h \in Handlers, run'[h] = Idle PROVE Sound(run[h])'
BY DEF Sound, Idle, HandlerSteps, AttemptSteps

\* A handler that goes on with its caller, when that is finalizing knows why.
LEMMA GoSound ==
    ASSUME Kept, NEW h \in Handlers, Sound(run[h]), run[h].at \in HandlerSteps,
           run'[h].at \in {"finish", "evaluate"}, run'[h].lastOne = run[h].lastOne
    PROVE  Sound(run[h])'
BY DEF Kept, Sound, HandlerSteps, AttemptSteps

LEMMA StartSound ==
    ASSUME Kept, NEW h \in Handlers, run'[h].at = "finalRead", Over
    PROVE  Sound(run[h])'
BY DEF Kept, Sound, HandlerSteps, AttemptSteps

\* An error that a handler swallows: it ends, or its caller goes on.
LEMMA SwallowSound ==
    ASSUME Inv, Typed', Kept, World', NEW h \in Handlers, run[h] \in HandlerRun,
           run[h].at \in HandlerSteps, Swallow(h)
    PROVE  Inv' /\ StatusKept
<1>1. CASE Done(h)
    BY <1>1, DoneFacts, IdleSound, Combine DEF Inv
<1>2. CASE Go(h, "finish")
    BY <1>2, GoFacts, GoSound, Combine DEF Inv, HandlerSteps
<1> QED BY <1>1, <1>2 DEF Swallow

LEMMA SettleSound ==
    ASSUME Inv, Typed', Kept, World', NEW h \in Handlers, run[h].at = "preserve",
           Go(h, "settle")
    PROVE  Inv' /\ StatusKept
<1>1. Over
    BY DEF Inv, Sound, AttemptSteps
<1>2. run'[h].at = "settle" /\ Others(h)
    BY AtFacts, GoLateFacts DEF Inv
<1>3. Sound(run[h])'
    BY <1>1, <1>2 DEF Sound, Kept, HandlerSteps, AttemptSteps
<1> QED BY <1>2, <1>3, Combine

\* Every step of the system keeps Inv, and an outcome that there is.
LEMMA InvStep == Inv /\ [Next]_vars => Inv' /\ StatusKept
<1> SUFFICES ASSUME Inv, [Next]_vars PROVE Inv' /\ StatusKept
    OBVIOUS
<1>0. Typed /\ World /\ Typed' /\ \A h \in Handlers : Sound(run[h])
    BY TypeStep DEF Inv
<1>1. CASE Register \/ Submit
    BY <1>0, <1>1, MembersKept, CombineNone DEF Register, Submit
<1>2. ASSUME NEW h \in Handlers, NEW p \in Phases, CloseRead(h, p) \/ Start(h, p)
      PROVE  Inv' /\ StatusKept
  <2>1. /\ run'[h].base = p /\ run'[h].lastOne = FALSE /\ Others(h)
        /\ (CloseRead(h, p) /\ run'[h].at = "close") \/ run'[h].at = "open"
        /\ UNCHANGED <<status, stage, world, timer>>
      BY <1>0, <1>2, BeginFacts DEF memory
  <2>2. Kept /\ World'
      BY <1>0, <2>1, QuietKept
  <2>3. CASE run'[h].at = "open"
    <3>1. Sound(run[h])'
        BY <2>1, <2>3 DEF Sound, HandlerSteps, AttemptSteps
    <3> QED BY <1>0, <2>1, <2>2, <3>1, Combine
  <2>4. CASE CloseRead(h, p) /\ run'[h].at = "close"
    <3>1. status = "ACTIVE" /\ stage[p] = "open" /\ Ready(p)
        BY <2>4 DEF CloseRead
    <3>2. p = PostMortem => Empty'
        BY <1>0, <2>2, <3>1 DEF World, Cancelled, Kept
    <3>3. p = Review => submitted' /\ ~ScreenedOut'
        BY <2>2, <3>1 DEF Ready, Kept
    <3>4. Sound(run[h])'
        BY <2>1, <2>4, <3>2, <3>3 DEF Sound, HandlerSteps, AttemptSteps
    <3> QED BY <1>0, <2>1, <2>2, <3>4, Combine
  <2> QED BY <2>1, <2>3, <2>4
<1>4. ASSUME NEW h \in Handlers, CloseHandler(h) PROVE Inv' /\ StatusKept
  <2>1. CASE Finish(h)
    <3>1. Kept /\ World'
        BY <1>0, <2>1, QuietKept DEF Finish
    <3>2. run[h] \in HandlerRun /\ run[h].at = "finish"
        BY <1>0, <2>1, AtFacts DEF Finish, At, HandlerSteps
    <3>3. CASE run[h].lastOne
      <4>1. Over
          BY <1>0, <3>2, <3>3 DEF Sound, HandlerSteps
      <4> QED BY <1>0, <2>1, <3>1, <3>3, <4>1, StartFacts, StartSound, Combine DEF Finish
    <3>4. CASE ~run[h].lastOne
        BY <1>0, <2>1, <3>1, <3>2, <3>4, GoFacts, GoSound, Combine DEF Finish, HandlerSteps
    <3> QED BY <3>3, <3>4
  <2>2. CASE Chain(h)
    <3>1. Kept /\ World'
        BY <1>0, <2>2, ChainFacts, QuietKept DEF memory
    <3>2. Sound(run[h])'
        BY <1>0, <2>2, ChainFacts, IdleSound DEF Sound, HandlerSteps, AttemptSteps
    <3> QED BY <1>0, <2>2, <3>1, <3>2, ChainFacts, Combine
  <2>13. CASE Close(h)
    <3>1. /\ run[h] \in HandlerRun /\ run[h].at = "close" /\ run[h].base \in Phases
          /\ \/ Ends(run[h].base) /\ Go(h, "reload")
             \/ UNCHANGED stage /\ Done(h)
          /\ UNCHANGED <<status, world, timer>>
        BY <1>0, <2>13, CloseFacts DEF memory
    <3>2. run[h].base = Review => submitted /\ ~ScreenedOut
        BY <1>0, <3>1 DEF Sound
    <3>3. CASE UNCHANGED stage /\ Done(h)
      <4>1. Kept /\ World'
          BY <1>0, <3>1, <3>3, QuietKept
      <4> QED BY <1>0, <3>3, <4>1, DoneFacts, IdleSound, Combine
    <3>4. CASE Ends(run[h].base) /\ Go(h, "reload")
      <4>1. Kept /\ World'
          BY <1>0, <3>1, <3>2, <3>4, StageKept
      <4>2. /\ run'[h].at = "reload" /\ run'[h].base = run[h].base /\ Others(h)
            /\ run'[h].lastOne = run[h].lastOne
          BY <1>0, <3>1, <3>4, GoFacts DEF HandlerSteps
      <4>3. stage'[run[h].base] = "ended"
          BY <1>0, <3>1, <3>4 DEF Ends, Typed
      <4>4. /\ run[h].base = PostMortem => Empty'
            /\ run[h].lastOne => Over'
          BY <1>0, <3>1, <4>1 DEF Sound, Kept, HandlerSteps
      <4>5. Sound(run[h])'
          BY <4>2, <4>3, <4>4 DEF Sound, HandlerSteps, AttemptSteps
      <4> QED BY <1>0, <4>1, <4>2, <4>5, Combine
    <3> QED BY <3>1, <3>3, <3>4
  <2>14. CASE Reload(h)
    <3>1. /\ run[h].at = "reload" /\ run[h].base \in Phases /\ Others(h)
          /\ run'[h].at = HandlerOf(run[h].base) /\ run'[h].base = run[h].base
          /\ run'[h].lastOne = AllEnded
          /\ UNCHANGED <<status, stage, world, timer>>
        BY <1>0, <2>14, ReloadFacts DEF memory
    <3>2. Kept /\ World'
        BY <1>0, <3>1, QuietKept
    <3>3. run'[h].lastOne => Over'
        BY <1>0, <3>1, <3>2, EndedOver DEF Kept
    <3>4. /\ run[h].base = PostMortem => Empty'
          /\ run[h].base \in {Registration, Submission} => stage'[run[h].base] # "open"
        BY <1>0, <3>1, <3>2 DEF Sound, Kept
    <3>5. /\ run'[h].at \in {"regRead", "subRead", "screenRead", "pmRead", "finish"}
          /\ run'[h].at = "regRead" => run'[h].base = Registration
          /\ run'[h].at = "subRead" => run'[h].base = Submission
          /\ run'[h].at = "screenRead" => run'[h].base = Screening
          /\ run'[h].at = "pmRead" => run'[h].base = PostMortem
        BY <3>1 DEF HandlerOf
    <3>6. Sound(run[h])'
        BY <3>1, <3>3, <3>4, <3>5 DEF Sound, HandlerSteps, AttemptSteps
    <3> QED BY <1>0, <3>1, <3>2, <3>6, Combine
  <2>15. CASE Open(h)
    <3>1. /\ run[h].base \in Phases /\ Done(h)
          /\ UNCHANGED stage \/ Opens(run[h].base)
          /\ UNCHANGED <<status, world, timer>>
        BY <1>0, <2>15, OpenFacts DEF memory
    <3>2. Kept /\ World'
        BY <1>0, <3>1, StageKept, QuietKept
    <3> QED BY <1>0, <3>1, <3>2, DoneFacts, IdleSound, Combine
  <2>3. CASE RegistrationRead(h)
    <3>1. Kept /\ World'
        BY <1>0, <2>3, QuietKept DEF RegistrationRead, memory
    <3>2. run[h] \in HandlerRun /\ run[h].at = "regRead"
        BY <1>0, <2>3, AtFacts DEF RegistrationRead, At, HandlerSteps
    <3>3. run[h].base = Registration /\ stage[Registration] # "open"
        BY <1>0, <3>2 DEF Sound
    <3>4. CASE registered
        BY <1>0, <2>3, <3>1, <3>2, <3>4, GoFacts, GoSound, Combine
        DEF RegistrationRead, HandlerSteps
    <3>5. CASE ~registered
      <4>1. Empty
          BY <1>0, <3>3, <3>5 DEF World, Empty
      <4>2. run'[h].at = "createPM" /\ run'[h].base = Registration /\ Others(h)
            /\ run'[h].lastOne = run[h].lastOne
          BY <1>0, <2>3, <3>2, <3>3, <3>5, GoFacts DEF RegistrationRead, HandlerSteps
      <4>3. Sound(run[h])'
          BY <1>0, <3>1, <3>2, <4>1, <4>2 DEF Sound, Kept, HandlerSteps, AttemptSteps
      <4> QED BY <1>0, <3>1, <4>2, <4>3, Combine
    <3> QED BY <3>4, <3>5
  <2>4. CASE SubmissionRead(h)
    <3>1. Kept /\ World'
        BY <1>0, <2>4, QuietKept DEF SubmissionRead, memory
    <3>2. run[h] \in HandlerRun /\ run[h].at = "subRead"
        BY <1>0, <2>4, AtFacts DEF SubmissionRead, At, HandlerSteps
    <3>3. run[h].base = Submission /\ stage[Submission] # "open"
        BY <1>0, <3>2 DEF Sound
    <3>4. CASE submitted
        BY <1>0, <2>4, <3>1, <3>2, <3>4, GoFacts, GoSound, Combine
        DEF SubmissionRead, Continue, HandlerSteps
    <3>5. CASE ~submitted
      <4>1. Empty
          BY <3>3, <3>5 DEF Empty
      <4>2. run'[h].at = "createPM" /\ run'[h].base = Submission /\ Others(h)
            /\ run'[h].lastOne = run[h].lastOne
          BY <1>0, <2>4, <3>2, <3>3, <3>5, GoFacts DEF SubmissionRead, HandlerSteps
      <4>3. Sound(run[h])'
          BY <1>0, <3>1, <3>2, <4>1, <4>2 DEF Sound, Kept, HandlerSteps, AttemptSteps
      <4> QED BY <1>0, <3>1, <4>2, <4>3, Combine
    <3> QED BY <3>4, <3>5
  <2>5. CASE ScreeningRead(h)
    <3>1. Kept /\ World'
        BY <1>0, <2>5, QuietKept DEF ScreeningRead, memory
    <3>2. run[h] \in HandlerRun /\ run[h].at = "screenRead"
        BY <1>0, <2>5, AtFacts DEF ScreeningRead, At, HandlerSteps
    <3>3. CASE ~ScreenedOut
        BY <1>0, <2>5, <3>1, <3>2, <3>3, GoFacts, GoSound, Combine
        DEF ScreeningRead, HandlerSteps
    <3>4. CASE ScreenedOut
      <4>1. run'[h].at = "cancel" /\ run'[h].base = Screening /\ Others(h)
            /\ run'[h].lastOne = run[h].lastOne
          BY <1>0, <2>5, <3>2, <3>4, GoFacts DEF ScreeningRead, Sound, HandlerSteps
      <4>2. Sound(run[h])'
          BY <1>0, <3>1, <3>2, <3>4, <4>1 DEF Sound, Kept, HandlerSteps, AttemptSteps
      <4> QED BY <1>0, <3>1, <4>1, <4>2, Combine
    <3> QED BY <3>3, <3>4
  <2>6. CASE CreatePostMortem(h)
    <3>1. Kept /\ World'
        BY <1>0, <2>6, PostMortemKept
    <3>2. run[h] \in HandlerRun /\ run[h].at = "createPM" /\ status' = status
        BY <1>0, <2>6, AtFacts DEF CreatePostMortem, At, HandlerSteps
    <3>3. /\ run'[h].at = "reviews" /\ run'[h].base = run[h].base /\ Others(h)
          /\ run'[h].lastOne = run[h].lastOne
        BY <1>0, <2>6, <3>2, GoFacts DEF CreatePostMortem, HandlerSteps
    <3>4. Sound(run[h])'
        BY <1>0, <3>1, <3>2, <3>3 DEF Sound, Kept, HandlerSteps, AttemptSteps
    <3> QED BY <1>0, <3>1, <3>3, <3>4, Combine
  <2>7. CASE CreateRefused(h)
    <3>1. Kept /\ World'
        BY <1>0, <2>7, QuietKept DEF CreateRefused, memory
    <3>2. run[h] \in HandlerRun /\ run[h].at \in HandlerSteps /\ Swallow(h)
        BY <1>0, <2>7, AtFacts DEF CreateRefused, At, HandlerSteps
    <3> QED BY <1>0, <3>1, <3>2, SwallowSound
  <2>8. CASE PostMortemReviews(h)
    <3>1. Kept /\ World'
        BY <1>0, <2>8, QuietKept DEF PostMortemReviews, memory
    <3>2. run[h] \in HandlerRun /\ run[h].at = "reviews"
        BY <1>0, <2>8, AtFacts DEF PostMortemReviews, At, HandlerSteps
    <3>3. CASE run[h].base # Submission
        BY <1>0, <2>8, <3>1, <3>3, DoneFacts, IdleSound, Combine DEF PostMortemReviews
    <3>4. CASE run[h].base = Submission
      <4>1. Empty
          BY <1>0, <3>2, <3>4 DEF Sound, Submission, Screening
      <4>2. run'[h].at = "cancel" /\ run'[h].base = Submission /\ Others(h)
            /\ run'[h].lastOne = run[h].lastOne
          BY <1>0, <2>8, <3>2, <3>4, GoFacts DEF PostMortemReviews, HandlerSteps
      <4>3. Sound(run[h])'
          BY <1>0, <3>1, <3>2, <4>1, <4>2 DEF Sound, Kept, HandlerSteps, AttemptSteps
      <4> QED BY <1>0, <3>1, <4>2, <4>3, Combine
    <3> QED BY <3>3, <3>4
  <2>9. CASE CancelEmpty(h)
      BY <1>0, <2>9, CancelEmptyKept, DoneFacts, IdleSound, Combine DEF CancelEmpty
  <2>10. CASE CancelScreened(h)
    <3>1. Kept /\ World'
        BY <1>0, <2>10, CancelScreenedKept
    <3>2. run[h] \in HandlerRun /\ run[h].at = "cancel" /\ run[h].base = Screening
          /\ status' = "FAILED_SCREENING"
        BY <1>0, <2>10, AtFacts DEF CancelScreened, At, HandlerSteps
    <3>3. run'[h].at = "createPM" /\ run'[h].base = Screening /\ Others(h)
          /\ run'[h].lastOne = run[h].lastOne
        BY <1>0, <2>10, <3>2, GoFacts DEF CancelScreened, HandlerSteps
    <3>4. Sound(run[h])'
        BY <1>0, <3>1, <3>2, <3>3 DEF Sound, Kept, HandlerSteps, AttemptSteps
    <3> QED BY <1>0, <3>1, <3>3, <3>4, Combine
  <2>11. CASE PostMortemRead(h)
    <3>1. Kept /\ World'
        BY <1>0, <2>11, QuietKept DEF PostMortemRead, memory
    <3>2. run[h] \in HandlerRun /\ run[h].at = "pmRead"
        BY <1>0, <2>11, AtFacts DEF PostMortemRead, At, HandlerSteps
    <3>3. CASE status \in Cancelled
        BY <1>0, <2>11, <3>1, <3>3, DoneFacts, IdleSound, Combine DEF PostMortemRead
    <3>4. CASE status \notin Cancelled
      <4>1. run'[h].at = "pmCancel" /\ run'[h].base = run[h].base /\ Others(h)
            /\ run'[h].lastOne = run[h].lastOne
          BY <1>0, <2>11, <3>2, <3>4, GoFacts DEF PostMortemRead, HandlerSteps
      <4>2. Sound(run[h])'
          BY <1>0, <3>1, <3>2, <4>1 DEF Sound, Kept, HandlerSteps, AttemptSteps
      <4> QED BY <1>0, <3>1, <4>1, <4>2, Combine
    <3> QED BY <3>3, <3>4
  <2>12. CASE PostMortemCancel(h)
      BY <1>0, <2>12, CancelEmptyKept, DoneFacts, IdleSound, Combine DEF PostMortemCancel
  <2> QED
      BY <1>4, <2>1, <2>2, <2>3, <2>4, <2>5, <2>6, <2>7, <2>8, <2>9, <2>10, <2>11, <2>12,
         <2>13, <2>14, <2>15
      DEF CloseHandler
<1>5. ASSUME NEW h \in Handlers, Evaluate(h) PROVE Inv' /\ StatusKept
  <2>1. Kept /\ World'
      BY <1>0, <1>5, QuietKept DEF Evaluate
  <2>2. run[h].at = "evaluate"
      BY <1>5 DEF Evaluate, At
  <2>3. CASE run[h].lastOne /\ attempts = 0 /\ ~timer
    <3>1. Over
        BY <1>0, <2>2, <2>3 DEF Sound, HandlerSteps
    <3> QED BY <1>0, <1>5, <2>1, <2>3, <3>1, StartFacts, StartSound, Combine DEF Evaluate
  <2>4. CASE ~(run[h].lastOne /\ attempts = 0 /\ ~timer)
      BY <1>0, <1>5, <2>1, <2>4, DoneFacts, IdleSound, Combine DEF Evaluate
  <2> QED BY <2>3, <2>4
<1>6. ASSUME NEW h \in Handlers, Finalization(h) PROVE Inv' /\ StatusKept
  <2>1. CASE FinalReadSettled(h)
    <3>1. Kept /\ World'
        BY <1>0, <2>1, QuietKept DEF FinalReadSettled, Settle
    <3> QED BY <1>0, <2>1, <3>1, DoneFacts, IdleSound, Combine DEF FinalReadSettled, Settle
  <2>2. CASE FinalRead(h)
    <3>1. Kept /\ World'
        BY <1>0, <2>2, QuietKept DEF FinalRead, memory
    <3>2. run[h] \in EarlyRun /\ run[h].at = "finalRead" /\ status = "ACTIVE"
        BY <1>0, <2>2, AtFacts DEF FinalRead, At
    <3>3. Over
        BY <1>0, <3>2 DEF Sound, AttemptSteps
    <3>4. Decided
        BY <3>2, <3>3 DEF Over, Decided
    <3>5. run'[h].at = "summaries" /\ Others(h)
        BY <1>0, <2>2, <3>2, GoEarlyFacts DEF FinalRead
    <3>6. Sound(run[h])'
        BY <3>1, <3>3, <3>4, <3>5 DEF Sound, Kept, HandlerSteps, AttemptSteps
    <3> QED BY <1>0, <3>1, <3>5, <3>6, Combine
  <2>3. CASE Summaries(h)
    <3>1. Kept /\ World'
        BY <1>0, <2>3, QuietKept DEF Summaries, memory
    <3>2. Over /\ Decided
        BY <1>0, <2>3 DEF Summaries, At, Sound, AttemptSteps
    <3>3. run'[h] = [at |-> "write", number |-> run[h].number, reason |-> Verdict] /\ Others(h)
        BY <1>0, <2>3 DEF Summaries, Typed, Others
    <3>4. run'[h].at = "write" /\ run'[h].reason = Verdict'
        BY <3>1, <3>2, <3>3 DEF Kept
    <3>5. Sound(run[h])'
        BY <3>1, <3>2, <3>4 DEF Sound, Kept, HandlerSteps, AttemptSteps
    <3> QED BY <1>0, <3>1, <3>3, <3>5, Combine
  <2>4. CASE WriteOutcome(h)
    <3>1. Kept /\ World'
        BY <1>0, <2>4, WriteOutcomeKept
    <3>2. run[h] \in LateRun /\ run[h].at = "write" /\ status' = run[h].reason
        BY <1>0, <2>4, AtFacts DEF WriteOutcome, At
    <3>3. Over /\ Decided /\ run[h].reason = Verdict
        BY <1>0, <3>2 DEF Sound, AttemptSteps
    <3>4. run'[h].at = (IF run[h].reason = "COMPLETED" THEN "settle" ELSE "preserve")
          /\ Others(h)
        BY <1>0, <2>4, <3>2, GoLateFacts DEF WriteOutcome
    <3>5. run[h].reason # "COMPLETED" => status' \in Cancelled
        BY <3>2, <3>3 DEF Verdict, Cancelled
    <3>6. Sound(run[h])'
        BY <3>1, <3>3, <3>4, <3>5 DEF Sound, Kept, HandlerSteps, AttemptSteps
    <3> QED BY <1>0, <3>1, <3>4, <3>6, Combine
  <2>5. CASE PreservePostMortem(h)
    <3>1. Kept /\ World'
        BY <1>0, <2>5, PreserveKept
    <3>2. Go(h, "settle") /\ run[h].at = "preserve"
        BY <2>5 DEF PreservePostMortem, At
    <3> QED BY <1>0, <3>1, <3>2, SettleSound
  <2>6. CASE SettleOutcome(h)
    <3>1. Kept /\ World'
        BY <1>0, <2>6, QuietKept DEF SettleOutcome, Settle
    <3> QED BY <1>0, <2>6, <3>1, DoneFacts, IdleSound, Combine DEF SettleOutcome, Settle
  <2> QED BY <1>6, <2>1, <2>2, <2>3, <2>4, <2>5, <2>6 DEF Finalization
<1>7. ASSUME NEW h \in Handlers, TimerFires(h) PROVE Inv' /\ StatusKept
  <2>1. Kept /\ World'
      BY <1>0, <1>7, QuietKept DEF TimerFires
  <2>2. Over
      BY <1>0, <1>7 DEF TimerFires, World
  <2> QED BY <1>0, <1>7, <2>1, <2>2, StartFacts, StartSound, Combine DEF TimerFires
<1>8. ASSUME NEW h \in Handlers, Update(h) PROVE Inv' /\ StatusKept
  <2>1. CASE UpdateSettled(h)
    <3>1. Kept /\ World'
        BY <1>0, <2>1, QuietKept DEF UpdateSettled
    <3> QED BY <1>0, <2>1, <3>1, CombineNone DEF UpdateSettled
  <2>2. CASE UpdateRead(h)
    <3>1. Kept /\ World'
        BY <1>0, <2>2, QuietKept DEF UpdateRead, memory
    <3> DEFINE r == [at |-> IF stage[PostMortem] = "absent" /\ stage[Submission] = "ended"
                            THEN "subRead" ELSE "evaluate",
                     caller |-> "update", base |-> Submission, lastOne |-> AllEnded]
    <3>2. run'[h] = r /\ Others(h)
        BY <1>0, <2>2 DEF UpdateRead, Typed, Others
    <3>3. /\ r.at \in {"subRead", "evaluate"} /\ r.base = Submission /\ r.lastOne = AllEnded
          /\ r.at = "subRead" => stage[Submission] = "ended"
        OBVIOUS
    <3> HIDE DEF r
    <3>4. r.lastOne => Over
        BY <1>0, <3>3, EndedOver
    <3>5. Sound(run[h])'
        BY <3>1, <3>2, <3>3, <3>4 DEF Sound, Kept, HandlerSteps, AttemptSteps
    <3> QED BY <1>0, <3>1, <3>2, <3>5, Combine
  <2> QED BY <1>8, <2>1, <2>2 DEF Update
<1>9. ASSUME NEW h \in Handlers, HandlerFails(h) PROVE Inv' /\ StatusKept
  <2>1. Kept /\ World'
      BY <1>0, <1>9, QuietKept DEF HandlerFails, Fails, memory
  <2>2. run[h] \in HandlerRun /\ run[h].at \in HandlerSteps /\ Swallow(h)
      BY <1>0, <1>9, AtFacts DEF HandlerFails, Fails, HandlerSteps
  <2> QED BY <1>0, <2>1, <2>2, SwallowSound
<1>10. ASSUME NEW h \in Handlers, AttemptFails(h) PROVE Inv' /\ StatusKept
  <2>1. Over
      BY <1>0, <1>10 DEF AttemptFails, Sound, AttemptSteps
  <2>2. Kept /\ World'
      BY <1>0, <1>10, <2>1, QuietKept DEF AttemptFails, Retry
  <2> QED BY <1>0, <1>10, <2>2, DoneFacts, IdleSound, Combine DEF AttemptFails, Retry
<1>11. ASSUME NEW h \in Handlers, PreserveFails(h) PROVE Inv' /\ StatusKept
  <2>1. Kept /\ World'
      BY <1>0, <1>11, QuietKept DEF PreserveFails, memory
  <2>2. Go(h, "settle") /\ run[h].at = "preserve"
      BY <1>11 DEF PreserveFails, At
  <2> QED BY <1>0, <2>1, <2>2, SettleSound
<1>12. CASE Crash
  <2>1. Kept /\ World'
      BY <1>0, <1>12, QuietKept DEF Crash
  <2>2. \A h \in Handlers : Sound(run[h])'
      BY <1>12, IdleSound DEF Crash
  <2> QED BY <1>0, <2>1, <2>2 DEF Inv, Kept
<1>13. CASE UNCHANGED vars
  <2>1. Kept /\ World'
    <3>1. UNCHANGED <<status, stage, world, timer>>
        BY <1>13 DEF vars, world
    <3> QED BY <1>0, <3>1, QuietKept
  <2> QED BY <1>0, <1>13, <2>1, CombineNone DEF vars
<1> QED
    BY <1>1, <1>2, <1>4, <1>5, <1>6, <1>7, <1>8, <1>9, <1>10, <1>11, <1>12, <1>13
    DEF Next, Handle

LEMMA InvInit == Init => Inv
<1> SUFFICES ASSUME Init PROVE Inv
    OBVIOUS
<1>1. Typed
    BY TypeInit
<1>2. /\ stage[Registration] = "open" /\ stage[Submission] = "open"
      /\ stage[Review] = "waiting" /\ stage[PostMortem] = "absent"
    BY DEF Init, Phases, Registration, Submission, Screening, Review, PostMortem
<1>3. status = "ACTIVE" /\ ~submitted /\ ~timer
    BY DEF Init
<1>4. World
    BY <1>2, <1>3 DEF World, Zero, Payable
<1>5. \A h \in Handlers : Sound(run[h])
    BY DEF Init, Sound, Idle, HandlerSteps, AttemptSteps
<1> QED BY <1>1, <1>4, <1>5 DEF Inv

LEMMA InvAlways == Spec => []Inv
<1>1. Inv /\ [Next]_vars => Inv'
    BY InvStep
<1> QED BY <1>1, InvInit, PTL DEF Spec

-----------------------------------------------------------------------------
(* The queue of the finalization *)

Queued == \E h \in Handlers : run[h].at \in AttemptSteps

\* The handler h stays in its attempt, or what it was doing was none.
LEMMA QueueKept ==
    ASSUME QueuedHasOwner, UNCHANGED <<attempts, timer>>, NEW h \in Handlers, Others(h),
           run[h].at \in AttemptSteps => run'[h].at \in AttemptSteps
    PROVE  QueuedHasOwner'
BY DEF QueuedHasOwner, Others

LEMMA QueueStep == Typed /\ QueuedHasOwner /\ [Next]_vars => QueuedHasOwner'
<1> SUFFICES ASSUME Typed, QueuedHasOwner, [Next]_vars PROVE QueuedHasOwner'
    OBVIOUS
<1>0. run \in [Handlers -> RunType] /\ attempts \in Nat
    BY DEF Typed
<1>1. ASSUME UNCHANGED <<attempts, timer, run>> PROVE QueuedHasOwner'
    BY <1>1 DEF QueuedHasOwner
<1>2. ASSUME NEW h \in Handlers, StartAttempt(h) PROVE QueuedHasOwner'
    BY <1>2, StartFacts DEF QueuedHasOwner, AttemptSteps
<1>3. CASE Register \/ Submit \/ UNCHANGED vars
    BY <1>1, <1>3 DEF Register, Submit, vars, memory
<1>5. ASSUME NEW h \in Handlers,
             Update(h) \/ \E p \in Phases : CloseRead(h, p) \/ Start(h, p)
      PROVE  QueuedHasOwner'
  <2>1. CASE UpdateSettled(h)
      BY <1>1, <2>1 DEF UpdateSettled
  <2>2. CASE UpdateRead(h) \/ \E p \in Phases : CloseRead(h, p) \/ Start(h, p)
    <3>1. run[h] = Idle /\ Others(h) /\ UNCHANGED <<attempts, timer>>
        BY <1>0, <2>2 DEF UpdateRead, CloseRead, Start, Busy, Others, memory
    <3> QED BY <3>1, QueueKept DEF Idle, AttemptSteps
  <2> QED BY <1>5, <2>1, <2>2 DEF Update
<1>6. ASSUME NEW h \in Handlers, CloseHandler(h) PROVE QueuedHasOwner'
  <2>1. run[h] \in HandlerRun /\ run[h].at \notin AttemptSteps
      BY <1>6, AtFacts
      DEF CloseHandler, Close, Reload, Open, Finish, Chain, RegistrationRead, SubmissionRead,
          ScreeningRead, CreatePostMortem, CreateRefused, PostMortemReviews, CancelEmpty, CancelScreened,
          PostMortemRead, PostMortemCancel, At, HandlerSteps, AttemptSteps
  <2>2. StartAttempt(h) \/ (Others(h) /\ UNCHANGED <<attempts, timer>>)
      BY <1>0, <1>6
      DEF CloseHandler, Close, Reload, Open, Finish, Chain, RegistrationRead, SubmissionRead,
          ScreeningRead, CreatePostMortem, CreateRefused, PostMortemReviews, CancelEmpty, CancelScreened,
          PostMortemRead, PostMortemCancel, Swallow, Go, Done, Others, memory
  <2> QED BY <1>2, <2>1, <2>2, QueueKept
<1>7. ASSUME NEW h \in Handlers, Evaluate(h) PROVE QueuedHasOwner'
  <2>1. run[h].at \notin AttemptSteps
      BY <1>7 DEF Evaluate, At, AttemptSteps
  <2>2. StartAttempt(h) \/ (Others(h) /\ UNCHANGED <<attempts, timer>>)
      BY <1>0, <1>7 DEF Evaluate, Done, Others
  <2> QED BY <1>2, <2>1, <2>2, QueueKept
<1>8. ASSUME NEW h \in Handlers, Finalization(h) \/ PreserveFails(h) PROVE QueuedHasOwner'
  <2>1. CASE FinalReadSettled(h) \/ SettleOutcome(h)
      BY <2>1 DEF FinalReadSettled, SettleOutcome, Settle, QueuedHasOwner
  <2>2. CASE FinalRead(h)
      BY <2>2, AtFacts, GoEarlyFacts, QueueKept DEF FinalRead, At, AttemptSteps, memory
  <2>3. CASE Summaries(h)
    <3>1. run'[h] = [at |-> "write", number |-> run[h].number, reason |-> Verdict] /\ Others(h)
        BY <1>0, <2>3 DEF Summaries, Others
    <3> QED BY <2>3, <3>1, QueueKept DEF Summaries, AttemptSteps, memory
  <2>4. CASE WriteOutcome(h) \/ PreservePostMortem(h) \/ PreserveFails(h)
    <3>1. run[h] \in LateRun /\ UNCHANGED <<attempts, timer>>
        BY <2>4, AtFacts DEF WriteOutcome, PreservePostMortem, PreserveFails, At, memory
    <3>2. Go(h, "preserve") \/ Go(h, "settle")
        BY <2>4 DEF WriteOutcome, PreservePostMortem, PreserveFails
    <3> QED BY <3>1, <3>2, GoLateFacts, QueueKept DEF AttemptSteps
  <2> QED BY <1>8, <2>1, <2>2, <2>3, <2>4 DEF Finalization
<1>9. ASSUME NEW h \in Handlers, TimerFires(h) PROVE QueuedHasOwner'
    BY <1>2, <1>9 DEF TimerFires
<1>10. ASSUME NEW h \in Handlers, HandlerFails(h) PROVE QueuedHasOwner'
  <2>1. run[h].at \notin AttemptSteps /\ UNCHANGED <<attempts, timer>>
      BY <1>10 DEF HandlerFails, Fails, AttemptSteps, memory
  <2>2. Others(h)
      BY <1>0, <1>10 DEF HandlerFails, Fails, Swallow, Go, Done, Others
  <2> QED BY <2>1, <2>2, QueueKept
\* A timer that is set owns the entry; the attempt that gives up without one
\* forgets the count.
<1>11. ASSUME NEW h \in Handlers, AttemptFails(h) PROVE QueuedHasOwner'
  <2>1. run[h].number \in Nat
      BY <1>11, AtFacts DEF AttemptFails, EarlyRun, LateRun
  <2>2. CASE timer \/ run[h].number < MaxAttempts
    <3>1. timer'
        BY <1>11, <2>2 DEF AttemptFails, Retry
    <3> QED BY <3>1 DEF QueuedHasOwner
  <2>3. CASE ~timer /\ run[h].number >= MaxAttempts
    <3>1. attempts' = 0
        BY <1>11, <2>3 DEF AttemptFails, Retry
    <3> QED BY <3>1 DEF QueuedHasOwner
  <2>4. run[h].number < MaxAttempts \/ run[h].number >= MaxAttempts
      BY <2>1, FlowAssumption DEF FlowAssumption
  <2> QED BY <2>2, <2>3, <2>4
<1>12. CASE Crash
    BY <1>12 DEF Crash, QueuedHasOwner
<1> QED
    BY <1>3, <1>5, <1>6, <1>7, <1>8, <1>9, <1>10, <1>11, <1>12 DEF Next, Handle

-----------------------------------------------------------------------------
(* The theorems *)

\* Every variable keeps its type, through overlapping handlers, failed calls
\* and crashes (the challenge row, the maps and timers of SchedulerService).
THEOREM FlowTypeCorrect == Spec => []TypeOK
<1>1. Inv => TypeOK
  <2> SUFFICES ASSUME Inv PROVE TypeOK
      OBVIOUS
  <2>1. ASSUME NEW h \in Handlers
        PROVE  \/ run[h] = Idle
               \/ run[h].at \in HandlerSteps /\ run[h].base \in Phases
               \/ run[h].at \in AttemptSteps /\ run[h].number \in Nat \ {0}
    <3>1. run[h] \in RunType
        BY DEF Inv, Typed
    <3> QED BY <3>1 DEF RunType, HandlerRun, EarlyRun, LateRun, AttemptSteps
  <2> QED BY <2>1 DEF Inv, Typed, TypeOK
<1> QED BY <1>1, InvAlways, PTL

\* An outcome is never replaced by another one, apart from the two that say
\* nothing was delivered, although four handlers write the status without a
\* condition (completeChallenge, cancelChallenge).
THEOREM OutcomeStays == Spec => OutcomeIsFinal
<1>1. Inv /\ [Next]_vars => [status # "ACTIVE" =>
         \/ status' = status
         \/ {status, status'} \subseteq {"ZERO_REGISTRATIONS", "ZERO_SUBMISSIONS"}]_vars
    BY InvStep DEF StatusKept, Zero
<1> QED BY <1>1, InvAlways, PTL DEF Spec, OutcomeIsFinal

\* A challenge is cancelled as empty only if nothing was submitted, and decided
\* by review only if its Review phase has ended (finalizeChallenge).
THEOREM OutcomeEarned == Spec => []OutcomeIsEarned
<1>1. Inv => OutcomeIsEarned
    BY DEF Inv, World, OutcomeIsEarned, Zero, Empty, Reviewed
<1> QED BY <1>1, InvAlways, PTL

\* The attempts map never keeps an entry that no timer and no attempt owns, so
\* that a later update may queue the challenge (scheduleFinalizationRetry).
THEOREM QueueHasOwner == Spec => []QueuedHasOwner
<1>1. Init => QueuedHasOwner
    BY DEF Init, QueuedHasOwner
<1>2. Inv /\ QueuedHasOwner /\ [Next]_vars => QueuedHasOwner'
    BY QueueStep DEF Inv
<1> QED BY <1>1, <1>2, InvAlways, PTL DEF Spec

-----------------------------------------------------------------------------
(* The rows of the challenge, and what takes it further *)

RowVariants ==
    \/ UNCHANGED stage
    \/ \E p \in Phases : Opens(p) \/ Ends(p)
    \/ \E base \in {Registration, Submission, Screening} :
          stage[base] # "absent" /\ stage' = Replaced(base)
    \/ stage' = [stage EXCEPT ![PostMortem] = IF @ = "absent" THEN "open" ELSE @]

\* The steps that move rows.
LEMMA RowsMove == Inv /\ [Next]_vars => RowVariants
<1> SUFFICES ASSUME Inv, [Next]_vars PROVE RowVariants
    OBVIOUS
<1>1. CASE Register \/ Submit \/ Crash \/ UNCHANGED vars
    BY <1>1 DEF Register, Submit, Crash, vars, RowVariants
<1>2. ASSUME NEW h \in Handlers, NEW p \in Phases, CloseRead(h, p) \/ Start(h, p)
      PROVE  RowVariants
    BY <1>2 DEF CloseRead, Start, RowVariants
<1>4. ASSUME NEW h \in Handlers, CloseHandler(h) PROVE RowVariants
  <2>1. CASE Close(h) \/ Open(h)
      BY <2>1, CloseFacts, OpenFacts DEF Inv, RowVariants
  <2>2. CASE CreatePostMortem(h)
    <3>1. run[h].base \in {Registration, Submission, Screening}
        BY <2>2 DEF CreatePostMortem, At, Inv, Sound
    <3> QED BY <2>2, <3>1 DEF CreatePostMortem, RowVariants
  <2>3. CASE ~Close(h) /\ ~Open(h) /\ ~CreatePostMortem(h)
    <3>1. UNCHANGED stage
        BY <1>4, <2>3
        DEF CloseHandler, Reload, Finish, Chain, RegistrationRead, SubmissionRead,
            ScreeningRead, CreateRefused, PostMortemReviews, CancelEmpty, CancelScreened,
            PostMortemRead, PostMortemCancel
    <3> QED BY <3>1 DEF RowVariants
  <2> QED BY <2>1, <2>2, <2>3
<1>5. ASSUME NEW h \in Handlers, PreservePostMortem(h) PROVE RowVariants
    BY <1>5 DEF PreservePostMortem, RowVariants
<1>6. ASSUME NEW h \in Handlers,
             \/ Evaluate(h) \/ FinalReadSettled(h) \/ FinalRead(h) \/ Summaries(h)
             \/ WriteOutcome(h) \/ SettleOutcome(h) \/ TimerFires(h) \/ Update(h)
             \/ HandlerFails(h) \/ AttemptFails(h) \/ PreserveFails(h)
      PROVE  RowVariants
  <2>1. UNCHANGED stage
      BY <1>6
      DEF Evaluate, FinalReadSettled, FinalRead, Summaries, WriteOutcome, SettleOutcome,
          TimerFires, Update, UpdateSettled, UpdateRead, HandlerFails, Fails, AttemptFails,
          PreserveFails
  <2> QED BY <2>1 DEF RowVariants
<1> QED BY <1>1, <1>2, <1>4, <1>5, <1>6 DEF Next, Handle, Finalization

\* The life of the rows as the other modules see it: what a Post-Mortem deletes
\* never comes back.
PhaseLife == [p \in Phases |-> IF stage[p] # "absent" THEN stage[p]
                               ELSE IF p = PostMortem THEN "unborn" ELSE "deleted"]

Lifecycle == INSTANCE PhaseLifecycle
    WITH life <- PhaseLife, Scheduled <- {}, PostMortems <- {PostMortem}

LEMMA LifeStep == Inv /\ [Next]_vars => [Lifecycle!Next]_PhaseLife
<1> SUFFICES ASSUME Inv, [Next]_vars PROVE [Lifecycle!Next]_PhaseLife
    OBVIOUS
<1>1. stage \in [Phases -> Stages] /\ stage' \in [Phases -> Stages]
    BY InvStep DEF Inv, Typed
<1>2. PhaseLife' \in [Phases -> Lifecycle!Stage]
    BY <1>1 DEF PhaseLife, Stages, Lifecycle!Stage
<1>3. ASSUME NEW p \in Phases PROVE Lifecycle!Step(p)
  <2>1. \/ stage'[p] = stage[p]
        \/ stage[p] = "waiting" /\ stage'[p] = "open"
        \/ stage[p] = "open" /\ stage'[p] = "ended"
        \/ p # PostMortem /\ stage'[p] = "absent"
        \/ p = PostMortem /\ stage'[p] = "open"
      BY <1>1, RowsMove DEF RowVariants, Opens, Ends, Replaced, After, Phases,
         Registration, Submission, Screening, Review, PostMortem
  <2>2. stage[p] \in Stages
      BY <1>1
  <2>3. p = PostMortem => stage[p] # "waiting" \/ stage'[p] # "absent"
      BY <2>1
  <2> QED BY <2>1, <2>2 DEF Lifecycle!Step, Lifecycle!Moves, PhaseLife, Stages
<1> QED BY <1>2, <1>3 DEF Lifecycle!Next

\* Whatever handlers overlap, the rows of the challenge keep the life that
\* PhaseLifecycle promises, as those of PhaseStore do: no phase ends twice, and
\* one that a Post-Mortem has replaced stays deleted (createPostMortemPhase).
THEOREM FlowKeepsLifecycle == Spec => [][Lifecycle!Next]_PhaseLife
<1>1. Inv /\ [Next]_vars => [Lifecycle!Next]_PhaseLife
    BY LifeStep
<1> QED BY <1>1, InvAlways, PTL DEF Spec

\* Registration is never deleted and a Post-Mortem never waits; with Submission
\* go the phases after it.
Rows ==
    /\ stage[Registration] # "absent" /\ stage[PostMortem] # "waiting"
    /\ stage[Submission] = "absent" => stage[Screening] = "absent" /\ stage[Review] = "absent"

LEMMA RowsStep == Inv /\ Rows /\ [Next]_vars => Rows'
<1> SUFFICES ASSUME Inv, Rows, [Next]_vars PROVE Rows'
    OBVIOUS
<1>1. stage \in [Phases -> Stages]
    BY DEF Inv, Typed
<1> QED
    BY <1>1, RowsMove DEF RowVariants, Rows, Opens, Ends, Replaced, After, Phases,
       Registration, Submission, Screening, Review, PostMortem

LEMMA RowsAlways == Spec => []Rows
<1>1. Init => Rows
    BY DEF Init, Rows, Phases, Registration, Submission, Screening, Review, PostMortem
<1> QED BY <1>1, RowsStep, InvAlways, PTL DEF Spec

\* What the schedule has to offer: an END that is not deferred, a START whose
\* predecessor is over.
CanClose == \E p \in Phases : stage[p] = "open" /\ Ready(p)
CanStart == \E p \in Phases : stage[p] = "waiting"
                              /\ \E q \in Present : p \in Successors(q) /\ stage[q] = "ended"

\* A challenge that is ACTIVE waits for something: a handler that runs, a retry
\* timer, a phase that may end or start, or the replay of an open Screening or
\* Review; unless it is Abandoned.
NoDeadEnd ==
    status = "ACTIVE" =>
        \/ timer \/ (\E h \in Handlers : Busy(h))
        \/ CanClose \/ CanStart \/ Replayed
        \/ Abandoned

\* No crash, failed call or overlap leaves an ACTIVE challenge with nothing that
\* takes it further, except in the one state Abandoned: the safety that
\* EndsUnlessAbandoned needs in each state.  It needs QueuedHasOwner: an entry of
\* the attempts map without its owner would be another dead end.
THEOREM FlowHasNoDeadEnd == Spec => []NoDeadEnd
<1>1. ASSUME Inv, QueuedHasOwner, Rows, status = "ACTIVE", ~timer,
             \A h \in Handlers : ~Busy(h), ~Abandoned, ~Replayed
      PROVE  CanClose \/ CanStart
  <2>0. stage \in [Phases -> Stages] /\ attempts \in Nat
      BY <1>1 DEF Inv, Typed
  <2>1. attempts = 0
      BY <1>1, <2>0 DEF QueuedHasOwner, Busy, Idle, AttemptSteps
  <2>2. PICK p \in Phases : stage[p] \notin {"absent", "ended"}
    <3>1. Registration \in Present
        BY <1>1 DEF Present, Rows, Phases
    <3> QED BY <1>1, <2>1, <3>1 DEF Abandoned, AllEnded, Present
  <2>3. stage[p] \in {"open", "waiting"}
      BY <2>0, <2>2 DEF Stages
  <2>4. ASSUME NEW q \in Phases, stage[q] = "open" PROVE CanClose
    <3>1. q # Review
        BY <1>1, <2>4 DEF Replayed
    <3> QED BY <2>4, <3>1 DEF CanClose, Ready
  <2>5. CASE stage[p] = "waiting" /\ \A q \in Phases : stage[q] # "open"
    <3>1. p \in {Screening, Review}
        BY <1>1, <2>5 DEF Rows, Phases, Inv, Typed
    <3>2. stage[Submission] = "ended"
        BY <1>1, <2>0, <2>5, <3>1 DEF Rows, Phases, Stages, Inv, Typed
    <3>3. stage[Screening] \in {"absent", "waiting", "ended"}
        BY <2>0, <2>5 DEF Phases, Stages
    <3>4. CASE stage[Screening] = "waiting"
      <4>1. Screening \in Successors(Submission) /\ Submission \in Present
          BY <3>2, <3>4 DEF Successors, Present, Phases
      <4> QED BY <3>2, <3>4, <4>1 DEF CanStart, Phases
    <3>5. CASE stage[Screening] = "absent"
      <4>1. p = Review /\ Review \in Successors(Submission) /\ Submission \in Present
          BY <2>5, <3>1, <3>2, <3>5 DEF Successors, Present, Phases
      <4> QED BY <2>5, <3>2, <4>1 DEF CanStart
    <3>6. CASE stage[Screening] = "ended"
      <4>1. p = Review /\ Review \in Successors(Screening) /\ Screening \in Present
          BY <2>5, <3>1, <3>6 DEF Successors, Present, Phases, Submission, Screening
      <4> QED BY <2>5, <3>6, <4>1 DEF CanStart
    <3> QED BY <3>3, <3>4, <3>5, <3>6
  <2> QED BY <2>3, <2>4, <2>5
<1>2. Inv /\ QueuedHasOwner /\ Rows => NoDeadEnd
    BY <1>1 DEF NoDeadEnd
<1> QED BY <1>2, InvAlways, QueueHasOwner, RowsAlways, PTL

\* The cache of the update handler takes a payable status for old news only when
\* its payment was asked for, or the call failed.
PaymentSeen == cached \in Payable => cached = status /\ (paid \/ faults > 0)

LEMMA PaymentStep == Inv /\ PaymentSeen /\ [Next]_vars => PaymentSeen'
<1> SUFFICES ASSUME Inv, PaymentSeen, [Next]_vars PROVE PaymentSeen'
    OBVIOUS
<1>0. /\ paid \in BOOLEAN /\ faults \in Nat
      /\ (status \in Payable => status' = status)
  <2>1. StatusKept
      BY InvStep
  <2> QED BY <2>1 DEF Inv, Typed, StatusKept, Zero, Payable
<1>1. ASSUME UNCHANGED cached, paid => paid', faults' = faults \/ faults' = faults + 1
      PROVE  PaymentSeen'
    BY <1>0, <1>1 DEF PaymentSeen
<1>2. CASE Register \/ Submit \/ UNCHANGED vars
    BY <1>1, <1>2 DEF Register, Submit, vars, memory, budget
<1>3. ASSUME NEW h \in Handlers, NEW p \in Phases, CloseRead(h, p) \/ Start(h, p)
      PROVE  PaymentSeen'
    BY <1>1, <1>3 DEF CloseRead, Start, memory, budget
<1>5. ASSUME NEW h \in Handlers, CloseHandler(h) PROVE PaymentSeen'
  <2>1. CASE CancelEmpty(h)
    <3>1. cached' = ZeroReason \/ (UNCHANGED <<cached, paid, faults>>)
        BY <2>1 DEF CancelEmpty, budget
    <3> QED BY <1>1, <3>1 DEF PaymentSeen, ZeroReason, Payable
  <2>2. CASE ~CancelEmpty(h)
    <3>1. UNCHANGED <<cached, faults>> /\ (paid => paid')
        BY <1>0, <1>5, <2>2
        DEF CloseHandler, Close, Reload, Open, Finish, Chain, RegistrationRead, SubmissionRead,
            ScreeningRead, CreatePostMortem, CreateRefused, PostMortemReviews, CancelScreened,
            PostMortemRead, PostMortemCancel, memory, budget
    <3> QED BY <1>1, <3>1
  <2> QED BY <2>1, <2>2
<1>6. ASSUME NEW h \in Handlers, Evaluate(h) \/ UpdateRead(h) \/ TimerFires(h)
      PROVE  PaymentSeen'
  <2>1. /\ cached' = "ACTIVE" \/ UNCHANGED cached
        /\ UNCHANGED <<paid, faults>>
      BY <1>6 DEF Evaluate, UpdateRead, TimerFires, memory, budget
  <2> QED BY <1>1, <2>1 DEF PaymentSeen, Payable
<1>7. ASSUME NEW h \in Handlers, Finalization(h) PROVE PaymentSeen'
  <2>1. UNCHANGED cached /\ (paid => paid') /\ (faults' = faults \/ faults' = faults + 1)
      BY <1>0, <1>7
      DEF Finalization, FinalReadSettled, FinalRead, Summaries, WriteOutcome,
          PreservePostMortem, SettleOutcome, Fail, memory, budget
  <2> QED BY <1>1, <2>1
<1>8. ASSUME NEW h \in Handlers, UpdateSettled(h) PROVE PaymentSeen'
  <2>1. cached' = status /\ status' = status
      BY <1>8 DEF UpdateSettled
  <2>2. status \in Payable => paid' \/ faults' > 0
    <3>1. CASE paid' = (paid \/ News) /\ UNCHANGED faults
        BY <1>0, <3>1 DEF News, PaymentSeen
    <3>2. CASE faults' = faults + 1
        BY <1>0, <3>2
    <3> QED BY <1>8, <3>1, <3>2 DEF UpdateSettled, Fail, budget
  <2> QED BY <2>1, <2>2 DEF PaymentSeen
<1>9. ASSUME NEW h \in Handlers, HandlerFails(h) \/ AttemptFails(h) \/ PreserveFails(h)
      PROVE  PaymentSeen'
  <2>1. UNCHANGED cached /\ (paid => paid') /\ faults' = faults + 1
      BY <1>0, <1>9 DEF HandlerFails, Fails, AttemptFails, PreserveFails, Fail, memory
  <2> QED BY <1>1, <2>1
<1>10. CASE Crash
    BY <1>10 DEF Crash, PaymentSeen, Payable, Cancelled
<1> QED BY <1>2, <1>3, <1>5, <1>6, <1>7, <1>8, <1>9, <1>10 DEF Next, Handle, Update

\* A payable outcome that was never paid for is news to the update handler.
PaymentReplayed == status \in Payable => paid \/ News \/ faults > 0

\* Unless a call fails, a payable challenge is paid for or the next replay of the
\* cron asks for the payment: the process may stop at any step between the write
\* of the outcome and the request (triggerFinanceGenerationForPayableStatus).
\* It is the safety that PaidUnlessCallFailed needs in each state.
THEOREM PaymentNeverForgotten == Spec => []PaymentReplayed
<1>1. Init => PaymentSeen
    BY DEF Init, PaymentSeen, Payable
<1>2. Inv /\ PaymentSeen /\ [Next]_vars => PaymentSeen'
    BY PaymentStep
<1>3. PaymentSeen => PaymentReplayed
    BY DEF PaymentSeen, PaymentReplayed, News
<1> QED BY <1>1, <1>2, <1>3, InvAlways, PTL DEF Spec
=============================================================================
