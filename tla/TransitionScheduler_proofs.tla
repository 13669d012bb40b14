---------------------- MODULE TransitionScheduler_proofs ----------------------
(***************************************************************************)
(* Theorems about TransitionScheduler, for every tree of phases and every  *)
(* value of the bounds: types, phases open in order, and their life is     *)
(* that of PhaseLifecycle.                                                 *)
(***************************************************************************)
EXTENDS TransitionScheduler, SequenceTheorems, TLAPS

\* The consumer works on a message it has not committed, and every notice after
\* the first is an edit.
ConsumerInput ==
    /\ notices <= 1 + edits
    /\ Closing("consumer") => notices > 0
    /\ proc["consumer"].kind = "handled" => topic # <<>>

\* The active job of the queue is the one the worker runs (BullMQ's contract, as PhaseJobs
\* has it).
RunnerOwnsJob ==
    \A p \in Phases :
        (queue[p] # None /\ queue[p].active) <=> (runner # Idle /\ runner.phase = p)

Shape == TypeOK /\ ConsumerInput /\ RunnerOwnsJob

-----------------------------------------------------------------------------
(* The operators *)

\* A date, capped at the horizon, is a date.
LEMMA LaterType == ASSUME NEW t \in Nat PROVE Later(t) \in Time
BY JobsAssumption DEF Later, Time, JobsAssumption

\* What is planned from the rows are transitions of phases.
LEMMA PayloadsType ==
    ASSUME TypeOK
    PROVE /\ \A p \in Phases : Start(p) \in Payload /\ End(p) \in Payload
          /\ Startable \subseteq Phases /\ Open \subseteq Phases
          /\ Overdue \subseteq Phases /\ OpenGuarded \subseteq Phases
          /\ Plan \subseteq Payload
<1>1. \A p \in Phases : Start(p) \in Payload /\ End(p) \in Payload
  BY DEF TypeOK, Start, End, Payload
<1>2. Startable \subseteq Phases /\ Open \subseteq Phases
  BY DEF Startable, Open
<1>3. Overdue \subseteq Phases /\ OpenGuarded \subseteq Phases
  BY SchedulerAssumption DEF Overdue, OpenGuarded, SchedulerAssumption
<1>4. Plan \subseteq Payload
  BY <1>1, <1>2 DEF Plan
<1> QED BY <1>1, <1>2, <1>3, <1>4

\* Opening a row, and moving its successors, keeps the rows rows.
LEMMA RowTypes ==
    ASSUME TypeOK, NEW p \in Phases, OpenRow(p)
    PROVE /\ stage' \in [Phases -> {"waiting", "open", "ended"}]
          /\ startAt' \in [Phases -> Time] /\ endAt' \in [Phases -> Time]
<1>1. CASE ~Adjusts(p)
  BY <1>1 DEF OpenRow, TypeOK
<1>2. CASE Adjusts(p)
  <2>1. PICK end \in [Phases -> Time] :
          /\ endAt' = end
          /\ startAt' = [q \in Phases |->
                IF q = p THEN now ELSE IF Follows(p, q) THEN end[Pred[q]] ELSE startAt[q]]
    BY <1>2 DEF OpenRow
  <2>2. ASSUME NEW q \in Phases, Follows(p, q) PROVE Pred[q] \in Phases
    BY <2>2, SchedulerAssumption DEF Follows, SchedulerAssumption
  <2> QED BY <2>1, <2>2 DEF OpenRow, TypeOK
<1> QED BY <1>1, <1>2

\* The update handler begins well formed.
LEMMA UpdateType == ASSUME TypeOK PROVE Update \in Procs /\ Update.kind \in {"overdue", "reviews"}
BY PayloadsType DEF Update, Procs

-----------------------------------------------------------------------------
(* The jobs: types and the ownership of the active job *)

\* Cancelling removes one job at most, and never the locked one.
LEMMA CancelJobs ==
    ASSUME Shape, NEW p \in Phases, CancelKnown(p), UNCHANGED placing
    PROVE /\ JobsTypeOK'
          /\ UNCHANGED runner => RunnerOwnsJob'
          /\ \A q \in Phases : queue'[q] = queue[q] \/ queue'[q] = None
<1> USE DEF Shape, TypeOK, JobsTypeOK
<1>1. CASE UNCHANGED <<queue, registry>>
  BY <1>1 DEF RunnerOwnsJob
<1>2. CASE Removable(p) /\ queue' = [queue EXCEPT ![p] = None] /\ registry' = [registry EXCEPT ![p] = None]
  BY <1>2 DEF RunnerOwnsJob, Removable
<1> QED BY <1>1, <1>2 DEF CancelKnown, Cancelled

\* Adding puts in one job at most, unlocked, and replaces none.
LEMMA AddJobs ==
    ASSUME Shape, NEW job \in Payload, Added(job)
    PROVE /\ registry' \in [Phases -> Payload \cup {None}]
          /\ queue' \in [Phases -> Job \cup {None}]
          /\ UNCHANGED runner => RunnerOwnsJob'
          /\ \A q \in Phases : \/ queue'[q] = queue[q]
                               \/ /\ q = job.phase /\ queue'[q] # None
                                  /\ queue'[q].state = job.state
<1> DEFINE new == [state |-> job.state, date |-> job.date, active |-> FALSE]
<1>0. job.phase \in Phases /\ new \in Job
  BY DEF Payload, Job
<1>1. job.phase \in Phases /\ new \in Job /\ new # None
  BY <1>0, JobsAssumption DEF JobsAssumption
<1> USE DEF Shape, TypeOK, JobsTypeOK
<1>2. registry' \in [Phases -> Payload \cup {None}]
  BY <1>1 DEF Added
<1>3. CASE queue[job.phase] # None
  BY <1>2, <1>3 DEF Added, RunnerOwnsJob
<1>4. CASE queue[job.phase] = None
  <2>1. queue' = [queue EXCEPT ![job.phase] = new]
    BY <1>4 DEF Added
  <2> QED BY <1>1, <1>2, <1>4, <2>1 DEF RunnerOwnsJob
<1> QED BY <1>3, <1>4

\* The first half of a schedule call only cancels.
LEMMA BeginFirstJobs ==
    ASSUME Shape, NEW c \in Callers, NEW job \in Payload, BeginSchedule(c, job)
    PROVE /\ JobsTypeOK'
          /\ UNCHANGED runner => RunnerOwnsJob'
          /\ \A q \in Phases : queue'[q] = queue[q] \/ queue'[q] = None
          /\ placing' = [placing EXCEPT ![c] = job]
<1>1. job.phase \in Phases
  BY DEF Payload
<1>2. CASE UNCHANGED <<queue, registry>>
  BY <1>2 DEF BeginSchedule, Shape, TypeOK, JobsTypeOK, RunnerOwnsJob
<1>3. CASE /\ Removable(job.phase)
           /\ queue' = [queue EXCEPT ![job.phase] = None]
           /\ registry' = [registry EXCEPT ![job.phase] = None]
  BY <1>1, <1>3 DEF BeginSchedule, Shape, TypeOK, JobsTypeOK, RunnerOwnsJob, Removable
<1> QED BY <1>2, <1>3 DEF BeginSchedule, CancelKnown, Cancelled

\* So does that of a reschedule call.
LEMMA BeginJobs ==
    ASSUME Shape, NEW c \in Callers, NEW job \in Payload, BeginReschedule(c, job)
    PROVE /\ JobsTypeOK'
          /\ UNCHANGED runner => RunnerOwnsJob'
          /\ \A q \in Phases : queue'[q] = queue[q] \/ queue'[q] = None
          /\ placing' = placing \/ placing' = [placing EXCEPT ![c] = job]
<1>1. CASE UNCHANGED jobVars
  BY <1>1 DEF Shape, TypeOK, JobsTypeOK, jobVars, RunnerOwnsJob
<1> QED BY <1>1, BeginFirstJobs DEF BeginReschedule

-----------------------------------------------------------------------------
(* Every action keeps the shape of the state *)

\* The queue worker.
LEMMA WorkerShape == Shape /\ Worker => Shape'
<1> SUFFICES ASSUME Shape, Worker PROVE Shape'
  OBVIOUS
<1> USE DEF Shape, rowVars, budget, jobVars
<1>1. ASSUME NEW p \in Phases, RunStart(p) PROVE Shape'
  <2> DEFINE locked == [queue[p] EXCEPT !.active = TRUE]
  <2>1. queue' = [queue EXCEPT ![p] = locked] /\ queue[p] \in Job
    BY <1>1 DEF RunStart, StartJob, Removable, TypeOK, JobsTypeOK
  <2>0. locked \in Job /\ locked.active
    BY <2>1 DEF Job
  <2>2. JobsTypeOK'
    BY <1>1, <2>1, <2>0 DEF RunStart, StartJob, TypeOK, JobsTypeOK
  <2>3. TypeOK'
    BY <1>1, <2>2 DEF RunStart, TypeOK, Idle
  <2>4. queue'[p] # None /\ queue'[p].active
    BY <2>1, <2>0, JobsAssumption DEF JobsAssumption, TypeOK, JobsTypeOK
  <2>5. RunnerOwnsJob'
    BY <1>1, <2>1, <2>4 DEF RunStart, StartJob, Idle, RunnerOwnsJob, TypeOK, JobsTypeOK
  <2> QED BY <1>1, <2>3, <2>5 DEF RunStart, ConsumerInput, Closing
<1>2. CASE RunFire
  <2>1. runner.phase \in Phases /\ runner # Idle /\ queue[runner.phase] \in Job
    BY <1>2 DEF RunFire, TypeOK, JobsTypeOK, Idle, RunnerOwnsJob
  <2>2. runner' \in [kind : {"check", "finally", "complete"}, phase : Phases]
        /\ runner'.phase = runner.phase
    BY <1>2, <2>1 DEF RunFire, TypeOK
  <2>3. /\ topic' \in Seq(Message) /\ Len(topic') <= MaxBacklog /\ faults' \in 0 .. MaxFaults
        /\ topic # <<>> => topic' # <<>>
    <3> DEFINE msg == [phase |-> runner.phase, state |-> queue[runner.phase].state]
    <3>1. msg \in Message
      BY <2>1 DEF Message, Job
    <3>2. topic \in Seq(Message) /\ Len(topic) <= MaxBacklog /\ faults \in 0 .. MaxFaults
      BY DEF TypeOK, Message
    <3>3. CASE topic' = Append(topic, msg) /\ Len(topic) < MaxBacklog /\ UNCHANGED faults
      BY <3>1, <3>2, <3>3, SchedulerAssumption DEF SchedulerAssumption
    <3>4. CASE UNCHANGED <<topic, faults>>
      BY <3>2, <3>4
    <3>5. CASE UNCHANGED topic /\ Fault
      BY <3>2, <3>5, SchedulerAssumption DEF SchedulerAssumption, Fault
    <3> QED BY <1>2, <3>3, <3>4, <3>5 DEF RunFire
  <2>4. TypeOK'
    BY <1>2, <2>2, <2>3 DEF RunFire, TypeOK, JobsTypeOK, Message
  <2>5. RunnerOwnsJob'
    BY <1>2, <2>1, <2>2 DEF RunFire, RunnerOwnsJob, Idle
  <2> QED BY <1>2, <2>4, <2>5 DEF RunFire, ConsumerInput, Closing
<1>3. CASE RunFinally
  <2>1. runner.phase \in Phases /\ runner # Idle
    BY <1>3 DEF RunFinally, TypeOK, Idle
  <2>2. runner' \in [kind : {"check", "finally", "complete"}, phase : Phases]
        /\ runner'.phase = runner.phase
    BY <1>3, <2>1 DEF RunFinally, TypeOK
  <2>3. TypeOK'
    BY <1>3, <2>1, <2>2 DEF RunFinally, ForgetJob, TypeOK, JobsTypeOK
  <2>4. RunnerOwnsJob'
    BY <1>3, <2>1, <2>2 DEF RunFinally, ForgetJob, RunnerOwnsJob, Idle
  <2> QED BY <1>3, <2>3, <2>4 DEF RunFinally, ConsumerInput, Closing
<1>4. CASE RunComplete
  <2>1. runner.phase \in Phases /\ runner # Idle
    BY <1>4 DEF RunComplete, TypeOK, Idle
  <2>2. TypeOK'
    BY <1>4, <2>1 DEF RunComplete, CompleteJob, TypeOK, JobsTypeOK
  <2>3. RunnerOwnsJob'
    BY <1>4, <2>1 DEF RunComplete, CompleteJob, RunnerOwnsJob, TypeOK, JobsTypeOK
  <2> QED BY <1>4, <2>2, <2>3 DEF RunComplete, ConsumerInput, Closing
<1> QED BY <1>1, <1>2, <1>3, <1>4 DEF Worker

\* The consumer notes the outcome of a message.
LEMMA OutcomeType ==
    ASSUME TypeOK, NEW msg \in Message, NEW outcome, Handled(msg, outcome),
           outcome \in {"opened", "closed", "deferred", "skipped", "failed"}
    PROVE (proc' \in [Callers -> Procs]) /\ ~Closing("consumer")'
<1> DEFINE handled == [kind |-> "handled", phase |-> msg.phase, state |-> msg.state, outcome |-> outcome]
<1>1. handled \in Procs
  BY DEF Procs, Message
<1>2. proc' = [proc EXCEPT !["consumer"] = handled]
  BY DEF Handled
<1>3. proc' \in [Callers -> Procs]
  BY <1>1, <1>2 DEF TypeOK
<1> QED BY <1>2, <1>3 DEF Closing

\* The message the consumer looks at.
LEMMA HeadType == ASSUME TypeOK, ConsumerReady
                  PROVE Head(topic) \in Message
<1>1. topic \in Seq(Message) /\ topic # <<>>
  BY DEF TypeOK, ConsumerReady, Message
<1> QED BY <1>1, HeadTailProperties

\* Closing a row hands its successors to the chain.
LEMMA CloseRowTypes ==
    ASSUME TypeOK, NEW p \in Phases, CloseRow(p)
    PROVE /\ stage' \in [Phases -> {"waiting", "open", "ended"}]
          /\ startAt' \in [Phases -> Time] /\ endAt' \in [Phases -> Time]
          /\ chain' \in [Phases -> {Idle, ToOpen} \cup {ToSchedule(job) : job \in Payload}]
BY DEF CloseRow, TypeOK

\* The handling of one transition message.
LEMMA HandlerShape == Shape /\ (HandleStart \/ HandleEnd \/ DeferEnd \/ HandleFails) => Shape'
<1> SUFFICES ASSUME Shape, HandleStart \/ HandleEnd \/ DeferEnd \/ HandleFails PROVE Shape'
  OBVIOUS
<1> DEFINE msg == Head(topic)
<1>0. msg \in Message /\ msg.phase \in Phases
  BY HeadType DEF HandleStart, HandleEnd, DeferEnd, HandleFails, Shape, Message
<1> HIDE DEF msg
<1> USE DEF Shape, rowVars, budget, jobVars
<1>1. CASE HandleStart
  <2>1. \E outcome \in {"opened", "skipped"} : Handled(msg, outcome)
    BY <1>1 DEF HandleStart, msg
  <2>2. (proc' \in [Callers -> Procs]) /\ ~Closing("consumer")'
    BY <1>0, <2>1, OutcomeType
  <2>3. /\ stage' \in [Phases -> {"waiting", "open", "ended"}]
        /\ startAt' \in [Phases -> Time] /\ endAt' \in [Phases -> Time]
    <3>1. CASE OpenRow(msg.phase)
      BY <1>0, <3>1, RowTypes
    <3>2. CASE UNCHANGED rowVars
      BY <3>2 DEF TypeOK
    <3> QED BY <1>1, <3>1, <3>2 DEF HandleStart, msg
  <2> QED BY <1>1, <2>2, <2>3 DEF HandleStart, ConsumerReady, TypeOK, JobsTypeOK, RunnerOwnsJob, ConsumerInput
<1>2. CASE HandleEnd
  <2>1. \E outcome \in {"closed", "skipped"} : Handled(msg, outcome)
    BY <1>2 DEF HandleEnd, msg
  <2>2. (proc' \in [Callers -> Procs]) /\ ~Closing("consumer")'
    BY <1>0, <2>1, OutcomeType
  <2>3. /\ stage' \in [Phases -> {"waiting", "open", "ended"}]
        /\ startAt' \in [Phases -> Time] /\ endAt' \in [Phases -> Time]
        /\ chain' \in [Phases -> {Idle, ToOpen} \cup {ToSchedule(job) : job \in Payload}]
    <3>1. CASE CloseRow(msg.phase)
      BY <1>0, <3>1, CloseRowTypes
    <3>2. CASE UNCHANGED <<rowVars, chain>>
      BY <3>2 DEF TypeOK
    <3> QED BY <1>2, <3>1, <3>2 DEF HandleEnd, msg
  <2> QED BY <1>2, <2>2, <2>3 DEF HandleEnd, ConsumerReady, TypeOK, JobsTypeOK, RunnerOwnsJob, ConsumerInput
<1>3. CASE DeferEnd
  <2> DEFINE job == [phase |-> msg.phase, state |-> "END", date |-> Later(now + Delay)]
  <2>1. Handled(msg, "deferred") /\ Added(job)
    BY <1>3 DEF DeferEnd, msg
  <2>2. (proc' \in [Callers -> Procs]) /\ ~Closing("consumer")'
    BY <1>0, <2>1, OutcomeType
  <2>3. now + Delay \in Nat
    BY SchedulerAssumption, JobsAssumption DEF SchedulerAssumption, JobsAssumption, TypeOK, Time
  <2>4. job \in Payload
    BY <1>0, <2>3, LaterType DEF Payload
  <2> HIDE DEF job
  <2>5. /\ registry' \in [Phases -> Payload \cup {None}]
        /\ queue' \in [Phases -> Job \cup {None}] /\ RunnerOwnsJob'
    BY <1>3, <2>1, <2>4, AddJobs DEF DeferEnd
  <2> QED BY <1>3, <2>2, <2>5 DEF DeferEnd, ConsumerReady, TypeOK, JobsTypeOK, ConsumerInput
<1>4. CASE HandleFails
  <2>1. (proc' \in [Callers -> Procs]) /\ ~Closing("consumer")'
    BY <1>0, <1>4, OutcomeType DEF HandleFails, msg
  <2>2. faults' \in 0 .. MaxFaults
    BY <1>4, SchedulerAssumption DEF HandleFails, Fault, TypeOK, SchedulerAssumption
  <2> QED BY <1>4, <2>1, <2>2 DEF HandleFails, ConsumerReady, TypeOK, JobsTypeOK, RunnerOwnsJob, ConsumerInput
<1> QED BY <1>1, <1>2, <1>3, <1>4

\* The clean-up after it, and the commit.
LEMMA CommitShape == Shape /\ (Commit \/ CommitFails) => Shape'
<1> SUFFICES ASSUME Shape, Commit \/ CommitFails PROVE Shape'
  OBVIOUS
<1> DEFINE p == proc["consumer"].phase
<1>1. Cleaned /\ proc["consumer"] \in Procs
  BY SchedulerAssumption DEF Commit, CommitFails, Shape, TypeOK, SchedulerAssumption
<1>2. p \in Phases
  BY <1>1 DEF Cleaned, Procs, Idle
<1>3. JobsTypeOK' /\ RunnerOwnsJob'
  <2>1. CASE CancelKnown(p)
    BY <1>1, <1>2, <2>1, CancelJobs DEF Cleaned
  <2>2. CASE UNCHANGED <<queue, registry>>
    BY <1>1, <2>2 DEF Cleaned, Shape, TypeOK, JobsTypeOK, RunnerOwnsJob
  <2> QED BY <1>1, <2>1, <2>2 DEF Cleaned
<1>4. proc' \in [Callers -> Procs] /\ ~Closing("consumer")' /\ proc'["consumer"] = Idle
  <2>1. Idle \in Procs
    BY DEF Procs
  <2>2. proc' = [proc EXCEPT !["consumer"] = Idle]
    BY <1>1 DEF Cleaned
  <2>3. proc' \in [Callers -> Procs]
    BY <2>1, <2>2 DEF Shape, TypeOK
  <2>4. proc'["consumer"] = Idle
    BY <2>2, SchedulerAssumption DEF Shape, TypeOK, SchedulerAssumption
  <2> QED BY <2>3, <2>4 DEF Closing, Idle
<1>5. topic' \in Seq(Message) /\ Len(topic') <= MaxBacklog /\ faults' \in 0 .. MaxFaults
  <2>1. topic \in Seq(Message) /\ Len(topic) <= MaxBacklog /\ faults \in 0 .. MaxFaults
    BY DEF Shape, TypeOK, Message
  <2>2. CASE Commit
    <3>1. topic # <<>>
      BY <1>1 DEF Cleaned, Shape, ConsumerInput
    <3>2. Tail(topic) \in Seq(Message) /\ Len(Tail(topic)) = Len(topic) - 1
      BY <2>1, <3>1, HeadTailProperties
    <3>3. topic' = Tail(topic) /\ Len(topic) \in Nat
      BY <2>1, <2>2 DEF Commit
    <3> QED BY <2>1, <2>2, <3>2, <3>3, SchedulerAssumption DEF Commit, SchedulerAssumption
  <2>3. CASE CommitFails
    BY <2>1, <2>3, SchedulerAssumption DEF CommitFails, Fault, SchedulerAssumption
  <2> QED BY <2>2, <2>3
<1> QED BY <1>1, <1>3, <1>4, <1>5 DEF Cleaned, Shape, TypeOK, rowVars, ConsumerInput, Message, Idle

\* The phase chain.
LEMMA ChainShape == Shape /\ Chain => Shape'
<1> SUFFICES ASSUME Shape, NEW p \in Phases, ChainOpen(p) \/ ChainSchedule(p) PROVE Shape'
  BY DEF Chain
<1> USE DEF Shape, rowVars, budget, jobVars
<1>1. CASE ChainOpen(p)
  <2>1. CASE OpenRow(p) /\ chain' = [chain EXCEPT ![p] = ToSchedule(End(p))']
    <3>1. /\ stage' \in [Phases -> {"waiting", "open", "ended"}]
          /\ startAt' \in [Phases -> Time] /\ endAt' \in [Phases -> Time]
      BY <2>1, RowTypes
    <3>2. End(p)' \in Payload
      BY <3>1 DEF End, Payload
    <3>3. chain' \in [Phases -> {Idle, ToOpen} \cup {ToSchedule(job) : job \in Payload}]
      <4>1. chain' = [chain EXCEPT ![p] = ToSchedule(End(p)')]
        BY <2>1 DEF ToSchedule
      <4> QED BY <3>2, <4>1 DEF TypeOK
    <3> QED BY <1>1, <3>1, <3>3 DEF ChainOpen, TypeOK, JobsTypeOK, RunnerOwnsJob, ConsumerInput, Closing
  <2>2. CASE UNCHANGED rowVars /\ chain' = [chain EXCEPT ![p] = Idle]
    BY <1>1, <2>2 DEF ChainOpen, TypeOK, JobsTypeOK, RunnerOwnsJob, ConsumerInput, Closing
  <2> QED BY <1>1, <2>1, <2>2 DEF ChainOpen
<1>2. CASE ChainSchedule(p)
  <2>1. PICK job \in Payload : chain[p] = ToSchedule(job)
    BY <1>2 DEF ChainSchedule, TypeOK, ToOpen, Idle
  <2>2. BeginReschedule("chain", job) /\ "chain" \in Callers
    BY <1>2, <2>1, SchedulerAssumption DEF ChainSchedule, ToSchedule, SchedulerAssumption
  <2>3. JobsTypeOK' /\ RunnerOwnsJob'
    BY <1>2, <2>2, BeginJobs DEF ChainSchedule
  <2> QED BY <1>2, <2>3 DEF ChainSchedule, TypeOK, ConsumerInput, Closing
<1> QED BY <1>1, <1>2

\* The consumer takes up a notice.
LEMMA UpdateBeginShape == Shape /\ UpdateBegin => Shape'
<1> SUFFICES ASSUME Shape, UpdateBegin PROVE Shape'
  OBVIOUS
<1>1. proc' = [proc EXCEPT !["consumer"] = Update] /\ Update \in Procs
      /\ Update.kind # "handled"
  BY UpdateType DEF UpdateBegin, Shape
<1>2. proc' \in [Callers -> Procs] /\ proc'["consumer"].kind # "handled"
  BY <1>1, SchedulerAssumption DEF Shape, TypeOK, SchedulerAssumption
<1> QED BY <1>2 DEF UpdateBegin, Shape, TypeOK, JobsTypeOK, RunnerOwnsJob, ConsumerInput, Closing,
                    jobVars, rowVars, budget

\* What one step of an update may make of the handler of its caller.
LEMMA ClosingType ==
    ASSUME TypeOK, NEW c \in Callers, Closing(c)
    PROVE proc[c] \in [kind : {"overdue", "reviews"}, closes : SUBSET Phases,
                       reviews : SUBSET Phases, plan : SUBSET Payload, reload : BOOLEAN]
<1>1. proc[c] \in Procs
  BY DEF TypeOK
<1> QED BY <1>1 DEF Closing, Procs, Idle

\* The update handler, whoever runs it.
LEMMA UpdatingShape == ASSUME NEW c \in Updaters, Shape, Updating(c) PROVE Shape'
<1> DEFINE Handlers == [kind : {"overdue", "reviews"}, closes : SUBSET Phases,
                        reviews : SUBSET Phases, plan : SUBSET Payload, reload : BOOLEAN]
<1>0. c \in Callers /\ Handlers \subseteq Procs
  BY SchedulerAssumption DEF Updaters, SchedulerAssumption, Procs
<1>a. /\ \A handler : proc' = [proc EXCEPT ![c] = handler] /\ handler \in Procs
                      => proc' \in [Callers -> Procs]
      /\ \A handler : proc' = [proc EXCEPT ![c] = handler] /\ handler \in Handlers /\ Closing(c)
                      => /\ Closing("consumer")' => Closing("consumer")
                         /\ proc'["consumer"].kind = "handled" => proc["consumer"].kind = "handled"
  BY <1>0, SchedulerAssumption DEF Shape, TypeOK, Closing, SchedulerAssumption
<1>1. ASSUME NEW p \in Phases, UpdateClose(c, p) PROVE Shape'
  <2> DEFINE closed == stage[p] = "open" /\ p \notin pending
             handler == [proc[c] EXCEPT !.closes = @ \ {p}, !.reload = @ \/ closed]
  <2>1. proc[c] \in Handlers
    BY <1>0, <1>1, ClosingType DEF UpdateClose, Shape
  <2>2. handler \in Handlers
    BY <2>1
  <2>3. proc' = [proc EXCEPT ![c] = handler]
    BY <1>0, <1>1 DEF UpdateClose, Shape, TypeOK
  <2> HIDE DEF handler
  <2>4. /\ proc' \in [Callers -> Procs]
        /\ Closing("consumer")' => Closing("consumer")
        /\ proc'["consumer"].kind = "handled" => proc["consumer"].kind = "handled"
    BY <1>0, <1>1, <1>a, <2>2, <2>3 DEF UpdateClose
  <2>5. JobsTypeOK' /\ RunnerOwnsJob'
    <3>1. CASE CancelKnown(p)
      BY <1>1, <3>1, CancelJobs DEF UpdateClose
    <3>2. CASE UNCHANGED <<queue, registry>>
      BY <1>1, <3>2 DEF UpdateClose, Shape, TypeOK, JobsTypeOK, RunnerOwnsJob
    <3> QED BY <1>1, <3>1, <3>2 DEF UpdateClose
  <2>6. /\ stage' \in [Phases -> {"waiting", "open", "ended"}]
        /\ startAt' \in [Phases -> Time] /\ endAt' \in [Phases -> Time]
        /\ chain' \in [Phases -> {Idle, ToOpen} \cup {ToSchedule(job) : job \in Payload}]
    <3>1. CASE CloseRow(p)
      BY <3>1, CloseRowTypes DEF Shape
    <3>2. CASE UNCHANGED <<rowVars, chain>>
      BY <3>2 DEF Shape, TypeOK, rowVars
    <3> QED BY <1>1, <3>1, <3>2 DEF UpdateClose
  <2> QED BY <1>1, <2>4, <2>5, <2>6 DEF UpdateClose, Shape, TypeOK, ConsumerInput, budget
<1>2. CASE UpdateReviews(c)
  <2> DEFINE handler == [kind |-> "reviews",
                         closes |-> IF proc[c].reload THEN OpenGuarded ELSE proc[c].reviews,
                         reviews |-> proc[c].reviews,
                         plan |-> IF proc[c].reload THEN Plan ELSE proc[c].plan,
                         reload |-> FALSE]
  <2>1. proc[c] \in Handlers /\ Closing(c)
    BY <1>0, <1>2, ClosingType DEF UpdateReviews, Shape, Closing
  <2>2. handler \in Handlers
    BY <2>1, PayloadsType DEF Shape
  <2>3. proc' = [proc EXCEPT ![c] = handler]
    BY <1>0, <1>2 DEF UpdateReviews, Shape, TypeOK
  <2> HIDE DEF handler
  <2>4. /\ proc' \in [Callers -> Procs]
        /\ Closing("consumer")' => Closing("consumer")
        /\ proc'["consumer"].kind = "handled" => proc["consumer"].kind = "handled"
    BY <1>0, <1>a, <2>1, <2>2, <2>3
  <2> QED BY <1>2, <2>4 DEF UpdateReviews, Shape, TypeOK, JobsTypeOK, RunnerOwnsJob,
                            ConsumerInput, jobVars, rowVars, budget
<1>3. CASE UpdateReload(c)
  <2> DEFINE handler == [proc[c] EXCEPT !.plan = Plan, !.reload = FALSE]
  <2>1. proc[c] \in Handlers /\ Closing(c)
    BY <1>0, <1>3, ClosingType DEF UpdateReload, Shape, Closing
  <2>2. handler \in Handlers
    BY <2>1, PayloadsType DEF Shape
  <2>3. proc' = [proc EXCEPT ![c] = handler]
    BY <1>0, <1>3 DEF UpdateReload, Shape, TypeOK
  <2> HIDE DEF handler
  <2>4. /\ proc' \in [Callers -> Procs]
        /\ Closing("consumer")' => Closing("consumer")
        /\ proc'["consumer"].kind = "handled" => proc["consumer"].kind = "handled"
    BY <1>0, <1>a, <2>1, <2>2, <2>3
  <2> QED BY <1>3, <2>4 DEF UpdateReload, Shape, TypeOK, JobsTypeOK, RunnerOwnsJob,
                            ConsumerInput, jobVars, rowVars, budget
<1>4. ASSUME NEW job \in Payload, UpdateSchedule(c, job) PROVE Shape'
  <2> DEFINE handler == [proc[c] EXCEPT !.plan = @ \ {job}]
  <2>1. proc[c] \in Handlers /\ Closing(c)
    BY <1>0, <1>4, ClosingType DEF UpdateSchedule, Scheduling, Shape, Closing
  <2>2. handler \in Handlers
    BY <2>1
  <2>3. proc' = [proc EXCEPT ![c] = handler]
    BY <1>0, <1>4 DEF UpdateSchedule, Shape, TypeOK
  <2> HIDE DEF handler
  <2>4. /\ proc' \in [Callers -> Procs]
        /\ Closing("consumer")' => Closing("consumer")
        /\ proc'["consumer"].kind = "handled" => proc["consumer"].kind = "handled"
    BY <1>0, <1>a, <2>1, <2>2, <2>3
  <2>5. JobsTypeOK' /\ RunnerOwnsJob'
    BY <1>0, <1>4, BeginJobs DEF UpdateSchedule
  <2> QED BY <1>4, <2>4, <2>5 DEF UpdateSchedule, Shape, TypeOK, ConsumerInput, rowVars, budget
<1>5. CASE UpdateEnd(c)
  <2>1. Removing \in Procs /\ Idle \in Procs
    BY DEF Removing, Procs
  <2>2. proc' \in [Callers -> Procs]
    BY <1>0, <1>5, <1>a, <2>1 DEF UpdateEnd
  <2>3. Closing(c) /\ (c = "consumer" => proc'[c] = Idle)
    BY <1>0, <1>5 DEF UpdateEnd, Scheduling, Closing, Shape, TypeOK
  <2>4. c # "consumer" => proc'["consumer"] = proc["consumer"]
    BY <1>0, <1>5, SchedulerAssumption DEF UpdateEnd, Shape, TypeOK, SchedulerAssumption
  <2>5. notices' \in 0 .. (1 + MaxEdits) /\ notices' <= notices
    BY <1>5, <2>3, SchedulerAssumption DEF UpdateEnd, Shape, TypeOK, ConsumerInput, SchedulerAssumption
  <2>6. ConsumerInput'
    <3>1. CASE c = "consumer"
      BY <1>5, <2>3, <2>5, <3>1, SchedulerAssumption
         DEF UpdateEnd, Shape, TypeOK, ConsumerInput, Closing, Idle, budget, SchedulerAssumption
    <3>2. CASE c # "consumer"
      BY <1>5, <2>4, <3>2 DEF UpdateEnd, Shape, ConsumerInput, Closing, budget
    <3> QED BY <3>1, <3>2
  <2> QED BY <1>5, <2>2, <2>5, <2>6 DEF UpdateEnd, Shape, TypeOK, JobsTypeOK, RunnerOwnsJob,
                            jobVars, rowVars, budget
<1> QED BY <1>1, <1>2, <1>3, <1>4, <1>5 DEF Updating

\* The synchronisation.
LEMMA SyncShape == Shape /\ Sync => Shape'
<1> SUFFICES ASSUME Shape, Sync PROVE Shape'
  OBVIOUS
<1>0. "sync" \in Callers /\ "sync" # "consumer" /\ proc \in [Callers -> Procs]
  BY SchedulerAssumption DEF SchedulerAssumption, Shape, TypeOK
<1>a. \A handler \in Procs :
        proc' = [proc EXCEPT !["sync"] = handler]
        => /\ proc' \in [Callers -> Procs]
           /\ Closing("consumer")' => Closing("consumer")
           /\ proc'["consumer"].kind = "handled" => proc["consumer"].kind = "handled"
  BY <1>0, SchedulerAssumption DEF Closing, SchedulerAssumption
<1>b. Removing \in Procs /\ Removing' \in Procs
  BY DEF Removing, Procs
<1> USE DEF rowVars, budget, jobVars
<1>1. CASE SyncRead
  <2> DEFINE handler == [kind |-> "read", replay |-> OpenGuarded # {},
                         wants |-> {Start(p) : p \in Startable} \cup {End(p) : p \in Open}]
  <2>1. handler \in Procs
    BY PayloadsType DEF Shape, Procs
  <2>2. proc' = [proc EXCEPT !["sync"] = handler]
    BY <1>1 DEF SyncRead
  <2> HIDE DEF handler
  <2> QED BY <1>1, <1>a, <2>1, <2>2
          DEF SyncRead, Shape, TypeOK, JobsTypeOK, RunnerOwnsJob, ConsumerInput
<1>2. CASE SyncKeys
  <2> DEFINE handler == [proc["sync"] EXCEPT !.kind = "scan"]
  <2>1. handler \in Procs
    BY <1>0, <1>2 DEF SyncKeys, Procs, Idle
  <2>2. proc' = [proc EXCEPT !["sync"] = handler]
    BY <1>0, <1>2 DEF SyncKeys
  <2> HIDE DEF handler
  <2> QED BY <1>2, <1>a, <2>1, <2>2
          DEF SyncKeys, Shape, TypeOK, JobsTypeOK, RunnerOwnsJob, ConsumerInput
<1>3. CASE SyncScanned
  <2> DEFINE handler == IF proc["sync"].replay THEN Update ELSE Removing
  <2>1. handler \in Procs
    BY <1>b, UpdateType DEF Shape
  <2>2. proc' = [proc EXCEPT !["sync"] = handler]
    BY <1>0, <1>3 DEF SyncScanned
  <2> HIDE DEF handler
  <2> QED BY <1>3, <1>a, <2>1, <2>2
          DEF SyncScanned, Shape, TypeOK, JobsTypeOK, RunnerOwnsJob, ConsumerInput
<1>4. ASSUME NEW job \in Payload, SyncSchedule(job) PROVE Shape'
  <2> DEFINE handler == [proc["sync"] EXCEPT !.wants = @ \ {job}]
  <2>1. handler \in Procs
    BY <1>0, <1>4 DEF SyncSchedule, Procs, Idle
  <2>2. proc' = [proc EXCEPT !["sync"] = handler]
    BY <1>0, <1>4 DEF SyncSchedule
  <2> HIDE DEF handler
  <2>3. JobsTypeOK' /\ RunnerOwnsJob'
    <3>1. CASE UNCHANGED jobVars
      BY <1>4, <3>1 DEF SyncSchedule, Shape, TypeOK, JobsTypeOK, RunnerOwnsJob
    <3>2. CASE BeginReschedule("sync", job)
      BY <1>0, <1>4, <3>2, BeginJobs DEF SyncSchedule
    <3>3. CASE BeginSchedule("sync", job)
      BY <1>0, <1>4, <3>3, BeginFirstJobs DEF SyncSchedule
    <3> QED BY <1>4, <3>1, <3>2, <3>3 DEF SyncSchedule
  <2> QED BY <1>4, <1>a, <2>1, <2>2, <2>3 DEF SyncSchedule, Shape, TypeOK, ConsumerInput
<1>5. ASSUME NEW p \in Phases, SyncRemove(p) PROVE Shape'
  <2>1. proc' = [proc EXCEPT !["sync"] = Removing']
    BY <1>5 DEF SyncRemove
  <2>2. JobsTypeOK' /\ RunnerOwnsJob'
    BY <1>5, CancelJobs DEF SyncRemove
  <2> QED BY <1>5, <1>a, <1>b, <2>1, <2>2 DEF SyncRemove, Shape, TypeOK, ConsumerInput
<1> QED BY <1>1, <1>2, <1>3, <1>4, <1>5 DEF Sync

\* The second half of a schedule call.
LEMMA ScheduleShape == ASSUME NEW c \in Callers, Shape, Schedule(c) PROVE Shape'
<1>1. placing[c] \in Payload
  BY DEF Schedule, FinishSchedule, Shape, TypeOK, JobsTypeOK
<1>2. JobsTypeOK' /\ RunnerOwnsJob'
  BY <1>1, AddJobs DEF Schedule, FinishSchedule, Shape, TypeOK, JobsTypeOK
<1> QED BY <1>2 DEF Schedule, Shape, TypeOK, ConsumerInput, Closing, rowVars, budget

\* The process dies.
LEMMA CrashShape == Shape /\ Crash => Shape'
<1> SUFFICES ASSUME Shape, Crash PROVE Shape'
  OBVIOUS
<1>1. ASSUME NEW p \in Phases, queue[p] # None
      PROVE [queue[p] EXCEPT !.active = FALSE] \in Job
  BY <1>1 DEF Shape, TypeOK, JobsTypeOK, Job
<1>2. JobsTypeOK'
  BY <1>1 DEF Crash, JobsCrash, JobsTypeOK
<1>3. \A p \in Phases : queue'[p] # None => ~queue'[p].active
  <2> SUFFICES ASSUME NEW p \in Phases, queue'[p] # None PROVE ~queue'[p].active
    OBVIOUS
  <2>1. queue[p] # None /\ queue'[p] = [queue[p] EXCEPT !.active = FALSE]
    BY DEF Crash, JobsCrash
  <2>2. queue[p] \in Job
    BY <2>1 DEF Shape, TypeOK, JobsTypeOK
  <2> QED BY <2>1, <2>2 DEF Job
<1>4. RunnerOwnsJob'
  BY <1>3 DEF Crash, RunnerOwnsJob
<1>5. faults' \in 0 .. MaxFaults /\ Idle \in Procs
  BY SchedulerAssumption DEF Crash, Fault, Shape, TypeOK, Procs, SchedulerAssumption
<1>6. proc' \in [Callers -> Procs] /\ proc'["consumer"] = Idle
  BY <1>5, SchedulerAssumption DEF Crash, SchedulerAssumption
<1>7. ConsumerInput'
  BY <1>6 DEF Crash, Shape, ConsumerInput, Closing, Idle
<1> QED BY <1>2, <1>4, <1>5, <1>6, <1>7 DEF Crash, Shape, TypeOK, rowVars

\* The recovery after it.
LEMMA RecoveryShape == Shape /\ (Recovery \/ RecoverFails) => Shape'
<1> SUFFICES ASSUME Shape, Recovery \/ RecoverFails PROVE Shape'
  OBVIOUS
<1> DEFINE Kept == /\ proc' \in [Callers -> Procs]
                   /\ proc'["consumer"] = proc["consumer"]
<1>0. \A handler \in Procs : proc' = [proc EXCEPT !["recovery"] = handler] => Kept
  BY SchedulerAssumption DEF SchedulerAssumption, Shape, TypeOK
<1>1. ASSUME NEW due \in SUBSET Message PROVE Producing(due) \in Procs
  BY DEF Producing, Procs
<1>2. Due \in SUBSET Message /\ Update \in Procs /\ Idle \in Procs
  BY UpdateType DEF Due, Message, Startable, Open, Shape, Procs
<1> USE DEF Shape, ConsumerInput, Closing, rowVars, budget, jobVars
<1>3. CASE Recover
  <2>1. (IF OpenGuarded # {} THEN Update ELSE Producing(Due)) \in Procs
    BY <1>1, <1>2
  <2>2. Kept
    BY <1>0, <1>3, <2>1 DEF Recover
  <2> QED BY <1>3, <2>2 DEF Recover, TypeOK, JobsTypeOK, RunnerOwnsJob
<1>4. ASSUME NEW msg \in Message, RecoverSend(msg) PROVE Shape'
  <2>1. proc["recovery"].due \in SUBSET Message
    <3>1. proc["recovery"] \in Procs
      BY SchedulerAssumption DEF TypeOK, SchedulerAssumption
    <3> QED BY <1>4, <3>1 DEF RecoverSend, Procs, Idle
  <2>2. Producing(proc["recovery"].due \ {msg}) \in Procs
    BY <1>1, <2>1
  <2>3. Kept
    BY <1>0, <1>4, <2>2, SchedulerAssumption DEF RecoverSend, TypeOK, SchedulerAssumption
  <2>4. topic' \in Seq(Message) /\ Len(topic') <= MaxBacklog /\ (topic # <<>> => topic' # <<>>)
    <3>1. CASE topic' = Append(topic, msg) /\ Len(topic) < MaxBacklog
      BY <3>1, SchedulerAssumption DEF TypeOK, SchedulerAssumption
    <3> QED BY <1>4, <3>1 DEF RecoverSend, TypeOK
  <2> QED BY <1>4, <2>3, <2>4 DEF RecoverSend, TypeOK, JobsTypeOK, RunnerOwnsJob
<1>5. CASE RecoverFails
  <2>1. Kept
    BY <1>0, <1>2, <1>5 DEF RecoverFails
  <2> QED BY <1>5, <2>1 DEF RecoverFails, TypeOK, JobsTypeOK, RunnerOwnsJob
<1> QED BY <1>3, <1>4, <1>5 DEF Recovery

\* The clock, the reviewers and the challenge managers.
LEMMA EnvironmentShape == Shape /\ Environment => Shape'
<1> SUFFICES ASSUME Shape, Environment PROVE Shape'
  OBVIOUS
<1> USE DEF Shape, ConsumerInput, Closing, rowVars, budget, jobVars
<1>1. CASE Tick
  <2>1. now' \in Time
    BY <1>1, JobsAssumption DEF Tick, TypeOK, Time, JobsAssumption
  <2> QED BY <1>1, <2>1 DEF Tick, TypeOK, JobsTypeOK, RunnerOwnsJob
<1>2. ASSUME NEW p \in Phases, CompleteWork(p) PROVE Shape'
  BY <1>2 DEF CompleteWork, TypeOK, JobsTypeOK, RunnerOwnsJob
<1>3. ASSUME NEW p \in Phases, NEW t \in Time, EditEnd(p, t) PROVE Shape'
  <2>1. /\ notices' \in 0 .. (1 + MaxEdits) /\ edits' \in 0 .. MaxEdits
        /\ notices' <= 1 + edits' /\ notices' > 0
    BY <1>3, SchedulerAssumption DEF EditEnd, TypeOK, SchedulerAssumption
  <2>2. endAt' \in [Phases -> Time]
    BY <1>3 DEF EditEnd, TypeOK
  <2> QED BY <1>3, <2>1, <2>2 DEF EditEnd, TypeOK, JobsTypeOK, RunnerOwnsJob
<1> QED BY <1>1, <1>2, <1>3 DEF Environment

LEMMA InitShape == Init => Shape
<1> SUFFICES ASSUME Init PROVE Shape
  OBVIOUS
<1>1. JobsTypeOK /\ RunnerOwnsJob
  BY DEF Init, JobsInit, JobsTypeOK, RunnerOwnsJob
<1>2. ASSUME NEW p \in Phases PROVE StartOf[p] + Duration \in Nat
  BY SchedulerAssumption, JobsAssumption DEF SchedulerAssumption, JobsAssumption, Time
<1>3. endAt \in [Phases -> Time]
  BY <1>2, LaterType DEF Init
<1>4. Idle \in Procs /\ proc["consumer"] = Idle
  BY SchedulerAssumption DEF Init, Procs, SchedulerAssumption
<1>5. topic \in Seq(Message) /\ Len(topic) = 0
  BY DEF Init
<1>6. ConsumerInput
  BY <1>4 DEF Init, ConsumerInput, Closing, Idle
<1>7. /\ now \in Time /\ notices \in 0 .. (1 + MaxEdits)
      /\ faults \in 0 .. MaxFaults /\ edits \in 0 .. MaxEdits
      /\ Len(topic) <= MaxBacklog
  BY <1>5, SchedulerAssumption, JobsAssumption DEF Init, Time, SchedulerAssumption, JobsAssumption
<1>8. proc \in [Callers -> Procs]
  BY <1>4 DEF Init
<1>9. chain \in [Phases -> {Idle, ToOpen} \cup {ToSchedule(job) : job \in Payload}]
  BY DEF Init
<1> QED BY <1>1, <1>3, <1>5, <1>6, <1>7, <1>8, <1>9, SchedulerAssumption
        DEF Init, Shape, TypeOK, SchedulerAssumption

LEMMA NextShape == Shape /\ [Next]_vars => Shape'
<1> SUFFICES ASSUME Shape, [Next]_vars PROVE Shape'
  OBVIOUS
<1>1. CASE UNCHANGED vars
  BY <1>1 DEF vars, Shape, TypeOK, JobsTypeOK, RunnerOwnsJob, ConsumerInput, Closing
<1>2. CASE Consumer \/ HandleFails \/ CommitFails
  BY <1>2, HandlerShape, CommitShape, UpdateBeginShape DEF Consumer
<1>3. CASE Next
  BY <1>2, <1>3, WorkerShape, ChainShape, SyncShape, RecoveryShape, CrashShape, EnvironmentShape,
     UpdatingShape, ScheduleShape DEF Next
<1> QED BY <1>1, <1>3

-----------------------------------------------------------------------------
(* The theorems *)

\* Every variable keeps its type: the tree of phases, the bounds and the faults
\* are arbitrary.
THEOREM SchedulerTypeCorrect == Spec => []TypeOK
<1>1. Shape => TypeOK
  BY DEF Shape
<1> QED BY <1>1, InitShape, NextShape, PTL DEF Spec

-----------------------------------------------------------------------------
(* The order of the phases.  Nothing looks at the predecessor when a START is *)
(* carried out, so the order rests on every START that is still on its way,   *)
(* wherever it is: its predecessor has ended already.                         *)

InOrder(job) == job.state = "START" => PredEnded(job.phase)

QueueInOrder == \A p \in Phases : queue[p] # None /\ queue[p].state = "START" => PredEnded(p)

PlacingInOrder == \A c \in Callers : placing[c] # None => InOrder(placing[c])

TopicInOrder == \A i \in 1 .. Len(topic) : InOrder(topic[i])

ChainInOrder ==
    \A p \in Phases :
        /\ chain[p] = ToOpen => PredEnded(p)
        /\ \A job \in Payload : chain[p] = ToSchedule(job) => InOrder(job)

HandlerInOrder(handler) ==
    /\ handler.kind \in {"overdue", "reviews"} => \A job \in handler.plan : InOrder(job)
    /\ handler.kind \in {"read", "scan"} => \A job \in handler.wants : InOrder(job)
    /\ handler.kind = "produce" => \A msg \in handler.due : InOrder(msg)

ProcInOrder == \A c \in Callers : HandlerInOrder(proc[c])

StartsInOrder == QueueInOrder /\ PlacingInOrder /\ TopicInOrder /\ ChainInOrder /\ ProcInOrder

\* No phase that has ended starts again.
EndedStays == \A p \in Phases : stage[p] = "ended" => stage'[p] = "ended"

\* Only a START message and the chain open a phase.
LEMMA SameOrClosed ==
    ASSUME Shape, [Next]_vars
    PROVE HandleStart \/ Chain \/ UNCHANGED stage \/ \E p \in Phases : CloseRow(p)
<1>1. CASE UNCHANGED vars
  BY <1>1 DEF vars
<1>2. CASE Worker
  BY <1>2 DEF Worker, RunStart, RunFire, RunFinally, RunComplete, rowVars
<1>3. CASE HandleEnd \/ DeferEnd \/ HandleFails
  <2>1. ConsumerReady => Head(topic).phase \in Phases
    BY HeadType DEF Shape, Message
  <2> QED BY <1>3, <2>1 DEF HandleEnd, DeferEnd, HandleFails, rowVars
<1>4. CASE Commit \/ CommitFails \/ UpdateBegin
  BY <1>4 DEF Commit, CommitFails, Cleaned, UpdateBegin, rowVars
<1>5. CASE Sync \/ Recovery \/ RecoverFails
  BY <1>5 DEF Sync, SyncRead, SyncKeys, SyncScanned, SyncSchedule, SyncRemove,
              Recovery, Recover, RecoverSend, RecoverFails, rowVars
<1>6. CASE \E c \in Updaters : Updating(c)
  BY <1>6 DEF Updating, UpdateClose, UpdateReviews, UpdateReload, UpdateSchedule, UpdateEnd, rowVars
<1>7. CASE (\E c \in Callers : Schedule(c)) \/ Crash \/ Environment
  BY <1>7 DEF Schedule, Crash, Environment, Tick, CompleteWork, EditEnd, rowVars
<1> QED BY <1>1, <1>2, <1>3, <1>4, <1>5, <1>6, <1>7 DEF Next, Consumer

\* What a step may do to the rows: open one or close one.
LEMMA RowSteps ==
    ASSUME Shape, [Next]_vars
    PROVE UNCHANGED stage \/ \E p \in Phases : OpenRow(p) \/ CloseRow(p)
<1>1. CASE HandleStart
  <2>1. Head(topic).phase \in Phases
    BY <1>1, HeadType DEF HandleStart, Shape, Message
  <2> QED BY <1>1, <2>1 DEF HandleStart, rowVars
<1>2. CASE Chain
  BY <1>2 DEF Chain, ChainOpen, ChainSchedule, rowVars
<1> QED BY <1>1, <1>2, SameOrClosed

\* A phase that has ended has ended for good.
LEMMA StagesMove == ASSUME Shape, [Next]_vars PROVE EndedStays
<1>1. ASSUME NEW p \in Phases, OpenRow(p) \/ CloseRow(p) PROVE EndedStays
  BY <1>1 DEF OpenRow, CloseRow, EndedStays, Shape, TypeOK
<1> QED BY <1>1, RowSteps DEF EndedStays

\* What is in order stays in order while no phase becomes unended.
LEMMA OrderKept ==
    ASSUME EndedStays
    PROVE /\ \A p \in Phases : PredEnded(p) => PredEnded(p)'
          /\ \A job \in Payload \cup Message : InOrder(job) => InOrder(job)'
<1>1. \A p \in Phases : PredEnded(p) => PredEnded(p)'
  BY SchedulerAssumption DEF PredEnded, EndedStays, SchedulerAssumption
<1>2. \A job \in Payload \cup Message : job.phase \in Phases
  BY DEF Payload, Message
<1> QED BY <1>1, <1>2 DEF InOrder

\* The places a transition can be in: each keeps its order in a step that leaves it
\* alone, removes from it, or puts in it what is in order.

\* Half-made schedule calls.
LEMMA PlacingKept ==
    ASSUME Shape, Shape', StartsInOrder, EndedStays,
           \A c \in Callers : placing'[c] = placing[c] \/ placing'[c] = None \/ InOrder(placing'[c])
    PROVE PlacingInOrder'
<1>1. \A c \in Callers : placing'[c] # None => placing'[c] \in Payload
  BY DEF Shape, TypeOK, JobsTypeOK
<1> QED BY <1>1, OrderKept DEF StartsInOrder, PlacingInOrder

\* The messages under way.
LEMMA TopicKept ==
    ASSUME Shape, StartsInOrder, EndedStays,
           \/ UNCHANGED topic
           \/ topic # <<>> /\ topic' = Tail(topic)
           \/ \E msg \in Message : InOrder(msg) /\ topic' = Append(topic, msg)
    PROVE TopicInOrder'
<1>0. topic \in Seq(Message)
  BY DEF Shape, TypeOK
<1>1. \A i \in 1 .. Len(topic) : topic[i] \in Message /\ InOrder(topic[i])
  BY <1>0 DEF StartsInOrder, TopicInOrder
<1>2. \A i \in 1 .. Len(topic') : \E msg \in Message : InOrder(msg) /\ topic'[i] = msg
  <2>1. CASE UNCHANGED topic
    BY <1>1, <2>1
  <2>2. CASE topic # <<>> /\ topic' = Tail(topic)
    <3>1. /\ Len(topic') = Len(topic) - 1
          /\ \A i \in 1 .. Len(topic') : topic'[i] = topic[i + 1] /\ i + 1 \in 1 .. Len(topic)
      BY <1>0, <2>2, HeadTailProperties
    <3> QED BY <1>1, <3>1
  <2>3. ASSUME NEW msg \in Message, InOrder(msg), topic' = Append(topic, msg)
        PROVE \A i \in 1 .. Len(topic') : \E m \in Message : InOrder(m) /\ topic'[i] = m
    <3>1. /\ Len(topic') = Len(topic) + 1 /\ Len(topic) \in Nat
          /\ \A i \in 1 .. Len(topic') : topic'[i] = IF i = Len(topic) + 1 THEN msg ELSE topic[i]
      BY <1>0, <2>3, AppendProperties
    <3> QED BY <1>1, <2>3, <3>1
  <2> QED BY <2>1, <2>2, <2>3
<1> QED
  <2> SUFFICES ASSUME NEW i \in 1 .. Len(topic') PROVE InOrder(topic[i])'
    BY DEF TopicInOrder
  <2>1. PICK msg \in Message : InOrder(msg) /\ topic'[i] = msg
    BY <1>2
  <2>2. InOrder(msg)'
    BY <2>1, OrderKept
  <2> QED BY <2>1, <2>2 DEF InOrder, PredEnded

\* The chain.
LEMMA ChainKept ==
    ASSUME Shape, StartsInOrder, EndedStays,
           \A p \in Phases :
               \/ chain'[p] = chain[p] \/ chain'[p] = Idle
               \/ chain'[p] = ToOpen /\ PredEnded(p)'
               \/ \E job \in Payload : chain'[p] = ToSchedule(job) /\ job.state = "END"
    PROVE ChainInOrder'
<1> SUFFICES ASSUME NEW p \in Phases
             PROVE /\ chain'[p] = ToOpen => PredEnded(p)'
                   /\ \A job \in Payload : chain'[p] = ToSchedule(job) => InOrder(job)'
  BY DEF ChainInOrder
<1>1. CASE chain'[p] = chain[p]
  BY <1>1, OrderKept DEF StartsInOrder, ChainInOrder
<1>2. CASE chain'[p] = Idle \/ (chain'[p] = ToOpen /\ PredEnded(p)')
  BY <1>2 DEF Idle, ToOpen, ToSchedule
<1>3. ASSUME NEW job \in Payload, chain'[p] = ToSchedule(job), job.state = "END"
      PROVE /\ chain'[p] # ToOpen
            /\ \A j \in Payload : chain'[p] = ToSchedule(j) => InOrder(j)'
  BY <1>3 DEF ToOpen, ToSchedule, InOrder
<1> QED BY <1>1, <1>2, <1>3

\* One handler, whose state does not change.
LEMMA HandlerKept ==
    ASSUME Shape, EndedStays, NEW handler \in Procs, HandlerInOrder(handler)
    PROVE HandlerInOrder(handler)'
<1>1. /\ handler.kind \in {"overdue", "reviews"} => handler.plan \subseteq Payload
      /\ handler.kind \in {"read", "scan"} => handler.wants \subseteq Payload
      /\ handler.kind = "produce" => handler.due \subseteq Message
  BY DEF Procs, Idle
<1> QED BY <1>1, OrderKept DEF HandlerInOrder

\* All handlers.
LEMMA ProcKept ==
    ASSUME Shape, Shape', StartsInOrder, EndedStays,
           \A c \in Callers : proc'[c] = proc[c] \/ HandlerInOrder(proc'[c])
    PROVE ProcInOrder'
<1> SUFFICES ASSUME NEW c \in Callers PROVE HandlerInOrder(proc[c])'
  BY DEF ProcInOrder
<1>1. PICK handler \in Procs : proc'[c] = handler
  BY DEF Shape, TypeOK
<1>2. HandlerInOrder(handler)
  BY <1>1 DEF StartsInOrder, ProcInOrder
<1>3. HandlerInOrder(handler)'
  BY <1>2, HandlerKept
<1> QED BY <1>1, <1>3 DEF HandlerInOrder, InOrder, PredEnded

-----------------------------------------------------------------------------
(* What is planned is in order *)

\* Every plan drawn from one reading of the rows is in order.
LEMMA PlansInOrder ==
    ASSUME Shape
    PROVE /\ \A job \in Plan : InOrder(job)
          /\ \A job \in {Start(p) : p \in Startable} \cup {End(p) : p \in Open} : InOrder(job)
          /\ \A msg \in Due : InOrder(msg)
          /\ HandlerInOrder(Update)
          /\ \A due \in SUBSET Due : HandlerInOrder(Producing(due))
          /\ HandlerInOrder(Idle) /\ HandlerInOrder(Removing)
<1>1. /\ \A p \in Startable : InOrder(Start(p))
      /\ \A p \in Phases : InOrder(End(p))
  BY DEF Startable, InOrder, Start, End
<1>2. Startable \subseteq Phases /\ Open \subseteq Phases
  BY DEF Startable, Open
<1>3. \A job \in Plan : InOrder(job)
  BY <1>1, <1>2 DEF Plan
<1>4. \A job \in {Start(p) : p \in Startable} \cup {End(p) : p \in Open} : InOrder(job)
  BY <1>1, <1>2
<1>5. \A msg \in Due : InOrder(msg)
  BY DEF Due, InOrder, Startable
<1>6. HandlerInOrder(Update)
  BY <1>3 DEF HandlerInOrder, Update
<1>7. \A due \in SUBSET Due : HandlerInOrder(Producing(due))
  BY <1>5 DEF HandlerInOrder, Producing, Idle
<1>8. HandlerInOrder(Idle) /\ HandlerInOrder(Removing)
  BY DEF HandlerInOrder, Removing, Idle
<1> QED BY <1>3, <1>4, <1>5, <1>6, <1>7, <1>8

\* Jobs are scheduled in order when what is scheduled is in order.
LEMMA BeginInOrder ==
    ASSUME Shape, Shape', StartsInOrder, EndedStays,
           NEW c \in Callers, NEW job \in Payload, InOrder(job),
           BeginReschedule(c, job) \/ BeginSchedule(c, job)
    PROVE QueueInOrder' /\ PlacingInOrder'
<1>1. \A q \in Phases : queue'[q] = queue[q] \/ queue'[q] = None
  BY BeginJobs, BeginFirstJobs
<1>2. placing' = placing \/ placing' = [placing EXCEPT ![c] = job]
  BY BeginJobs, BeginFirstJobs
<1>3. QueueInOrder'
  BY <1>1, OrderKept DEF StartsInOrder, QueueInOrder
<1>4. \A d \in Callers : placing'[d] = placing[d] \/ InOrder(placing'[d])
  <2>1. CASE placing' = [placing EXCEPT ![c] = job]
    <3>1. \A d \in Callers : placing'[d] = IF d = c THEN job ELSE placing[d]
      BY <2>1 DEF Shape, TypeOK, JobsTypeOK
    <3> QED BY <3>1
  <2> QED BY <1>2, <2>1
<1> QED BY <1>3, <1>4, PlacingKept

-----------------------------------------------------------------------------
(* Every action keeps the starts in order *)

\* Cancelling.
LEMMA CancelInOrder ==
    ASSUME Shape, StartsInOrder, EndedStays, NEW p \in Phases,
           CancelKnown(p) \/ UNCHANGED queue
    PROVE QueueInOrder'
<1>1. \A q \in Phases : queue'[q] = queue[q] \/ queue'[q] = None
  BY DEF CancelKnown, Cancelled, Shape, TypeOK, JobsTypeOK
<1> QED BY <1>1, OrderKept DEF StartsInOrder, QueueInOrder

\* The worker produces what its job says.
LEMMA WorkerInOrder ==
    ASSUME Shape, Shape', StartsInOrder, EndedStays, Worker PROVE StartsInOrder'
<1>0. PlacingInOrder' /\ ChainInOrder' /\ ProcInOrder'
  <2>1. UNCHANGED <<placing, chain, proc>>
    BY DEF Worker, RunStart, StartJob, RunFire, RunFinally, ForgetJob, RunComplete, CompleteJob, jobVars
  <2> QED BY <2>1, PlacingKept, ChainKept, ProcKept
<1>1. ASSUME NEW p \in Phases, RunStart(p) PROVE StartsInOrder'
  <2>1. queue[p] # None /\ queue' = [queue EXCEPT ![p].active = TRUE]
    BY <1>1 DEF RunStart, StartJob, Removable
  <2>2. queue[p] \in Job
    BY <2>1 DEF Shape, TypeOK, JobsTypeOK
  <2>3. \A q \in Phases : \/ queue'[q] = queue[q]
                          \/ queue[q] # None /\ queue'[q].state = queue[q].state
    BY <2>1, <2>2 DEF Shape, TypeOK, JobsTypeOK, Job
  <2>4. QueueInOrder'
    BY <2>3, OrderKept DEF StartsInOrder, QueueInOrder
  <2> QED BY <1>0, <1>1, <2>4, TopicKept DEF RunStart, StartsInOrder
<1>2. CASE RunFire
  <2> DEFINE msg == [phase |-> runner.phase, state |-> queue[runner.phase].state]
  <2>1. runner.phase \in Phases /\ queue[runner.phase] # None /\ queue[runner.phase] \in Job
    BY <1>2 DEF RunFire, Shape, TypeOK, JobsTypeOK, Idle, RunnerOwnsJob
  <2>2. msg \in Message /\ InOrder(msg)
    BY <2>1 DEF Message, Job, InOrder, StartsInOrder, QueueInOrder
  <2>3. UNCHANGED topic \/ topic' = Append(topic, msg)
    BY <1>2 DEF RunFire
  <2>4. QueueInOrder'
    BY <1>2, OrderKept DEF RunFire, jobVars, StartsInOrder, QueueInOrder
  <2> QED BY <1>0, <2>2, <2>3, <2>4, TopicKept DEF StartsInOrder
<1>3. CASE RunFinally
  <2>1. UNCHANGED <<queue, topic>>
    BY <1>3 DEF RunFinally, ForgetJob
  <2>2. QueueInOrder'
    BY <2>1, OrderKept DEF StartsInOrder, QueueInOrder
  <2> QED BY <1>0, <2>1, <2>2, TopicKept DEF StartsInOrder
<1>4. CASE RunComplete
  <2>1. UNCHANGED topic /\ \A q \in Phases : queue'[q] = queue[q] \/ queue'[q] = None
    BY <1>4 DEF RunComplete, CompleteJob, Shape, TypeOK, JobsTypeOK
  <2>2. QueueInOrder'
    BY <2>1, OrderKept DEF StartsInOrder, QueueInOrder
  <2> QED BY <1>0, <2>1, <2>2, TopicKept DEF StartsInOrder
<1> QED BY <1>1, <1>2, <1>3, <1>4 DEF Worker

\* The outcome of a message holds no transition.
LEMMA OutcomeInOrder ==
    ASSUME Shape, NEW msg, NEW outcome, Handled(msg, outcome)
    PROVE \A c \in Callers : proc'[c] = proc[c] \/ HandlerInOrder(proc'[c])
<1> DEFINE handled == [kind |-> "handled", phase |-> msg.phase, state |-> msg.state, outcome |-> outcome]
<1>1. HandlerInOrder(handled)
  BY DEF HandlerInOrder
<1>2. \A c \in Callers : proc'[c] = IF c = "consumer" THEN handled ELSE proc[c]
  BY DEF Handled, Shape, TypeOK
<1> QED BY <1>1, <1>2

\* The chain is handed phases whose predecessor has just ended.
LEMMA ClosedChain ==
    ASSUME Shape, NEW p \in Phases, CloseRow(p)
    PROVE \A q \in Phases : chain'[q] = chain[q] \/ (chain'[q] = ToOpen /\ PredEnded(q)')
BY DEF CloseRow, PredEnded, Shape, TypeOK

\* The handling of one transition message.
LEMMA HandlerStepInOrder ==
    ASSUME Shape, Shape', StartsInOrder, EndedStays,
           HandleStart \/ HandleEnd \/ DeferEnd \/ HandleFails
    PROVE StartsInOrder'
<1>1. Head(topic).phase \in Phases
  BY HeadType DEF HandleStart, HandleEnd, DeferEnd, HandleFails, Shape, Message
<1>2. UNCHANGED <<placing, topic>>
  BY DEF HandleStart, HandleEnd, DeferEnd, HandleFails, jobVars
<1>3. \A c \in Callers : proc'[c] = proc[c] \/ HandlerInOrder(proc'[c])
  BY OutcomeInOrder DEF HandleStart, HandleEnd, DeferEnd, HandleFails
<1>4. \A q \in Phases : chain'[q] = chain[q] \/ (chain'[q] = ToOpen /\ PredEnded(q)')
  BY <1>1, ClosedChain DEF HandleStart, HandleEnd, DeferEnd, HandleFails
<1>5. QueueInOrder'
  <2>1. CASE UNCHANGED queue
    BY <2>1, OrderKept DEF StartsInOrder, QueueInOrder
  <2>2. CASE DeferEnd
    <3> DEFINE job == [phase |-> Head(topic).phase, state |-> "END", date |-> Later(now + Delay)]
    <3>1. Added(job)
      BY <2>2 DEF DeferEnd
    <3>2. now + Delay \in Nat
      BY SchedulerAssumption, JobsAssumption DEF SchedulerAssumption, JobsAssumption, Shape, TypeOK, Time
    <3>3. job \in Payload
      BY <1>1, <3>2, LaterType DEF Payload
    <3>4. job.state = "END"
      OBVIOUS
    <3> HIDE DEF job
    <3>5. \A q \in Phases : queue'[q] = queue[q] \/ (queue'[q] # None /\ queue'[q].state = "END")
      BY <3>1, <3>3, <3>4, AddJobs
    <3> QED BY <3>5, OrderKept DEF StartsInOrder, QueueInOrder
  <2> QED BY <2>1, <2>2 DEF HandleStart, HandleEnd, HandleFails, jobVars
<1> QED BY <1>2, <1>3, <1>4, <1>5, PlacingKept, TopicKept, ChainKept, ProcKept DEF StartsInOrder

\* The clean-up after it, and the commit.
LEMMA CommitInOrder ==
    ASSUME Shape, Shape', StartsInOrder, EndedStays, Commit \/ CommitFails PROVE StartsInOrder'
<1>1. Cleaned /\ proc["consumer"] \in Procs
  BY SchedulerAssumption DEF Commit, CommitFails, Shape, TypeOK, SchedulerAssumption
<1>2. proc["consumer"].phase \in Phases
  BY <1>1 DEF Cleaned, Procs, Idle
<1>3. QueueInOrder'
  BY <1>1, <1>2, CancelInOrder DEF Cleaned
<1>4. topic # <<>>
  BY <1>1 DEF Cleaned, Shape, ConsumerInput
<1>5. TopicInOrder'
  BY <1>4, TopicKept DEF Commit, CommitFails
<1>6. \A c \in Callers : proc'[c] = proc[c] \/ proc'[c] = Idle
  BY <1>1 DEF Cleaned, Shape, TypeOK
<1>7. \A c \in Callers : proc'[c] = proc[c] \/ HandlerInOrder(proc'[c])
  BY <1>6, PlansInOrder
<1> QED BY <1>1, <1>3, <1>5, <1>7, PlacingKept, ChainKept, ProcKept DEF Cleaned, StartsInOrder

\* The chain schedules the end of what it opens.
LEMMA ChainStepInOrder ==
    ASSUME Shape, Shape', StartsInOrder, EndedStays, Chain PROVE StartsInOrder'
<1>1. PICK p \in Phases : ChainOpen(p) \/ ChainSchedule(p)
  BY DEF Chain
<1>2. UNCHANGED <<topic, proc>>
  BY <1>1 DEF ChainOpen, ChainSchedule
<1>3. CASE ChainOpen(p)
  <2>1. End(p)' \in Payload /\ End(p)'.state = "END"
    BY DEF End, Payload, Shape, TypeOK
  <2>2. \/ chain' = [chain EXCEPT ![p] = ToSchedule(End(p)')]
        \/ chain' = [chain EXCEPT ![p] = Idle]
    BY <1>3 DEF ChainOpen, ToSchedule
  <2>3. \A q \in Phases : \/ chain'[q] = chain[q] \/ chain'[q] = Idle
                          \/ chain'[q] = ToSchedule(End(p)')
    BY <2>2 DEF Shape, TypeOK
  <2>4. ChainInOrder'
    BY <2>1, <2>3, ChainKept
  <2>5. UNCHANGED <<queue, placing>>
    BY <1>3 DEF ChainOpen, jobVars
  <2>6. QueueInOrder'
    BY <2>5, OrderKept DEF StartsInOrder, QueueInOrder
  <2> QED BY <1>2, <2>4, <2>5, <2>6, PlacingKept, TopicKept, ProcKept DEF StartsInOrder
<1>4. CASE ChainSchedule(p)
  <2>1. PICK job \in Payload : chain[p] = ToSchedule(job)
    BY <1>4 DEF ChainSchedule, Shape, TypeOK, ToOpen, Idle
  <2>2. InOrder(job)
    BY <2>1 DEF StartsInOrder, ChainInOrder
  <2>3. BeginReschedule("chain", job) /\ "chain" \in Callers
    BY <1>4, <2>1, SchedulerAssumption DEF ChainSchedule, ToSchedule, SchedulerAssumption
  <2>4. QueueInOrder' /\ PlacingInOrder'
    BY <2>2, <2>3, BeginInOrder
  <2>5. \A q \in Phases : chain'[q] = chain[q] \/ chain'[q] = Idle
    BY <1>4 DEF ChainSchedule, Shape, TypeOK
  <2>6. ChainInOrder'
    BY <2>5, ChainKept
  <2> QED BY <1>2, <2>4, <2>6, TopicKept, ProcKept DEF StartsInOrder
<1> QED BY <1>1, <1>3, <1>4

\* The update handler schedules a plan, however old.
LEMMA UpdatingInOrder ==
    ASSUME Shape, Shape', StartsInOrder, EndedStays, NEW c \in Updaters, Updating(c)
    PROVE StartsInOrder'
<1>0. c \in Callers /\ proc \in [Callers -> Procs]
  BY SchedulerAssumption DEF Updaters, SchedulerAssumption, Shape, TypeOK
<1>1. UNCHANGED topic
  BY DEF Updating, UpdateClose, UpdateReviews, UpdateReload, UpdateSchedule, UpdateEnd
<1>2. \A handler : proc' = [proc EXCEPT ![c] = handler] /\ HandlerInOrder(handler) => ProcInOrder'
  <2> SUFFICES ASSUME NEW handler, proc' = [proc EXCEPT ![c] = handler], HandlerInOrder(handler)
               PROVE ProcInOrder'
    OBVIOUS
  <2>1. \A d \in Callers : proc'[d] = IF d = c THEN handler ELSE proc[d]
    BY <1>0
  <2>2. \A d \in Callers : proc'[d] = proc[d] \/ HandlerInOrder(proc'[d])
    BY <2>1
  <2> QED BY <2>2, ProcKept
<1>3. Closing(c) => \A job \in proc[c].plan : InOrder(job)
  BY <1>0 DEF StartsInOrder, ProcInOrder, HandlerInOrder, Closing
<1>4. UNCHANGED <<queue, placing, chain>> => QueueInOrder' /\ PlacingInOrder' /\ ChainInOrder'
  BY OrderKept, PlacingKept, ChainKept DEF StartsInOrder, QueueInOrder
<1>5. ASSUME NEW p \in Phases, UpdateClose(c, p) PROVE StartsInOrder'
  <2> DEFINE closed == stage[p] = "open" /\ p \notin pending
             handler == [proc[c] EXCEPT !.closes = @ \ {p}, !.reload = @ \/ closed]
  <2>1. proc[c] \in [kind : {"overdue", "reviews"}, closes : SUBSET Phases,
                     reviews : SUBSET Phases, plan : SUBSET Payload, reload : BOOLEAN]
    BY <1>0, <1>5, ClosingType DEF UpdateClose, Shape
  <2>2. handler.kind = proc[c].kind /\ handler.plan = proc[c].plan
    BY <2>1
  <2>3. proc' = [proc EXCEPT ![c] = handler]
    BY <1>0, <1>5 DEF UpdateClose
  <2> HIDE DEF handler
  <2>4. HandlerInOrder(handler)
    BY <1>3, <1>5, <2>2 DEF HandlerInOrder, UpdateClose, Closing
  <2>5. QueueInOrder' /\ UNCHANGED placing
    BY <1>5, CancelInOrder DEF UpdateClose
  <2>6. \A q \in Phases : chain'[q] = chain[q] \/ (chain'[q] = ToOpen /\ PredEnded(q)')
    BY <1>5, ClosedChain DEF UpdateClose
  <2> QED BY <1>1, <1>2, <2>3, <2>4, <2>5, <2>6, PlacingKept, TopicKept, ChainKept DEF StartsInOrder
<1>6. CASE UpdateReviews(c) \/ UpdateReload(c)
  <2>1. \E handler : /\ proc' = [proc EXCEPT ![c] = handler]
                     /\ handler.kind = "reviews"
                     /\ handler.plan = Plan \/ handler.plan = proc[c].plan
    <3>1. CASE UpdateReviews(c)
      <4> DEFINE handler == [kind |-> "reviews",
                             closes |-> IF proc[c].reload THEN OpenGuarded ELSE proc[c].reviews,
                             reviews |-> proc[c].reviews,
                             plan |-> IF proc[c].reload THEN Plan ELSE proc[c].plan,
                             reload |-> FALSE]
      <4>1. proc' = [proc EXCEPT ![c] = handler]
        BY <1>0, <3>1 DEF UpdateReviews
      <4>2. handler.kind = "reviews" /\ (handler.plan = Plan \/ handler.plan = proc[c].plan)
        OBVIOUS
      <4> QED BY <4>1, <4>2
    <3>2. CASE UpdateReload(c)
      <4> DEFINE handler == [proc[c] EXCEPT !.plan = Plan, !.reload = FALSE]
      <4>1. proc[c] \in [kind : {"overdue", "reviews"}, closes : SUBSET Phases,
                         reviews : SUBSET Phases, plan : SUBSET Payload, reload : BOOLEAN]
        BY <1>0, <3>2, ClosingType DEF UpdateReload, Shape, Closing
      <4>2. handler.kind = "reviews" /\ handler.plan = Plan
        BY <3>2, <4>1 DEF UpdateReload
      <4>3. proc' = [proc EXCEPT ![c] = handler]
        BY <1>0, <3>2 DEF UpdateReload
      <4> QED BY <4>2, <4>3
    <3> QED BY <1>6, <3>1, <3>2
  <2>2. PICK handler : /\ proc' = [proc EXCEPT ![c] = handler]
                       /\ handler.kind = "reviews"
                       /\ handler.plan = Plan \/ handler.plan = proc[c].plan
    BY <2>1
  <2>3. HandlerInOrder(handler)
    BY <1>3, <1>6, <2>2, PlansInOrder DEF HandlerInOrder, Closing, UpdateReviews, UpdateReload
  <2>4. UNCHANGED <<queue, placing, chain>>
    BY <1>6 DEF UpdateReviews, UpdateReload, jobVars
  <2> QED BY <1>1, <1>2, <1>4, <2>2, <2>3, <2>4, TopicKept DEF StartsInOrder
<1>7. ASSUME NEW job \in Payload, UpdateSchedule(c, job) PROVE StartsInOrder'
  <2> DEFINE handler == [proc[c] EXCEPT !.plan = @ \ {job}]
  <2>1. proc[c] \in [kind : {"overdue", "reviews"}, closes : SUBSET Phases,
                     reviews : SUBSET Phases, plan : SUBSET Payload, reload : BOOLEAN]
    BY <1>0, <1>7, ClosingType DEF UpdateSchedule, Scheduling, Shape, Closing
  <2>2. handler.kind = "reviews" /\ handler.plan \subseteq proc[c].plan
    BY <1>7, <2>1 DEF UpdateSchedule, Scheduling
  <2>3. proc' = [proc EXCEPT ![c] = handler]
    BY <1>0, <1>7 DEF UpdateSchedule
  <2> HIDE DEF handler
  <2>4. \A j \in proc[c].plan : InOrder(j)
    BY <1>3, <1>7 DEF UpdateSchedule, Scheduling, Closing
  <2>5. HandlerInOrder(handler)
    BY <2>2, <2>4 DEF HandlerInOrder
  <2>6. InOrder(job)
    BY <1>7, <2>4 DEF UpdateSchedule
  <2>7. QueueInOrder' /\ PlacingInOrder'
    BY <1>0, <1>7, <2>6, BeginInOrder DEF UpdateSchedule
  <2>8. ChainInOrder'
    BY <1>7, ChainKept DEF UpdateSchedule
  <2> QED BY <1>1, <1>2, <2>3, <2>5, <2>7, <2>8, TopicKept DEF StartsInOrder
<1>8. CASE UpdateEnd(c)
  <2>1. UNCHANGED <<queue, placing, chain>>
    BY <1>8 DEF UpdateEnd, jobVars
  <2>2. ProcInOrder'
    BY <1>2, <1>8, PlansInOrder DEF UpdateEnd
  <2> QED BY <1>1, <1>4, <2>1, <2>2, TopicKept DEF StartsInOrder
<1> QED BY <1>5, <1>6, <1>7, <1>8 DEF Updating

\* So does the synchronisation.
LEMMA SyncInOrder ==
    ASSUME Shape, Shape', StartsInOrder, EndedStays, Sync PROVE StartsInOrder'
<1>0. "sync" \in Callers /\ proc \in [Callers -> Procs] /\ HandlerInOrder(proc["sync"])
  BY SchedulerAssumption DEF SchedulerAssumption, Shape, TypeOK, StartsInOrder, ProcInOrder
<1>1. UNCHANGED <<topic, chain>>
  BY DEF Sync, SyncRead, SyncKeys, SyncScanned, SyncSchedule, SyncRemove
<1>2. \A handler : proc' = [proc EXCEPT !["sync"] = handler] /\ HandlerInOrder(handler) => ProcInOrder'
  <2> SUFFICES ASSUME NEW handler, proc' = [proc EXCEPT !["sync"] = handler], HandlerInOrder(handler)
               PROVE ProcInOrder'
    OBVIOUS
  <2>1. \A d \in Callers : proc'[d] = IF d = "sync" THEN handler ELSE proc[d]
    BY <1>0
  <2>2. \A d \in Callers : proc'[d] = proc[d] \/ HandlerInOrder(proc'[d])
    BY <2>1
  <2> QED BY <2>2, ProcKept
<1>3. UNCHANGED <<queue, placing>> => QueueInOrder' /\ PlacingInOrder'
  BY OrderKept, PlacingKept DEF StartsInOrder, QueueInOrder
<1>4. CASE SyncRead
  <2> DEFINE handler == [kind |-> "read", replay |-> OpenGuarded # {},
                         wants |-> {Start(p) : p \in Startable} \cup {End(p) : p \in Open}]
  <2>1. HandlerInOrder(handler)
    BY PlansInOrder DEF HandlerInOrder
  <2>2. proc' = [proc EXCEPT !["sync"] = handler] /\ UNCHANGED <<queue, placing>>
    BY <1>4 DEF SyncRead, jobVars
  <2> HIDE DEF handler
  <2> QED BY <1>1, <1>2, <1>3, <2>1, <2>2, TopicKept, ChainKept DEF StartsInOrder
<1>5. CASE SyncKeys
  <2> DEFINE handler == [proc["sync"] EXCEPT !.kind = "scan"]
  <2>1. handler.kind = "scan" /\ handler.wants = proc["sync"].wants
    BY <1>0, <1>5 DEF SyncKeys, Procs, Idle
  <2>2. proc' = [proc EXCEPT !["sync"] = handler] /\ UNCHANGED <<queue, placing>>
    BY <1>0, <1>5 DEF SyncKeys, jobVars
  <2> HIDE DEF handler
  <2>3. HandlerInOrder(handler)
    BY <1>0, <1>5, <2>1 DEF SyncKeys, HandlerInOrder
  <2> QED BY <1>1, <1>2, <1>3, <2>2, <2>3, TopicKept, ChainKept DEF StartsInOrder
<1>6. CASE SyncScanned
  <2> DEFINE handler == IF proc["sync"].replay THEN Update ELSE Removing
  <2>1. proc' = [proc EXCEPT !["sync"] = handler] /\ UNCHANGED <<queue, placing>>
    BY <1>0, <1>6 DEF SyncScanned, jobVars
  <2>2. HandlerInOrder(handler)
    BY PlansInOrder
  <2> HIDE DEF handler
  <2> QED BY <1>1, <1>2, <1>3, <2>1, <2>2, TopicKept, ChainKept DEF StartsInOrder
<1>7. ASSUME NEW job \in Payload, SyncSchedule(job) PROVE StartsInOrder'
  <2> DEFINE handler == [proc["sync"] EXCEPT !.wants = @ \ {job}]
  <2>1. handler.kind = "scan" /\ handler.wants \subseteq proc["sync"].wants
    BY <1>0, <1>7 DEF SyncSchedule, Procs, Idle
  <2>2. proc' = [proc EXCEPT !["sync"] = handler]
    BY <1>0, <1>7 DEF SyncSchedule
  <2> HIDE DEF handler
  <2>3. HandlerInOrder(handler) /\ InOrder(job)
    BY <1>0, <1>7, <2>1 DEF SyncSchedule, HandlerInOrder
  <2>4. QueueInOrder' /\ PlacingInOrder'
    <3>1. CASE UNCHANGED jobVars
      BY <1>3, <3>1 DEF jobVars
    <3>2. CASE BeginReschedule("sync", job) \/ BeginSchedule("sync", job)
      BY <1>0, <2>3, <3>2, BeginInOrder
    <3> QED BY <1>7, <3>1, <3>2 DEF SyncSchedule
  <2> QED BY <1>1, <1>2, <2>2, <2>3, <2>4, TopicKept, ChainKept DEF StartsInOrder
<1>8. ASSUME NEW p \in Phases, SyncRemove(p) PROVE StartsInOrder'
  <2>1. QueueInOrder' /\ UNCHANGED placing
    BY <1>8, CancelInOrder DEF SyncRemove
  <2>2. \A d \in Callers : proc'[d] = IF d = "sync" THEN Removing' ELSE proc[d]
    BY <1>0, <1>8 DEF SyncRemove
  <2>3. HandlerInOrder(Removing')
    BY DEF HandlerInOrder, Removing, Idle
  <2>4. ProcInOrder'
    BY <2>2, <2>3, ProcKept
  <2> QED BY <1>1, <2>1, <2>4, PlacingKept, TopicKept, ChainKept DEF StartsInOrder
<1> QED BY <1>4, <1>5, <1>6, <1>7, <1>8 DEF Sync

\* The recovery, the crash, the environment and the adds.
LEMMA RestInOrder ==
    ASSUME Shape, Shape', StartsInOrder, EndedStays,
           \/ UpdateBegin \/ Recovery \/ RecoverFails \/ Crash \/ Environment
           \/ \E c \in Callers : Schedule(c)
    PROVE StartsInOrder'
<1>0. proc \in [Callers -> Procs] /\ {"recovery", "consumer"} \subseteq Callers
  BY SchedulerAssumption DEF Shape, TypeOK, SchedulerAssumption
<1>1. ASSUME UNCHANGED <<queue, placing>> PROVE QueueInOrder' /\ PlacingInOrder'
  BY <1>1, OrderKept, PlacingKept DEF StartsInOrder, QueueInOrder
<1>2. CASE UpdateBegin
  <2>1. \A d \in Callers : proc'[d] = proc[d] \/ proc'[d] = Update
    BY <1>0, <1>2 DEF UpdateBegin
  <2>2. \A d \in Callers : proc'[d] = proc[d] \/ HandlerInOrder(proc'[d])
    BY <2>1, PlansInOrder
  <2>3. UNCHANGED <<queue, placing, topic, chain>>
    BY <1>2 DEF UpdateBegin, jobVars
  <2> QED BY <1>1, <2>2, <2>3, TopicKept, ChainKept, ProcKept DEF StartsInOrder
<1>3. CASE Recover
  <2> DEFINE handler == IF OpenGuarded # {} THEN Update ELSE Producing(Due)
  <2>1. HandlerInOrder(handler)
    BY PlansInOrder
  <2>2. \A d \in Callers : proc'[d] = proc[d] \/ proc'[d] = handler
    BY <1>0, <1>3 DEF Recover
  <2> HIDE DEF handler
  <2>3. \A d \in Callers : proc'[d] = proc[d] \/ HandlerInOrder(proc'[d])
    BY <2>1, <2>2
  <2>4. UNCHANGED <<queue, placing, topic, chain>>
    BY <1>3 DEF Recover, jobVars
  <2> QED BY <1>1, <2>3, <2>4, TopicKept, ChainKept, ProcKept DEF StartsInOrder
<1>4. ASSUME NEW msg \in Message, RecoverSend(msg) PROVE StartsInOrder'
  <2> DEFINE rest == proc["recovery"].due \ {msg}
  <2>1. \A m \in proc["recovery"].due : InOrder(m)
    BY <1>0, <1>4 DEF RecoverSend, StartsInOrder, ProcInOrder, HandlerInOrder
  <2>2. InOrder(msg)
    BY <1>4, <2>1 DEF RecoverSend
  <2>3. HandlerInOrder(Producing(rest))
    BY <2>1 DEF HandlerInOrder, Producing, Idle
  <2>4. \A d \in Callers : proc'[d] = proc[d] \/ proc'[d] = Producing(rest)
    BY <1>0, <1>4 DEF RecoverSend
  <2> HIDE DEF rest
  <2>5. \A d \in Callers : proc'[d] = proc[d] \/ HandlerInOrder(proc'[d])
    BY <2>3, <2>4
  <2>6. UNCHANGED topic \/ topic' = Append(topic, msg)
    BY <1>4 DEF RecoverSend
  <2>7. UNCHANGED <<queue, placing, chain>>
    BY <1>4 DEF RecoverSend, jobVars
  <2> QED BY <1>1, <2>2, <2>5, <2>6, <2>7, TopicKept, ChainKept, ProcKept DEF StartsInOrder
<1>5. CASE RecoverFails
  <2>1. \A d \in Callers : proc'[d] = proc[d] \/ proc'[d] = Idle
    BY <1>0, <1>5 DEF RecoverFails
  <2>2. \A d \in Callers : proc'[d] = proc[d] \/ HandlerInOrder(proc'[d])
    BY <2>1, PlansInOrder
  <2>3. UNCHANGED <<queue, placing, topic, chain>>
    BY <1>5 DEF RecoverFails, jobVars
  <2> QED BY <1>1, <2>2, <2>3, TopicKept, ChainKept, ProcKept DEF StartsInOrder
<1>6. CASE Crash
  <2>1. \A q \in Phases : \/ queue'[q] = None
                          \/ queue[q] # None /\ queue'[q].state = queue[q].state
    <3> SUFFICES ASSUME NEW q \in Phases, queue[q] # None
                 PROVE queue'[q] = None \/ queue'[q].state = queue[q].state
      BY <1>6 DEF Crash, JobsCrash
    <3>1. queue[q] \in Job /\ queue'[q] = [queue[q] EXCEPT !.active = FALSE]
      BY <1>6 DEF Crash, JobsCrash, Shape, TypeOK, JobsTypeOK
    <3> QED BY <3>1 DEF Job
  <2>2. QueueInOrder'
    BY <2>1, OrderKept DEF StartsInOrder, QueueInOrder
  <2>3. PlacingInOrder'
    BY <1>6 DEF Crash, JobsCrash, PlacingInOrder
  <2>4. \A q \in Phases : chain'[q] = Idle
    BY <1>6 DEF Crash
  <2>5. \A d \in Callers : HandlerInOrder(proc'[d])
    BY <1>6, PlansInOrder DEF Crash
  <2> QED BY <1>6, <2>2, <2>3, <2>4, <2>5, TopicKept, ChainKept, ProcKept DEF Crash, StartsInOrder
<1>7. CASE Environment
  <2>1. UNCHANGED <<queue, placing, topic, chain, proc>>
    BY <1>7 DEF Environment, Tick, CompleteWork, EditEnd, jobVars
  <2> QED BY <1>1, <2>1, TopicKept, ChainKept, ProcKept DEF StartsInOrder
<1>8. ASSUME NEW c \in Callers, Schedule(c) PROVE StartsInOrder'
  <2>1. placing[c] \in Payload /\ InOrder(placing[c])
    BY <1>8 DEF Schedule, FinishSchedule, Shape, TypeOK, JobsTypeOK, StartsInOrder, PlacingInOrder
  <2>2. QueueInOrder'
    <3>1. \A q \in Phases : \/ queue'[q] = queue[q]
                            \/ /\ q = placing[c].phase
                               /\ queue'[q] # None /\ queue'[q].state = placing[c].state
      BY <1>8, <2>1, AddJobs DEF Schedule, FinishSchedule
    <3>2. placing[c].state = "START" => PredEnded(placing[c].phase)
      BY <2>1 DEF InOrder
    <3>3. \A q \in Phases : queue'[q] # queue[q] => (queue'[q].state = "START" => PredEnded(q))
      BY <3>1, <3>2
    <3> QED BY <3>3, OrderKept DEF StartsInOrder, QueueInOrder
  <2>3. PlacingInOrder'
    <3>1. \A d \in Callers : placing'[d] = placing[d] \/ placing'[d] = None
      BY <1>8 DEF Schedule, FinishSchedule, Shape, TypeOK, JobsTypeOK
    <3> QED BY <3>1, PlacingKept
  <2> QED BY <1>8, <2>2, <2>3, TopicKept, ChainKept, ProcKept DEF Schedule, StartsInOrder
<1> QED BY <1>2, <1>3, <1>4, <1>5, <1>6, <1>7, <1>8 DEF Recovery

LEMMA OrderInit == Init => StartsInOrder
<1> SUFFICES ASSUME Init PROVE StartsInOrder
  OBVIOUS
<1>1. QueueInOrder /\ PlacingInOrder /\ TopicInOrder
  BY DEF Init, JobsInit, QueueInOrder, PlacingInOrder, TopicInOrder
<1>2. ChainInOrder
  BY DEF Init, ChainInOrder, Idle, ToOpen, ToSchedule
<1>3. ProcInOrder
  BY DEF Init, ProcInOrder, HandlerInOrder, Idle
<1> QED BY <1>1, <1>2, <1>3 DEF StartsInOrder

LEMMA OrderStep == Shape /\ Shape' /\ StartsInOrder /\ [Next]_vars => StartsInOrder'
<1> SUFFICES ASSUME Shape, Shape', StartsInOrder, [Next]_vars PROVE StartsInOrder'
  OBVIOUS
<1>0. EndedStays
  BY StagesMove
<1>1. CASE UNCHANGED vars
  BY <1>0, <1>1, OrderKept, PlacingKept, TopicKept, ChainKept, ProcKept
     DEF vars, StartsInOrder, QueueInOrder
<1>2. CASE Worker \/ Chain \/ Sync
  BY <1>0, <1>2, WorkerInOrder, ChainStepInOrder, SyncInOrder
<1>3. CASE Consumer \/ HandleFails \/ CommitFails
  BY <1>0, <1>3, HandlerStepInOrder, CommitInOrder, RestInOrder DEF Consumer
<1>4. CASE \E c \in Updaters : Updating(c)
  BY <1>0, <1>4, UpdatingInOrder
<1>5. CASE Recovery \/ RecoverFails \/ Crash \/ Environment \/ \E c \in Callers : Schedule(c)
  BY <1>0, <1>5, RestInOrder
<1> QED BY <1>1, <1>2, <1>3, <1>4, <1>5 DEF Next

\* A step that opens a phase is a START message or the chain, and either is in order.
LEMMA OpensInOrder ==
    ASSUME Shape, StartsInOrder, [Next]_vars, NEW p \in Phases,
           stage[p] = "waiting", stage'[p] = "open"
    PROVE PredEnded(p)
<1>0. stage \in [Phases -> {"waiting", "open", "ended"}]
  BY DEF Shape, TypeOK
<1>1. \A q \in Phases : (OpenRow(q) => q = p) /\ ~CloseRow(q)
  BY <1>0 DEF OpenRow, CloseRow
<1>2. CASE HandleStart
  <2>1. topic # <<>> /\ topic \in Seq(Message)
    BY <1>2 DEF HandleStart, ConsumerReady, Shape, TypeOK
  <2>2. Head(topic).phase \in Phases
    BY <1>2, HeadType DEF HandleStart, Shape, Message
  <2>3. Head(topic).phase = p
    BY <1>1, <1>2, <2>2 DEF HandleStart, rowVars
  <2>4. Head(topic) = topic[1] /\ 1 \in 1 .. Len(topic)
    BY <2>1
  <2>5. InOrder(Head(topic))
    BY <2>4 DEF StartsInOrder, TopicInOrder
  <2> QED BY <1>2, <2>3, <2>5 DEF HandleStart, InOrder
<1>3. CASE Chain
  <2>1. PICK q \in Phases : ChainOpen(q) \/ ChainSchedule(q)
    BY <1>3 DEF Chain
  <2>2. q = p /\ chain[q] = ToOpen
    BY <1>1, <2>1 DEF ChainOpen, ChainSchedule, rowVars
  <2> QED BY <2>2 DEF StartsInOrder, ChainInOrder
<1>4. CASE ~HandleStart /\ ~Chain
  <2>1. UNCHANGED stage \/ \E q \in Phases : CloseRow(q)
    BY <1>4, SameOrClosed
  <2> QED BY <1>1, <2>1
<1> QED BY <1>2, <1>3, <1>4

\* No phase opens before its predecessor has ended, although the predecessor is
\* looked at only when a START is planned, and plans, jobs, messages and the
\* chain may be carried out any time later and in any order.
THEOREM AlwaysOpenedInOrder == Spec => OpenedInOrder
<1>1. Shape /\ StartsInOrder /\ [Next]_vars
      => [\A p \in Phases : stage[p] = "waiting" /\ stage'[p] = "open" => PredEnded(p)]_vars
  BY OpensInOrder
<1> QED BY <1>1, InitShape, NextShape, OrderInit, OrderStep, PTL DEF Spec, OpenedInOrder

-----------------------------------------------------------------------------
(* The life of the phases *)

Lifecycle == INSTANCE PhaseLifecycle WITH life <- stage, Scheduled <- Phases, PostMortems <- {}

\* The scheduler implements the life of PhaseLifecycle: whatever is scheduled
\* twice, replayed by the cron, redelivered or recovered after a crash, a phase
\* opens once and ends once.
THEOREM SchedulerImplementsLifecycle == Spec => Lifecycle!Spec
<1>1. Init => Lifecycle!Init
  BY DEF Init, Lifecycle!Init
<1>2. ASSUME Shape, Shape', [Next]_vars PROVE [Lifecycle!Next]_stage
  <2>1. stage \in [Phases -> {"waiting", "open", "ended"}]
        /\ stage' \in [Phases -> {"waiting", "open", "ended"}]
    BY <1>2 DEF Shape, TypeOK
  <2>2. UNCHANGED stage \/ \E p \in Phases : OpenRow(p) \/ CloseRow(p)
    BY <1>2, RowSteps
  <2>3. ASSUME NEW q \in Phases, NEW p \in Phases, OpenRow(p) \/ CloseRow(p)
        PROVE Lifecycle!Step(q)
    BY <2>1, <2>3 DEF OpenRow, CloseRow, Lifecycle!Step, Lifecycle!Moves
  <2>4. CASE \E p \in Phases : OpenRow(p) \/ CloseRow(p)
    BY <2>1, <2>3, <2>4 DEF Lifecycle!Next, Lifecycle!Stage
  <2> QED BY <2>2, <2>4
<1> QED BY <1>1, <1>2, InitShape, NextShape, PTL DEF Spec, Lifecycle!Spec
=============================================================================
