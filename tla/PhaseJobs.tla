------------------------------ MODULE PhaseJobs ------------------------------
(***************************************************************************)
(* The scheduled transitions of the phases of one challenge.  Each phase   *)
(* has one job id, and two records of its job that can disagree: the       *)
(* BullMQ queue in Redis, which survives a restart, and the scheduledJobs  *)
(* map of SchedulerService, which does not.  This module holds both and    *)
(* the operations SchedulerService and PhaseScheduleManager have on them;  *)
(* TransitionScheduler puts the program around it.                         *)
(***************************************************************************)
EXTENDS Naturals

CONSTANTS
    Phases,     \* the phases of the challenge
    Callers,    \* who may be between the two awaits of a schedule call
    Horizon,    \* bound: the last date; from then on everything is due
    None

Time == 0 .. Horizon

\* A transition as it is scheduled: PhaseTransitionPayload.
Payload == [phase : Phases, state : {"START", "END"}, date : Time]

\* A job in BullMQ; active while the queue worker runs it.
Job == [state : {"START", "END"}, date : Time, active : BOOLEAN]

ASSUME JobsAssumption ==
    /\ Horizon \in Nat
    /\ None \notin Payload \cup Job

VARIABLES
    registry,   \* registry[p]: the entry of p in scheduledJobs, or None
    queue,      \* queue[p]: the BullMQ job of p, or None
    placing     \* placing[c]: the payload c has cancelled for but not yet added, or None

jobVars == <<registry, queue, placing>>

JobsTypeOK ==
    /\ registry \in [Phases -> Payload \cup {None}]
    /\ queue \in [Phases -> Job \cup {None}]
    /\ placing \in [Callers -> Payload \cup {None}]

JobsInit ==
    /\ registry = [p \in Phases |-> None]
    /\ queue = [p \in Phases |-> None]
    /\ placing = [c \in Callers |-> None]

-----------------------------------------------------------------------------
\* BullMQ removes a job unless the worker has locked it.
Removable(p) == queue[p] # None /\ ~queue[p].active

\* cancelScheduledTransition: the registry entry goes only with the job.  When
\* there is no job, or it is active, the call returns false and changes nothing.
Cancelled(p) ==
    IF Removable(p)
    THEN /\ queue' = [queue EXCEPT ![p] = None]
         /\ registry' = [registry EXCEPT ![p] = None]
    ELSE UNCHANGED <<queue, registry>>

\* cancelPhaseTransition: nothing to do for a phase the registry does not know.
CancelKnown(p) ==
    IF registry[p] # None THEN Cancelled(p) ELSE UNCHANGED <<queue, registry>>

\* SchedulerService.schedulePhaseTransition: BullMQ ignores an add whose job id
\* exists in any state, and the registry takes the payload all the same.
Added(job) ==
    /\ queue' = IF queue[job.phase] = None
                THEN [queue EXCEPT ![job.phase] =
                        [state |-> job.state, date |-> job.date, active |-> FALSE]]
                ELSE queue
    /\ registry' = [registry EXCEPT ![job.phase] = job]

\* PhaseScheduleManager.schedulePhaseTransition, up to the await of the add.
BeginSchedule(c, job) ==
    /\ placing[c] = None
    /\ CancelKnown(job.phase)
    /\ placing' = [placing EXCEPT ![c] = job]

\* The rest of it.
FinishSchedule(c) ==
    /\ placing[c] # None
    /\ Added(placing[c])
    /\ placing' = [placing EXCEPT ![c] = None]

\* reschedulePhaseTransition leaves the schedule alone when the registry
\* already holds the date, whatever the state it holds.
Unchanged(job) == registry[job.phase] # None /\ registry[job.phase].date = job.date

BeginReschedule(c, job) ==
    IF Unchanged(job)
    THEN placing[c] = None /\ UNCHANGED jobVars
    ELSE BeginSchedule(c, job)

-----------------------------------------------------------------------------
(* The queue worker *)

\* The delay of a job is over; concurrency is 1, so no other job is active.
StartJob(p, now) ==
    /\ Removable(p)
    /\ queue[p].date <= now
    /\ \A q \in Phases : queue[q] # None => ~queue[q].active
    /\ queue' = [queue EXCEPT ![p].active = TRUE]
    /\ UNCHANGED <<registry, placing>>

\* The finally block of runScheduledTransition.
ForgetJob(p) ==
    /\ registry' = [registry EXCEPT ![p] = None]
    /\ UNCHANGED <<queue, placing>>

\* The processor has returned: removeOnComplete.
CompleteJob(p) ==
    /\ queue' = [queue EXCEPT ![p] = None]
    /\ UNCHANGED <<registry, placing>>

\* The process dies: memory is lost, a job that was active is run again.
JobsCrash ==
    /\ registry' = [p \in Phases |-> None]
    /\ placing' = [c \in Callers |-> None]
    /\ queue' = [p \in Phases |->
                   IF queue[p] = None THEN None ELSE [queue[p] EXCEPT !.active = FALSE]]
=============================================================================
