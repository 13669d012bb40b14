----------------------------- MODULE PhaseStore -----------------------------
(***************************************************************************)
(* The challenge record of one challenge as ChallengeApiService reads and  *)
(* writes it: its status, its phase rows and Challenge.currentPhaseNames.  *)
(*                                                                         *)
(* Every caller of the service (scheduler, phase chain, approval loop,     *)
(* completion) is a worker.  advancePhase reads the challenge, awaits, and *)
(* commits a conditional transaction; the creation transactions that take  *)
(* no lock read first and write later; createPostMortemPhase locks the     *)
(* challenge row, so it is one step.  Workers interleave between those     *)
(* steps, and the process may die between them.                            *)
(***************************************************************************)
EXTENDS Naturals, FiniteSets

CONSTANTS
    Phases,        \* challenge-phase ids: the launched rows and the unused ids
    Scheduled,     \* the rows the challenge is launched with
    Names,         \* phase names
    NameOf,        \* NameOf[p]: the name of row p
    Order,         \* Order[p]: the position of row p by scheduledStartDate
    PostMortem,    \* the Post-Mortem name
    Approval,      \* the Approval name
    Continuations, \* the names createContinuationPhase is called with
    Bases,         \* the names of the phases whose closing may call for a Post-Mortem:
                   \* Registration, Submission and Screening
    Workers,       \* concurrent callers of ChallengeApiService
    Operations,    \* the operations this instance makes
    MaxCalls       \* bound: how many calls are started

ASSUME StoreAssumption ==
    /\ Scheduled \subseteq Phases
    /\ NameOf \in [Phases -> Names]
    /\ Order \in [Phases -> Nat]
    /\ PostMortem \in Names /\ Approval \in Names /\ Approval # PostMortem
    /\ Continuations \subseteq Names \ {PostMortem}
    /\ Bases \subseteq Names \ {PostMortem}
    /\ MaxCalls \in Nat

VARIABLES
    status,    \* Challenge.status
    rows,      \* rows[p]: the challenge-phase row p
    names,     \* Challenge.currentPhaseNames
    call,      \* call[w]: what the call of worker w has read, or NoCall
    opened,    \* opened[p]: how many advancePhase(open) calls reported success
    closed,    \* closed[p]: how many advancePhase(close) calls reported success
    calls      \* calls started so far

vars == <<status, rows, names, call, opened, closed, calls>>

Statuses == {"ACTIVE", "COMPLETED", "CANCELLED"}

Row == [presence : {"unborn", "present", "deleted"},
        isOpen : BOOLEAN, started : BOOLEAN, ended : BOOLEAN]

RowOf(presence, isOpen, started, ended) ==
    [presence |-> presence, isOpen |-> isOpen, started |-> started, ended |-> ended]

NoRow      == RowOf("unborn", FALSE, FALSE, FALSE)
WaitingRow == RowOf("present", FALSE, FALSE, FALSE)
OpenRow    == RowOf("present", TRUE, TRUE, FALSE)
EndedRow   == RowOf("present", FALSE, TRUE, TRUE)
DeletedRow == RowOf("deleted", FALSE, FALSE, FALSE)

NoCall == [kind |-> "none"]

Calls ==
    {NoCall}
    \cup [kind : {"advance"}, op : {"open", "close"}, phase : Phases, names : SUBSET Names]
    \cup [kind : {"preserve"}, approvals : SUBSET Phases, reuse : BOOLEAN, names : SUBSET Names]
    \cup [kind : {"continue"}, name : Continuations, names : SUBSET Names]
    \cup [kind : {"finish"}, status : Statuses \ {"ACTIVE"}]

-----------------------------------------------------------------------------
Present == {p \in Phases : rows[p].presence = "present"}
PostMortems == {p \in Phases : NameOf[p] = PostMortem}

Fresh(name) == {p \in Phases : rows[p].presence = "unborn" /\ NameOf[p] = name}

Idle(w) == call[w] = NoCall

\* Worker w starts a call of the given kind.
Begin(w, kind) ==
    /\ Idle(w)
    /\ kind \in Operations
    /\ calls < MaxCalls
    /\ calls' = calls + 1

Return(w) == call' = [call EXCEPT ![w] = NoCall]

Init ==
    /\ status = "ACTIVE"
    /\ rows = [p \in Phases |-> IF p \in Scheduled THEN WaitingRow ELSE NoRow]
    /\ names = {}
    /\ call = [w \in Workers |-> NoCall]
    /\ opened = [p \in Phases |-> 0]
    /\ closed = [p \in Phases |-> 0]
    /\ calls = 0

-----------------------------------------------------------------------------
(* advancePhase *)

\* The guards on the phase row, evaluated on the challenge that was read.
OpenAllowed(p) == ~rows[p].isOpen /\ ~rows[p].ended
CloseAllowed(p) == rows[p].isOpen

\* The call reads the challenge and passes its guards.  A refusal (status not
\* ACTIVE, phase missing, already open, completed or closed, AI decisions
\* pending, screener missing) changes nothing and is not a step.
AdvanceRead(w, p, op) ==
    /\ Begin(w, "advance")
    /\ status = "ACTIVE"
    /\ p \in Present
    /\ \/ op = "open" /\ OpenAllowed(p)
       \/ op = "close" /\ CloseAllowed(p)
    /\ call' = [call EXCEPT ![w] =
                  [kind |-> "advance", op |-> op, phase |-> p, names |-> names]]
    /\ UNCHANGED <<status, rows, names, opened, closed>>

\* Mutants: the WHERE clauses without actualEndDate IS NULL (the state before
\* PM-6308) and without isOpen.
OpenMatchesEnded(p) == p \in Present /\ ~rows[p].isOpen
CloseMatchesAny(p) == p \in Present

\* The WHERE clause of each updateMany, evaluated when the transaction runs.
OpenMatches(p) == p \in Present /\ ~rows[p].isOpen /\ ~rows[p].ended
CloseMatches(p) == p \in Present /\ rows[p].isOpen

\* The open transaction: currentPhaseNames is written from the set read before.
AdvanceOpen(w) ==
    /\ call[w].kind = "advance" /\ call[w].op = "open"
    /\ LET p == call[w].phase IN
         /\ OpenMatches(p)
         /\ rows' = [rows EXCEPT ![p].isOpen = TRUE, ![p].started = TRUE, ![p].ended = FALSE]
         /\ names' = call[w].names \cup {NameOf[p]}
         /\ opened' = [opened EXCEPT ![p] = @ + 1]
    /\ Return(w)
    /\ UNCHANGED <<status, closed, calls>>

\* The close transaction.
AdvanceClose(w) ==
    /\ call[w].kind = "advance" /\ call[w].op = "close"
    /\ LET p == call[w].phase IN
         /\ CloseMatches(p)
         /\ rows' = [rows EXCEPT ![p].isOpen = FALSE, ![p].ended = TRUE]
         /\ names' = call[w].names \ {NameOf[p]}
         /\ closed' = [closed EXCEPT ![p] = @ + 1]
    /\ Return(w)
    /\ UNCHANGED <<status, opened, calls>>

\* The update matched no row, or the transaction failed: success is false.
AdvanceFails(w) ==
    /\ call[w].kind = "advance"
    /\ Return(w)
    /\ UNCHANGED <<status, rows, names, opened, closed, calls>>

-----------------------------------------------------------------------------
(* createPostMortemPhase: under the lock of the challenge row *)

LaterThan(base) == {p \in Present : Order[p] > Order[base]}

\* The rows that remain once the phases after base are deleted.
Pruned(base) ==
    [p \in Phases |-> IF p \in LaterThan(base) \ PostMortems THEN DeletedRow ELSE rows[p]]

\* Mutant: an existing Post-Mortem is not looked for.
AlwaysFresh(base) == Fresh(PostMortem)

\* The Post-Mortem rows the transaction may work on: the first existing one
\* after base, or a fresh id when there is none.
PostMortemTarget(base) ==
    LET existing == LaterThan(base) \cap PostMortems IN
    IF existing # {}
    THEN {p \in existing : \A q \in existing : Order[p] <= Order[q]}
    ELSE Fresh(PostMortem)

\* The handlers of a closed Registration, Submission or Screening phase call it.
CreatePostMortem(w, base) ==
    /\ Begin(w, "postMortem")
    /\ base \in Present /\ NameOf[base] \in Bases /\ rows[base].ended
    /\ \E pm \in PostMortemTarget(base) : rows' = [Pruned(base) EXCEPT ![pm] = OpenRow]
    /\ names' = {PostMortem}
    /\ UNCHANGED <<status, call, opened, closed>>

-----------------------------------------------------------------------------
(* createPostMortemPhasePreserving(..., openImmediately = true): no lock *)

\* Mutant: the names are collected instead of the ids.
ApprovalNames == {NameOf[p] : p \in {q \in Present : NameOf[q] = Approval}}

UnfinishedApprovals ==
    {p \in Present : NameOf[p] = Approval /\ (rows[p].isOpen \/ ~rows[p].ended)}

PreserveRead(w) ==
    /\ Begin(w, "preserve")
    /\ Present # {}
    /\ call' = [call EXCEPT ![w] =
          [kind |-> "preserve",
           approvals |-> UnfinishedApprovals,
           reuse |-> Present \cap PostMortems # {},
           names |-> names]]
    /\ UNCHANGED <<status, rows, names, opened, closed>>

\* Mutant: the approvals are closed without an actualEndDate.
ApprovalsUndated(w) ==
    [p \in Phases |-> IF p \in Present \cap call[w].approvals
                      THEN RowOf("present", FALSE, TRUE, FALSE) ELSE rows[p]]

\* updateMany has no condition on the state of the approvals it closes.
ApprovalsClosed(w) ==
    [p \in Phases |-> IF p \in Present \cap call[w].approvals THEN EndedRow ELSE rows[p]]

\* An existing Post-Mortem is returned before currentPhaseNames is written.
PreserveReuse(w) ==
    /\ call[w].kind = "preserve" /\ call[w].reuse
    /\ rows' = ApprovalsClosed(w)
    /\ Return(w)
    /\ UNCHANGED <<status, names, opened, closed, calls>>

PreserveCreate(w) ==
    /\ call[w].kind = "preserve" /\ ~call[w].reuse
    /\ \E pm \in Fresh(PostMortem) : rows' = [ApprovalsClosed(w) EXCEPT ![pm] = OpenRow]
    /\ names' = (IF call[w].approvals = {} THEN call[w].names ELSE call[w].names \ {Approval})
                \cup {PostMortem}
    /\ Return(w)
    /\ UNCHANGED <<status, opened, closed, calls>>

-----------------------------------------------------------------------------
(* createContinuationPhase: Iterative Review, Approval, Final Fix; no lock *)

ContinueRead(w, name) ==
    /\ Begin(w, "continue")
    /\ Present # {}
    /\ call' = [call EXCEPT ![w] = [kind |-> "continue", name |-> name, names |-> names]]
    /\ UNCHANGED <<status, rows, names, opened, closed>>

ContinueCreate(w) ==
    /\ call[w].kind = "continue"
    /\ \E p \in Fresh(call[w].name) : rows' = [rows EXCEPT ![p] = OpenRow]
    /\ names' = call[w].names \cup {call[w].name}
    /\ Return(w)
    /\ UNCHANGED <<status, opened, closed, calls>>

-----------------------------------------------------------------------------
(* completeChallenge and cancelChallenge: an unconditional write of the status *)

\* The caller has seen an ACTIVE challenge (finalizeChallenge and the
\* zero-submission flow test the status before they call).
FinishRead(w, s) ==
    /\ Begin(w, "finish")
    /\ status = "ACTIVE"
    /\ call' = [call EXCEPT ![w] = [kind |-> "finish", status |-> s]]
    /\ UNCHANGED <<status, rows, names, opened, closed>>

FinishWrite(w) ==
    /\ call[w].kind = "finish"
    /\ status' = call[w].status
    /\ Return(w)
    /\ UNCHANGED <<rows, names, opened, closed, calls>>

-----------------------------------------------------------------------------
\* The process dies: the calls in flight vanish, uncommitted transactions with them.
Crash ==
    /\ call' = [w \in Workers |-> NoCall]
    /\ UNCHANGED <<status, rows, names, opened, closed, calls>>

Worker(w) ==
    \/ \E p \in Phases, op \in {"open", "close"} : AdvanceRead(w, p, op)
    \/ AdvanceOpen(w) \/ AdvanceClose(w) \/ AdvanceFails(w)
    \/ \E base \in Phases : CreatePostMortem(w, base)
    \/ PreserveRead(w) \/ PreserveReuse(w) \/ PreserveCreate(w)
    \/ \E name \in Continuations : ContinueRead(w, name)
    \/ ContinueCreate(w)
    \/ \E s \in Statuses \ {"ACTIVE"} : FinishRead(w, s)
    \/ FinishWrite(w)

Next == Crash \/ \E w \in Workers : Worker(w)

Spec == Init /\ [][Next]_vars
-----------------------------------------------------------------------------
(* Properties *)

TypeOK ==
    /\ status \in Statuses
    /\ rows \in [Phases -> Row]
    /\ names \subseteq Names
    /\ call \in [Workers -> Calls]
    /\ opened \in [Phases -> Nat]
    /\ closed \in [Phases -> Nat]
    /\ calls \in 0 .. MaxCalls

\* The dates of a row agree with isOpen in every interleaving of the six
\* writers: an open row has a start and no end, a row that was started and is
\* not open has an end, and a row that ended was started.
DatesAgree ==
    \A p \in Phases :
        /\ rows[p].isOpen => rows[p].started /\ ~rows[p].ended
        /\ rows[p].started /\ ~rows[p].isOpen => rows[p].ended
        /\ rows[p].ended => rows[p].started
        /\ rows[p].presence # "present" => ~rows[p].started

\* Of all the concurrent callers of advancePhase, at most one is ever told that
\* it opened a phase and at most one that it closed it, so the successors of a
\* phase are chained once (Post-Mortem rows apart, which may be reused).
OneWinner ==
    \A p \in Phases \ PostMortems : opened[p] <= 1 /\ closed[p] <= 1

\* Two failure handlers that create a Post-Mortem at the same time leave one.
\* The comment in createPostMortemPhase promises it: "avoid concurrent duplicate
\* creations"), and the one in createPostMortemPhasePreserving says that an
\* existing Post-Mortem is returned idempotently.
AtMostOnePostMortem == Cardinality(Present \cap PostMortems) <= 1

\* The refinement mapping: the stage of each row.
StageOf(row) ==
    CASE row.presence = "unborn"  -> "unborn"
      [] row.presence = "deleted" -> "deleted"
      [] row.presence = "present" ->
            IF row.isOpen THEN "open" ELSE IF row.ended THEN "ended" ELSE "waiting"

Lifecycle == INSTANCE PhaseLifecycle WITH life <- [p \in Phases |-> StageOf(rows[p])]

\* Every step of every writer is a legal step of the life of the rows: in
\* particular a replayed or stale open never reopens a phase that has ended.
ImplementsLifecycle == Lifecycle!Spec
=============================================================================
