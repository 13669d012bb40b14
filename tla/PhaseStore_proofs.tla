------------------------- MODULE PhaseStore_proofs --------------------------
(***************************************************************************)
(* Proofs about PhaseStore, for any set of phases and any number of        *)
(* concurrent callers: the dates of every row agree with isOpen, one       *)
(* caller wins each open and each close, and the phase table implements    *)
(* PhaseLifecycle, so no phase but a Post-Mortem is ever reopened.         *)
(***************************************************************************)
EXTENDS PhaseStore, FiniteSetTheorems, TLAPS

\* What OneWinner needs to be inductive: a row that was not started has no
\* successful open behind it, a row that has not ended no successful close.
Claims ==
    \A p \in Phases \ PostMortems :
        /\ opened[p] <= 1 /\ closed[p] <= 1
        /\ rows[p].presence # "deleted" /\ ~rows[p].started => opened[p] = 0
        /\ rows[p].presence # "deleted" /\ ~rows[p].ended => closed[p] = 0

Inv == TypeOK /\ DatesAgree /\ Claims

-----------------------------------------------------------------------------
\* The rows the transactions write are well formed.
LEMMA WrittenRows ==
    /\ NoRow \in Row /\ WaitingRow \in Row /\ OpenRow \in Row
    /\ EndedRow \in Row /\ DeletedRow \in Row
BY DEF NoRow, WaitingRow, OpenRow, EndedRow, DeletedRow, RowOf, Row

\* What each written row says.
LEMMA WrittenFields ==
    /\ NoRow.presence = "unborn" /\ ~NoRow.isOpen /\ ~NoRow.started /\ ~NoRow.ended
    /\ WaitingRow.presence = "present" /\ ~WaitingRow.isOpen
    /\ ~WaitingRow.started /\ ~WaitingRow.ended
    /\ OpenRow.presence = "present" /\ OpenRow.isOpen /\ OpenRow.started /\ ~OpenRow.ended
    /\ EndedRow.presence = "present" /\ ~EndedRow.isOpen /\ EndedRow.started /\ EndedRow.ended
    /\ DeletedRow.presence = "deleted" /\ ~DeletedRow.isOpen
    /\ ~DeletedRow.started /\ ~DeletedRow.ended
BY DEF NoRow, WaitingRow, OpenRow, EndedRow, DeletedRow, RowOf

\* A worker that returns leaves the calls well typed.
LEMMA ReturnTyped ==
    ASSUME NEW w \in Workers, TypeOK, Return(w)
    PROVE  call' \in [Workers -> Calls]
BY DEF TypeOK, Return, Calls

-----------------------------------------------------------------------------
LEMMA InitInv == Init => Inv
<1> SUFFICES ASSUME Init PROVE Inv
    OBVIOUS
<1>1. TypeOK
    BY StoreAssumption, WrittenRows DEF Init, TypeOK, Statuses, Calls, StoreAssumption
<1>2. DatesAgree
    BY WrittenFields DEF Init, DatesAgree
<1>3. Claims
    BY DEF Init, Claims
<1> QED BY <1>1, <1>2, <1>3 DEF Inv

-----------------------------------------------------------------------------
\* Pruning and closing approvals only write well-formed rows.
LEMMA PrunedTyped ==
    ASSUME TypeOK, NEW base \in Phases
    PROVE  Pruned(base) \in [Phases -> Row]
BY WrittenRows DEF TypeOK, Pruned

LEMMA ApprovalsClosedTyped ==
    ASSUME TypeOK, NEW w \in Workers
    PROVE  ApprovalsClosed(w) \in [Phases -> Row]
BY WrittenRows DEF TypeOK, ApprovalsClosed

\* The invariant of the types.
LEMMA TypeStep == TypeOK /\ [Next]_vars => TypeOK'
<1> SUFFICES ASSUME TypeOK, [Next]_vars PROVE TypeOK'
    OBVIOUS
<1> USE StoreAssumption DEF StoreAssumption
<1>1. ASSUME NEW w \in Workers, NEW p \in Phases, NEW op \in {"open", "close"},
             AdvanceRead(w, p, op)
      PROVE  TypeOK'
    BY <1>1 DEF TypeOK, AdvanceRead, Begin, Calls
<1>2. ASSUME NEW w \in Workers, AdvanceOpen(w) PROVE TypeOK'
  <2>1. call[w].phase \in Phases /\ call[w].names \subseteq Names
      BY <1>2 DEF TypeOK, AdvanceOpen, Calls, NoCall
  <2>2. rows' \in [Phases -> Row]
    <3> DEFINE p == call[w].phase
    <3>1. rows' = [rows EXCEPT ![p] = [@ EXCEPT !.isOpen = TRUE, !.started = TRUE,
                                                 !.ended = FALSE]]
        BY <1>2 DEF AdvanceOpen
    <3>2. rows[p] \in Row
        BY <2>1 DEF TypeOK
    <3>3. [rows[p] EXCEPT !.isOpen = TRUE, !.started = TRUE, !.ended = FALSE] \in Row
        BY <3>2 DEF Row
    <3> QED BY <2>1, <3>1, <3>3 DEF TypeOK
  <2>3. call' \in [Workers -> Calls]
      BY <1>2, ReturnTyped DEF AdvanceOpen
  <2> QED BY <1>2, <2>1, <2>2, <2>3 DEF TypeOK, AdvanceOpen
<1>3. ASSUME NEW w \in Workers, AdvanceClose(w) PROVE TypeOK'
  <2>1. call[w].phase \in Phases /\ call[w].names \subseteq Names
      BY <1>3 DEF TypeOK, AdvanceClose, Calls, NoCall
  <2>2. rows' \in [Phases -> Row]
      BY <1>3, <2>1 DEF TypeOK, AdvanceClose, Row
  <2>3. call' \in [Workers -> Calls]
      BY <1>3, ReturnTyped DEF AdvanceClose
  <2> QED BY <1>3, <2>1, <2>2, <2>3 DEF TypeOK, AdvanceClose
<1>4. ASSUME NEW w \in Workers, AdvanceFails(w) PROVE TypeOK'
    BY <1>4, ReturnTyped DEF TypeOK, AdvanceFails
<1>5. ASSUME NEW w \in Workers, NEW base \in Phases, CreatePostMortem(w, base)
      PROVE  TypeOK'
  <2>1. rows' \in [Phases -> Row]
      BY <1>5, PrunedTyped, WrittenRows DEF CreatePostMortem
  <2>2. calls' \in 0 .. MaxCalls
      BY <1>5 DEF TypeOK, CreatePostMortem, Begin
  <2> QED BY <1>5, <2>1, <2>2 DEF TypeOK, CreatePostMortem
<1>6. ASSUME NEW w \in Workers, PreserveRead(w) PROVE TypeOK'
  <2>1. call' \in [Workers -> Calls]
      BY <1>6 DEF TypeOK, PreserveRead, UnfinishedApprovals, Calls, Present
  <2> QED BY <1>6, <2>1 DEF TypeOK, PreserveRead, Begin
<1>7. ASSUME NEW w \in Workers, PreserveReuse(w) PROVE TypeOK'
    BY <1>7, ApprovalsClosedTyped, ReturnTyped DEF TypeOK, PreserveReuse
<1>8. ASSUME NEW w \in Workers, PreserveCreate(w) PROVE TypeOK'
  <2>1. call[w].names \subseteq Names
      BY <1>8 DEF TypeOK, PreserveCreate, Calls, NoCall
  <2>2. rows' \in [Phases -> Row]
      BY <1>8, ApprovalsClosedTyped, WrittenRows DEF PreserveCreate
  <2>3. call' \in [Workers -> Calls]
      BY <1>8, ReturnTyped DEF PreserveCreate
  <2> QED BY <1>8, <2>1, <2>2, <2>3 DEF TypeOK, PreserveCreate
<1>9. ASSUME NEW w \in Workers, NEW name \in Continuations, ContinueRead(w, name)
      PROVE  TypeOK'
  <2>1. call' \in [Workers -> Calls]
      BY <1>9 DEF TypeOK, ContinueRead, Calls
  <2> QED BY <1>9, <2>1 DEF TypeOK, ContinueRead, Begin
<1>10. ASSUME NEW w \in Workers, ContinueCreate(w) PROVE TypeOK'
  <2>1. call[w].names \subseteq Names /\ call[w].name \in Names
      BY <1>10 DEF TypeOK, ContinueCreate, Calls, NoCall
  <2>2. rows' \in [Phases -> Row]
      BY <1>10, WrittenRows DEF TypeOK, ContinueCreate
  <2>3. call' \in [Workers -> Calls]
      BY <1>10, ReturnTyped DEF ContinueCreate
  <2> QED BY <1>10, <2>1, <2>2, <2>3 DEF TypeOK, ContinueCreate
<1>11. ASSUME NEW w \in Workers, NEW s \in Statuses \ {"ACTIVE"}, FinishRead(w, s)
       PROVE  TypeOK'
  <2>1. call' \in [Workers -> Calls]
      BY <1>11 DEF TypeOK, FinishRead, Calls
  <2> QED BY <1>11, <2>1 DEF TypeOK, FinishRead, Begin
<1>12. ASSUME NEW w \in Workers, FinishWrite(w) PROVE TypeOK'
  <2>1. call[w].status \in Statuses
      BY <1>12 DEF TypeOK, FinishWrite, Calls, NoCall
  <2> QED BY <1>12, <2>1, ReturnTyped DEF TypeOK, FinishWrite
<1>13. CASE Crash
    BY <1>13 DEF TypeOK, Crash, Calls
<1>14. CASE UNCHANGED vars
    BY <1>14 DEF TypeOK, vars
<1> QED
    BY <1>1, <1>2, <1>3, <1>4, <1>5, <1>6, <1>7, <1>8, <1>9, <1>10, <1>11, <1>12, <1>13, <1>14
    DEF Next, Worker

\* Every variable keeps its type, whatever the callers do.
THEOREM TypeCorrect == Spec => []TypeOK
<1>1. Init => TypeOK
    BY InitInv DEF Inv
<1> QED BY <1>1, TypeStep, PTL DEF Spec

-----------------------------------------------------------------------------
\* What one step does to one row: nothing, or one of the writes of the
\* transactions.  Each action is analysed once, here.
RowWrite(p) ==
    \/ rows'[p] = rows[p]
    \/ rows[p].presence = "unborn" /\ rows'[p] = OpenRow
    \/ rows[p].presence = "present" /\ p \in PostMortems /\ rows'[p] = OpenRow
    \/ rows[p].presence = "present" /\ rows'[p] = DeletedRow
    \/ rows[p].presence = "present" /\ rows'[p] = EndedRow
    \/ OpenMatches(p) /\ rows'[p] = OpenRow

\* A success is counted only together with the write it stands for.
CountedWrite(p) ==
    /\ \/ opened'[p] = opened[p]
       \/ opened'[p] = opened[p] + 1 /\ OpenMatches(p) /\ rows'[p] = OpenRow
    /\ \/ closed'[p] = closed[p]
       \/ closed'[p] = closed[p] + 1 /\ CloseMatches(p) /\ rows'[p] = EndedRow

LEMMA ApprovalsClosedRow ==
    ASSUME TypeOK, NEW w \in Workers, NEW p \in Phases
    PROVE  \/ ApprovalsClosed(w)[p] = rows[p]
           \/ rows[p].presence = "present" /\ ApprovalsClosed(w)[p] = EndedRow
BY DEF ApprovalsClosed, Present

LEMMA RowStep ==
    ASSUME TypeOK, DatesAgree, [Next]_vars, NEW p \in Phases
    PROVE  RowWrite(p) /\ CountedWrite(p)
<1>1. ASSUME NEW w \in Workers, AdvanceOpen(w) PROVE RowWrite(p) /\ CountedWrite(p)
  <2> DEFINE q == call[w].phase
  <2>1. q \in Phases /\ OpenMatches(q)
      BY <1>1 DEF TypeOK, AdvanceOpen, Calls, NoCall
  <2>2. CASE p = q
    <3>1. rows'[p] = OpenRow
        BY <1>1, <2>1, <2>2 DEF TypeOK, AdvanceOpen, OpenMatches, Present, Row, OpenRow, RowOf
    <3> QED BY <1>1, <2>1, <2>2, <3>1 DEF AdvanceOpen, TypeOK, RowWrite, CountedWrite
  <2>3. CASE p # q
      BY <1>1, <2>1, <2>3 DEF AdvanceOpen, TypeOK, RowWrite, CountedWrite
  <2> QED BY <2>2, <2>3
<1>2. ASSUME NEW w \in Workers, AdvanceClose(w) PROVE RowWrite(p) /\ CountedWrite(p)
  <2> DEFINE q == call[w].phase
  <2>1. q \in Phases /\ CloseMatches(q)
      BY <1>2 DEF TypeOK, AdvanceClose, Calls, NoCall
  <2>2. CASE p = q
    <3>1. rows[p].started
        BY <2>1, <2>2 DEF DatesAgree, CloseMatches
    <3>2. rows'[p] = EndedRow
        BY <1>2, <2>1, <2>2, <3>1 DEF TypeOK, AdvanceClose, CloseMatches, Present, Row, EndedRow, RowOf
    <3>3. rows[p].presence = "present"
        BY <2>1, <2>2 DEF CloseMatches, Present
    <3> QED BY <1>2, <2>1, <2>2, <3>2, <3>3 DEF AdvanceClose, TypeOK, RowWrite, CountedWrite
  <2>3. CASE p # q
      BY <1>2, <2>1, <2>3 DEF AdvanceClose, TypeOK, RowWrite, CountedWrite
  <2> QED BY <2>2, <2>3
<1>3. ASSUME NEW w \in Workers, NEW base \in Phases, CreatePostMortem(w, base)
      PROVE  RowWrite(p) /\ CountedWrite(p)
  <2>1. PICK pm \in PostMortemTarget(base) : rows' = [Pruned(base) EXCEPT ![pm] = OpenRow]
      BY <1>3 DEF CreatePostMortem
  <2>2. pm \in Phases /\ pm \in PostMortems
      BY <2>1 DEF PostMortemTarget, Fresh, PostMortems
  <2>3. rows[pm].presence \in {"unborn", "present"}
      BY <2>1 DEF PostMortemTarget, Fresh, LaterThan, Present
  <2>4. CASE p = pm
    <3>1. rows'[p] = OpenRow
        BY <2>1, <2>2, <2>4 DEF Pruned
    <3> QED BY <1>3, <2>2, <2>3, <2>4, <3>1 DEF CreatePostMortem, RowWrite, CountedWrite
  <2>5. CASE p # pm
    <3>1. rows'[p] = Pruned(base)[p]
        BY <2>1, <2>5 DEF Pruned
    <3>2. rows'[p] = rows[p] \/ (rows[p].presence = "present" /\ rows'[p] = DeletedRow)
        BY <3>1 DEF Pruned, LaterThan, Present
    <3> QED BY <1>3, <3>2 DEF CreatePostMortem, RowWrite, CountedWrite
  <2> QED BY <2>4, <2>5
<1>4. ASSUME NEW w \in Workers, PreserveReuse(w) PROVE RowWrite(p) /\ CountedWrite(p)
    BY <1>4, ApprovalsClosedRow DEF PreserveReuse, RowWrite, CountedWrite
<1>5. ASSUME NEW w \in Workers, PreserveCreate(w) PROVE RowWrite(p) /\ CountedWrite(p)
  <2>1. PICK pm \in Fresh(PostMortem) : rows' = [ApprovalsClosed(w) EXCEPT ![pm] = OpenRow]
      BY <1>5 DEF PreserveCreate
  <2>2. CASE p = pm
      BY <1>5, <2>1, <2>2 DEF PreserveCreate, Fresh, ApprovalsClosed, RowWrite, CountedWrite
  <2>3. CASE p # pm
    <3>1. rows'[p] = ApprovalsClosed(w)[p]
        BY <2>1, <2>3 DEF ApprovalsClosed
    <3> QED BY <1>5, <3>1, ApprovalsClosedRow DEF PreserveCreate, RowWrite, CountedWrite
  <2> QED BY <2>2, <2>3
<1>6. ASSUME NEW w \in Workers, ContinueCreate(w) PROVE RowWrite(p) /\ CountedWrite(p)
    BY <1>6 DEF TypeOK, ContinueCreate, Fresh, RowWrite, CountedWrite
<1>7. CASE UNCHANGED <<rows, opened, closed>>
    BY <1>7 DEF RowWrite, CountedWrite
<1> QED
  <2>1. ASSUME NEW w \in Workers, Worker(w) PROVE RowWrite(p) /\ CountedWrite(p)
      BY <1>1, <1>2, <1>3, <1>4, <1>5, <1>6, <1>7, <2>1
      DEF Worker, AdvanceRead, AdvanceFails, PreserveRead, ContinueRead, FinishRead, FinishWrite
  <2> QED BY <1>7, <2>1 DEF Next, Crash, vars

-----------------------------------------------------------------------------
LEMMA DatesStep ==
    ASSUME TypeOK, DatesAgree, [Next]_vars
    PROVE  DatesAgree'
<1>1. ASSUME NEW p \in Phases, RowWrite(p)
      PROVE  /\ rows'[p].isOpen => rows'[p].started /\ ~rows'[p].ended
             /\ rows'[p].started /\ ~rows'[p].isOpen => rows'[p].ended
             /\ rows'[p].ended => rows'[p].started
             /\ rows'[p].presence # "present" => ~rows'[p].started
    BY <1>1, WrittenFields DEF DatesAgree, RowWrite
<1> QED BY <1>1, RowStep DEF DatesAgree

LEMMA ClaimsStep ==
    ASSUME Inv, [Next]_vars
    PROVE  Claims'
<1> SUFFICES ASSUME NEW p \in Phases \ PostMortems
             PROVE  /\ opened'[p] <= 1 /\ closed'[p] <= 1
                    /\ rows'[p].presence # "deleted" /\ ~rows'[p].started => opened'[p] = 0
                    /\ rows'[p].presence # "deleted" /\ ~rows'[p].ended => closed'[p] = 0
    BY DEF Claims, PostMortems
<1>1. RowWrite(p) /\ CountedWrite(p)
    BY RowStep DEF Inv
<1>2. opened[p] \in Nat /\ closed[p] \in Nat /\ rows[p] \in Row
    BY DEF Inv, TypeOK
<1>3. /\ opened[p] <= 1 /\ closed[p] <= 1
      /\ rows[p].presence # "deleted" /\ ~rows[p].started => opened[p] = 0
      /\ rows[p].presence # "deleted" /\ ~rows[p].ended => closed[p] = 0
    BY DEF Inv, Claims
<1>4. /\ rows[p].isOpen => rows[p].started /\ ~rows[p].ended
      /\ rows[p].started /\ ~rows[p].isOpen => rows[p].ended
      /\ rows[p].ended => rows[p].started
      /\ rows[p].presence # "present" => ~rows[p].started
    BY DEF Inv, DatesAgree
<1> QED BY <1>1, <1>2, <1>3, <1>4, WrittenFields
        DEF RowWrite, CountedWrite, OpenMatches, CloseMatches, Present

LEMMA StepInv == Inv /\ [Next]_vars => Inv'
BY TypeStep, DatesStep, ClaimsStep DEF Inv

LEMMA Invariance == Spec => []Inv
BY InitInv, StepInv, PTL DEF Spec

\* The dates of every row agree with isOpen whatever the callers interleave.
THEOREM DatesAlwaysAgree == Spec => []DatesAgree
BY Invariance, PTL DEF Inv

\* For any number of concurrent callers, at most one is told that it opened a
\* phase and at most one that it closed it.
THEOREM OneWinnerAlways == Spec => []OneWinner
<1>1. Inv => OneWinner
    BY DEF Inv, Claims, OneWinner
<1> QED BY <1>1, Invariance, PTL

-----------------------------------------------------------------------------
(* The phase table implements PhaseLifecycle *)

LEMMA StageOfRows ==
    /\ StageOf(NoRow) = "unborn" /\ StageOf(WaitingRow) = "waiting"
    /\ StageOf(OpenRow) = "open" /\ StageOf(EndedRow) = "ended"
    /\ StageOf(DeletedRow) = "deleted"
BY DEF StageOf, NoRow, WaitingRow, OpenRow, EndedRow, DeletedRow, RowOf

LEMMA StageTyped ==
    ASSUME NEW row \in Row
    PROVE  StageOf(row) \in Lifecycle!Stage
BY DEF StageOf, Row, Lifecycle!Stage

LEMMA InitRefines == Init => Lifecycle!Init
BY StageOfRows DEF Init, Lifecycle!Init

LEMMA RowRefines ==
    ASSUME TypeOK, DatesAgree, [Next]_vars, NEW p \in Phases
    PROVE  \/ StageOf(rows'[p]) = StageOf(rows[p])
           \/ StageOf(rows'[p]) \in Lifecycle!Moves(StageOf(rows[p]))
           \/ /\ p \in PostMortems
              /\ StageOf(rows[p]) = "ended" /\ StageOf(rows'[p]) = "open"
<1>1. RowWrite(p)
    BY RowStep
<1>2. rows[p] \in Row
    BY DEF TypeOK
<1>3. CASE rows[p].presence = "unborn"
  <2>1. StageOf(rows[p]) = "unborn"
      BY <1>3 DEF StageOf
  <2> QED BY <1>1, <1>3, <2>1, StageOfRows DEF RowWrite, OpenMatches, Present, Lifecycle!Moves
<1>4. CASE rows[p].presence = "deleted"
    BY <1>1, <1>4 DEF RowWrite, OpenMatches, Present
<1>5. CASE rows[p].presence = "present" /\ rows[p].isOpen
  <2>1. StageOf(rows[p]) = "open"
      BY <1>5 DEF StageOf
  <2> QED BY <1>1, <1>5, <2>1, StageOfRows DEF RowWrite, OpenMatches, Lifecycle!Moves
<1>6. CASE rows[p].presence = "present" /\ ~rows[p].isOpen /\ rows[p].ended
  <2>1. StageOf(rows[p]) = "ended"
      BY <1>6 DEF StageOf
  <2> QED BY <1>1, <1>6, <2>1, StageOfRows DEF RowWrite, OpenMatches, Lifecycle!Moves
<1>7. CASE rows[p].presence = "present" /\ ~rows[p].isOpen /\ ~rows[p].ended
  <2>1. StageOf(rows[p]) = "waiting"
      BY <1>7 DEF StageOf
  <2> QED BY <1>1, <1>7, <2>1, StageOfRows DEF RowWrite, Lifecycle!Moves
<1> QED BY <1>2, <1>3, <1>4, <1>5, <1>6, <1>7 DEF Row

LEMMA StepRefines ==
    ASSUME Inv, [Next]_vars
    PROVE  Lifecycle!Next
<1>1. TypeOK'
    BY TypeStep DEF Inv
<1>2. [p \in Phases |-> StageOf(rows[p])]' \in [Phases -> Lifecycle!Stage]
    BY <1>1, StageTyped DEF TypeOK
<1>3. \A p \in Phases : Lifecycle!Step(p)
    BY RowRefines DEF Inv, Lifecycle!Step
<1> QED BY <1>2, <1>3 DEF Lifecycle!Next

\* Every behaviour of the six writers is a legal life of the rows.
THEOREM StoreImplementsLifecycle == Spec => ImplementsLifecycle
<1>1. Inv /\ [Next]_vars => [Lifecycle!Next]_([p \in Phases |-> StageOf(rows[p])])
    BY StepRefines
<1> QED BY <1>1, InitRefines, Invariance, PTL DEF Spec, ImplementsLifecycle, Lifecycle!Spec

-----------------------------------------------------------------------------
(* One Post-Mortem *)

\* What createPostMortemPhase can count on when it is the only one to create
\* Post-Mortems: no more than one was launched, and a Post-Mortem comes after the
\* phase it follows, so that the lookup among the later phases finds it.
LockedCreation ==
    /\ "preserve" \notin Operations
    /\ \A p, q \in Scheduled \cap PostMortems : p = q
    /\ \A base \in Phases, pm \in PostMortems :
         NameOf[base] \in Bases => Order[base] < Order[pm]

Single ==
    /\ \A p, q \in Present \cap PostMortems : p = q
    /\ \A w \in Workers : call[w].kind # "preserve"

\* The lookup sees every Post-Mortem there is, and creates one only if there is none.
LEMMA CreationSingle ==
    ASSUME TypeOK, Single, LockedCreation,
           NEW w \in Workers, NEW base \in Phases, CreatePostMortem(w, base)
    PROVE  \A p, q \in Present' \cap PostMortems : p = q
<1>1. PICK pm \in PostMortemTarget(base) : rows' = [Pruned(base) EXCEPT ![pm] = OpenRow]
    BY DEF CreatePostMortem
<1>2. LaterThan(base) \cap PostMortems = Present \cap PostMortems
    BY DEF CreatePostMortem, LockedCreation, LaterThan, PostMortems
<1>3. \A q \in Present \cap PostMortems : q = pm
    BY <1>1, <1>2 DEF PostMortemTarget, Single
<1>4. ASSUME NEW q \in Present' \cap PostMortems, q # pm PROVE FALSE
  <2>1. rows'[q] = rows[q]
      BY <1>1, <1>4 DEF Pruned, Present
  <2> QED BY <1>3, <1>4, <2>1 DEF Present
<1> QED BY <1>4

LEMMA SingleStep ==
    ASSUME TypeOK, Single, LockedCreation, [Next]_vars
    PROVE  Single'
<1> USE StoreAssumption DEF StoreAssumption
<1> DEFINE Kept == /\ \A p \in PostMortems : p \in Present' => p \in Present
                   /\ \A v \in Workers : call'[v].kind # "preserve"
<1>0. Kept => Single'
    BY DEF Single
<1>1. ASSUME NEW w \in Workers, Return(w)
      PROVE  \A v \in Workers : call'[v].kind # "preserve"
    BY <1>1 DEF Return, TypeOK, Single, NoCall
<1>2. ASSUME NEW w \in Workers, NEW base \in Phases, CreatePostMortem(w, base)
      PROVE  Single'
    BY <1>2, CreationSingle DEF CreatePostMortem, Single
<1>3. ASSUME NEW w \in Workers, AdvanceOpen(w) PROVE Kept
  <2>1. call[w].phase \in Phases
      BY <1>3 DEF TypeOK, AdvanceOpen, Calls, NoCall
  <2> QED BY <1>1, <1>3, <2>1 DEF AdvanceOpen, OpenMatches, Present, TypeOK
<1>4. ASSUME NEW w \in Workers, AdvanceClose(w) PROVE Kept
  <2>1. call[w].phase \in Phases
      BY <1>4 DEF TypeOK, AdvanceClose, Calls, NoCall
  <2> QED BY <1>1, <1>4, <2>1 DEF AdvanceClose, CloseMatches, Present, TypeOK
<1>5. ASSUME NEW w \in Workers, ContinueCreate(w) PROVE Kept
  <2>1. PICK p \in Fresh(call[w].name) : rows' = [rows EXCEPT ![p] = OpenRow]
      BY <1>5 DEF ContinueCreate
  <2>2. call[w].name # PostMortem
      BY <1>5 DEF TypeOK, ContinueCreate, Calls, NoCall
  <2>3. p \notin PostMortems
      BY <2>1, <2>2 DEF Fresh, PostMortems
  <2> QED BY <1>1, <1>5, <2>1, <2>3 DEF ContinueCreate, Present, PostMortems, TypeOK
<1>6. ASSUME NEW w \in Workers, PreserveRead(w) PROVE FALSE
    BY <1>6 DEF PreserveRead, Begin, LockedCreation
<1>7. ASSUME NEW w \in Workers, PreserveReuse(w) \/ PreserveCreate(w) PROVE FALSE
    BY <1>7 DEF PreserveReuse, PreserveCreate, Single
<1>8. CASE rows' = rows /\ \E w \in Workers : Return(w)
    BY <1>0, <1>1, <1>8 DEF Present
<1>9. ASSUME NEW w \in Workers, NEW p \in Phases, NEW op \in {"open", "close"},
             AdvanceRead(w, p, op)
      PROVE  Kept
    BY <1>9 DEF AdvanceRead, Present, Single, TypeOK
<1>10. ASSUME NEW w \in Workers, NEW name \in Continuations, ContinueRead(w, name) PROVE Kept
    BY <1>10 DEF ContinueRead, Present, Single, TypeOK
<1>11. ASSUME NEW w \in Workers, NEW s \in Statuses \ {"ACTIVE"}, FinishRead(w, s) PROVE Kept
    BY <1>11 DEF FinishRead, Present, Single, TypeOK
<1>12. CASE Crash
    BY <1>0, <1>12 DEF Crash, NoCall, Present
<1>13. CASE UNCHANGED vars
    BY <1>0, <1>13 DEF vars, Present, Single
<1> HIDE DEF Kept
<1>14. ASSUME NEW w \in Workers, Worker(w) PROVE Single'
  <2>1. CASE AdvanceFails(w) \/ FinishWrite(w)
      BY <1>8, <2>1 DEF AdvanceFails, FinishWrite
  <2> QED BY <1>0, <1>2, <1>3, <1>4, <1>5, <1>6, <1>7, <1>9, <1>10, <1>11, <1>14, <2>1 DEF Worker
<1> QED BY <1>12, <1>13, <1>14 DEF Next

\* Any number of failure handlers that create a Post-Mortem at the same time
\* leave one, because createPostMortemPhase looks for it under the lock.  With a
\* preserving creation, which takes no lock, there may be two.
THEOREM OnePostMortemUnderLock ==
    ASSUME LockedCreation PROVE Spec => []AtMostOnePostMortem
<1>1. Init => Single
    BY DEF LockedCreation, Init, Single, Present, NoRow, WaitingRow, RowOf, NoCall
<1>2. TypeOK /\ Single /\ [Next]_vars => Single'
    BY SingleStep
<1>3. Single => AtMostOnePostMortem
  <2> SUFFICES ASSUME Single PROVE Cardinality(Present \cap PostMortems) <= 1
      BY DEF AtMostOnePostMortem
  <2>1. CASE Present \cap PostMortems = {}
      BY <2>1, FS_EmptySet
  <2>2. CASE Present \cap PostMortems # {}
    <3>1. PICK p : Present \cap PostMortems = {p}
        BY <2>2 DEF Single
    <3> QED BY <3>1, FS_Singleton
  <2> QED BY <2>1, <2>2
<1> QED BY <1>1, <1>2, <1>3, TypeCorrect, PTL DEF Spec
=============================================================================
