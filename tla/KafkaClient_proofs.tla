-------------------------- MODULE KafkaClient_proofs --------------------------
(***************************************************************************)
(* Proofs about KafkaClient, for any groups, slots, messages and faults:   *)
(* no message is skipped, a group has one session unless a close fails,    *)
(* ready means that every group is consumed, a shutdown is final, and the  *)
(* handlers see what OrderedDelivery promises them, with no message out of *)
(* reach of every session.                                                 *)
(***************************************************************************)
EXTENDS KafkaClient, TLAPS

USE DEF offsets, breaker, Settled

SessionType == [stream : {"none", "open", "closing", "detached"},
                group : Groups, at : {"idle", "handling", "commit"}, pos : 0 .. Messages]

TaskType == [at : {"none", "wait", "close", "start", "session", "done"},
             attempt : 0 .. Retries, groups : SUBSET Groups]

\* A loop reads from where all before is handled or was skipped, and handles a
\* message that has arrived.
Positions ==
    \A i \in Slots :
        /\ 1 .. session[i].pos \subseteq Settled(session[i].group)
        /\ session[i].at # "idle" => session[i].pos < log[session[i].group]
        /\ session[i].at = "commit" => session[i].pos + 1 \in handled[session[i].group]

\* A rebuild that closes has no open session left of the groups it will start,
\* and one that starts has none whose loop still runs either.
Rebuild ==
    /\ task.at = "close" =>
         /\ task.groups = configured
         /\ \A i \in Slots : session[i].stream = "open" => session[i].group \notin task.groups
    /\ Candidate =>
         \A i \in Slots :
             session[i].stream \in {"open", "closing"} => session[i].group \notin task.groups

Consumed(gs) == \A g \in gs : OpenSessions(g) # {}

\* No session of a rebuild has been lost unless that was noted in requested.
Running ==
    ~stopping =>
        /\ health = "ready" /\ task = NoTask => Consumed(configured)
        /\ Candidate /\ ~requested => Consumed(configured \ task.groups)
        /\ task.at = "done" /\ health = "ready" /\ ~requested => Consumed(configured)

\* A disabled client is stopping, with nothing left to close.
Stopped ==
    health = "disabled" =>
        /\ stopping /\ task = NoTask /\ configured = {}
        /\ \A i \in Slots : session[i].stream \notin {"open", "closing"}

Inv == TypeOK /\ NothingSkipped /\ Positions /\ OneSession /\ Rebuild /\ Running /\ Stopped

-----------------------------------------------------------------------------
(* What the actions do to a session *)

\* Groups has a member, so the session of a free slot is well typed.
LEMMA NoSessionTyped == NoSession \in SessionType /\ NoSession.stream = "none"
<1>1. (CHOOSE g \in Groups : TRUE) \in Groups
    BY KafkaAssumption DEF KafkaAssumption
<1> QED BY <1>1, KafkaAssumption DEF NoSession, SessionType, KafkaAssumption

LEMMA SetFacts ==
    ASSUME session \in [Slots -> SessionType], NEW i \in Slots,
           NEW at \in {"idle", "handling", "commit"}, Set(i, at)
    PROVE  /\ session' \in [Slots -> SessionType]
           /\ \A j \in Slots :
                /\ session'[j].stream = session[j].stream
                /\ session'[j].group = session[j].group
                /\ session'[j].pos = session[j].pos
                /\ session'[j].at = IF j = i THEN at ELSE session[j].at
BY DEF Set, SessionType

\* A session whose loop has ended leaves its slot.
LEMMA LoopEndsFacts ==
    ASSUME session \in [Slots -> SessionType], NEW i \in Slots, LoopEnds(i)
    PROVE  /\ session' \in [Slots -> SessionType]
           /\ session'[i] = NoSession
           /\ \A j \in Slots \ {i} : session'[j] = session[j]
BY NoSessionTyped DEF LoopEnds

LEMMA StartFacts ==
    ASSUME TypeOK, NEW g \in Groups, StartSession(g)
    PROVE  /\ skipped' \in [Groups -> SUBSET (1 .. Messages)]
           /\ \A h \in Groups : skipped[h] \subseteq skipped'[h]
           /\ \E i \in Free, pos \in 0 .. Messages :
                /\ session' \in [Slots -> SessionType]
                /\ session'[i] = Session(g, pos) /\ session'[i] \in SessionType
                /\ \A j \in Slots \ {i} : session'[j] = session[j]
                /\ \/ committed[g] = pos /\ skipped' = skipped
                   \/ /\ committed[g] = NoOffset /\ pos = log[g]
                      /\ skipped' = [skipped EXCEPT ![g] = @ \cup ((1 .. pos) \ handled[g])]
<1> DEFINE pos == IF committed[g] = NoOffset THEN log[g] ELSE committed[g]
           i == CHOOSE i \in Free : TRUE
<1>1. pos \in 0 .. Messages /\ log[g] \in 0 .. Messages
    BY DEF TypeOK
<1>2. Free # {} /\ session' = [session EXCEPT ![i] = Session(g, pos)]
    BY DEF StartSession, Opens
<1>3. Session(g, pos) \in SessionType
    BY <1>1 DEF Session, SessionType
<1>4. i \in Free /\ Free \subseteq Slots /\ session \in [Slots -> SessionType]
    BY <1>2 DEF Free, TypeOK, SessionType
<1>5. /\ session' \in [Slots -> SessionType]
      /\ session'[i] = Session(g, pos) /\ session'[i] \in SessionType
      /\ \A j \in Slots \ {i} : session'[j] = session[j]
  <2> HIDE DEF i, pos
  <2> QED BY <1>2, <1>3, <1>4
<1>6. \/ committed[g] = pos /\ skipped' = skipped
      \/ /\ committed[g] = NoOffset /\ pos = log[g]
         /\ skipped' = [skipped EXCEPT ![g] = @ \cup ((1 .. pos) \ handled[g])]
    BY DEF StartSession
<1> HIDE DEF i, pos
<1>7. 1 .. pos \subseteq 1 .. Messages /\ skipped \in [Groups -> SUBSET (1 .. Messages)]
    BY <1>1, KafkaAssumption DEF TypeOK, KafkaAssumption
<1>8. skipped' \in [Groups -> SUBSET (1 .. Messages)] /\ \A h \in Groups : skipped[h] \subseteq skipped'[h]
    BY <1>6, <1>7
<1> QED BY <1>1, <1>4, <1>5, <1>6, <1>8

\* A close changes streams only, and leaves none of its groups open.
LEMMA CloseFacts ==
    ASSUME session \in [Slots -> SessionType], NEW gs, Closes(gs)
    PROVE  /\ session' \in [Slots -> SessionType]
           /\ \A j \in Slots :
                /\ session'[j].group = session[j].group
                /\ session'[j].pos = session[j].pos
                /\ session'[j].at = session[j].at
                /\ session'[j].stream = "open" =>
                     session[j].stream = "open" /\ session[j].group \notin gs
                /\ session'[j].stream = "closing" => session[j].stream \in {"open", "closing"}
                /\ session[j].stream = "none" => session'[j].stream = "none"
<1>1. ASSUME NEW ok, CloseAll(gs, ok)
      PROVE  /\ session' \in [Slots -> SessionType]
             /\ \A j \in Slots :
                  /\ session'[j].group = session[j].group
                  /\ session'[j].pos = session[j].pos
                  /\ session'[j].at = session[j].at
                  /\ session'[j].stream = "open" =>
                       session[j].stream = "open" /\ session[j].group \notin gs
                  /\ session'[j].stream = "closing" => session[j].stream \in {"open", "closing"}
                  /\ session[j].stream = "none" => session'[j].stream = "none"
    BY <1>1 DEF CloseAll, SessionType
<1> QED BY <1>1 DEF Closes

LEMMA CloseFaults ==
    ASSUME faults \in 0 .. MaxFaults, NEW gs, Closes(gs)
    PROVE  faults' \in 0 .. MaxFaults /\ \A n \in 0 .. faults : n \in 0 .. faults'
BY KafkaAssumption DEF Closes, Fault, KafkaAssumption

-----------------------------------------------------------------------------
(* Types *)

LEMMA NoTaskTyped == NoTask \in TaskType
BY KafkaAssumption DEF NoTask, TaskType, KafkaAssumption

LEMMA FailureTyped ==
    ASSUME TypeOK, HandleFailure
    PROVE  health' \in States /\ task' \in TaskType /\ requested' \in BOOLEAN
<1>1. Attempt(1) \in TaskType
    BY KafkaAssumption DEF Attempt, TaskType, KafkaAssumption
<1>2. CASE stopping
    BY <1>2 DEF HandleFailure, TypeOK, TaskType
<1>3. CASE ~stopping
  <2>1. health' = "reconnecting" /\ task' \in {Attempt(1), task}
      BY <1>3 DEF HandleFailure
  <2>2. requested' = (requested \/ (task # NoTask /\ (Candidate \/ health = "ready")))
      BY <1>3 DEF HandleFailure
  <2>3. task \in TaskType /\ requested \in BOOLEAN
      BY DEF TypeOK, TaskType
  <2>4. requested' \in BOOLEAN
      BY <2>2
  <2> QED BY <1>1, <2>1, <2>3, <2>4 DEF States
<1> QED BY <1>2, <1>3

LEMMA AttemptTyped ==
    ASSUME TypeOK, AttemptFails
    PROVE  health' \in States /\ task' \in TaskType /\ requested' \in BOOLEAN
<1>1. task \in TaskType /\ health \in States /\ requested' = FALSE
    BY DEF TypeOK, TaskType, AttemptFails
<1>2. CASE task.attempt < Retries
  <2>1. task' = Attempt(task.attempt + 1) /\ health' = health
      BY <1>2 DEF AttemptFails
  <2>2. task.attempt + 1 \in 0 .. Retries
      BY <1>1, <1>2, KafkaAssumption DEF TaskType, KafkaAssumption
  <2> QED BY <1>1, <2>1, <2>2 DEF Attempt, TaskType
<1>3. CASE ~(task.attempt < Retries)
    BY <1>1, <1>3 DEF AttemptFails, Ends, TaskType, States
<1> QED BY <1>2, <1>3

\* The circuit breaker counts no more failures than there are.
LEMMA BreakerTyped ==
    ASSUME faults \in 0 .. MaxFaults, failures \in 0 .. faults, Succeeds \/ Fails
    PROVE  faults' \in 0 .. MaxFaults /\ failures' \in 0 .. faults'
BY KafkaAssumption DEF Succeeds, Fails, Fault, KafkaAssumption

LEMMA AdmittedTyped ==
    ASSUME faults \in Nat, failures \in 0 .. faults, Admitted
    PROVE  failures' \in 0 .. faults
BY DEF Admitted

LEMMA FaultTyped ==
    ASSUME faults \in 0 .. MaxFaults, Fault
    PROVE  faults' \in 0 .. MaxFaults /\ \A n \in 0 .. faults : n \in 0 .. faults'
BY KafkaAssumption DEF Fault, KafkaAssumption

LEMMA TypeInit == Init => TypeOK /\ Positions
<1> SUFFICES ASSUME Init PROVE TypeOK /\ Positions
    OBVIOUS
<1>1. session \in FirstSessions
    BY SlotsSuffice DEF Init
<1>2. \A g \in Groups : Session(g, 0) \in SessionType
    BY KafkaAssumption DEF Session, SessionType, KafkaAssumption
<1>3. session \in [Slots -> SessionType]
    BY <1>1, <1>2, NoSessionTyped DEF FirstSessions
<1>4. TypeOK
  <2>1. task \in TaskType
      BY NoTaskTyped DEF Init
  <2>2. health \in States /\ configured \subseteq Groups
      BY DEF Init, States
  <2>3. /\ log \in [Groups -> 0 .. Messages] /\ committed \in [Groups -> {NoOffset} \cup (0 .. Messages)]
        /\ handled \in [Groups -> SUBSET (1 .. Messages)]
        /\ skipped \in [Groups -> SUBSET (1 .. Messages)]
      BY KafkaAssumption DEF Init, KafkaAssumption
  <2>4. requested \in BOOLEAN /\ stopping \in BOOLEAN
      BY DEF Init
  <2>5. faults \in 0 .. MaxFaults /\ failures \in 0 .. faults /\ calls \in 0 .. MaxCalls
      BY KafkaAssumption DEF Init, KafkaAssumption
  <2> QED BY <1>3, <2>1, <2>2, <2>3, <2>4, <2>5 DEF TypeOK, SessionType, TaskType
<1>5. \A i \in Slots : session[i].pos = 0 /\ session[i].at = "idle"
    BY <1>1 DEF FirstSessions, NoSession, Session
<1>6. Positions
    BY <1>5 DEF Positions
<1> QED BY <1>4, <1>6

\* The message a loop is busy with is one of the log.
LEMMA Room ==
    ASSUME TypeOK, Positions, NEW i \in Slots, session[i].at # "idle"
    PROVE  session[i].group \in Groups /\ session[i].pos + 1 \in 1 .. Messages
<1>1. /\ session[i].group \in Groups /\ session[i].pos \in 0 .. Messages
      /\ log[session[i].group] \in 0 .. Messages
    BY DEF TypeOK
<1>2. session[i].pos < log[session[i].group]
    BY DEF Positions
<1> QED BY <1>1, <1>2, KafkaAssumption DEF KafkaAssumption

LEMMA TypeStep == TypeOK /\ Positions /\ [Next]_vars => TypeOK'
<1> SUFFICES ASSUME TypeOK, Positions, [Next]_vars PROVE TypeOK'
    OBVIOUS
<1>0. /\ session \in [Slots -> SessionType] /\ task \in TaskType
      /\ (session' \in [Slots -> SessionType] /\ task' \in TaskType
          /\ health' \in States /\ configured' \subseteq Groups
          /\ log' \in [Groups -> 0 .. Messages]
          /\ committed' \in [Groups -> {NoOffset} \cup (0 .. Messages)]
          /\ handled' \in [Groups -> SUBSET (1 .. Messages)]
          /\ skipped' \in [Groups -> SUBSET (1 .. Messages)]
          /\ requested' \in BOOLEAN /\ stopping' \in BOOLEAN
          /\ faults' \in 0 .. MaxFaults /\ failures' \in 0 .. faults' /\ calls' \in 0 .. MaxCalls
          => TypeOK')
    BY DEF TypeOK, SessionType, TaskType
<1>1. ASSUME NEW i \in Slots, Fetch(i) PROVE TypeOK'
    BY <1>0, <1>1, SetFacts DEF Fetch, TypeOK
<1>2. ASSUME NEW i \in Slots, Handled(i) PROVE TypeOK'
  <2>1. session[i].group \in Groups /\ session[i].pos + 1 \in 1 .. Messages
      BY <1>0, <1>2, Room DEF Handled, SessionType
  <2>2. handled' \in [Groups -> SUBSET (1 .. Messages)]
      BY <1>2, <2>1 DEF Handled, TypeOK
  <2> QED BY <1>0, <1>2, <2>2, SetFacts DEF Handled, TypeOK
<1>3. ASSUME NEW i \in Slots, Commit(i) PROVE TypeOK'
  <2>1. session[i].group \in Groups /\ session[i].pos + 1 \in 0 .. Messages
      BY <1>0, <1>3, Room DEF Commit, SessionType
  <2>2. committed' \in [Groups -> {NoOffset} \cup (0 .. Messages)]
      BY <1>3, <2>1 DEF Commit, TypeOK
  <2>3. session' \in [Slots -> SessionType]
      BY <1>0, <1>3, <2>1 DEF Commit, SessionType
  <2> QED BY <1>0, <1>3, <2>2, <2>3 DEF Commit, TypeOK
<1>4. ASSUME NEW i \in Slots, CommitFails(i) \/ StreamFails(i) PROVE TypeOK'
    BY <1>0, <1>4, FailureTyped, FaultTyped, LoopEndsFacts DEF CommitFails, StreamFails, TypeOK
<1>5. ASSUME NEW i \in Slots, Drained(i) PROVE TypeOK'
    BY <1>0, <1>5, LoopEndsFacts DEF Drained, TypeOK
<1>6. CASE Produce
    BY <1>0, <1>6, AdmittedTyped, KafkaAssumption DEF Produce, TypeOK, KafkaAssumption
<1>18. CASE Produced
  <2>1. calls' \in 0 .. MaxCalls
      BY <1>18, KafkaAssumption DEF Produced, TypeOK, KafkaAssumption
  <2> QED BY <1>0, <1>18, <2>1, BreakerTyped DEF Produced, TypeOK
<1>19. ASSUME NEW g \in Groups, Arrive(g) PROVE TypeOK'
  <2>1. log' \in [Groups -> 0 .. Messages]
      BY <1>19, KafkaAssumption DEF Arrive, TypeOK, KafkaAssumption
  <2> QED BY <1>0, <1>19, <2>1 DEF Arrive, TypeOK
<1>7. CASE ProducerFails
    BY <1>0, <1>7, FailureTyped, FaultTyped DEF ProducerFails, TypeOK
<1>8. CASE TaskCloses
  <2>1. [task EXCEPT !.at = "done", !.groups = {}] \in TaskType
        /\ [task EXCEPT !.at = "close", !.groups = configured] \in TaskType
      BY <1>0 DEF TaskType, TypeOK
  <2>2. CASE stopping
      BY <1>0, <1>8, <2>1, <2>2 DEF TaskCloses, Ends, TypeOK
  <2>3. CASE ~stopping
      BY <1>0, <1>8, <2>1, <2>3, CloseFacts, CloseFaults DEF TaskCloses, TypeOK
  <2> QED BY <2>2, <2>3
<1>9. CASE TaskClosed
  <2>1. [task EXCEPT !.at = "done", !.groups = {}] \in TaskType
        /\ [task EXCEPT !.at = "start"] \in TaskType
      BY <1>0 DEF TaskType
  <2> QED BY <1>0, <1>9, <2>1 DEF TaskClosed, Ends, TypeOK, States
<1>10. CASE TaskStarts
  <2>1. task' \in TaskType
      BY <1>0, <1>10 DEF TaskStarts, TaskType
  <2> QED BY <1>0, <1>10, <2>1, AdmittedTyped, KafkaAssumption DEF TaskStarts, TypeOK, KafkaAssumption
<1>20. CASE TaskStarted
  <2>1. PICK g \in task.groups :
          /\ StartSession(g) /\ Succeeds
          /\ task' = [task EXCEPT !.at = "start", !.groups = @ \ {g}]
      BY <1>20 DEF TaskStarted
  <2>2. g \in Groups /\ task' \in TaskType
      BY <1>0, <2>1 DEF TaskType
  <2>3. session' \in [Slots -> SessionType] /\ skipped' \in [Groups -> SUBSET (1 .. Messages)]
      BY <2>1, <2>2, StartFacts
  <2> QED BY <1>0, <1>20, <2>1, <2>2, <2>3, BreakerTyped DEF TaskStarted, TypeOK
<1>11. CASE TaskFails
  <2>1. faults' \in 0 .. MaxFaults /\ failures' \in 0 .. faults'
      BY <1>11, BreakerTyped, FaultTyped DEF TaskFails, TypeOK
  <2> QED BY <1>0, <1>11, <2>1, AttemptTyped DEF TaskFails, TypeOK
<1>12. CASE TaskReady
  <2>1. [task EXCEPT !.at = "done", !.groups = {}] \in TaskType
      BY <1>0 DEF TaskType
  <2> QED BY <1>0, <1>12, <2>1, AttemptTyped DEF TaskReady, Ends, TypeOK, States
<1>13. CASE TaskFinally
  <2>1. Attempt(1) \in TaskType
      BY KafkaAssumption DEF Attempt, TaskType, KafkaAssumption
  <2> QED BY <1>0, <1>13, <2>1, NoTaskTyped DEF TaskFinally, TypeOK, States
<1>14. CASE Shutdown
    BY <1>0, <1>14 DEF Shutdown, TypeOK
<1>15. CASE ShutdownCloses
    BY <1>0, <1>15, CloseFacts, CloseFaults DEF ShutdownCloses, TypeOK
<1>16. CASE ShutdownEnds
    BY <1>0, <1>16 DEF ShutdownEnds, TypeOK, States
<1>17. CASE UNCHANGED vars
    BY <1>17 DEF vars, TypeOK
<1> QED
    BY <1>1, <1>2, <1>3, <1>4, <1>5, <1>6, <1>7, <1>8, <1>9, <1>10, <1>11, <1>12, <1>13,
       <1>14, <1>15, <1>16, <1>17, <1>18, <1>19, <1>20
    DEF Next, Loop, Reconnect

-----------------------------------------------------------------------------
(* Offsets *)

\* Only a commit moves an offset, past the message its loop has handled.
LEMMA OffsetsStep ==
    TypeOK /\ NothingSkipped /\ Positions /\ [Next]_vars => NothingSkipped' /\ Positions'
<1> SUFFICES ASSUME TypeOK, NothingSkipped, Positions, [Next]_vars
             PROVE  NothingSkipped' /\ Positions'
    OBVIOUS
<1>0. /\ session \in [Slots -> SessionType]
      /\ log \in [Groups -> 0 .. Messages]
      /\ committed \in [Groups -> {NoOffset} \cup (0 .. Messages)]
      /\ handled \in [Groups -> SUBSET (1 .. Messages)]
      /\ skipped \in [Groups -> SUBSET (1 .. Messages)]
      /\ \A i \in Slots : session[i].group \in Groups /\ session[i].pos \in 0 .. Messages
    BY DEF TypeOK, SessionType
<1>1. ASSUME NEW i \in Slots, Fetch(i) PROVE NothingSkipped' /\ Positions'
  <2>1. /\ NothingSkipped' /\ session[i].pos < log[session[i].group] /\ Set(i, "handling")
        /\ UNCHANGED <<log, handled, skipped>>
      BY <1>1 DEF Fetch, NothingSkipped
  <2> QED BY <1>0, <2>1, SetFacts DEF Positions
<1>2. ASSUME NEW i \in Slots, Handled(i) PROVE NothingSkipped' /\ Positions'
  <2>1. /\ session[i].at = "handling" /\ Set(i, "commit") /\ UNCHANGED <<log, committed, skipped>>
        /\ handled' = [handled EXCEPT ![session[i].group] = @ \cup {session[i].pos + 1}]
      BY <1>2 DEF Handled
  <2>2. \A g \in Groups : handled[g] \subseteq handled'[g]
      BY <1>0, <2>1
  <2>3. session[i].pos + 1 \in handled'[session[i].group]
      BY <1>0, <2>1
  <2>4. NothingSkipped'
      BY <2>1, <2>2 DEF NothingSkipped
  <2>5. Positions'
      BY <1>0, <2>1, <2>2, <2>3, SetFacts DEF Positions
  <2> QED BY <2>4, <2>5
<1>3. ASSUME NEW i \in Slots, Commit(i) PROVE NothingSkipped' /\ Positions'
  <2>1. /\ session[i].at = "commit" /\ UNCHANGED <<log, handled, skipped>>
        /\ session' = [session EXCEPT ![i].at = "idle", ![i].pos = @ + 1]
        /\ committed' = [committed EXCEPT ![session[i].group] = session[i].pos + 1]
      BY <1>3 DEF Commit
  <2>2. 1 .. (session[i].pos + 1) = (1 .. session[i].pos) \cup {session[i].pos + 1}
      BY <1>0, KafkaAssumption DEF KafkaAssumption
  <2>3. 1 .. (session[i].pos + 1) \subseteq Settled(session[i].group)
      BY <2>1, <2>2 DEF Positions
  <2>4. NothingSkipped'
      BY <1>0, <2>1, <2>3 DEF NothingSkipped
  <2>5. /\ session'[i].at = "idle" /\ session'[i].pos = session[i].pos + 1
        /\ session'[i].group = session[i].group
        /\ \A j \in Slots \ {i} : session'[j] = session[j]
      BY <1>0, <2>1 DEF SessionType
  <2>6. Positions'
      BY <2>1, <2>3, <2>5 DEF Positions
  <2> QED BY <2>4, <2>6
<1>4. ASSUME NEW i \in Slots, CommitFails(i) \/ StreamFails(i) \/ Drained(i)
      PROVE  NothingSkipped' /\ Positions'
  <2>1. LoopEnds(i) /\ UNCHANGED <<log, committed, handled, skipped>>
      BY <1>4 DEF CommitFails, StreamFails, Drained
  <2>2. NoSession.pos = 0 /\ NoSession.at = "idle" /\ 1 .. 0 = {}
      BY DEF NoSession
  <2> QED BY <1>0, <2>1, <2>2, LoopEndsFacts DEF NothingSkipped, Positions
<1>5. ASSUME NEW gs, Closes(gs), UNCHANGED <<log, committed, handled, skipped>>
      PROVE  NothingSkipped' /\ Positions'
    BY <1>0, <1>5, CloseFacts DEF NothingSkipped, Positions
<1>6. CASE TaskCloses
    BY <1>5, <1>6 DEF TaskCloses, NothingSkipped, Positions
<1>7. CASE TaskStarted
  <2>1. PICK g \in task.groups : StartSession(g)
      BY <1>7 DEF TaskStarted
  <2>2. g \in Groups /\ UNCHANGED <<log, committed, handled>>
      BY <1>7 DEF TypeOK, TaskStarted
  <2>3. PICK i \in Free, pos \in 0 .. Messages :
          /\ session'[i] = Session(g, pos)
          /\ \A j \in Slots \ {i} : session'[j] = session[j]
          /\ \/ committed[g] = pos /\ skipped' = skipped
             \/ /\ committed[g] = NoOffset /\ pos = log[g]
                /\ skipped' = [skipped EXCEPT ![g] = @ \cup ((1 .. pos) \ handled[g])]
      BY <2>1, <2>2, StartFacts
  <2>4. \A h \in Groups : skipped[h] \subseteq skipped'[h]
      BY <2>1, <2>2, StartFacts
  <2>5. 1 .. pos \subseteq handled[g] \cup skipped'[g]
      BY <1>0, <2>2, <2>3 DEF NothingSkipped
  <2>6. Session(g, pos).pos = pos /\ Session(g, pos).group = g /\ Session(g, pos).at = "idle"
      BY DEF Session
  <2>7. NothingSkipped'
      BY <2>2, <2>4 DEF NothingSkipped
  <2>8. ASSUME NEW j \in Slots
        PROVE  /\ 1 .. session'[j].pos \subseteq handled'[session'[j].group] \cup skipped'[session'[j].group]
               /\ session'[j].at # "idle" => session'[j].pos < log'[session'[j].group]
               /\ session'[j].at = "commit" => session'[j].pos + 1 \in handled'[session'[j].group]
    <3>1. CASE j = i
        BY <2>2, <2>3, <2>5, <2>6, <3>1
    <3>2. CASE j # i
        BY <1>0, <2>2, <2>3, <2>4, <3>2 DEF Positions
    <3> QED BY <3>1, <3>2
  <2> QED BY <2>7, <2>8 DEF Positions
<1>12. ASSUME NEW g \in Groups, Arrive(g) PROVE NothingSkipped' /\ Positions'
  <2>1. /\ UNCHANGED <<session, committed, handled, skipped>>
        /\ \A h \in Groups : log[h] \in 0 .. Messages /\ log'[h] \in {log[h], log[h] + 1}
      BY <1>0, <1>12 DEF Arrive
  <2>2. \A i \in Slots : session[i].pos < log[session[i].group] => session[i].pos < log'[session[i].group]
      BY <1>0, <2>1, KafkaAssumption DEF KafkaAssumption
  <2> QED BY <2>1, <2>2 DEF NothingSkipped, Positions
<1>8. ASSUME UNCHANGED <<session, log, committed, handled, skipped>>
      PROVE  NothingSkipped' /\ Positions'
    BY <1>8 DEF NothingSkipped, Positions
<1>9. CASE \/ Produce \/ Produced \/ ProducerFails \/ TaskClosed \/ TaskStarts \/ TaskFails
           \/ TaskReady \/ TaskFinally
    BY <1>8, <1>9 DEF Produce, Produced, ProducerFails, TaskClosed, TaskStarts, TaskFails,
         TaskReady, TaskFinally
<1>10. CASE Shutdown \/ ShutdownEnds \/ UNCHANGED vars
    BY <1>8, <1>10 DEF Shutdown, ShutdownEnds, vars
<1>11. CASE ShutdownCloses
    BY <1>5, <1>11 DEF ShutdownCloses
<1> QED
    BY <1>1, <1>2, <1>3, <1>4, <1>6, <1>7, <1>9, <1>10, <1>11, <1>12 DEF Next, Loop, Reconnect

-----------------------------------------------------------------------------
(* Sessions *)

\* HandleFailure starts a task or leaves the one there is.
LEMMA FailureTask ==
    ASSUME HandleFailure
    PROVE  task' = task \/ (task = NoTask /\ task' = Attempt(1))
BY DEF HandleFailure

\* A step that opens no session keeps what a rebuild knows of its groups.
LEMMA RebuildKept ==
    ASSUME TypeOK, Rebuild, configured' = configured, task' = task,
           \A j \in Slots :
             session'[j].stream \in {"open", "closing"} =>
               session'[j].stream = session[j].stream /\ session'[j].group = session[j].group
    PROVE  Rebuild'
BY DEF Rebuild, Candidate

\* A session is started by a rebuild that has waited for those before it.
LEMMA SessionsStep ==
    TypeOK /\ OneSession /\ Rebuild /\ [Next]_vars => OneSession' /\ Rebuild'
<1> SUFFICES ASSUME TypeOK, OneSession, Rebuild, [Next]_vars
             PROVE  OneSession' /\ Rebuild'
    OBVIOUS
<1>0. session \in [Slots -> SessionType] /\ task \in TaskType
    BY DEF TypeOK, SessionType, TaskType
<1>1. ASSUME \A j \in Slots :
               session'[j].stream \in {"open", "closing"} =>
                 session'[j].stream = session[j].stream /\ session'[j].group = session[j].group
      PROVE  OneSession'
    BY <1>1 DEF OneSession
<1>2. ASSUME NEW i \in Slots, Fetch(i) \/ Handled(i) \/ Commit(i)
      PROVE  OneSession' /\ Rebuild'
  <2>1. \A j \in Slots : /\ session'[j].stream = session[j].stream
                         /\ session'[j].group = session[j].group
      BY <1>0, <1>2, SetFacts DEF Fetch, Handled, Commit, SessionType
  <2>2. task' = task /\ configured' = configured
      BY <1>2 DEF Fetch, Handled, Commit
  <2> QED BY <1>1, <2>1, <2>2, RebuildKept
<1>3. ASSUME NEW i \in Slots, CommitFails(i) \/ StreamFails(i) \/ Drained(i)
      PROVE  OneSession' /\ Rebuild'
  <2>1. LoopEnds(i) /\ configured' = configured
      BY <1>3 DEF CommitFails, StreamFails, Drained
  <2>2. \A j \in Slots :
           session'[j].stream \in {"open", "closing"} =>
             session'[j].stream = session[j].stream /\ session'[j].group = session[j].group
      BY <1>0, <2>1, LoopEndsFacts, NoSessionTyped
  <2>3. task' = task \/ task' = Attempt(1)
      BY <1>3, FailureTask DEF CommitFails, StreamFails, Drained
  <2>4. CASE task' = task
      BY <1>1, <2>1, <2>2, <2>4, RebuildKept
  <2>5. CASE task' = Attempt(1)
      BY <1>1, <2>2, <2>5 DEF Attempt, Rebuild, Candidate
  <2> QED BY <2>3, <2>4, <2>5
<1>4. ASSUME UNCHANGED session,
             task'.at \notin {"close", "start", "session"} \/ UNCHANGED <<task, configured>>
      PROVE  OneSession' /\ Rebuild'
    BY <1>1, <1>4 DEF Rebuild, Candidate
<1>5. CASE (\E g \in Groups : Arrive(g)) \/ Produce \/ Produced \/ Shutdown \/ UNCHANGED vars
    BY <1>4, <1>5 DEF Arrive, Produce, Produced, Shutdown, vars
<1>6. CASE ProducerFails
    BY <1>4, <1>6, FailureTask DEF ProducerFails, Attempt
<1>7. ASSUME NEW gs, Closes(gs) PROVE OneSession'
  <2>1. \A j \in Slots : /\ session'[j].group = session[j].group
                         /\ session'[j].stream \in {"open", "closing"} =>
                              session[j].stream \in {"open", "closing"}
      BY <1>0, <1>7, CloseFacts
  <2> QED BY <2>1 DEF OneSession
<1>8. CASE TaskCloses
  <2>1. CASE stopping
    <3>1. UNCHANGED session /\ task'.at = "done"
        BY <1>0, <1>8, <2>1 DEF TaskCloses, Ends, TaskType
    <3> QED BY <1>4, <3>1
  <2>2. CASE ~stopping
    <3>1. Closes(configured) /\ configured' = configured
          /\ task'.at = "close" /\ task'.groups = configured
        BY <1>0, <1>8, <2>2 DEF TaskCloses, TaskType
    <3> QED BY <1>0, <1>7, <3>1, CloseFacts DEF Rebuild, Candidate
  <2> QED BY <2>1, <2>2
<1>9. CASE TaskClosed
  <2>1. CASE stopping
    <3>1. UNCHANGED session /\ task'.at = "done"
        BY <1>0, <1>9, <2>1 DEF TaskClosed, Ends, TaskType
    <3> QED BY <1>4, <3>1
  <2>2. CASE ~stopping
    <3>1. /\ task.at = "close" /\ Closing = {} /\ UNCHANGED session
          /\ task'.at = "start" /\ task'.groups = task.groups
        BY <1>0, <1>9, <2>2 DEF TaskClosed, TaskType
    <3> QED BY <1>1, <3>1 DEF Rebuild, Candidate, Closing
  <2> QED BY <2>1, <2>2
<1>17. CASE TaskStarts
  <2>1. /\ UNCHANGED session /\ task.at = "start"
        /\ task'.at = "session" /\ task'.groups = task.groups
      BY <1>0, <1>17 DEF TaskStarts, TaskType
  <2> QED BY <1>1, <2>1 DEF Rebuild, Candidate
<1>10. CASE TaskStarted
  <2>1. PICK g \in task.groups :
          StartSession(g) /\ task' = [task EXCEPT !.at = "start", !.groups = @ \ {g}]
      BY <1>10 DEF TaskStarted
  <2>2. g \in Groups /\ task.at = "session"
        /\ task'.at = "start" /\ task'.groups = task.groups \ {g}
      BY <1>0, <1>10, <2>1 DEF TaskStarted, TaskType
  <2>3. PICK i \in Free, pos \in 0 .. Messages :
          /\ session'[i] = Session(g, pos)
          /\ \A j \in Slots \ {i} : session'[j] = session[j]
      BY <2>1, <2>2, StartFacts
  <2>4. Session(g, pos).group = g
      BY DEF Session
  <2>5. \A j \in Slots : session[j].stream \in {"open", "closing"} => session[j].group # g
      BY <2>2 DEF Rebuild, Candidate
  <2>6. OneSession'
      BY <2>3, <2>4, <2>5 DEF OneSession
  <2>7. Rebuild'
      BY <2>2, <2>3, <2>4 DEF Rebuild, Candidate
  <2> QED BY <2>6, <2>7
<1>11. ASSUME AttemptFails PROVE task'.at \notin {"close", "start", "session"}
  <2>1. Attempt(task.attempt + 1).at = "wait"
      BY DEF Attempt
  <2>2. [task EXCEPT !.at = "done", !.groups = {}].at = "done"
      BY <1>0 DEF TaskType
  <2> QED BY <1>11, <2>1, <2>2 DEF AttemptFails, Ends
<1>12. CASE TaskFails
    BY <1>4, <1>11, <1>12 DEF TaskFails
<1>13. CASE TaskReady
  <2>1. task'.at \notin {"close", "start", "session"}
      BY <1>0, <1>11, <1>13 DEF TaskReady, Ends, TaskType
  <2> QED BY <1>4, <1>13, <2>1 DEF TaskReady
<1>14. CASE TaskFinally
    BY <1>4, <1>14 DEF TaskFinally, NoTask, Attempt
<1>15. CASE ShutdownCloses
  <2>1. task' = NoTask /\ Closes(Groups)
      BY <1>15 DEF ShutdownCloses
  <2> QED BY <1>7, <2>1 DEF NoTask, Rebuild, Candidate
<1>16. CASE ShutdownEnds
  <2>1. UNCHANGED session /\ task' = NoTask
      BY <1>16 DEF ShutdownEnds
  <2>2. NoTask.at = "none"
      BY DEF NoTask
  <2> QED BY <1>4, <2>1, <2>2
<1> QED
    BY <1>2, <1>3, <1>5, <1>6, <1>8, <1>9, <1>10, <1>12, <1>13, <1>14, <1>15, <1>16, <1>17
    DEF Next, Loop, Reconnect

-----------------------------------------------------------------------------
(* Readiness and shutdown *)

\* A loop that ends for a failure is noted: by a new task, or by requested when
\* the task is past the point where it would see it.
LEMMA FailureRunning ==
    ASSUME TypeOK, HandleFailure, stopping' = stopping
    PROVE  Running'
<1>1. CASE stopping
    BY <1>1 DEF Running, Candidate
<1>2. CASE ~stopping
  <2>1. /\ health' = "reconnecting"
        /\ task' = (IF task = NoTask THEN Attempt(1) ELSE task)
        /\ requested' = (requested \/ (task # NoTask /\ (Candidate \/ health = "ready")))
      BY <1>2 DEF HandleFailure
  <2>2. CASE task = NoTask
    <3>1. task'.at = "wait"
        BY <2>1, <2>2 DEF Attempt
    <3> QED BY <2>1, <3>1 DEF Running, Candidate
  <2>3. CASE task # NoTask
    <3>1. task' = task
        BY <2>1, <2>3
    <3>2. Candidate => requested'
        BY <2>1, <2>3
    <3> QED BY <2>1, <3>1, <3>2 DEF Running, Candidate
  <2> QED BY <2>2, <2>3
<1> QED BY <1>1, <1>2

\* A step that ends no open session and leaves the rebuild alone.
LEMMA RunningKept ==
    ASSUME Running, UNCHANGED <<health, configured, task, requested, stopping>>,
           \A j \in Slots : session[j].stream = "open" =>
             session'[j].stream = "open" /\ session'[j].group = session[j].group
    PROVE  Running'
<1>1. ASSUME NEW g, OpenSessions(g) # {} PROVE OpenSessions(g)' # {}
    BY <1>1 DEF OpenSessions
<1>2. ASSUME NEW gs, Consumed(gs) PROVE Consumed(gs)'
    BY <1>1, <1>2 DEF Consumed
<1> QED BY <1>2 DEF Running, Candidate, Consumed

\* An attempt that fails ends the task with failed, or leads to the next one.
LEMMA AttemptRunning ==
    ASSUME TypeOK, AttemptFails, ~stopping
    PROVE  Running'
<1>1. CASE task.attempt < Retries
  <2>1. task' = Attempt(task.attempt + 1)
      BY <1>1 DEF AttemptFails
  <2>2. task'.at = "wait" /\ task' # NoTask
      BY <2>1 DEF Attempt, NoTask
  <2> QED BY <2>2 DEF Running, Candidate
<1>2. CASE ~(task.attempt < Retries)
  <2>1. health' = "failed" /\ task' = [task EXCEPT !.at = "done", !.groups = {}]
      BY <1>2 DEF AttemptFails, Ends
  <2>2. task'.at = "done"
      BY <2>1 DEF TypeOK
  <2> QED BY <2>1, <2>2 DEF Running, Candidate
<1> QED BY <1>1, <1>2

\* Ready is reached with every replacement running, and kept with all of them.
LEMMA RunningStep ==
    TypeOK /\ Rebuild /\ Running /\ [Next]_vars => Running'
<1> SUFFICES ASSUME TypeOK, Rebuild, Running, [Next]_vars
             PROVE  Running'
    OBVIOUS
<1>0. session \in [Slots -> SessionType] /\ task \in TaskType
    BY DEF TypeOK, SessionType, TaskType
<1>1. ASSUME NEW i \in Slots, Fetch(i) \/ Handled(i) \/ Commit(i) PROVE Running'
  <2>1. \A j \in Slots : /\ session'[j].stream = session[j].stream
                         /\ session'[j].group = session[j].group
      BY <1>0, <1>1, SetFacts DEF Fetch, Handled, Commit, SessionType
  <2>2. UNCHANGED <<health, configured, task, requested, stopping>>
      BY <1>1 DEF Fetch, Handled, Commit
  <2> QED BY <2>1, <2>2, RunningKept
<1>2. ASSUME NEW i \in Slots, CommitFails(i) \/ StreamFails(i) PROVE Running'
    BY <1>2, FailureRunning DEF CommitFails, StreamFails
<1>3. ASSUME NEW i \in Slots, Drained(i) PROVE Running'
  <2>1. UNCHANGED <<health, configured, task, requested, stopping>>
        /\ session[i].stream = "closing" /\ LoopEnds(i)
      BY <1>3 DEF Drained
  <2>2. \A j \in Slots : session[j].stream = "open" =>
           session'[j].stream = "open" /\ session'[j].group = session[j].group
      BY <1>0, <2>1, LoopEndsFacts
  <2> QED BY <2>1, <2>2, RunningKept
<1>4. CASE (\E g \in Groups : Arrive(g)) \/ Produce \/ Produced \/ UNCHANGED vars
  <2>1. UNCHANGED <<health, configured, session, task, requested, stopping>>
      BY <1>4 DEF Arrive, Produce, Produced, vars
  <2> QED BY <2>1, RunningKept
<1>5. CASE ProducerFails
    BY <1>5, FailureRunning DEF ProducerFails
<1>6. ASSUME stopping' PROVE Running'
    BY <1>6 DEF Running, Candidate
<1>7. CASE Shutdown \/ ShutdownCloses \/ ShutdownEnds
    BY <1>6, <1>7 DEF Shutdown, ShutdownCloses, ShutdownEnds
<1>8. CASE TaskCloses
  <2>1. CASE ~stopping
    <3>1. task'.at = "close"
        BY <1>0, <1>8, <2>1 DEF TaskCloses, TaskType
    <3> QED BY <3>1 DEF Running, Candidate, NoTask
  <2> QED BY <1>6, <1>8, <2>1 DEF TaskCloses
<1>9. CASE TaskClosed
  <2>1. CASE ~stopping
    <3>1. /\ task.at = "close" /\ configured' = configured
          /\ task'.at = "start" /\ task'.groups = task.groups
        BY <1>0, <1>9, <2>1 DEF TaskClosed, TaskType
    <3>2. configured' \ task'.groups = {}
        BY <3>1 DEF Rebuild
    <3> QED BY <3>1, <3>2 DEF Running, Candidate, Consumed, NoTask
  <2> QED BY <1>6, <1>9, <2>1 DEF TaskClosed
<1>14. CASE TaskStarts
  <2>1. /\ UNCHANGED <<health, configured, session, requested, stopping>> /\ task.at = "start"
        /\ task'.at = "session" /\ task'.groups = task.groups
      BY <1>0, <1>14 DEF TaskStarts, TaskType
  <2> QED BY <2>1 DEF Running, Candidate, Consumed, OpenSessions, NoTask
<1>10. CASE TaskStarted
  <2>1. PICK g \in task.groups :
          StartSession(g) /\ task' = [task EXCEPT !.at = "start", !.groups = @ \ {g}]
      BY <1>10 DEF TaskStarted
  <2>2. /\ g \in Groups /\ task.at = "session" /\ UNCHANGED <<configured, requested, stopping>>
        /\ task'.at = "start" /\ task'.groups = task.groups \ {g}
      BY <1>0, <1>10, <2>1 DEF TaskStarted, TaskType
  <2>3. PICK i \in Free, pos \in 0 .. Messages :
          /\ session'[i] = Session(g, pos)
          /\ \A j \in Slots \ {i} : session'[j] = session[j]
      BY <2>1, <2>2, StartFacts
  <2>4. Session(g, pos).group = g /\ Session(g, pos).stream = "open"
      BY DEF Session
  <2>5. OpenSessions(g)' # {}
      BY <2>3, <2>4 DEF OpenSessions, Free
  <2>6. ASSUME NEW h, OpenSessions(h) # {} PROVE OpenSessions(h)' # {}
      BY <2>3, <2>6 DEF OpenSessions, Free
  <2>7. ASSUME ~stopping, ~requested
        PROVE  \A h \in configured' \ task'.groups : OpenSessions(h)' # {}
    <3>1. Consumed(configured \ task.groups)
        BY <2>2, <2>7 DEF Running, Candidate
    <3> QED BY <2>2, <2>5, <2>6, <3>1 DEF Consumed
  <2>8. task' # NoTask /\ task'.at # "done"
      BY <2>2 DEF NoTask
  <2> QED BY <2>2, <2>7, <2>8 DEF Running, Candidate, Consumed
<1>11. CASE TaskFails
    BY <1>6, <1>11, AttemptRunning DEF TaskFails
<1>12. CASE TaskReady
  <2>1. CASE requested
      BY <1>6, <1>12, <2>1, AttemptRunning DEF TaskReady
  <2>2. CASE ~requested
    <3>1. /\ task.at = "start" /\ task.groups = {} /\ UNCHANGED <<configured, session, stopping>>
          /\ task'.at = "done"
        BY <1>0, <1>12, <2>2 DEF TaskReady, Ends, TaskType
    <3>2. ~stopping => Consumed(configured)
        BY <2>2, <3>1 DEF Running, Candidate, Consumed
    <3> QED BY <3>1, <3>2 DEF Running, Candidate, Consumed, OpenSessions, NoTask
  <2> QED BY <2>1, <2>2
<1>13. CASE TaskFinally
  <2>1. CASE stopping
      BY <1>6, <1>13, <2>1 DEF TaskFinally
  <2>2. CASE ~stopping /\ requested
    <3>1. task' = Attempt(1)
        BY <1>13, <2>2 DEF TaskFinally
    <3> QED BY <3>1 DEF Running, Candidate, Attempt, NoTask
  <2>3. CASE ~stopping /\ ~requested
    <3>1. /\ task.at = "done" /\ task' = NoTask
          /\ UNCHANGED <<health, configured, session, stopping>>
        BY <1>13, <2>3 DEF TaskFinally
    <3>2. NoTask.at = "none"
        BY DEF NoTask
    <3>3. health = "ready" => Consumed(configured)
        BY <2>3, <3>1 DEF Running, Candidate
    <3> QED BY <3>1, <3>2, <3>3 DEF Running, Candidate, Consumed, OpenSessions
  <2> QED BY <2>1, <2>2, <2>3
<1> QED
    BY <1>1, <1>2, <1>3, <1>4, <1>5, <1>7, <1>8, <1>9, <1>10, <1>11, <1>12, <1>13,
       <1>14
    DEF Next, Loop, Reconnect

\* Nothing revives a disabled client, and it is disabled last.
LEMMA StoppedStep ==
    TypeOK /\ Stopped /\ [Next]_vars => Stopped'
<1> SUFFICES ASSUME TypeOK, Stopped, [Next]_vars
             PROVE  Stopped'
    OBVIOUS
<1>0. session \in [Slots -> SessionType]
    BY DEF TypeOK, SessionType
<1>1. CASE ShutdownEnds
  <2>1. /\ stopping' /\ task' = NoTask /\ configured' = {} /\ session' = session
        /\ ~AnyOpen /\ Closing = {}
      BY <1>1 DEF ShutdownEnds
  <2>2. \A i \in Slots : session[i].stream # "open"
      BY <1>0, <2>1 DEF AnyOpen, OpenSessions, SessionType
  <2>3. \A i \in Slots : session[i].stream # "closing"
      BY <2>1 DEF Closing
  <2> QED BY <2>1, <2>2, <2>3 DEF Stopped
<1>2. CASE health # "disabled" /\ ~ShutdownEnds
  <2>1. health' # "disabled"
      BY <1>2 DEF Next, Loop, Reconnect, Fetch, Handled, Commit, Drained, CommitFails,
         StreamFails, HandleFailure, Arrive, Produce, Produced, ProducerFails, TaskCloses,
         TaskClosed, TaskStarts, TaskStarted, TaskFails, TaskReady, TaskFinally, Ends, AttemptFails, Shutdown,
         ShutdownCloses, vars
  <2> QED BY <2>1 DEF Stopped
<1>3. CASE health = "disabled" /\ ~ShutdownEnds
  <2>1. /\ stopping /\ task = NoTask /\ configured = {}
        /\ \A i \in Slots : session[i].stream \notin {"open", "closing"}
      BY <1>3 DEF Stopped
  <2>2. task.at = "none"
      BY <2>1 DEF NoTask
  <2>3. ~Reconnect /\ ~ShutdownCloses /\ ~Shutdown
      BY <2>1, <2>2 DEF Reconnect, TaskCloses, TaskClosed, TaskStarts, TaskStarted, TaskFails,
         TaskReady, TaskFinally, ShutdownCloses, Shutdown
  <2>4. ASSUME NEW i \in Slots, Fetch(i) \/ Handled(i) \/ Commit(i)
        PROVE  \A j \in Slots : session'[j].stream = session[j].stream
      BY <1>0, <2>4, SetFacts DEF Fetch, Handled, Commit, SessionType
  <2>5. ASSUME NEW i \in Slots, CommitFails(i) \/ StreamFails(i) \/ Drained(i)
        PROVE  \A j \in Slots : session'[j].stream \in {session[j].stream, "none"}
      BY <1>0, <2>5, LoopEndsFacts, NoSessionTyped DEF CommitFails, StreamFails, Drained
  <2>6. \A j \in Slots : session'[j].stream \in {session[j].stream, "none"}
      BY <1>3, <2>3, <2>4, <2>5 DEF Next, Loop, Arrive, Produce, Produced, ProducerFails, vars
  <2>7. UNCHANGED <<stopping, task, configured>>
      BY <1>3, <2>1, <2>3 DEF Next, Loop, Fetch, Handled, Commit, Drained, CommitFails,
         StreamFails, HandleFailure, Arrive, Produce, Produced, ProducerFails, vars
  <2> QED BY <2>1, <2>6, <2>7 DEF Stopped
<1> QED BY <1>1, <1>2, <1>3

-----------------------------------------------------------------------------
(* The theorems *)

LEMMA InvInit == Init => Inv
<1> SUFFICES ASSUME Init PROVE Inv
    OBVIOUS
<1>1. TypeOK /\ Positions
    BY TypeInit
<1>2. session \in FirstSessions
    BY SlotsSuffice DEF Init
<1>3. NoSession.stream = "none" /\ NoTask.at = "none"
    BY DEF NoSession, NoTask
<1>4. \A g \in Groups : Session(g, 0).stream = "open" /\ Session(g, 0).group = g
    BY DEF Session
<1>5. NothingSkipped
  <2>1. \A g \in Groups : committed[g] \in {-1, 0}
      BY DEF Init, NoOffset
  <2>2. \A n \in {-1, 0} : 1 .. n = {}
      OBVIOUS
  <2> QED BY <2>1, <2>2 DEF NothingSkipped
<1>6. OneSession
  <2> SUFFICES ASSUME NEW i \in Slots, NEW j \in Slots, session[i].group = session[j].group,
                      {session[i].stream, session[j].stream} \subseteq {"open", "closing"}
               PROVE  i = j
      BY DEF OneSession
  <2>1. PICK g \in Groups : session[i] = Session(g, 0)
      BY <1>2, <1>3 DEF FirstSessions
  <2>2. PICK h \in Groups : session[j] = Session(h, 0)
      BY <1>2, <1>3 DEF FirstSessions
  <2>3. g = h
      BY <1>4, <2>1, <2>2
  <2>4. PICK k \in Slots : {l \in Slots : session[l] = Session(g, 0)} = {k}
      BY <1>2 DEF FirstSessions
  <2> QED BY <2>1, <2>2, <2>3, <2>4
<1>7. Rebuild
    BY <1>3 DEF Init, Rebuild, Candidate
<1>8. Running
  <2>1. ASSUME NEW g \in Groups PROVE OpenSessions(g) # {}
    <3>1. PICK k \in Slots : {l \in Slots : session[l] = Session(g, 0)} = {k}
        BY <1>2 DEF FirstSessions
    <3> QED BY <1>4, <3>1 DEF OpenSessions
  <2> QED BY <1>3, <2>1 DEF Init, Running, Candidate, Consumed
<1>9. Stopped
    BY DEF Init, Stopped
<1> QED BY <1>1, <1>5, <1>6, <1>7, <1>8, <1>9 DEF Inv

LEMMA InvStep == Inv /\ [Next]_vars => Inv'
BY TypeStep, OffsetsStep, SessionsStep, RunningStep, StoppedStep DEF Inv

LEMMA InvAlways == Spec => []Inv
BY InvInit, InvStep, PTL DEF Spec

\* Every variable of the client keeps its type, whatever fails and however the
\* rebuild and the shutdown meet (the fields of KafkaService).
THEOREM KafkaTypeCorrect == Spec => []TypeOK
<1>1. Inv => TypeOK
    BY DEF Inv
<1> QED BY <1>1, InvAlways, PTL

\* However often commits fail, sessions are replaced and loops run on detached,
\* the committed offset of a group never passes a message nobody has handled, but
\* those a session without an offset has passed over (startConsumerSession).
THEOREM NothingEverSkipped == Spec => []NothingSkipped
<1>1. Inv => NothingSkipped
    BY DEF Inv
<1> QED BY <1>1, InvAlways, PTL

\* No group is consumed twice by sessions the client holds or waits for
\* (restartKafkaClients closes the old clients and waits for their loops).
THEOREM OneSessionAlways == Spec => []OneSession
<1>1. Inv => OneSession
    BY DEF Inv
<1> QED BY <1>1, InvAlways, PTL

\* Ready with no rebuild pending means that every group has an open session: a
\* failure is never lost between a rebuild and its end (scheduleReconnect).
THEOREM ReadyAlwaysMeansRunning == Spec => []ReadyMeansRunning
<1>1. Inv => ReadyMeansRunning
    BY DEF Inv, Running, Candidate, Consumed, ReadyMeansRunning
<1> QED BY <1>1, InvAlways, PTL

\* A disabled client has no task, no open session and no loop that is waited
\* for, and stays so (onApplicationShutdown).
THEOREM ShutdownIsFinal == Spec => []StoppedForGood
<1>1. Inv => StoppedForGood
    BY DEF Inv, Stopped, StoppedForGood, AnyOpen, OpenSessions, Closing
<1> QED BY <1>1, InvAlways, PTL

-----------------------------------------------------------------------------
(* What the handlers see *)

\* The end of a handler, a commit and a start without an offset are seen, and each
\* is in its place.
LEMMA DeliveryStep ==
    ASSUME Inv, [Next]_vars
    PROVE  [Delivery!Next]_<<handled, skipped, committed>>
<1>0. \A i \in Slots : /\ session[i].group \in Groups /\ session[i].pos \in 0 .. Messages
                       /\ 1 .. session[i].pos \subseteq Settled(session[i].group)
    BY DEF Inv, TypeOK, Positions
<1>1. ASSUME NEW i \in Slots, Handled(i) PROVE Delivery!Next
  <2> DEFINE g == session[i].group
             n == session[i].pos + 1
  <2>1. g \in Groups /\ n \in 1 .. Messages
      BY <1>1, Room DEF Handled, Inv
  <2>2. 1 .. (n - 1) \subseteq Settled(g)
    <3>1. n - 1 = session[i].pos
        BY <1>0
    <3> HIDE DEF n
    <3> QED BY <1>0, <3>1
  <2>3. Delivery!Handle(g, n)
      BY <1>1, <2>2 DEF Handled, Delivery!Handle, Delivery!Settled
  <2> QED BY <2>1, <2>3 DEF Delivery!Next
<1>2. ASSUME NEW i \in Slots, Commit(i) PROVE Delivery!Next
  <2> DEFINE g == session[i].group
             n == session[i].pos + 1
  <2>1. g \in Groups /\ n \in 1 .. Messages
      BY <1>2, Room DEF Commit, Inv
  <2>2. 1 .. n \subseteq Settled(g)
    <3>1. 1 .. n = (1 .. session[i].pos) \cup {session[i].pos + 1}
        BY <1>0
    <3>2. session[i].pos + 1 \in handled[g]
        BY <1>2 DEF Commit, Inv, Positions
    <3> QED BY <1>0, <3>1, <3>2
  <2>3. Delivery!Acknowledge(g, n)
      BY <1>2, <2>2 DEF Commit, Delivery!Acknowledge, Delivery!Settled
  <2> QED BY <2>1, <2>3 DEF Delivery!Next
<1>3. ASSUME NEW i \in Slots,
             Fetch(i) \/ Drained(i) \/ CommitFails(i) \/ StreamFails(i)
      PROVE  UNCHANGED <<handled, skipped, committed>>
    BY <1>3 DEF Fetch, Drained, CommitFails, StreamFails
<1>4. CASE TaskStarted
  <2>1. PICK g \in task.groups : StartSession(g)
      BY <1>4 DEF TaskStarted
  <2>2. g \in Groups /\ UNCHANGED <<committed, handled>>
      BY <1>4 DEF Inv, TypeOK, TaskStarted
  <2>3. PICK i \in Free, pos \in 0 .. Messages :
          \/ committed[g] = pos /\ skipped' = skipped
          \/ /\ committed[g] = NoOffset /\ pos = log[g]
             /\ skipped' = [skipped EXCEPT ![g] = @ \cup ((1 .. pos) \ handled[g])]
      BY <2>1, <2>2, StartFacts DEF Inv
  <2>4. CASE skipped' = skipped
      BY <2>2, <2>4
  <2>5. CASE /\ committed[g] = NoOffset
             /\ skipped' = [skipped EXCEPT ![g] = @ \cup ((1 .. pos) \ handled[g])]
    <3>1. CASE pos = 0
      <4>1. (1 .. pos) \ handled[g] = {}
          BY <3>1
      <4>2. skipped' = skipped
          BY <2>2, <2>5, <4>1 DEF Inv, TypeOK
      <4> QED BY <2>2, <4>2
    <3>2. CASE pos # 0
      <4>1. pos \in 1 .. Messages
          BY <3>2, KafkaAssumption DEF KafkaAssumption
      <4>2. Delivery!PassOver(g, pos)
          BY <2>2, <2>5 DEF Delivery!PassOver, NoOffset
      <4> QED BY <2>2, <4>1, <4>2 DEF Delivery!Next
    <3> QED BY <3>1, <3>2
  <2> QED BY <2>3, <2>4, <2>5
<1>5. CASE \/ (\E g \in Groups : Arrive(g)) \/ Produce \/ Produced \/ ProducerFails
           \/ TaskCloses \/ TaskClosed \/ TaskStarts \/ TaskFails \/ TaskReady \/ TaskFinally
           \/ Shutdown \/ ShutdownCloses \/ ShutdownEnds \/ UNCHANGED vars
  <2>1. UNCHANGED <<handled, skipped, committed>>
      BY <1>5 DEF Arrive, Produce, Produced, ProducerFails, TaskCloses, TaskClosed, TaskStarts,
           TaskFails, TaskReady, TaskFinally, Shutdown, ShutdownCloses, ShutdownEnds, vars
  <2> QED BY <2>1
<1> QED BY <1>1, <1>2, <1>3, <1>4, <1>5 DEF Next, Loop, Reconnect

\* The client implements OrderedDelivery: through failing commits, rebuilds and
\* detached sessions, a handler never sees a message before it has returned from
\* all those in front of it, and no offset passes one it has not returned from,
\* but those a session passed over while its group had no offset; from the first
\* commit on nothing is passed over (mode 'committed', fallbackMode 'latest').
THEOREM ClientDeliversInOrder == Spec => ImplementsDelivery
<1>1. Init => Delivery!Init
    BY DEF Init, NoOffset, Delivery!Init
<1>2. Inv /\ [Next]_vars => [Delivery!Next]_<<handled, skipped, committed>>
    BY DeliveryStep
<1> QED BY <1>1, <1>2, InvAlways, PTL DEF Spec, ImplementsDelivery, Delivery!Spec

\* A message that has arrived, and was neither handled nor skipped, is in front of
\* an open session of its group when the client is ready and no rebuild is pending:
\* what AllHandled needs in each state.
InReach ==
    health = "ready" /\ task = NoTask /\ ~stopping =>
        \A g \in configured : \A m \in (1 .. log[g]) \ Settled(g) :
            \E i \in OpenSessions(g) : session[i].pos < m

\* No failure, rebuild or commit of a detached session strands a message behind
\* the position of every session, unless a session without an offset has passed it
\* over (startConsumerSession).
THEOREM NothingStranded == Spec => []InReach
<1>1. ASSUME Inv, health = "ready", task = NoTask, ~stopping,
             NEW g \in configured, NEW m \in (1 .. log[g]) \ Settled(g)
      PROVE  \E i \in OpenSessions(g) : session[i].pos < m
  <2>1. PICK i : i \in OpenSessions(g)
      BY <1>1 DEF Inv, Running, Candidate, Consumed
  <2>2. /\ i \in Slots /\ session[i].group = g /\ session[i].pos \in 0 .. Messages
        /\ 1 .. session[i].pos \subseteq Settled(g) /\ log[g] \in 0 .. Messages
      BY <1>1, <2>1 DEF OpenSessions, Inv, TypeOK, Positions
  <2>3. ~(m \in 1 .. session[i].pos) /\ m \in 1 .. log[g]
      BY <2>2
  <2>4. session[i].pos < m
      BY <2>2, <2>3, KafkaAssumption DEF KafkaAssumption
  <2> QED BY <2>1, <2>4
<1>2. Inv => InReach
    BY <1>1 DEF InReach
<1> QED BY <1>2, InvAlways, PTL

\* A step of a disabled client: sessions that a failed close left detached may
\* run out, and that is all.
Dead ==
    health = "disabled" =>
        /\ UNCHANGED <<health, task, configured, stopping>>
        /\ \A i \in Slots : session'[i].stream \in {session[i].stream, "none"}

LEMMA DeadStep == Inv /\ [Next]_vars => Dead
<1> SUFFICES ASSUME Inv, [Next]_vars, health = "disabled"
             PROVE  /\ UNCHANGED <<health, task, configured, stopping>>
                    /\ \A i \in Slots : session'[i].stream \in {session[i].stream, "none"}
    BY DEF Dead
<1>0. /\ session \in [Slots -> SessionType]
      /\ stopping /\ task = NoTask /\ configured = {} /\ NoTask.at = "none"
    BY DEF Inv, TypeOK, SessionType, Stopped, NoTask
<1>1. /\ ~Reconnect /\ ~ShutdownCloses /\ ~Shutdown /\ ~ShutdownEnds /\ ~ProducerFails
    BY <1>0 DEF Reconnect, TaskCloses, TaskClosed, TaskStarts, TaskStarted, TaskFails,
         TaskReady, TaskFinally, ShutdownCloses, Shutdown, ShutdownEnds, ProducerFails
<1>2. ASSUME NEW i \in Slots, Fetch(i) \/ Handled(i) \/ Commit(i)
      PROVE  \A j \in Slots : session'[j].stream = session[j].stream
  <2>1. CASE Fetch(i)
      BY <1>0, <2>1, SetFacts DEF Fetch
  <2>2. CASE Handled(i)
      BY <1>0, <2>2, SetFacts DEF Handled
  <2>3. CASE Commit(i)
      BY <1>0, <2>3 DEF Commit, SessionType
  <2> QED BY <1>2, <2>1, <2>2, <2>3
<1>3. ASSUME NEW i \in Slots, CommitFails(i) \/ StreamFails(i) \/ Drained(i)
      PROVE  \A j \in Slots : session'[j].stream \in {session[j].stream, "none"}
    BY <1>0, <1>3, LoopEndsFacts, NoSessionTyped DEF CommitFails, StreamFails, Drained
<1>4. \A j \in Slots : session'[j].stream \in {session[j].stream, "none"}
  <2>1. CASE \E i \in Slots : Loop(i) \/ CommitFails(i) \/ StreamFails(i)
      BY <1>2, <1>3, <2>1 DEF Loop
  <2>2. CASE (\E g \in Groups : Arrive(g)) \/ Produce \/ Produced \/ UNCHANGED vars
      BY <2>2 DEF Arrive, Produce, Produced, vars
  <2> QED BY <1>1, <2>1, <2>2 DEF Next
<1>5. UNCHANGED <<health, task, configured, stopping>>
  <2>1. ASSUME NEW i \in Slots, Loop(i)
        PROVE  UNCHANGED <<health, task, configured, stopping>>
      BY <2>1 DEF Loop, Fetch, Handled, Commit, Drained
  <2>2. ASSUME NEW i \in Slots, CommitFails(i) \/ StreamFails(i)
        PROVE  UNCHANGED <<health, task, configured, stopping>>
    <3>1. HandleFailure /\ UNCHANGED <<configured, stopping>>
        BY <2>2 DEF CommitFails, StreamFails
    <3> QED BY <1>0, <3>1 DEF HandleFailure
  <2>3. CASE (\E g \in Groups : Arrive(g)) \/ Produce \/ Produced \/ UNCHANGED vars
      BY <2>3 DEF Arrive, Produce, Produced, vars
  <2> QED BY <1>1, <2>1, <2>2, <2>3 DEF Next
<1> QED BY <1>4, <1>5

\* Nothing revives a client after its shutdown: no failure of a session that is
\* still detached starts a rebuild or a session (handleKafkaFailure returns).
THEOREM NothingRevives == Spec => [][Dead]_vars
<1>1. Inv /\ [Next]_vars => [Dead]_vars
    BY DeadStep
<1> QED BY <1>1, InvAlways, PTL DEF Spec
=============================================================================
