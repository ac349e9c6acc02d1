---------------------------- MODULE ScenarioProofs ----------------------------
(***************************************************************************)
(* Theorems about Scenario.  Its safety properties are inductive once the  *)
(* variables have their types.                                             *)
(***************************************************************************)
EXTENDS Scenario, TLAPS

USE ScenarioAssumption

IInv == TypeOK /\ LiveBodiesAreActive /\ EndsAreVisible

LEMMA InitHolds == Init => IInv
<1> SUFFICES ASSUME Init PROVE IInv OBVIOUS
<1> USE DEF Init, NoneActive, NoneSays, NoneRuns, Nameless
<1>1. TypeOK BY DEF TypeOK, Round, Setup, Waiting
<1>2. LiveBodiesAreActive BY DEF LiveBodiesAreActive, Running
<1>3. EndsAreVisible BY DEF EndsAreVisible
<1> QED BY <1>1, <1>2, <1>3 DEF IInv

-----------------------------------------------------------------------------
(* The job and the runner *)

LEMMA GuestEndsKeeps ==
    ASSUME IInv, NEW failed \in BOOLEAN, GuestEnds(failed)
    PROVE  IInv'
<1> USE DEF IInv, GuestEnds, NoneActive, NoneSays, NoneRuns, Nameless, record, history
<1>1. TypeOK' BY DEF TypeOK, Round, Setup, Waiting
<1>2. LiveBodiesAreActive' BY DEF TypeOK, LiveBodiesAreActive, Running
<1>3. EndsAreVisible' BY DEF TypeOK, EndsAreVisible
<1> QED BY <1>1, <1>2, <1>3

LEMMA LoadKeeps ==
    ASSUME IInv, LoadPlugin \/ LoadFails
    PROVE  IInv'
<1> USE DEF IInv, LoadPlugin, LoadFails, record, runner, history
<1>1. TypeOK' BY DEF TypeOK, Round, Setup, Waiting
<1>2. LiveBodiesAreActive' BY DEF TypeOK, LiveBodiesAreActive, Running
<1>3. EndsAreVisible' BY DEF TypeOK, EndsAreVisible
<1> QED BY <1>1, <1>2, <1>3

LEMMA DeadlineKeeps ==
    ASSUME IInv, Deadline
    PROVE  IInv'
<1>1. TypeOK'
  <2>1. alive' \in BOOLEAN /\ UNCHANGED <<record, job, cancelled, guest, says, history>>
    BY DEF Deadline
  <2> QED BY <2>1 DEF IInv, TypeOK, Round, Setup, Waiting, record, guest, history
<1> USE DEF IInv, Deadline, record, guest, history
<1>2. LiveBodiesAreActive' BY DEF TypeOK, LiveBodiesAreActive, Running
<1>3. EndsAreVisible' BY DEF TypeOK, EndsAreVisible
<1> QED BY <1>1, <1>2, <1>3

LEMMA JobKeeps ==
    ASSUME IInv, Job
    PROVE  IInv'
<1>1. TypeOK'
  <2>1. UNCHANGED <<alive, cancelled, guest, says, gaveUp, ready>>
    BY DEF Job, LockFails, Lock, Unbind, UnbindFails, Report, record, history
  <2>2. /\ bound' \in BOOLEAN /\ untold' \in BOOLEAN
        /\ error' \in {error, "host"} /\ job' \in {"report", "unbind", "done"}
    BY DEF Job, LockFails, Lock, Unbind, UnbindFails, Report, record, history, IInv, TypeOK
  <2> QED BY <2>1, <2>2 DEF IInv, TypeOK, Round, Setup, Waiting, guest
<1> USE DEF IInv, Job, LockFails, Lock, Unbind, UnbindFails, Report, record, guest, history
<1>2. LiveBodiesAreActive' BY DEF TypeOK, LiveBodiesAreActive, Running
<1>3. EndsAreVisible' BY DEF TypeOK, EndsAreVisible
<1> QED BY <1>1, <1>2, <1>3

-----------------------------------------------------------------------------
(* Scenario.Start *)

LEMMA SetUpKeeps ==
    ASSUME IInv, SetUp \/ SetUpFails
    PROVE  IInv'
<1>1. TypeOK'
  <2>1. CASE SetUp
    <3>1. main' \in Setup \cup {"checking"} /\ ready' \in BOOLEAN
      BY <2>1 DEF SetUp, Then, Setup, IInv, TypeOK
    <3>2. UNCHANGED <<bound, error, runner, todo, events, active, body, name, dead, says,
                      history>>
      BY <2>1 DEF SetUp
    <3> QED BY <3>1, <3>2 DEF IInv, TypeOK, Round, Setup, Waiting, runner, history
  <2>2. CASE SetUpFails
    <3>1. /\ main' = "return" /\ cancelled' \in BOOLEAN /\ gaveUp' \in BOOLEAN
          /\ error' \in {error, "guest"}
          /\ UNCHANGED <<bound, ready, job, alive, todo, events, active, body, name, dead,
                          says, untold>>
      BY <2>2 DEF SetUpFails, Cancel
    <3> QED BY <3>1 DEF IInv, TypeOK, Round, Setup, Waiting
  <2> QED BY <2>1, <2>2
<1> USE DEF IInv, SetUp, SetUpFails, Cancel, Then, runner, history
<1>2. LiveBodiesAreActive' BY DEF TypeOK, LiveBodiesAreActive, Running
<1>3. EndsAreVisible' BY DEF TypeOK, EndsAreVisible
<1> QED BY <1>1, <1>2, <1>3

LEMMA RoundKeeps ==
    ASSUME IInv, Wake \/ ChecksDone \/ RoundDone
    PROVE  IInv'
<1> USE DEF IInv, Wake, ChecksDone, RoundDone, record, runner, history
<1>1. TypeOK' BY DEF TypeOK, Round, Setup, Waiting
<1>2. LiveBodiesAreActive' BY DEF TypeOK, LiveBodiesAreActive, Running
<1>3. EndsAreVisible' BY DEF TypeOK, EndsAreVisible
<1> QED BY <1>1, <1>2, <1>3

LEMMA KeptKeeps ==
    ASSUME IInv, NEW n \in Names, TriggerFails(n) \/ KeepBody(n)
    PROVE  IInv'
<1> USE DEF IInv, TriggerFails, KeepBody, Asked, record, runner, history
<1>1. TypeOK' BY DEF TypeOK, Round, Setup, Waiting
<1>2. LiveBodiesAreActive' BY DEF TypeOK, LiveBodiesAreActive, Running
<1>3. EndsAreVisible' BY DEF TypeOK, EndsAreVisible
<1> QED BY <1>1, <1>2, <1>3

LEMMA StartBodyKeeps ==
    ASSUME IInv, NEW n \in Names, NEW b \in Bodies, StartBody(n, b)
    PROVE  IInv'
<1> USE DEF IInv, StartBody, Asked, Fresh, record, runner, history
<1>1. TypeOK' BY DEF TypeOK, Round, Setup, Waiting
<1>2. LiveBodiesAreActive' BY DEF TypeOK, LiveBodiesAreActive, Running
<1>3. EndsAreVisible' BY DEF TypeOK, EndsAreVisible
<1> QED BY <1>1, <1>2, <1>3

LEMMA StopBodyKeeps ==
    ASSUME IInv, NEW n \in Names, StopBody(n)
    PROVE  IInv'
<1> USE DEF IInv, StopBody, Asked, record, runner, history
<1>1. TypeOK' BY DEF TypeOK, Round, Setup, Waiting
<1>2. LiveBodiesAreActive' BY DEF TypeOK, LiveBodiesAreActive, Running
<1>3. EndsAreVisible' BY DEF TypeOK, EndsAreVisible
<1> QED BY <1>1, <1>2, <1>3

-----------------------------------------------------------------------------
(* Triggers and bodies *)

LEMMA CheckChangesKeeps ==
    ASSUME IInv, CheckChanges
    PROVE  IInv'
<1> USE DEF IInv, CheckChanges, AddEvent, RemoveEvent, record, runner, history
<1>1. TypeOK' BY DEF TypeOK, Round, Setup, Waiting
<1>2. LiveBodiesAreActive' BY DEF TypeOK, LiveBodiesAreActive, Running
<1>3. EndsAreVisible' BY DEF TypeOK, EndsAreVisible
<1> QED BY <1>1, <1>2, <1>3

LEMMA CallKeeps ==
    ASSUME IInv, NEW b \in Bodies, Call(b)
    PROVE  IInv'
<1> USE DEF IInv, Call, At, record, runner, history
<1>1. TypeOK' BY DEF TypeOK, Round, Setup, Waiting
<1>2. LiveBodiesAreActive' BY DEF TypeOK, LiveBodiesAreActive, Running
<1>3. EndsAreVisible' BY DEF TypeOK, EndsAreVisible
<1> QED BY <1>1, <1>2, <1>3

LEMMA LockedKeeps ==
    ASSUME IInv, NEW b \in Bodies, Locked(b)
    PROVE  IInv'
<1> USE DEF IInv, Locked, At, AddEvent, RemoveEvent, record, runner, history
<1>1. TypeOK' BY DEF TypeOK, Round, Setup, Waiting
<1>2. LiveBodiesAreActive' BY DEF TypeOK, LiveBodiesAreActive, Running
<1>3. EndsAreVisible' BY DEF TypeOK, EndsAreVisible
<1> QED BY <1>1, <1>2, <1>3

LEMMA ReturnKeeps ==
    ASSUME IInv, NEW b \in Bodies, Return(b)
    PROVE  IInv'
<1> USE DEF IInv, Return, At, record, runner, history
<1>1. TypeOK' BY DEF TypeOK, Round, Setup, Waiting
<1>2. LiveBodiesAreActive' BY DEF TypeOK, LiveBodiesAreActive, Running
<1>3. EndsAreVisible' BY DEF TypeOK, EndsAreVisible
<1> QED BY <1>1, <1>2, <1>3

LEMMA BodyFailsKeeps ==
    ASSUME IInv, NEW b \in Bodies, BodyFails(b)
    PROVE  IInv'
<1> USE DEF IInv, BodyFails, Cancel, guest
<1>1. TypeOK' BY DEF TypeOK, Round, Setup, Waiting
<1>2. LiveBodiesAreActive' BY DEF TypeOK, LiveBodiesAreActive, Running
<1>3. EndsAreVisible' BY DEF TypeOK, EndsAreVisible
<1> QED BY <1>1, <1>2, <1>3

LEMMA PlayKeeps ==
    ASSUME IInv, NEW n \in Names, Play(n)
    PROVE  IInv'
<1> USE DEF IInv, Play, record, runner, guest, history
<1>1. TypeOK' BY DEF TypeOK, Round, Setup, Waiting
<1>2. LiveBodiesAreActive' BY DEF TypeOK, LiveBodiesAreActive, Running
<1>3. EndsAreVisible' BY DEF TypeOK, EndsAreVisible
<1> QED BY <1>1, <1>2, <1>3

-----------------------------------------------------------------------------
LEMMA StepKeeps == IInv /\ [Next]_vars => IInv'
<1> SUFFICES ASSUME IInv, [Next]_vars PROVE IInv' OBVIOUS
<1>1. CASE UNCHANGED vars
  BY <1>1 DEF vars, record, runner, guest, history, IInv, TypeOK, LiveBodiesAreActive,
     Running, EndsAreVisible, Round, Setup, Waiting
<1>2. CASE LoadPlugin \/ LoadFails BY <1>2, LoadKeeps
<1>3. CASE Deadline BY <1>3, DeadlineKeeps
<1>4. CASE Close \/ Exit \/ Panic BY <1>4, GuestEndsKeeps DEF Close, Exit, Panic
<1>5. CASE Job BY <1>5, JobKeeps
<1>6. CASE SetUp \/ SetUpFails BY <1>6, SetUpKeeps
<1>7. CASE Loop
  <2>1. CASE Wake \/ ChecksDone \/ RoundDone BY <2>1, RoundKeeps
  <2>2. CASE \E n \in Names : TriggerFails(n) \/ KeepBody(n) BY <2>2, KeptKeeps
  <2>3. CASE \E n \in Names : StopBody(n) BY <2>3, StopBodyKeeps
  <2>4. CASE \E n \in Names, b \in Bodies : StartBody(n, b) BY <2>4, StartBodyKeeps
  <2> QED BY <1>7, <2>1, <2>2, <2>3, <2>4 DEF Loop
<1>8. CASE CheckChanges BY <1>8, CheckChangesKeeps
<1>9. CASE \E b \in Bodies : Call(b) \/ Locked(b) \/ Return(b) \/ BodyFails(b)
  BY <1>9, CallKeeps, LockedKeeps, ReturnKeeps, BodyFailsKeeps
<1>10. CASE \E n \in Names : Play(n) BY <1>10, PlayKeeps
<1> QED BY <1>1, <1>2, <1>3, <1>4, <1>5, <1>6, <1>7, <1>8, <1>9, <1>10 DEF Next

LEMMA Inductive == Spec => []IInv
BY InitHolds, StepKeeps, PTL DEF Spec

\* Every variable keeps its type; a body that runs knows its event.
THEOREM TypeCorrect == Spec => []TypeOK
BY Inductive, PTL DEF IInv

\* However events are added and removed while bodies run, a body that was not
\* cancelled is the one activeEvents can cancel.
THEOREM BodiesStayActive == Spec => []LiveBodiesAreActive
BY Inductive, PTL DEF IInv

\* No job ends unseen: whatever fails in it, the account was unbound, the challenge
\* has an Error, or the write of that Error was refused.
THEOREM EndsStayVisible == Spec => []EndsAreVisible
BY Inductive, PTL DEF IInv

-----------------------------------------------------------------------------
(* Scenario implements EventBodies *)

\* Only a body that runs has an event.
Named == \A b \in Bodies : body[b] = "off" => name[b] = NoName

LEMMA NamedStays == IInv /\ Named /\ [Next]_vars => Named'
<1> SUFFICES ASSUME IInv, Named, [Next]_vars PROVE Named' OBVIOUS
<1> USE DEF Named
<1>1. CASE UNCHANGED <<body, name>> BY <1>1
<1>2. ASSUME NEW failed \in BOOLEAN, GuestEnds(failed) PROVE Named'
  BY <1>2 DEF GuestEnds, NoneRuns, Nameless
<1>3. ASSUME NEW n \in Names, NEW b \in Bodies, StartBody(n, b) PROVE Named'
  BY <1>3 DEF StartBody, IInv, TypeOK
<1>4. ASSUME NEW b \in Bodies, Call(b) \/ Locked(b) PROVE Named'
  BY <1>4 DEF Call, Locked, At, Waiting, IInv, TypeOK
<1>5. ASSUME NEW b \in Bodies, Return(b) PROVE Named'
  BY <1>5 DEF Return, At, IInv, TypeOK
<1>6. CASE UNCHANGED vars BY <1>6, <1>1 DEF vars, guest
<1>7. CASE Close \/ Exit \/ Panic BY <1>7, <1>2 DEF Close, Exit, Panic
<1>8. CASE LoadPlugin \/ LoadFails \/ Deadline \/ Job \/ SetUp \/ SetUpFails
  BY <1>8, <1>1 DEF LoadPlugin, LoadFails, Deadline, Job, LockFails, Lock, Unbind,
     UnbindFails, Report, SetUp, SetUpFails, guest
<1>9. CASE Loop
  BY <1>9, <1>1, <1>3 DEF Loop, Wake, ChecksDone, RoundDone, TriggerFails, KeepBody, StopBody
<1>10. CASE CheckChanges \/ \E n \in Names : Play(n)
  BY <1>10, <1>1 DEF CheckChanges, Play, guest
<1>11. CASE \E b \in Bodies : BodyFails(b) BY <1>11, <1>1 DEF BodyFails, guest
<1> QED BY <1>3, <1>4, <1>5, <1>6, <1>7, <1>8, <1>9, <1>10, <1>11 DEF Next

Step == [Promise!Next]_<<name, told>>

LEMMA StartsMap ==
    ASSUME IInv, Named, NEW n \in Names, NEW b \in Bodies, StartBody(n, b)
    PROVE  Step
<1>1. /\ active[n] = NoBody /\ body[b] = "off"
      /\ name' = [name EXCEPT ![b] = n] /\ dead' = dead \ {b}
  BY DEF StartBody, Asked, Fresh
<1>2. name[b] = NoName BY <1>1 DEF Named
<1>3. \A c \in Bodies : name[c] = n => c \in dead
  <2> SUFFICES ASSUME NEW c \in Bodies, name[c] = n, c \notin dead PROVE FALSE OBVIOUS
  <2>1. body[c] # "off" BY DEF Named
  <2>2. active[n] = c BY <2>1 DEF IInv, LiveBodiesAreActive, Running
  <2> QED BY <1>1, <2>2
<1>4. Promise!GoingOn(n) = {} BY <1>3 DEF Promise!GoingOn, told
<1>5. told' = told
  <2> SUFFICES ASSUME NEW c PROVE c \in told' <=> c \in told OBVIOUS
  <2>1. c \in told' <=> c \in dead \ {b} /\ name'[c] # NoName BY <1>1 DEF told
  <2>2. c \in dead => c \in Bodies BY DEF IInv, TypeOK
  <2> QED BY <1>1, <1>2, <2>1, <2>2 DEF told, IInv, TypeOK
<1> QED BY <1>1, <1>2, <1>4, <1>5 DEF Step, Promise!Next, Promise!Start

\* Cancelling the body of an event tells it, unless it was told or has returned.
LEMMA CancelsMap ==
    ASSUME IInv, NEW n \in Names, UNCHANGED name, dead' = dead \cup ({active[n]} \cap Bodies)
    PROVE  Step
<1>1. CASE active[n] \in Bodies /\ name[active[n]] # NoName
  <2> DEFINE b == active[n]
  <2>1. told' = told \cup {b} BY <1>1 DEF told
  <2> QED BY <1>1, <2>1 DEF Step, Promise!Next, Promise!Tell
<1>2. CASE active[n] \in Bodies => name[active[n]] = NoName
  <2>1. told' = told BY <1>2 DEF told
  <2> QED BY <2>1 DEF Step
<1> QED BY <1>1, <1>2

LEMMA ChangesMap ==
    ASSUME IInv, NEW n \in Names, UNCHANGED name, AddEvent(n) \/ RemoveEvent(n)
    PROVE  Step
<1>1. CASE AddEvent(n) BY <1>1 DEF AddEvent, Step, told
<1>2. CASE RemoveEvent(n) BY <1>2, CancelsMap DEF RemoveEvent
<1> QED BY <1>1, <1>2

LEMMA ReturnsMap ==
    ASSUME IInv, NEW b \in Bodies, Return(b)
    PROVE  Step
<1>1. name' = [name EXCEPT ![b] = NoName] /\ dead' = dead BY DEF Return
<1>2. told' = told \ {b}
  <2> SUFFICES ASSUME NEW c PROVE c \in told' <=> c \in told \ {b} OBVIOUS
  <2>1. c \in dead => c \in Bodies BY DEF IInv, TypeOK
  <2> QED BY <1>1, <2>1 DEF told, IInv, TypeOK
<1> QED BY <1>1, <1>2 DEF Step, Promise!Next, Promise!Return

LEMMA GuestEndsMaps ==
    ASSUME NEW failed \in BOOLEAN, GuestEnds(failed)
    PROVE  Step
<1>1. name' = [b \in Bodies |-> NoName] /\ dead' = {} BY DEF GuestEnds, Nameless
<1>2. told' = {} BY <1>1 DEF told
<1> QED BY <1>1, <1>2 DEF Step, Promise!Next, Promise!Over

LEMMA StepImplementsEventBodies == IInv /\ Named /\ [Next]_vars => Step
<1> SUFFICES ASSUME IInv, Named, [Next]_vars PROVE Step OBVIOUS
<1>1. CASE UNCHANGED <<name, dead>> BY <1>1 DEF Step, told
<1>2. CASE UNCHANGED vars BY <1>2, <1>1 DEF vars, guest
<1>3. CASE Close \/ Exit \/ Panic BY <1>3, GuestEndsMaps DEF Close, Exit, Panic
<1>4. CASE LoadPlugin \/ LoadFails \/ Deadline \/ Job \/ SetUp \/ SetUpFails
  BY <1>4, <1>1 DEF LoadPlugin, LoadFails, Deadline, Job, LockFails, Lock, Unbind,
     UnbindFails, Report, SetUp, SetUpFails, guest
<1>5. CASE Loop
  <2>1. CASE Wake \/ ChecksDone \/ RoundDone \/ \E n \in Names : TriggerFails(n) \/ KeepBody(n)
    BY <2>1, <1>1 DEF Wake, ChecksDone, RoundDone, TriggerFails, KeepBody
  <2>2. CASE \E n \in Names : StopBody(n) BY <2>2, CancelsMap DEF StopBody
  <2>3. CASE \E n \in Names, b \in Bodies : StartBody(n, b) BY <2>3, StartsMap
  <2> QED BY <1>5, <2>1, <2>2, <2>3 DEF Loop
<1>6. CASE CheckChanges BY <1>6, ChangesMap DEF CheckChanges
<1>7. CASE \E b \in Bodies : Locked(b)
  BY <1>7, <1>1, ChangesMap DEF Locked
<1>8. CASE \E b \in Bodies : Call(b) \/ BodyFails(b) BY <1>8, <1>1 DEF Call, BodyFails, guest
<1>9. CASE \E b \in Bodies : Return(b) BY <1>9, ReturnsMap
<1>10. CASE \E n \in Names : Play(n) BY <1>10, <1>1 DEF Play, guest
<1> QED BY <1>2, <1>3, <1>4, <1>5, <1>6, <1>7, <1>8, <1>9, <1>10 DEF Next

\* Scenario implements EventBodies: whatever triggers, bodies and failures do, an
\* event has at most one body that was not told to stop, and none that was told is
\* ever told otherwise.
THEOREM ScenarioImplementsEventBodies == Spec => ImplementsEventBodies
<1>1. Init => Promise!Init /\ Named
  BY DEF Init, Promise!Init, Named, Nameless, NoneRuns, told
<1>2. IInv /\ Named /\ [Next]_vars => Named' BY NamedStays
<1>3. IInv /\ Named /\ [Next]_vars => [Promise!Next]_<<name, told>>
  BY StepImplementsEventBodies DEF Step
<1> QED BY <1>1, <1>2, <1>3, Inductive, PTL DEF Spec, ImplementsEventBodies, Promise!Spec

-----------------------------------------------------------------------------
(* What the liveness properties rest on *)

\* An event that is asked in a round and says no is left without a body that was not
\* told, though bodies and triggers may have removed, added and replaced it since its
\* body began: the step QuietEventsStop waits for (orchestrateEvents).
THEOREM RoundTells == Spec => [][\A n \in Names : StopBody(n) => Running(n)' \subseteq dead']_vars
<1>1. IInv /\ [Next]_vars => [\A n \in Names : StopBody(n) => Running(n)' \subseteq dead']_vars
  <2> SUFFICES ASSUME IInv, NEW n \in Names, StopBody(n) PROVE Running(n)' \subseteq dead'
    OBVIOUS
  <2>1. UNCHANGED <<body, name>> /\ dead' = dead \cup ({active[n]} \cap Bodies)
    BY DEF StopBody
  <2>2. \A b \in Running(n) : b \in dead \/ (b = active[n] /\ b \in Bodies)
    BY DEF IInv, LiveBodiesAreActive, Running
  <2> QED BY <2>1, <2>2 DEF Running
<1> QED BY <1>1, Inductive, PTL DEF Spec

\* The job waits for the guest until it is over, and no longer.
JobFollowsGuest == job = "run" <=> main # "over"

LEMMA StepFollows == IInv /\ JobFollowsGuest /\ [Next]_vars => JobFollowsGuest'
<1> SUFFICES ASSUME IInv, JobFollowsGuest, [Next]_vars PROVE JobFollowsGuest' OBVIOUS
<1> USE DEF JobFollowsGuest
<1>1. CASE UNCHANGED <<job, main>> BY <1>1
<1>2. CASE Close \/ Exit \/ Panic BY <1>2 DEF Close, Exit, Panic, GuestEnds
<1>3. CASE LoadPlugin \/ LoadFails BY <1>3 DEF LoadPlugin, LoadFails, runner
<1>4. CASE Job
  BY <1>4 DEF Job, LockFails, Lock, Unbind, UnbindFails, Report, guest
<1>5. CASE SetUp \/ SetUpFails
  BY <1>5 DEF SetUp, SetUpFails, Cancel, Then, Setup, runner, IInv, TypeOK
<1>6. CASE Loop
  BY <1>6, <1>1 DEF Loop, Wake, ChecksDone, RoundDone, TriggerFails, KeepBody, StopBody, StartBody,
     Asked, runner
<1>7. CASE Deadline \/ CheckChanges \/ \E n \in Names : Play(n)
  BY <1>7, <1>1 DEF Deadline, CheckChanges, Play, guest, runner
<1>8. CASE \E b \in Bodies : Call(b) \/ Locked(b) \/ Return(b) \/ BodyFails(b)
  BY <1>8, <1>1 DEF Call, Locked, Return, BodyFails, Cancel, guest, runner
<1>9. CASE UNCHANGED vars BY <1>9, <1>1 DEF vars, guest, runner
<1> QED BY <1>2, <1>3, <1>4, <1>5, <1>6, <1>7, <1>8, <1>9 DEF Next

\* Every end of the guest, a panic and a load that failed included, hands the job on
\* to the lock or the report, and nothing else does: the safety half of JobEnds.
THEOREM JobFollows == Spec => []JobFollowsGuest
<1>1. Init => JobFollowsGuest BY DEF Init, JobFollowsGuest
<1> QED BY <1>1, StepFollows, Inductive, PTL DEF Spec

=============================================================================
