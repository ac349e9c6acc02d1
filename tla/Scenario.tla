------------------------------ MODULE Scenario ------------------------------
(***************************************************************************)
(* The life of one run of a challenge: the job that ChallengeService.Start *)
(* schedules, the runner it calls (internal/challenge), and the guest it   *)
(* runs until the context ends: Scenario.Start of the SDK (pkg/challenge)  *)
(* with its loop, its events, and their bodies, which are goroutines.      *)
(*                                                                         *)
(* The loop holds the lock of the checks while it evaluates them and the   *)
(* lock of the events while it evaluates those, triggers included.  Bodies *)
(* call AddEvent, RemoveEvent and AddCheck, and wait for the locks.        *)
(* Triggers of checks may call AddEvent and RemoveEvent; the documentation *)
(* forbids it to triggers of events.                                       *)
(*                                                                         *)
(* What checks award is in Scoring; other runs of the plugin in Plugins.   *)
(* Here the run is the first of its plugin, so that its host functions are *)
(* its own.                                                                *)
(***************************************************************************)
EXTENDS Naturals

CONSTANTS
    Names, NoName,   \* of events
    Bodies, NoBody,  \* goroutines
    Faults           \* which of "oltp", "provider", "panic" may happen

ASSUME ScenarioAssumption == NoName \notin Names /\ NoBody \notin Bodies

VARIABLES
    job,        \* where the job is
    alive,      \* whether its context is; the deadline is the end of the game
    cancelled,  \* whether the context of the guest was cancelled by cancel
    bound,      \* whether the account is bound to the challenge
    ready, error,  \* Ready and Error of the Challenge record
    main,       \* where the main goroutine of the guest is
    todo,       \* the events the round has still to evaluate
    events,     \* the events there are
    active,     \* activeEvents: the body that was started for an event
    says,       \* what the trigger of an event would answer
    body, name, \* of a body: where it is, and its event
    dead,       \* bodies whose context was cancelled
    (* history *)
    gaveUp,     \* whether the guest called cancel
    untold      \* whether the report of a failure was lost

record == <<bound, ready, error>>
runner == <<job, alive, cancelled>>
guest == <<main, todo, events, active, body, name, dead>>
history == <<gaveUp, untold>>
vars == <<record, runner, guest, says, history>>

\* The calls of Scenario.Start before its loop.
Setup == {"meta", "permission", "guardrail", "bootstrap", "ready"}
Round == {"sleeping", "checking", "events"}
Waiting == {"events", "checks"}

TypeOK ==
    /\ job \in {"run", "lock", "unbind", "report", "done"}
    /\ alive \in BOOLEAN /\ cancelled \in BOOLEAN /\ bound \in BOOLEAN
    /\ ready \in BOOLEAN
    /\ error \in {"none", "guest", "host"}
    /\ main \in Setup \cup Round \cup {"load", "return", "over"}
    /\ todo \subseteq Names /\ events \subseteq Names
    /\ active \in [Names -> Bodies \cup {NoBody}]
    /\ says \in [Names -> {"yes", "no", "fails"}]
    /\ body \in [Bodies -> {"off", "runs"} \cup Waiting]
    /\ name \in [Bodies -> Names \cup {NoName}]
    /\ \A b \in Bodies : body[b] # "off" => name[b] \in Names
    /\ dead \subseteq Bodies
    /\ gaveUp \in BOOLEAN /\ untold \in BOOLEAN

\* What the guest has in its memory, before it runs and once it is over.
NoneActive == [n \in Names |-> NoBody]
NoneSays == [n \in Names |-> "no"]
NoneRuns == [b \in Bodies |-> "off"]
Nameless == [b \in Bodies |-> NoName]

Init ==
    /\ job = "run" /\ alive = TRUE /\ cancelled = FALSE
    /\ bound = TRUE /\ ready = FALSE /\ error = "none"
    /\ main = "load"
    /\ todo = {} /\ events \in SUBSET Names /\ dead = {}
    /\ active = NoneActive /\ says = NoneSays
    /\ body = NoneRuns /\ name = Nameless
    /\ gaveUp = FALSE /\ untold = FALSE

-----------------------------------------------------------------------------
(* The job and the runner *)

\* The guest is over, with an error or without, and its bodies with it.  The
\* runner tells only an error that came before the context ended.
GuestEnds(failed) ==
    /\ main' = "over"
    /\ todo' = {} /\ events' = {} /\ dead' = {}
    /\ active' = NoneActive /\ says' = NoneSays
    /\ body' = NoneRuns /\ name' = Nameless
    /\ job' = IF failed /\ alive THEN "report" ELSE "lock"
    /\ UNCHANGED <<alive, cancelled, record, history>>

\* The plugin is loaded, or it cannot be: that is told in any case.
LoadPlugin ==
    /\ main = "load"
    /\ main' = "meta"
    /\ UNCHANGED <<record, runner, todo, events, active, body, name, dead, says,
                   history>>

LoadFails ==
    /\ main = "load"
    /\ main' = "over" /\ job' = "report"
    /\ UNCHANGED <<record, alive, cancelled, todo, events, active, body, name, dead,
                   says, history>>

Deadline ==
    /\ alive /\ alive' = FALSE
    /\ UNCHANGED <<record, job, cancelled, guest, says, history>>

\* The runtime closes a guest whose context has ended.
Close ==
    /\ main \notin {"load", "over"} /\ (cancelled \/ ~alive)
    /\ GuestEnds(TRUE)

\* Start has returned, by itself.
Exit == main = "return" /\ GuestEnds(FALSE)

\* A trigger, a body, the bootstrap, or a missing permission panics.
Panic ==
    /\ "panic" \in Faults
    /\ \/ main \in {"permission", "bootstrap", "checking"}
       \/ main = "events" /\ todo # {}
       \/ \E b \in Bodies : body[b] = "runs"
    /\ GuestEnds(TRUE)

\* Mutant of LockFails: nobody hears of it.
LockFailsSilently ==
    /\ job = "lock" /\ ("provider" \in Faults \/ ~alive)
    /\ job' = "done"
    /\ UNCHANGED <<record, alive, cancelled, guest, says, history>>

\* Locking needs the context that the deadline has ended.
LockFails ==
    /\ job = "lock" /\ ("provider" \in Faults \/ ~alive)
    /\ job' = "report"
    /\ UNCHANGED <<record, alive, cancelled, guest, says, history>>

Lock ==
    /\ job = "lock" /\ alive
    /\ job' = "unbind"
    /\ UNCHANGED <<record, alive, cancelled, guest, says, history>>

Unbind ==
    /\ job = "unbind" /\ alive
    /\ bound' = FALSE
    /\ job' = "done"
    /\ UNCHANGED <<ready, error, alive, cancelled, guest, says, history>>

UnbindFails ==
    /\ job = "unbind" /\ ("oltp" \in Faults \/ ~alive)
    /\ job' = "report"
    /\ UNCHANGED <<record, alive, cancelled, guest, says, history>>

\* The report is made under the context of the server.
Report ==
    /\ job = "report"
    /\ \/ error' = "host" /\ UNCHANGED untold
       \/ "oltp" \in Faults /\ untold' = TRUE /\ UNCHANGED error
    /\ job' = "done"
    /\ UNCHANGED <<bound, ready, alive, cancelled, guest, says, gaveUp>>

-----------------------------------------------------------------------------
(* Host function cancel: the context is cancelled first, then Error is written *)
(* under it, which may fail. *)

\* Mutant of Cancel: the context is left alone.
CancelSoftly ==
    /\ gaveUp' = TRUE
    /\ error' \in {error, "guest"}
    /\ UNCHANGED <<bound, ready, job, alive, cancelled>>

Cancel ==
    /\ cancelled' = TRUE /\ gaveUp' = TRUE
    /\ error' \in {error, "guest"}
    /\ UNCHANGED <<bound, ready, job, alive>>

-----------------------------------------------------------------------------
(* Scenario.Start *)

Then == [meta |-> "permission", permission |-> "guardrail", guardrail |-> "bootstrap",
         bootstrap |-> "ready", ready |-> "checking"]

\* CreateMeta clears Ready, the last call sets it.
SetUp ==
    /\ main \in Setup
    /\ main' = Then[main]
    /\ ready' = (main = "ready" \/ (main # "meta" /\ ready))
    /\ UNCHANGED <<bound, error, runner, todo, events, active, body, name, dead, says,
                   history>>

SetUpFails ==
    /\ main \in Setup
    /\ Cancel
    /\ main' = "return"
    /\ UNCHANGED <<todo, events, active, body, name, dead, says, untold>>

Wake ==
    /\ main = "sleeping"
    /\ main' = "checking"
    /\ UNCHANGED <<record, runner, todo, events, active, body, name, dead, says, history>>

\* evaluateChecks is over, orchestrateEvents takes its lock.
ChecksDone ==
    /\ main = "checking"
    /\ main' = "events" /\ todo' = events
    /\ UNCHANGED <<record, runner, events, active, body, name, dead, says, history>>

\* Bodies that never ran, or have returned and no event refers to.
Fresh == {b \in Bodies : body[b] = "off" /\ \A n \in Names : active[n] # b}

\* What a trigger answers.  The bound on bodies is here: it fails rather than ask
\* for one when none is left.
Answer(n) ==
    IF says[n] = "yes" /\ active[n] = NoBody /\ Fresh = {} THEN "fails" ELSE says[n]

\* The trigger of n was asked.
Asked(n, answer) ==
    /\ main = "events" /\ n \in todo /\ Answer(n) = answer
    /\ todo' = todo \ {n}
    /\ UNCHANGED <<record, runner, main, events, says, history>>

TriggerFails(n) == Asked(n, "fails") /\ UNCHANGED <<active, body, name, dead>>

StartBody(n, b) ==
    /\ Asked(n, "yes") /\ active[n] = NoBody /\ b \in Fresh
    /\ body' = [body EXCEPT ![b] = "runs"]
    /\ name' = [name EXCEPT ![b] = n]
    /\ active' = [active EXCEPT ![n] = b]
    /\ dead' = dead \ {b}

\* Mutant of KeepBody: a body that was told is let go on.
ReviveBody(n) ==
    /\ Asked(n, "yes") /\ active[n] # NoBody
    /\ dead' = dead \ {active[n]}
    /\ UNCHANGED <<active, body, name>>

\* An event whose body was started keeps it, whatever became of it.
KeepBody(n) ==
    /\ Asked(n, "yes") /\ active[n] # NoBody
    /\ UNCHANGED <<active, body, name, dead>>

\* Mutant of StopBody: what was started goes on.
StopNothing(n) == Asked(n, "no") /\ UNCHANGED <<active, body, name, dead>>

\* The context of the body is cancelled, in every such round; the body stays in
\* activeEvents.
StopBody(n) ==
    /\ Asked(n, "no")
    /\ dead' = dead \cup ({active[n]} \cap Bodies)
    /\ UNCHANGED <<active, body, name>>

\* Mutant of RoundDone: the lock is not released.
RoundStays ==
    /\ main = "events" /\ todo = {}
    /\ UNCHANGED vars

RoundDone ==
    /\ main = "events" /\ todo = {}
    /\ main' = "sleeping"
    /\ UNCHANGED <<record, runner, todo, events, active, body, name, dead, says, history>>

-----------------------------------------------------------------------------
(* Changes of the events, under their lock *)

AddEvent(n) == events' = events \cup {n} /\ UNCHANGED <<active, dead>>

\* Mutant of RemoveEvent: the body is forgotten, not cancelled.
ForgetEvent(n) ==
    /\ events' = events \ {n}
    /\ active' = [active EXCEPT ![n] = NoBody]
    /\ UNCHANGED dead

RemoveEvent(n) ==
    /\ events' = events \ {n}
    /\ dead' = dead \cup ({active[n]} \cap Bodies)
    /\ active' = [active EXCEPT ![n] = NoBody]

\* By the trigger of a check.
CheckChanges ==
    /\ main = "checking"
    /\ \E n \in Names : AddEvent(n) \/ RemoveEvent(n)
    /\ UNCHANGED <<record, runner, main, todo, body, name, says, history>>

-----------------------------------------------------------------------------
(* Bodies *)

At(b, label) == body' = [body EXCEPT ![b] = label]

\* Body b calls a function that takes the lock of the events, or of the checks.
Call(b) ==
    /\ body[b] = "runs"
    /\ \E label \in Waiting : At(b, label)
    /\ UNCHANGED <<record, runner, main, todo, events, active, name, dead, says, history>>

\* It has got the lock, and changes something.
Locked(b) ==
    /\ \/ /\ body[b] = "events" /\ main # "events"
          /\ \E n \in Names : AddEvent(n) \/ RemoveEvent(n)
       \/ /\ body[b] = "checks" /\ main # "checking"
          /\ UNCHANGED <<events, active, dead>>
    /\ At(b, "runs")
    /\ UNCHANGED <<record, runner, main, todo, name, says, history>>

\* It returns, before or after its context was cancelled.
Return(b) ==
    /\ body[b] = "runs"
    /\ At(b, "off")
    /\ name' = [name EXCEPT ![b] = NoName]
    /\ UNCHANGED <<record, runner, main, todo, events, active, dead, says, history>>

\* A description it adds cannot be written.
BodyFails(b) ==
    /\ body[b] = "runs"
    /\ Cancel
    /\ UNCHANGED <<guest, says, untold>>

-----------------------------------------------------------------------------
\* What the triggers see changes.
Play(n) ==
    /\ main \in Round
    /\ \E answer \in {"yes", "no", "fails"} : says' = [says EXCEPT ![n] = answer]
    /\ UNCHANGED <<record, runner, guest, history>>

Loop ==
    \/ Wake \/ ChecksDone \/ RoundDone
    \/ \E n \in Names :
          \/ TriggerFails(n) \/ KeepBody(n) \/ StopBody(n)
          \/ \E b \in Bodies : StartBody(n, b)

Job == LockFails \/ Lock \/ Unbind \/ UnbindFails \/ Report

Next ==
    \/ LoadPlugin \/ LoadFails \/ Deadline \/ Close \/ Exit \/ Panic
    \/ Job
    \/ SetUp \/ SetUpFails
    \/ Loop
    \/ CheckChanges
    \/ \E b \in Bodies : Call(b) \/ Locked(b) \/ Return(b) \/ BodyFails(b)
    \/ \E n \in Names : Play(n)

Spec == Init /\ [][Next]_vars

\* What is called in the guest returns, and the host goes on.  The lock of a
\* sync.RWMutex is given in turn, hence the strong fairness: a waiting body gets
\* it although the loop takes it again in every round.  The deadline is left
\* without fairness, for it would end every run before anything else is shown.
Fairness ==
    /\ WF_vars(LoadPlugin \/ LoadFails) /\ WF_vars(Close) /\ WF_vars(Exit)
    /\ WF_vars(Job)
    /\ WF_vars(SetUp \/ SetUpFails)
    /\ WF_vars(Loop)
    /\ \A b \in Bodies : SF_vars(Locked(b))

FairSpec == Spec /\ Fairness

-----------------------------------------------------------------------------
Running(n) == {b \in Bodies : body[b] # "off" /\ name[b] = n}

\* A body that was not cancelled is the one activeEvents holds for its event: no
\* event has two, and the loop or RemoveEvent can still cancel the one it has,
\* whatever bodies and triggers added and removed meanwhile.
LiveBodiesAreActive ==
    \A n \in Names : \A b \in Running(n) \ dead : active[n] = b

\* The bodies that run on although they were told: dead also holds those that have
\* returned.
told == {b \in dead : name[b] # NoName}

Promise == INSTANCE EventBodies

\* Every step of the guest and its host starts, tells or ends bodies as EventBodies
\* allows, or leaves them alone: no event has two that were not told, and none that
\* was told is revived, whatever is removed, added again and asked in between.
ImplementsEventBodies == Promise!Spec

\* When the job is over somebody can see it: the account is free again, the
\* challenge has an Error, or the report of the failure was itself refused.
EndsAreVisible == job = "done" => ~bound \/ error # "none" \/ untold

\* "When Trigger goes false again the context is cancelled" (docs/challenges/
\* aws/sdk.md:145): an event whose trigger stays false has no body left that was not told,
\* as long as the guest lives.
QuietEventsStop ==
    \A n \in Names :
        <>[](main \in Round /\ says[n] = "no") => <>[](Running(n) \subseteq dead)

\* A body that changes events or checks gets its lock, however often the loop takes
\* it, or the guest ends.
CallsReturn == \A b \in Bodies : body[b] \in Waiting ~> body[b] \notin Waiting

\* Once the guest has given up, or the game is over, the job comes to its end.
JobEnds == gaveUp \/ ~alive ~> job = "done"

=============================================================================
