------------------------------- MODULE Games -------------------------------
(***************************************************************************)
(* A game has teams and challenges, records of their own that name it, and *)
(* lasts from From to To.  Every handler that touches one of them reads    *)
(* the game, decides by the clock, and writes later; nothing is locked.    *)
(* Before From a game may be changed and its challenges removed, between   *)
(* From and To challenges are started, after To the game may be deleted,   *)
(* if it has no team and no challenge.                                     *)
(*                                                                         *)
(* A handler looks at the clock after it has read.  Where time can only    *)
(* refuse it, the two are one step here: what passes the check later would *)
(* have passed it at once.  Start, which time also admits, takes two.      *)
(*                                                                         *)
(* A challenge that runs keeps what its Start has read: the end of the     *)
(* game is the deadline of the runner and the end of the lease of its      *)
(* account.  How it gets the account is in AccountPool.  Left out: names,  *)
(* players, scopes, and the team of a challenge.  Ids are fresh.           *)
(***************************************************************************)
EXTENDS Naturals

CONSTANTS
    Games, Teams, Challenges,  \* ids
    NoId,                      \* marks that a request is about none of them
    Requests,                  \* slots for requests, and for the run a Start leaves
    MaxTime                    \* bound on the clock

Parts == Teams \cup Challenges
Times == 0..MaxTime

ASSUME GamesAssumption ==
    /\ MaxTime \in Nat
    /\ Teams \cap Challenges = {}
    /\ NoId \notin Games \cup Parts

VARIABLES
    now,
    games, from, to,  \* the games there are, and their times
    parts, of,        \* the teams and challenges there are, and their games
    made,             \* the ids used so far
    pc, at, which,    \* of a request: where it is, its game, its team or challenge
    since, until,     \* the times of the game as a Start has read them
    stale,            \* updates whose ETag is no longer that of the game
    (* history *)
    newer,      \* parts a deletion of their game cannot have seen
    late,       \* parts whose creation a deletion of their game has overlapped
    overtaken   \* requests that something under way may overtake, or has

records == <<games, from, to, parts, of, made>>
requests == <<pc, at, which, since, until, stale>>
history == <<newer, late, overtaken>>
vars == <<now, records, requests, history>>

\* A Start that has looked at the clock.
Admitted == {"start", "starting", "running"}

Labels == {"idle", "update", "teams", "delete", "create", "remove", "clock"}
          \cup Admitted

\* The last conjunct: what names a game names one that was created.
TypeOK ==
    /\ now \in Times
    /\ games \subseteq Games
    /\ from \in [Games -> Times] /\ to \in [Games -> Times]
    /\ parts \subseteq Parts
    /\ of \in [Parts -> Games \cup {NoId}]
    /\ made \subseteq Games \cup Parts
    /\ pc \in [Requests -> Labels]
    /\ at \in [Requests -> Games \cup {NoId}]
    /\ which \in [Requests -> Parts \cup {NoId}]
    /\ since \in [Requests -> Times] /\ until \in [Requests -> Times]
    /\ stale \subseteq Requests /\ overtaken \subseteq Requests
    /\ newer \in [Requests -> SUBSET Parts]
    /\ late \subseteq Parts
    /\ \A d \in parts : of[d] \in made

Init ==
    /\ now = 0
    /\ games = {} /\ parts = {} /\ made = {}
    /\ from = [g \in Games |-> 0] /\ to = [g \in Games |-> 0]
    /\ of = [d \in Parts |-> NoId]
    /\ pc = [r \in Requests |-> "idle"]
    /\ at = [r \in Requests |-> NoId] /\ which = [r \in Requests |-> NoId]
    /\ since = [r \in Requests |-> 0] /\ until = since
    /\ stale = {} /\ overtaken = {} /\ late = {}
    /\ newer = [r \in Requests |-> {}]

-----------------------------------------------------------------------------
\* The clock may read t itself: time t has begun then, and is not past.
Begun(t) == now >= t
Past(t) == now > t

\* Request r is at label, for game g; d is the part it is about.
Begin(r, label, g, d) ==
    /\ pc[r] = "idle"
    /\ pc' = [pc EXCEPT ![r] = label]
    /\ at' = [at EXCEPT ![r] = g]
    /\ which' = [which EXCEPT ![r] = d]

Goto(r, label) == pc' = [pc EXCEPT ![r] = label] /\ UNCHANGED <<at, which, since, until>>

\* Request r is over.
Done(r) ==
    /\ pc' = [pc EXCEPT ![r] = "idle"]
    /\ at' = [at EXCEPT ![r] = NoId]
    /\ which' = [which EXCEPT ![r] = NoId]
    /\ since' = [since EXCEPT ![r] = 0]
    /\ until' = [until EXCEPT ![r] = 0]

At(label, g) == {r \in Requests : pc[r] = label /\ at[r] = g}

Has(g, S) == \E d \in parts \cap S : of[d] = g

Tick ==
    /\ now < MaxTime
    /\ now' = now + 1
    /\ UNCHANGED <<records, requests, history>>

\* A handler is refused or fails, or a run ends.
Leave(r) ==
    /\ pc[r] # "idle"
    /\ Done(r)
    /\ stale' = stale \ {r} /\ overtaken' = overtaken \ {r}
    /\ newer' = [newer EXCEPT ![r] = {}]
    /\ UNCHANGED <<now, records, late>>

-----------------------------------------------------------------------------
(* Games *)

\* The messages of Create and of Update are validated: a game begins before it ends,
\* and both are to come.  What is written later may be late all the same.
CreateGame(g, f, t) ==
    /\ g \notin made /\ f < t
    /\ games' = games \cup {g} /\ made' = made \cup {g}
    /\ from' = [from EXCEPT ![g] = f]
    /\ to' = [to EXCEPT ![g] = t]
    /\ UNCHANGED <<now, parts, of, requests, history>>

\* What Starts for game g have decided on, when it begins this very moment: what
\* asks at that moment whether the game has begun is told both, yes and no.
AtTheBegin(g) == {s \in Requests : now = from[g] /\ pc[s] \in Admitted /\ at[s] = g}

\* Mutant of UpdateRead: refused after the end, as the updates of teams are.
UpdateReadLate(r, g) ==
    /\ g \in games /\ ~Past(to[g])
    /\ Begin(r, "update", g, NoId)
    /\ overtaken' = overtaken \cup AtTheBegin(g)
    /\ UNCHANGED <<now, records, since, until, stale, newer, late>>

UpdateRead(r, g) ==
    /\ g \in games /\ ~Past(from[g])
    /\ Begin(r, "update", g, NoId)
    /\ overtaken' = overtaken \cup AtTheBegin(g)
    /\ UNCHANGED <<now, records, since, until, stale, newer, late>>

\* It overtakes the Starts that have read the game and not looked at the clock.
UpdateWrite(r, f, t) ==
    /\ pc[r] = "update" /\ r \notin stale /\ at[r] \in games
    /\ f < t
    /\ from' = [from EXCEPT ![at[r]] = f]
    /\ to' = [to EXCEPT ![at[r]] = t]
    /\ stale' = (stale \cup At("update", at[r])) \ {r}
    /\ overtaken' = overtaken \cup At("clock", at[r])
    /\ Done(r)
    /\ UNCHANGED <<now, games, parts, of, made, newer, late>>

\* Delete looks for teams, then for challenges.
DeleteTeams(r, g) ==
    /\ ~Has(g, Teams)
    /\ Begin(r, "teams", g, NoId)
    /\ UNCHANGED <<now, records, since, until, stale, history>>

\* Mutant of DeleteChallenges: it does not look for them.
DeleteAnyhow(r) ==
    /\ pc[r] = "teams"
    /\ Goto(r, "delete")
    /\ UNCHANGED <<now, records, stale, history>>

DeleteChallenges(r) ==
    /\ pc[r] = "teams" /\ ~Has(at[r], Challenges)
    /\ Goto(r, "delete")
    /\ UNCHANGED <<now, records, stale, history>>

\* Mutant of DeleteGame: a game may go before its end.
DeleteEarly(r) ==
    /\ pc[r] = "delete" /\ at[r] \in games
    /\ games' = games \ {at[r]}
    /\ late' = late \cup newer[r]
    /\ overtaken' = overtaken \cup At("create", at[r])
    /\ newer' = [newer EXCEPT ![r] = {}]
    /\ Done(r)
    /\ UNCHANGED <<now, from, to, parts, of, made, stale>>

DeleteGame(r) ==
    /\ pc[r] = "delete" /\ at[r] \in games
    /\ Past(to[at[r]])
    /\ games' = games \ {at[r]}
    /\ late' = late \cup newer[r]
    /\ overtaken' = overtaken \cup At("create", at[r])
    /\ newer' = [newer EXCEPT ![r] = {}]
    /\ Done(r)
    /\ UNCHANGED <<now, from, to, parts, of, made, stale>>

-----------------------------------------------------------------------------
(* Teams and challenges *)

CreateRead(r, g) ==
    /\ g \in games /\ ~Past(to[g])
    /\ Begin(r, "create", g, NoId)
    /\ UNCHANGED <<now, records, since, until, stale, history>>

\* The deletions of game g that have looked for the kind of d already.
Missing(g, d) ==
    At("delete", g) \cup (IF d \in Teams THEN At("teams", g) ELSE {})

CreatePart(r, d) ==
    /\ pc[r] = "create" /\ d \notin made
    /\ parts' = parts \cup {d} /\ made' = made \cup {d}
    /\ of' = [of EXCEPT ![d] = at[r]]
    /\ newer' = [u \in Requests |->
                    newer[u] \cup (IF u \in Missing(at[r], d) THEN {d} ELSE {})]
    /\ late' = late \cup (IF r \in overtaken THEN {d} ELSE {})
    /\ overtaken' = overtaken \ {r}
    /\ Done(r)
    /\ UNCHANGED <<now, games, from, to, stale>>

\* Mutant of RemoveRead: challenges are treated as teams are.
RemoveReadLate(r, d) ==
    /\ of[d] \in games
    /\ ~Past(to[of[d]])
    /\ Begin(r, "remove", of[d], d)
    /\ overtaken' = overtaken \cup {s \in AtTheBegin(of[d]) : which[s] = d}
    /\ UNCHANGED <<now, records, since, until, stale, newer, late>>

\* A team may go until the game ends, a challenge until it begins.
RemoveRead(r, d) ==
    /\ of[d] \in games
    /\ ~Past(IF d \in Teams THEN to[of[d]] ELSE from[of[d]])
    /\ Begin(r, "remove", of[d], d)
    /\ overtaken' = overtaken \cup {s \in AtTheBegin(of[d]) : which[s] = d}
    /\ UNCHANGED <<now, records, since, until, stale, newer, late>>

RemovePart(r) ==
    /\ pc[r] = "remove"
    /\ parts' = parts \ {which[r]}
    /\ Done(r)
    /\ UNCHANGED <<now, games, from, to, of, made, stale, history>>

-----------------------------------------------------------------------------
(* ChallengeService.Start *)

StartRead(r, g, c) ==
    /\ g \in games
    /\ Begin(r, "clock", g, c)
    /\ since' = [since EXCEPT ![r] = from[g]]
    /\ until' = [until EXCEPT ![r] = to[g]]
    /\ UNCHANGED <<now, records, stale, history>>

\* It then looks at the clock, and keeps what it has read.
StartClock(r) ==
    /\ pc[r] = "clock"
    /\ Begun(since[r]) /\ ~Past(until[r])
    /\ Goto(r, "start")
    /\ overtaken' = IF At("update", at[r]) \subseteq stale
                    THEN overtaken ELSE overtaken \cup {r}
    /\ UNCHANGED <<now, records, stale, newer, late>>

StartChallenge(r) ==
    /\ pc[r] = "start" /\ which[r] \in parts /\ of[which[r]] = at[r]
    /\ Goto(r, "starting")
    /\ overtaken' = IF \E u \in At("remove", at[r]) : which[u] = which[r]
                    THEN overtaken \cup {r} ELSE overtaken
    /\ UNCHANGED <<now, records, stale, newer, late>>

\* An account is claimed and prepared, and the job is scheduled.
StartRun(r) ==
    /\ pc[r] = "starting"
    /\ Goto(r, "running")
    /\ UNCHANGED <<now, records, stale, history>>

-----------------------------------------------------------------------------
Serve(r) ==
    \/ Leave(r)
    \/ \E g \in Games : UpdateRead(r, g) \/ DeleteTeams(r, g) \/ CreateRead(r, g)
    \/ \E f, t \in Times : UpdateWrite(r, f, t)
    \/ DeleteChallenges(r) \/ DeleteGame(r)
    \/ \E d \in Parts : CreatePart(r, d) \/ RemoveRead(r, d)
    \/ RemovePart(r)
    \/ \E g \in Games, c \in Challenges : StartRead(r, g, c)
    \/ StartClock(r) \/ StartChallenge(r) \/ StartRun(r)

Next ==
    \/ Tick
    \/ \E g \in Games, f, t \in Times : CreateGame(g, f, t)
    \/ \E r \in Requests : Serve(r)

Spec == Init /\ [][Next]_vars

-----------------------------------------------------------------------------
(* Properties *)

\* A team or a challenge is left without its game only if the handler that created
\* it and the one that deleted the game overlapped.
OrphansOverlapped == \A d \in parts : of[d] \in games \/ d \in late

Runs == {r \in Requests : pc[r] = "running"}

\* What runs has the deadline, and its account the lease, that the game has.  An
\* update comes between the two only if it was under way when Start looked at the
\* clock, was written after Start had read the game and before that, or read the
\* game at the instant at which it began.
RunsEndWithGame == \A r \in Runs \ overtaken : until[r] = to[at[r]]

\* Until its deadline, what runs is a challenge of a game that exists.
RunsHaveGame ==
    \A r \in Runs \ overtaken : ~Past(until[r]) => at[r] \in games

\* What runs is there: beside such an update only a removal that was under way when
\* Start read the challenge, or read the game as it began, can take it away.
RunsHaveChallenge == \A r \in Runs \ overtaken : which[r] \in parts

=============================================================================
