---------------------------- MODULE GamesProofs ----------------------------
(* Theorems about Games. *)
EXTENDS Games, TLAPS

USE GamesAssumption

Starts(r) == pc[r] = "clock" \/ pc[r] \in Admitted
Started(r) == pc[r] \in {"starting", "running"}

\* Ids are used once, and what refers to a game refers to one that was made.
MadeOK ==
    /\ games \subseteq made
    /\ \A d \in Parts \ made : of[d] = NoId /\ d \notin parts
    /\ \A r \in Requests : Starts(r) \/ pc[r] = "create" => at[r] \in Games \cap made
    /\ \A r \in Requests :
          pc[r] = "remove" => which[r] \in Parts /\ of[which[r]] = at[r] /\ at[r] # NoId

\* The game a creation has read is there, unless it was overtaken.
CreationsOK ==
    \A r \in Requests : pc[r] = "create" => at[r] \in games \/ r \in overtaken

\* A deletion misses only what came after it looked.
DeletionsOK ==
    \A r \in Requests, d \in parts : of[d] = at[r] =>
        /\ pc[r] = "teams" /\ d \in Teams => d \in newer[r]
        /\ pc[r] = "delete" => d \in newer[r]

\* A start has what the game says; after the clock check, the game has begun and no
\* update of it can be written.
StartsOK ==
    \A r \in Requests : Starts(r) =>
        /\ which[r] \in Challenges
        /\ r \notin overtaken =>
              /\ since[r] = from[at[r]] /\ until[r] = to[at[r]]
              /\ pc[r] \in Admitted => Begun(since[r])
              /\ pc[r] \in Admitted => At("update", at[r]) \subseteq stale

StartsHaveGame ==
    \A r \in Requests :
        Starts(r) /\ r \notin overtaken /\ ~Past(until[r]) => at[r] \in games

\* The challenge of a start is there and no removal of it is under way.
StartedOK ==
    \A r \in Requests : Started(r) /\ r \notin overtaken =>
        /\ which[r] \in parts /\ of[which[r]] = at[r]
        /\ \A u \in Requests : pc[u] = "remove" => which[u] # which[r]

IInv ==
    /\ TypeOK
    /\ MadeOK
    /\ CreationsOK
    /\ DeletionsOK
    /\ OrphansOverlapped
    /\ StartsOK
    /\ StartsHaveGame
    /\ StartedOK

LEMMA InitHolds == Init => IInv
<1> SUFFICES ASSUME Init PROVE IInv OBVIOUS
<1> USE DEF Init
<1>1. TypeOK BY DEF TypeOK, Times, Labels, Admitted
<1>2. MadeOK BY DEF MadeOK, Starts, Admitted
<1>3. CreationsOK /\ DeletionsOK /\ OrphansOverlapped
  BY DEF CreationsOK, DeletionsOK, OrphansOverlapped
<1>4. StartsOK /\ StartsHaveGame /\ StartedOK
  BY DEF StartsOK, StartsHaveGame, StartedOK, Starts, Started, Admitted
<1> QED BY <1>1, <1>2, <1>3, <1>4 DEF IInv

-----------------------------------------------------------------------------
LEMMA TickKeeps ==
    ASSUME IInv, Tick
    PROVE  IInv'
<1> USE DEF IInv, Tick, records, requests, history
<1>1. TypeOK' BY DEF TypeOK, Times
<1>2. MadeOK' BY DEF TypeOK, MadeOK, Starts, Admitted
<1>3. CreationsOK' BY DEF TypeOK, CreationsOK
<1>4. DeletionsOK' BY DEF TypeOK, DeletionsOK
<1>5. OrphansOverlapped' BY DEF TypeOK, OrphansOverlapped
<1>6. StartsOK' BY DEF TypeOK, StartsOK, Starts, Admitted, Begun, At, Times, MadeOK
<1>7. StartsHaveGame' BY DEF TypeOK, StartsHaveGame, Starts, Admitted, Past, Times
<1>8. StartedOK' BY DEF TypeOK, StartedOK, Started
<1> QED BY <1>1, <1>2, <1>3, <1>4, <1>5, <1>6, <1>7, <1>8

LEMMA LeaveKeeps ==
    ASSUME IInv, NEW r \in Requests, Leave(r)
    PROVE  IInv'
<1> USE DEF IInv, Leave, Done, records
<1>1. TypeOK' BY DEF TypeOK, Labels, Admitted, Times
<1>2. MadeOK' BY DEF TypeOK, MadeOK, Starts, Admitted
<1>3. CreationsOK' BY DEF TypeOK, CreationsOK
<1>4. DeletionsOK' BY DEF TypeOK, DeletionsOK
<1>5. OrphansOverlapped' BY DEF TypeOK, OrphansOverlapped
<1>6. StartsOK' BY DEF TypeOK, StartsOK, Starts, Admitted, Begun, At
<1>7. StartsHaveGame' BY DEF TypeOK, StartsHaveGame, Starts, Admitted, Past
<1>8. StartedOK' BY DEF TypeOK, StartedOK, Started
<1> QED BY <1>1, <1>2, <1>3, <1>4, <1>5, <1>6, <1>7, <1>8

LEMMA CreateGameKeeps ==
    ASSUME IInv, NEW g \in Games, NEW f \in Times, NEW t \in Times,
           CreateGame(g, f, t)
    PROVE  IInv'
<1> USE DEF IInv, CreateGame, requests, history
<1>1. TypeOK' BY DEF TypeOK
<1>2. MadeOK' BY DEF TypeOK, MadeOK, Starts, Admitted
<1>3. CreationsOK' BY DEF TypeOK, CreationsOK
<1>4. DeletionsOK' BY DEF TypeOK, DeletionsOK
<1>5. OrphansOverlapped' BY DEF TypeOK, OrphansOverlapped
<1>6. StartsOK' BY DEF TypeOK, StartsOK, Starts, Admitted, Begun, At, MadeOK
<1>7. StartsHaveGame' BY DEF TypeOK, StartsHaveGame, Starts, Admitted, Past
<1>8. StartedOK' BY DEF TypeOK, StartedOK, Started
<1> QED BY <1>1, <1>2, <1>3, <1>4, <1>5, <1>6, <1>7, <1>8

LEMMA UpdateReadKeeps ==
    ASSUME IInv, NEW r \in Requests, NEW g \in Games, UpdateRead(r, g)
    PROVE  IInv'
<1> USE DEF IInv, UpdateRead, Begin, records
<1>1. TypeOK' BY DEF TypeOK, Labels, Admitted, AtTheBegin
<1>2. MadeOK' BY DEF TypeOK, MadeOK, Starts, Admitted
<1>3. CreationsOK' BY DEF TypeOK, CreationsOK
<1>4. DeletionsOK' BY DEF TypeOK, DeletionsOK
<1>5. OrphansOverlapped' BY DEF TypeOK, OrphansOverlapped
<1>6. StartsOK' BY DEF TypeOK, StartsOK, Starts, Admitted, Begun, Past, AtTheBegin, At, Times
<1>7. StartsHaveGame' BY DEF TypeOK, StartsHaveGame, Starts, Admitted, Past
<1>8. StartedOK' BY DEF TypeOK, StartedOK, Started
<1> QED BY <1>1, <1>2, <1>3, <1>4, <1>5, <1>6, <1>7, <1>8

LEMMA UpdateWriteKeeps ==
    ASSUME IInv, NEW r \in Requests, NEW f \in Times, NEW t \in Times,
           UpdateWrite(r, f, t)
    PROVE  IInv'
<1> USE DEF IInv, UpdateWrite, Done
<1>1. TypeOK' BY DEF TypeOK, Labels, Admitted, Times, At
<1>2. MadeOK' BY DEF TypeOK, MadeOK, Starts, Admitted
<1>3. CreationsOK' BY DEF TypeOK, CreationsOK
<1>4. DeletionsOK' BY DEF TypeOK, DeletionsOK
<1>5. OrphansOverlapped' BY DEF TypeOK, OrphansOverlapped
<1>6. StartsOK' BY DEF TypeOK, StartsOK, Starts, Admitted, Begun, At
<1>7. StartsHaveGame' BY DEF TypeOK, StartsHaveGame, Starts, Admitted, Past
<1>8. StartedOK' BY DEF TypeOK, StartedOK, Started
<1> QED BY <1>1, <1>2, <1>3, <1>4, <1>5, <1>6, <1>7, <1>8

LEMMA DeleteTeamsKeeps ==
    ASSUME IInv, NEW r \in Requests, NEW g \in Games, DeleteTeams(r, g)
    PROVE  IInv'
<1> USE DEF IInv, DeleteTeams, Begin, records, history
<1>1. TypeOK' BY DEF TypeOK, Labels, Admitted
<1>2. MadeOK' BY DEF TypeOK, MadeOK, Starts, Admitted
<1>3. CreationsOK' BY DEF TypeOK, CreationsOK
<1>4. DeletionsOK' BY DEF TypeOK, DeletionsOK, Has
<1>5. OrphansOverlapped' BY DEF TypeOK, OrphansOverlapped
<1>6. StartsOK' BY DEF TypeOK, StartsOK, Starts, Admitted, Begun, At
<1>7. StartsHaveGame' BY DEF TypeOK, StartsHaveGame, Starts, Admitted, Past
<1>8. StartedOK' BY DEF TypeOK, StartedOK, Started
<1> QED BY <1>1, <1>2, <1>3, <1>4, <1>5, <1>6, <1>7, <1>8

LEMMA DeleteChallengesKeeps ==
    ASSUME IInv, NEW r \in Requests, DeleteChallenges(r)
    PROVE  IInv'
<1> USE DEF IInv, DeleteChallenges, Goto, records, history
<1>1. TypeOK' BY DEF TypeOK, Labels, Admitted
<1>2. MadeOK' BY DEF TypeOK, MadeOK, Starts, Admitted
<1>3. CreationsOK' BY DEF TypeOK, CreationsOK
<1>4. DeletionsOK' BY DEF TypeOK, DeletionsOK, Has, Parts
<1>5. OrphansOverlapped' BY DEF TypeOK, OrphansOverlapped
<1>6. StartsOK' BY DEF TypeOK, StartsOK, Starts, Admitted, Begun, At
<1>7. StartsHaveGame' BY DEF TypeOK, StartsHaveGame, Starts, Admitted, Past
<1>8. StartedOK' BY DEF TypeOK, StartedOK, Started
<1> QED BY <1>1, <1>2, <1>3, <1>4, <1>5, <1>6, <1>7, <1>8

LEMMA DeleteGameKeeps ==
    ASSUME IInv, NEW r \in Requests, DeleteGame(r)
    PROVE  IInv'
<1> USE DEF IInv, DeleteGame, Done
<1>1. TypeOK' BY DEF TypeOK, Labels, Admitted, Times, At
<1>2. MadeOK' BY DEF TypeOK, MadeOK, Starts, Admitted
<1>3. CreationsOK' BY DEF TypeOK, CreationsOK, At
<1>4. DeletionsOK' BY DEF TypeOK, DeletionsOK
<1>5. OrphansOverlapped' BY DEF TypeOK, OrphansOverlapped, DeletionsOK
<1>6. StartsOK' BY DEF TypeOK, StartsOK, Starts, Admitted, Begun, At, MadeOK
<1>7. StartsHaveGame' BY DEF TypeOK, StartsHaveGame, Starts, Admitted, Past, StartsOK
<1>8. StartedOK' BY DEF TypeOK, StartedOK, Started
<1> QED BY <1>1, <1>2, <1>3, <1>4, <1>5, <1>6, <1>7, <1>8

LEMMA CreateReadKeeps ==
    ASSUME IInv, NEW r \in Requests, NEW g \in Games, CreateRead(r, g)
    PROVE  IInv'
<1> USE DEF IInv, CreateRead, Begin, records, history
<1>1. TypeOK' BY DEF TypeOK, Labels, Admitted
<1>2. MadeOK' BY DEF TypeOK, MadeOK, Starts, Admitted, Parts
<1>3. CreationsOK' BY DEF TypeOK, CreationsOK
<1>4. DeletionsOK' BY DEF TypeOK, DeletionsOK
<1>5. OrphansOverlapped' BY DEF TypeOK, OrphansOverlapped
<1>6. StartsOK' BY DEF TypeOK, StartsOK, Starts, Admitted, Begun, At
<1>7. StartsHaveGame' BY DEF TypeOK, StartsHaveGame, Starts, Admitted, Past
<1>8. StartedOK' BY DEF TypeOK, StartedOK, Started
<1> QED BY <1>1, <1>2, <1>3, <1>4, <1>5, <1>6, <1>7, <1>8

LEMMA CreatePartKeeps ==
    ASSUME IInv, NEW r \in Requests, NEW d \in Parts, CreatePart(r, d)
    PROVE  IInv'
<1> USE DEF IInv, CreatePart, Done
<1>1. TypeOK' BY DEF TypeOK, Labels, Admitted, Times, Missing, At, MadeOK, Starts
<1>2. MadeOK' BY DEF TypeOK, MadeOK, Starts, Admitted
<1>3. CreationsOK' BY DEF TypeOK, CreationsOK
<1>4. DeletionsOK' BY DEF TypeOK, DeletionsOK, Missing, At
<1>5. OrphansOverlapped' BY DEF TypeOK, OrphansOverlapped, CreationsOK
<1>6. StartsOK' BY DEF TypeOK, StartsOK, Starts, Admitted, Begun, At
<1>7. StartsHaveGame' BY DEF TypeOK, StartsHaveGame, Starts, Admitted, Past
<1>8. StartedOK' BY DEF TypeOK, StartedOK, Started, MadeOK
<1> QED BY <1>1, <1>2, <1>3, <1>4, <1>5, <1>6, <1>7, <1>8

LEMMA RemoveReadKeeps ==
    ASSUME IInv, NEW r \in Requests, NEW d \in Parts, RemoveRead(r, d)
    PROVE  IInv'
<1> USE DEF IInv, RemoveRead, Begin, records
<1>1. TypeOK' BY DEF TypeOK, Labels, Admitted, AtTheBegin
<1>2. MadeOK' BY DEF TypeOK, MadeOK, Starts, Admitted
<1>3. CreationsOK' BY DEF TypeOK, CreationsOK
<1>4. DeletionsOK' BY DEF TypeOK, DeletionsOK
<1>5. OrphansOverlapped' BY DEF TypeOK, OrphansOverlapped
<1>6. StartsOK' BY DEF TypeOK, StartsOK, Starts, Admitted, Begun, At
<1>7. StartsHaveGame' BY DEF TypeOK, StartsHaveGame, Starts, Admitted, Past
<1>8. StartedOK' BY DEF TypeOK, StartedOK, Started, StartsOK, Starts, Admitted,
     Begun, Past, AtTheBegin, Times, Parts
<1> QED BY <1>1, <1>2, <1>3, <1>4, <1>5, <1>6, <1>7, <1>8

LEMMA RemovePartKeeps ==
    ASSUME IInv, NEW r \in Requests, RemovePart(r)
    PROVE  IInv'
<1> USE DEF IInv, RemovePart, Done, history
<1>1. TypeOK' BY DEF TypeOK, Labels, Admitted, Times
<1>2. MadeOK' BY DEF TypeOK, MadeOK, Starts, Admitted
<1>3. CreationsOK' BY DEF TypeOK, CreationsOK
<1>4. DeletionsOK' BY DEF TypeOK, DeletionsOK
<1>5. OrphansOverlapped' BY DEF TypeOK, OrphansOverlapped
<1>6. StartsOK' BY DEF TypeOK, StartsOK, Starts, Admitted, Begun, At
<1>7. StartsHaveGame' BY DEF TypeOK, StartsHaveGame, Starts, Admitted, Past
<1>8. StartedOK' BY DEF TypeOK, StartedOK, Started
<1> QED BY <1>1, <1>2, <1>3, <1>4, <1>5, <1>6, <1>7, <1>8

LEMMA StartReadKeeps ==
    ASSUME IInv, NEW r \in Requests, NEW g \in Games, NEW c \in Challenges,
           StartRead(r, g, c)
    PROVE  IInv'
<1> USE DEF IInv, StartRead, Begin, records, history
<1>1. TypeOK' BY DEF TypeOK, Labels, Admitted, Parts
<1>2. MadeOK' BY DEF TypeOK, MadeOK, Starts, Admitted
<1>3. CreationsOK' BY DEF TypeOK, CreationsOK
<1>4. DeletionsOK' BY DEF TypeOK, DeletionsOK
<1>5. OrphansOverlapped' BY DEF TypeOK, OrphansOverlapped
<1>6. StartsOK' BY DEF TypeOK, StartsOK, Starts, Admitted, Begun, At
<1>7. StartsHaveGame' BY DEF TypeOK, StartsHaveGame, Starts, Admitted, Past
<1>8. StartedOK' BY DEF TypeOK, StartedOK, Started, Parts
<1> QED BY <1>1, <1>2, <1>3, <1>4, <1>5, <1>6, <1>7, <1>8

LEMMA StartClockKeeps ==
    ASSUME IInv, NEW r \in Requests, StartClock(r)
    PROVE  IInv'
<1> USE DEF IInv, StartClock, Goto, records
<1>1. TypeOK' BY DEF TypeOK, Labels, Admitted
<1>2. MadeOK' BY DEF TypeOK, MadeOK, Starts, Admitted
<1>3. CreationsOK' BY DEF TypeOK, CreationsOK
<1>4. DeletionsOK' BY DEF TypeOK, DeletionsOK
<1>5. OrphansOverlapped' BY DEF TypeOK, OrphansOverlapped
<1>6. StartsOK' BY DEF TypeOK, StartsOK, Starts, Admitted, Begun, At
<1>7. StartsHaveGame' BY DEF TypeOK, StartsHaveGame, Starts, Admitted, Past
<1>8. StartedOK' BY DEF TypeOK, StartedOK, Started
<1> QED BY <1>1, <1>2, <1>3, <1>4, <1>5, <1>6, <1>7, <1>8

LEMMA StartChallengeKeeps ==
    ASSUME IInv, NEW r \in Requests, StartChallenge(r)
    PROVE  IInv'
<1> USE DEF IInv, StartChallenge, Goto, records
<1>1. TypeOK' BY DEF TypeOK, Labels, Admitted
<1>2. MadeOK' BY DEF TypeOK, MadeOK, Starts, Admitted
<1>3. CreationsOK' BY DEF TypeOK, CreationsOK
<1>4. DeletionsOK' BY DEF TypeOK, DeletionsOK
<1>5. OrphansOverlapped' BY DEF TypeOK, OrphansOverlapped
<1>6. StartsOK' BY DEF TypeOK, StartsOK, Starts, Admitted, Begun, At
<1>7. StartsHaveGame' BY DEF TypeOK, StartsHaveGame, Starts, Admitted, Past
<1>8. StartedOK' BY DEF TypeOK, StartedOK, Started, At, MadeOK, StartsOK, Starts
<1> QED BY <1>1, <1>2, <1>3, <1>4, <1>5, <1>6, <1>7, <1>8

LEMMA StartRunKeeps ==
    ASSUME IInv, NEW r \in Requests, StartRun(r)
    PROVE  IInv'
<1> USE DEF IInv, StartRun, Goto, records, history
<1>1. TypeOK' BY DEF TypeOK, Labels, Admitted
<1>2. MadeOK' BY DEF TypeOK, MadeOK, Starts, Admitted
<1>3. CreationsOK' BY DEF TypeOK, CreationsOK
<1>4. DeletionsOK' BY DEF TypeOK, DeletionsOK
<1>5. OrphansOverlapped' BY DEF TypeOK, OrphansOverlapped
<1>6. StartsOK' BY DEF TypeOK, StartsOK, Starts, Admitted, Begun, At
<1>7. StartsHaveGame' BY DEF TypeOK, StartsHaveGame, Starts, Admitted, Past
<1>8. StartedOK' BY DEF TypeOK, StartedOK, Started
<1> QED BY <1>1, <1>2, <1>3, <1>4, <1>5, <1>6, <1>7, <1>8

-----------------------------------------------------------------------------
LEMMA StepKeeps == IInv /\ [Next]_vars => IInv'
<1> SUFFICES ASSUME IInv, [Next]_vars PROVE IInv' OBVIOUS
<1>1. CASE UNCHANGED vars
  BY <1>1 DEF vars, records, requests, history, IInv, TypeOK, MadeOK, CreationsOK,
     DeletionsOK, OrphansOverlapped, StartsOK, StartsHaveGame, StartedOK, Starts,
     Started, Admitted, Begun, Past, At
<1>2. CASE Tick BY <1>2, TickKeeps
<1>3. CASE \E g \in Games, f, t \in Times : CreateGame(g, f, t)
  BY <1>3, CreateGameKeeps
<1>4. ASSUME NEW r \in Requests, Serve(r) PROVE IInv'
  <2>1. CASE Leave(r) BY <2>1, LeaveKeeps
  <2>2. CASE \E g \in Games : UpdateRead(r, g) \/ DeleteTeams(r, g) \/ CreateRead(r, g)
    BY <2>2, UpdateReadKeeps, DeleteTeamsKeeps, CreateReadKeeps
  <2>3. CASE \E f, t \in Times : UpdateWrite(r, f, t) BY <2>3, UpdateWriteKeeps
  <2>4. CASE DeleteChallenges(r) \/ DeleteGame(r)
    BY <2>4, DeleteChallengesKeeps, DeleteGameKeeps
  <2>5. CASE \E d \in Parts : CreatePart(r, d) \/ RemoveRead(r, d)
    BY <2>5, CreatePartKeeps, RemoveReadKeeps
  <2>6. CASE RemovePart(r) BY <2>6, RemovePartKeeps
  <2>7. CASE \E g \in Games, c \in Challenges : StartRead(r, g, c)
    BY <2>7, StartReadKeeps
  <2>8. CASE StartClock(r) \/ StartChallenge(r) \/ StartRun(r)
    BY <2>8, StartClockKeeps, StartChallengeKeeps, StartRunKeeps
  <2> QED BY <1>4, <2>1, <2>2, <2>3, <2>4, <2>5, <2>6, <2>7, <2>8 DEF Serve
<1> QED BY <1>1, <1>2, <1>3, <1>4 DEF Next

LEMMA Inductive == Spec => []IInv
BY InitHolds, StepKeeps, PTL DEF Spec

\* Every variable keeps its type, and what names a game names one that was made.
THEOREM TypeCorrect == Spec => []TypeOK
BY Inductive, PTL DEF IInv

\* No team and no challenge loses its game but to a deletion its creation overlapped.
THEOREM OrphansAreOverlapped == Spec => []OrphansOverlapped
BY Inductive, PTL DEF IInv

\* A run keeps the end of its game.
THEOREM RunsAgreeWithGame == Spec => []RunsEndWithGame
<1>1. IInv => RunsEndWithGame
  BY DEF IInv, StartsOK, Starts, Admitted, RunsEndWithGame, Runs
<1> QED BY <1>1, Inductive, PTL

\* The game of a run is there until the deadline.
THEOREM RunsKeepGame == Spec => []RunsHaveGame
<1>1. IInv => RunsHaveGame
  BY DEF IInv, StartsHaveGame, Starts, Admitted, RunsHaveGame, Runs
<1> QED BY <1>1, Inductive, PTL

\* The challenge of a run is there.
THEOREM RunsKeepChallenge == Spec => []RunsHaveChallenge
<1>1. IInv => RunsHaveChallenge
  BY DEF IInv, StartedOK, Started, RunsHaveChallenge, Runs
<1> QED BY <1>1, Inductive, PTL

=============================================================================
