---------------------------- MODULE ScoringProofs ----------------------------
(* Theorems about Scoring, for every value of its constants. *)
EXTENDS Scoring, FiniteSetTheorems, TLAPS

-----------------------------------------------------------------------------
(* The inductive invariant *)

\* Run r has check k of challenge c on its list, live.
Holders(c, k) == {r \in Runs : of[r] = c /\ Live(r, k)}

\* A run that awards a check still has it, live: the check map is locked.
AwardIsLive ==
    \A r \in Runs : pc[r] \in {"award", "logging"} => Live(r, cur[r])

\* A guest that was not launched has no checks.
OffIsEmpty == \A r \in Runs : pc[r] = "off" => checks[r] = {}

\* Every live check was added once and is not in the score events yet.
LiveWasIssued ==
    \A c \in Challenges, k \in Checks \ Repeating :
        log[c][k] + Cardinality(Holders(c, k)) <= issued[c][k]

IInv == TypeOK /\ AwardIsLive /\ OffIsEmpty /\ Ledger /\ LiveWasIssued

-----------------------------------------------------------------------------
(* Finite sets *)

\* Every set of runs or of requests is finite.
LEMMA Finite ==
    /\ \A S : S \subseteq Runs \/ S \subseteq Requests => IsFiniteSet(S)
    /\ \A S : S \subseteq Runs \/ S \subseteq Requests => Cardinality(S) \in Nat
<1> QED BY ScoringAssumption, FS_Subset, FS_CardinalityType

\* One element more is one more, one element less is one less.
LEMMA OneMore ==
    ASSUME NEW S, NEW x, IsFiniteSet(S), x \notin S
    PROVE  Cardinality(S \cup {x}) = Cardinality(S) + 1
<1> QED BY FS_AddElement

LEMMA OneLess ==
    ASSUME NEW S, NEW x, IsFiniteSet(S), x \in S
    PROVE  Cardinality(S \ {x}) = Cardinality(S) - 1
<1> QED BY FS_RemoveElement

-----------------------------------------------------------------------------
(* Types *)

\* The types hold initially.
LEMMA InitTypeOK == Init => TypeOK
<1> QED BY ScoringAssumption DEF Init, TypeOK, Counts, Items

\* Incrementing one count keeps a function of counts.
LEMMA IncType ==
    ASSUME NEW f \in Counts, NEW c \in Challenges, NEW i \in Items
    PROVE  /\ Inc(f, c, i) \in Counts
           /\ Inc(f, c, i)[c][i] = f[c][i] + 1
           /\ \A d \in Challenges, j \in Items :
                 <<d, j>> # <<c, i>> => Inc(f, c, i)[d][j] = f[d][j]
           /\ f[c][i] \in Nat
<1> QED BY DEF Inc, Counts

\* What an increment does to any count.
LEMMA IncValue ==
    ASSUME NEW f \in Counts, NEW c \in Challenges, NEW i \in Items,
           NEW d \in Challenges, NEW j \in Items
    PROVE  Inc(f, c, i)[d][j] = IF d = c /\ j = i THEN f[d][j] + 1 ELSE f[d][j]
<1> QED BY DEF Inc, Counts

\* Checks and clues are items, and no check is a clue.
LEMMA ItemKinds ==
    /\ Checks \subseteq Items /\ Clues \subseteq Items
    /\ \A k \in Checks, h \in Clues : k # h
<1> QED BY ScoringAssumption DEF Items

\* The counts have their type.
LEMMA CountTypes ==
    TypeOK => /\ credit \in Counts /\ log \in Counts
              /\ lost \in Counts /\ issued \in Counts
<1> QED BY DEF TypeOK

\* Every step keeps the types.
LEMMA StepTypeOK == TypeOK /\ [Next]_vars => TypeOK'
<1> SUFFICES ASSUME TypeOK, [Next]_vars PROVE TypeOK'
  OBVIOUS
<1> USE ScoringAssumption DEF TypeOK, store, guest, requests
<1>1. ASSUME NEW r \in Runs, Build(r) PROVE TypeOK'
  <2>1. ASSUME NEW c \in Challenges, Launch(r, c) PROVE TypeOK'
    BY <2>1 DEF Launch, Goto
  <2>2. ASSUME NEW k \in Clues, AddClueEarly(r, k) PROVE TypeOK'
    BY <2>2 DEF AddClueEarly
  <2>3. ASSUME NEW k \in Clues, AddClueLater(r, k) PROVE TypeOK'
    BY <2>3 DEF AddClueLater
  <2>4. ASSUME NEW k \in Checks, AddCheck(r, k) PROVE TypeOK'
    <3>1. of[r] \in Challenges /\ k \in Items
      BY <2>4 DEF AddCheck, Unlocked, Items
    <3>2. issued' \in Counts
      BY <2>4, <3>1, IncType DEF AddCheck
    <3>3. wait' \in [Runs -> [Checks -> Nat]]
      BY <2>4 DEF AddCheck
    <3> QED BY <2>4, <3>2, <3>3 DEF AddCheck, Unlocked
  <2>5. ASSUME NEW k \in Checks, RemoveCheck(r, k) PROVE TypeOK'
    BY <2>5 DEF RemoveCheck
  <2>6. CASE Publish(r) BY <2>6 DEF Publish, Goto
  <2> QED BY <1>1, <2>1, <2>2, <2>3, <2>4, <2>5, <2>6 DEF Build
<1>2. ASSUME NEW r \in Runs, Loop(r) PROVE TypeOK'
  <2>1. CASE Wake(r)
    <3>1. [k \in Checks |-> IF wait[r][k] = 0 THEN 0 ELSE wait[r][k] - 1]
             \in [Checks -> Nat]
      OBVIOUS
    <3>2. wait' \in [Runs -> [Checks -> Nat]]
      BY <2>1, <3>1 DEF Wake
    <3> QED BY <2>1, <3>2 DEF Wake, Goto
  <2>2. CASE EndRound(r) BY <2>2 DEF EndRound, Goto
  <2>3. CASE Credit(r)
    <3>1. of[r] \in Challenges /\ cur[r] \in Items
      BY <2>3 DEF Credit, Items
    <3>2. credit' \in Counts
      BY <2>3, <3>1, IncType DEF Credit
    <3> QED BY <2>3, <3>2 DEF Credit, Goto
  <2>4. CASE Log(r)
    <3>1. of[r] \in Challenges /\ cur[r] \in Items
      BY <2>4 DEF Log, Items
    <3>2. log' \in Counts
      BY <2>4, <3>1, IncType DEF Log
    <3> QED BY <2>4, <3>2 DEF Log, Goto
  <2>5. CASE AwardFails(r) BY <2>5, IncType DEF AwardFails, Goto, Items
  <2>6. ASSUME NEW k \in Checks, Skip(r, k) PROVE TypeOK'
    BY <2>6 DEF Skip
  <2>7. ASSUME NEW k \in Checks, NotPassed(r, k) PROVE TypeOK'
    BY <2>7 DEF NotPassed, Due
  <2>8. ASSUME NEW k \in Checks, Passed(r, k) PROVE TypeOK'
    BY <2>8 DEF Passed, Due, Goto
  <2> QED BY <1>2, <2>1, <2>2, <2>3, <2>4, <2>5, <2>6, <2>7, <2>8 DEF Loop
<1>3. ASSUME NEW r \in Runs, End(r) PROVE TypeOK'
  BY <1>3, IncType DEF End, Goto, Items
<1>4. ASSUME NEW q \in Requests, Request(q) PROVE TypeOK'
  <2>1. ASSUME NEW c \in Challenges, NEW k \in Clues, FindPrice(q, c, k)
        PROVE  TypeOK'
    BY <2>1 DEF FindPrice
  <2>2. CASE Uncover(q)
    <3>1. reqOf[q] \in Challenges /\ reqClue[q] \in Items
      BY <2>2 DEF Uncover, Items
    <3>2. log' \in Counts
      BY <2>2, <3>1, IncType DEF Uncover
    <3> QED BY <2>2, <3>2 DEF Uncover
  <2>3. CASE Charge(q)
    <3>1. reqOf[q] \in Challenges /\ reqClue[q] \in Items
      BY <2>3 DEF Charge, Items
    <3>2. credit' \in Counts
      BY <2>3, <3>1, IncType DEF Charge
    <3> QED BY <2>3, <3>2 DEF Charge
  <2>4. CASE UncoverFails(q)
    <3>1. req[q] = "charge" =>
            reqOf[q] \in Challenges /\ reqClue[q] \in Items
      BY <2>4 DEF Items
    <3>2. lost' \in Counts
      BY <2>4, <3>1, IncType DEF UncoverFails
    <3> QED BY <2>4, <3>2 DEF UncoverFails
  <2> QED BY <1>4, <2>1, <2>2, <2>3, <2>4 DEF Request
<1>5. ASSUME NEW c \in Challenges, NEW k \in Checks, Play(c, k) PROVE TypeOK'
  BY <1>5 DEF Play
<1>6. CASE UNCHANGED vars BY <1>6 DEF vars
<1> QED BY <1>1, <1>2, <1>3, <1>4, <1>5, <1>6 DEF Next

\* Counts are counts and runs and requests are where they can be.
THEOREM TypeCorrect == Spec => []TypeOK
<1> QED BY InitTypeOK, StepTypeOK, PTL DEF Spec

-----------------------------------------------------------------------------
(* The check map *)

\* Nothing takes the live check away from a run that awards it.
LEMMA StepAwardIsLive ==
    TypeOK /\ AwardIsLive /\ [Next]_vars => AwardIsLive'
<1> SUFFICES ASSUME TypeOK, AwardIsLive, [Next]_vars PROVE AwardIsLive'
  OBVIOUS
<1> USE DEF AwardIsLive, Live, TypeOK, guest
<1>1. ASSUME NEW r \in Runs, Build(r) PROVE AwardIsLive'
  BY <1>1 DEF Build, Launch, AddClueEarly, AddClueLater, AddCheck, RemoveCheck,
              Publish, Goto, Unlocked
<1>2. ASSUME NEW r \in Runs, Loop(r) PROVE AwardIsLive'
  <2>1. CASE Wake(r) \/ EndRound(r) BY <2>1 DEF Wake, EndRound, Goto
  <2>2. CASE Credit(r) BY <2>2 DEF Credit, Goto
  <2>3. CASE Log(r) BY <2>3 DEF Log, Goto
  <2>4. CASE AwardFails(r) BY <2>4 DEF AwardFails, Goto
  <2>5. ASSUME NEW k \in Checks, Skip(r, k) \/ NotPassed(r, k)
        PROVE  AwardIsLive'
    BY <2>5 DEF Skip, NotPassed, Due
  <2>6. ASSUME NEW k \in Checks, Passed(r, k) PROVE AwardIsLive'
    BY <2>6 DEF Passed, Due, Goto
  <2> QED BY <1>2, <2>1, <2>2, <2>3, <2>4, <2>5, <2>6 DEF Loop
<1>3. ASSUME NEW r \in Runs, End(r) PROVE AwardIsLive'
  BY <1>3 DEF End, Goto
<1>4. ASSUME NEW q \in Requests, Request(q) PROVE AwardIsLive'
  BY <1>4 DEF Request, FindPrice, Uncover, Charge, UncoverFails
<1>5. ASSUME NEW c \in Challenges, NEW k \in Checks, Play(c, k)
      PROVE  AwardIsLive'
  BY <1>5 DEF Play
<1>6. CASE UNCHANGED vars BY <1>6 DEF vars
<1> QED BY <1>1, <1>2, <1>3, <1>4, <1>5, <1>6 DEF Next

\* Checks are added to launched guests only, and no guest is launched twice.
LEMMA StepOffIsEmpty ==
    TypeOK /\ OffIsEmpty /\ [Next]_vars => OffIsEmpty'
<1> SUFFICES ASSUME TypeOK, OffIsEmpty, [Next]_vars PROVE OffIsEmpty'
  OBVIOUS
<1> USE DEF OffIsEmpty, TypeOK, guest
<1>1. ASSUME NEW r \in Runs, Build(r) PROVE OffIsEmpty'
  BY <1>1 DEF Build, Launch, AddClueEarly, AddClueLater, AddCheck, RemoveCheck,
              Publish, Goto, Unlocked
<1>2. ASSUME NEW r \in Runs, Loop(r) PROVE OffIsEmpty'
  BY <1>2 DEF Loop, Wake, EndRound, Credit, Log, AwardFails, Skip, NotPassed,
              Passed, Due, Goto
<1>3. ASSUME NEW r \in Runs, End(r) PROVE OffIsEmpty'
  BY <1>3 DEF End, Goto
<1>4. ASSUME NEW q \in Requests, Request(q) PROVE OffIsEmpty'
  BY <1>4 DEF Request, FindPrice, Uncover, Charge, UncoverFails
<1>5. ASSUME NEW c \in Challenges, NEW k \in Checks, Play(c, k)
      PROVE  OffIsEmpty'
  BY <1>5 DEF Play
<1>6. CASE UNCHANGED vars BY <1>6 DEF vars
<1> QED BY <1>1, <1>2, <1>3, <1>4, <1>5, <1>6 DEF Next

-----------------------------------------------------------------------------
(* The ledger *)

\* What keeps the second writes to come keeps the number of them.
LEMMA SameAwards ==
    ASSUME \A r \in Runs : (pc'[r] = "logging") <=> (pc[r] = "logging"),
           \A r \in Runs :
              pc[r] = "logging" => of'[r] = of[r] /\ cur'[r] = cur[r]
    PROVE  \A c \in Challenges, k \in Checks : Awarding(c, k)' = Awarding(c, k)
<1> QED BY DEF Awarding

LEMMA SameCharges ==
    ASSUME \A q \in Requests : (req'[q] = "charge") <=> (req[q] = "charge"),
           \A q \in Requests :
              req[q] = "charge" =>
                 reqOf'[q] = reqOf[q] /\ reqClue'[q] = reqClue[q]
    PROVE  \A c \in Challenges, k \in Clues : Charging(c, k)' = Charging(c, k)
<1> QED BY DEF Charging

\* A run that leaves "logging" is one second write less, of its check only.
LEMMA AwardEnds ==
    ASSUME TypeOK, NEW r \in Runs, pc[r] = "logging",
           NEW label, label # "logging", pc' = [pc EXCEPT ![r] = label],
           UNCHANGED <<of, cur>>
    PROVE  /\ Cardinality(Awarding(of[r], cur[r])) =
                 Cardinality(Awarding(of[r], cur[r])') + 1
           /\ \A c \in Challenges, k \in Checks :
                 <<c, k>> # <<of[r], cur[r]>> =>
                    Awarding(c, k)' = Awarding(c, k)
<1> USE DEF TypeOK
<1>1. pc' \in [Runs -> {label} \cup {pc[s] : s \in Runs}]
  OBVIOUS
<1>2. Awarding(of[r], cur[r])' = Awarding(of[r], cur[r]) \ {r}
  BY <1>1 DEF Awarding
<1>3. r \in Awarding(of[r], cur[r]) /\ Awarding(of[r], cur[r]) \subseteq Runs
  BY DEF Awarding
<1>4. ASSUME NEW c \in Challenges, NEW k \in Checks,
             <<c, k>> # <<of[r], cur[r]>>
      PROVE  Awarding(c, k)' = Awarding(c, k)
  BY <1>1, <1>4 DEF Awarding
<1>5. /\ IsFiniteSet(Awarding(of[r], cur[r]))
      /\ Cardinality(Awarding(of[r], cur[r])) \in Nat
  BY <1>3, Finite
<1>6. Cardinality(Awarding(of[r], cur[r]) \ {r}) =
         Cardinality(Awarding(of[r], cur[r])) - 1
  BY <1>3, <1>5, OneLess
<1>7. Cardinality(Awarding(of[r], cur[r])) =
         Cardinality(Awarding(of[r], cur[r])') + 1
  BY <1>2, <1>5, <1>6
<1> QED BY <1>4, <1>7

\* A request that leaves "charge" likewise.
LEMMA ChargeEnds ==
    ASSUME TypeOK, NEW q \in Requests, req[q] = "charge",
           req' = [req EXCEPT ![q] = "idle"], UNCHANGED <<reqOf, reqClue>>
    PROVE  /\ Cardinality(Charging(reqOf[q], reqClue[q])) =
                 Cardinality(Charging(reqOf[q], reqClue[q])') + 1
           /\ \A c \in Challenges, k \in Clues :
                 <<c, k>> # <<reqOf[q], reqClue[q]>> =>
                    Charging(c, k)' = Charging(c, k)
<1> USE DEF TypeOK
<1>1. Charging(reqOf[q], reqClue[q])' = Charging(reqOf[q], reqClue[q]) \ {q}
  BY DEF Charging
<1>2. /\ q \in Charging(reqOf[q], reqClue[q])
      /\ Charging(reqOf[q], reqClue[q]) \subseteq Requests
  BY DEF Charging
<1>3. ASSUME NEW c \in Challenges, NEW k \in Clues,
             <<c, k>> # <<reqOf[q], reqClue[q]>>
      PROVE  Charging(c, k)' = Charging(c, k)
  BY <1>3 DEF Charging
<1>4. Cardinality(Charging(reqOf[q], reqClue[q])) \in Nat
  BY <1>2, Finite
<1> QED BY <1>1, <1>2, <1>3, <1>4, Finite, OneLess

\* Counts and cardinalities are numbers.
LEMMA Numbers ==
    ASSUME TypeOK, NEW c \in Challenges
    PROVE  /\ \A i \in Items : /\ credit[c][i] \in Nat /\ log[c][i] \in Nat
                               /\ lost[c][i] \in Nat /\ issued[c][i] \in Nat
           /\ \A k : Cardinality(Awarding(c, k)) \in Nat
           /\ \A k : Cardinality(Charging(c, k)) \in Nat
           /\ \A k : Cardinality(Holders(c, k)) \in Nat
<1>1. \A k : /\ Awarding(c, k) \subseteq Runs /\ Holders(c, k) \subseteq Runs
             /\ Charging(c, k) \subseteq Requests
  BY DEF Awarding, Charging, Holders
<1> QED BY <1>1, Finite DEF TypeOK, Counts

\* Steps that write neither counts nor begin or end a second write.
LEMMA LedgerFrame ==
    ASSUME Ledger, UNCHANGED <<credit, log, lost>>,
           \A c \in Challenges, k \in Checks : Awarding(c, k)' = Awarding(c, k),
           \A c \in Challenges, k \in Clues : Charging(c, k)' = Charging(c, k)
    PROVE  Ledger'
<1> QED BY DEF Ledger

\* The second write of an award, or its loss.
LEMMA SecondWriteEnds ==
    ASSUME TypeOK, Ledger, NEW r \in Runs, pc[r] = "logging",
           NEW label, label # "logging", pc' = [pc EXCEPT ![r] = label],
           UNCHANGED <<of, cur, credit, requests>>,
           \/ log' = Inc(log, of[r], cur[r]) /\ UNCHANGED lost
           \/ lost' = Inc(lost, of[r], cur[r]) /\ UNCHANGED log
    PROVE  Ledger'
<1> DEFINE a == of[r]
           b == cur[r]
<1>1. a \in Challenges /\ b \in Checks /\ b \in Items
  BY DEF TypeOK, Items
<1>2. /\ Cardinality(Awarding(a, b)) = Cardinality(Awarding(a, b)') + 1
      /\ \A c \in Challenges, k \in Checks :
            <<c, k>> # <<a, b>> => Awarding(c, k)' = Awarding(c, k)
  BY AwardEnds
<1>3. \A c \in Challenges, k \in Clues : Charging(c, k)' = Charging(c, k)
  BY SameCharges DEF requests
<1>4. ASSUME NEW c \in Challenges, NEW i \in Items
      PROVE  log'[c][i] + lost'[c][i] =
                IF c = a /\ i = b THEN log[c][i] + lost[c][i] + 1
                                  ELSE log[c][i] + lost[c][i]
  <2>1. log[c][i] \in Nat /\ lost[c][i] \in Nat
    BY Numbers
  <2>2. log \in Counts /\ lost \in Counts
    BY DEF TypeOK
  <2>3. CASE log' = Inc(log, a, b) /\ UNCHANGED lost
    <3>1. log'[c][i] = IF c = a /\ i = b THEN log[c][i] + 1 ELSE log[c][i]
      BY <1>1, <2>2, <2>3, IncValue
    <3> QED BY <2>1, <2>3, <3>1
  <2>4. CASE lost' = Inc(lost, a, b) /\ UNCHANGED log
    <3>1. lost'[c][i] = IF c = a /\ i = b THEN lost[c][i] + 1 ELSE lost[c][i]
      BY <1>1, <2>2, <2>4, IncValue
    <3> QED BY <2>1, <2>4, <3>1
  <2> QED BY <2>3, <2>4
<1>5. ASSUME NEW c \in Challenges, NEW i \in Items, i # b
      PROVE  log'[c][i] = log[c][i] /\ lost'[c][i] = lost[c][i]
  BY <1>1, <1>5, IncValue, CountTypes
<1>6. ASSUME NEW c \in Challenges, NEW k \in Checks
      PROVE  credit'[c][k] =
                log'[c][k] + Cardinality(Awarding(c, k)') + lost'[c][k]
  <2>1. log'[c][k] \in Nat /\ lost'[c][k] \in Nat
    BY <1>1, IncType DEF TypeOK, Counts, Items
  <2>2. CASE c = a /\ k = b
    <3>1. Cardinality(Awarding(c, k)) = Cardinality(Awarding(c, k)') + 1
      BY <1>2, <2>2
    <3>2. Cardinality(Awarding(c, k)') \in Nat
      BY Finite DEF Awarding
    <3>3. log'[c][k] + lost'[c][k] = log[c][k] + lost[c][k] + 1
      BY <1>1, <1>4, <2>2
    <3>4. credit[c][k] = log[c][k] + Cardinality(Awarding(c, k)) + lost[c][k]
      BY DEF Ledger
    <3>5. credit'[c][k] = credit[c][k]
      OBVIOUS
    <3>6. log[c][k] \in Nat /\ lost[c][k] \in Nat
      BY <1>1, <2>2, Numbers
    <3> QED BY <2>1, <3>1, <3>2, <3>3, <3>4, <3>5, <3>6
  <2>3. CASE ~(c = a /\ k = b)
    <3>1. log'[c][k] + lost'[c][k] = log[c][k] + lost[c][k]
      BY <1>4, <2>3 DEF Items
    <3>2. Awarding(c, k)' = Awarding(c, k)
      BY <1>2, <2>3
    <3>3. credit[c][k] = log[c][k] + Cardinality(Awarding(c, k)) + lost[c][k]
      BY DEF Ledger
    <3>4. credit'[c][k] = credit[c][k]
      OBVIOUS
    <3>5. log[c][k] \in Nat /\ lost[c][k] \in Nat /\ Cardinality(Awarding(c, k)) \in Nat
      BY Numbers DEF Items
    <3> QED BY <2>1, <3>1, <3>2, <3>3, <3>4, <3>5
  <2> QED BY <2>2, <2>3
<1>7. ASSUME NEW c \in Challenges, NEW k \in Clues
      PROVE  log'[c][k] =
                credit'[c][k] + Cardinality(Charging(c, k)') + lost'[c][k]
  <2>1. k \in Items /\ k # b
    BY <1>1, ScoringAssumption DEF Items
  <2> QED BY <1>3, <1>5, <2>1 DEF Ledger
<1> QED BY <1>6, <1>7 DEF Ledger

\* The second write of a charge, or its loss.
LEMMA ChargeIsMade ==
    ASSUME TypeOK, Ledger, NEW q \in Requests, req[q] = "charge",
           req' = [req EXCEPT ![q] = "idle"],
           UNCHANGED <<reqOf, reqClue, log>>,
           \A c \in Challenges, k \in Checks : Awarding(c, k)' = Awarding(c, k),
           \/ credit' = Inc(credit, reqOf[q], reqClue[q]) /\ UNCHANGED lost
           \/ lost' = Inc(lost, reqOf[q], reqClue[q]) /\ UNCHANGED credit
    PROVE  Ledger'
<1> DEFINE a == reqOf[q]
           b == reqClue[q]
<1>1. a \in Challenges /\ b \in Clues /\ b \in Items
  BY DEF TypeOK, Items
<1>2. /\ Cardinality(Charging(a, b)) = Cardinality(Charging(a, b)') + 1
      /\ \A c \in Challenges, k \in Clues :
            <<c, k>> # <<a, b>> => Charging(c, k)' = Charging(c, k)
  BY ChargeEnds
<1>4. ASSUME NEW c \in Challenges, NEW i \in Items
      PROVE  credit'[c][i] + lost'[c][i] =
                IF c = a /\ i = b THEN credit[c][i] + lost[c][i] + 1
                                  ELSE credit[c][i] + lost[c][i]
  <2>1. credit[c][i] \in Nat /\ lost[c][i] \in Nat
    BY Numbers
  <2>2. credit \in Counts /\ lost \in Counts
    BY DEF TypeOK
  <2>3. CASE credit' = Inc(credit, a, b) /\ UNCHANGED lost
    <3>1. credit'[c][i] = IF c = a /\ i = b THEN credit[c][i] + 1 ELSE credit[c][i]
      BY <1>1, <2>2, <2>3, IncValue
    <3> QED BY <2>1, <2>3, <3>1
  <2>4. CASE lost' = Inc(lost, a, b) /\ UNCHANGED credit
    <3>1. lost'[c][i] = IF c = a /\ i = b THEN lost[c][i] + 1 ELSE lost[c][i]
      BY <1>1, <2>2, <2>4, IncValue
    <3> QED BY <2>1, <2>4, <3>1
  <2> QED BY <2>3, <2>4
<1>5. ASSUME NEW c \in Challenges, NEW i \in Items, i # b
      PROVE  credit'[c][i] = credit[c][i] /\ lost'[c][i] = lost[c][i]
  BY <1>1, <1>5, IncValue, CountTypes
<1>6. ASSUME NEW c \in Challenges, NEW k \in Clues
      PROVE  log'[c][k] =
                credit'[c][k] + Cardinality(Charging(c, k)') + lost'[c][k]
  <2>1. credit'[c][k] \in Nat /\ lost'[c][k] \in Nat
    BY <1>1, IncType DEF TypeOK, Counts, Items
  <2>2. CASE c = a /\ k = b
    <3>1. Cardinality(Charging(c, k)) = Cardinality(Charging(c, k)') + 1
      BY <1>2, <2>2
    <3>2. Cardinality(Charging(c, k)') \in Nat
      BY Finite DEF Charging
    <3>3. credit'[c][k] + lost'[c][k] = credit[c][k] + lost[c][k] + 1
      BY <1>1, <1>4, <2>2
    <3>4. log[c][k] = credit[c][k] + Cardinality(Charging(c, k)) + lost[c][k]
      BY DEF Ledger
    <3>5. log'[c][k] = log[c][k]
      OBVIOUS
    <3>6. credit[c][k] \in Nat /\ lost[c][k] \in Nat
      BY <1>1, <2>2, Numbers
    <3> QED BY <2>1, <3>1, <3>2, <3>3, <3>4, <3>5, <3>6
  <2>3. CASE ~(c = a /\ k = b)
    <3>1. credit'[c][k] + lost'[c][k] = credit[c][k] + lost[c][k]
      BY <1>4, <2>3 DEF Items
    <3>2. Charging(c, k)' = Charging(c, k)
      BY <1>2, <2>3
    <3>3. log[c][k] = credit[c][k] + Cardinality(Charging(c, k)) + lost[c][k]
      BY DEF Ledger
    <3>4. log'[c][k] = log[c][k]
      OBVIOUS
    <3>5. credit[c][k] \in Nat /\ lost[c][k] \in Nat /\ Cardinality(Charging(c, k)) \in Nat
      BY Numbers DEF Items
    <3> QED BY <2>1, <3>1, <3>2, <3>3, <3>4, <3>5
  <2> QED BY <2>2, <2>3
<1>7. ASSUME NEW c \in Challenges, NEW k \in Checks
      PROVE  credit'[c][k] =
                log'[c][k] + Cardinality(Awarding(c, k)') + lost'[c][k]
  <2>1. k \in Items /\ k # b
    BY <1>1, ScoringAssumption DEF Items
  <2> QED BY <1>5, <2>1 DEF Ledger
<1> QED BY <1>6, <1>7 DEF Ledger

\* Every step keeps the ledger.
LEMMA StepLedger ==
    TypeOK /\ Ledger /\ [Next]_vars => Ledger'
<1> SUFFICES ASSUME TypeOK, Ledger, [Next]_vars PROVE Ledger'
  OBVIOUS
<1> USE ScoringAssumption DEF store, guest, requests
<1>1. ASSUME NEW r \in Runs, Build(r) PROVE Ledger'
  <2>1. UNCHANGED <<credit, log, lost, requests>>
    BY <1>1 DEF Build, Launch, AddClueEarly, AddClueLater, AddCheck,
                RemoveCheck, Publish
  <2>2. /\ \A s \in Runs : (pc'[s] = "logging") <=> (pc[s] = "logging")
        /\ \A s \in Runs :
              pc[s] = "logging" => of'[s] = of[s] /\ cur'[s] = cur[s]
    BY <1>1 DEF TypeOK, Build, Launch, AddClueEarly, AddClueLater, AddCheck,
                RemoveCheck, Publish, Goto
  <2> QED BY <2>1, <2>2, SameAwards, SameCharges, LedgerFrame
<1>2. ASSUME NEW r \in Runs, Loop(r) PROVE Ledger'
  <2>1. ASSUME UNCHANGED <<credit, log, lost, of, requests>>,
               \A s \in Runs : (pc'[s] = "logging") <=> (pc[s] = "logging"),
               \A s \in Runs : pc[s] = "logging" => cur'[s] = cur[s]
        PROVE  Ledger'
    BY <2>1, SameAwards, SameCharges, LedgerFrame
  <2>2. CASE Wake(r) \/ EndRound(r)
    BY <2>1, <2>2 DEF TypeOK, Wake, EndRound, Goto
  <2>3. ASSUME NEW k \in Checks, Skip(r, k) \/ NotPassed(r, k) PROVE Ledger'
    BY <2>1, <2>3 DEF Skip, NotPassed, Due
  <2>4. ASSUME NEW k \in Checks, Passed(r, k) PROVE Ledger'
    BY <2>1, <2>4 DEF TypeOK, Passed, Due, Goto
  <2>5. CASE Credit(r)
    <3> DEFINE a == of[r]
               b == cur[r]
    <3>1. a \in Challenges /\ b \in Checks /\ b \in Items /\ pc[r] = "award"
      BY <2>5 DEF TypeOK, Credit, Items
    <3>2. Awarding(a, b)' = Awarding(a, b) \cup {r} /\ r \notin Awarding(a, b)
      BY <2>5, <3>1 DEF TypeOK, Credit, Goto, Awarding
    <3>3. IsFiniteSet(Awarding(a, b))
      BY Finite DEF Awarding
    <3>4. Cardinality(Awarding(a, b) \cup {r}) = Cardinality(Awarding(a, b)) + 1
      BY <3>2, <3>3, OneMore
    <3>5. ASSUME NEW c \in Challenges, NEW k \in Checks, <<c, k>> # <<a, b>>
          PROVE  Awarding(c, k)' = Awarding(c, k)
      BY <2>5, <3>1, <3>5 DEF TypeOK, Credit, Goto, Awarding
    <3>6. credit' = Inc(credit, a, b) /\ UNCHANGED <<log, lost, requests>>
      BY <2>5 DEF Credit
    <3>7. \A c \in Challenges, k \in Clues : Charging(c, k)' = Charging(c, k)
      BY <3>6, SameCharges
    <3>8. ASSUME NEW c \in Challenges, NEW k \in Checks
          PROVE  credit'[c][k] =
                   log'[c][k] + Cardinality(Awarding(c, k)') + lost'[c][k]
      <4>1. CASE c = a /\ k = b
        <5>1. Awarding(c, k)' = Awarding(a, b) \cup {r}
          BY <3>2, <4>1, <2>5 DEF Awarding, Credit, Goto
        <5>2. credit'[c][k] = credit[c][k] + 1
          BY <3>1, <3>6, <4>1, IncValue, CountTypes, ItemKinds
        <5>3. credit[c][k] =
                 log[c][k] + Cardinality(Awarding(a, b)) + lost[c][k]
          BY <4>1 DEF Ledger
        <5>4. /\ log[c][k] \in Nat /\ lost[c][k] \in Nat
              /\ Cardinality(Awarding(a, b)) \in Nat
          BY <3>1, <4>1, Numbers
        <5> QED BY <3>4, <3>6, <5>1, <5>2, <5>3, <5>4
      <4>2. CASE ~(c = a /\ k = b)
        <5>1. credit'[c][k] = credit[c][k]
          BY <3>1, <3>6, <4>2, IncValue, CountTypes, ItemKinds
        <5> QED BY <3>5, <3>6, <4>2, <5>1 DEF Ledger
      <4> QED BY <4>1, <4>2
    <3>9. ASSUME NEW c \in Challenges, NEW k \in Clues
          PROVE  log'[c][k] =
                   credit'[c][k] + Cardinality(Charging(c, k)') + lost'[c][k]
      <4>1. k # b /\ k \in Items
        BY <3>1 DEF Items
      <4>2. credit'[c][k] = credit[c][k]
        BY <3>1, <3>6, <4>1, IncValue, CountTypes, ItemKinds
      <4> QED BY <3>6, <3>7, <4>2 DEF Ledger
    <3> QED BY <3>8, <3>9 DEF Ledger
  <2>6. ASSUME pc[r] = "logging", NEW label, label # "logging",
               pc' = [pc EXCEPT ![r] = label],
               UNCHANGED <<of, cur, credit, requests>>,
               \/ log' = Inc(log, of[r], cur[r]) /\ UNCHANGED lost
               \/ lost' = Inc(lost, of[r], cur[r]) /\ UNCHANGED log
        PROVE  Ledger'
    BY <2>6, SecondWriteEnds
  <2>7. CASE Log(r)
    BY <2>6, <2>7 DEF Log, Goto
  <2>8. CASE AwardFails(r)
    <3>1. CASE pc[r] = "award"
      BY <2>1, <2>8, <3>1 DEF TypeOK, AwardFails, Goto
    <3>2. CASE pc[r] = "logging"
      BY <2>6, <2>8, <3>2 DEF AwardFails, Goto
    <3> QED BY <2>8, <3>1, <3>2 DEF AwardFails
  <2> QED BY <1>2, <2>2, <2>3, <2>4, <2>5, <2>7, <2>8 DEF Loop
<1>3. ASSUME NEW r \in Runs, End(r) PROVE Ledger'
  <2>1. CASE pc[r] = "logging"
    BY <1>3, <2>1, SecondWriteEnds DEF End, Goto
  <2>2. CASE pc[r] # "logging"
    <3>1. /\ UNCHANGED <<credit, log, lost, of, cur, requests>>
          /\ \A s \in Runs : (pc'[s] = "logging") <=> (pc[s] = "logging")
      BY <1>3, <2>2 DEF TypeOK, End, Goto
    <3> QED BY <3>1, SameAwards, SameCharges, LedgerFrame
  <2> QED BY <2>1, <2>2
<1>4. ASSUME NEW q \in Requests, Request(q) PROVE Ledger'
  <2>1. UNCHANGED <<pc, of, cur>>
    BY <1>4 DEF Request, FindPrice, Uncover, Charge, UncoverFails
  <2>2. \A c \in Challenges, k \in Checks : Awarding(c, k)' = Awarding(c, k)
    BY <2>1, SameAwards
  <2>3. ASSUME UNCHANGED <<credit, log, lost>>,
               \A p \in Requests : (req'[p] = "charge") <=> (req[p] = "charge"),
               \A p \in Requests :
                  req[p] = "charge" =>
                     reqOf'[p] = reqOf[p] /\ reqClue'[p] = reqClue[p]
        PROVE  Ledger'
    BY <2>2, <2>3, SameCharges, LedgerFrame
  <2>4. ASSUME NEW c \in Challenges, NEW k \in Clues, FindPrice(q, c, k)
        PROVE  Ledger'
    BY <2>3, <2>4 DEF TypeOK, FindPrice
  <2>5. CASE Uncover(q)
    <3> DEFINE a == reqOf[q]
               b == reqClue[q]
    <3>1. a \in Challenges /\ b \in Clues /\ b \in Items /\ req[q] = "uncover"
      BY <2>5 DEF TypeOK, Uncover, Items
    <3>2. Charging(a, b)' = Charging(a, b) \cup {q} /\ q \notin Charging(a, b)
      BY <2>5, <3>1 DEF TypeOK, Uncover, Charging
    <3>3. IsFiniteSet(Charging(a, b))
      BY Finite DEF Charging
    <3>4. Cardinality(Charging(a, b) \cup {q}) = Cardinality(Charging(a, b)) + 1
      BY <3>2, <3>3, OneMore
    <3>5. ASSUME NEW c \in Challenges, NEW k \in Clues, <<c, k>> # <<a, b>>
          PROVE  Charging(c, k)' = Charging(c, k)
      BY <2>5, <3>1, <3>5 DEF TypeOK, Uncover, Charging
    <3>6. log' = Inc(log, a, b) /\ UNCHANGED <<credit, lost, reqOf, reqClue>>
      BY <2>5 DEF Uncover
    <3>7. ASSUME NEW c \in Challenges, NEW k \in Clues
          PROVE  log'[c][k] =
                   credit'[c][k] + Cardinality(Charging(c, k)') + lost'[c][k]
      <4>1. CASE c = a /\ k = b
        <5>1. Charging(c, k)' = Charging(a, b) \cup {q}
          BY <3>2, <3>6, <4>1 DEF Charging
        <5>2. log'[c][k] = log[c][k] + 1
          BY <3>1, <3>6, <4>1, IncValue, CountTypes, ItemKinds
        <5>3. log[c][k] =
                 credit[c][k] + Cardinality(Charging(a, b)) + lost[c][k]
          BY <4>1 DEF Ledger
        <5>4. /\ credit[c][k] \in Nat /\ lost[c][k] \in Nat
              /\ Cardinality(Charging(a, b)) \in Nat
          BY <3>1, <4>1, Numbers
        <5> QED BY <3>4, <3>6, <5>1, <5>2, <5>3, <5>4
      <4>2. CASE ~(c = a /\ k = b)
        <5>1. log'[c][k] = log[c][k]
          BY <3>1, <3>6, <4>2, IncValue, CountTypes, ItemKinds
        <5> QED BY <3>5, <3>6, <4>2, <5>1 DEF Ledger
      <4> QED BY <4>1, <4>2
    <3>8. ASSUME NEW c \in Challenges, NEW k \in Checks
          PROVE  credit'[c][k] =
                   log'[c][k] + Cardinality(Awarding(c, k)') + lost'[c][k]
      <4>1. k # b /\ k \in Items
        BY <3>1 DEF Items
      <4>2. log'[c][k] = log[c][k]
        BY <3>1, <3>6, <4>1, IncValue, CountTypes, ItemKinds
      <4> QED BY <2>2, <3>6, <4>2 DEF Ledger
    <3> QED BY <3>7, <3>8 DEF Ledger
  <2>6. CASE Charge(q)
    BY <2>2, <2>6, ChargeIsMade DEF Charge
  <2>7. CASE UncoverFails(q)
    <3>1. CASE req[q] = "uncover"
      BY <2>3, <2>7, <3>1 DEF TypeOK, UncoverFails
    <3>2. CASE req[q] = "charge"
      BY <2>2, <2>7, <3>2, ChargeIsMade DEF UncoverFails
    <3> QED BY <2>7, <3>1, <3>2 DEF UncoverFails
  <2> QED BY <1>4, <2>4, <2>5, <2>6, <2>7 DEF Request
<1>5. ASSUME NEW c \in Challenges, NEW k \in Checks, Play(c, k) PROVE Ledger'
  BY <1>5, SameAwards, SameCharges, LedgerFrame DEF Play
<1>6. CASE UNCHANGED vars
  BY <1>6, SameAwards, SameCharges, LedgerFrame DEF vars
<1> QED BY <1>1, <1>2, <1>3, <1>4, <1>5, <1>6 DEF Next

-----------------------------------------------------------------------------
(* One-shot checks *)

\* Steps that log no check and make none live.
LEMMA FewerLive ==
    ASSUME TypeOK, LiveWasIssued, issued' = issued,
           \A c \in Challenges, k \in Checks : log'[c][k] = log[c][k],
           \A c \in Challenges, k \in Checks :
              Holders(c, k)' \subseteq Holders(c, k)
    PROVE  LiveWasIssued'
<1> SUFFICES ASSUME NEW c \in Challenges, NEW k \in Checks \ Repeating
             PROVE  log'[c][k] + Cardinality(Holders(c, k)') <= issued'[c][k]
  BY DEF LiveWasIssued
<1>1. Holders(c, k) \subseteq Runs
  BY DEF Holders
<1>2. /\ Cardinality(Holders(c, k)') <= Cardinality(Holders(c, k))
      /\ Cardinality(Holders(c, k)') \in Nat
  BY <1>1, Finite, FS_Subset
<1>3. log[c][k] + Cardinality(Holders(c, k)) <= issued[c][k]
  BY DEF LiveWasIssued
<1>4. k \in Items
  BY DEF Items
<1> QED BY <1>2, <1>3, <1>4, Numbers

\* Adding a check makes it live in one run at most that did not have it.
LEMMA StepAdd ==
    ASSUME TypeOK, LiveWasIssued, NEW r \in Runs, NEW k \in Checks,
           AddCheck(r, k)
    PROVE  LiveWasIssued'
<1> USE DEF TypeOK
<1> SUFFICES ASSUME NEW d \in Challenges, NEW j \in Checks \ Repeating
             PROVE  log'[d][j] + Cardinality(Holders(d, j)') <= issued'[d][j]
  BY DEF LiveWasIssued
<1>1. /\ of[r] \in Challenges /\ k \in Items /\ j \in Items
      /\ issued' = Inc(issued, of[r], k) /\ log' = log /\ of' = of
  BY DEF AddCheck, Unlocked, Items, store
<1>2. log[d][j] + Cardinality(Holders(d, j)) <= issued[d][j]
  BY DEF LiveWasIssued
<1>3. /\ log[d][j] \in Nat /\ issued[d][j] \in Nat
      /\ Cardinality(Holders(d, j)) \in Nat
  BY <1>1, Numbers
<1>4. CASE d = of[r] /\ j = k
  <2>1. Holders(d, j)' \subseteq Holders(d, j) \cup {r}
    BY <1>1, <1>4 DEF Holders, Live, AddCheck
  <2>2. Holders(d, j) \subseteq Runs /\ Holders(d, j) \cup {r} \subseteq Runs
    BY DEF Holders
  <2>3. /\ Cardinality(Holders(d, j)') <= Cardinality(Holders(d, j) \cup {r})
        /\ Cardinality(Holders(d, j)') \in Nat
        /\ Cardinality(Holders(d, j) \cup {r}) \in Nat
    BY <2>1, <2>2, Finite, FS_Subset
  <2>4. Cardinality(Holders(d, j) \cup {r}) <= Cardinality(Holders(d, j)) + 1
    <3>1. CASE r \in Holders(d, j)
      <4>1. Holders(d, j) \cup {r} = Holders(d, j)
        BY <3>1
      <4>2. Cardinality(Holders(d, j) \cup {r}) = Cardinality(Holders(d, j))
        BY <4>1, Zenon
      <4> QED BY <4>2, <1>3
    <3>2. CASE r \notin Holders(d, j)
      <4>1. IsFiniteSet(Holders(d, j))
        BY <2>2, Finite
      <4>2. Cardinality(Holders(d, j) \cup {r}) = Cardinality(Holders(d, j)) + 1
        BY <3>2, <4>1, OneMore
      <4> QED BY <4>2, <1>3
    <3> QED BY <3>1, <3>2
  <2>5. issued'[d][j] = issued[d][j] + 1
    BY <1>1, <1>4, IncType
  <2> QED BY <1>1, <1>2, <1>3, <2>3, <2>4, <2>5
<1>5. CASE ~(d = of[r] /\ j = k)
  <2>1. Holders(d, j)' = Holders(d, j)
    BY <1>1, <1>5 DEF Holders, Live, AddCheck
  <2>2. issued'[d][j] = issued[d][j]
    BY <1>1, <1>5, IncValue, CountTypes, ItemKinds
  <2> QED BY <1>1, <1>2, <2>1, <2>2
<1> QED BY <1>4, <1>5

\* The score event of a check is paid for by a run that has it no longer live.
LEMMA StepLog ==
    ASSUME TypeOK, AwardIsLive, LiveWasIssued, NEW r \in Runs, Log(r)
    PROVE  LiveWasIssued'
<1> USE DEF TypeOK
<1> SUFFICES ASSUME NEW d \in Challenges, NEW j \in Checks \ Repeating
             PROVE  log'[d][j] + Cardinality(Holders(d, j)') <= issued'[d][j]
  BY DEF LiveWasIssued
<1>1. /\ of[r] \in Challenges /\ cur[r] \in Checks /\ cur[r] \in Items
      /\ j \in Items /\ Live(r, cur[r]) /\ log' = Inc(log, of[r], cur[r])
      /\ UNCHANGED <<issued, of, checks>>
  BY DEF Log, Items, AwardIsLive
<1>2. log[d][j] + Cardinality(Holders(d, j)) <= issued[d][j]
  BY DEF LiveWasIssued
<1>3. /\ log[d][j] \in Nat /\ issued[d][j] \in Nat
      /\ Cardinality(Holders(d, j)) \in Nat
  BY <1>1, Numbers
<1>4. Holders(d, j) \subseteq Runs /\ Holders(d, j)' \subseteq Runs
  BY DEF Holders
<1>5. CASE d = of[r] /\ j = cur[r]
  <2>1. r \in Holders(d, j)
    BY <1>1, <1>5 DEF Holders
  <2>2. Holders(d, j)' = Holders(d, j) \ {r}
    BY <1>1, <1>5 DEF Holders, Live, Log
  <2>3. Cardinality(Holders(d, j)') = Cardinality(Holders(d, j)) - 1
    BY <1>4, <2>1, <2>2, Finite, OneLess
  <2>4. log'[d][j] = log[d][j] + 1
    BY <1>1, <1>5, IncType
  <2> QED BY <1>1, <1>2, <1>3, <2>3, <2>4
<1>6. CASE ~(d = of[r] /\ j = cur[r])
  <2>1. Holders(d, j)' \subseteq Holders(d, j)
    BY <1>1 DEF Holders, Live, Log
  <2>2. /\ Cardinality(Holders(d, j)') <= Cardinality(Holders(d, j))
        /\ Cardinality(Holders(d, j)') \in Nat
    BY <1>4, <2>1, Finite, FS_Subset
  <2>3. log'[d][j] = log[d][j]
    BY <1>1, <1>6, IncValue, CountTypes, ItemKinds
  <2> QED BY <1>1, <1>2, <1>3, <2>2, <2>3
<1> QED BY <1>5, <1>6

LEMMA StepLiveWasIssued ==
    IInv /\ [Next]_vars => LiveWasIssued'
<1> SUFFICES ASSUME IInv, [Next]_vars PROVE LiveWasIssued'
  OBVIOUS
<1> USE DEF IInv, store, guest
<1>1. ASSUME UNCHANGED <<issued, of, checks, retired, log>>
      PROVE  LiveWasIssued'
  <2>1. \A c \in Challenges, k \in Checks : Holders(c, k)' = Holders(c, k)
    BY <1>1 DEF Holders, Live
  <2> QED BY <1>1, <2>1, FewerLive
<1>2. ASSUME NEW r \in Runs, Build(r) PROVE LiveWasIssued'
  <2>1. ASSUME NEW c \in Challenges, Launch(r, c) PROVE LiveWasIssued'
    <3>1. \A d \in Challenges, k \in Checks :
             Holders(d, k)' \subseteq Holders(d, k)
      BY <2>1 DEF Launch, Holders, Live, TypeOK, OffIsEmpty
    <3> QED BY <2>1, <3>1, FewerLive DEF Launch
  <2>2. ASSUME NEW k \in Clues, AddClueEarly(r, k) \/ AddClueLater(r, k)
        PROVE  LiveWasIssued'
    BY <1>1, <2>2 DEF AddClueEarly, AddClueLater
  <2>3. ASSUME NEW k \in Checks, AddCheck(r, k) PROVE LiveWasIssued'
    BY <2>3, StepAdd
  <2>4. ASSUME NEW k \in Checks, RemoveCheck(r, k) PROVE LiveWasIssued'
    <3>1. \A d \in Challenges, j \in Checks :
             Holders(d, j)' \subseteq Holders(d, j)
      BY <2>4 DEF RemoveCheck, Holders, Live, TypeOK
    <3> QED BY <2>4, <3>1, FewerLive DEF RemoveCheck
  <2>5. CASE Publish(r)
    BY <1>1, <2>5 DEF Publish
  <2> QED BY <1>2, <2>1, <2>2, <2>3, <2>4, <2>5 DEF Build
<1>3. ASSUME NEW r \in Runs, Loop(r) PROVE LiveWasIssued'
  <2>1. CASE Log(r)
    BY <2>1, StepLog
  <2>2. CASE ~Log(r)
    BY <1>1, <1>3, <2>2 DEF Loop, Wake, EndRound, Credit, AwardFails, Skip,
                            NotPassed, Passed, Due
  <2> QED BY <2>1, <2>2
<1>4. ASSUME NEW r \in Runs, End(r) PROVE LiveWasIssued'
  BY <1>1, <1>4 DEF End
<1>5. ASSUME NEW q \in Requests, Request(q) PROVE LiveWasIssued'
  <2>1. CASE Uncover(q)
    <3>1. /\ reqOf[q] \in Challenges /\ reqClue[q] \in Clues
          /\ log' = Inc(log, reqOf[q], reqClue[q])
          /\ UNCHANGED <<issued, of, checks, retired>>
      BY <2>1 DEF Uncover, TypeOK
    <3>2. ASSUME NEW c \in Challenges, NEW k \in Checks
          PROVE  log'[c][k] = log[c][k]
      <4>1. k \in Items /\ reqClue[q] \in Items /\ k # reqClue[q]
        BY <3>1, ScoringAssumption DEF Items
      <4> QED BY <3>1, <4>1, IncValue, CountTypes
    <3>3. \A c \in Challenges, k \in Checks : Holders(c, k)' = Holders(c, k)
      BY <3>1 DEF Holders, Live
    <3> QED BY <3>1, <3>2, <3>3, FewerLive
  <2>2. CASE ~Uncover(q)
    BY <1>1, <1>5, <2>2 DEF Request, FindPrice, Charge, UncoverFails
  <2> QED BY <2>1, <2>2
<1>6. ASSUME NEW c \in Challenges, NEW k \in Checks, Play(c, k)
      PROVE  LiveWasIssued'
  BY <1>1, <1>6 DEF Play
<1>7. CASE UNCHANGED vars
  BY <1>1, <1>7 DEF vars
<1> QED BY <1>2, <1>3, <1>4, <1>5, <1>6, <1>7 DEF Next

-----------------------------------------------------------------------------
(* Theorems *)

\* The inductive invariant holds initially.
LEMMA InitIInv == Init => IInv
<1> SUFFICES ASSUME Init PROVE IInv
  OBVIOUS
<1>1. TypeOK
  BY InitTypeOK
<1>2. /\ \A c \in Challenges, k \in Checks : Awarding(c, k) = {}
      /\ \A c \in Challenges, k \in Clues : Charging(c, k) = {}
      /\ \A c \in Challenges, k \in Checks : Holders(c, k) = {}
  BY DEF Init, Awarding, Charging, Holders, Live
<1>3. Cardinality({}) = 0
  BY FS_EmptySet
<1>4. \A c \in Challenges, i \in Items :
         /\ credit[c][i] = 0 /\ log[c][i] = 0
         /\ lost[c][i] = 0 /\ issued[c][i] = 0
  BY DEF Init
<1>5. Ledger
  <2>1. \A c \in Challenges, k \in Checks : Cardinality(Awarding(c, k)) = 0
    BY <1>2, <1>3, Zenon
  <2>2. \A c \in Challenges, k \in Clues : Cardinality(Charging(c, k)) = 0
    BY <1>2, <1>3, Zenon
  <2> QED BY <1>4, <2>1, <2>2 DEF Ledger, Items
<1>7. LiveWasIssued
  <2>1. \A c \in Challenges, k \in Checks : Cardinality(Holders(c, k)) = 0
    BY <1>2, <1>3, Zenon
  <2> QED BY <1>4, <2>1 DEF LiveWasIssued, Items
<1>6. AwardIsLive /\ OffIsEmpty
  BY DEF Init, AwardIsLive, OffIsEmpty
<1> QED BY <1>1, <1>5, <1>6, <1>7 DEF IInv

\* The inductive invariant holds in every reachable state.
THEOREM Invariance == Spec => []IInv
<1>1. IInv /\ [Next]_vars => IInv'
  BY StepTypeOK, StepAwardIsLive, StepOffIsEmpty, StepLedger,
     StepLiveWasIssued DEF IInv
<1> QED BY <1>1, InitIInv, PTL DEF Spec

\* Score and score events agree, up to the second writes that are to come or
\* were lost (updateScore, UncoverClue).
THEOREM LedgerKept == Spec => []Ledger
<1>1. IInv => Ledger
  BY DEF IInv
<1> QED BY <1>1, Invariance, PTL

\* A one-shot check is in the score events at most once for each time it was
\* added (evaluateChecks retires it).
THEOREM LoggedOnce == Spec => []OneShotLoggedOnce
<1>1. IInv => OneShotLoggedOnce
  <2> SUFFICES ASSUME IInv, NEW c \in Challenges, NEW k \in Checks \ Repeating
               PROVE  log[c][k] <= issued[c][k]
    BY DEF OneShotLoggedOnce
  <2>1. log[c][k] + Cardinality(Holders(c, k)) <= issued[c][k]
    BY DEF IInv, LiveWasIssued
  <2>2. k \in Items
    BY DEF Items
  <2> QED BY <2>1, <2>2, Numbers DEF IInv
<1> QED BY <1>1, Invariance, PTL

\* A team is paid once for each time a one-shot check was added, and once more for
\* each score event that was lost (updateScore, and the retry of evaluateChecks).
THEOREM TeamPaidOnce == Spec => []PaidOnce
<1>1. IInv => PaidOnce
  <2> SUFFICES ASSUME IInv, NEW c \in Challenges, NEW k \in Checks \ Repeating
               PROVE  credit[c][k] <= issued[c][k] + lost[c][k]
    BY DEF PaidOnce
  <2>1. Awarding(c, k) \subseteq Holders(c, k) /\ Holders(c, k) \subseteq Runs
    BY DEF IInv, AwardIsLive, Awarding, Holders
  <2>2. Cardinality(Awarding(c, k)) <= Cardinality(Holders(c, k))
    BY <2>1, Finite, FS_Subset
  <2>3. /\ credit[c][k] = log[c][k] + Cardinality(Awarding(c, k)) + lost[c][k]
        /\ log[c][k] + Cardinality(Holders(c, k)) <= issued[c][k]
    BY DEF IInv, Ledger, LiveWasIssued
  <2>4. k \in Items
    BY DEF Items
  <2> QED BY <2>2, <2>3, <2>4, Numbers DEF IInv
<1> QED BY <1>1, Invariance, PTL

\* Points for a check come from a run that has the check live (the check map is
\* locked while the award is made).
THEOREM AwardsLive == Spec => AwardsAreLive
<1>1. IInv /\ [Next]_vars =>
         [\A c \in Challenges, k \in Checks :
             credit'[c][k] # credit[c][k] =>
                \E r \in Runs : of[r] = c /\ cur[r] = k /\ Live(r, k)]_vars
  <2> SUFFICES ASSUME IInv, [Next]_vars, NEW c \in Challenges,
                      NEW k \in Checks, credit'[c][k] # credit[c][k]
               PROVE  \E r \in Runs : of[r] = c /\ cur[r] = k /\ Live(r, k)
    OBVIOUS
  <2> USE DEF store
  <2>1. ASSUME NEW r \in Runs, Credit(r)
        PROVE  of[r] = c /\ cur[r] = k /\ Live(r, k)
    <3>1. /\ of[r] \in Challenges /\ cur[r] \in Items /\ k \in Items
          /\ credit' = Inc(credit, of[r], cur[r]) /\ credit \in Counts
          /\ Live(r, cur[r])
      BY <2>1 DEF IInv, TypeOK, AwardIsLive, Credit, Items
    <3> QED BY <3>1, IncType
  <2>2. ASSUME NEW q \in Requests, Charge(q) PROVE FALSE
    <3>1. /\ reqOf[q] \in Challenges /\ reqClue[q] \in Items /\ k \in Items
          /\ credit' = Inc(credit, reqOf[q], reqClue[q]) /\ credit \in Counts
          /\ k # reqClue[q]
      BY <2>2, ScoringAssumption DEF IInv, TypeOK, Charge, Items
    <3> QED BY <3>1, IncType
  <2>3. CASE /\ \A r \in Runs : ~Credit(r)
             /\ \A q \in Requests : ~Charge(q)
    <3>1. ASSUME NEW r \in Runs, Build(r) \/ Loop(r) \/ End(r) PROVE FALSE
      BY <2>3, <3>1 DEF Build, Launch, AddClueEarly, AddClueLater, AddCheck,
            RemoveCheck, Publish, Loop, Wake, EndRound, Log, AwardFails, Skip,
            NotPassed, Passed, Due, End
    <3>2. ASSUME NEW q \in Requests, Request(q) PROVE FALSE
      BY <2>3, <3>2 DEF Request, FindPrice, Uncover, UncoverFails
    <3> QED BY <3>1, <3>2 DEF Next, Play, vars
  <2> QED BY <2>1, <2>2, <2>3
<1> QED BY <1>1, Invariance, PTL DEF Spec, AwardsAreLive

-----------------------------------------------------------------------------
(* Clues *)

\* A guest that was not launched has no challenge.
OffIsNowhere == \A r \in Runs : pc[r] = "off" => of[r] = NoChallenge

LEMMA StepClues ==
    ASSUME TypeOK, OffIsNowhere, OnlyEarlyCluesAreFree, [Next]_vars
    PROVE  OffIsNowhere' /\ OnlyEarlyCluesAreFree'
<1> USE ScoringAssumption DEF TypeOK, OffIsNowhere, OnlyEarlyCluesAreFree
<1>1. ASSUME NEW r \in Runs, NEW c \in Challenges, Launch(r, c)
      PROVE  OffIsNowhere' /\ OnlyEarlyCluesAreFree'
  BY <1>1 DEF Launch, Goto, store
<1>2. ASSUME NEW r \in Runs, NEW k \in Clues, AddClueEarly(r, k) \/ AddClueLater(r, k)
      PROVE  OffIsNowhere' /\ OnlyEarlyCluesAreFree'
  <2>1. CASE AddClueEarly(r, k)
    <3>1. /\ UNCHANGED <<clues, priced, of, pc>>
          /\ \A q \in Runs : early[q] \subseteq early'[q]
      BY <2>1 DEF AddClueEarly, store
    <3> QED BY <3>1
  <2>2. CASE AddClueLater(r, k)
    <3>1. /\ UNCHANGED <<early, of, pc>>
          /\ \A c \in Challenges : clues'[c] \ priced'[c] \subseteq clues[c] \ priced[c]
      BY <2>2 DEF AddClueLater, guest
    <3> QED BY <3>1
  <2> QED BY <1>2, <2>1, <2>2
<1>3. ASSUME NEW r \in Runs, Publish(r) PROVE OffIsNowhere' /\ OnlyEarlyCluesAreFree'
  BY <1>3 DEF Publish, Goto
<1>4. ASSUME UNCHANGED <<clues, priced, early, of>>,
             \A r \in Runs : pc'[r] = "off" => pc[r] = "off"
      PROVE  OffIsNowhere' /\ OnlyEarlyCluesAreFree'
  BY <1>4
<1>5. ASSUME NEW r \in Runs, Loop(r) \/ End(r)
      PROVE  /\ UNCHANGED <<clues, priced, early, of>>
             /\ \A q \in Runs : pc'[q] = "off" => pc[q] = "off"
  <2>1. UNCHANGED <<clues, priced, early, of>>
    BY <1>5 DEF Loop, Wake, EndRound, Credit, Log, AwardFails, Skip, NotPassed, Passed,
                Due, End, store
  <2>2. pc' = pc \/ \E label \in {"sleeping", "checking", "award", "logging", "done"} :
                       Goto(r, label)
    BY <1>5 DEF Loop, Wake, EndRound, Credit, Log, AwardFails, Skip, NotPassed, Passed,
                Due, End
  <2> QED BY <2>1, <2>2 DEF Goto
<1>6. ASSUME NEW r \in Runs, NEW k \in Checks, AddCheck(r, k) \/ RemoveCheck(r, k)
      PROVE  UNCHANGED <<clues, priced, early, of, pc>>
  BY <1>6 DEF AddCheck, RemoveCheck, store
<1>7. ASSUME NEW q \in Requests, Request(q)
      PROVE  UNCHANGED <<clues, priced, early, of, pc>>
  BY <1>7 DEF Request, FindPrice, Uncover, Charge, UncoverFails, store, guest
<1>8. ASSUME NEW c \in Challenges, NEW k \in Checks, Play(c, k)
      PROVE  UNCHANGED <<clues, priced, early, of, pc>>
  BY <1>8 DEF Play, store, guest
<1>9. CASE UNCHANGED vars BY <1>4, <1>9 DEF vars, store, guest
<1>10. CASE \E r \in Runs : Build(r)
  BY <1>1, <1>2, <1>3, <1>4, <1>6, <1>10 DEF Build
<1>11. CASE \E r \in Runs : Loop(r) \/ End(r) BY <1>4, <1>5, <1>11
<1>12. CASE \/ \E q \in Requests : Request(q)
            \/ \E c \in Challenges, k \in Checks : Play(c, k)
  BY <1>4, <1>7, <1>8, <1>12
<1> QED BY <1>9, <1>10, <1>11, <1>12 DEF Next

\* No clue but one added before Start goes without its price (AddClue, createMeta,
\* updateMeta).
THEOREM CluesArePriced == Spec => []OnlyEarlyCluesAreFree
<1>1. Init => OffIsNowhere /\ OnlyEarlyCluesAreFree
  BY DEF Init, OffIsNowhere, OnlyEarlyCluesAreFree
<1>2. TypeOK /\ OffIsNowhere /\ OnlyEarlyCluesAreFree /\ [Next]_vars
         => (OffIsNowhere /\ OnlyEarlyCluesAreFree)'
  BY StepClues
<1> QED BY <1>1, <1>2, TypeCorrect, PTL DEF Spec

-----------------------------------------------------------------------------
(* What AwardComes rests on *)

\* The loop stops asking for a check only once there is an event for it.
RetiredIsLogged ==
    \A r \in Runs : \A k \in retired[r] :
        of[r] \in Challenges /\ log[of[r]][k] > 0

OffRetiresNothing == \A r \in Runs : pc[r] = "off" => retired[r] = {}

LEMMA StepRetires ==
    ASSUME TypeOK, RetiredIsLogged, OffRetiresNothing, [Next]_vars
    PROVE  RetiredIsLogged' /\ OffRetiresNothing'
<1> USE ScoringAssumption DEF TypeOK, RetiredIsLogged, OffRetiresNothing
<1>1. ASSUME UNCHANGED <<of, log>>,
             \A r \in Runs : retired'[r] \subseteq retired[r],
             \A r \in Runs : pc'[r] = "off" => pc[r] = "off"
      PROVE  RetiredIsLogged' /\ OffRetiresNothing'
  BY <1>1
<1>2. ASSUME NEW r \in Runs, NEW c \in Challenges, Launch(r, c)
      PROVE  RetiredIsLogged' /\ OffRetiresNothing'
  BY <1>2 DEF Launch, Goto, store
<1>3. ASSUME NEW c \in Challenges, NEW i \in Items, log' = Inc(log, c, i)
      PROVE  \A d \in Challenges, k \in Checks : log[d][k] > 0 => log'[d][k] > 0
  BY <1>3, IncType DEF Inc, Counts, Items
<1>4. ASSUME NEW q \in Requests, Uncover(q)
      PROVE  RetiredIsLogged' /\ OffRetiresNothing'
  <2>1. reqOf[q] \in Challenges /\ reqClue[q] \in Items /\ log' = Inc(log, reqOf[q], reqClue[q])
    BY <1>4 DEF Uncover, Items
  <2>2. UNCHANGED <<of, retired, pc>> BY <1>4 DEF Uncover, guest
  <2> QED BY <1>3, <2>1, <2>2
<1>5. ASSUME NEW r \in Runs, Log(r)
      PROVE  RetiredIsLogged' /\ OffRetiresNothing'
  <2>1. /\ of[r] \in Challenges /\ cur[r] \in Checks /\ cur[r] \in Items
        /\ log' = Inc(log, of[r], cur[r])
    BY <1>5 DEF Log, Items
  <2>2. log'[of[r]][cur[r]] > 0
    BY <2>1, IncType DEF Inc, Counts
  <2>3. /\ of' = of /\ pc' = [pc EXCEPT ![r] = "checking"]
        /\ retired' = [retired EXCEPT ![r] = @ \cup ({cur[r]} \ Repeating)]
    BY <1>5 DEF Log, Goto
  <2>4. \A d \in Challenges, k \in Checks : log[d][k] > 0 => log'[d][k] > 0
    BY <1>3, <2>1
  <2> QED BY <2>1, <2>2, <2>3, <2>4
<1>6. ASSUME NEW r \in Runs, NEW k \in Checks, AddCheck(r, k)
      PROVE  RetiredIsLogged' /\ OffRetiresNothing'
  BY <1>1, <1>6 DEF AddCheck, store
<1>7. ASSUME NEW r \in Runs, Loop(r) \/ End(r), ~Log(r)
      PROVE  RetiredIsLogged' /\ OffRetiresNothing'
  <2>1. UNCHANGED <<of, log, retired>>
    BY <1>7 DEF Loop, Wake, EndRound, Credit, AwardFails, Skip, NotPassed, Passed, Due, End,
                store
  <2>2. pc' = pc \/ \E label \in {"sleeping", "checking", "award", "logging", "done"} :
                       Goto(r, label)
    BY <1>7 DEF Loop, Wake, EndRound, Credit, AwardFails, Skip, NotPassed, Passed, Due, End
  <2> QED BY <1>1, <2>1, <2>2 DEF Goto
<1>8. ASSUME NEW r \in Runs,
             \/ \E k \in Clues : AddClueEarly(r, k) \/ AddClueLater(r, k)
             \/ \E k \in Checks : RemoveCheck(r, k)
             \/ Publish(r)
      PROVE  RetiredIsLogged' /\ OffRetiresNothing'
  <2>1. UNCHANGED <<of, log, retired>>
    BY <1>8 DEF AddClueEarly, AddClueLater, RemoveCheck, Publish, store, guest
  <2>2. pc' = pc \/ Goto(r, "sleeping")
    BY <1>8 DEF AddClueEarly, AddClueLater, RemoveCheck, Publish, guest
  <2> QED BY <1>1, <2>1, <2>2 DEF Goto
<1>9. ASSUME UNCHANGED <<guest, log>> PROVE RetiredIsLogged' /\ OffRetiresNothing'
  BY <1>1, <1>9 DEF guest
<1>10. ASSUME NEW q \in Requests, Request(q) PROVE RetiredIsLogged' /\ OffRetiresNothing'
  BY <1>4, <1>9, <1>10 DEF Request, FindPrice, Charge, UncoverFails, store
<1>11. ASSUME NEW r \in Runs, Build(r) PROVE RetiredIsLogged' /\ OffRetiresNothing'
  BY <1>2, <1>6, <1>8, <1>11 DEF Build
<1>12. ASSUME NEW r \in Runs, Loop(r) \/ End(r) PROVE RetiredIsLogged' /\ OffRetiresNothing'
  BY <1>5, <1>7, <1>12
<1>13. CASE \E c \in Challenges, k \in Checks : Play(c, k)
  BY <1>9, <1>13 DEF Play, store
<1>14. CASE UNCHANGED vars BY <1>9, <1>14 DEF vars, store
<1> QED BY <1>10, <1>11, <1>12, <1>13, <1>14 DEF Next

\* A check the loop no longer asks for has its event: no failed write, and no crossing
\* of two, makes the guest give up what it was to award (evaluateChecks), which is the
\* safety half of AwardComes.
THEOREM RetiredLogged == Spec => []RetiredIsLogged
<1>1. Init => RetiredIsLogged /\ OffRetiresNothing
  BY DEF Init, RetiredIsLogged, OffRetiresNothing
<1>2. TypeOK /\ RetiredIsLogged /\ OffRetiresNothing /\ [Next]_vars
         => (RetiredIsLogged /\ OffRetiresNothing)'
  BY StepRetires
<1> QED BY <1>1, <1>2, TypeCorrect, PTL DEF Spec

=============================================================================
