-------------------------- MODULE AuthorizerProofs --------------------------
(* Theorems about Authorizer. *)
EXTENDS Authorizer, TLAPS

USE AuthorizerAssumption

\* Time stamps come from the past, ends are no further off than the timeout.
NotFar ==
    /\ \A s \in Subjects : since[s] <= now /\ expires[s] <= now + Timeout
    /\ \A q \in Requests : until[q] <= now + Timeout

\* What a check has read is still so, unless it was disturbed.
UndisturbedIsCurrent ==
    \A q \in Requests \ disturbed :
        /\ pc[q] \in {"role", "fill"} => who[q] \in users /\ seen[q] = role[who[q]]
        /\ pc[q] = "fill" => seen[q] \in roles /\ policy[q] = grants[seen[q]]

NewGrantsNothing == \A r \in Roles \ issued : grants[r] = {}

IInv ==
    /\ TypeOK
    /\ NotFar
    /\ UndisturbedIsCurrent
    /\ NewGrantsNothing
    /\ StalePolicyEnds
    /\ StaleRequestEnds

LEMMA InitHolds == Init => IInv
BY SMTT(30) DEF Init, IInv, TypeOK, NotFar, UndisturbedIsCurrent, NewGrantsNothing,
    StalePolicyEnds, StaleRequestEnds, Granted

-----------------------------------------------------------------------------
\* Steps of requests, which write no record.

\* A request that leaves gives up what it has read.
LEMMA LeaveKeeps ==
    ASSUME IInv, NEW q \in Requests, NEW label \in {"idle", "denied"},
           Leave(q, label), UNCHANGED <<now, records, cache, since>>
    PROVE  IInv'
<1> USE DEF IInv, TypeOK, Leave, Goto, records, cache
<1>1. TypeOK' OBVIOUS
<1>2. NotFar' BY DEF NotFar
<1>3. UndisturbedIsCurrent' BY DEF UndisturbedIsCurrent
<1>4. NewGrantsNothing' BY DEF NewGrantsNothing
<1>5. StalePolicyEnds' BY DEF StalePolicyEnds, Granted
<1>6. StaleRequestEnds' BY DEF StaleRequestEnds, Granted
<1> QED BY <1>1, <1>2, <1>3, <1>4, <1>5, <1>6

LEMMA ArrivalKeeps ==
    ASSUME IInv, NEW q \in Requests, NEW s \in Subjects, NEW p \in Procedures,
           Hit(q, s, p) \/ Miss(q, s, p)
    PROVE  IInv'
<1> USE DEF IInv, TypeOK, Hit, Miss, Arrives, Admit, Goto, records, cache
<1>1. TypeOK' OBVIOUS
<1>2. NotFar' BY DEF NotFar
<1>3. UndisturbedIsCurrent' BY DEF UndisturbedIsCurrent
<1>4. NewGrantsNothing' BY DEF NewGrantsNothing
<1>5. StalePolicyEnds' BY DEF StalePolicyEnds, Granted
<1>6. StaleRequestEnds'
  <2>1. SUFFICES ASSUME NEW u \in Requests,
                        pc'[u] = "running", wants'[u] \notin Granted(who'[u])
                 PROVE  until'[u] <= since[who'[u]] + Timeout
    BY DEF StaleRequestEnds, Granted
  <2>2. CASE u # q BY <2>1, <2>2 DEF StaleRequestEnds, Granted
  <2>3. CASE u = q
    \* It was admitted by an entry that is stale.
    <3>1. wants'[q] = p /\ who'[q] = s /\ until'[q] = expires[s] /\ p \in allowed[s]
      BY <2>1, <2>3
    <3>2. allowed[s] # Granted(s) BY <2>1, <2>3, <3>1
    <3> QED BY <2>3, <3>1, <3>2 DEF StalePolicyEnds
  <2> QED BY <2>2, <2>3
<1> QED BY <1>1, <1>2, <1>3, <1>4, <1>5, <1>6

LEMMA ReadKeeps ==
    ASSUME IInv, NEW q \in Requests, ReadUser(q) \/ ReadRole(q)
    PROVE  IInv'
<1> USE DEF IInv, TypeOK, ReadUser, ReadRole, Goto, records, cache
<1>1. TypeOK' OBVIOUS
<1>2. NotFar' BY DEF NotFar
<1>3. UndisturbedIsCurrent' BY DEF UndisturbedIsCurrent
<1>4. NewGrantsNothing' BY DEF NewGrantsNothing
<1>5. StalePolicyEnds' BY DEF StalePolicyEnds, Granted
<1>6. StaleRequestEnds' BY DEF StaleRequestEnds, Granted
<1> QED BY <1>1, <1>2, <1>3, <1>4, <1>5, <1>6

\* What an undisturbed check fills in is what the records grant.
LEMMA FillIsCurrent ==
    ASSUME IInv, NEW q \in Requests, pc[q] = "fill", q \notin disturbed
    PROVE  policy[q] = Granted(who[q])
BY DEF IInv, UndisturbedIsCurrent, Granted

LEMMA FillKeeps ==
    ASSUME IInv, NEW q \in Requests, Fill(q)
    PROVE  IInv'
<1> USE DEF IInv, TypeOK, Fill, Admit, Leave, Goto, records
<1>1. TypeOK' OBVIOUS
<1>2. NotFar' BY DEF NotFar
<1>3. UndisturbedIsCurrent' BY DEF UndisturbedIsCurrent
<1>4. NewGrantsNothing' BY DEF NewGrantsNothing
<1>5. who[q] \in Subjects /\ \A s \in Subjects : Granted(s)' = Granted(s)
  BY DEF Granted
<1>6. q \notin disturbed => policy[q] = Granted(who[q])
  BY FillIsCurrent
<1>7. StalePolicyEnds' BY <1>5, <1>6 DEF StalePolicyEnds
<1>8. StaleRequestEnds'
  <2>1. SUFFICES ASSUME NEW u \in Requests,
                        pc'[u] = "running", wants[u] \notin Granted(who[u])
                 PROVE  until'[u] <= since'[who[u]] + Timeout
    BY <1>5 DEF StaleRequestEnds
  <2>2. since'[who[u]] \in Nat /\ since[who[u]] <= since'[who[u]]
    BY DEF NotFar
  <2>3. CASE u # q
    <3>1. until'[u] = until[u] /\ pc[u] = "running" BY <2>1, <2>3
    <3> QED BY <2>1, <2>2, <3>1 DEF StaleRequestEnds
  <2>4. CASE u = q
    <3>1. q \in disturbed BY <2>1, <2>4, <1>6
    <3> QED BY <2>1, <2>4, <3>1
  <2> QED BY <2>3, <2>4
<1> QED BY <1>1, <1>2, <1>3, <1>4, <1>7, <1>8

LEMMA AttachReadKeeps ==
    ASSUME IInv, NEW q \in Requests, NEW s \in Subjects, NEW r \in Roles,
           AttachRead(q, s, r)
    PROVE  IInv'
<1> USE DEF IInv, TypeOK, AttachRead, Goto, records, cache
<1>1. TypeOK' OBVIOUS
<1>2. NotFar' BY DEF NotFar
<1>3. UndisturbedIsCurrent' BY DEF UndisturbedIsCurrent
<1>4. NewGrantsNothing' BY DEF NewGrantsNothing
<1>5. StalePolicyEnds' BY DEF StalePolicyEnds, Granted
<1>6. StaleRequestEnds' BY DEF StaleRequestEnds, Granted
<1> QED BY <1>1, <1>2, <1>3, <1>4, <1>5, <1>6

-----------------------------------------------------------------------------
\* Steps that change permissions.

\* Entries and requests of subjects that were touched have the whole timeout.
LEMMA ChangeBounds ==
    ASSUME IInv, NEW S \in SUBSET Subjects, NEW Q \in SUBSET Requests, Change(S, Q),
           \A s \in Subjects \ S : Granted(s)' = Granted(s),
           \A q \in Requests : pc'[q] = "running" =>
               pc[q] = "running" /\ wants'[q] = wants[q] /\ who'[q] = who[q],
           UNCHANGED until
    PROVE  NotFar' /\ StalePolicyEnds' /\ StaleRequestEnds'
<1> USE DEF IInv, TypeOK, Change, cache
<1>1. NotFar' BY DEF NotFar
<1>2. StalePolicyEnds'
  <2>1. SUFFICES ASSUME NEW s \in Subjects, allowed[s] # Granted(s)'
                 PROVE  expires[s] <= since'[s] + Timeout
    BY DEF StalePolicyEnds
  <2>2. CASE s \in S BY <2>2 DEF NotFar
  <2>3. CASE s \notin S BY <2>1, <2>3 DEF StalePolicyEnds
  <2> QED BY <2>2, <2>3
<1>3. StaleRequestEnds'
  <2>1. SUFFICES ASSUME NEW q \in Requests, pc'[q] = "running",
                        wants[q] \notin Granted(who[q])'
                 PROVE  until[q] <= since'[who[q]] + Timeout
    <3>1. \A q \in Requests : pc'[q] = "running" =>
              wants'[q] = wants[q] /\ who'[q] = who[q] OBVIOUS
    <3> QED BY <3>1 DEF StaleRequestEnds, Granted
  <2>2. who[q] \in Subjects /\ pc[q] = "running" /\ who'[q] = who[q] BY <2>1
  <2>3. CASE who[q] \in S BY <2>2, <2>3 DEF NotFar
  <2>4. CASE who[q] \notin S
    <3>1. Granted(who[q])' = Granted(who[q]) BY <2>2, <2>4 DEF Granted
    <3> QED BY <2>1, <2>2, <2>4, <3>1 DEF StaleRequestEnds
  <2> QED BY <2>3, <2>4
<1> QED BY <1>1, <1>2, <1>3

LEMMA CreateRoleKeeps ==
    ASSUME IInv, NEW r \in Roles, CreateRole(r)
    PROVE  IInv'
<1> USE DEF IInv, TypeOK, CreateRole, cache, requests
<1>1. TypeOK' OBVIOUS
<1>2. NotFar' BY DEF NotFar
<1>3. UndisturbedIsCurrent' BY DEF UndisturbedIsCurrent
<1>4. NewGrantsNothing' BY DEF NewGrantsNothing
<1>5. \A s \in Subjects : Granted(s)' = Granted(s) BY DEF Granted, NewGrantsNothing
<1>6. StalePolicyEnds' BY <1>5 DEF StalePolicyEnds
<1>7. StaleRequestEnds' BY <1>5 DEF StaleRequestEnds
<1> QED BY <1>1, <1>2, <1>3, <1>4, <1>6, <1>7

LEMMA RoleChangeKeeps ==
    ASSUME IInv, NEW r \in Roles,
           DeleteRole(r) \/ \E P \in SUBSET Procedures : ConfigureRole(r, P)
    PROVE  IInv'
<1> USE DEF IInv, TypeOK, requests
<1>1. Change(Bearers(r), ChecksWith(r)) BY DEF DeleteRole, ConfigureRole
<1>2. r \in roles /\ UNCHANGED <<users, role, issued, requests>>
  BY DEF DeleteRole, ConfigureRole
<1>3. /\ roles' \subseteq roles /\ roles \ {r} \subseteq roles'
      /\ grants' \in [Roles -> SUBSET Procedures]
      /\ \A x \in Roles \ {r} : grants'[x] = grants[x]
  BY DEF DeleteRole, ConfigureRole
<1>4. TypeOK' BY <1>1, <1>2, <1>3 DEF Change, ChecksWith, cache
<1>5. \A s \in Subjects \ Bearers(r) : Granted(s)' = Granted(s)
  BY <1>2, <1>3 DEF Granted, Bearers
<1>6. NotFar' /\ StalePolicyEnds' /\ StaleRequestEnds'
  BY <1>1, <1>2, <1>5, ChangeBounds DEF Bearers, ChecksWith
<1>7. UndisturbedIsCurrent'
  BY <1>1, <1>2, <1>3 DEF UndisturbedIsCurrent, Change, ChecksWith
<1>8. NewGrantsNothing' BY <1>2, <1>3 DEF NewGrantsNothing
<1> QED BY <1>4, <1>6, <1>7, <1>8

LEMMA DeleteUserKeeps ==
    ASSUME IInv, NEW s \in Subjects, DeleteUser(s)
    PROVE  IInv'
<1> USE DEF IInv, TypeOK, DeleteUser, requests
<1>1. TypeOK' BY DEF Change, ChecksOf, cache
<1>2. \A x \in Subjects \ {s} : Granted(x)' = Granted(x) BY DEF Granted
<1>3. NotFar' /\ StalePolicyEnds' /\ StaleRequestEnds'
  BY <1>2, ChangeBounds DEF ChecksOf
<1>4. UndisturbedIsCurrent' BY DEF UndisturbedIsCurrent, Change, ChecksOf
<1>5. NewGrantsNothing' BY DEF NewGrantsNothing
<1> QED BY <1>1, <1>3, <1>4, <1>5

LEMMA AttachWriteKeeps ==
    ASSUME IInv, NEW q \in Requests, AttachWrite(q)
    PROVE  IInv'
<1> USE DEF IInv, TypeOK, AttachWrite, Goto
<1>1. TypeOK' BY DEF Change, ChecksOf, cache
<1>2. \A s \in Subjects \ {who[q]} : Granted(s)' = Granted(s) BY DEF Granted
<1>3. NotFar' /\ StalePolicyEnds' /\ StaleRequestEnds'
  BY <1>2, ChangeBounds DEF ChecksOf
<1>4. UndisturbedIsCurrent' BY DEF UndisturbedIsCurrent, Change, ChecksOf
<1>5. NewGrantsNothing' BY DEF NewGrantsNothing
<1> QED BY <1>1, <1>3, <1>4, <1>5

LEMMA TickKeeps == IInv /\ Tick => IInv'
<1> SUFFICES ASSUME IInv, Tick PROVE IInv' OBVIOUS
<1> USE DEF IInv, TypeOK, Tick, records, cache, requests
<1>1. TypeOK' OBVIOUS
<1>2. NotFar' BY DEF NotFar
<1>3. UndisturbedIsCurrent' BY DEF UndisturbedIsCurrent
<1>4. NewGrantsNothing' BY DEF NewGrantsNothing
<1>5. StalePolicyEnds' BY DEF StalePolicyEnds, Granted
<1>6. StaleRequestEnds' BY DEF StaleRequestEnds, Granted
<1> QED BY <1>1, <1>2, <1>3, <1>4, <1>5, <1>6

-----------------------------------------------------------------------------
LEMMA StepKeeps == IInv /\ [Next]_vars => IInv'
<1> SUFFICES ASSUME IInv, [Next]_vars PROVE IInv' OBVIOUS
<1>1. CASE UNCHANGED vars
  BY <1>1 DEF vars, records, cache, requests, IInv, TypeOK, NotFar,
     UndisturbedIsCurrent, NewGrantsNothing, StalePolicyEnds, StaleRequestEnds, Granted
<1>2. ASSUME NEW q \in Requests, Check(q) PROVE IInv'
  <2>1. CASE \E s \in Subjects, p \in Procedures : Hit(q, s, p) \/ Miss(q, s, p)
    BY <2>1, ArrivalKeeps
  <2>2. CASE ReadUser(q) \/ ReadRole(q) BY <2>2, ReadKeeps
  <2>3. CASE NotFound(q) BY <2>3, LeaveKeeps DEF NotFound
  <2>4. CASE Fill(q) BY <2>4, FillKeeps
  <2>5. CASE Return(q) BY <2>5, LeaveKeeps DEF Return
  <2> QED BY <1>2, <2>1, <2>2, <2>3, <2>4, <2>5 DEF Check
<1>3. ASSUME Administer PROVE IInv'
  <2>1. CASE \E r \in Roles : CreateRole(r) BY <2>1, CreateRoleKeeps
  <2>2. CASE \E r \in Roles : DeleteRole(r) \/ \E P \in SUBSET Procedures : ConfigureRole(r, P)
    BY <2>2, RoleChangeKeeps
  <2>3. CASE \E s \in Subjects : DeleteUser(s) BY <2>3, DeleteUserKeeps
  <2>4. CASE \E q \in Requests, s \in Subjects, r \in Roles : AttachRead(q, s, r)
    BY <2>4, AttachReadKeeps
  <2>5. CASE \E q \in Requests : AttachWrite(q) BY <2>5, AttachWriteKeeps
  <2> QED BY <1>3, <2>1, <2>2, <2>3, <2>4, <2>5 DEF Administer
<1>4. CASE Tick BY <1>4, TickKeeps
<1> QED BY <1>1, <1>2, <1>3, <1>4 DEF Next

LEMMA Inductive == Spec => []IInv
BY InitHolds, StepKeeps, PTL DEF Spec

\* Every variable keeps its type.
THEOREM TypeCorrect == Spec => []TypeOK
BY Inductive, PTL DEF IInv

\* A policy that the records no longer grant leaves the cache in time.
THEOREM PolicyEnds == Spec => []StalePolicyEnds
BY Inductive, PTL DEF IInv

\* A request whose subject has lost the permission it runs by ends in time.
THEOREM RequestEnds == Spec => []StaleRequestEnds
BY Inductive, PTL DEF IInv

-----------------------------------------------------------------------------
\* A denial that no change has disturbed is what the records say.
LEMMA UndisturbedDenial ==
    ASSUME IInv, NEW q \in Requests, NotFound(q) \/ Fill(q),
           pc'[q] = "denied", q \notin disturbed
    PROVE  wants'[q] \notin Granted(who'[q])
<1> USE DEF IInv, TypeOK, UndisturbedIsCurrent, Granted, Leave, Goto
<1>1. CASE NotFound(q) BY <1>1 DEF NotFound
<1>2. CASE Fill(q)
  <2>1. policy[q] = Granted(who[q]) /\ wants'[q] = wants[q] /\ who'[q] = who[q]
    BY <1>2 DEF Fill, Admit
  <2>2. Fresh(now + Timeout) BY DEF Fresh
  <2>3. wants[q] \notin policy[q] BY <1>2, <2>2 DEF Fill, Admit
  <2> QED BY <2>1, <2>3
<1> QED BY <1>1, <1>2

\* Only a check denies.
LEMMA Deniers ==
    ASSUME IInv, [Next]_vars, NEW q \in Requests, pc[q] # "denied", pc'[q] = "denied"
    PROVE  NotFound(q) \/ Fill(q)
<1> USE DEF IInv, TypeOK
<1>1. CASE UNCHANGED vars BY <1>1 DEF vars, requests
<1>2. ASSUME NEW u \in Requests, Check(u) PROVE NotFound(q) \/ Fill(q)
  <2>1. CASE u # q
    BY <1>2, <2>1 DEF Check, Hit, Miss, Arrives, Admit, Goto, ReadUser, ReadRole,
       NotFound, Fill, Return, Leave
  <2>2. CASE u = q
    BY <1>2, <2>2 DEF Check, Hit, Miss, Arrives, Admit, Goto, ReadUser, ReadRole,
       Return, Leave
  <2> QED BY <2>1, <2>2
<1>3. CASE Administer \/ Tick
  BY <1>3 DEF Administer, Tick, CreateRole, ConfigureRole, DeleteRole, DeleteUser,
     AttachRead, AttachWrite, Goto, requests
<1> QED BY <1>1, <1>2, <1>3 DEF Next

\* A grant takes effect at once: nobody is denied what the records grant, but by
\* a check whose reads a change has overtaken.
THEOREM GrantsAreImmediate == Spec => DenialsAreCurrent
<1>1. IInv /\ [Next]_vars =>
          [\A q \in Requests :
              pc[q] # "denied" /\ pc'[q] = "denied" =>
                  q \in disturbed \/ wants'[q] \notin Granted(who'[q])]_vars
  BY Deniers, UndisturbedDenial
<1> QED BY <1>1, Inductive, PTL DEF Spec, DenialsAreCurrent

=============================================================================
