-------------------------- MODULE AccountPoolProofs --------------------------
(* Theorems about AccountPool, for every value of its constants. *)
EXTENDS AccountPool, TLAPS

-----------------------------------------------------------------------------
(* The inductive invariant *)

\* A slot works on an account that was created.
WasCreated ==
    \A p \in Procs : on[p] # NoAccount => acct[on[p]].state # "absent"

\* A matching ETag: what the slot found when it read the record still holds.
ReadStillHolds(p) ==
    LET r == acct[on[p]] IN
    /\ on[p] # NoAccount
    /\ Exists(on[p])
    /\ pc[p] \in {"update", "reset", "fix", "force", "queried", "lost"}
                  \cup Locking
    /\ pc[p] \in {"update", "force", "delete_lock"} => r.state = "Ready"
    /\ pc[p] = "reset" => /\ r.state \in {"Ready", "Running", "Corrupted"}
                         /\ r.bound <= now
    /\ pc[p] = "queried" => Free(on[p])
    /\ pc[p] = "provision_lock" => r.state = "NotCreated"

ETagsHold == \A p \in valid : ReadStillHolds(p)

\* The state a job that took an account has put it in.
StateOf(p, s) ==
    CASE pc[p] = "provisioning" -> s = "Provisioning"
      [] pc[p] = "preparing" -> s = "Preparing"
      [] pc[p] = "nuking" -> s = "Evicting"
      [] pc[p] = "deleting" -> s = "Deleting"
      [] OTHER -> s \in Busy

JobsHoldState ==
    \A p \in Procs :
        pc[p] \in Working /\ on[p] \in Clean => StateOf(p, acct[on[p]].state)

\* Under a running challenge the record stays Running.
LeaseIsRunning ==
    \A p \in Procs :
        Live(p) /\ on[p] \in Clean => acct[on[p]].state = "Running"

IInv ==
    /\ TypeOK
    /\ WasCreated
    /\ ETagsHold
    /\ LeaseIsRecorded
    /\ ExclusiveLease
    /\ JobsHoldState
    /\ JobsExclude
    /\ LeaseIsRunning
    /\ ReadyIsPrepared

-----------------------------------------------------------------------------

\* The types, initially and in every step.
LEMMA InitTypeOK == Init => TypeOK
<1> SUFFICES ASSUME Init PROVE TypeOK
  OBVIOUS
<1> USE PoolAssumption DEF Init
<1>1. acct \in [Accounts -> [state: AccountState, bound: Nat]]
  BY DEF AccountState, Gone
<1>2. pc \in [Procs -> PC]
  BY DEF PC
<1>3. restarted \in BOOLEAN
  OBVIOUS
<1> QED BY <1>1, <1>2, <1>3 DEF TypeOK

\* One step of any slot, of the clock or of the process keeps the types.
LEMMA StepTypeOK == TypeOK /\ [Next]_vars => TypeOK'
<1> SUFFICES ASSUME TypeOK, [Next]_vars PROVE TypeOK'
  OBVIOUS
<1> USE PoolAssumption DEF TypeOK, PC, AccountState, Gone, Busy, Handlers,
      Locking, Calling, Working, Holding, history, slots, record
<1>1. ASSUME NEW p \in Procs, Step(p) PROVE TypeOK'
  <2>1. CASE Abandon(p) BY <2>1 DEF Abandon, Return, Finish
  <2>2. CASE Conflict(p) BY <2>2 DEF Conflict, Return, Finish
  <2>3. CASE CreateSchedule(p) BY <2>3 DEF CreateSchedule, Goto
  <2>4. CASE UpdateWrite(p) BY <2>4 DEF UpdateWrite, SetState, Put, Finish
  <2>5. CASE FixWrite(p) BY <2>5 DEF FixWrite, Put, Finish
  <2>6. CASE ForceDelete(p) BY <2>6 DEF ForceDelete, SetState, Put, Finish
  <2>7. CASE ResetLock(p) BY <2>7 DEF ResetLock, SetState, Put, Goto
  <2>8. CASE StartNoCapacity(p) BY <2>8 DEF StartNoCapacity, Return, Finish
  <2>9. CASE Claim(p) BY <2>9 DEF Claim, Put, Goto
  <2>10. CASE StartSchedule(p) BY <2>10 DEF StartSchedule, Goto
  <2>11. ASSUME NEW a \in Accounts, StartQuery(p, a) PROVE TypeOK'
    BY <2>11 DEF StartQuery
  <2> QED BY <1>1, <2>1, <2>2, <2>3, <2>4, <2>5, <2>6, <2>7, <2>8, <2>9,
             <2>10, <2>11 DEF Step
<1>2. ASSUME NEW p \in Procs, Job(p) PROVE TypeOK'
  <2>1. CASE LockProvisioning(p) BY <2>1 DEF LockProvisioning, SetState, Put, Goto
  <2>2. CASE Provisioned(p) BY <2>2 DEF Provisioned, SetState, Put, Goto
  <2>3. CASE Prepared(p) BY <2>3 DEF Prepared, SetState, Put, Finish
  <2>4. CASE Nuked(p) BY <2>4 DEF Nuked, SetState, Put, Goto
  <2>5. CASE LockDeleting(p) BY <2>5 DEF LockDeleting, SetState, Put, Goto
  <2>6. CASE Deleted(p) BY <2>6 DEF Deleted, SetState, Put, Finish
  <2>7. CASE LockLost(p) BY <2>7 DEF LockLost, Goto
  <2>8. CASE JobFails(p) BY <2>8 DEF JobFails, Goto
  <2>9. CASE Report(p) BY <2>9 DEF Report, SetState, Put, Finish
  <2>10. CASE ReportPanics(p) BY <2>10 DEF ReportPanics, Restart
  <2> QED BY <1>2, <2>1, <2>2, <2>3, <2>4, <2>5, <2>6, <2>7, <2>8, <2>9,
             <2>10 DEF Job
<1>3. ASSUME NEW p \in Procs, ChallengeJob(p) PROVE TypeOK'
  <2>1. CASE RunnerEnds(p) BY <2>1 DEF RunnerEnds, Goto
  <2>2. CASE LockAccess(p) BY <2>2 DEF LockAccess, Goto
  <2>3. CASE Unbind(p) BY <2>3 DEF Unbind, Put, Finish
  <2>4. CASE ChallengeFails(p) BY <2>4 DEF ChallengeFails, Goto
  <2>5. CASE ChallengeReport(p) BY <2>5 DEF ChallengeReport, Return, Finish
  <2> QED BY <1>3, <2>1, <2>2, <2>3, <2>4, <2>5 DEF ChallengeJob
<1>4. ASSUME NEW p \in Procs, Request(p) PROVE TypeOK'
  <2>1. ASSUME NEW a \in Accounts, CreateRecord(p, a) PROVE TypeOK'
    BY <2>1 DEF CreateRecord, Put
  <2>2. ASSUME NEW a \in Accounts, NEW s \in Handlers \cup Locking,
               Get(p, a, s)
        PROVE TypeOK'
    BY <2>2 DEF Get
  <2>3. ASSUME NEW until \in Deadlines, StartCheck(p, until) PROVE TypeOK'
    BY <2>3 DEF StartCheck
  <2> QED BY <1>4, <2>1, <2>2, <2>3
          DEF Request, UpdateRead, ResetRead, FixRead, DeleteRead
<1>5. CASE Tick BY <1>5 DEF Tick
<1>6. CASE Crash BY <1>6 DEF Crash, Restart
<1>7. CASE UNCHANGED vars BY <1>7 DEF vars
<1> QED BY <1>1, <1>2, <1>3, <1>4, <1>5, <1>6, <1>7 DEF Next

\* Every record and every slot keeps its type, and a slot that is past its
\* first read works on an account.
THEOREM TypeCorrect == Spec => []TypeOK
<1> QED BY InitTypeOK, StepTypeOK, PTL DEF Spec

-----------------------------------------------------------------------------
(* Which steps start a lease, start a job, and write a record *)

\* What happened to an account is never forgotten, and time does not go back.
LEMMA HistoryGrows ==
    ASSUME TypeOK, [Next]_vars
    PROVE  fixed \subseteq fixed' /\ contested \subseteq contested' /\ now <= now'
<1> DEFINE Grows ==
      fixed \subseteq fixed' /\ contested \subseteq contested' /\ now <= now'
<1> USE DEF TypeOK, Put, SetState, Goto, Finish, Return, Get, history, slots,
      record
<1>1. ASSUME NEW p \in Procs, Step(p) PROVE Grows
  BY <1>1 DEF Step, Abandon, Conflict, CreateSchedule, UpdateWrite, FixWrite,
        ForceDelete, ResetLock, StartNoCapacity, Claim, StartSchedule,
        StartQuery
<1>2. ASSUME NEW p \in Procs, Job(p) PROVE Grows
  BY <1>2 DEF Job, LockProvisioning, Provisioned, Prepared, Nuked,
        LockDeleting, Deleted, LockLost, JobFails, Report, ReportPanics,
        Restart
<1>3. ASSUME NEW p \in Procs, ChallengeJob(p) PROVE Grows
  BY <1>3 DEF ChallengeJob, RunnerEnds, LockAccess, Unbind, ChallengeFails,
        ChallengeReport
<1>4. ASSUME NEW p \in Procs, Request(p) PROVE Grows
  BY <1>4 DEF Request, CreateRecord, UpdateRead, ResetRead, FixRead,
        DeleteRead, StartCheck
<1>5. CASE Tick BY <1>5 DEF Tick
<1>6. CASE Crash BY <1>6 DEF Crash, Restart
<1>7. CASE UNCHANGED vars BY <1>7 DEF vars
<1> QED BY <1>1, <1>2, <1>3, <1>4, <1>5, <1>6, <1>7 DEF Next

\* A slot that holds a live lease after a step held it before, or claims its
\* account in this step.
LEMMA LeaseBegins ==
    ASSUME TypeOK, [Next]_vars, NEW q \in Procs, Live(q)'
    PROVE  /\ on'[q] = on[q] /\ to'[q] = to[q]
           /\ on[q] \in Accounts
           /\ now < to[q]
           /\ Live(q) \/ Claim(q)
<1> DEFINE Held == /\ on'[q] = on[q] /\ to'[q] = to[q]
                   /\ on[q] \in Accounts
                   /\ now < to[q]
<1> USE DEF TypeOK, Live, CtxAlive, Holding, Put, SetState, Goto, Finish,
      Return, Get, history, slots, record
<1>1. ASSUME NEW p \in Procs, Step(p) PROVE Held /\ (Live(q) \/ Claim(q))
  <2>1. CASE Claim(p) BY <2>1 DEF Claim
  <2>2. CASE ~Claim(p) BY <1>1, <2>2 DEF Step, Abandon, Conflict,
        CreateSchedule, UpdateWrite, FixWrite, ForceDelete, ResetLock,
        StartNoCapacity, Claim, StartSchedule, StartQuery
  <2> QED BY <2>1, <2>2
<1>2. ASSUME NEW p \in Procs, Job(p) PROVE Held /\ Live(q)
  BY <1>2 DEF Job, LockProvisioning, Provisioned, Prepared, Nuked,
        LockDeleting, Deleted, LockLost, JobFails, Report, ReportPanics,
        Restart
<1>3. ASSUME NEW p \in Procs, ChallengeJob(p) PROVE Held /\ Live(q)
  BY <1>3 DEF ChallengeJob, RunnerEnds, LockAccess, Unbind, ChallengeFails,
        ChallengeReport
<1>4. ASSUME NEW p \in Procs, Request(p) PROVE Held /\ Live(q)
  BY <1>4 DEF Request, CreateRecord, UpdateRead, ResetRead, FixRead,
        DeleteRead, StartCheck
<1>5. CASE Tick BY <1>5 DEF Tick
<1>6. CASE Crash BY <1>6 DEF Crash, Restart
<1>7. CASE UNCHANGED vars BY <1>7 DEF vars
<1> QED BY <1>1, <1>2, <1>3, <1>4, <1>5, <1>6, <1>7 DEF Next

\* A slot that works as a job after a step did so before, or takes its account
\* in this step.
LEMMA JobBegins ==
    ASSUME TypeOK, [Next]_vars, NEW q \in Procs, pc'[q] \in Working
    PROVE  /\ on'[q] = on[q] /\ on[q] \in Accounts
           /\ \/ pc[q] \in Working
              \/ LockProvisioning(q) \/ ResetLock(q) \/ LockDeleting(q)
<1> DEFINE Same == on'[q] = on[q] /\ on[q] \in Accounts
<1> USE DEF TypeOK, Working, Calling, Put, SetState, Goto, Finish, Return,
      Get, history, slots, record
<1>1. ASSUME NEW p \in Procs, Step(p)
      PROVE  Same /\ (pc[q] \in Working \/ ResetLock(q))
  <2>1. CASE ResetLock(p) BY <2>1 DEF ResetLock
  <2>2. CASE ~ResetLock(p) BY <1>1, <2>2 DEF Step, Abandon, Conflict,
        CreateSchedule, UpdateWrite, FixWrite, ForceDelete, ResetLock,
        StartNoCapacity, Claim, StartSchedule, StartQuery
  <2> QED BY <2>1, <2>2
<1>2. ASSUME NEW p \in Procs, Job(p)
      PROVE  Same /\ (pc[q] \in Working \/ LockProvisioning(q) \/ LockDeleting(q))
  <2>1. CASE LockProvisioning(p) BY <2>1 DEF LockProvisioning
  <2>2. CASE LockDeleting(p) BY <2>2 DEF LockDeleting
  <2>3. CASE ~LockProvisioning(p) /\ ~LockDeleting(p)
    BY <1>2, <2>3 DEF Job, LockProvisioning, Provisioned, Prepared, Nuked,
          LockDeleting, Deleted, LockLost, JobFails, Report, ReportPanics,
          Restart
  <2> QED BY <2>1, <2>2, <2>3
<1>3. ASSUME NEW p \in Procs, ChallengeJob(p) PROVE Same /\ pc[q] \in Working
  BY <1>3 DEF ChallengeJob, RunnerEnds, LockAccess, Unbind, ChallengeFails,
        ChallengeReport
<1>4. ASSUME NEW p \in Procs, Request(p) PROVE Same /\ pc[q] \in Working
  BY <1>4 DEF Request, CreateRecord, UpdateRead, ResetRead, FixRead,
        DeleteRead, StartCheck, Handlers, Locking
<1>5. CASE Tick BY <1>5 DEF Tick
<1>6. CASE Crash BY <1>6 DEF Crash, Restart
<1>7. CASE UNCHANGED vars BY <1>7 DEF vars
<1> QED BY <1>1, <1>2, <1>3, <1>4, <1>5, <1>6, <1>7 DEF Next

\* Only four writes touch BoundUntil.
LEMMA BoundWriters ==
    ASSUME TypeOK, [Next]_vars, NEW a \in Accounts,
           acct'[a].bound # acct[a].bound
    PROVE  \E p \in Procs : \/ CreateRecord(p, a)
                            \/ on[p] = a /\ (FixWrite(p) \/ Claim(p) \/ Unbind(p))
<1> USE DEF TypeOK, Put, SetState, Goto, Finish, Return, Get, history, slots,
      record
<1>1. ASSUME NEW p \in Procs, Step(p)
      PROVE  on[p] = a /\ (FixWrite(p) \/ Claim(p))
  BY <1>1, SMTT(30) DEF Step, Abandon, Conflict, CreateSchedule, UpdateWrite,
        FixWrite, ForceDelete, ResetLock, StartNoCapacity, Claim,
        StartSchedule, StartQuery
<1>2. ASSUME NEW p \in Procs, Job(p) PROVE FALSE
  BY <1>2 DEF Job, LockProvisioning, Provisioned, Prepared, Nuked,
        LockDeleting, Deleted, LockLost, JobFails, Report, ReportPanics,
        Restart
<1>3. ASSUME NEW p \in Procs, ChallengeJob(p) PROVE on[p] = a /\ Unbind(p)
  BY <1>3 DEF ChallengeJob, RunnerEnds, LockAccess, Unbind, ChallengeFails,
        ChallengeReport
<1>4. ASSUME NEW p \in Procs, Request(p) PROVE CreateRecord(p, a)
  BY <1>4 DEF Request, CreateRecord, UpdateRead, ResetRead, FixRead,
        DeleteRead, StartCheck
<1>5. CASE Tick BY <1>5 DEF Tick
<1>6. CASE Crash BY <1>6 DEF Crash, Restart
<1>7. CASE UNCHANGED vars BY <1>7 DEF vars
<1> QED BY <1>1, <1>2, <1>3, <1>4, <1>5, <1>6, <1>7 DEF Next

\* A record that was deleted stays deleted: no job writes it again.
LEMMA DeletedStays ==
    ASSUME IInv, [Next]_vars, NEW a \in Accounts, acct[a].state = "deleted"
    PROVE  acct'[a].state = "deleted"
<1> USE DEF IInv, TypeOK, ETagsHold, ReadStillHolds, Exists, Gone, Put,
      SetState, Goto, Finish, Return, Get, history, slots, record
<1> DEFINE Stays == acct'[a].state = "deleted"
<1>1. ASSUME NEW p \in Procs, Step(p) PROVE Stays
  BY <1>1, SMTT(30) DEF Step, Abandon, Conflict, CreateSchedule, UpdateWrite,
        FixWrite, ForceDelete, ResetLock, StartNoCapacity, Claim,
        StartSchedule, StartQuery, Free
<1>2. ASSUME NEW p \in Procs, Job(p) PROVE Stays
  BY <1>2 DEF Job, LockProvisioning, Provisioned, Prepared, Nuked,
        LockDeleting, Deleted, LockLost, JobFails, Report, ReportPanics,
        Restart, Locking
<1>3. ASSUME NEW p \in Procs, ChallengeJob(p) PROVE Stays
  BY <1>3 DEF ChallengeJob, RunnerEnds, LockAccess, Unbind, ChallengeFails,
        ChallengeReport
<1>4. ASSUME NEW p \in Procs, Request(p) PROVE Stays
  BY <1>4 DEF Request, CreateRecord, UpdateRead, ResetRead, FixRead,
        DeleteRead, StartCheck
<1>5. CASE Tick BY <1>5 DEF Tick
<1>6. CASE Crash BY <1>6 DEF Crash, Restart
<1>7. CASE UNCHANGED vars BY <1>7 DEF vars
<1> QED BY <1>1, <1>2, <1>3, <1>4, <1>5, <1>6, <1>7 DEF Next

-----------------------------------------------------------------------------
(* The conjuncts of the inductive invariant, one step further *)

\* Handlers and jobs work on the account they read, and no record goes back to
\* never having been created.
LEMMA StepWasCreated == IInv /\ TypeOK' /\ [Next]_vars => WasCreated'
<1> SUFFICES ASSUME IInv, TypeOK', [Next]_vars PROVE WasCreated'
  OBVIOUS
<1> USE PoolAssumption DEF IInv, TypeOK, WasCreated, Exists, Gone, Put,
      SetState, Goto, Finish, Return, Get, history, slots, record
<1>1. ASSUME NEW p \in Procs, Step(p) PROVE WasCreated'
  BY <1>1, SMTT(30) DEF Step, Abandon, Conflict, CreateSchedule, UpdateWrite,
        FixWrite, ForceDelete, ResetLock, StartNoCapacity, Claim,
        StartSchedule, StartQuery, Free
<1>2. ASSUME NEW p \in Procs, Job(p) PROVE WasCreated'
  BY <1>2, SMTT(30) DEF Job, LockProvisioning, Provisioned, Prepared, Nuked,
        LockDeleting, Deleted, LockLost, JobFails, Report, ReportPanics,
        Restart
<1>3. ASSUME NEW p \in Procs, ChallengeJob(p) PROVE WasCreated'
  BY <1>3, SMTT(30) DEF ChallengeJob, RunnerEnds, LockAccess, Unbind,
        ChallengeFails, ChallengeReport
<1>4. ASSUME NEW p \in Procs, Request(p) PROVE WasCreated'
  BY <1>4, SMTT(30) DEF Request, CreateRecord, UpdateRead, ResetRead, FixRead,
        DeleteRead, StartCheck
<1>5. CASE Tick BY <1>5 DEF Tick
<1>6. CASE Crash BY <1>6 DEF Crash, Restart
<1>7. CASE UNCHANGED vars BY <1>7 DEF vars
<1> QED BY <1>1, <1>2, <1>3, <1>4, <1>5, <1>6, <1>7 DEF Next

\* Every write of a record ends the ETags read from it, so what a slot with a
\* matching ETag has read stays true.
LEMMA StepETagsHold == IInv /\ TypeOK' /\ [Next]_vars => ETagsHold'
<1> SUFFICES ASSUME IInv, TypeOK', [Next]_vars PROVE ETagsHold'
  OBVIOUS
<1> USE PoolAssumption DEF IInv, TypeOK, WasCreated, ETagsHold, ReadStillHolds,
      Exists, Gone, Free, Locking, Put, SetState, Goto, Finish, Return, Get,
            history, slots, record
<1>1. ASSUME NEW p \in Procs, Step(p) PROVE ETagsHold'
  BY <1>1, SMTT(30) DEF Step, Abandon, Conflict, CreateSchedule, UpdateWrite,
        FixWrite, ForceDelete, ResetLock, StartNoCapacity, Claim,
        StartSchedule, StartQuery, Handlers
<1>2. ASSUME NEW p \in Procs, Job(p) PROVE ETagsHold'
  BY <1>2, SMTT(30) DEF Job, LockProvisioning, Provisioned, Prepared, Nuked,
        LockDeleting, Deleted, LockLost, JobFails, Report, ReportPanics,
        Restart, Calling
<1>3. ASSUME NEW p \in Procs, ChallengeJob(p) PROVE ETagsHold'
  BY <1>3, SMTT(30) DEF ChallengeJob, RunnerEnds, LockAccess, Unbind,
        ChallengeFails, ChallengeReport
<1>4. ASSUME NEW p \in Procs, Request(p) PROVE ETagsHold'
  BY <1>4, SMTT(30) DEF Request, CreateRecord, UpdateRead, ResetRead, FixRead,
        DeleteRead, StartCheck
<1>5. CASE Tick BY <1>5 DEF Tick
<1>6. CASE Crash BY <1>6 DEF Crash, Restart
<1>7. CASE UNCHANGED vars BY <1>7 DEF vars
<1> QED BY <1>1, <1>2, <1>3, <1>4, <1>5, <1>6, <1>7 DEF Next

\* A claim is refused while another game's lease is live: the record the claim
\* was decided on was free, but a live lease is recorded with a later bound.
LEMMA StepExclusiveLease == IInv /\ TypeOK' /\ [Next]_vars => ExclusiveLease'
<1> SUFFICES ASSUME IInv, [Next]_vars, NEW p \in Procs, NEW q \in Procs,
                    Live(p)', Live(q)', on'[p] = on'[q], on'[p] \notin fixed'
             PROVE  p = q
  BY DEF ExclusiveLease
<1> USE DEF IInv
<1>1. on[p] = on[q] /\ on[p] \in Accounts /\ on[p] \notin fixed
  BY LeaseBegins, HistoryGrows
<1>2. (Live(p) \/ Claim(p)) /\ (Live(q) \/ Claim(q))
  BY LeaseBegins
<1>3. CASE Live(p) /\ Live(q)
  BY <1>1, <1>3 DEF ExclusiveLease
<1>4. ASSUME NEW r \in Procs, NEW s \in Procs, on[r] = on[s],
             on[r] \in Accounts, on[r] \notin fixed, Claim(r), Live(s)
      PROVE  FALSE
  <2>1. acct[on[r]].bound < now /\ Exists(on[r])
    BY <1>4 DEF Claim, ETagsHold, ReadStillHolds, Free
  <2>2. acct[on[s]].bound = to[s] /\ now < to[s]
    BY <1>4, <2>1 DEF LeaseIsRecorded, Live, CtxAlive
  <2> QED BY <1>4, <2>1, <2>2 DEF TypeOK
<1>5. CASE Claim(p) /\ Claim(q)
  BY <1>5 DEF Claim, Goto, TypeOK
<1> QED BY <1>1, <1>2, <1>3, <1>4, <1>5

\* While a lease is live, nobody but Fix writes BoundUntil: a record that is
\* bound is not claimed, and only the holder itself unbinds it.
LEMMA StepLeaseIsRecorded == IInv /\ TypeOK' /\ [Next]_vars => LeaseIsRecorded'
<1> SUFFICES ASSUME IInv, [Next]_vars, NEW p \in Procs, Live(p)',
                    on'[p] \notin fixed', Exists(on[p])'
             PROVE  (acct[on[p]].bound = to[p])'
  BY DEF LeaseIsRecorded
<1> USE DEF IInv
<1> DEFINE a == on[p]
<1>1. /\ on'[p] = a /\ to'[p] = to[p]
      /\ a \in Accounts /\ a \notin fixed /\ now < to[p]
  BY LeaseBegins, HistoryGrows
<1>2. Live(p) \/ Claim(p)
  BY LeaseBegins
<1>3. CASE Claim(p)
  BY <1>1, <1>3 DEF Claim, Put, TypeOK
<1>4. CASE Live(p)
  <2>1. Exists(a)
    BY <1>1, DeletedStays, PoolAssumption DEF WasCreated, Exists, Gone
  <2>2. acct[a].bound = to[p]
    BY <1>1, <1>4, <2>1 DEF LeaseIsRecorded
  <2>3. SUFFICES ASSUME acct'[a].bound # acct[a].bound PROVE FALSE
    BY <1>1, <2>2
  <2>4. PICK r \in Procs : \/ CreateRecord(r, a)
                           \/ on[r] = a /\ (FixWrite(r) \/ Claim(r) \/ Unbind(r))
    BY <1>1, <2>3, BoundWriters
  <2>5. CASE CreateRecord(r, a)
    BY <2>1, <2>5 DEF CreateRecord, Exists, Gone
  <2>6. CASE on[r] = a /\ FixWrite(r)
    BY <1>1, <2>6 DEF FixWrite
  <2>7. CASE on[r] = a /\ Claim(r)
    BY <1>1, <2>2, <2>7 DEF Claim, ETagsHold, ReadStillHolds, Free, TypeOK
  <2>8. CASE on[r] = a /\ Unbind(r)
    <3>1. Live(r)
      BY <2>8 DEF Unbind, Live, Holding
    <3>2. r = p
      BY <1>1, <1>4, <2>8, <3>1 DEF ExclusiveLease
    <3> QED BY <2>8, <3>2 DEF Unbind, Finish, Live, Holding, TypeOK
  <2> QED BY <2>4, <2>5, <2>6, <2>7, <2>8
<1> QED BY <1>2, <1>3, <1>4

\* A job's state in the record is its lock: the state of a record a job took is
\* written by that job alone, for every other writer needs a state no job uses,
\* or is a second job, or makes the account fixed or contested.
LEMMA StepJobsHoldState == IInv /\ TypeOK' /\ [Next]_vars => JobsHoldState'
<1> SUFFICES ASSUME IInv, TypeOK', [Next]_vars PROVE JobsHoldState'
  OBVIOUS
<1> USE PoolAssumption DEF IInv, TypeOK, WasCreated, ETagsHold, ReadStillHolds,
      JobsHoldState, JobsExclude, LeaseIsRunning, StateOf, Clean, Working,
      Calling, Live, CtxAlive, Holding, Exists, Gone, Busy, Put, SetState,
            Goto, Finish, Return, Get, history, slots, record
<1>1. ASSUME NEW p \in Procs, Step(p) PROVE JobsHoldState'
  BY <1>1, SMTT(30) DEF Step, Abandon, Conflict, CreateSchedule, UpdateWrite,
        FixWrite, ForceDelete, ResetLock, StartNoCapacity, Claim,
        StartSchedule, StartQuery, Free, Handlers
<1>2. ASSUME NEW p \in Procs, Job(p) PROVE JobsHoldState'
  BY <1>2, SMTT(30) DEF Job, LockProvisioning, Provisioned, Prepared, Nuked,
        LockDeleting, Deleted, LockLost, JobFails, Report, ReportPanics,
        Restart, Locking
<1>3. ASSUME NEW p \in Procs, ChallengeJob(p) PROVE JobsHoldState'
  BY <1>3, SMTT(30) DEF ChallengeJob, RunnerEnds, LockAccess, Unbind,
        ChallengeFails, ChallengeReport
<1>4. ASSUME NEW p \in Procs, Request(p) PROVE JobsHoldState'
  BY <1>4, SMTT(30) DEF Request, CreateRecord, UpdateRead, ResetRead, FixRead,
        DeleteRead, StartCheck
<1>5. CASE Tick BY <1>5 DEF Tick
<1>6. CASE Crash BY <1>6 DEF Crash, Restart
<1>7. CASE UNCHANGED vars BY <1>7 DEF vars
<1> QED BY <1>1, <1>2, <1>3, <1>4, <1>5, <1>6, <1>7 DEF Next

\* A second job is not admitted: its ETag'd first write was decided on a state
\* that no job has.
LEMMA StepJobsExclude == IInv /\ TypeOK' /\ [Next]_vars => JobsExclude'
<1> SUFFICES ASSUME IInv, [Next]_vars, NEW p \in Procs, NEW q \in Procs,
                    pc'[p] \in Working, pc'[q] \in Working,
                    on'[p] = on'[q], on'[p] \in Clean'
             PROVE  p = q
  BY DEF JobsExclude
<1> USE DEF IInv
<1> DEFINE Takes(r) == LockProvisioning(r) \/ ResetLock(r) \/ LockDeleting(r)
<1>1. on[p] = on[q] /\ on[p] \in Clean
  BY JobBegins, HistoryGrows DEF Clean
<1>2. /\ pc[p] \in Working \/ Takes(p)
      /\ pc[q] \in Working \/ Takes(q)
  BY JobBegins
<1>3. CASE pc[p] \in Working /\ pc[q] \in Working
  BY <1>1, <1>3 DEF JobsExclude
<1>4. ASSUME NEW r \in Procs, NEW s \in Procs, on[r] = on[s],
             on[r] \in Clean, Takes(r), pc[s] \in Working
      PROVE  FALSE
  <2>1. acct[on[r]].state \in {"NotCreated", "Ready", "Running", "Corrupted"}
    BY <1>4 DEF LockProvisioning, ResetLock, LockDeleting, ETagsHold,
                ReadStillHolds
  <2>2. acct[on[s]].state \in Busy
    BY <1>4 DEF JobsHoldState, StateOf, Busy
  <2> QED BY <1>4, <2>1, <2>2 DEF Busy
<1>5. CASE Takes(p) /\ Takes(q)
  BY <1>5 DEF LockProvisioning, ResetLock, LockDeleting, Goto, TypeOK
<1> QED BY <1>1, <1>2, <1>3, <1>4, <1>5

\* Nobody takes the account away from a running challenge: Reset looks at the
\* bound, Update and Delete want a Ready account, and a job that works on it
\* would have to have taken it before.
LEMMA StepLeaseIsRunning == IInv /\ TypeOK' /\ [Next]_vars => LeaseIsRunning'
<1> SUFFICES ASSUME IInv, TypeOK', [Next]_vars PROVE LeaseIsRunning'
  OBVIOUS
<1> USE PoolAssumption DEF IInv, TypeOK, WasCreated, ETagsHold, ReadStillHolds,
      LeaseIsRecorded, JobsHoldState, LeaseIsRunning, StateOf, Clean,
      Working, Calling, Live, CtxAlive, Holding, Exists, Gone, Busy, Put,
            SetState, Goto, Finish, Return, Get, history, slots, record
<1>1. ASSUME NEW p \in Procs, Step(p) PROVE LeaseIsRunning'
  BY <1>1, SMTT(30) DEF Step, Abandon, Conflict, CreateSchedule, UpdateWrite,
        FixWrite, ForceDelete, ResetLock, StartNoCapacity, Claim,
        StartSchedule, StartQuery, Free, Handlers
<1>2. ASSUME NEW p \in Procs, Job(p) PROVE LeaseIsRunning'
  BY <1>2, SMTT(30) DEF Job, LockProvisioning, Provisioned, Prepared, Nuked,
        LockDeleting, Deleted, LockLost, JobFails, Report, ReportPanics,
        Restart, Locking
<1>3. ASSUME NEW p \in Procs, ChallengeJob(p) PROVE LeaseIsRunning'
  BY <1>3, SMTT(30) DEF ChallengeJob, RunnerEnds, LockAccess, Unbind,
        ChallengeFails, ChallengeReport
<1>4. ASSUME NEW p \in Procs, Request(p) PROVE LeaseIsRunning'
  BY <1>4, SMTT(30) DEF Request, CreateRecord, UpdateRead, ResetRead, FixRead,
        DeleteRead, StartCheck
<1>5. CASE Tick BY <1>5 DEF Tick
<1>6. CASE Crash BY <1>6 DEF Crash, Restart
<1>7. CASE UNCHANGED vars BY <1>7 DEF vars
<1> QED BY <1>1, <1>2, <1>3, <1>4, <1>5, <1>6, <1>7 DEF Next

\* Ready is written by the job that has just prepared the account.
LEMMA StepReadyIsPrepared == IInv /\ TypeOK' /\ [Next]_vars => ReadyIsPrepared'
<1> SUFFICES ASSUME IInv, TypeOK', [Next]_vars PROVE ReadyIsPrepared'
  OBVIOUS
<1> USE PoolAssumption DEF IInv, TypeOK, WasCreated, ETagsHold, ReadStillHolds,
      JobsHoldState, ReadyIsPrepared, StateOf, Clean, Working, Calling,
      Exists, Gone, Busy, Put, SetState, Goto, Finish, Return, Get, history,
            slots, record
<1>1. ASSUME NEW p \in Procs, Step(p) PROVE ReadyIsPrepared'
  BY <1>1, SMTT(30) DEF Step, Abandon, Conflict, CreateSchedule, UpdateWrite,
        FixWrite, ForceDelete, ResetLock, StartNoCapacity, Claim,
        StartSchedule, StartQuery, Free, Handlers
<1>2. ASSUME NEW p \in Procs, Job(p) PROVE ReadyIsPrepared'
  BY <1>2, SMTT(30) DEF Job, LockProvisioning, Provisioned, Prepared, Nuked,
        LockDeleting, Deleted, LockLost, JobFails, Report, ReportPanics,
        Restart, Locking
<1>3. ASSUME NEW p \in Procs, ChallengeJob(p) PROVE ReadyIsPrepared'
  BY <1>3, SMTT(30) DEF ChallengeJob, RunnerEnds, LockAccess, Unbind,
        ChallengeFails, ChallengeReport
<1>4. ASSUME NEW p \in Procs, Request(p) PROVE ReadyIsPrepared'
  BY <1>4, SMTT(30) DEF Request, CreateRecord, UpdateRead, ResetRead, FixRead,
        DeleteRead, StartCheck
<1>5. CASE Tick BY <1>5 DEF Tick
<1>6. CASE Crash BY <1>6 DEF Crash, Restart
<1>7. CASE UNCHANGED vars BY <1>7 DEF vars
<1> QED BY <1>1, <1>2, <1>3, <1>4, <1>5, <1>6, <1>7 DEF Next

-----------------------------------------------------------------------------
(* The theorems *)

\* The inductive invariant holds of the empty pool.
LEMMA InitIInv == Init => IInv
<1> SUFFICES ASSUME Init PROVE IInv
  OBVIOUS
<1>1. TypeOK
  BY InitTypeOK
<1>2. WasCreated /\ ETagsHold /\ ReadyIsPrepared
  BY DEF Init, WasCreated, ETagsHold, ReadyIsPrepared, Clean
<1>3. \A p \in Procs : pc[p] \notin Working /\ ~Live(p)
  BY DEF Init, Working, Calling, Live, Holding
<1> QED BY <1>1, <1>2, <1>3 DEF IInv, LeaseIsRecorded, ExclusiveLease,
           JobsHoldState, JobsExclude, LeaseIsRunning

\* Every step keeps it.
LEMMA StepIInv == IInv /\ [Next]_vars => IInv'
<1> SUFFICES ASSUME IInv, [Next]_vars PROVE IInv'
  OBVIOUS
<1>1. TypeOK'
  BY StepTypeOK DEF IInv
<1> QED BY <1>1, StepWasCreated, StepETagsHold, StepLeaseIsRecorded,
           StepExclusiveLease, StepJobsHoldState, StepJobsExclude,
           StepLeaseIsRunning, StepReadyIsPrepared DEF IInv

\* The inductive invariant holds throughout.
THEOREM Invariance == Spec => []IInv
<1> QED BY InitIInv, StepIInv, PTL DEF Spec

\* An account is leased to one challenge at a time, unless an administrator
\* applied Fix to it.
THEOREM LeaseExclusive == Spec => []ExclusiveLease
<1>1. IInv => ExclusiveLease
  BY DEF IInv
<1> QED BY <1>1, Invariance, PTL

\* As long as a challenge holds an account, bound_until is the end of its game.
THEOREM LeaseRecorded == Spec => []LeaseIsRecorded
<1>1. IInv => LeaseIsRecorded
  BY DEF IInv
<1> QED BY <1>1, Invariance, PTL

\* Two jobs never work on the same account, unless Fix or a lost job's report
\* broke its state.
THEOREM OneJobPerAccount == Spec => []JobsExclude
<1>1. IInv => JobsExclude
  BY DEF IInv
<1> QED BY <1>1, Invariance, PTL

\* No job works on an account under a running challenge: the record cannot be
\* Running and in the state of a job.
THEOREM LeaseUndisturbed == Spec => []NoJobUnderLease
<1>1. IInv => NoJobUnderLease
  <2> SUFFICES ASSUME IInv, NEW p \in Procs, NEW q \in Procs, Live(p),
                      pc[q] \in Working, on[p] \in Clean, on[q] = on[p]
               PROVE  FALSE
    BY DEF NoJobUnderLease
  <2>1. acct[on[p]].state = "Running"
    BY DEF IInv, LeaseIsRunning
  <2>2. acct[on[p]].state \in Busy
    BY DEF IInv, JobsHoldState, StateOf, Busy
  <2> QED BY <2>1, <2>2 DEF Busy
<1> QED BY <1>1, Invariance, PTL

\* A Ready account was prepared since it was made or last nuked.
THEOREM ReadyPrepared == Spec => []ReadyIsPrepared
<1>1. IInv => ReadyIsPrepared
  BY DEF IInv
<1> QED BY <1>1, Invariance, PTL

\* Running is written by Claim alone (Update writes back the Ready it read), and
\* the ETag guarantees that the account is still as free as the query found it.
THEOREM ClaimsFree == Spec => ClaimsOnlyFree
<1> DEFINE OnlyFree == \A a \in Accounts :
      acct'[a].state = "Running" /\ acct[a].state # "Running" => Free(a)
<1>1. ASSUME IInv, [Next]_vars PROVE [OnlyFree]_vars
  <2> USE DEF TypeOK, IInv, ETagsHold, ReadStillHolds, Put, SetState, Goto,
        Finish, Return, Get, history, slots, record
  <2>1. ASSUME NEW p \in Procs, Step(p) PROVE OnlyFree
    <3>1. CASE Claim(p) BY <1>1, <3>1 DEF Claim
    <3>2. CASE ~Claim(p) BY <1>1, <2>1, <3>2 DEF Step, Abandon, Conflict,
          CreateSchedule, UpdateWrite, FixWrite, ForceDelete, ResetLock,
          StartNoCapacity, Claim, StartSchedule, StartQuery
    <3> QED BY <3>1, <3>2
  <2>2. ASSUME NEW p \in Procs, Job(p) PROVE OnlyFree
    BY <1>1, <2>2 DEF Job, LockProvisioning, Provisioned, Prepared, Nuked,
          LockDeleting, Deleted, LockLost, JobFails, Report, ReportPanics,
          Restart
  <2>3. ASSUME NEW p \in Procs, ChallengeJob(p) PROVE OnlyFree
    BY <1>1, <2>3 DEF ChallengeJob, RunnerEnds, LockAccess, Unbind,
          ChallengeFails, ChallengeReport
  <2>4. ASSUME NEW p \in Procs, Request(p) PROVE OnlyFree
    BY <1>1, <2>4 DEF Request, CreateRecord, UpdateRead, ResetRead, FixRead,
          DeleteRead, StartCheck
  <2>5. CASE Tick BY <2>5 DEF Tick
  <2>6. CASE Crash BY <2>6 DEF Crash, Restart
  <2> QED BY <1>1, <2>1, <2>2, <2>3, <2>4, <2>5, <2>6 DEF Next
<1> QED BY <1>1, Invariance, PTL DEF Spec, ClaimsOnlyFree

-----------------------------------------------------------------------------
(* The pool implements the lease service *)

\* A live lease is a pair of leases, and nothing else is.
LEMMA LeasesAre ==
    \A q, a : <<q, a>> \in leases <=> q \in Procs /\ Live(q) /\ a = on[q]
<1> QED BY DEF leases

\* fixed grows by FixWrite only.
LEMMA FixedBy ==
    ASSUME TypeOK, [Next]_vars
    PROVE  fixed' = fixed \/ \E p \in Procs : FixWrite(p)
<1> USE DEF TypeOK, Put, SetState, Goto, Finish, Return, Get, history, slots,
      record
<1>1. ASSUME NEW p \in Procs, Step(p) PROVE fixed' = fixed \/ FixWrite(p)
  BY <1>1 DEF Step, Abandon, Conflict, CreateSchedule, UpdateWrite, FixWrite,
        ForceDelete, ResetLock, StartNoCapacity, Claim, StartSchedule,
        StartQuery
<1>2. ASSUME NEW p \in Procs, Job(p) PROVE fixed' = fixed
  BY <1>2 DEF Job, LockProvisioning, Provisioned, Prepared, Nuked,
        LockDeleting, Deleted, LockLost, JobFails, Report, ReportPanics,
        Restart
<1>3. ASSUME NEW p \in Procs, ChallengeJob(p) PROVE fixed' = fixed
  BY <1>3 DEF ChallengeJob, RunnerEnds, LockAccess, Unbind, ChallengeFails,
        ChallengeReport
<1>4. ASSUME NEW p \in Procs, Request(p) PROVE fixed' = fixed
  BY <1>4 DEF Request, CreateRecord, UpdateRead, ResetRead, FixRead,
        DeleteRead, StartCheck
<1>5. CASE Tick BY <1>5 DEF Tick
<1>6. CASE Crash BY <1>6 DEF Crash, Restart
<1>7. CASE UNCHANGED vars BY <1>7 DEF vars
<1> QED BY <1>1, <1>2, <1>3, <1>4, <1>5, <1>6, <1>7 DEF Next

\* A claim grants its account, which no live lease covers, or begins after its
\* game ended and grants nothing.
LEMMA ClaimGrants ==
    ASSUME IInv, NEW p \in Procs, Claim(p)
    PROVE  \/ on[p] \in Accounts /\ Lease!Grant(p, on[p])
           \/ UNCHANGED <<leases, fixed>>
<1> USE DEF IInv, TypeOK
<1>1. /\ on[p] \in Accounts /\ Exists(on[p]) /\ Free(on[p])
      /\ ~Live(p)
  BY PoolAssumption DEF Claim, ETagsHold, ReadStillHolds, Live, Holding
<1>2. \A q \in Procs : q # p => (Live(q)' <=> Live(q)) /\ on'[q] = on[q]
  BY DEF Claim, Goto, Live, CtxAlive
<1>3. on'[p] = on[p] /\ (Live(p)' <=> now < to[p]) /\ fixed' = fixed
  BY DEF Claim, Goto, Live, CtxAlive, Holding, history
<1>4. CASE now < to[p]
  <2>1. leases' = leases \cup {<<p, on[p]>>}
    BY <1>1, <1>2, <1>3, <1>4 DEF leases
  <2>2. Lease!Lent(on[p]) => on[p] \in fixed
    <3> SUFFICES ASSUME NEW h \in Procs, <<h, on[p]>> \in leases,
                        on[p] \notin fixed
                 PROVE  FALSE
      BY DEF Lease!Lent
    <3>1. Live(h) /\ on[h] = on[p]
      BY LeasesAre
    <3>2. acct[on[p]].bound = to[h] /\ now < to[h]
      BY <1>1, <3>1 DEF LeaseIsRecorded, Live, CtxAlive
    <3> QED BY <1>1, <3>2 DEF Free
  <2> QED BY <1>1, <1>3, <2>1, <2>2 DEF Lease!Grant
<1>5. CASE ~(now < to[p])
  BY <1>1, <1>2, <1>3, <1>5 DEF leases
<1> QED BY <1>4, <1>5

\* Any other step ends leases or leaves them alone; Fix voids its account.
LEMMA StepImplementsLease ==
    IInv /\ [Next]_vars => [Lease!Next]_<<leases, fixed>>
<1> SUFFICES ASSUME IInv, [Next]_vars PROVE [Lease!Next]_<<leases, fixed>>
  OBVIOUS
<1> USE DEF IInv
<1>1. ASSUME NEW p \in Procs, Claim(p) PROVE [Lease!Next]_<<leases, fixed>>
  BY <1>1, ClaimGrants DEF Lease!Next
<1>2. ASSUME NEW p \in Procs, FixWrite(p) PROVE Lease!Next
  <2>1. on[p] \in Accounts
    BY <1>2 DEF FixWrite, ETagsHold, ReadStillHolds, TypeOK
  <2>2. \A q \in Procs : (Live(q)' <=> Live(q)) /\ (Live(q) => on'[q] = on[q])
    BY <1>2 DEF FixWrite, Finish, Live, CtxAlive, Holding, TypeOK
  <2>3. leases' = leases
    BY <2>2 DEF leases
  <2>4. Lease!Void(on[p])
    BY <1>2, <2>3 DEF Lease!Void, FixWrite
  <2> QED BY <2>1, <2>4 DEF Lease!Next
<1>3. CASE \A p \in Procs : ~Claim(p) /\ ~FixWrite(p)
  <2>1. fixed' = fixed
    BY <1>3, FixedBy
  <2>2. \A q \in Procs : Live(q)' => Live(q) /\ on'[q] = on[q]
    BY <1>3, LeaseBegins
  <2>3. leases' \subseteq leases
    BY <2>2 DEF leases
  <2> QED BY <2>1, <2>3 DEF Lease!Next, Lease!End
<1> QED BY <1>1, <1>2, <1>3

\* The pool implements AccountLease: what the code does to its records, seen
\* through the live leases, is lending each account to one challenge at a time.
THEOREM PoolImplementsLease == Spec => ImplementsLease
<1>1. Init => Lease!Init
  BY DEF Init, Lease!Init, leases, Live, Holding
<1>2. IInv /\ [Next]_vars => [Lease!Next]_<<leases, fixed>>
  BY StepImplementsLease
<1> QED BY <1>1, <1>2, Invariance, PTL DEF Spec, ImplementsLease, Lease!Spec

-----------------------------------------------------------------------------
(* Busy states *)

\* What a step of slot p does to the jobs and to the busy states: an account gets
\* busy only with a job of p at work on it, and p ends its work only by taking the
\* account out of its busy state.
JobCovers(p) ==
    /\ \A q \in Procs \ {p} : pc'[q] = pc[q] /\ on'[q] = on[q]
    /\ \A a \in Accounts :
          acct'[a].state \in Busy =>
             \/ acct[a].state \in Busy
             \/ pc'[p] \in Working /\ on'[p] = a
    /\ pc[p] \in Working =>
          \/ pc'[p] \in Working /\ on'[p] = on[p]
          \/ acct'[on[p]].state \notin Busy

LEMMA SlotCovers ==
    ASSUME TypeOK, NEW p \in Procs, ~restarted',
           Request(p) \/ Step(p) \/ Job(p) \/ ChallengeJob(p)
    PROVE  JobCovers(p)
<1> USE DEF TypeOK, JobCovers, Busy, Working, Calling, slots, record
<1>1. CASE Request(p)
  BY <1>1 DEF Request, CreateRecord, UpdateRead, ResetRead, FixRead, DeleteRead, Get,
              Put, StartCheck
<1>2. CASE Step(p)
  <2>1. CASE Abandon(p) \/ Conflict(p) \/ StartNoCapacity(p)
    BY <2>1 DEF Abandon, Conflict, StartNoCapacity, Return, Finish, Handlers
  <2>2. CASE CreateSchedule(p) BY <2>2 DEF CreateSchedule, Goto
  <2>3. CASE UpdateWrite(p) BY <2>3 DEF UpdateWrite, SetState, Put, Finish
  <2>4. CASE FixWrite(p) BY <2>4 DEF FixWrite, Put, Finish
  <2>5. CASE ForceDelete(p) BY <2>5 DEF ForceDelete, SetState, Put, Finish
  <2>6. CASE ResetLock(p) BY <2>6 DEF ResetLock, SetState, Put, Goto
  <2>7. CASE Claim(p) BY <2>7 DEF Claim, Put, Goto
  <2>8. CASE StartSchedule(p) BY <2>8 DEF StartSchedule, Goto
  <2>9. ASSUME NEW a \in Accounts, StartQuery(p, a) PROVE JobCovers(p)
    BY <2>9 DEF StartQuery
  <2> QED BY <1>2, <2>1, <2>2, <2>3, <2>4, <2>5, <2>6, <2>7, <2>8, <2>9 DEF Step
<1>3. CASE Job(p)
  <2>1. CASE LockProvisioning(p) BY <2>1 DEF LockProvisioning, SetState, Put, Goto
  <2>2. CASE Provisioned(p) BY <2>2 DEF Provisioned, SetState, Put, Goto
  <2>3. CASE Prepared(p) BY <2>3 DEF Prepared, SetState, Put, Finish
  <2>4. CASE Nuked(p) BY <2>4 DEF Nuked, SetState, Put, Goto
  <2>5. CASE LockDeleting(p) BY <2>5 DEF LockDeleting, SetState, Put, Goto
  <2>6. CASE Deleted(p) BY <2>6 DEF Deleted, SetState, Put, Finish
  <2>7. CASE LockLost(p) BY <2>7 DEF LockLost, Goto, Locking
  <2>8. CASE JobFails(p) BY <2>8 DEF JobFails, Goto
  <2>9. CASE Report(p) BY <2>9 DEF Report, SetState, Put, Finish
  <2>10. CASE ReportPanics(p) BY <2>10 DEF ReportPanics, Restart
  <2> QED BY <1>3, <2>1, <2>2, <2>3, <2>4, <2>5, <2>6, <2>7, <2>8, <2>9,
             <2>10 DEF Job
<1>4. CASE ChallengeJob(p)
  <2>1. CASE RunnerEnds(p) \/ LockAccess(p) \/ ChallengeFails(p)
    BY <2>1 DEF RunnerEnds, LockAccess, ChallengeFails, Goto
  <2>2. CASE Unbind(p) BY <2>2 DEF Unbind, Put, Finish
  <2>3. CASE ChallengeReport(p) BY <2>3 DEF ChallengeReport, Return, Finish
  <2> QED BY <1>4, <2>1, <2>2, <2>3 DEF ChallengeJob
<1> QED BY <1>1, <1>2, <1>3, <1>4

\* Nothing forgets that the process was restarted.
LEMMA RestartedStays == TypeOK /\ [Next]_vars /\ restarted => restarted'
<1> SUFFICES ASSUME TypeOK, [Next]_vars, restarted PROVE restarted'
  OBVIOUS
<1> USE DEF history
<1>1. ASSUME NEW p \in Procs, Request(p) PROVE restarted'
  BY <1>1 DEF Request, CreateRecord, UpdateRead, ResetRead, FixRead, DeleteRead, Get,
              StartCheck
<1>2. ASSUME NEW p \in Procs, Step(p) PROVE restarted'
  BY <1>2 DEF Step, Abandon, Conflict, StartNoCapacity, Return, CreateSchedule,
              UpdateWrite, FixWrite, ForceDelete, ResetLock, Claim, StartSchedule,
              StartQuery
<1>3. ASSUME NEW p \in Procs, Job(p) PROVE restarted'
  BY <1>3 DEF Job, LockProvisioning, Provisioned, Prepared, Nuked, LockDeleting,
              Deleted, LockLost, JobFails, Report, ReportPanics, Restart
<1>4. ASSUME NEW p \in Procs, ChallengeJob(p) PROVE restarted'
  BY <1>4 DEF ChallengeJob, RunnerEnds, LockAccess, Unbind, ChallengeFails,
              ChallengeReport, Return
<1>5. CASE Tick \/ Crash \/ UNCHANGED vars
  BY <1>5 DEF Tick, Crash, Restart, vars
<1> QED BY <1>1, <1>2, <1>3, <1>4, <1>5 DEF Next

LEMMA StepBusyHasJob == TypeOK /\ BusyHasJob /\ [Next]_vars => BusyHasJob'
<1> SUFFICES ASSUME TypeOK, BusyHasJob, [Next]_vars,
                    NEW a \in Accounts, acct'[a].state \in Busy, ~restarted'
             PROVE  \E p \in Procs : pc'[p] \in Working /\ on'[p] = a
  BY DEF BusyHasJob
<1>1. ~restarted
  BY RestartedStays
<1>2. ASSUME NEW p \in Procs, Request(p) \/ Step(p) \/ Job(p) \/ ChallengeJob(p)
      PROVE  \E q \in Procs : pc'[q] \in Working /\ on'[q] = a
  <2>1. JobCovers(p)
    BY <1>2, SlotCovers
  <2>2. CASE pc'[p] \in Working /\ on'[p] = a
    BY <2>2
  <2>3. CASE ~(pc'[p] \in Working /\ on'[p] = a)
    <3>1. acct[a].state \in Busy
      BY <2>1, <2>3 DEF JobCovers
    <3>2. PICK q \in Procs : pc[q] \in Working /\ on[q] = a
      BY <1>1, <3>1 DEF BusyHasJob
    <3>3. q # p
      BY <2>1, <2>3, <3>2 DEF JobCovers
    <3> QED BY <2>1, <3>2, <3>3 DEF JobCovers
  <2> QED BY <2>2, <2>3
<1>3. CASE Tick \/ Crash \/ UNCHANGED vars
  <2>1. UNCHANGED <<acct, pc, on>>
    BY <1>3 DEF Tick, Crash, Restart, vars, record, slots
  <2> QED BY <1>1, <2>1 DEF BusyHasJob
<1> QED BY <1>2, <1>3 DEF Next

\* An account in the state of a job has a job at work on it, or the process was
\* restarted (the jobs of account.go, and their reports).
THEOREM BusyAttended == Spec => []BusyHasJob
<1>1. Init => BusyHasJob
  BY DEF Init, BusyHasJob, Busy
<1> QED BY <1>1, StepBusyHasJob, TypeCorrect, PTL DEF Spec

=============================================================================
