----------------------------- MODULE AccountPool -----------------------------
(***************************************************************************)
(* The pool of cloud accounts: the Account record kept in the OLTP store,  *)
(* the AccountService handlers that change it (Create, Update, Reset, Fix, *)
(* Delete), the background jobs those handlers schedule, and the part of   *)
(* ChallengeService.Start that claims an account, runs a challenge on it   *)
(* and unbinds it.                                                         *)
(*                                                                         *)
(* A slot p of Procs is one request together with the job it schedules:    *)
(* pc[p] names the next call it makes, on[p] the account it works on and   *)
(* to[p] the end of the game it runs for (Start only).  Every read and     *)
(* every write of the store is a step of its own, so that any other slot   *)
(* may run between a handler's read and its write.                         *)
(*                                                                         *)
(* ETags.  The store refuses a write that carries the ETag of a read when  *)
(* the record was written since.  Only that matters, so valid is the set   *)
(* of slots whose ETag still matches.                                      *)
(***************************************************************************)
EXTENDS Naturals

CONSTANTS
    Accounts,     \* account ids; sortid never issues one twice
    NoAccount,    \* what an idle slot works on
    Procs,        \* slots for requests in flight
    Deadlines,    \* the values game.To takes
    MaxTime,      \* bound of the clock
    UnbindDelay,  \* the grace Start leaves after locking (one minute)
    Faults        \* which of "provider", "oltp", "crash" may happen

ASSUME PoolAssumption ==
    /\ NoAccount \notin Accounts
    /\ Deadlines \subseteq Nat
    /\ MaxTime \in Nat
    /\ UnbindDelay \in Nat \ {0}

VARIABLES
    now,      \* the wall clock, in minutes; 0 is Go's zero time
    acct,     \* acct[a]: State and BoundUntil of account a's record
    pc, on, to,
    valid,    \* slots whose ETag matches the record on[p]
    (* What happened to an account so far (history, no code reads it). *)
    fixed,     \* accounts an administrator applied Fix to
    contested, \* accounts a job that never locked them marked Corrupted
    raw,       \* accounts not prepared since they were made or nuked
    restarted  \* did the server process die and come back?

record == <<acct, valid>>
slots == <<pc, on, to>>
history == <<fixed, contested, raw, restarted>>
vars == <<now, record, slots, history>>

-----------------------------------------------------------------------------
(* Types *)

\* "absent" and "deleted" stand for the record that is not in the store.
Gone == {"absent", "deleted"}
Busy == {"Provisioning", "Preparing", "Evicting", "Deleting"}
AccountState == Gone \cup Busy \cup {"NotCreated", "Ready", "Running", "Corrupted"}

\* Handlers that have read a record, or written one, and still run.
Handlers == {"created", "update", "reset", "fix", "force",
             "checked", "queried", "claimed"}
\* Jobs whose first call takes the account by an ETag'd write.
Locking == {"provision_lock", "delete_lock"}
\* Jobs that took the account: the provider call they are in, or its failure.
Calling == {"provisioning", "preparing", "nuking", "deleting"}
Working == Calling \cup {"failed"}
\* The challenge job and the handler that is about to schedule it.
Holding == {"claimed", "running", "locking", "unbinding"}

PC == {"idle", "lost", "chfailed"} \cup Handlers \cup Locking
          \cup Working \cup Holding

TypeOK ==
    /\ now \in Nat
    /\ acct \in [Accounts -> [state: AccountState, bound: Nat]]
    /\ pc \in [Procs -> PC]
    /\ on \in [Procs -> Accounts \cup {NoAccount}]
    /\ \A p \in Procs : on[p] = NoAccount => pc[p] \in {"idle", "checked"}
    /\ to \in [Procs -> Nat]
    /\ valid \in SUBSET Procs
    /\ fixed \in SUBSET Accounts
    /\ contested \in SUBSET Accounts
    /\ raw \in SUBSET Accounts
    /\ restarted \in BOOLEAN

Init ==
    /\ now = 1
    /\ acct = [a \in Accounts |-> [state |-> "absent", bound |-> 0]]
    /\ pc = [p \in Procs |-> "idle"]
    /\ on = [p \in Procs |-> NoAccount]
    /\ to = [p \in Procs |-> 0]
    /\ valid = {}
    /\ fixed = {} /\ contested = {} /\ raw = {}
    /\ restarted = FALSE

-----------------------------------------------------------------------------
(* The store *)

Exists(a) == acct[a].state \notin Gone

\* Any write of the record gives it a new ETag.
Put(a, r) ==
    /\ acct' = [acct EXCEPT ![a] = r]
    /\ valid' = valid \ {q \in Procs : on[q] = a}

SetState(a, s) == Put(a, [acct[a] EXCEPT !.state = s])

Goto(p, label) ==
    /\ pc' = [pc EXCEPT ![p] = label]
    /\ UNCHANGED <<on, to>>

Finish(p) ==
    /\ pc' = [pc EXCEPT ![p] = "idle"]
    /\ on' = [on EXCEPT ![p] = NoAccount]
    /\ to' = [to EXCEPT ![p] = 0]

\* A handler returns without a write; its ETag is forgotten.
Return(p) ==
    /\ Finish(p)
    /\ valid' = valid \ {p}
    /\ UNCHANGED <<now, acct, history>>

\* A handler's read of account a: it now holds the record's ETag.
Get(p, a, label) ==
    /\ pc[p] = "idle"
    /\ Exists(a)
    /\ pc' = [pc EXCEPT ![p] = label]
    /\ on' = [on EXCEPT ![p] = a]
    /\ valid' = valid \cup {p}
    /\ UNCHANGED <<now, acct, to, history>>

\* A handler returns an error to its caller before its next write: a lookup,
\* the provider cache or the store failed.
Abandon(p) ==
    /\ pc[p] \in Handlers
    /\ Return(p)

\* An ETag'd write whose ETag went stale is an error for its handler.
Conflict(p) ==
    /\ pc[p] \in {"update", "reset", "fix", "force", "queried"}
    /\ p \notin valid
    /\ Return(p)

-----------------------------------------------------------------------------
(* AccountService.Create *)

CreateRecord(p, a) ==
    /\ pc[p] = "idle"
    /\ acct[a].state = "absent"
    /\ Put(a, [state |-> "NotCreated", bound |-> 0])
    /\ pc' = [pc EXCEPT ![p] = "created"]
    /\ on' = [on EXCEPT ![p] = a]
    /\ raw' = raw \cup {a}
    /\ UNCHANGED <<now, to, fixed, contested, restarted>>

\* The new record is read back for its ETag, filtered on NotCreated, and the
\* provisioning job is scheduled.
CreateSchedule(p) ==
    /\ pc[p] = "created"
    /\ acct[on[p]].state = "NotCreated"
    /\ valid' = valid \cup {p}
    /\ Goto(p, "provision_lock")
    /\ UNCHANGED <<now, acct, history>>

LockProvisioning(p) ==
    /\ pc[p] = "provision_lock"
    /\ p \in valid
    /\ SetState(on[p], "Provisioning")
    /\ Goto(p, "provisioning")
    /\ UNCHANGED <<now, history>>

Provisioned(p) ==
    /\ pc[p] = "provisioning"
    /\ Exists(on[p])
    /\ SetState(on[p], "Preparing")
    /\ Goto(p, "preparing")
    /\ UNCHANGED <<now, history>>

\* Mutant of Prepared: making the account Ready also unbinds it.
PreparedUnbinds(p) ==
    /\ pc[p] = "preparing"
    /\ Exists(on[p])
    /\ Put(on[p], [state |-> "Ready", bound |-> 0])
    /\ raw' = raw \ {on[p]}
    /\ Finish(p)
    /\ UNCHANGED <<now, fixed, contested, restarted>>

\* The last step of Create and of Reset.
Prepared(p) ==
    /\ pc[p] = "preparing"
    /\ Exists(on[p])
    /\ SetState(on[p], "Ready")
    /\ raw' = raw \ {on[p]}
    /\ Finish(p)
    /\ UNCHANGED <<now, fixed, contested, restarted>>

-----------------------------------------------------------------------------
(* AccountService.Update: only the description changes, and the ETag. *)

UpdateRead(p, a) == acct[a].state = "Ready" /\ Get(p, a, "update")

UpdateWrite(p) ==
    /\ pc[p] = "update"
    /\ p \in valid
    /\ SetState(on[p], acct[on[p]].state)
    /\ Finish(p)
    /\ UNCHANGED <<now, history>>

-----------------------------------------------------------------------------
(* AccountService.Reset *)

\* Mutant of ResetRead: bound_until is not looked at.
ResetReadBound(p, a) ==
    /\ acct[a].state \in {"Ready", "Running", "Corrupted"}
    /\ Get(p, a, "reset")

ResetRead(p, a) ==
    /\ acct[a].state \in {"Ready", "Running", "Corrupted"}
    /\ acct[a].bound <= now
    /\ Get(p, a, "reset")

\* The handler itself takes the account, then schedules the job, whose first
\* call nukes it.
ResetLock(p) ==
    /\ pc[p] = "reset"
    /\ p \in valid
    /\ SetState(on[p], "Evicting")
    /\ raw' = raw \cup {on[p]}
    /\ Goto(p, "nuking")
    /\ UNCHANGED <<now, fixed, contested, restarted>>

\* Mutant of Nuked: the account goes back to the pool without Prepare.
NukedReady(p) ==
    /\ pc[p] = "nuking"
    /\ Exists(on[p])
    /\ SetState(on[p], "Ready")
    /\ raw' = raw \cup {on[p]}
    /\ Finish(p)
    /\ UNCHANGED <<now, fixed, contested, restarted>>

Nuked(p) ==
    /\ pc[p] = "nuking"
    /\ Exists(on[p])
    /\ SetState(on[p], "Preparing")
    /\ raw' = raw \cup {on[p]}
    /\ Goto(p, "preparing")
    /\ UNCHANGED <<now, fixed, contested, restarted>>

-----------------------------------------------------------------------------
(* AccountService.Fix: whatever the state, back to Ready and unbound. *)

FixRead(p, a) == Get(p, a, "fix")

FixWrite(p) ==
    /\ pc[p] = "fix"
    /\ p \in valid
    /\ Put(on[p], [state |-> "Ready", bound |-> 0])
    /\ fixed' = fixed \cup {on[p]}
    /\ Finish(p)
    /\ UNCHANGED <<now, contested, raw, restarted>>

-----------------------------------------------------------------------------
(* AccountService.Delete *)

DeleteRead(p, a) ==
    /\ acct[a].state = "Ready"
    /\ Get(p, a, "delete_lock") \/ Get(p, a, "force")

\* With force the record goes at once.
ForceDelete(p) ==
    /\ pc[p] = "force"
    /\ p \in valid
    /\ SetState(on[p], "deleted")
    /\ Finish(p)
    /\ UNCHANGED <<now, history>>

\* Mutant of LockDeleting: the write carries no ETag.
LockDeletingAnyway(p) ==
    /\ pc[p] = "delete_lock"
    /\ Exists(on[p])
    /\ SetState(on[p], "Deleting")
    /\ raw' = raw \cup {on[p]}
    /\ Goto(p, "deleting")
    /\ UNCHANGED <<now, fixed, contested, restarted>>

\* Otherwise the job takes the account, with the ETag the handler read.
LockDeleting(p) ==
    /\ pc[p] = "delete_lock"
    /\ p \in valid
    /\ SetState(on[p], "Deleting")
    /\ raw' = raw \cup {on[p]}
    /\ Goto(p, "deleting")
    /\ UNCHANGED <<now, fixed, contested, restarted>>

\* The store does not say whether it refuses to delete a record that is not
\* there; here it does not, and JobFails covers the case that it does.
Deleted(p) ==
    /\ pc[p] = "deleting"
    /\ SetState(on[p], "deleted")
    /\ Finish(p)
    /\ UNCHANGED <<now, history>>

-----------------------------------------------------------------------------
(* Failing jobs *)

\* The ETag went stale, or the record went, or the store fails: the job stops
\* before it took the account, and is reported like any other failure.
LockLost(p) ==
    /\ pc[p] \in Locking
    /\ p \notin valid \/ "oltp" \in Faults
    /\ Goto(p, "lost")
    /\ UNCHANGED <<now, record, history>>

\* Mutant of JobFails: the error is dropped.
JobFailsSilently(p) ==
    /\ pc[p] \in Calling
    /\ Faults \cap {"provider", "oltp"} # {} \/ ~Exists(on[p])
    /\ Finish(p)
    /\ UNCHANGED <<now, record, history>>

\* A provider call of the job fails, or the write that follows it does.
JobFails(p) ==
    /\ pc[p] \in Calling
    /\ Faults \cap {"provider", "oltp"} # {} \/ ~Exists(on[p])
    /\ Goto(p, "failed")
    /\ UNCHANGED <<now, record, history>>

\* The report of both, written without an ETag.
Report(p) ==
    /\ pc[p] \in {"lost", "failed"}
    /\ Exists(on[p])
    /\ SetState(on[p], "Corrupted")
    /\ contested' = IF pc[p] = "lost" THEN contested \cup {on[p]} ELSE contested
    /\ Finish(p)
    /\ UNCHANGED <<now, fixed, raw, restarted>>

\* The process ends: every request and every job is forgotten, the records
\* stay.  The server that comes up next resumes nothing.
Restart ==
    /\ pc' = [p \in Procs |-> "idle"]
    /\ on' = [p \in Procs |-> NoAccount]
    /\ to' = [p \in Procs |-> 0]
    /\ valid' = {}
    /\ restarted' = TRUE
    /\ UNCHANGED <<now, acct, fixed, contested, raw>>

\* The scheduler logs a report that fails through a logger nobody set, and the
\* nil dereference in its goroutine ends the process.
ReportPanics(p) ==
    /\ \/ pc[p] \in {"lost", "failed"} /\ ~Exists(on[p])
       \/ pc[p] \in {"lost", "failed", "chfailed"} /\ "oltp" \in Faults
    /\ Restart

Crash == "crash" \in Faults /\ Restart

-----------------------------------------------------------------------------
(* ChallengeService.Start, as far as it concerns the account *)

\* The game has not ended when the handler looks.
StartCheck(p, until) ==
    /\ pc[p] = "idle"
    /\ now <= until
    /\ pc' = [pc EXCEPT ![p] = "checked"]
    /\ to' = [to EXCEPT ![p] = until]
    /\ UNCHANGED <<now, record, on, history>>

Free(a) == acct[a].state = "Ready" /\ acct[a].bound < now

\* The query returns one free account with its ETag; without any, the handler
\* gives up.
StartQuery(p, a) ==
    /\ pc[p] = "checked"
    /\ Free(a)
    /\ pc' = [pc EXCEPT ![p] = "queried"]
    /\ on' = [on EXCEPT ![p] = a]
    /\ valid' = valid \cup {p}
    /\ UNCHANGED <<now, acct, to, history>>

StartNoCapacity(p) ==
    /\ pc[p] = "checked"
    /\ \A a \in Accounts : ~Free(a)
    /\ Return(p)

\* Mutants of Claim: the write carries no ETag; the write leaves BoundUntil out.
ClaimAnyway(p) ==
    /\ pc[p] = "queried"
    /\ Exists(on[p])
    /\ Put(on[p], [state |-> "Running", bound |-> to[p]])
    /\ Goto(p, "claimed")
    /\ UNCHANGED <<now, history>>

ClaimUnbound(p) ==
    /\ pc[p] = "queried"
    /\ p \in valid
    /\ SetState(on[p], "Running")
    /\ Goto(p, "claimed")
    /\ UNCHANGED <<now, history>>

Claim(p) ==
    /\ pc[p] = "queried"
    /\ p \in valid
    /\ Put(on[p], [state |-> "Running", bound |-> to[p]])
    /\ Goto(p, "claimed")
    /\ UNCHANGED <<now, history>>

\* The handler prepares the account, builds the controllers and schedules the
\* challenge job.  (That it fails between, and leaves the claim behind, is
\* Abandon.)
StartSchedule(p) ==
    /\ pc[p] = "claimed"
    /\ raw' = raw \ {on[p]}
    /\ Goto(p, "running")
    /\ UNCHANGED <<now, record, fixed, contested, restarted>>

\* The job's context ends with the game.
CtxAlive(p) == now < to[p]

\* The runner comes back: the guest returned, or its context ended.
RunnerEnds(p) ==
    /\ pc[p] = "running"
    /\ Goto(p, "locking")
    /\ UNCHANGED <<now, record, history>>

\* access.Lock goes through only under a live context.
LockAccess(p) ==
    /\ pc[p] = "locking"
    /\ CtxAlive(p)
    /\ Goto(p, "unbinding")
    /\ UNCHANGED <<now, record, history>>

\* Written without an ETag, and the state stays Running.
Unbind(p) ==
    /\ pc[p] = "unbinding"
    /\ CtxAlive(p)
    /\ Exists(on[p])
    /\ Put(on[p], [acct[on[p]] EXCEPT !.bound = now + UnbindDelay])
    /\ Finish(p)
    /\ UNCHANGED <<now, history>>

\* The guest fails, or a call made with the context of the job does.
ChallengeFails(p) ==
    /\ \/ pc[p] = "running"
       \/ pc[p] \in {"locking", "unbinding"} /\ ~CtxAlive(p)
       \/ pc[p] = "locking" /\ "provider" \in Faults
       \/ pc[p] = "unbinding" /\ ("oltp" \in Faults \/ ~Exists(on[p]))
    /\ Goto(p, "chfailed")
    /\ UNCHANGED <<now, record, history>>

\* Its report goes to the challenge and leaves the account alone.
ChallengeReport(p) ==
    /\ pc[p] = "chfailed"
    /\ Return(p)

-----------------------------------------------------------------------------
Tick ==
    /\ now < MaxTime
    /\ now' = now + 1
    /\ UNCHANGED <<record, slots, history>>

\* What a handler or a job does next once it is under way.
Step(p) ==
    \/ Abandon(p) \/ Conflict(p)
    \/ CreateSchedule(p) \/ UpdateWrite(p) \/ FixWrite(p) \/ ForceDelete(p)
    \/ ResetLock(p) \/ StartNoCapacity(p) \/ Claim(p) \/ StartSchedule(p)
    \/ \E a \in Accounts : StartQuery(p, a)

\* The account jobs, which run in the background until they end.
Job(p) ==
    \/ LockProvisioning(p) \/ Provisioned(p) \/ Prepared(p)
    \/ Nuked(p) \/ LockDeleting(p) \/ Deleted(p)
    \/ LockLost(p) \/ JobFails(p) \/ Report(p) \/ ReportPanics(p)

ChallengeJob(p) ==
    RunnerEnds(p) \/ LockAccess(p) \/ Unbind(p) \/ ChallengeFails(p)
        \/ ChallengeReport(p)

Request(p) ==
    \/ \E a \in Accounts : CreateRecord(p, a) \/ UpdateRead(p, a)
           \/ ResetRead(p, a) \/ FixRead(p, a) \/ DeleteRead(p, a)
    \/ \E until \in Deadlines : StartCheck(p, until)

Next ==
    \/ \E p \in Procs : Request(p) \/ Step(p) \/ Job(p) \/ ChallengeJob(p)
    \/ Tick
    \/ Crash

Spec == Init /\ [][Next]_vars

\* The Go runtime runs every goroutine the scheduler started, and every call
\* of the provider and of the store returns.
FairSpec == Spec /\ \A p \in Procs : WF_vars(Job(p))

-----------------------------------------------------------------------------
(* Properties *)

\* Slot p runs a challenge, or is about to, and its game has not ended.
Live(p) == pc[p] \in Holding /\ CtxAlive(p)

\* An account is leased to one challenge at a time: of two Starts that found
\* the same account, one fails, and no later Start finds it before the game is
\* over or the account was unbound.  Only Fix can break this.
ExclusiveLease ==
    \A p, q \in Procs :
        Live(p) /\ Live(q) /\ on[p] = on[q] /\ on[p] \notin fixed => p = q

\* As long as the challenge holds its account, the record says so: bound_until
\* is the end of its game, whatever the other jobs did to the state.
LeaseIsRecorded ==
    \A p \in Procs :
        Live(p) /\ on[p] \notin fixed /\ Exists(on[p])
            => acct[on[p]].bound = to[p]

\* Accounts whose jobs all respected the record.
Clean == Accounts \ (fixed \cup contested)

\* The un-ETagged writes of a job are safe because no other job works on the
\* account it took: the state in the record is the lock.
JobsExclude ==
    \A p, q \in Procs :
        pc[p] \in Working /\ pc[q] \in Working /\ on[p] = on[q]
            /\ on[p] \in Clean => p = q

\* No job nukes, prepares or deletes an account under a running challenge.
NoJobUnderLease ==
    \A p, q \in Procs :
        Live(p) /\ pc[q] \in Working /\ on[p] \in Clean => on[q] # on[p]

\* A Ready account was prepared after it was made or last nuked (the contract
\* of provider.Nuke).
ReadyIsPrepared ==
    \A a \in Clean : acct[a].state = "Ready" => a \notin raw

\* Running is entered from the pool only: from Ready, with the bound expired,
\* although the handler decided on an earlier read.
ClaimsOnlyFree ==
    [][\A a \in Accounts :
          acct'[a].state = "Running" /\ acct[a].state # "Running" => Free(a)]_vars

\* No account is left in the state of a job: one of its jobs is still there to
\* end that state or to report it, contested accounts included, or the process
\* was restarted and only Fix gets the account out.
BusyHasJob ==
    \A a \in Accounts :
        acct[a].state \in Busy /\ ~restarted =>
            \E p \in Procs : pc[p] \in Working /\ on[p] = a

\* What a job began it ends: an account does not stay in the state of a job,
\* unless the process was restarted.
BusyEnds ==
    \A a \in Accounts :
        acct[a].state \in Busy ~> (acct[a].state \notin Busy \/ restarted)

\* The pool implements the lease service.
leases == {<<p, on[p]>> : p \in {q \in Procs : Live(q)}}

Lease == INSTANCE AccountLease WITH Holders <- Procs, voided <- fixed

\* Every step of the code grants, ends or voids leases as AccountLease allows,
\* or leaves them alone.
ImplementsLease == Lease!Spec

=============================================================================
