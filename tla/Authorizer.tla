----------------------------- MODULE Authorizer -----------------------------
(***************************************************************************)
(* Who may call what: the User and Role records, the handlers that write   *)
(* them (RoleService, RBACService, UserService.Delete), and the authorizer *)
(* every request passes (internal/rbac), with its cache of policies.       *)
(*                                                                         *)
(* Check reads two records one after the other, notes the time, and puts   *)
(* what it has read into the cache; each read is a step, since anything    *)
(* may be written in between.  Nothing removes an entry from the cache,    *)
(* and nobody tells it of a change: it is the time stamp that ends it.     *)
(*                                                                         *)
(* Scopes are left out: a policy is the set of procedures it grants.  The  *)
(* token of a request has an end of its own, which can only shorten it.    *)
(***************************************************************************)
EXTENDS Naturals

CONSTANTS
    Subjects,          \* user ids
    Roles, NoRole,     \* role ids; NoRole is the empty one of a new user
    Procedures,
    Requests,          \* slots for requests
    Timeout,           \* policy-cache-timeout
    Threshold,         \* what an entry must have left to be used: 30 seconds
    MaxTime            \* bound of the clock

\* A policy that was just cached is fresh.  The clock is read once more between the
\* two, so that the threshold itself would not do.
ASSUME AuthorizerAssumption ==
    /\ NoRole \notin Roles
    /\ Timeout \in Nat /\ Threshold \in Nat \ {0} /\ MaxTime \in Nat
    /\ Threshold < Timeout

VARIABLES
    now,
    users, role,             \* the User records there are, and their role
    roles, issued, grants,   \* the Role records there are and were, and what they grant
    allowed, expires,        \* cached policy of a subject; expires is 0 without one
    pc, who, wants,          \* of a request: where it is, its subject, its procedure
    seen, policy,            \* the role and the permissions it has read
    until,                   \* its deadline
    (* history *)
    disturbed,   \* checks whose records were changed after they had read them
    since        \* when the permissions of a subject last changed, or were
                 \* cached by a disturbed check

records == <<users, role, roles, issued, grants>>
cache == <<allowed, expires>>
requests == <<pc, who, wants, seen, policy, until>>
vars == <<now, records, cache, requests, disturbed, since>>

TypeOK ==
    /\ now \in Nat
    /\ users \subseteq Subjects
    /\ role \in [Subjects -> Roles \cup {NoRole}]
    /\ roles \subseteq issued /\ issued \subseteq Roles
    /\ grants \in [Roles -> SUBSET Procedures]
    /\ allowed \in [Subjects -> SUBSET Procedures]
    /\ expires \in [Subjects -> Nat]
    /\ pc \in [Requests -> {"idle", "user", "role", "fill", "running", "denied",
                            "attach"}]
    /\ who \in [Requests -> Subjects]
    /\ wants \in [Requests -> Procedures]
    /\ seen \in [Requests -> Roles \cup {NoRole}]
    /\ \A q \in Requests : pc[q] \in {"fill", "attach"} => seen[q] \in Roles
    /\ policy \in [Requests -> SUBSET Procedures]
    /\ until \in [Requests -> Nat]
    /\ disturbed \subseteq Requests
    /\ since \in [Subjects -> Nat]

Init ==
    /\ now = 0
    /\ users = Subjects
    /\ role = [s \in Subjects |-> NoRole]
    /\ roles = {} /\ issued = {}
    /\ grants = [r \in Roles |-> {}]
    /\ allowed = [s \in Subjects |-> {}]
    /\ expires = [s \in Subjects |-> 0]
    /\ pc = [q \in Requests |-> "idle"]
    /\ who \in [Requests -> Subjects]
    /\ wants \in [Requests -> Procedures]
    /\ seen = [q \in Requests |-> NoRole]
    /\ policy = [q \in Requests |-> {}]
    /\ until = [q \in Requests |-> 0]
    /\ disturbed = {}
    /\ since = [s \in Subjects |-> 0]

-----------------------------------------------------------------------------
\* What the records grant to s.
Granted(s) ==
    IF s \in users /\ role[s] \in roles THEN grants[role[s]] ELSE {}

Goto(q, label) == pc' = [pc EXCEPT ![q] = label]

\* Request q is over, or has not got past its check.
Leave(q, label) ==
    /\ Goto(q, label)
    /\ seen' = [seen EXCEPT ![q] = NoRole]
    /\ policy' = [policy EXCEPT ![q] = {}]
    /\ until' = [until EXCEPT ![q] = 0]
    /\ disturbed' = disturbed \ {q}
    /\ UNCHANGED <<who, wants>>

-----------------------------------------------------------------------------
(* Authorizer.Check *)

\* An entry that ends soon is not used, so that its request is not cut off.
Fresh(end) == end >= now + Threshold

\* The handler of request q runs, until the policy it was admitted by expires.
Admit(q, end) ==
    /\ Goto(q, "running")
    /\ until' = [until EXCEPT ![q] = end]

Arrives(q, s, p) ==
    /\ pc[q] = "idle"
    /\ who' = [who EXCEPT ![q] = s]
    /\ wants' = [wants EXCEPT ![q] = p]
    /\ UNCHANGED <<now, records, seen, policy, disturbed, since>>

\* Mutant of Hit: an entry that is used lasts longer.
HitProlongs(q, s, p) ==
    /\ Arrives(q, s, p)
    /\ Fresh(expires[s]) /\ p \in allowed[s]
    /\ Admit(q, now + Timeout)
    /\ expires' = [expires EXCEPT ![s] = now + Timeout]
    /\ UNCHANGED allowed

\* Mutant of Hit: a request runs for the timeout, whatever is left of its policy.
HitRunsOn(q, s, p) ==
    /\ Arrives(q, s, p)
    /\ Fresh(expires[s]) /\ p \in allowed[s]
    /\ Admit(q, now + Timeout)
    /\ UNCHANGED cache

Hit(q, s, p) ==
    /\ Arrives(q, s, p)
    /\ Fresh(expires[s]) /\ p \in allowed[s]
    /\ Admit(q, expires[s])
    /\ UNCHANGED cache

\* Mutant of Miss: what the cached policy does not grant is denied.
MissDenies(q, s, p) ==
    /\ Arrives(q, s, p)
    /\ ~(Fresh(expires[s]) /\ p \in allowed[s])
    /\ Goto(q, IF Fresh(expires[s]) THEN "denied" ELSE "user")
    /\ UNCHANGED <<cache, until>>

Miss(q, s, p) ==
    /\ Arrives(q, s, p)
    /\ ~(Fresh(expires[s]) /\ p \in allowed[s])
    /\ Goto(q, "user")
    /\ UNCHANGED <<cache, until>>

ReadUser(q) ==
    /\ pc[q] = "user" /\ who[q] \in users
    /\ seen' = [seen EXCEPT ![q] = role[who[q]]]
    /\ Goto(q, "role")
    /\ UNCHANGED <<now, records, cache, who, wants, policy, until, disturbed, since>>

ReadRole(q) ==
    /\ pc[q] = "role" /\ seen[q] \in roles
    /\ policy' = [policy EXCEPT ![q] = grants[seen[q]]]
    /\ Goto(q, "fill")
    /\ UNCHANGED <<now, records, cache, who, wants, seen, until, disturbed, since>>

\* The record of the user or of its role is not found.
NotFound(q) ==
    /\ \/ pc[q] = "user" /\ who[q] \notin users
       \/ pc[q] = "role" /\ seen[q] \notin roles
    /\ Leave(q, "denied")
    /\ UNCHANGED <<now, records, cache, since>>

\* The time is taken after the reads, the entry replaces whatever there is.  It is
\* checked under the lock at once: that the clock goes on in between is left out.
Fill(q) ==
    /\ pc[q] = "fill"
    /\ allowed' = [allowed EXCEPT ![who[q]] = policy[q]]
    /\ expires' = [expires EXCEPT ![who[q]] = now + Timeout]
    /\ since' = IF q \in disturbed THEN [since EXCEPT ![who[q]] = now] ELSE since
    /\ IF Fresh(now + Timeout) /\ wants[q] \in policy[q]
       THEN /\ Admit(q, now + Timeout)
            /\ UNCHANGED <<who, wants, seen, policy, disturbed>>
       ELSE Leave(q, "denied")
    /\ UNCHANGED <<now, records>>

\* The request ends: it was served or denied, its deadline has passed, a call of
\* the store or the compilation of a pattern has failed it.
Return(q) ==
    /\ pc[q] # "idle"
    /\ Leave(q, "idle")
    /\ UNCHANGED <<now, records, cache, since>>

-----------------------------------------------------------------------------
(* The handlers that write users and roles.  Records carry no ETags. *)

\* Permissions change: of the subjects S, under the checks Q.
Change(S, Q) ==
    /\ since' = [s \in Subjects |-> IF s \in S THEN now ELSE since[s]]
    /\ disturbed' = disturbed \cup Q
    /\ UNCHANGED <<now, cache>>

Bearers(r) == {s \in Subjects : role[s] = r}
ChecksWith(r) == {q \in Requests : pc[q] = "fill" /\ seen[q] = r}
ChecksOf(s) == {q \in Requests : pc[q] \in {"role", "fill"} /\ who[q] = s}

\* A new role grants nothing.  Its id is new.
CreateRole(r) ==
    /\ r \notin issued
    /\ roles' = roles \cup {r} /\ issued' = issued \cup {r}
    /\ UNCHANGED <<now, users, role, grants, cache, requests, disturbed, since>>

\* The handler reads the role to see that there is one, and so does the write.
ConfigureRole(r, P) ==
    /\ r \in roles
    /\ grants' = [grants EXCEPT ![r] = P]
    /\ Change(Bearers(r), ChecksWith(r))
    /\ UNCHANGED <<users, role, roles, issued, requests>>

\* Nobody looks for users that have the role.
DeleteRole(r) ==
    /\ r \in roles
    /\ roles' = roles \ {r}
    /\ Change(Bearers(r), ChecksWith(r))
    /\ UNCHANGED <<users, role, issued, grants, requests>>

DeleteUser(s) ==
    /\ s \in users
    /\ users' = users \ {s}
    /\ Change({s}, ChecksOf(s))
    /\ UNCHANGED <<role, roles, issued, grants, requests>>

\* AttachRole reads the user and the role, and writes the user.
AttachRead(q, s, r) ==
    /\ pc[q] = "idle"
    /\ s \in users /\ r \in roles
    /\ who' = [who EXCEPT ![q] = s]
    /\ seen' = [seen EXCEPT ![q] = r]
    /\ Goto(q, "attach")
    /\ UNCHANGED <<now, records, cache, wants, policy, until, disturbed, since>>

AttachWrite(q) ==
    /\ pc[q] = "attach" /\ who[q] \in users
    /\ role' = [role EXCEPT ![who[q]] = seen[q]]
    /\ Change({who[q]}, ChecksOf(who[q]))
    /\ Goto(q, "idle")
    /\ seen' = [seen EXCEPT ![q] = NoRole]
    /\ UNCHANGED <<users, roles, issued, grants, who, wants, policy, until>>

Tick ==
    /\ now < MaxTime
    /\ now' = now + 1
    /\ UNCHANGED <<records, cache, requests, disturbed, since>>

-----------------------------------------------------------------------------
Check(q) ==
    \/ \E s \in Subjects, p \in Procedures : Hit(q, s, p) \/ Miss(q, s, p)
    \/ ReadUser(q) \/ ReadRole(q) \/ NotFound(q) \/ Fill(q) \/ Return(q)

Administer ==
    \/ \E r \in Roles :
          \/ CreateRole(r) \/ DeleteRole(r)
          \/ \E P \in SUBSET Procedures : ConfigureRole(r, P)
    \/ \E s \in Subjects : DeleteUser(s)
    \/ \E q \in Requests :
          \/ \E s \in Subjects, r \in Roles : AttachRead(q, s, r)
          \/ AttachWrite(q)

Next == (\E q \in Requests : Check(q)) \/ Administer \/ Tick

Spec == Init /\ [][Next]_vars

-----------------------------------------------------------------------------
(* Properties *)

\* A cached policy that differs from what the records grant ends within the
\* timeout of the change, or of the fill by a check that the change overtook:
\* using an entry never prolongs it, and no later check makes it outlive that.
StalePolicyEnds ==
    \A s \in Subjects :
        allowed[s] # Granted(s) => expires[s] <= since[s] + Timeout

\* So does a request that runs although its subject may no longer call it.
StaleRequestEnds ==
    \A q \in Requests :
        pc[q] = "running" /\ wants[q] \notin Granted(who[q]) =>
            until[q] <= since[who[q]] + Timeout

\* Grants take effect at once: a request is denied only if its subject lacks the
\* permission at that moment, or the records changed while the check read them.
DenialsAreCurrent ==
    [][\A q \in Requests :
          pc[q] # "denied" /\ pc'[q] = "denied" =>
              q \in disturbed \/ wants'[q] \notin Granted(who'[q])]_vars

=============================================================================
