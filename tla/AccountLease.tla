---------------------------- MODULE AccountLease ----------------------------
(***************************************************************************)
(* What the account pool promises the challenges: an account is lent to    *)
(* one challenge at a time, until the challenge gives it back or its time  *)
(* is up.  An administrator may void an account; from then on nothing is   *)
(* promised about it.                                                      *)
(***************************************************************************)
CONSTANTS Accounts, Holders

VARIABLES
    leases,  \* pairs <<holder, account>>
    voided   \* accounts the promise no longer covers

Lent(a) == \E h \in Holders : <<h, a>> \in leases

Init == leases = {} /\ voided = {}

\* Lend a to h.
Grant(h, a) ==
    /\ ~Lent(a) \/ a \in voided
    /\ leases' = leases \cup {<<h, a>>}
    /\ UNCHANGED voided

\* Leases end: given back, run out (several at the same instant, perhaps), or
\* lost with the process.
End ==
    /\ leases' \subseteq leases
    /\ UNCHANGED voided

Void(a) ==
    /\ voided' = voided \cup {a}
    /\ UNCHANGED leases

Next ==
    \/ \E h \in Holders, a \in Accounts : Grant(h, a)
    \/ End
    \/ \E a \in Accounts : Void(a)

Spec == Init /\ [][Next]_<<leases, voided>>
=============================================================================
