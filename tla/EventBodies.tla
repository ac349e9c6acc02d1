----------------------------- MODULE EventBodies -----------------------------
(***************************************************************************)
(* What the SDK promises the author of an event: at most one body of it    *)
(* goes on at a time, a body belongs to its event until it returns, and a  *)
(* body that was told to stop is never told otherwise.  Nothing is         *)
(* promised about when a body that was told returns: it is a goroutine,    *)
(* and ends by itself or with the guest.                                   *)
(***************************************************************************)
CONSTANTS Names, NoName, Bodies

VARIABLES
    name,  \* the event of a body, NoName once it has returned
    told   \* bodies that were told to stop and have not returned

Init == name = [b \in Bodies |-> NoName] /\ told = {}

GoingOn(n) == {b \in Bodies : name[b] = n} \ told

Start(n, b) ==
    /\ GoingOn(n) = {} /\ name[b] = NoName
    /\ name' = [name EXCEPT ![b] = n]
    /\ UNCHANGED told

Tell(b) ==
    /\ name[b] # NoName
    /\ told' = told \cup {b}
    /\ UNCHANGED name

Return(b) ==
    /\ name' = [name EXCEPT ![b] = NoName]
    /\ told' = told \ {b}

\* The guest is over, and all its bodies with it.
Over == name' = [b \in Bodies |-> NoName] /\ told' = {}

Next ==
    \/ \E n \in Names, b \in Bodies : Start(n, b)
    \/ \E b \in Bodies : Tell(b) \/ Return(b)
    \/ Over

Spec == Init /\ [][Next]_<<name, told>>
=============================================================================
