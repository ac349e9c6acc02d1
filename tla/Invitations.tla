---------------------------- MODULE Invitations ----------------------------
(***************************************************************************)
(* What identity promises about invitation codes: a code is dealt once,    *)
(* for one email; the code dealt last for an email is the only one that    *)
(* lets anybody in under it; and a code that was spent lets nobody in      *)
(* again.  Who was let in before the code was spent, or was replaced by    *)
(* another, may still complete, and closes whatever code is open for the   *)
(* email by then.                                                          *)
(***************************************************************************)
CONSTANTS Emails, Codes

VARIABLES
    open,      \* pairs <<email, code>> that let somebody in
    admitted,  \* pairs somebody was let in by and has yet to complete with
    dealt,     \* codes dealt so far
    spent      \* codes somebody completed with

Init == open = {} /\ admitted = {} /\ dealt = {} /\ spent = {}

\* The pairs of other emails.
Others(e) == {o \in open : o[1] # e}

Deal(e, c) ==
    /\ c \notin dealt
    /\ dealt' = dealt \cup {c}
    /\ open' = Others(e) \cup {<<e, c>>}
    /\ UNCHANGED <<admitted, spent>>

Admit(e, c) ==
    /\ <<e, c>> \in open /\ c \notin spent
    /\ admitted' = admitted \cup {<<e, c>>}
    /\ UNCHANGED <<open, dealt, spent>>

\* Somebody else may have been let in by the same code and still be under way.
Complete(e, c) ==
    /\ <<e, c>> \in admitted
    /\ spent' = spent \cup {c}
    /\ open' = Others(e)
    /\ admitted' \in {admitted, admitted \ {<<e, c>>}}
    /\ UNCHANGED dealt

\* Some who were let in give up, or are lost with the process.
Lapse ==
    /\ admitted' \subseteq admitted
    /\ UNCHANGED <<open, dealt, spent>>

Next ==
    \/ \E e \in Emails, c \in Codes : Deal(e, c) \/ Admit(e, c) \/ Complete(e, c)
    \/ Lapse

Spec == Init /\ [][Next]_<<open, admitted, dealt, spent>>
=============================================================================
