------------------------------ MODULE Identity ------------------------------
(***************************************************************************)
(* A user is two records: User, under its id, and Creds, under the email,  *)
(* which names the user and holds an invitation code.  They are written    *)
(* one after the other by UserService.Create, by Register, and at the      *)
(* start of the server for the administrator (internal/bootstrap), whose   *)
(* role is a third record.  ResetPassword writes the creds, Delete the     *)
(* user.  Neither record carries an ETag.                                  *)
(*                                                                         *)
(* Passwords and profiles are left out; so is the expiry of a code, which  *)
(* is one more reason to refuse it.  Codes and user ids are fresh: random, *)
(* or from sortid.                                                         *)
(***************************************************************************)
EXTENDS Naturals

CONSTANTS
    Emails, AdminEmail,
    Users, Admin, NoUser,   \* user ids; Admin is "0"; NoUser marks missing creds
    Codes, NoCode,          \* invitation codes
    Requests,               \* slots for requests
    Faults                  \* which of "calls" (any may fail), "crash" may happen

ASSUME IdentityAssumption ==
    /\ AdminEmail \in Emails
    /\ Admin \in Users /\ NoUser \notin Users
    /\ NoCode \notin Codes

VARIABLES
    owner, active, code,   \* the Creds record of an email
    users, email,          \* the User records there are, and their emails
    adminRole,             \* whether the role of the administrator is there
    ids, issued,           \* the user ids and codes used so far
    server,                \* "down", "up", or what a start does next
    pc, mail, id, given,   \* of a request: where it is, its email, its user, its code
    (* history *)
    known,    \* codes handed to somebody
    used,     \* codes a registration was completed with
    latest,   \* the code handed out last for an email, until it is used
    raced,    \* emails whose creds were reset while a registration was under way
    lost,     \* users whose record was deleted, or never written
    torn      \* whether a start was cut short before its code was told

creds == <<owner, active, code>>
people == <<users, email, adminRole, ids>>
requests == <<pc, mail, id, given>>
history == <<known, used, latest, raced, lost, torn>>
vars == <<creds, people, issued, server, requests, history>>

TypeOK ==
    /\ owner \in [Emails -> Users \cup {NoUser}]
    /\ active \in [Emails -> BOOLEAN]
    /\ code \in [Emails -> Codes \cup {NoCode}]
    /\ users \subseteq Users
    /\ email \in [Users -> Emails]
    /\ adminRole \in BOOLEAN
    /\ ids \subseteq Users /\ issued \subseteq Codes
    /\ server \in {"down", "creds", "role", "print", "up"}
    /\ pc \in [Requests -> {"idle", "create", "user", "creds"}]
    /\ mail \in [Requests -> Emails]
    /\ id \in [Requests -> Users]
    /\ given \in [Requests -> Codes \cup {NoCode}]
    /\ \A u \in Requests : pc[u] # "idle" => given[u] \in Codes
    /\ known \subseteq Codes /\ used \subseteq Codes
    /\ latest \in [Emails -> Codes \cup {NoCode}]
    /\ raced \subseteq Emails /\ lost \subseteq Users
    /\ torn \in BOOLEAN

Init ==
    /\ owner = [e \in Emails |-> NoUser]
    /\ active = [e \in Emails |-> FALSE]
    /\ code = [e \in Emails |-> NoCode]
    /\ users = {}
    /\ email = [i \in Users |-> AdminEmail]
    /\ adminRole = FALSE
    /\ ids = {} /\ issued = {}
    /\ server = "down"
    /\ pc = [u \in Requests |-> "idle"]
    /\ mail = [u \in Requests |-> AdminEmail]
    /\ id = [u \in Requests |-> Admin]
    /\ given = [u \in Requests |-> NoCode]
    /\ known = {} /\ used = {}
    /\ latest = [e \in Emails |-> NoCode]
    /\ raced = {} /\ lost = {} /\ torn = FALSE

-----------------------------------------------------------------------------
\* The creds of e: they belong to i, and code c makes them active.
Invite(e, i, c) ==
    /\ owner' = [owner EXCEPT ![e] = i]
    /\ active' = [active EXCEPT ![e] = FALSE]
    /\ code' = [code EXCEPT ![e] = c]
    /\ issued' = issued \cup {c}

\* Request u begins: it has read, or written, the creds of e.
Begin(u, label, e, i, c) ==
    /\ server = "up" /\ pc[u] = "idle"
    /\ pc' = [pc EXCEPT ![u] = label]
    /\ mail' = [mail EXCEPT ![u] = e]
    /\ id' = [id EXCEPT ![u] = i]
    /\ given' = [given EXCEPT ![u] = c]

Goto(u, label) == pc' = [pc EXCEPT ![u] = label] /\ UNCHANGED <<mail, id, given>>

\* The registrations of e that have compared their code.
Registering(e) == {u \in Requests : pc[u] \in {"user", "creds"} /\ mail[u] = e}

-----------------------------------------------------------------------------
(* The start of the server: CreateAdministrator *)

\* The user is written first, and one that exists ends the bootstrap.
StartUser ==
    /\ server = "down"
    /\ users' = users \cup {Admin} /\ ids' = ids \cup {Admin}
    /\ server' = IF Admin \in users THEN "up" ELSE "creds"
    /\ UNCHANGED <<email, adminRole, creds, issued, requests, history>>

StartCreds(c) ==
    /\ server = "creds"
    /\ c \notin issued
    /\ Invite(AdminEmail, Admin, c)
    /\ server' = "role"
    /\ latest' = [latest EXCEPT ![AdminEmail] = c]
    /\ UNCHANGED <<people, requests, known, used, raced, lost, torn>>

StartRole ==
    /\ server = "role"
    /\ adminRole' = TRUE
    /\ server' = "print"
    /\ UNCHANGED <<creds, users, email, ids, issued, requests, history>>

\* Back in main, the code is printed, which is the only time that it is told.
PrintCode ==
    /\ server = "print"
    /\ server' = "up"
    /\ known' = known \cup {code[AdminEmail]}
    /\ UNCHANGED <<creds, people, issued, requests, used, latest, raced, lost, torn>>

\* What is lost when request u ends without a result: a user that was to come.
Unwritten(u) == IF pc[u] = "create" THEN {id[u]} ELSE {}

\* The server goes down, or does not come up.
Crash ==
    /\ "crash" \in Faults
    /\ server # "down"
    /\ server' = "down"
    /\ torn' = (torn \/ server # "up")
    /\ pc' = [u \in Requests |-> "idle"]
    /\ lost' = lost \cup UNION {Unwritten(u) : u \in Requests}
    /\ UNCHANGED <<creds, people, issued, mail, id, given, known, used, latest, raced>>

-----------------------------------------------------------------------------
(* UserService *)

\* Mutant of CreateCreds: creds that exist are written over.
PutCreds(u, e, i, c) ==
    /\ i \notin ids /\ c \notin issued
    /\ i # Admin
    /\ Invite(e, i, c)
    /\ ids' = ids \cup {i}
    /\ latest' = [latest EXCEPT ![e] = c]
    /\ Begin(u, "create", e, i, c)
    /\ UNCHANGED <<users, email, adminRole, server, known, used, raced, lost, torn>>

\* Create writes the creds, which must be new, then the user.
CreateCreds(u, e, i, c) ==
    /\ owner[e] = NoUser
    /\ i \notin ids /\ c \notin issued
    /\ i # Admin
    /\ Invite(e, i, c)
    /\ ids' = ids \cup {i}
    /\ latest' = [latest EXCEPT ![e] = c]
    /\ Begin(u, "create", e, i, c)
    /\ UNCHANGED <<users, email, adminRole, server, known, used, raced, lost, torn>>

\* Mutant of CreateUser: the user gets an id of its own.
CreateOtherUser(u) ==
    /\ pc[u] = "create"
    /\ \E i \in Users \ ids :
          /\ users' = users \cup {i} /\ ids' = ids \cup {i}
          /\ email' = [email EXCEPT ![i] = mail[u]]
    /\ Goto(u, "idle")
    /\ known' = known \cup {given[u]}
    /\ UNCHANGED <<creds, adminRole, issued, server, used, latest, raced, lost, torn>>

CreateUser(u) ==
    /\ pc[u] = "create"
    /\ users' = users \cup {id[u]}
    /\ email' = [email EXCEPT ![id[u]] = mail[u]]
    /\ Goto(u, "idle")
    /\ known' = known \cup {given[u]}
    /\ UNCHANGED <<creds, adminRole, ids, issued, server, used, latest, raced, lost,
                   torn>>

\* The creds are read, to see whether the caller may, and written; they are never
\* deleted, so that the read decides nothing here.
ResetPassword(e, c) ==
    /\ server = "up"
    /\ owner[e] # NoUser
    /\ c \notin issued
    /\ code' = [code EXCEPT ![e] = c]
    /\ issued' = issued \cup {c} /\ known' = known \cup {c}
    /\ latest' = [latest EXCEPT ![e] = c]
    /\ raced' = IF Registering(e) = {} THEN raced \ {e} ELSE raced \cup {e}
    /\ UNCHANGED <<owner, active, people, server, requests, used, lost, torn>>

\* Mutant of Delete: privileged users are not kept.
DeleteAny(i) ==
    /\ server = "up" /\ i \in users
    /\ users' = users \ {i} /\ lost' = lost \cup {i}
    /\ UNCHANGED <<creds, email, adminRole, ids, issued, server, requests, known, used,
                   latest, raced, torn>>

\* The user goes, its creds stay.
Delete(i) ==
    /\ server = "up" /\ i \in users
    /\ i # Admin
    /\ users' = users \ {i} /\ lost' = lost \cup {i}
    /\ UNCHANGED <<creds, email, adminRole, ids, issued, server, requests, known, used,
                   latest, raced, torn>>

-----------------------------------------------------------------------------
(* AuthService.Register *)

\* Mutant of RegisterRead: the code is not compared.
RegisterAnyhow(u, e, c) ==
    /\ owner[e] # NoUser
    /\ c \in known
    /\ Begin(u, "user", e, owner[e], c)
    /\ UNCHANGED <<creds, people, issued, server, history>>

\* The code of the request is compared with that of the creds.
RegisterRead(u, e, c) ==
    /\ owner[e] # NoUser
    /\ c \in known /\ c = code[e]
    /\ Begin(u, "user", e, owner[e], c)
    /\ UNCHANGED <<creds, people, issued, server, history>>

\* The user that the creds name must be there, and gets the email.
RegisterUser(u) ==
    /\ pc[u] = "user" /\ id[u] \in users
    /\ email' = [email EXCEPT ![id[u]] = mail[u]]
    /\ Goto(u, "creds")
    /\ UNCHANGED <<creds, users, adminRole, ids, issued, server, history>>

Registered(u) ==
    /\ pc[u] = "creds"
    /\ active' = [active EXCEPT ![mail[u]] = TRUE]
    /\ used' = used \cup {given[u]}
    /\ latest' = IF latest[mail[u]] = given[u]
                 THEN [latest EXCEPT ![mail[u]] = NoCode] ELSE latest
    /\ Goto(u, "idle")
    /\ UNCHANGED <<owner, people, issued, server, known, raced, lost, torn>>

\* Mutant of RegisterCreds: the code stays.
RegisterKeepsCode(u) == Registered(u) /\ UNCHANGED code

\* The password is set and the code is cleared, whichever it is by now.
RegisterCreds(u) == Registered(u) /\ code' = [code EXCEPT ![mail[u]] = NoCode]

\* A call fails, or the user is gone.
Fails(u) ==
    /\ \/ "calls" \in Faults /\ pc[u] # "idle"
       \/ pc[u] = "user" /\ id[u] \notin users
    /\ Goto(u, "idle")
    /\ lost' = lost \cup Unwritten(u)
    /\ UNCHANGED <<creds, people, issued, server, known, used, latest, raced, torn>>

-----------------------------------------------------------------------------
Start == StartUser \/ StartRole \/ PrintCode \/ \E c \in Codes : StartCreds(c)

Serve(u) ==
    \/ \E e \in Emails, c \in Codes :
          RegisterRead(u, e, c) \/ \E i \in Users : CreateCreds(u, e, i, c)
    \/ CreateUser(u) \/ RegisterUser(u) \/ RegisterCreds(u) \/ Fails(u)

Next ==
    \/ Start
    \/ Crash
    \/ \E u \in Requests : Serve(u)
    \/ \E e \in Emails, c \in Codes : ResetPassword(e, c)
    \/ \E i \in Users : Delete(i)

Spec == Init /\ [][Next]_vars

-----------------------------------------------------------------------------
(* Properties *)

\* Every user has creds under its email that name it, but for an administrator
\* whose bootstrap goes on or was cut short.
UsersHaveCreds ==
    \A i \in users :
        \/ owner[email[i]] = i
        \/ i = Admin /\ (server = "creds" \/ torn)

\* Creds name a user that exists, unless it is about to be written, was deleted,
\* or its Create failed halfway; then nobody can be invited under the email again.
CredsHaveUser ==
    \A e \in Emails :
        owner[e] # NoUser =>
            \/ owner[e] \in users \cup lost
            \/ \E u \in Requests : pc[u] = "create" /\ id[u] = owner[e]

\* A code that somebody has registered with is dead: no later registration gets in
\* by it, however registrations and resets overlapped.
UsedCodesAreDead == \A e \in Emails : code[e] \notin used

\* The code handed out last works until it is used; only a registration that was
\* under way when it was handed out can wipe it.
LatestCodeWorks ==
    \A e \in Emails \ raced : latest[e] # NoCode => code[e] = latest[e]

\* Once the server is up, its administrator has a user, a role and creds, and is
\* registered or somebody has the code to do so, unless a start was cut short.
AdministratorComplete ==
    server = "up" /\ ~torn =>
        /\ Admin \in users /\ adminRole
        /\ owner[AdminEmail] = Admin
        /\ active[AdminEmail] \/ code[AdminEmail] \in known

\* The codes that work, and those registrations under way have passed with.
open == {<<e, code[e]>> : e \in {f \in Emails : code[f] # NoCode}}
admitted ==
    {<<mail[u], given[u]>> : u \in {w \in Requests : pc[w] \in {"user", "creds"}}}

Codebook == INSTANCE Invitations WITH dealt <- issued, spent <- used

\* Every step of the code deals, admits, completes or drops invitations as
\* Invitations allows, or leaves them alone.
ImplementsInvitations == Codebook!Spec

=============================================================================
