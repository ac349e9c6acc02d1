--------------------------- MODULE IdentityProofs ---------------------------
(* Theorems about Identity. *)
EXTENDS Identity, TLAPS

USE IdentityAssumption

Registers(u) == pc[u] \in {"user", "creds"}

\* A request runs while the server is up, for the user that the creds name.
RequestsOK ==
    \A u \in Requests : pc[u] # "idle" =>
        /\ server = "up"
        /\ owner[mail[u]] = id[u]
        /\ given[u] \in issued
        /\ pc[u] = "create" => id[u] # Admin

AdminStands ==
    /\ adminRole
    /\ owner[AdminEmail] = Admin
    /\ active[AdminEmail] \/ code[AdminEmail] \in known

\* The administrator comes first, and keeps the email of the configuration.
BootOK ==
    /\ email[Admin] = AdminEmail
    /\ \A e \in Emails : owner[e] = Admin => e = AdminEmail
    /\ server # "down" => Admin \in users
    /\ Admin \notin users \/ server = "creds" =>
          users \subseteq {Admin} /\ \A e \in Emails : owner[e] = NoUser
    /\ server \in {"role", "print"} =>
          owner[AdminEmail] = Admin /\ code[AdminEmail] \in Codes
    /\ server = "print" => adminRole
    /\ Admin \in users /\ server \notin {"creds", "role", "print"} /\ ~torn => AdminStands

\* A code is for one email, and so is a registration that holds it.
CodesOK ==
    /\ used \subseteq issued
    /\ \A e \in Emails : code[e] \in issued \cup {NoCode}
    /\ \A e, f \in Emails : e # f => code[e] # code[f] \/ code[e] = NoCode
    /\ \A u \in Requests, e \in Emails :
          Registers(u) /\ e # mail[u] => code[e] # given[u]

\* Unless a reset came between, a registration holds the code handed out last.
LatestOK ==
    \A u \in Requests :
        Registers(u) /\ mail[u] \notin raced => latest[mail[u]] \in {given[u], NoCode}

IInv ==
    /\ TypeOK
    /\ RequestsOK
    /\ BootOK
    /\ CodesOK
    /\ LatestOK
    /\ UsersHaveCreds
    /\ CredsHaveUser
    /\ UsedCodesAreDead
    /\ LatestCodeWorks

LEMMA InitHolds == Init => IInv
<1> SUFFICES ASSUME Init PROVE IInv OBVIOUS
<1> USE DEF Init
<1>1. TypeOK BY DEF TypeOK
<1>2. RequestsOK /\ CodesOK /\ LatestOK BY DEF RequestsOK, CodesOK, LatestOK, Registers
<1>3. BootOK BY DEF BootOK
<1>4. UsersHaveCreds /\ CredsHaveUser BY DEF UsersHaveCreds, CredsHaveUser
<1>5. UsedCodesAreDead /\ LatestCodeWorks BY DEF UsedCodesAreDead, LatestCodeWorks
<1> QED BY <1>1, <1>2, <1>3, <1>4, <1>5 DEF IInv

-----------------------------------------------------------------------------
LEMMA StartUserKeeps ==
    ASSUME IInv, StartUser
    PROVE  IInv'
<1> USE DEF IInv, StartUser, creds, requests, history
<1>1. TypeOK' BY DEF TypeOK
<1>2. RequestsOK' BY DEF TypeOK, RequestsOK
<1>3. BootOK' BY DEF TypeOK, BootOK, AdminStands
<1>4. CodesOK' BY DEF TypeOK, CodesOK, Registers
<1>5. LatestOK' BY DEF TypeOK, LatestOK, Registers
<1>6. UsersHaveCreds' BY DEF TypeOK, UsersHaveCreds
<1>7. CredsHaveUser' BY DEF TypeOK, CredsHaveUser
<1>8. UsedCodesAreDead' BY DEF TypeOK, UsedCodesAreDead
<1>9. LatestCodeWorks' BY DEF TypeOK, LatestCodeWorks
<1> QED BY <1>1, <1>2, <1>3, <1>4, <1>5, <1>6, <1>7, <1>8, <1>9

LEMMA StartCredsKeeps ==
    ASSUME IInv, NEW c \in Codes, StartCreds(c)
    PROVE  IInv'
<1> USE DEF IInv, StartCreds, Invite, people, requests
<1>1. TypeOK' BY DEF TypeOK
<1>2. RequestsOK' BY DEF TypeOK, RequestsOK
<1>3. BootOK' BY DEF TypeOK, BootOK, AdminStands
<1>4. CodesOK' BY DEF TypeOK, CodesOK, Registers, RequestsOK
<1>5. LatestOK' BY DEF TypeOK, LatestOK, Registers, RequestsOK
<1>6. UsersHaveCreds' BY DEF TypeOK, UsersHaveCreds, BootOK
<1>7. CredsHaveUser' BY DEF TypeOK, CredsHaveUser, BootOK
<1>8. UsedCodesAreDead' BY DEF TypeOK, UsedCodesAreDead, CodesOK
<1>9. LatestCodeWorks' BY DEF TypeOK, LatestCodeWorks
<1> QED BY <1>1, <1>2, <1>3, <1>4, <1>5, <1>6, <1>7, <1>8, <1>9

LEMMA StartRoleKeeps ==
    ASSUME IInv, StartRole
    PROVE  IInv'
<1> USE DEF IInv, StartRole, creds, requests, history
<1>1. TypeOK' BY DEF TypeOK, BootOK
<1>2. RequestsOK' BY DEF TypeOK, RequestsOK
<1>3. BootOK' BY DEF TypeOK, BootOK, AdminStands
<1>4. CodesOK' BY DEF TypeOK, CodesOK, Registers
<1>5. LatestOK' BY DEF TypeOK, LatestOK, Registers
<1>6. UsersHaveCreds' BY DEF TypeOK, UsersHaveCreds
<1>7. CredsHaveUser' BY DEF TypeOK, CredsHaveUser
<1>8. UsedCodesAreDead' BY DEF TypeOK, UsedCodesAreDead
<1>9. LatestCodeWorks' BY DEF TypeOK, LatestCodeWorks
<1> QED BY <1>1, <1>2, <1>3, <1>4, <1>5, <1>6, <1>7, <1>8, <1>9

LEMMA PrintCodeKeeps ==
    ASSUME IInv, PrintCode
    PROVE  IInv'
<1> USE DEF IInv, PrintCode, creds, people, requests
<1>1. TypeOK' BY DEF TypeOK, BootOK
<1>2. RequestsOK' BY DEF TypeOK, RequestsOK
<1>3. BootOK' BY DEF TypeOK, BootOK, AdminStands
<1>4. CodesOK' BY DEF TypeOK, CodesOK, Registers
<1>5. LatestOK' BY DEF TypeOK, LatestOK, Registers
<1>6. UsersHaveCreds' BY DEF TypeOK, UsersHaveCreds
<1>7. CredsHaveUser' BY DEF TypeOK, CredsHaveUser
<1>8. UsedCodesAreDead' BY DEF TypeOK, UsedCodesAreDead
<1>9. LatestCodeWorks' BY DEF TypeOK, LatestCodeWorks
<1> QED BY <1>1, <1>2, <1>3, <1>4, <1>5, <1>6, <1>7, <1>8, <1>9

LEMMA CrashKeeps ==
    ASSUME IInv, Crash
    PROVE  IInv'
<1> USE DEF IInv, Crash, Unwritten, creds, people
<1>1. TypeOK' BY DEF TypeOK
<1>2. RequestsOK' BY DEF TypeOK, RequestsOK
<1>3. BootOK' BY DEF TypeOK, BootOK, AdminStands
<1>4. CodesOK' BY DEF TypeOK, CodesOK, Registers
<1>5. LatestOK' BY DEF TypeOK, LatestOK, Registers
<1>6. UsersHaveCreds' BY DEF TypeOK, UsersHaveCreds
<1>7. CredsHaveUser' BY DEF TypeOK, CredsHaveUser
<1>8. UsedCodesAreDead' BY DEF TypeOK, UsedCodesAreDead
<1>9. LatestCodeWorks' BY DEF TypeOK, LatestCodeWorks
<1> QED BY <1>1, <1>2, <1>3, <1>4, <1>5, <1>6, <1>7, <1>8, <1>9

LEMMA CreateCredsKeeps ==
    ASSUME IInv, NEW u \in Requests, NEW e \in Emails, NEW i \in Users,
           NEW c \in Codes, CreateCreds(u, e, i, c)
    PROVE  IInv'
<1> USE DEF IInv, CreateCreds, Invite, Begin
<1>1. TypeOK' BY DEF TypeOK
<1>2. RequestsOK' BY DEF TypeOK, RequestsOK
<1>3. BootOK' BY DEF TypeOK, BootOK, AdminStands
<1>4. CodesOK' BY DEF TypeOK, CodesOK, Registers, RequestsOK
<1>5. LatestOK' BY DEF TypeOK, LatestOK, Registers, RequestsOK
<1>6. UsersHaveCreds' BY DEF TypeOK, UsersHaveCreds
<1>7. CredsHaveUser' BY DEF TypeOK, CredsHaveUser
<1>8. UsedCodesAreDead' BY DEF TypeOK, UsedCodesAreDead, CodesOK
<1>9. LatestCodeWorks' BY DEF TypeOK, LatestCodeWorks
<1> QED BY <1>1, <1>2, <1>3, <1>4, <1>5, <1>6, <1>7, <1>8, <1>9

LEMMA CreateUserKeeps ==
    ASSUME IInv, NEW u \in Requests, CreateUser(u)
    PROVE  IInv'
<1> USE DEF IInv, CreateUser, Goto, creds
<1>1. TypeOK' BY DEF TypeOK
<1>2. RequestsOK' BY DEF TypeOK, RequestsOK
<1>3. BootOK' BY DEF TypeOK, BootOK, AdminStands, RequestsOK
<1>4. CodesOK' BY DEF TypeOK, CodesOK, Registers
<1>5. LatestOK' BY DEF TypeOK, LatestOK, Registers
<1>6. UsersHaveCreds' BY DEF TypeOK, UsersHaveCreds, RequestsOK
<1>7. CredsHaveUser' BY DEF TypeOK, CredsHaveUser
<1>8. UsedCodesAreDead' BY DEF TypeOK, UsedCodesAreDead
<1>9. LatestCodeWorks' BY DEF TypeOK, LatestCodeWorks
<1> QED BY <1>1, <1>2, <1>3, <1>4, <1>5, <1>6, <1>7, <1>8, <1>9

LEMMA ResetKeeps ==
    ASSUME IInv, NEW e \in Emails, NEW c \in Codes, ResetPassword(e, c)
    PROVE  IInv'
<1> USE DEF IInv, ResetPassword, people, requests
<1>1. TypeOK' BY DEF TypeOK
<1>2. RequestsOK' BY DEF TypeOK, RequestsOK
<1>3. BootOK' BY DEF TypeOK, BootOK, AdminStands
<1>4. CodesOK' BY DEF TypeOK, CodesOK, Registers, RequestsOK
<1>5. LatestOK' BY DEF TypeOK, LatestOK, Registers, Registering
<1>6. UsersHaveCreds' BY DEF TypeOK, UsersHaveCreds
<1>7. CredsHaveUser' BY DEF TypeOK, CredsHaveUser
<1>8. UsedCodesAreDead' BY DEF TypeOK, UsedCodesAreDead, CodesOK
<1>9. LatestCodeWorks' BY DEF TypeOK, LatestCodeWorks
<1> QED BY <1>1, <1>2, <1>3, <1>4, <1>5, <1>6, <1>7, <1>8, <1>9

LEMMA DeleteKeeps ==
    ASSUME IInv, NEW i \in Users, Delete(i)
    PROVE  IInv'
<1> USE DEF IInv, Delete, creds, requests
<1>1. TypeOK' BY DEF TypeOK
<1>2. RequestsOK' BY DEF TypeOK, RequestsOK
<1>3. BootOK' BY DEF TypeOK, BootOK, AdminStands
<1>4. CodesOK' BY DEF TypeOK, CodesOK, Registers
<1>5. LatestOK' BY DEF TypeOK, LatestOK, Registers
<1>6. UsersHaveCreds' BY DEF TypeOK, UsersHaveCreds
<1>7. CredsHaveUser' BY DEF TypeOK, CredsHaveUser
<1>8. UsedCodesAreDead' BY DEF TypeOK, UsedCodesAreDead
<1>9. LatestCodeWorks' BY DEF TypeOK, LatestCodeWorks
<1> QED BY <1>1, <1>2, <1>3, <1>4, <1>5, <1>6, <1>7, <1>8, <1>9

LEMMA RegisterReadKeeps ==
    ASSUME IInv, NEW u \in Requests, NEW e \in Emails, NEW c \in Codes,
           RegisterRead(u, e, c)
    PROVE  IInv'
<1> USE DEF IInv, RegisterRead, Begin, creds, people, history
<1>1. TypeOK' BY DEF TypeOK
<1>2. RequestsOK' BY DEF TypeOK, RequestsOK, CodesOK
<1>3. BootOK' BY DEF TypeOK, BootOK, AdminStands
<1>4. CodesOK' BY DEF TypeOK, CodesOK, Registers
<1>5. LatestOK' BY DEF TypeOK, LatestOK, Registers, LatestCodeWorks
<1>6. UsersHaveCreds' BY DEF TypeOK, UsersHaveCreds
<1>7. CredsHaveUser' BY DEF TypeOK, CredsHaveUser
<1>8. UsedCodesAreDead' BY DEF TypeOK, UsedCodesAreDead
<1>9. LatestCodeWorks' BY DEF TypeOK, LatestCodeWorks
<1> QED BY <1>1, <1>2, <1>3, <1>4, <1>5, <1>6, <1>7, <1>8, <1>9

LEMMA RegisterUserKeeps ==
    ASSUME IInv, NEW u \in Requests, RegisterUser(u)
    PROVE  IInv'
<1> USE DEF IInv, RegisterUser, Goto, creds, history
<1>1. TypeOK' BY DEF TypeOK
<1>2. RequestsOK' BY DEF TypeOK, RequestsOK
<1>3. BootOK' BY DEF TypeOK, BootOK, AdminStands, RequestsOK
<1>4. CodesOK' BY DEF TypeOK, CodesOK, Registers
<1>5. LatestOK' BY DEF TypeOK, LatestOK, Registers
<1>6. UsersHaveCreds' BY DEF TypeOK, UsersHaveCreds, RequestsOK
<1>7. CredsHaveUser' BY DEF TypeOK, CredsHaveUser
<1>8. UsedCodesAreDead' BY DEF TypeOK, UsedCodesAreDead
<1>9. LatestCodeWorks' BY DEF TypeOK, LatestCodeWorks
<1> QED BY <1>1, <1>2, <1>3, <1>4, <1>5, <1>6, <1>7, <1>8, <1>9

LEMMA RegisterCredsKeeps ==
    ASSUME IInv, NEW u \in Requests, RegisterCreds(u)
    PROVE  IInv'
<1> USE DEF IInv, RegisterCreds, Registered, Goto, people
<1>1. TypeOK' BY DEF TypeOK
<1>2. RequestsOK' BY DEF TypeOK, RequestsOK
<1>3. BootOK' BY DEF TypeOK, BootOK, AdminStands, RequestsOK
<1>4. CodesOK' BY DEF TypeOK, CodesOK, Registers, RequestsOK
<1>5. LatestOK' BY DEF TypeOK, LatestOK, Registers
<1>6. UsersHaveCreds' BY DEF TypeOK, UsersHaveCreds
<1>7. CredsHaveUser' BY DEF TypeOK, CredsHaveUser
<1>8. UsedCodesAreDead' BY DEF TypeOK, UsedCodesAreDead, CodesOK, Registers
<1>9. LatestCodeWorks' BY DEF TypeOK, LatestCodeWorks, LatestOK, Registers
<1> QED BY <1>1, <1>2, <1>3, <1>4, <1>5, <1>6, <1>7, <1>8, <1>9

LEMMA FailsKeeps ==
    ASSUME IInv, NEW u \in Requests, Fails(u)
    PROVE  IInv'
<1> USE DEF IInv, Fails, Unwritten, Goto, creds, people
<1>1. TypeOK' BY DEF TypeOK
<1>2. RequestsOK' BY DEF TypeOK, RequestsOK
<1>3. BootOK' BY DEF TypeOK, BootOK, AdminStands
<1>4. CodesOK' BY DEF TypeOK, CodesOK, Registers
<1>5. LatestOK' BY DEF TypeOK, LatestOK, Registers
<1>6. UsersHaveCreds' BY DEF TypeOK, UsersHaveCreds
<1>7. CredsHaveUser' BY DEF TypeOK, CredsHaveUser
<1>8. UsedCodesAreDead' BY DEF TypeOK, UsedCodesAreDead
<1>9. LatestCodeWorks' BY DEF TypeOK, LatestCodeWorks
<1> QED BY <1>1, <1>2, <1>3, <1>4, <1>5, <1>6, <1>7, <1>8, <1>9

-----------------------------------------------------------------------------
LEMMA StepKeeps == IInv /\ [Next]_vars => IInv'
<1> SUFFICES ASSUME IInv, [Next]_vars PROVE IInv' OBVIOUS
<1>1. CASE UNCHANGED vars
  BY <1>1 DEF vars, creds, people, requests, history, IInv, TypeOK, RequestsOK, BootOK,
     AdminStands, CodesOK, LatestOK, Registers, UsersHaveCreds, CredsHaveUser,
     UsedCodesAreDead, LatestCodeWorks
<1>2. CASE Start
  BY <1>2, StartUserKeeps, StartCredsKeeps, StartRoleKeeps, PrintCodeKeeps DEF Start
<1>3. CASE Crash BY <1>3, CrashKeeps
<1>4. ASSUME NEW u \in Requests, Serve(u) PROVE IInv'
  <2>1. CASE \E e \in Emails, c \in Codes : RegisterRead(u, e, c)
    BY <2>1, RegisterReadKeeps
  <2>2. CASE \E e \in Emails, c \in Codes, i \in Users : CreateCreds(u, e, i, c)
    BY <2>2, CreateCredsKeeps
  <2>3. CASE CreateUser(u) \/ RegisterUser(u) \/ RegisterCreds(u) \/ Fails(u)
    BY <2>3, CreateUserKeeps, RegisterUserKeeps, RegisterCredsKeeps, FailsKeeps
  <2> QED BY <1>4, <2>1, <2>2, <2>3 DEF Serve
<1>5. CASE \E e \in Emails, c \in Codes : ResetPassword(e, c) BY <1>5, ResetKeeps
<1>6. CASE \E i \in Users : Delete(i) BY <1>6, DeleteKeeps
<1> QED BY <1>1, <1>2, <1>3, <1>4, <1>5, <1>6 DEF Next

LEMMA Inductive == Spec => []IInv
BY InitHolds, StepKeeps, PTL DEF Spec

\* Every variable keeps its type.
THEOREM TypeCorrect == Spec => []TypeOK
BY Inductive, PTL DEF IInv

\* A user can be found from its creds, in spite of the two writes.
THEOREM UsersKeepCreds == Spec => []UsersHaveCreds
BY Inductive, PTL DEF IInv

\* Creds without a user are those of a user deleted or never written.
THEOREM CredsKeepUser == Spec => []CredsHaveUser
BY Inductive, PTL DEF IInv

\* Nobody registers by a code again once a registration with it has completed.
THEOREM UsedCodesStayDead == Spec => []UsedCodesAreDead
BY Inductive, PTL DEF IInv

\* A code that was handed out is not wiped by a registration that began later.
THEOREM LatestCodeStays == Spec => []LatestCodeWorks
BY Inductive, PTL DEF IInv

\* The server serves with its administrator complete, unless a start was cut short.
THEOREM AdministratorStays == Spec => []AdministratorComplete
<1>1. IInv => AdministratorComplete
  BY DEF IInv, BootOK, AdminStands, AdministratorComplete
<1> QED BY <1>1, Inductive, PTL

-----------------------------------------------------------------------------
(* The refinement of Invitations *)

\* A new code for an email supersedes the one it had; no code closes it.
LEMMA OpenAfter ==
    ASSUME TypeOK, NEW e \in Emails, NEW c \in Codes \cup {NoCode},
           code' = [code EXCEPT ![e] = c]
    PROVE  open' = Codebook!Others(e) \cup (IF c = NoCode THEN {} ELSE {<<e, c>>})
<1>1. \A f \in Emails : code'[f] = IF f = e THEN c ELSE code[f]
  BY DEF TypeOK
<1>2. open' = {<<f, code'[f]>> : f \in {g \in Emails : code'[g] # NoCode}}
  BY DEF open
<1>3. Codebook!Others(e) = {<<f, code[f]>> : f \in {g \in Emails \ {e} : code[g] # NoCode}}
  BY DEF Codebook!Others, open
<1>4. CASE c = NoCode BY <1>1, <1>2, <1>3, <1>4
<1>5. CASE c # NoCode BY <1>1, <1>2, <1>3, <1>5
<1> QED BY <1>4, <1>5

\* A step that leaves the registrations alone leaves the admissions.
LEMMA AdmittedStays ==
    ASSUME UNCHANGED requests
    PROVE  admitted' = admitted
<1> QED BY DEF admitted, requests

\* A fresh code is dealt.
LEMMA Deals ==
    ASSUME TypeOK, NEW e \in Emails, NEW c \in Codes, c \notin issued,
           code' = [code EXCEPT ![e] = c], issued' = issued \cup {c},
           admitted' = admitted, used' = used
    PROVE  Codebook!Next
<1>1. c # NoCode /\ open' = Codebook!Others(e) \cup {<<e, c>>}
  BY OpenAfter
<1>2. Codebook!Deal(e, c)
  BY <1>1 DEF Codebook!Deal
<1> QED BY <1>2 DEF Codebook!Next

\* A registration that compares its code is admitted by it.
LEMMA RegisterAdmits ==
    ASSUME IInv, NEW u \in Requests, NEW e \in Emails, NEW c \in Codes,
           RegisterRead(u, e, c)
    PROVE  Codebook!Next
<1> USE DEF RegisterRead, Begin
<1>1. UNCHANGED <<open, issued, used>>
  BY DEF open, creds, history
<1>2. admitted' = admitted \cup {<<e, c>>}
  <2>1. /\ pc' = [pc EXCEPT ![u] = "user"] /\ mail' = [mail EXCEPT ![u] = e]
        /\ given' = [given EXCEPT ![u] = c] /\ pc[u] = "idle"
    OBVIOUS
  <2>2. \A w \in Requests \ {u} :
           pc'[w] = pc[w] /\ mail'[w] = mail[w] /\ given'[w] = given[w]
    BY <2>1 DEF IInv, TypeOK
  <2>3. pc'[u] = "user" /\ mail'[u] = e /\ given'[u] = c
    BY <2>1 DEF IInv, TypeOK
  <2> QED BY <2>1, <2>2, <2>3 DEF admitted
<1>3. <<e, c>> \in open /\ c \notin used
  BY DEF open, IInv, UsedCodesAreDead
<1>4. Codebook!Admit(e, c)
  BY <1>1, <1>2, <1>3 DEF Codebook!Admit
<1> QED BY <1>4 DEF Codebook!Next

\* A request that ends takes its own admission with it, unless another has it too.
LEMMA AdmissionEnds ==
    ASSUME TypeOK, NEW u \in Requests, Goto(u, "idle")
    PROVE  admitted' \in {admitted, admitted \ {<<mail[u], given[u]>>}}
<1>1. /\ \A w \in Requests \ {u} : pc'[w] = pc[w]
      /\ pc'[u] = "idle" /\ mail' = mail /\ given' = given
  BY DEF Goto, TypeOK
<1>2. admitted' \subseteq admitted
  BY <1>1 DEF admitted
<1>3. \A a \in admitted : a # <<mail[u], given[u]>> => a \in admitted'
  BY <1>1 DEF admitted
<1> QED BY <1>2, <1>3

\* A registration that completes spends its code and closes the email.
LEMMA RegisterCompletes ==
    ASSUME IInv, NEW u \in Requests, RegisterCreds(u)
    PROVE  Codebook!Next
<1> USE DEF RegisterCreds, Registered
<1>1. mail[u] \in Emails /\ given[u] \in Codes
  BY DEF IInv, TypeOK
<1>2. <<mail[u], given[u]>> \in admitted
  BY DEF admitted
<1>3. open' = Codebook!Others(mail[u])
  <2>1. code' = [code EXCEPT ![mail[u]] = NoCode] /\ TypeOK
    BY DEF IInv
  <2>2. open' = Codebook!Others(mail[u])
                  \cup (IF NoCode = NoCode THEN {} ELSE {<<mail[u], NoCode>>})
    BY ONLY <1>1, <2>1, OpenAfter
  <2> QED BY <2>2
<1>4. admitted' \in {admitted, admitted \ {<<mail[u], given[u]>>}}
  BY AdmissionEnds DEF IInv
<1>5. Codebook!Complete(mail[u], given[u])
  BY <1>2, <1>3, <1>4 DEF Codebook!Complete
<1> QED BY <1>1, <1>5 DEF Codebook!Next

\* Steps that end requests only, or change neither codes nor registrations.
LEMMA Lapses ==
    ASSUME UNCHANGED <<code, issued, used>>, admitted' \subseteq admitted
    PROVE  Codebook!Next
<1>1. open' = open
  BY DEF open
<1> QED BY <1>1 DEF Codebook!Next, Codebook!Lapse

LEMMA StepImplementsInvitations ==
    IInv /\ [Next]_vars => [Codebook!Next]_<<open, admitted, issued, used>>
<1> SUFFICES ASSUME IInv, [Next]_vars
             PROVE  Codebook!Next \/ UNCHANGED <<open, admitted, issued, used>>
  OBVIOUS
<1> USE DEF creds, people, requests, history
<1>1. CASE UNCHANGED vars
  BY <1>1 DEF vars, open, admitted
<1>2. CASE StartUser \/ StartRole \/ PrintCode
  BY <1>2, AdmittedStays, Lapses DEF StartUser, StartRole, PrintCode
<1>3. ASSUME NEW c \in Codes, StartCreds(c) PROVE Codebook!Next
  BY <1>3, AdmittedStays, Deals DEF StartCreds, Invite, IInv
<1>4. CASE Crash
  <2>1. admitted' = {}
    BY <1>4 DEF Crash, admitted
  <2> QED BY <1>4, <2>1, Lapses DEF Crash
<1>5. ASSUME NEW u \in Requests, Serve(u) PROVE Codebook!Next
  <2>1. ASSUME NEW e \in Emails, NEW c \in Codes, RegisterRead(u, e, c)
        PROVE  Codebook!Next
    BY <2>1, RegisterAdmits
  <2>2. ASSUME NEW e \in Emails, NEW c \in Codes, NEW i \in Users,
               CreateCreds(u, e, i, c)
        PROVE  Codebook!Next
    <3>1. /\ \A w \in Requests \ {u} :
                pc'[w] = pc[w] /\ mail'[w] = mail[w] /\ given'[w] = given[w]
          /\ pc[u] = "idle" /\ pc'[u] = "create"
      BY <2>2 DEF CreateCreds, Begin, IInv, TypeOK
    <3>2. admitted' = admitted
      BY <3>1 DEF admitted
    <3> QED BY <2>2, <3>2, Deals DEF CreateCreds, Invite, IInv
  <2>3. CASE CreateUser(u)
    <3>1. admitted' = admitted
      BY <2>3 DEF CreateUser, Goto, admitted, IInv, TypeOK
    <3> QED BY <2>3, <3>1, Lapses DEF CreateUser
  <2>4. CASE RegisterUser(u)
    <3>1. admitted' = admitted
      BY <2>4 DEF RegisterUser, Goto, admitted, IInv, TypeOK
    <3> QED BY <2>4, <3>1, Lapses DEF RegisterUser
  <2>5. CASE RegisterCreds(u) BY <2>5, RegisterCompletes
  <2>6. CASE Fails(u)
    <3>1. admitted' \subseteq admitted
      BY <2>6, AdmissionEnds DEF Fails, IInv
    <3> QED BY <2>6, <3>1, Lapses DEF Fails
  <2> QED BY <1>5, <2>1, <2>2, <2>3, <2>4, <2>5, <2>6 DEF Serve
<1>6. ASSUME NEW e \in Emails, NEW c \in Codes, ResetPassword(e, c)
      PROVE  Codebook!Next
  BY <1>6, AdmittedStays, Deals DEF ResetPassword, IInv
<1>7. ASSUME NEW i \in Users, Delete(i) PROVE Codebook!Next
  BY <1>7, AdmittedStays, Lapses DEF Delete
<1> QED BY <1>1, <1>2, <1>3, <1>4, <1>5, <1>6, <1>7 DEF Next, Start

\* Identity keeps the promises of Invitations: a code lets in for one email, until
\* it is superseded or spent (Create, ResetPassword, Register, the bootstrap).
THEOREM IdentityImplementsInvitations == Spec => ImplementsInvitations
<1>1. Init => Codebook!Init
  BY DEF Init, Codebook!Init, open, admitted
<1>2. Spec => []IInv
  BY Inductive
<1> QED BY <1>1, <1>2, StepImplementsInvitations, PTL
        DEF Spec, ImplementsInvitations, Codebook!Spec

=============================================================================
