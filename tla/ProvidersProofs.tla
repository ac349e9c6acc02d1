--------------------------- MODULE ProvidersProofs ---------------------------
(* Theorems about Providers, for every value of its constants. *)
EXTENDS Providers, TLAPS

-----------------------------------------------------------------------------
(* The inductive invariant *)

\* Nothing is known of a provider id that was not issued.
IssuedOnly ==
    \A p \in Providers \ issued :
        /\ ~Exists(p) /\ cached[p] = NoClient
        /\ \A u \in Handlers : of[u] # p

\* Who is going to load has read a record.
SeenIsReal ==
    \A u \in Handlers :
        pc[u] \in {"bust", "load"} \/ At(u, "account", "write") => seen[u] # 0

\* What is cached was built.
CachedIsBuilt ==
    \A p \in Providers : cached[p] # NoClient => built[cached[p]] # 0

\* A Delete that is about to remove its provider knows of all its accounts but
\* the late ones.
DeletersLook ==
    \A u \in Handlers, a \in accounts :
        At(u, "delete", "write") /\ owner[a] = of[u] => a \in late

IInv ==
    /\ TypeOK
    /\ IssuedOnly /\ SeenIsReal /\ CachedIsBuilt /\ CacheFollowsRecord
    /\ DeletersLook /\ OrphansAreLate

-----------------------------------------------------------------------------
(* Types *)

LEMMA InitIInv == Init => IInv
<1> QED BY ProvidersAssumption DEF Init, IInv, TypeOK, Kinds, Writers, IssuedOnly,
           SeenIsReal, CachedIsBuilt, CacheFollowsRecord, DeletersLook,
           OrphansAreLate, Exists, At

\* A handler that returns keeps the types of the slots.
SlotTypes ==
    /\ pc \in [Handlers -> {"idle", "write", "refetch", "bust", "load",
                            "loaded", "prepared", "running"}]
    /\ kind \in [Handlers -> Kinds]
    /\ of \in [Handlers -> Providers \cup {NoProvider}]
    /\ \A u \in Handlers : pc[u] # "idle" => of[u] \in Providers
    /\ seen \in [Handlers -> Nat]
    /\ on \in [Handlers -> Accounts \cup {NoAccount}]
    /\ client \in [Handlers -> Clients \cup {NoClient}]
    /\ \A u \in Handlers :
          /\ pc[u] \in {"loaded", "prepared"} => client[u] \in Clients
          /\ pc[u] \in {"load", "loaded"} /\ kind[u] \in Exclusive =>
                on[u] \in Accounts
    /\ assets \in [Handlers -> Accounts \cup {NoAccount}]

StoreTypes ==
    /\ version \in [Providers -> Nat]
    /\ issued \subseteq Providers
    /\ owner \in [Accounts -> Providers \cup {NoProvider}]
    /\ accounts \subseteq Accounts
    /\ \A a \in accounts : owner[a] \in Providers
    /\ cached \in [Providers -> Clients \cup {NoClient}]
    /\ built \in [Clients -> Nat]
    /\ bucket \in [Clients -> Accounts \cup {NoAccount}]
    /\ guarded \subseteq Providers
    /\ behind \subseteq Providers /\ late \subseteq Accounts

LEMMA TypesSplit == TypeOK <=> SlotTypes /\ StoreTypes
<1> QED BY DEF TypeOK, SlotTypes, StoreTypes

LEMMA FinishTypes ==
    ASSUME SlotTypes, NEW u \in Handlers, Finish(u)
    PROVE  SlotTypes'
<1> QED BY DEF SlotTypes, Finish, Kinds, Writers

LEMMA BeginTypes ==
    ASSUME SlotTypes, NEW u \in Handlers, NEW k \in Kinds,
           NEW label \in {"write", "refetch", "load"}, NEW p \in Providers,
           NEW v \in Nat, NEW a \in Accounts \cup {NoAccount},
           k \in Exclusive /\ label = "load" => a \in Accounts,
           Begin(u, k, label, p, v, a)
    PROVE  SlotTypes'
<1> QED BY DEF SlotTypes, Begin

LEMMA GotoTypes ==
    ASSUME SlotTypes, NEW u \in Handlers,
           NEW label \in {"refetch", "bust", "load", "prepared", "running"},
           label = "load" => kind[u] \notin Exclusive,
           label = "prepared" => client[u] \in Clients,
           pc[u] # "idle",
           Goto(u, label), UNCHANGED <<seen, client, assets>>
    PROVE  SlotTypes'
<1> QED BY DEF SlotTypes, Goto

LEMMA LoadedTypes ==
    ASSUME SlotTypes, NEW u \in Handlers, pc[u] = "load", NEW i \in Clients,
           Loaded(u, i)
    PROVE  SlotTypes'
<1>1. CASE kind[u] \in Exclusive /\ Free(u, on[u])
  BY <1>1 DEF SlotTypes, Loaded, Goto
<1>2. CASE ~(kind[u] \in Exclusive /\ Free(u, on[u]))
  BY <1>2, FinishTypes DEF Loaded
<1> QED BY <1>1, <1>2

\* Every step keeps the types.
LEMMA StepTypeOK == TypeOK /\ [Next]_vars => TypeOK'
<1> SUFFICES ASSUME TypeOK, [Next]_vars PROVE TypeOK'
  OBVIOUS
<1> SUFFICES SlotTypes' /\ StoreTypes'
  BY DEF TypeOK, SlotTypes, StoreTypes
<1>0. SlotTypes /\ StoreTypes
  BY TypesSplit
<1> USE ProvidersAssumption, <1>0 DEF records, cache
<1>1. ASSUME NEW u \in Handlers, Administer(u) PROVE SlotTypes' /\ StoreTypes'
  <2>1. ASSUME NEW p \in Providers, CreateRecord(u, p)
        PROVE  SlotTypes' /\ StoreTypes'
    <3>1. SlotTypes'
      BY <2>1, BeginTypes DEF CreateRecord, Kinds, Writers, Exclusive
    <3> QED BY <2>1, <3>1 DEF CreateRecord, Begin, StoreTypes
  <2>2. ASSUME NEW p \in Providers, UpdateRead(u, p) \/ DeleteQuery(u, p)
        PROVE  SlotTypes' /\ StoreTypes'
    <3>1. version[p] \in Nat
      BY DEF StoreTypes
    <3>2. SlotTypes'
      BY <2>2, <3>1, BeginTypes
         DEF UpdateRead, DeleteQuery, Kinds, Writers, Exclusive
    <3> QED BY <2>2, <3>2 DEF UpdateRead, DeleteQuery, Begin, StoreTypes
  <2>3. CASE CreateFetch(u) \/ UpdateFetch(u)
    <3>1. of[u] \in Providers /\ version[of[u]] \in Nat
      BY <2>3 DEF CreateFetch, UpdateFetch, At, SlotTypes, StoreTypes
    <3>2. SlotTypes'
      BY <2>3, <3>1
         DEF CreateFetch, UpdateFetch, Fetch, At, Goto, SlotTypes, Exclusive
    <3> QED BY <2>3, <3>2 DEF CreateFetch, UpdateFetch, Fetch, StoreTypes
  <2>4. CASE UpdateWrite(u)
    <3>1. of[u] \in Providers /\ pc[u] # "idle"
      BY <2>4 DEF UpdateWrite, At, SlotTypes
    <3>2. SlotTypes'
      BY <2>4, <3>1, GotoTypes DEF UpdateWrite
    <3>3. version' \in [Providers -> Nat]
      BY <2>4, <3>1 DEF UpdateWrite, StoreTypes
    <3> QED BY <2>4, <3>2, <3>3 DEF UpdateWrite, StoreTypes
  <2>5. CASE Bust(u)
    <3>1. pc[u] # "idle" /\ kind[u] \notin Exclusive
      BY <2>5 DEF Bust, At, Exclusive
    <3>2. SlotTypes'
      BY <2>5, <3>1, GotoTypes DEF Bust
    <3> QED BY <2>5, <3>2 DEF Bust, StoreTypes
  <2>6. CASE DeleteWrite(u)
    BY <2>6, FinishTypes DEF DeleteWrite, StoreTypes
  <2> QED BY <1>1, <2>1, <2>2, <2>3, <2>4, <2>5, <2>6 DEF Administer
<1>2. ASSUME NEW u \in Handlers, Work(u) PROVE SlotTypes' /\ StoreTypes'
  <2>1. ASSUME NEW p \in Providers, AccountRead(u, p)
        PROVE  SlotTypes' /\ StoreTypes'
    <3>1. version[p] \in Nat
      BY DEF StoreTypes
    <3>2. SlotTypes'
      BY <2>1, <3>1, BeginTypes DEF AccountRead, Kinds, Exclusive
    <3> QED BY <2>1, <3>2 DEF AccountRead, Begin, StoreTypes
  <2>2. ASSUME NEW a \in Accounts, AccountCreate(u, a)
        PROVE  SlotTypes' /\ StoreTypes'
    <3>1. of[u] \in Providers
      BY <2>2 DEF AccountCreate, At, SlotTypes
    <3>2. SlotTypes'
      BY <2>2 DEF AccountCreate, At, SlotTypes
    <3> QED BY <2>2, <3>1, <3>2 DEF AccountCreate, StoreTypes
  <2>3. ASSUME NEW a \in Accounts, NEW k \in Kinds, Read(u, k, a)
        PROVE  SlotTypes' /\ StoreTypes'
    <3>1. owner[a] \in Providers /\ version[owner[a]] \in Nat
      BY <2>3 DEF Read, StoreTypes
    <3>2. SlotTypes'
      BY <2>3, <3>1, BeginTypes DEF Read
    <3> QED BY <2>3, <3>2 DEF Read, Begin, StoreTypes
  <2>4. ASSUME NEW a \in Accounts,
               \/ ResetRead(u, a) \/ RemoveRead(u, a)
               \/ StartRead(u, a) \/ CredentialsRead(u, a)
        PROVE  SlotTypes' /\ StoreTypes'
    BY <2>3, <2>4 DEF ResetRead, RemoveRead, StartRead, CredentialsRead, Kinds,
                      Exclusive
  <2>5. ASSUME NoteBucket(u) PROVE bucket' \in [Clients -> Accounts \cup {NoAccount}]
    BY <2>5 DEF NoteBucket, SlotTypes, StoreTypes, Exclusive
  <2>6. CASE Prepare(u)
    <3>1. client[u] \in Clients /\ pc[u] # "idle"
      BY <2>6 DEF Prepare, NoteBucket, SlotTypes
    <3>2. SlotTypes'
      BY <2>6, <3>1, FinishTypes, GotoTypes DEF Prepare
    <3> QED BY <2>5, <2>6, <3>2 DEF Prepare, StoreTypes
  <2>7. CASE PrepareFails(u)
    BY <2>5, <2>7, FinishTypes DEF PrepareFails, StoreTypes
  <2>8. CASE Assets(u)
    <3>1. bucket[client[u]] \in Accounts \cup {NoAccount}
      BY <2>8 DEF Assets, SlotTypes, StoreTypes
    <3>2. SlotTypes'
      BY <2>8, <3>1 DEF Assets, Goto, SlotTypes
    <3> QED BY <2>8, <3>2 DEF Assets, StoreTypes
  <2>9. CASE StartEnds(u) \/ Remove(u)
    BY <2>9, FinishTypes DEF StartEnds, Remove, StoreTypes
  <2> QED BY <1>2, <2>1, <2>2, <2>4, <2>6, <2>7, <2>8, <2>9 DEF Work
<1>3. ASSUME NEW u \in Handlers, Load(u) PROVE SlotTypes' /\ StoreTypes'
  <2>1. ASSUME pc[u] = "load" PROVE of[u] \in Providers /\ seen[u] \in Nat
    BY <2>1 DEF SlotTypes
  <2>2. CASE LoadHit(u)
    <3>1. cached[of[u]] \in Clients
      BY <2>1, <2>2 DEF LoadHit, StoreTypes
    <3> QED BY <2>2, <3>1, LoadedTypes DEF LoadHit, StoreTypes
  <2>3. CASE LoadFirst(u)
    BY <2>1, <2>3, FinishTypes DEF LoadFirst, StoreTypes
  <2>4. ASSUME NEW i \in Clients, LoadFill(u, i) PROVE SlotTypes' /\ StoreTypes'
    <3>1. SlotTypes'
      BY <2>4, LoadedTypes DEF LoadFill
    <3>2. behind' \subseteq Providers
      BY <2>1, <2>4 DEF LoadFill, StoreTypes
    <3> QED BY <2>1, <2>4, <3>1, <3>2 DEF LoadFill, StoreTypes
  <2> QED BY <1>3, <2>2, <2>3, <2>4 DEF Load
<1>4. ASSUME NEW u \in Handlers, Abandon(u) PROVE SlotTypes' /\ StoreTypes'
  <2>1. behind' \subseteq Providers
    BY <1>4 DEF Abandon, At, SlotTypes, StoreTypes
  <2> QED BY <1>4, <2>1, FinishTypes DEF Abandon, StoreTypes
<1>5. ASSUME NEW a \in Accounts, ForceRemove(a) PROVE SlotTypes' /\ StoreTypes'
  BY <1>5 DEF ForceRemove, slots, SlotTypes, StoreTypes
<1>6. CASE Restart
  BY <1>6 DEF Restart, SlotTypes, StoreTypes, Kinds, Writers
<1>7. CASE UNCHANGED vars
  BY <1>7 DEF vars, slots, SlotTypes, StoreTypes
<1> QED BY <1>1, <1>2, <1>3, <1>4, <1>5, <1>6, <1>7 DEF Next

\* The types of the model are kept (every variable of Providers).
THEOREM TypeCorrect == Spec => []TypeOK
<1>1. Init => TypeOK
  BY InitIInv DEF IInv
<1> QED BY <1>1, StepTypeOK, PTL DEF Spec

-----------------------------------------------------------------------------
(* Records and cache *)

Rest == IssuedOnly /\ SeenIsReal /\ CachedIsBuilt /\ CacheFollowsRecord
            /\ DeletersLook /\ OrphansAreLate

LEMMA IInvIs == IInv <=> TypeOK /\ Rest
<1> QED BY DEF IInv, Rest

\* The slots of all handlers but u are as before.
OthersStay(u) ==
    \A w \in Handlers \ {u} :
        pc'[w] = pc[w] /\ kind'[w] = kind[w] /\ of'[w] = of[w] /\ seen'[w] = seen[w]

\* Handler u is idle in the next state.
Idles(u) == pc'[u] = "idle" /\ of'[u] = NoProvider /\ kind'[u] = "create"

LEMMA FinishIdles ==
    ASSUME SlotTypes, NEW u \in Handlers, Finish(u)
    PROVE  Idles(u) /\ OthersStay(u)
<1> QED BY DEF SlotTypes, Finish, Idles, OthersStay

\* A step of handler u that writes no record and leaves the cache alone.
LEMMA QuietStep ==
    ASSUME TypeOK, Rest, NEW u \in Handlers, OthersStay(u),
           UNCHANGED <<version, issued, owner, accounts, cached, built, late>>,
           behind \subseteq behind',
           of'[u] \in issued \cup {NoProvider},
           pc'[u] \in {"bust", "load"} \/ (pc'[u] = "write" /\ kind'[u] = "account") =>
              seen'[u] # 0,
           kind[u] = "update" /\ pc[u] \in {"refetch", "bust"} =>
              \/ kind'[u] = "update" /\ pc'[u] \in {"refetch", "bust"} /\ of'[u] = of[u]
              \/ of[u] \in behind' \/ ~Exists(of[u]),
           pc'[u] = "write" /\ kind'[u] = "delete" => ~HasAccounts(of'[u])
    PROVE  Rest'
<1> USE ProvidersAssumption DEF Rest, OthersStay, Exists
<1>1. IssuedOnly'
  BY DEF IssuedOnly
<1>2. SeenIsReal'
  BY DEF SeenIsReal, At
<1>3. CachedIsBuilt'
  BY DEF CachedIsBuilt
<1>4. CacheFollowsRecord'
  <2> SUFFICES ASSUME NEW p \in Providers, cached'[p] # NoClient, version'[p] # 0,
                      built'[cached'[p]] # version'[p], p \notin behind'
               PROVE  BustComes(p)'
    BY DEF CacheFollowsRecord
  <2>1. BustComes(p)
    BY DEF CacheFollowsRecord
  <2>2. PICK w \in Handlers :
           kind[w] = "update" /\ pc[w] \in {"refetch", "bust"} /\ of[w] = p
    BY <2>1 DEF BustComes
  <2>3. kind'[w] = "update" /\ pc'[w] \in {"refetch", "bust"} /\ of'[w] = p
    BY <2>2
  <2> QED BY <2>3 DEF BustComes
<1>5. DeletersLook'
  BY DEF DeletersLook, At, HasAccounts
<1>6. OrphansAreLate'
  BY DEF OrphansAreLate
<1> QED BY <1>1, <1>2, <1>3, <1>4, <1>5, <1>6

\* A handler that returns without having written anything.
LEMMA QuietReturn ==
    ASSUME TypeOK, Rest, NEW u \in Handlers, Finish(u),
           UNCHANGED <<version, issued, owner, accounts, cached, built, late>>,
           behind \subseteq behind',
           kind[u] = "update" /\ pc[u] \in {"refetch", "bust"} =>
              of[u] \in behind' \/ ~Exists(of[u])
    PROVE  Rest'
<1>1. Idles(u) /\ OthersStay(u)
  BY FinishIdles, TypesSplit
<1> QED BY <1>1, QuietStep DEF Idles

\* A handler that begins.
LEMMA QuietBegin ==
    ASSUME TypeOK, Rest, NEW u \in Handlers, NEW k, NEW label, NEW p \in issued,
           NEW v, NEW a, Begin(u, k, label, p, v, a), UNCHANGED <<records, behind>>,
           label \in {"bust", "load"} \/ (label = "write" /\ k = "account") => v # 0,
           label = "write" /\ k = "delete" => ~HasAccounts(p)
    PROVE  Rest'
<1>1. /\ OthersStay(u)
      /\ pc[u] = "idle" /\ pc'[u] = label /\ kind'[u] = k /\ of'[u] = p
      /\ seen'[u] = v
      /\ UNCHANGED <<version, issued, owner, accounts, cached, built, behind, late>>
  BY DEF TypeOK, Begin, OthersStay, records, cache
<1> QED BY <1>1, QuietStep

\* Who is not idle works on a provider that was issued.
LEMMA OfIssued ==
    ASSUME TypeOK, Rest, NEW u \in Handlers, pc[u] # "idle"
    PROVE  of[u] \in issued
<1> QED BY DEF TypeOK, Rest, IssuedOnly

LEMMA LoadedSlots ==
    ASSUME SlotTypes, NEW u \in Handlers, pc[u] = "load", NEW i, Loaded(u, i)
    PROVE  /\ OthersStay(u)
           /\ pc'[u] \in {"idle", "loaded"}
           /\ of'[u] \in {of[u], NoProvider}
<1>1. CASE kind[u] \in Exclusive /\ Free(u, on[u])
  BY <1>1 DEF SlotTypes, Loaded, Goto, OthersStay
<1>2. CASE ~(kind[u] \in Exclusive /\ Free(u, on[u]))
  <2>1. Idles(u) /\ OthersStay(u)
    BY <1>2, FinishIdles DEF Loaded
  <2> QED BY <2>1 DEF Idles
<1> QED BY <1>1, <1>2

-----------------------------------------------------------------------------
(* The steps that write records or the cache *)

LEMMA CreateRecordRest ==
    ASSUME TypeOK, Rest, NEW u \in Handlers, NEW p \in Providers,
           CreateRecord(u, p)
    PROVE  Rest'
<1> USE ProvidersAssumption DEF Exists
<1>1. /\ version' = [version EXCEPT ![p] = 1] /\ issued' = issued \cup {p}
      /\ version[p] = 0 /\ cached[p] = NoClient /\ p \notin issued
      /\ UNCHANGED <<owner, accounts, behind, cached, built, late>>
      /\ OthersStay(u) /\ pc[u] = "idle"
      /\ pc'[u] = "refetch" /\ kind'[u] = "create" /\ of'[u] = p
  BY DEF CreateRecord, Begin, Rest, IssuedOnly, TypeOK, cache, OthersStay
<1>2. IssuedOnly'
  BY <1>1 DEF Rest, IssuedOnly, OthersStay, TypeOK
<1>3. SeenIsReal'
  BY <1>1 DEF Rest, SeenIsReal, OthersStay, At
<1>4. CachedIsBuilt'
  BY <1>1 DEF Rest, CachedIsBuilt
<1>5. CacheFollowsRecord'
  BY <1>1 DEF Rest, CacheFollowsRecord, BustComes, OthersStay, TypeOK
<1>6. DeletersLook'
  BY <1>1 DEF Rest, DeletersLook, OthersStay, At
<1>7. OrphansAreLate'
  BY <1>1 DEF Rest, OrphansAreLate, TypeOK
<1> QED BY <1>2, <1>3, <1>4, <1>5, <1>6, <1>7 DEF Rest

LEMMA UpdateWriteRest ==
    ASSUME TypeOK, Rest, NEW u \in Handlers, UpdateWrite(u)
    PROVE  Rest'
<1> USE ProvidersAssumption DEF Exists
<1>0. of[u] \in issued /\ of[u] \in Providers
  BY OfIssued DEF UpdateWrite, At, TypeOK
<1>1. /\ version' = [version EXCEPT ![of[u]] = @ + 1]
      /\ UNCHANGED <<issued, owner, accounts, behind, cached, built, late, of>>
      /\ OthersStay(u)
      /\ pc'[u] = "refetch" /\ kind'[u] = "update" /\ of'[u] = of[u]
  BY DEF UpdateWrite, At, Goto, TypeOK, cache, OthersStay
<1>2. \A p \in Providers : version'[p] = version[p] \/ p = of[u]
  BY <1>1 DEF TypeOK
<1>3. version'[of[u]] # 0
  BY <1>0, <1>1 DEF TypeOK
<1>4. IssuedOnly'
  BY <1>0, <1>1, <1>2 DEF Rest, IssuedOnly
<1>5. SeenIsReal'
  BY <1>1 DEF Rest, SeenIsReal, OthersStay, At
<1>6. CachedIsBuilt'
  BY <1>1 DEF Rest, CachedIsBuilt
<1>7. ASSUME NEW p \in Providers, BustComes(p) \/ p = of[u] PROVE BustComes(p)'
  BY <1>1, <1>7 DEF BustComes, OthersStay
<1>8. CacheFollowsRecord'
  BY <1>1, <1>2, <1>7 DEF Rest, CacheFollowsRecord
<1>9. DeletersLook'
  BY <1>1 DEF Rest, DeletersLook, OthersStay, At
<1>10. OrphansAreLate'
  BY <1>1, <1>2, <1>3 DEF Rest, OrphansAreLate, TypeOK
<1> QED BY <1>4, <1>5, <1>6, <1>8, <1>9, <1>10 DEF Rest

LEMMA BustRest ==
    ASSUME TypeOK, Rest, NEW u \in Handlers, Bust(u)
    PROVE  Rest'
<1> USE ProvidersAssumption DEF Exists
<1>0. of[u] \in issued /\ of[u] \in Providers
  BY OfIssued DEF Bust, At, TypeOK
<1>1. /\ cached' = [cached EXCEPT ![of[u]] = NoClient]
      /\ behind' = behind \ {of[u]}
      /\ UNCHANGED <<version, issued, owner, accounts, built, late, of, seen>>
      /\ OthersStay(u)
      /\ pc[u] = "bust" /\ pc'[u] = "load" /\ kind'[u] = "update"
  BY DEF Bust, At, Goto, TypeOK, records, OthersStay
<1>2. cached'[of[u]] = NoClient /\ \A p \in Providers \ {of[u]} : cached'[p] = cached[p]
  BY <1>0, <1>1 DEF TypeOK
<1>3. IssuedOnly'
  BY <1>1, <1>2 DEF Rest, IssuedOnly
<1>4. SeenIsReal'
  BY <1>1 DEF Rest, SeenIsReal, OthersStay, At
<1>5. CachedIsBuilt'
  BY <1>1, <1>2 DEF Rest, CachedIsBuilt
<1>6. ASSUME NEW p \in Providers, BustComes(p), p # of[u] PROVE BustComes(p)'
  BY <1>1, <1>6 DEF BustComes, OthersStay
<1>7. CacheFollowsRecord'
  BY <1>1, <1>2, <1>6 DEF Rest, CacheFollowsRecord
<1>8. DeletersLook'
  BY <1>1 DEF Rest, DeletersLook, OthersStay, At
<1>9. OrphansAreLate'
  BY <1>1 DEF Rest, OrphansAreLate
<1> QED BY <1>3, <1>4, <1>5, <1>7, <1>8, <1>9 DEF Rest

\* What Delete leaves without a provider it did not find: DeletersLook.
LEMMA DeleteWriteRest ==
    ASSUME TypeOK, Rest, NEW u \in Handlers, DeleteWrite(u)
    PROVE  Rest'
<1> USE ProvidersAssumption DEF Exists
<1>0. of[u] \in issued /\ of[u] \in Providers /\ At(u, "delete", "write")
  BY OfIssued DEF DeleteWrite, At, TypeOK
<1>1. Idles(u) /\ OthersStay(u)
  BY FinishIdles, TypesSplit DEF DeleteWrite
<1>2. /\ version' = [version EXCEPT ![of[u]] = 0]
      /\ UNCHANGED <<issued, owner, accounts, cached, built, behind, late>>
  BY DEF DeleteWrite, cache
<1>3. version'[of[u]] = 0 /\ \A p \in Providers \ {of[u]} : version'[p] = version[p]
  BY <1>0, <1>2 DEF TypeOK
<1>4. IssuedOnly'
  BY <1>1, <1>2, <1>3 DEF Rest, IssuedOnly, Idles, OthersStay
<1>5. SeenIsReal'
  BY <1>1 DEF Rest, SeenIsReal, OthersStay, Idles, At
<1>6. CachedIsBuilt'
  BY <1>2 DEF Rest, CachedIsBuilt
<1>7. ASSUME NEW p \in Providers, BustComes(p) PROVE BustComes(p)'
  <2>1. PICK w \in Handlers :
           kind[w] = "update" /\ pc[w] \in {"refetch", "bust"} /\ of[w] = p
    BY <1>7 DEF BustComes
  <2> QED BY <1>0, <1>1, <2>1 DEF BustComes, OthersStay, At
<1>8. CacheFollowsRecord'
  BY <1>2, <1>3, <1>7 DEF Rest, CacheFollowsRecord
<1>9. DeletersLook'
  BY <1>1, <1>2 DEF Rest, DeletersLook, OthersStay, Idles, At
<1>10. OrphansAreLate'
  <2> SUFFICES ASSUME NEW a \in accounts, version'[owner[a]] = 0 PROVE a \in late
    BY <1>2 DEF OrphansAreLate
  <2>1. CASE owner[a] = of[u]
    BY <1>0, <2>1 DEF Rest, DeletersLook
  <2>2. CASE owner[a] # of[u]
    BY <1>3, <2>2 DEF Rest, OrphansAreLate, TypeOK
  <2> QED BY <2>1, <2>2
<1> QED BY <1>4, <1>5, <1>6, <1>8, <1>9, <1>10 DEF Rest

\* An account that is created for a provider that is closing is late.
LEMMA AccountCreateRest ==
    ASSUME TypeOK, Rest, NEW u \in Handlers, NEW a \in Accounts,
           AccountCreate(u, a)
    PROVE  Rest'
<1> USE ProvidersAssumption
<1>0. of[u] \in Providers /\ a \notin accounts
  BY DEF AccountCreate, At, TypeOK
<1>1. /\ UNCHANGED <<version, issued, cached, built, behind, of, seen, kind>>
      /\ OthersStay(u)
      /\ pc[u] = "write" /\ kind[u] = "account" /\ pc'[u] = "load"
  BY DEF AccountCreate, At, TypeOK, cache, OthersStay
<1>2. /\ accounts' = accounts \cup {a}
      /\ owner'[a] = of[u]
      /\ \A b \in accounts : owner'[b] = owner[b]
      /\ late \subseteq late'
      /\ Closing(of[u]) => a \in late'
  BY <1>0 DEF AccountCreate, TypeOK
<1>3. IssuedOnly'
  BY <1>1 DEF Rest, IssuedOnly, Exists
<1>4. SeenIsReal'
  BY <1>1 DEF Rest, SeenIsReal, OthersStay, At
<1>5. CachedIsBuilt'
  BY <1>1 DEF Rest, CachedIsBuilt
<1>6. CacheFollowsRecord'
  BY <1>1 DEF Rest, CacheFollowsRecord, BustComes, OthersStay, Exists
<1>7. DeletersLook'
  <2> SUFFICES ASSUME NEW w \in Handlers, NEW b \in accounts',
                      pc'[w] = "write", kind'[w] = "delete", owner'[b] = of'[w]
               PROVE  b \in late'
    BY DEF DeletersLook, At
  <2>1. At(w, "delete", "write")
    BY <1>1 DEF At, OthersStay
  <2>2. CASE b = a
    BY <1>1, <1>2, <2>1, <2>2 DEF Closing
  <2>3. CASE b # a
    BY <1>1, <1>2, <2>1, <2>3 DEF Rest, DeletersLook
  <2> QED BY <2>2, <2>3
<1>8. OrphansAreLate'
  <2> SUFFICES ASSUME NEW b \in accounts', version[owner'[b]] = 0
               PROVE  b \in late'
    BY <1>1 DEF OrphansAreLate, Exists
  <2>1. CASE b = a
    BY <1>2, <2>1 DEF Closing, Exists
  <2>2. CASE b # a
    BY <1>2, <2>2 DEF Rest, OrphansAreLate, Exists
  <2> QED BY <2>1, <2>2
<1> QED BY <1>3, <1>4, <1>5, <1>6, <1>7, <1>8 DEF Rest

\* A client that is not built from the record there is leaves the cache behind.
LEMMA LoadFillRest ==
    ASSUME TypeOK, Rest, NEW u \in Handlers, NEW i \in Clients, LoadFill(u, i)
    PROVE  Rest'
<1> USE ProvidersAssumption DEF Exists
<1>0. /\ of[u] \in issued /\ of[u] \in Providers /\ pc[u] = "load"
      /\ seen[u] # 0 /\ seen[u] \in Nat
  BY OfIssued DEF LoadFill, TypeOK, Rest, SeenIsReal
<1>1. /\ OthersStay(u) /\ pc'[u] \in {"idle", "loaded"}
      /\ of'[u] \in {of[u], NoProvider}
  BY <1>0, LoadedSlots, TypesSplit DEF LoadFill
<1>2. /\ built' = [built EXCEPT ![i] = seen[u]]
      /\ cached' = [cached EXCEPT ![of[u]] = i]
      /\ built[i] = 0
      /\ behind \subseteq behind'
      /\ seen[u] # version[of[u]] => of[u] \in behind'
      /\ UNCHANGED <<version, issued, owner, accounts, late>>
  BY DEF LoadFill, records
<1>3. /\ cached'[of[u]] = i /\ built'[i] = seen[u]
      /\ \A p \in Providers \ {of[u]} : cached'[p] = cached[p]
      /\ \A j \in Clients \ {i} : built'[j] = built[j]
  BY <1>0, <1>2 DEF TypeOK
<1>4. ASSUME NEW p \in Providers, p # of[u], cached[p] # NoClient
      PROVE  built'[cached'[p]] = built[cached[p]]
  <2>1. cached[p] # i /\ cached[p] \in Clients
    BY <1>2, <1>4 DEF Rest, CachedIsBuilt, TypeOK
  <2> QED BY <1>3, <1>4, <2>1
<1>5. IssuedOnly'
  BY <1>0, <1>1, <1>2, <1>3 DEF Rest, IssuedOnly, OthersStay
<1>6. SeenIsReal'
  BY <1>1 DEF Rest, SeenIsReal, OthersStay, At
<1>7. CachedIsBuilt'
  BY <1>0, <1>3, <1>4 DEF Rest, CachedIsBuilt
<1>8. ASSUME NEW p \in Providers, BustComes(p) PROVE BustComes(p)'
  <2>1. PICK w \in Handlers :
           kind[w] = "update" /\ pc[w] \in {"refetch", "bust"} /\ of[w] = p
    BY <1>8 DEF BustComes
  <2> QED BY <1>0, <1>1, <2>1 DEF BustComes, OthersStay
<1>9. CacheFollowsRecord'
  <2> SUFFICES ASSUME NEW p \in Providers, cached'[p] # NoClient, version[p] # 0
               PROVE  \/ built'[cached'[p]] = version[p]
                      \/ BustComes(p)' \/ p \in behind'
    BY <1>2 DEF CacheFollowsRecord
  <2>1. CASE p = of[u]
    BY <1>2, <1>3, <2>1
  <2>2. CASE p # of[u]
    BY <1>2, <1>3, <1>4, <1>8, <2>2 DEF Rest, CacheFollowsRecord
  <2> QED BY <2>1, <2>2
<1>10. DeletersLook'
  BY <1>1, <1>2 DEF Rest, DeletersLook, OthersStay, At
<1>11. OrphansAreLate'
  BY <1>2 DEF Rest, OrphansAreLate
<1> QED BY <1>5, <1>6, <1>7, <1>9, <1>10, <1>11 DEF Rest

\* An account goes.
LEMMA RemoveRest ==
    ASSUME TypeOK, Rest, NEW u \in Handlers, Remove(u)
    PROVE  Rest'
<1>1. Idles(u) /\ OthersStay(u) /\ pc[u] = "loaded"
  BY FinishIdles, TypesSplit DEF Remove, At
<1>2. /\ accounts' \subseteq accounts
      /\ UNCHANGED <<version, issued, owner, cached, built, behind, late>>
  BY DEF Remove, cache
<1>3. IssuedOnly'
  BY <1>1, <1>2, ProvidersAssumption DEF Rest, IssuedOnly, Idles, OthersStay, Exists
<1>4. SeenIsReal'
  BY <1>1 DEF Rest, SeenIsReal, OthersStay, Idles, At
<1>5. CachedIsBuilt'
  BY <1>2 DEF Rest, CachedIsBuilt
<1>6. CacheFollowsRecord'
  BY <1>1, <1>2 DEF Rest, CacheFollowsRecord, BustComes, OthersStay, Exists
<1>7. DeletersLook'
  BY <1>1, <1>2 DEF Rest, DeletersLook, OthersStay, Idles, At
<1>8. OrphansAreLate'
  BY <1>2 DEF Rest, OrphansAreLate, Exists
<1> QED BY <1>3, <1>4, <1>5, <1>6, <1>7, <1>8 DEF Rest

-----------------------------------------------------------------------------
(* Every step *)

LEMMA AdministerRest ==
    ASSUME TypeOK, Rest, NEW u \in Handlers, Administer(u)
    PROVE  Rest'
<1>1. ASSUME NEW p \in Providers, UpdateRead(u, p) PROVE Rest'
  <2>1. p \in issued
    BY <1>1 DEF UpdateRead, Rest, IssuedOnly
  <2> QED BY <1>1, <2>1, QuietBegin DEF UpdateRead, Exists
<1>2. ASSUME NEW p \in Providers, DeleteQuery(u, p) PROVE Rest'
  BY <1>2, QuietBegin DEF DeleteQuery
<1>3. CASE CreateFetch(u) \/ UpdateFetch(u)
  <2>1. of[u] \in issued /\ Exists(of[u])
    BY <1>3, OfIssued DEF CreateFetch, UpdateFetch, At, Fetch
  <2>2. /\ OthersStay(u) /\ of'[u] = of[u] /\ kind'[u] = kind[u]
        /\ seen'[u] = version[of[u]]
        /\ UNCHANGED <<version, issued, owner, accounts, cached, built, behind, late>>
    BY <1>3
       DEF CreateFetch, UpdateFetch, Fetch, Goto, OthersStay, TypeOK, records, cache
  <2>3. \/ kind[u] = "create" /\ pc'[u] = "load"
        \/ kind[u] = "update" /\ pc'[u] = "bust"
    BY <1>3 DEF CreateFetch, UpdateFetch, Fetch, Goto, At, TypeOK
  <2> QED BY <2>1, <2>2, <2>3, QuietStep DEF Exists
<1> QED BY <1>1, <1>2, <1>3, CreateRecordRest, UpdateWriteRest, BustRest,
           DeleteWriteRest DEF Administer

LEMMA WorkRest ==
    ASSUME TypeOK, Rest, NEW u \in Handlers, Work(u)
    PROVE  Rest'
<1>1. ASSUME NEW p \in Providers, AccountRead(u, p) PROVE Rest'
  <2>1. p \in issued
    BY <1>1 DEF AccountRead, Rest, IssuedOnly
  <2> QED BY <1>1, <2>1, QuietBegin DEF AccountRead, Exists
<1>2. ASSUME NEW k, NEW a \in Accounts, Read(u, k, a) PROVE Rest'
  <2>1. owner[a] \in issued
    BY <1>2 DEF Read, Rest, IssuedOnly, TypeOK
  <2> QED BY <1>2, <2>1, QuietBegin DEF Read, Exists
<1>3. ASSUME NEW a \in Accounts,
             \/ ResetRead(u, a) \/ RemoveRead(u, a)
             \/ StartRead(u, a) \/ CredentialsRead(u, a)
      PROVE  Rest'
  BY <1>2, <1>3 DEF ResetRead, RemoveRead, StartRead, CredentialsRead
<1>4. CASE Prepare(u) \/ PrepareFails(u)
  <2>1. /\ pc[u] = "loaded" /\ of[u] \in issued
        /\ UNCHANGED <<version, issued, owner, accounts, cached, built, behind, late>>
    BY <1>4, OfIssued DEF Prepare, PrepareFails, NoteBucket, records
  <2>2. CASE Finish(u)
    BY <2>1, <2>2, QuietReturn
  <2>3. CASE Goto(u, "prepared") /\ seen' = seen
    <3>1. OthersStay(u) /\ pc'[u] = "prepared" /\ of' = of
      BY <2>3 DEF Goto, TypeOK, OthersStay
    <3> QED BY <2>1, <3>1, QuietStep
  <2> QED BY <1>4, <2>2, <2>3 DEF Prepare, PrepareFails
<1>5. CASE Assets(u)
  <2>1. OthersStay(u) /\ pc[u] = "prepared" /\ pc'[u] = "running" /\ of' = of
    BY <1>5 DEF Assets, Goto, TypeOK, OthersStay
  <2>2. UNCHANGED <<version, issued, owner, accounts, cached, built, behind, late>>
    BY <1>5 DEF Assets, records, cache
  <2> QED BY <2>1, <2>2, OfIssued, QuietStep
<1>6. CASE StartEnds(u)
  BY <1>6, QuietReturn DEF StartEnds, records, cache
<1> QED BY <1>1, <1>3, <1>4, <1>5, <1>6, AccountCreateRest, RemoveRest DEF Work

LEMMA LoadRest ==
    ASSUME TypeOK, Rest, NEW u \in Handlers, Load(u)
    PROVE  Rest'
<1>1. CASE LoadHit(u)
  <2>1. pc[u] = "load" /\ of[u] \in issued
    BY <1>1, OfIssued DEF LoadHit
  <2>2. /\ OthersStay(u) /\ pc'[u] \in {"idle", "loaded"}
        /\ of'[u] \in {of[u], NoProvider}
    BY <1>1, <2>1, LoadedSlots, TypesSplit DEF LoadHit
  <2>3. UNCHANGED <<version, issued, owner, accounts, cached, built, behind, late>>
    BY <1>1 DEF LoadHit, records, cache
  <2> QED BY <2>1, <2>2, <2>3, QuietStep
<1>2. CASE LoadFirst(u)
  BY <1>2, QuietReturn DEF LoadFirst, records
<1> QED BY <1>1, <1>2, LoadFillRest DEF Load

LEMMA AbandonRest ==
    ASSUME TypeOK, Rest, NEW u \in Handlers, Abandon(u)
    PROVE  Rest'
<1>1. pc[u] # "bust"
  BY DEF Abandon, At
<1>2. behind \subseteq behind'
      /\ (kind[u] = "update" /\ pc[u] = "refetch" => of[u] \in behind')
  BY DEF Abandon, At
<1> QED BY <1>1, <1>2, QuietReturn DEF Abandon, records, cache

LEMMA ForceRemoveRest ==
    ASSUME TypeOK, Rest, NEW a \in Accounts, ForceRemove(a)
    PROVE  Rest'
<1>1. /\ accounts' \subseteq accounts
      /\ UNCHANGED <<version, issued, owner, cached, built, behind, late,
                     pc, kind, of, seen>>
  BY DEF ForceRemove, cache, slots
<1> QED BY <1>1 DEF Rest, IssuedOnly, SeenIsReal, CachedIsBuilt, CacheFollowsRecord,
                    BustComes, DeletersLook, OrphansAreLate, Exists, At

LEMMA RestartRest ==
    ASSUME TypeOK, Rest, Restart
    PROVE  Rest'
<1>1. /\ \A p \in Providers : cached'[p] = NoClient
      /\ \A u \in Handlers : pc'[u] = "idle" /\ of'[u] = NoProvider
      /\ UNCHANGED <<version, issued, owner, accounts, late>>
  BY DEF Restart, records
<1> QED BY <1>1, ProvidersAssumption
        DEF Rest, IssuedOnly, SeenIsReal, CachedIsBuilt, CacheFollowsRecord,
            DeletersLook, OrphansAreLate, Exists, At

LEMMA StepIInv == IInv /\ [Next]_vars => IInv'
<1> SUFFICES ASSUME TypeOK, Rest, [Next]_vars PROVE TypeOK' /\ Rest'
  BY IInvIs DEF IInv, Rest
<1>1. TypeOK'
  BY StepTypeOK
<1>2. CASE UNCHANGED vars
  <2>1. UNCHANGED <<version, issued, owner, accounts, cached, built, behind, late,
                    pc, kind, of, seen>>
    BY <1>2 DEF vars, records, cache, slots
  <2>2. IssuedOnly' /\ SeenIsReal' /\ CachedIsBuilt'
    BY <2>1 DEF Rest, IssuedOnly, SeenIsReal, CachedIsBuilt, Exists, At
  <2>3. CacheFollowsRecord'
    BY <2>1 DEF Rest, CacheFollowsRecord, BustComes, Exists
  <2>4. DeletersLook' /\ OrphansAreLate'
    BY <2>1 DEF Rest, DeletersLook, OrphansAreLate, Exists, At
  <2> QED BY <1>1, <2>2, <2>3, <2>4 DEF Rest
<1> QED BY <1>1, <1>2, AdministerRest, WorkRest, LoadRest, AbandonRest,
           ForceRemoveRest, RestartRest DEF Next

\* All parts of the invariant hold together, and always.
THEOREM Invariance == Spec => []IInv
<1> QED BY InitIInv, StepIInv, PTL DEF Spec

\* The cached client is the one of the record there is, but for an update that
\* is about to bust it and the ways the code has to fall behind
\* (cache.Bust, cache.Load and ProviderService.Update).
THEOREM CacheFollows == Spec => []CacheFollowsRecord
<1>1. IInv => CacheFollowsRecord
  BY DEF IInv
<1> QED BY <1>1, Invariance, PTL

\* ProviderService.Delete takes the provider of no account but one that was
\* created after it had looked.
THEOREM OrphansLate == Spec => []OrphansAreLate
<1>1. IInv => OrphansAreLate
  BY DEF IInv
<1> QED BY <1>1, Invariance, PTL
=============================================================================
