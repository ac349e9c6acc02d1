------------------------------ MODULE Providers ------------------------------
(***************************************************************************)
(* Cloud providers: the Provider record, the ProviderService handlers that *)
(* write it (Create, Update, Delete), the cache of provider clients        *)
(* (internal/provider/cache), and the handlers that read the record and    *)
(* then load a client: those of AccountService, and Start and Credentials  *)
(* of ChallengeService.                                                    *)
(*                                                                         *)
(* A client is built from the record somebody has read, some time before,  *)
(* and is shared by everybody who loads it.  A version of a record stands  *)
(* for its credentials and regions, and for its ETag.                      *)
(*                                                                         *)
(* The cache holds its mutex over the whole of Load, the calls that build  *)
(* a client included, and over Bust: each is one step here.                *)
(***************************************************************************)
EXTENDS Naturals

CONSTANTS
    Providers, NoProvider,
    Accounts, NoAccount,
    Clients, NoClient,   \* provider clients, in the memory of the server
    Handlers,            \* slots for requests with their jobs
    MaxVersion,          \* bound of the versions of a record
    Faults               \* which of "calls" (any may fail), "crash" may happen

ASSUME ProvidersAssumption ==
    /\ NoProvider \notin Providers
    /\ NoAccount \notin Accounts
    /\ NoClient \notin Clients
    /\ MaxVersion \in Nat

VARIABLES
    version,   \* of the Provider record; 0 when there is none
    issued,    \* the provider ids Create has used
    owner,     \* ProviderID of an Account record, NoProvider before there is one
    accounts,  \* the Account records there are
    cached,    \* the client that is cached for a provider
    built,     \* the version a client was built from; 0 before it is built
    bucket,    \* the account whose bucket assetBucket of a client names
    guarded,   \* providers whose organisation has the guard policy
    pc, kind, of, seen,  \* of a handler: where it is, what it is, its provider,
                         \* the version it has read
    on, client, assets,  \* its account, its client, the bucket of its assets
    (* history *)
    behind,    \* providers whose cache somebody left or filled too old
    late       \* accounts created after a Delete found no account

records == <<version, issued, owner, accounts>>
cache == <<cached, built, bucket, guarded>>
slots == <<pc, kind, of, seen, on, client, assets>>
vars == <<records, cache, slots, behind, late>>

\* Kinds of handlers: those of the provider, and those of an account.
Writers == {"create", "update", "delete"}
Exclusive == {"account", "reset", "start", "remove"}
Kinds == Writers \cup Exclusive \cup {"credentials"}

TypeOK ==
    /\ version \in [Providers -> Nat]
    /\ issued \subseteq Providers
    /\ owner \in [Accounts -> Providers \cup {NoProvider}]
    /\ accounts \subseteq Accounts
    /\ \A a \in accounts : owner[a] \in Providers
    /\ cached \in [Providers -> Clients \cup {NoClient}]
    /\ built \in [Clients -> Nat]
    /\ bucket \in [Clients -> Accounts \cup {NoAccount}]
    /\ guarded \subseteq Providers
    /\ pc \in [Handlers -> {"idle", "write", "refetch", "bust", "load",
                            "loaded", "prepared", "running"}]
    /\ kind \in [Handlers -> Kinds]
    /\ of \in [Handlers -> Providers \cup {NoProvider}]
    /\ \A u \in Handlers : pc[u] # "idle" => of[u] \in Providers
    /\ seen \in [Handlers -> Nat]
    /\ on \in [Handlers -> Accounts \cup {NoAccount}]
    /\ client \in [Handlers -> Clients \cup {NoClient}]
    /\ \A u \in Handlers :
          /\ pc[u] \in {"loaded", "prepared"} => client[u] \in Clients
          /\ pc[u] \in {"load", "loaded"} /\ kind[u] \in Exclusive =>
                on[u] \in Accounts
    /\ assets \in [Handlers -> Accounts \cup {NoAccount}]
    /\ behind \subseteq Providers /\ late \subseteq Accounts

Init ==
    /\ version = [p \in Providers |-> 0]
    /\ issued = {}
    /\ owner = [a \in Accounts |-> NoProvider]
    /\ accounts = {}
    /\ cached = [p \in Providers |-> NoClient]
    /\ built = [i \in Clients |-> 0]
    /\ bucket = [i \in Clients |-> NoAccount]
    /\ guarded = {}
    /\ pc = [u \in Handlers |-> "idle"]
    /\ kind = [u \in Handlers |-> "create"]
    /\ of = [u \in Handlers |-> NoProvider]
    /\ seen = [u \in Handlers |-> 0]
    /\ on = [u \in Handlers |-> NoAccount]
    /\ client = [u \in Handlers |-> NoClient]
    /\ assets = on
    /\ behind = {} /\ late = {}

-----------------------------------------------------------------------------
Goto(u, label) ==
    /\ pc' = [pc EXCEPT ![u] = label]
    /\ UNCHANGED <<kind, of, on>>

\* Handler u of kind k begins, for provider p and account a, having read
\* version v of the record.
Begin(u, k, label, p, v, a) ==
    /\ pc[u] = "idle"
    /\ pc' = [pc EXCEPT ![u] = label]
    /\ kind' = [kind EXCEPT ![u] = k]
    /\ of' = [of EXCEPT ![u] = p]
    /\ seen' = [seen EXCEPT ![u] = v]
    /\ on' = [on EXCEPT ![u] = a]
    /\ UNCHANGED <<cache, client, assets, late>>

\* Handler u returns, and its job if it has one.
Finish(u) ==
    /\ pc' = [pc EXCEPT ![u] = "idle"]
    /\ kind' = [kind EXCEPT ![u] = "create"]
    /\ of' = [of EXCEPT ![u] = NoProvider]
    /\ seen' = [seen EXCEPT ![u] = 0]
    /\ on' = [on EXCEPT ![u] = NoAccount]
    /\ client' = [client EXCEPT ![u] = NoClient]
    /\ assets' = [assets EXCEPT ![u] = NoAccount]

\* Handler u of kind k is at its step pc.
At(u, k, label) == pc[u] = label /\ kind[u] = k

Exists(p) == version[p] # 0

-----------------------------------------------------------------------------
(* ProviderService.Create: the record, then a read of it, then Load. *)

CreateRecord(u, p) ==
    /\ p \notin issued
    /\ version' = [version EXCEPT ![p] = 1]
    /\ issued' = issued \cup {p}
    /\ Begin(u, "create", "refetch", p, 0, NoAccount)
    /\ UNCHANGED <<owner, accounts, behind>>

Fetch(u, label) ==
    /\ Exists(of[u])
    /\ seen' = [seen EXCEPT ![u] = version[of[u]]]
    /\ Goto(u, label)
    /\ UNCHANGED <<records, cache, client, assets, behind, late>>

CreateFetch(u) == At(u, "create", "refetch") /\ Fetch(u, "load")

(* ProviderService.Update: the record, with the ETag of a read; a read of what *)
(* was written; Bust; Load. *)

UpdateRead(u, p) ==
    /\ Exists(p)
    /\ Begin(u, "update", "write", p, version[p], NoAccount)
    /\ UNCHANGED <<records, behind>>

UpdateWrite(u) ==
    /\ At(u, "update", "write")
    /\ seen[u] = version[of[u]]
    /\ seen[u] < MaxVersion
    /\ version' = [version EXCEPT ![of[u]] = @ + 1]
    /\ Goto(u, "refetch")
    /\ UNCHANGED <<issued, owner, accounts, cache, seen, client, assets, behind,
                   late>>

UpdateFetch(u) == At(u, "update", "refetch") /\ Fetch(u, "bust")

\* Mutant of Bust: the cached client stays, as it would under a wrong key.
BustMissed(u) ==
    /\ At(u, "update", "bust")
    /\ Goto(u, "load")
    /\ behind' = behind \ {of[u]}
    /\ UNCHANGED <<records, cache, seen, client, assets, late>>

Bust(u) ==
    /\ At(u, "update", "bust")
    /\ cached' = [cached EXCEPT ![of[u]] = NoClient]
    /\ Goto(u, "load")
    /\ behind' = behind \ {of[u]}
    /\ UNCHANGED <<records, built, bucket, guarded, seen, client, assets, late>>

(* ProviderService.Delete: a look for accounts, then the record goes.  What is *)
(* cached stays. *)

HasAccounts(p) == \E a \in accounts : owner[a] = p

\* Mutant of DeleteQuery: nobody looks for accounts.
DeleteAnyway(u, p) ==
    /\ p \in issued
    /\ Begin(u, "delete", "write", p, 0, NoAccount)
    /\ UNCHANGED <<records, behind>>

DeleteQuery(u, p) ==
    /\ p \in issued
    /\ ~HasAccounts(p)
    /\ Begin(u, "delete", "write", p, 0, NoAccount)
    /\ UNCHANGED <<records, behind>>

DeleteWrite(u) ==
    /\ At(u, "delete", "write")
    /\ version' = [version EXCEPT ![of[u]] = 0]
    /\ Finish(u)
    /\ UNCHANGED <<issued, owner, accounts, cache, behind, late>>

-----------------------------------------------------------------------------
(* Handlers of accounts and challenges, as far as providers go *)

\* AccountService.Create reads the provider, then creates the account.
AccountRead(u, p) ==
    /\ Exists(p)
    /\ Begin(u, "account", "write", p, version[p], NoAccount)
    /\ UNCHANGED <<records, behind>>

\* A provider that is gone, or that a Delete found without accounts.
Closing(p) ==
    ~Exists(p) \/ \E w \in Handlers : At(w, "delete", "write") /\ of[w] = p

AccountCreate(u, a) ==
    /\ At(u, "account", "write")
    /\ owner[a] = NoProvider
    /\ owner' = [owner EXCEPT ![a] = of[u]]
    /\ accounts' = accounts \cup {a}
    /\ late' = IF Closing(of[u]) THEN late \cup {a} ELSE late
    /\ pc' = [pc EXCEPT ![u] = "load"]
    /\ on' = [on EXCEPT ![u] = a]
    /\ UNCHANGED <<version, issued, cache, kind, of, seen, client, assets, behind>>

\* Handler w has locked account a for its job or claimed it for its challenge.
Holds(w, a) ==
    on[w] = a /\ (kind[w] = "start" \/ pc[w] \in {"loaded", "prepared", "running"})

\* Handler u may have account a: module AccountPool shows that one at a time has.
Free(u, a) == a \in accounts /\ \A w \in Handlers \ {u} : ~Holds(w, a)

\* The record of a provider is read, and that of an account of it.
Read(u, k, a) ==
    /\ a \in accounts /\ Exists(owner[a])
    /\ Begin(u, k, "load", owner[a], version[owner[a]], a)
    /\ UNCHANGED <<records, behind>>

ResetRead(u, a) == Read(u, "reset", a)
RemoveRead(u, a) == Read(u, "remove", a)
\* Start has claimed the account before it reads the provider.
StartRead(u, a) == Free(u, a) /\ Read(u, "start", a)
CredentialsRead(u, a) == Read(u, "credentials", a)

\* AccountService.Delete with force asks the provider nothing.
ForceRemove(a) ==
    /\ a \in accounts /\ Exists(owner[a])
    /\ \A w \in Handlers : ~Holds(w, a)
    /\ accounts' = accounts \ {a}
    /\ UNCHANGED <<version, issued, owner, cache, slots, behind, late>>

-----------------------------------------------------------------------------
(* Cache.Load *)

\* Who works on its account goes on if it gets the lock, the others return.
Loaded(u, i) ==
    IF kind[u] \in Exclusive /\ Free(u, on[u])
    THEN /\ Goto(u, "loaded")
         /\ client' = [client EXCEPT ![u] = i]
         /\ UNCHANGED <<seen, assets>>
    ELSE Finish(u)

LoadHit(u) ==
    /\ pc[u] = "load" /\ cached[of[u]] # NoClient
    /\ Loaded(u, cached[of[u]])
    /\ UNCHANGED <<records, cache, behind, late>>

\* A client is built from the record its handler has read.
LoadFill(u, i) ==
    /\ pc[u] = "load" /\ cached[of[u]] = NoClient
    /\ of[u] \in guarded
    /\ built[i] = 0
    /\ built' = [built EXCEPT ![i] = seen[u]]
    /\ cached' = [cached EXCEPT ![of[u]] = i]
    /\ behind' = IF seen[u] # version[of[u]] THEN behind \cup {of[u]} ELSE behind
    /\ Loaded(u, i)
    /\ UNCHANGED <<records, bucket, guarded, late>>

\* The first client of an organisation creates the guard policy, attaches the
\* policy without a name instead, and fails; the next one finds the policy.
LoadFirst(u) ==
    /\ pc[u] = "load" /\ cached[of[u]] = NoClient
    /\ of[u] \notin guarded
    /\ guarded' = guarded \cup {of[u]}
    /\ Finish(u)
    /\ UNCHANGED <<records, cached, built, bucket, behind, late>>

-----------------------------------------------------------------------------
(* What is done with a client *)

\* provider.Prepare notes the name of a new bucket in the client, then makes it.
NoteBucket(u) ==
    /\ pc[u] = "loaded" /\ kind[u] \in {"account", "reset", "start"}
    /\ bucket' = [bucket EXCEPT ![client[u]] = on[u]]

Prepare(u) ==
    /\ NoteBucket(u)
    /\ IF kind[u] = "start"
       THEN Goto(u, "prepared") /\ UNCHANGED <<seen, client, assets>>
       ELSE Finish(u)
    /\ UNCHANGED <<records, cached, built, guarded, behind, late>>

\* The bucket cannot be made; its name stays.
PrepareFails(u) ==
    /\ "calls" \in Faults
    /\ NoteBucket(u)
    /\ Finish(u)
    /\ UNCHANGED <<records, cached, built, guarded, behind, late>>

\* provider.Assets hands out the name the client has noted.
Assets(u) ==
    /\ pc[u] = "prepared"
    /\ assets' = [assets EXCEPT ![u] = bucket[client[u]]]
    /\ Goto(u, "running")
    /\ UNCHANGED <<records, cache, seen, client, behind, late>>

\* The challenge ends.
StartEnds(u) ==
    /\ pc[u] = "running"
    /\ Finish(u)
    /\ UNCHANGED <<records, cache, behind, late>>

\* provider.Delete closes the account, then its record goes.
Remove(u) ==
    /\ At(u, "remove", "loaded")
    /\ accounts' = accounts \ {on[u]}
    /\ Finish(u)
    /\ UNCHANGED <<version, issued, owner, cache, behind, late>>

\* A call fails: the store or the provider does not answer, an ETag is
\* outdated, a record is gone.
Abandon(u) ==
    /\ \/ "calls" \in Faults /\ pc[u] \notin {"idle", "bust", "running"}
       \/ At(u, "update", "write") /\ seen[u] # version[of[u]]
       \/ pc[u] = "refetch" /\ ~Exists(of[u])
    /\ behind' = IF At(u, "update", "refetch") THEN behind \cup {of[u]} ELSE behind
    /\ Finish(u)
    /\ UNCHANGED <<records, cache, late>>

\* The server goes down, cache, handlers and jobs with it, and comes up again.
Restart ==
    /\ "crash" \in Faults
    /\ cached' = [p \in Providers |-> NoClient]
    /\ pc' = [u \in Handlers |-> "idle"]
    /\ kind' = [u \in Handlers |-> "create"]
    /\ of' = [u \in Handlers |-> NoProvider]
    /\ seen' = [u \in Handlers |-> 0]
    /\ on' = [u \in Handlers |-> NoAccount]
    /\ client' = [u \in Handlers |-> NoClient]
    /\ assets' = on'
    /\ behind' = {}
    /\ UNCHANGED <<records, built, bucket, guarded, late>>

-----------------------------------------------------------------------------
Administer(u) ==
    \/ \E p \in Providers :
          CreateRecord(u, p) \/ UpdateRead(u, p) \/ DeleteQuery(u, p)
    \/ CreateFetch(u) \/ UpdateWrite(u) \/ UpdateFetch(u) \/ Bust(u)
    \/ DeleteWrite(u)

Work(u) ==
    \/ \E p \in Providers : AccountRead(u, p)
    \/ \E a \in Accounts :
          \/ AccountCreate(u, a) \/ ResetRead(u, a) \/ RemoveRead(u, a)
          \/ StartRead(u, a) \/ CredentialsRead(u, a)
    \/ Prepare(u) \/ PrepareFails(u) \/ Assets(u) \/ StartEnds(u) \/ Remove(u)

Load(u) == LoadHit(u) \/ LoadFirst(u) \/ \E i \in Clients : LoadFill(u, i)

Next ==
    \/ \E u \in Handlers : Administer(u) \/ Work(u) \/ Load(u) \/ Abandon(u)
    \/ \E a \in Accounts : ForceRemove(a)
    \/ Restart

Spec == Init /\ [][Next]_vars

-----------------------------------------------------------------------------
(* Properties *)

\* An update that has written p and will bust the cache.
BustComes(p) ==
    \E u \in Handlers :
        kind[u] = "update" /\ pc[u] \in {"refetch", "bust"} /\ of[u] = p

\* The cached client was built from the record there is, unless an update is
\* about to bust it, failed before it did, or somebody filled the cache from a
\* record read before an update; the next update makes up for both.
CacheFollowsRecord ==
    \A p \in Providers :
        cached[p] # NoClient /\ Exists(p) =>
            \/ built[cached[p]] = version[p]
            \/ BustComes(p)
            \/ p \in behind

\* No account loses its provider, but one whose creation overlapped the Delete:
\* the look of Delete covers all that were there.
OrphansAreLate ==
    \A a \in accounts : ~Exists(owner[a]) => a \in late

=============================================================================
