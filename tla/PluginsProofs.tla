---------------------------- MODULE PluginsProofs ----------------------------
(* Theorems about Plugins, for every value of its constants. *)
EXTENDS Plugins, TLAPS

-----------------------------------------------------------------------------
(* The inductive invariant *)

\* A request between its writes is the only one, unless the definition is torn,
\* and what it has to put into the hash is the binary of the definition.
OneToucher ==
    \A u \in Requests :
        Touching(u) /\ on[u] \notin torn =>
            /\ binary[on[u]] = new[u]
            /\ \A w \in Requests : Touching(w) /\ on[w] = on[u] => w = u

\* A request that deletes has no binary.
DeletesNothingNew == \A u \in Requests : pc[u] = "delete" => new[u] = NoBinary

\* Who is inside Load holds the mutex, and compiles only what is not cached.
LockIsHeld ==
    \A r \in Runs :
        /\ rpc[r] \in {"locked", "compiling"} => lock = r
        /\ rpc[r] = "compiling" => cached[key[r]] = NoPlugin

\* A guest is an instance of the plugin that is cached for its hash.
RunningIsCached ==
    \A r \in Runs : rpc[r] = "running" => cached[key[r]] = plugin[r]

\* A run that has not strayed will find the binary of the hash it knows, and has
\* it once it has fetched.
StraightRuns ==
    \A r \in Runs \ strayed :
        /\ rpc[r] \in {"waiting", "locked"} => binary[def[r]] = key[r]
        /\ rpc[r] = "compiling" => fetched[r] = key[r]

IInv ==
    /\ TypeOK
    /\ DeletesNothingNew /\ OneToucher /\ HashIsOfBinary
    /\ LockIsHeld /\ RunningIsCached
    /\ StraightRuns /\ CodeIsOfHash

-----------------------------------------------------------------------------
(* Types *)

\* No compiled plugin is the absent one.
LEMMA CompiledIsReal == NoPlugin \notin Compiled
<1> QED BY PluginsAssumption DEF NoPlugin, Compiled

\* The invariant holds initially.
LEMMA InitIInv == Init => IInv
<1> SUFFICES ASSUME Init PROVE IInv
  OBVIOUS
<1>1. TypeOK
  BY PluginsAssumption DEF Init, TypeOK
<1>2. DeletesNothingNew /\ OneToucher /\ HashIsOfBinary
  BY DEF Init, DeletesNothingNew, OneToucher, HashIsOfBinary, Touching
<1>3. LockIsHeld /\ RunningIsCached
  BY DEF Init, LockIsHeld, RunningIsCached
<1>4. StraightRuns /\ CodeIsOfHash
  BY DEF Init, StraightRuns, CodeIsOfHash
<1> QED BY <1>1, <1>2, <1>3, <1>4 DEF IInv

\* The types of what requests write.
RequestTypes ==
    /\ binary \in [Definitions -> Binaries \cup {NoBinary}]
    /\ hash \in [Definitions -> Binaries \cup {NoBinary}]
    /\ issued \subseteq Definitions /\ torn \subseteq Definitions
    /\ pc \in [Requests -> {"idle", "create", "replace", "hash", "meta", "delete"}]
    /\ on \in [Requests -> Definitions \cup {NoDefinition}]
    /\ \A u \in Requests : pc[u] # "idle" => on[u] \in Definitions
    /\ new \in [Requests -> Binaries \cup {NoBinary}]
    /\ \A u \in Requests :
          pc[u] \in {"create", "replace"} => new[u] \in Binaries
    /\ valid \subseteq Requests

\* The types of what runs write.
RunTypes ==
    /\ cached \in [Binaries -> Compiled \cup {NoPlugin}]
    /\ lock \in Runs \cup {NoRun}
    /\ rpc \in [Runs -> {"idle", "waiting", "locked", "compiling", "running", "done"}]
    /\ def \in [Runs -> Definitions \cup {NoDefinition}]
    /\ key \in [Runs -> Binaries \cup {NoBinary}]
    /\ \A r \in Runs :
          rpc[r] \notin {"idle", "done"} =>
             def[r] \in Definitions /\ key[r] \in Binaries
    /\ fetched \in [Runs -> Binaries \cup {NoBinary}]
    /\ \A r \in Runs : rpc[r] = "compiling" => fetched[r] \in Binaries
    /\ plugin \in [Runs -> Compiled \cup {NoPlugin}]
    /\ \A r \in Runs : rpc[r] = "running" => plugin[r] \in Compiled
    /\ stopped \subseteq Runs /\ reported \subseteq Runs
    /\ calls \subseteq Runs \X Runs /\ strayed \subseteq Runs

LEMMA TypesSplit == TypeOK <=> RequestTypes /\ RunTypes
<1> QED BY DEF TypeOK, RequestTypes, RunTypes

\* A request leaves the cache and the guests alone, a run the records and the
\* requests.
LEMMA WritesRecords ==
    ASSUME NEW u \in Requests, Write(u)
    PROVE  UNCHANGED <<cache, guests, stopped, reported, calls>>
<1> QED BY DEF Write, CreateBinary, ReadBinary, ReadMetaOnly, DeleteBinary,
               CreateMeta, WriteBinary, ReadMeta, WriteMeta, DeleteMeta,
               RequestFails, WriteBinaryRecord, WriteMetaRecord, effects

\* A binary is written to one definition, and the runs that are about to fetch
\* it are noted.
LEMMA WritesNoted ==
    ASSUME RequestTypes, NEW u \in Requests, Write(u)
    PROVE  \/ UNCHANGED <<binary, strayed>>
           \/ \E d \in Definitions, b \in Binaries \cup {NoBinary} :
                 /\ binary' = [binary EXCEPT ![d] = b]
                 /\ strayed' = strayed \cup Fetching(d)
<1> USE DEF records, effects, WriteBinaryRecord, WriteMetaRecord
<1>1. CASE \E d \in Definitions, b \in Binaries : CreateBinary(u, d, b)
  BY <1>1 DEF CreateBinary
<1>2. CASE \E d \in Definitions : DeleteBinary(u, d)
  BY <1>2 DEF DeleteBinary
<1>3. CASE WriteBinary(u)
  <2>1. on[u] \in Definitions /\ new[u] \in Binaries
    BY <1>3 DEF WriteBinary, RequestTypes
  <2> QED BY <1>3, <2>1 DEF WriteBinary
<1> QED BY <1>1, <1>2, <1>3 DEF Write, ReadBinary, ReadMetaOnly, CreateMeta,
               ReadMeta, WriteMeta, DeleteMeta, RequestFails

LEMMA RunsLoad ==
    ASSUME NEW r \in Runs, Load(r) \/ Guest(r)
    PROVE  UNCHANGED <<records, requests>>
<1> QED BY DEF Load, Guest, Lock, Hit, Fetch, Compile, LoadFails, InstanceFails,
               Instantiate, StartRun, HostCall, Cancel, RunEnds

-----------------------------------------------------------------------------
(* Requests *)

\* The steps of a request keep the types of the records.
LEMMA WriteTypes ==
    ASSUME RequestTypes, NEW u \in Requests, Write(u)
    PROVE  RequestTypes'
<1> USE PluginsAssumption DEF RequestTypes, records, Begin, Finish, Goto, Outdate,
        WriteBinaryRecord, WriteMetaRecord
<1>1. ASSUME NEW d \in Definitions, NEW b \in Binaries, CreateBinary(u, d, b)
      PROVE  RequestTypes'
  BY <1>1 DEF CreateBinary
<1>2. ASSUME NEW d \in Definitions, NEW b \in Binaries, ReadBinary(u, d, b)
      PROVE  RequestTypes'
  BY <1>2 DEF ReadBinary
<1>3. ASSUME NEW d \in Definitions, ReadMetaOnly(u, d) PROVE RequestTypes'
  BY <1>3 DEF ReadMetaOnly
<1>4. ASSUME NEW d \in Definitions, DeleteBinary(u, d) PROVE RequestTypes'
  BY <1>4 DEF DeleteBinary
<1>5. CASE CreateMeta(u) BY <1>5 DEF CreateMeta
<1>6. CASE WriteBinary(u) BY <1>6 DEF WriteBinary
<1>7. CASE ReadMeta(u) BY <1>7 DEF ReadMeta
<1>8. CASE WriteMeta(u) BY <1>8 DEF WriteMeta
<1>9. CASE DeleteMeta(u) BY <1>9 DEF DeleteMeta
<1>10. CASE RequestFails(u) BY <1>10 DEF RequestFails, Touching
<1> QED BY <1>1, <1>2, <1>3, <1>4, <1>5, <1>6, <1>7, <1>8, <1>9, <1>10 DEF Write

\* Only Delete reaches "delete".
LEMMA WriteDeletes ==
    ASSUME RequestTypes, DeletesNothingNew, NEW u \in Requests, Write(u)
    PROVE  DeletesNothingNew'
<1> USE DEF RequestTypes, DeletesNothingNew, Begin, Finish, Goto
<1> QED BY DEF Write, CreateBinary, ReadBinary, ReadMetaOnly, DeleteBinary,
               CreateMeta, WriteBinary, ReadMeta, WriteMeta, DeleteMeta,
               RequestFails

\* What the two-record invariant says of one step, by what the step does to the
\* binary, to the hash and to the request.
Agree == OneToucher /\ HashIsOfBinary

\* A first write: the request begins to touch d, alone or d is torn.
LEMMA FirstWrite ==
    ASSUME RequestTypes, Agree, NEW u \in Requests, NEW d \in Definitions,
           NEW b \in Binaries \cup {NoBinary}, ~Touching(u),
           binary' = [binary EXCEPT ![d] = b], hash' = hash,
           torn' = IF Contested(u, d) THEN torn \cup {d} ELSE torn,
           Touching(u)', on'[u] = d, new'[u] = b,
           \A w \in Requests \ {u} :
              pc'[w] = pc[w] /\ on'[w] = on[w] /\ new'[w] = new[w]
    PROVE  Agree'
<1> USE DEF Agree
<1>1. \A w \in Requests \ {u} : Touching(w)' <=> Touching(w)
  BY DEF Touching
<1>2. OneToucher'
  <2> SUFFICES ASSUME NEW w \in Requests, Touching(w)', on'[w] \notin torn'
               PROVE  /\ binary'[on'[w]] = new'[w]
                      /\ \A v \in Requests :
                            Touching(v)' /\ on'[v] = on'[w] => v = w
    BY DEF OneToucher
  <2>1. CASE w = u
    BY <1>1, <2>1 DEF Contested, RequestTypes
  <2>2. CASE w # u
    <3>1. on[w] \in Definitions /\ Touching(w) /\ on'[w] = on[w]
      BY <1>1, <2>2 DEF Touching, RequestTypes
    <3>2. on[w] # d
      BY <2>2, <3>1 DEF Contested
    <3> QED BY <1>1, <2>2, <3>1, <3>2 DEF OneToucher, RequestTypes
  <2> QED BY <2>1, <2>2
<1>3. HashIsOfBinary'
  <2> SUFFICES ASSUME NEW e \in Definitions, hash'[e] # binary'[e]
               PROVE  \/ e \in torn'
                      \/ \E w \in Requests : Touching(w)' /\ on'[w] = e
    BY DEF HashIsOfBinary
  <2>1. CASE e = d
    BY <2>1
  <2>2. CASE e # d
    <3>1. e \in torn \/ \E w \in Requests : Touching(w) /\ on[w] = e
      BY <2>2 DEF HashIsOfBinary, RequestTypes
    <3> QED BY <1>1, <3>1
  <2> QED BY <2>1, <2>2
<1> QED BY <1>2, <1>3

\* A second write: the request puts what it has into the hash and is done.
LEMMA SecondWrite ==
    ASSUME RequestTypes, Agree, NEW u \in Requests, Touching(u),
           hash' = [hash EXCEPT ![on[u]] = new[u]], UNCHANGED <<binary, torn>>,
           pc'[u] = "idle",
           \A w \in Requests \ {u} :
              pc'[w] = pc[w] /\ on'[w] = on[w] /\ new'[w] = new[w]
    PROVE  Agree'
<1> USE DEF Agree
<1>1. \A w \in Requests \ {u} : Touching(w)' <=> Touching(w)
  BY DEF Touching
<1>2. ~Touching(u)' /\ on[u] \in Definitions
  BY DEF Touching, RequestTypes
<1>3. OneToucher'
  BY <1>1, <1>2 DEF OneToucher
<1>4. HashIsOfBinary'
  <2> SUFFICES ASSUME NEW e \in Definitions, hash'[e] # binary'[e]
               PROVE  \/ e \in torn'
                      \/ \E w \in Requests : Touching(w)' /\ on'[w] = e
    BY DEF HashIsOfBinary
  <2>1. CASE e = on[u]
    BY <1>2, <2>1 DEF OneToucher, RequestTypes
  <2>2. CASE e # on[u]
    <3>1. e \in torn \/ \E w \in Requests : Touching(w) /\ on[w] = e
      BY <2>2 DEF HashIsOfBinary, RequestTypes
    <3> QED BY <1>1, <2>2, <3>1
  <2> QED BY <2>1, <2>2
<1> QED BY <1>3, <1>4

\* Neither: the records stay, and the request touches what it touched.
LEMMA NoWrite ==
    ASSUME Agree, NEW u \in Requests, UNCHANGED <<binary, hash, torn>>,
           Touching(u)' <=> Touching(u),
           Touching(u) => on'[u] = on[u] /\ new'[u] = new[u],
           \A w \in Requests \ {u} :
              pc'[w] = pc[w] /\ on'[w] = on[w] /\ new'[w] = new[w]
    PROVE  Agree'
<1>1. \A w \in Requests : Touching(w)' <=> Touching(w)
  BY DEF Touching
<1>2. \A w \in Requests :
         Touching(w) => on'[w] = on[w] /\ new'[w] = new[w]
  OBVIOUS
<1> QED BY <1>1, <1>2 DEF Agree, OneToucher, HashIsOfBinary

\* Requests that are cut short between their writes tear their definitions.
LEMMA CutShort ==
    ASSUME Agree, UNCHANGED <<binary, hash>>, torn \subseteq torn',
           \A w \in Requests :
              \/ /\ Touching(w)' <=> Touching(w)
                 /\ on'[w] = on[w] /\ new'[w] = new[w]
              \/ /\ ~Touching(w)'
                 /\ Touching(w) => on[w] \in torn'
    PROVE  Agree'
<1> QED BY DEF Agree, OneToucher, HashIsOfBinary

\* Every step of a request keeps the records in agreement.
LEMMA WriteAgrees ==
    ASSUME RequestTypes, DeletesNothingNew, Agree, NEW u \in Requests, Write(u)
    PROVE  Agree'
<1> USE PluginsAssumption DEF RequestTypes, Begin, Finish, Goto
<1>1. ASSUME NEW d \in Definitions, NEW b \in Binaries, CreateBinary(u, d, b)
      PROVE  Agree'
  <2>1. ~Touching(u) /\ Touching(u)'
    BY <1>1 DEF CreateBinary, Touching
  <2> QED BY <1>1, <2>1, FirstWrite DEF CreateBinary, WriteBinaryRecord
<1>2. ASSUME NEW d \in Definitions, NEW b \in Binaries, ReadBinary(u, d, b)
      PROVE  Agree'
  <2>1. ~Touching(u) /\ ~Touching(u)'
    BY <1>2 DEF ReadBinary, Touching
  <2> QED BY <1>2, <2>1, NoWrite DEF ReadBinary, records
<1>3. ASSUME NEW d \in Definitions, ReadMetaOnly(u, d) PROVE Agree'
  <2>1. ~Touching(u) /\ ~Touching(u)'
    BY <1>3 DEF ReadMetaOnly, Touching
  <2> QED BY <1>3, <2>1, NoWrite DEF ReadMetaOnly, records
<1>4. ASSUME NEW d \in Definitions, DeleteBinary(u, d) PROVE Agree'
  <2>1. ~Touching(u) /\ Touching(u)'
    BY <1>4 DEF DeleteBinary, Touching
  <2> QED BY <1>4, <2>1, FirstWrite DEF DeleteBinary, WriteBinaryRecord
<1>5. CASE CreateMeta(u)
  <2>1. Touching(u)
    BY <1>5 DEF CreateMeta, Touching
  <2> QED BY <1>5, <2>1, SecondWrite DEF CreateMeta, WriteMetaRecord
<1>6. CASE WriteBinary(u)
  <2>1. ~Touching(u) /\ Touching(u)' /\ on[u] \in Definitions
    BY <1>6 DEF WriteBinary, Touching
  <2> QED BY <1>6, <2>1, FirstWrite DEF WriteBinary, WriteBinaryRecord
<1>7. CASE ReadMeta(u)
  <2>1. Touching(u)' <=> Touching(u)
    BY <1>7 DEF ReadMeta, Touching
  <2> QED BY <1>7, <2>1, NoWrite DEF ReadMeta, records
<1>8. CASE WriteMeta(u)
  <2>1. CASE new[u] # NoBinary
    <3>1. Touching(u)
      BY <1>8, <2>1 DEF WriteMeta, Touching
    <3> QED BY <1>8, <2>1, <3>1, SecondWrite DEF WriteMeta, WriteMetaRecord
  <2>2. CASE new[u] = NoBinary
    <3>1. ~Touching(u) /\ ~Touching(u)' /\ hash' = hash
      BY <1>8, <2>2 DEF WriteMeta, Touching, WriteMetaRecord
    <3> QED BY <1>8, <3>1, NoWrite DEF WriteMeta, WriteMetaRecord
  <2> QED BY <2>1, <2>2
<1>9. CASE DeleteMeta(u)
  <2>1. Touching(u) /\ new[u] = NoBinary
    BY <1>9 DEF DeleteMeta, Touching, DeletesNothingNew
  <2> QED BY <1>9, <2>1, SecondWrite DEF DeleteMeta, WriteMetaRecord
<1>10. CASE RequestFails(u)
  <2>1. \A w \in Requests \ {u} :
           /\ Touching(w)' <=> Touching(w)
           /\ on'[w] = on[w] /\ new'[w] = new[w]
    BY <1>10 DEF RequestFails, Touching
  <2>2. ~Touching(u)' /\ (Touching(u) => on[u] \in torn')
    BY <1>10 DEF RequestFails, Touching
  <2> QED BY <1>10, <2>1, <2>2, CutShort DEF RequestFails
<1> QED BY <1>1, <1>2, <1>3, <1>4, <1>5, <1>6, <1>7, <1>8, <1>9, <1>10 DEF Write

-----------------------------------------------------------------------------
(* Runs *)

\* The steps of a run keep the types of the cache and of the guests.
LEMMA RunKeepsTypes ==
    ASSUME RequestTypes, RunTypes, NEW r \in Runs, Load(r) \/ Guest(r)
    PROVE  RunTypes'
<1> USE PluginsAssumption, CompiledIsReal
        DEF RequestTypes, RunTypes, cache, guests, effects
<1>1. ASSUME NEW d \in Definitions, StartRun(r, d) PROVE RunTypes'
  BY <1>1 DEF StartRun
<1>2. CASE Lock(r) BY <1>2 DEF Lock
<1>3. CASE Hit(r)
  <2>1. cached[key[r]] \in Compiled
    BY <1>3 DEF Hit
  <2> QED BY <1>3, <2>1 DEF Hit, Instantiate
<1>4. CASE Fetch(r) BY <1>4 DEF Fetch
<1>5. CASE Compile(r)
  <2>1. [wasm |-> fetched[r], host |-> r] \in Compiled /\ key[r] \in Binaries
    BY <1>5 DEF Compile, Compiled
  <2> QED BY <1>5, <2>1 DEF Compile, Instantiate
<1>6. CASE LoadFails(r) BY <1>6 DEF LoadFails
<1>7. CASE HostCall(r) \/ Cancel(r)
  <2>1. plugin[r].host \in Runs
    BY <1>7 DEF HostCall, Cancel, Compiled
  <2> QED BY <1>7, <2>1 DEF HostCall, Cancel
<1>8. CASE RunEnds(r) BY <1>8 DEF RunEnds
<1>9. CASE InstanceFails(r)
  <2>1. [wasm |-> fetched[r], host |-> r] \in Compiled /\ key[r] \in Binaries
    BY <1>9 DEF InstanceFails, Compiled
  <2> QED BY <1>9, <2>1 DEF InstanceFails
<1> QED BY <1>1, <1>2, <1>3, <1>4, <1>5, <1>6, <1>7, <1>8, <1>9 DEF Load, Guest

\* The steps of a run keep the mutex and the cache.
LEMMA RunKeepsCache ==
    ASSUME RunTypes, LockIsHeld, RunningIsCached, NEW r \in Runs,
           Load(r) \/ Guest(r)
    PROVE  LockIsHeld' /\ RunningIsCached'
<1> USE PluginsAssumption, CompiledIsReal
        DEF RunTypes, cache, guests, LockIsHeld, RunningIsCached
<1>1. ASSUME NEW d \in Definitions, StartRun(r, d)
      PROVE  LockIsHeld' /\ RunningIsCached'
  BY <1>1 DEF StartRun
<1>2. CASE Lock(r) BY <1>2 DEF Lock
<1>3. CASE Hit(r) BY <1>3 DEF Hit, Instantiate
<1>4. CASE Fetch(r) BY <1>4 DEF Fetch
<1>5. CASE Compile(r)
  <2>1. /\ lock = r /\ cached[key[r]] = NoPlugin /\ key[r] \in Binaries
        /\ cached' = [cached EXCEPT ![key[r]] = [wasm |-> fetched[r], host |-> r]]
        /\ plugin' = [plugin EXCEPT ![r] = [wasm |-> fetched[r], host |-> r]]
        /\ rpc' = [rpc EXCEPT ![r] = "running"] /\ key' = key
    BY <1>5 DEF Compile, Instantiate
  <2>2. \A s \in Runs : rpc[s] = "running" => key[s] # key[r]
    BY <2>1
  <2>3. \A s \in Runs \ {r} : rpc'[s] \notin {"locked", "compiling"}
    BY <2>1
  <2> QED BY <2>1, <2>2, <2>3
<1>6. CASE LoadFails(r) BY <1>6 DEF LoadFails
<1>7. CASE HostCall(r) \/ Cancel(r) BY <1>7 DEF HostCall, Cancel
<1>8. CASE RunEnds(r) BY <1>8 DEF RunEnds
<1>9. CASE InstanceFails(r)
  <2>1. /\ lock = r /\ cached[key[r]] = NoPlugin /\ key[r] \in Binaries
        /\ cached' = [cached EXCEPT ![key[r]] = [wasm |-> fetched[r], host |-> r]]
        /\ rpc' = [rpc EXCEPT ![r] = "done"]
        /\ plugin' = plugin /\ key' = key /\ lock' = NoRun
    BY <1>9 DEF InstanceFails
  <2>2. \A s \in Runs : rpc[s] = "running" => key[s] # key[r]
    BY <2>1
  <2>3. \A s \in Runs \ {r} : rpc'[s] \notin {"locked", "compiling"}
    BY <2>1
  <2> QED BY <2>1, <2>2, <2>3
<1> QED BY <1>1, <1>2, <1>3, <1>4, <1>5, <1>6, <1>7, <1>8, <1>9 DEF Load, Guest

\* A request that writes a binary leaves no straight run with another one.
LEMMA WriteKeepsCode ==
    ASSUME RequestTypes, RunTypes, StraightRuns, CodeIsOfHash,
           NEW u \in Requests, Write(u)
    PROVE  strayed' \subseteq Runs /\ StraightRuns' /\ CodeIsOfHash'
<1>1. UNCHANGED <<cached, rpc, def, key, fetched>>
  BY WritesRecords DEF cache, guests
<1>2. CASE UNCHANGED <<binary, strayed>>
  BY <1>1, <1>2 DEF StraightRuns, CodeIsOfHash, RunTypes
<1>3. ASSUME NEW d \in Definitions, NEW b \in Binaries \cup {NoBinary},
             binary' = [binary EXCEPT ![d] = b],
             strayed' = strayed \cup Fetching(d)
      PROVE  strayed' \subseteq Runs /\ StraightRuns' /\ CodeIsOfHash'
  <2>1. strayed' \subseteq Runs /\ CodeIsOfHash'
    BY <1>1, <1>3 DEF Fetching, CodeIsOfHash, RunTypes
  <2>2. ASSUME NEW r \in Runs \ strayed', rpc[r] \in {"waiting", "locked"}
        PROVE  binary'[def[r]] = key[r]
    <3>1. def[r] # d /\ def[r] \in Definitions /\ binary[def[r]] = key[r]
      BY <1>3, <2>2 DEF Fetching, StraightRuns, RunTypes
    <3> QED BY <1>3, <3>1 DEF RequestTypes
  <2>3. StraightRuns'
    BY <1>1, <1>3, <2>2 DEF StraightRuns
  <2> QED BY <2>1, <2>3
<1> QED BY <1>2, <1>3, WritesNoted

\* A run that is not noted reads the hash of the binary, fetches that binary, and
\* caches its code under that hash.
LEMMA RunKeepsCode ==
    ASSUME RequestTypes, RunTypes, HashIsOfBinary, StraightRuns, CodeIsOfHash,
           NEW r \in Runs, Load(r) \/ Guest(r)
    PROVE  StraightRuns' /\ CodeIsOfHash'
<1> USE DEF RunTypes, cache, guests, effects, StraightRuns, CodeIsOfHash
<1>1. UNCHANGED <<binary, hash>>
  BY RunsLoad DEF records
<1>2. ASSUME NEW d \in Definitions, StartRun(r, d)
      PROVE  StraightRuns' /\ CodeIsOfHash'
  <2>1. r \notin strayed' => binary[d] = hash[d]
    BY <1>2 DEF StartRun, HashIsOfBinary
  <2> QED BY <1>1, <1>2, <2>1 DEF StartRun
<1>3. CASE Lock(r) BY <1>1, <1>3 DEF Lock
<1>4. CASE Hit(r) BY <1>1, <1>4 DEF Hit, Instantiate
<1>5. CASE Fetch(r) BY <1>1, <1>5 DEF Fetch
<1>6. CASE Compile(r)
  <2>1. StraightRuns'
    BY <1>1, <1>6 DEF Compile, Instantiate
  <2>2. CodeIsOfHash'
    BY <1>6 DEF Compile, Instantiate
  <2> QED BY <2>1, <2>2
<1>7. CASE LoadFails(r) BY <1>1, <1>7 DEF LoadFails
<1>8. CASE HostCall(r) \/ Cancel(r) BY <1>1, <1>8 DEF HostCall, Cancel
<1>9. CASE RunEnds(r) BY <1>1, <1>9 DEF RunEnds
<1>10. CASE InstanceFails(r)
  <2>1. StraightRuns'
    BY <1>1, <1>10 DEF InstanceFails
  <2>2. CodeIsOfHash'
    BY <1>10 DEF InstanceFails
  <2> QED BY <2>1, <2>2
<1> QED BY <1>2, <1>3, <1>4, <1>5, <1>6, <1>7, <1>8, <1>9, <1>10 DEF Load, Guest

-----------------------------------------------------------------------------
(* Theorems *)

\* A restart keeps the invariant.
LEMMA RestartKeeps == IInv /\ Restart => IInv'
<1> SUFFICES ASSUME IInv, Restart PROVE IInv'
  OBVIOUS
<1> USE PluginsAssumption DEF IInv
<1>1. RequestTypes'
  <2>1. \A w \in Requests : Touching(w) => on[w] \in Definitions
    BY DEF TypeOK, Touching
  <2> QED BY <2>1 DEF Restart, TypeOK, RequestTypes
<1>2. RunTypes'
  BY DEF Restart, TypeOK, RunTypes, effects
<1>3. \A w \in Requests : ~Touching(w)' /\ (Touching(w) => on[w] \in torn')
  BY DEF Restart, Touching
<1>4. Agree'
  BY <1>3, CutShort DEF Restart, Agree
<1>5. DeletesNothingNew' /\ LockIsHeld' /\ RunningIsCached'
  BY DEF Restart, DeletesNothingNew, LockIsHeld, RunningIsCached, TypeOK
<1>6. StraightRuns' /\ CodeIsOfHash'
  BY DEF Restart, StraightRuns, CodeIsOfHash, TypeOK
<1> QED BY <1>1, <1>2, <1>4, <1>5, <1>6, TypesSplit DEF Agree, TypeOK, RequestTypes,
           RunTypes

\* Every step keeps the invariant.
LEMMA StepIInv == IInv /\ [Next]_vars => IInv'
<1> SUFFICES ASSUME IInv, [Next]_vars PROVE IInv'
  OBVIOUS
<1>1. RequestTypes /\ RunTypes /\ Agree /\ DeletesNothingNew
      /\ LockIsHeld /\ RunningIsCached /\ StraightRuns /\ CodeIsOfHash
  BY TypesSplit DEF IInv, Agree
<1>2. ASSUME NEW u \in Requests, Write(u) PROVE IInv'
  <2>1. RequestTypes' /\ Agree' /\ DeletesNothingNew'
    BY <1>1, <1>2, WriteTypes, WriteAgrees, WriteDeletes
  <2>2. UNCHANGED <<cache, guests, stopped, reported, calls>>
    BY <1>2, WritesRecords
  <2>3. strayed' \subseteq Runs /\ StraightRuns' /\ CodeIsOfHash'
    BY <1>1, <1>2, WriteKeepsCode
  <2>4. RunTypes' /\ LockIsHeld' /\ RunningIsCached'
    BY <1>1, <2>2, <2>3 DEF RunTypes, LockIsHeld, RunningIsCached, cache, guests
  <2> QED BY <2>1, <2>3, <2>4 DEF IInv, Agree, TypeOK, RequestTypes, RunTypes
<1>3. ASSUME NEW r \in Runs, Load(r) \/ Guest(r) PROVE IInv'
  <2>1. RunTypes' /\ LockIsHeld' /\ RunningIsCached'
    BY <1>1, <1>3, RunKeepsTypes, RunKeepsCache
  <2>2. UNCHANGED <<records, requests>>
    BY <1>3, RunsLoad
  <2>3. RequestTypes' /\ DeletesNothingNew'
    BY <1>1, <2>2 DEF RequestTypes, DeletesNothingNew, records, requests
  <2>4. Agree'
    BY <1>1, <2>2 DEF Agree, OneToucher, HashIsOfBinary, Touching, records,
                      requests
  <2>5. StraightRuns' /\ CodeIsOfHash'
    BY <1>1, <1>3, RunKeepsCode DEF Agree
  <2> QED BY <2>1, <2>3, <2>4, <2>5 DEF IInv, Agree, TypeOK, RequestTypes, RunTypes
<1>4. CASE Restart
  BY <1>4, RestartKeeps
<1>5. CASE UNCHANGED vars
  BY <1>5 DEF vars, records, requests, cache, guests, effects, IInv, TypeOK,
              DeletesNothingNew, OneToucher, HashIsOfBinary, Touching,
              LockIsHeld, RunningIsCached, StraightRuns, CodeIsOfHash
<1> QED BY <1>2, <1>3, <1>4, <1>5 DEF Next

\* The inductive invariant holds in every reachable state.
THEOREM Invariance == Spec => []IInv
<1> QED BY InitIInv, StepIInv, PTL DEF Spec

\* Records, requests, cache and guests keep their types.
THEOREM TypeCorrect == Spec => []TypeOK
<1>1. IInv => TypeOK
  BY DEF IInv
<1> QED BY <1>1, Invariance, PTL

\* Hash and binary of a definition agree, but for handlers between their two
\* writes, cut short there or overlapping there (DefinitionService).
THEOREM HashAgrees == Spec => []HashIsOfBinary
<1>1. IInv => HashIsOfBinary
  BY DEF IInv
<1> QED BY <1>1, Invariance, PTL

\* The cache holds other code than that of a hash only from a run whose definition
\* was written, or torn, between its start and its fetch (Challenge.Start).
THEOREM CodeOfHash == Spec => []CodeIsOfHash
<1>1. IInv => CodeIsOfHash
  BY DEF IInv
<1> QED BY <1>1, Invariance, PTL

\* Guests with one hash share one compiled plugin, the cached one (Cache.Load).
THEOREM PagesShared == Spec => []SharedPages
<1>1. IInv => SharedPages
  BY DEF IInv, RunningIsCached, SharedPages
<1> QED BY <1>1, Invariance, PTL

-----------------------------------------------------------------------------
(* What LoadEnds rests on *)

\* The mutex of the cache is taken by just the run that is between its lock and its
\* instance: no return of Load, no failure and no restart leaves it locked.
MutexHasHolder ==
    \A r \in Runs : lock = r <=> rpc[r] \in {"locked", "compiling"}

LEMMA StepMutex == IInv /\ MutexHasHolder /\ [Next]_vars => MutexHasHolder'
<1> SUFFICES ASSUME IInv, MutexHasHolder, [Next]_vars PROVE MutexHasHolder'
  OBVIOUS
<1> USE PluginsAssumption DEF MutexHasHolder, IInv, TypeOK
<1>1. CASE UNCHANGED <<lock, rpc>> BY <1>1
<1>2. ASSUME NEW r \in Runs, Load(r) PROVE MutexHasHolder'
  BY <1>2 DEF Load, Lock, Hit, Fetch, Compile, LoadFails, InstanceFails,
     Instantiate, cache
<1>3. ASSUME NEW r \in Runs, Guest(r) PROVE MutexHasHolder'
  BY <1>3 DEF Guest, StartRun, HostCall, Cancel, RunEnds, cache, guests
<1>4. CASE Restart BY <1>4 DEF Restart
<1>5. ASSUME NEW u \in Requests, Write(u) PROVE MutexHasHolder'
  BY <1>1, <1>5, WritesRecords DEF cache, guests
<1>6. CASE UNCHANGED vars BY <1>1, <1>6 DEF vars, cache, guests
<1> QED BY <1>2, <1>3, <1>4, <1>5, <1>6 DEF Next

\* Whoever waits in Cache.Load waits for a run that is loading, never for one that
\* is gone: the safety half of LoadEnds.
THEOREM MutexHeld == Spec => []MutexHasHolder
<1>1. Init => MutexHasHolder
  BY PluginsAssumption DEF Init, MutexHasHolder
<1> QED BY <1>1, StepMutex, Invariance, PTL DEF Spec

=============================================================================
