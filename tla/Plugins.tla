------------------------------- MODULE Plugins -------------------------------
(***************************************************************************)
(* Challenge plugins: the two records of a definition (its binary, and its *)
(* metadata with the hash of the binary), the DefinitionService handlers   *)
(* that write them one after the other, the compile cache of the server    *)
(* (internal/challenge, Cache), which is keyed by the hash, and the guests *)
(* that Challenge.Start instantiates from it.                              *)
(*                                                                         *)
(* The hash of a binary is identified with the binary: SHA-256 does not    *)
(* collide.  So hash[d] = binary[d] says that the records agree.           *)
(*                                                                         *)
(* A request u of Requests is one call of Create, Update or Delete.  A run *)
(* r of Runs is one challengerunner.Challenge, from Start to its end.      *)
(***************************************************************************)
EXTENDS Naturals

CONSTANTS
    Definitions, NoDefinition,
    Binaries, NoBinary,
    Requests,
    Runs, NoRun,
    Faults   \* which of "oltp" (a call fails), "crash" may happen

ASSUME PluginsAssumption ==
    /\ NoDefinition \notin Definitions
    /\ NoBinary \notin Binaries
    /\ NoRun \notin Runs

VARIABLES
    binary,    \* DefinitionBinary.WASM; NoBinary when there is no record
    hash,      \* Definition.Hash, likewise
    issued,    \* the definition ids Create has used
    pc, on, new,  \* of a request: where it is, its definition, its binary
    valid,     \* requests whose ETag matches the record they have read
    cached,    \* the compiled plugin for a hash
    lock,      \* who holds challengesLock
    rpc, def, key,  \* of a run: where it is, its definition, the hash it knows
    fetched,   \* the binary its factory has read
    plugin,    \* the compiled plugin its guest is an instance of
    stopped,   \* runs whose context was cancelled
    reported,  \* runs whose challenge has an Error
    (* history *)
    torn,      \* definitions with a write that was cut short or overlapped
    calls,     \* <<r, h>>: the guest of r called a host function bound to h
    strayed    \* runs whose definition may have changed before they fetched it

records == <<binary, hash, issued, torn>>
requests == <<pc, on, new, valid>>
cache == <<cached, lock>>
guests == <<rpc, def, key, fetched, plugin>>
effects == <<stopped, reported, calls, strayed>>
vars == <<records, requests, cache, guests, effects>>

\* A compiled plugin is its code and the host functions it was compiled with,
\* which are methods of one run.
Compiled == [wasm : Binaries, host : Runs]
NoPlugin == [wasm |-> NoBinary, host |-> NoRun]

TypeOK ==
    /\ binary \in [Definitions -> Binaries \cup {NoBinary}]
    /\ hash \in [Definitions -> Binaries \cup {NoBinary}]
    /\ issued \subseteq Definitions /\ torn \subseteq Definitions
    /\ pc \in [Requests -> {"idle", "create", "replace", "hash", "meta", "delete"}]
    /\ on \in [Requests -> Definitions \cup {NoDefinition}]
    /\ \A u \in Requests : pc[u] # "idle" => on[u] \in Definitions
    /\ new \in [Requests -> Binaries \cup {NoBinary}]
    /\ \A u \in Requests :
          pc[u] \in {"create", "replace"} => new[u] \in Binaries
    /\ valid \subseteq Requests
    /\ cached \in [Binaries -> Compiled \cup {NoPlugin}]
    /\ lock \in Runs \cup {NoRun}
    /\ rpc \in [Runs -> {"idle", "waiting", "locked", "compiling", "running", "done"}]
    /\ def \in [Runs -> Definitions \cup {NoDefinition}]
    /\ key \in [Runs -> Binaries \cup {NoBinary}]
    /\ \A r \in Runs :
          rpc[r] \notin {"idle", "done"} =>
             def[r] \in Definitions /\ key[r] \in Binaries
    /\ fetched \in [Runs -> Binaries \cup {NoBinary}]
    /\ \A r \in Runs : rpc[r] = "compiling" => fetched[r] \in Binaries
    /\ plugin \in [Runs -> Compiled \cup {NoPlugin}]
    /\ \A r \in Runs : rpc[r] = "running" => plugin[r] \in Compiled
    /\ stopped \subseteq Runs /\ reported \subseteq Runs
    /\ calls \subseteq Runs \X Runs /\ strayed \subseteq Runs

Init ==
    /\ binary = [d \in Definitions |-> NoBinary]
    /\ hash = binary /\ issued = {} /\ torn = {}
    /\ pc = [u \in Requests |-> "idle"]
    /\ on = [u \in Requests |-> NoDefinition]
    /\ new = [u \in Requests |-> NoBinary]
    /\ valid = {}
    /\ cached = [h \in Binaries |-> NoPlugin]
    /\ lock = NoRun
    /\ rpc = [r \in Runs |-> "idle"]
    /\ def = [r \in Runs |-> NoDefinition]
    /\ key = [r \in Runs |-> NoBinary]
    /\ fetched = key
    /\ plugin = [r \in Runs |-> NoPlugin]
    /\ stopped = {} /\ reported = {} /\ calls = {} /\ strayed = {}

-----------------------------------------------------------------------------
(* Definitions *)

\* Between its write of the binary and its write of the hash.
Touching(u) ==
    \/ pc[u] \in {"create", "delete"}
    \/ pc[u] \in {"hash", "meta"} /\ new[u] # NoBinary

\* Another request has written one of the records of d and not yet the other.
Contested(u, d) == \E w \in Requests \ {u} : Touching(w) /\ on[w] = d

\* Runs that know the hash of d and have yet to read its binary.
Fetching(d) == {r \in Runs : def[r] = d /\ rpc[r] \in {"waiting", "locked"}}

Goto(u, label) == pc' = [pc EXCEPT ![u] = label]

Finish(u) ==
    /\ Goto(u, "idle")
    /\ on' = [on EXCEPT ![u] = NoDefinition]
    /\ new' = [new EXCEPT ![u] = NoBinary]

\* Request u writes the record that requests at label hold an ETag of.
Outdate(d, label) ==
    valid' = valid \ {w \in Requests : on[w] = d /\ pc[w] = label}

WriteBinaryRecord(u, d, b) ==
    /\ binary' = [binary EXCEPT ![d] = b]
    /\ torn' = IF Contested(u, d) THEN torn \cup {d} ELSE torn
    /\ Outdate(d, "replace")
    /\ strayed' = strayed \cup Fetching(d)
    /\ UNCHANGED <<hash, cache, guests, stopped, reported, calls>>

WriteMetaRecord(d, h) ==
    /\ hash' = [hash EXCEPT ![d] = h]
    /\ Outdate(d, "meta")
    /\ UNCHANGED <<binary, issued, torn, cache, guests, effects>>

\* A request begins for definition d with binary b.
Begin(u, d, b, label) ==
    /\ pc[u] = "idle"
    /\ Goto(u, label)
    /\ on' = [on EXCEPT ![u] = d]
    /\ new' = [new EXCEPT ![u] = b]

\* Create: the binary under a fresh id, then the metadata.
CreateBinary(u, d, b) ==
    /\ d \notin issued
    /\ issued' = issued \cup {d}
    /\ Begin(u, d, b, "create")
    /\ WriteBinaryRecord(u, d, b)

CreateMeta(u) ==
    /\ pc[u] = "create"
    /\ WriteMetaRecord(on[u], new[u])
    /\ Finish(u)

\* Update with a binary reads the binary record, for its ETag.
ReadBinary(u, d, b) ==
    /\ binary[d] # NoBinary
    /\ Begin(u, d, b, "replace")
    /\ valid' = valid \cup {u}
    /\ UNCHANGED <<records, cache, guests, effects>>

WriteBinary(u) ==
    /\ pc[u] = "replace" /\ u \in valid
    /\ WriteBinaryRecord(u, on[u], new[u])
    /\ Goto(u, "hash")
    /\ UNCHANGED <<issued, on, new>>

\* The metadata is read after that, for its ETag.
ReadMeta(u) ==
    /\ pc[u] = "hash" /\ hash[on[u]] # NoBinary
    /\ Goto(u, "meta")
    /\ valid' = valid \cup {u}
    /\ UNCHANGED <<records, on, new, cache, guests, effects>>

\* Update without a binary begins here.
ReadMetaOnly(u, d) ==
    /\ hash[d] # NoBinary
    /\ Begin(u, d, NoBinary, "meta")
    /\ valid' = valid \cup {u}
    /\ UNCHANGED <<records, cache, guests, effects>>

\* Mutant of WriteMeta: the update function gives back the original hash.
WriteMetaOriginal(u) ==
    /\ pc[u] = "meta" /\ u \in valid
    /\ WriteMetaRecord(on[u], hash[on[u]])
    /\ Finish(u)

\* The hash is replaced if there is a new one.
WriteMeta(u) ==
    /\ pc[u] = "meta" /\ u \in valid
    /\ WriteMetaRecord(on[u],
          IF new[u] # NoBinary THEN new[u] ELSE hash[on[u]])
    /\ Finish(u)

\* Delete: the binary, then the metadata.
DeleteBinary(u, d) ==
    /\ d \in issued
    /\ Begin(u, d, NoBinary, "delete")
    /\ WriteBinaryRecord(u, d, NoBinary)
    /\ UNCHANGED issued

DeleteMeta(u) ==
    /\ pc[u] = "delete"
    /\ WriteMetaRecord(on[u], NoBinary)
    /\ Finish(u)

\* The next call of u fails: its ETag is outdated, its record is gone, or the
\* store does not answer.  What it has written stays.
RequestFails(u) ==
    /\ \/ pc[u] \in {"replace", "meta"} /\ u \notin valid
       \/ pc[u] = "hash" /\ hash[on[u]] = NoBinary
       \/ pc[u] # "idle" /\ "oltp" \in Faults
    /\ torn' = IF Touching(u) THEN torn \cup {on[u]} ELSE torn
    /\ Finish(u)
    /\ UNCHANGED <<binary, hash, issued, valid, cache, guests, effects>>

-----------------------------------------------------------------------------
(* The compile cache *)

\* ChallengeService.Start reads the metadata, hash included, and schedules the
\* runner.
StartRun(r, d) ==
    /\ rpc[r] = "idle" /\ hash[d] # NoBinary
    /\ rpc' = [rpc EXCEPT ![r] = "waiting"]
    /\ def' = [def EXCEPT ![r] = d]
    /\ key' = [key EXCEPT ![r] = hash[d]]
    /\ strayed' = IF d \in torn \/ \E u \in Requests : Touching(u) /\ on[u] = d
                  THEN strayed \cup {r} ELSE strayed
    /\ UNCHANGED <<records, requests, cache, fetched, plugin, stopped,
                   reported, calls>>

\* Mutant of Lock: the mutex guards the map only, not the whole of Load.
LockShared(r) ==
    /\ rpc[r] = "waiting"
    /\ lock' = r
    /\ rpc' = [rpc EXCEPT ![r] = "locked"]
    /\ UNCHANGED <<records, requests, cached, def, key, fetched, plugin, effects>>

\* Load takes the mutex.  Its call of clean, before, takes and gives back the
\* mutex and changes nothing: lastUsage, which it ranges over, stays empty.
Lock(r) ==
    /\ rpc[r] = "waiting" /\ lock = NoRun
    /\ lock' = r
    /\ rpc' = [rpc EXCEPT ![r] = "locked"]
    /\ UNCHANGED <<records, requests, cached, def, key, fetched, plugin, effects>>

\* The guest is instantiated from compiled plugin p; Load returns.
Instantiate(r, p) ==
    /\ plugin' = [plugin EXCEPT ![r] = p]
    /\ rpc' = [rpc EXCEPT ![r] = "running"]
    /\ lock' = NoRun
    /\ UNCHANGED <<records, requests, def, key, effects>>

\* The hash is in the cache.
Hit(r) ==
    /\ rpc[r] = "locked" /\ cached[key[r]] # NoPlugin
    /\ Instantiate(r, cached[key[r]])
    /\ UNCHANGED <<cached, fetched>>

\* It is not: the factory reads the binary the definition has now.
Fetch(r) ==
    /\ rpc[r] = "locked" /\ cached[key[r]] = NoPlugin
    /\ binary[def[r]] # NoBinary
    /\ fetched' = [fetched EXCEPT ![r] = binary[def[r]]]
    /\ rpc' = [rpc EXCEPT ![r] = "compiling"]
    /\ UNCHANGED <<records, requests, cache, def, key, plugin, effects>>

\* It is compiled, with the host functions of this run, and cached.
Compile(r) ==
    /\ rpc[r] = "compiling"
    /\ cached' = [cached EXCEPT ![key[r]] = [wasm |-> fetched[r], host |-> r]]
    /\ Instantiate(r, [wasm |-> fetched[r], host |-> r])
    /\ UNCHANGED fetched

\* Mutant of LoadFails: the early return forgets to unlock.
LoadFailsLocked(r) ==
    /\ \/ rpc[r] = "locked" /\ cached[key[r]] = NoPlugin
             /\ binary[def[r]] = NoBinary
       \/ rpc[r] \in {"locked", "compiling"} /\ "oltp" \in Faults
    /\ rpc' = [rpc EXCEPT ![r] = "done"]
    /\ UNCHANGED <<records, requests, cached, lock, def, key, fetched, plugin,
                   effects>>

\* The binary is gone, cannot be read, decoded or compiled, or a plugin from the
\* cache cannot be instantiated.
LoadFails(r) ==
    /\ \/ rpc[r] = "locked" /\ cached[key[r]] = NoPlugin
             /\ binary[def[r]] = NoBinary
       \/ rpc[r] \in {"locked", "compiling"} /\ "oltp" \in Faults
    /\ rpc' = [rpc EXCEPT ![r] = "done"]
    /\ lock' = NoRun
    /\ UNCHANGED <<records, requests, cached, def, key, fetched, plugin, effects>>

\* It is compiled and cannot be instantiated: it stays in the cache without a guest.
InstanceFails(r) ==
    /\ rpc[r] = "compiling" /\ "oltp" \in Faults
    /\ cached' = [cached EXCEPT ![key[r]] = [wasm |-> fetched[r], host |-> r]]
    /\ rpc' = [rpc EXCEPT ![r] = "done"]
    /\ lock' = NoRun
    /\ UNCHANGED <<records, requests, def, key, fetched, plugin, effects>>

-----------------------------------------------------------------------------
(* Guests *)

\* The guest calls a host function (updateScore, createMeta, createPermission,
\* createResource, ...): it acts for the run the function is a method of.
HostCall(r) ==
    /\ rpc[r] = "running" /\ r \notin stopped
    /\ calls' = calls \cup {<<r, plugin[r].host>>}
    /\ UNCHANGED <<records, requests, cache, guests, stopped, reported, strayed>>

\* The guest calls cancel: the run's context is cancelled, then its Error is
\* written under the context of the calling guest.
Cancel(r) ==
    LET h == plugin[r].host IN
    /\ rpc[r] = "running" /\ r \notin stopped
    /\ calls' = calls \cup {<<r, h>>}
    /\ stopped' = stopped \cup {h}
    /\ reported' = IF r \in stopped' THEN reported ELSE reported \cup {h}
    /\ UNCHANGED <<records, requests, cache, guests, strayed>>

\* The guest returns or traps, or its context ends; the instance is closed, the
\* compiled plugin stays.
RunEnds(r) ==
    /\ rpc[r] = "running"
    /\ rpc' = [rpc EXCEPT ![r] = "done"]
    /\ UNCHANGED <<records, requests, cache, def, key, fetched, plugin, effects>>

-----------------------------------------------------------------------------
\* The server goes down (the cache is closed with it) and comes up again.
Restart ==
    /\ "crash" \in Faults
    /\ torn' = torn \cup {on[u] : u \in {w \in Requests : Touching(w)}}
    /\ pc' = [u \in Requests |-> "idle"]
    /\ on' = [u \in Requests |-> NoDefinition]
    /\ new' = [u \in Requests |-> NoBinary]
    /\ valid' = {}
    /\ cached' = [h \in Binaries |-> NoPlugin]
    /\ lock' = NoRun
    /\ rpc' = [r \in Runs |-> IF rpc[r] = "idle" THEN "idle" ELSE "done"]
    /\ UNCHANGED <<binary, hash, issued, def, key, fetched, plugin, effects>>

Write(u) ==
    \/ \E d \in Definitions, b \in Binaries :
          CreateBinary(u, d, b) \/ ReadBinary(u, d, b)
    \/ \E d \in Definitions : ReadMetaOnly(u, d) \/ DeleteBinary(u, d)
    \/ CreateMeta(u) \/ WriteBinary(u) \/ ReadMeta(u) \/ WriteMeta(u)
    \/ DeleteMeta(u) \/ RequestFails(u)

Load(r) ==
    Lock(r) \/ Hit(r) \/ Fetch(r) \/ Compile(r) \/ LoadFails(r) \/ InstanceFails(r)

Guest(r) ==
    \/ \E d \in Definitions : StartRun(r, d)
    \/ HostCall(r) \/ Cancel(r) \/ RunEnds(r)

Next ==
    \/ \E u \in Requests : Write(u)
    \/ \E r \in Runs : Load(r) \/ Guest(r)
    \/ Restart

Spec == Init /\ [][Next]_vars

\* A goroutine goes on, and sync.Mutex does not starve who waits for it.
FairSpec ==
    /\ Spec
    /\ \A r \in Runs : WF_vars(Load(r)) /\ SF_vars(Lock(r))

-----------------------------------------------------------------------------
(* Properties *)

\* The hash is that of the binary, unless a handler is between its two writes,
\* was cut short there, or two handlers overlapped there.
HashIsOfBinary ==
    \A d \in Definitions :
        hash[d] # binary[d] =>
            d \in torn \/ \E u \in Requests : Touching(u) /\ on[u] = d

\* Guests with the same hash are instances of one compiled plugin, compiled
\* once, and it is the one a later guest will get: nobody closes, evicts or
\* replaces it under them.
SharedPages ==
    \A r, s \in Runs :
        rpc[r] = "running" =>
            /\ cached[key[r]] = plugin[r]
            /\ rpc[s] = "running" /\ key[s] = key[r] => plugin[s] = plugin[r]

\* The code in the cache is that of its hash, unless the run that compiled it
\* started while the records of its definition were apart, or the definition
\* was written between that run's reading of the hash and its factory's reading
\* of the binary (Cache.Load, and the factory of Challenge.Start).
CodeIsOfHash ==
    \A h \in Binaries :
        cached[h] # NoPlugin /\ cached[h].wasm # h => cached[h].host \in strayed

\* Every load ends, in a guest or in a failure, whoever else loads.
LoadEnds ==
    \A r \in Runs :
        rpc[r] \in {"waiting", "locked", "compiling"}
            ~> rpc[r] \in {"running", "done"}

-----------------------------------------------------------------------------
(* What the repository says and the code does not keep *)

\* challenge.go: a Challenge runs its plugin and implements the API for it, so
\* what a guest calls acts for its own run.
HostIsOwn == \A r, h \in Runs : <<r, h>> \in calls => r = h

=============================================================================
