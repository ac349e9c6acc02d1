------------------------------- MODULE Scoring -------------------------------
(***************************************************************************)
(* Points: the check loop of the challenge SDK inside the guest            *)
(* (pkg/challenge, Scenario), the host functions it calls (createMeta,     *)
(* updateMeta, updateScore) and ChallengeService.UncoverClue.              *)
(*                                                                         *)
(* Points are kept twice: in Team.Score, a sum that is incremented, and in *)
(* Challenge.ScoreEvents, a list that is appended to.  They are two        *)
(* records, so every award and every charge is two writes.  What matters   *)
(* of both is how often an item (a check or a clue) of a challenge went    *)
(* into them; its points are a constant factor.  A write that fails is not *)
(* made: one that is made and reported as failed is left out.              *)
(*                                                                         *)
(* A run r of Runs is one instance of the guest.  Start does not look for  *)
(* an earlier run of its challenge, so a challenge may have several.       *)
(***************************************************************************)
EXTENDS Naturals, FiniteSets

CONSTANTS
    Challenges, NoChallenge,
    Checks,      \* names of checks
    Repeating,   \* those added with Repeat
    Clues,       \* names of clues
    Runs,        \* guest instances
    Requests,    \* slots for UncoverClue
    NoItem,
    Every,       \* Check.Every, in rounds of the loop
    MaxCount,    \* bound of every count
    Faults       \* {"oltp"}: writes to the store may fail

Items == Checks \cup Clues

ASSUME ScoringAssumption ==
    /\ NoChallenge \notin Challenges
    /\ Repeating \subseteq Checks
    /\ Checks \cap Clues = {}
    /\ NoItem \notin Items
    /\ Every \in [Checks -> Nat]
    /\ MaxCount \in Nat
    /\ IsFiniteSet(Runs) /\ IsFiniteSet(Requests)

VARIABLES
    credit,     \* how often an item of a challenge went into Team.Score
    log,        \* how often it went into Challenge.ScoreEvents
    clues, priced, uncovered,  \* Clues, CluePrices and UncoveredClues
    solved,     \* checks whose trigger would say true now
    pc, of, cur,  \* of a run: where it is, its challenge, the check it awards
    checks, retired, todo, wait,  \* its check map, and what is left of a round
    early,      \* clues it was given before Start
    req, reqOf, reqClue,  \* of a request: where it is and what it uncovers
    (* history *)
    lost,       \* second writes that will never happen
    issued      \* how often a check was added to a run of the challenge

store == <<credit, log, clues, priced, uncovered>>
guest == <<pc, of, cur, checks, retired, todo, wait, early>>
requests == <<req, reqOf, reqClue>>
vars == <<store, solved, guest, requests, lost, issued>>

Counts == [Challenges -> [Items -> Nat]]

TypeOK ==
    /\ credit \in Counts /\ log \in Counts
    /\ lost \in Counts /\ issued \in Counts
    /\ clues \in [Challenges -> SUBSET Clues]
    /\ priced \in [Challenges -> SUBSET Clues]
    /\ uncovered \in [Challenges -> SUBSET Clues]
    /\ solved \in [Challenges -> SUBSET Checks]
    /\ pc \in [Runs -> {"off", "new", "sleeping", "checking", "award",
                        "logging", "done"}]
    /\ of \in [Runs -> Challenges \cup {NoChallenge}]
    /\ \A r \in Runs : pc[r] # "off" => of[r] \in Challenges
    /\ cur \in [Runs -> Checks \cup {NoItem}]
    /\ \A r \in Runs : pc[r] \in {"award", "logging"} => cur[r] \in Checks
    /\ checks \in [Runs -> SUBSET Checks]
    /\ retired \in [Runs -> SUBSET Checks]
    /\ todo \in [Runs -> SUBSET Checks]
    /\ wait \in [Runs -> [Checks -> Nat]]
    /\ early \in [Runs -> SUBSET Clues]
    /\ req \in [Requests -> {"idle", "uncover", "charge"}]
    /\ reqOf \in [Requests -> Challenges \cup {NoChallenge}]
    /\ reqClue \in [Requests -> Clues \cup {NoItem}]
    /\ \A q \in Requests :
          req[q] # "idle" => reqOf[q] \in Challenges /\ reqClue[q] \in Clues

Init ==
    /\ credit = [c \in Challenges |-> [i \in Items |-> 0]]
    /\ log = credit /\ lost = credit /\ issued = credit
    /\ clues = [c \in Challenges |-> {}]
    /\ priced = clues /\ uncovered = clues
    /\ solved = [c \in Challenges |-> {}]
    /\ pc = [r \in Runs |-> "off"]
    /\ of = [r \in Runs |-> NoChallenge]
    /\ cur = [r \in Runs |-> NoItem]
    /\ checks = [r \in Runs |-> {}]
    /\ retired = checks /\ todo = checks /\ early = checks
    /\ wait = [r \in Runs |-> [k \in Checks |-> 0]]
    /\ req = [q \in Requests |-> "idle"]
    /\ reqOf = [q \in Requests |-> NoChallenge]
    /\ reqClue = [q \in Requests |-> NoItem]

Inc(f, c, i) == [f EXCEPT ![c][i] = @ + 1]

Goto(r, label) == pc' = [pc EXCEPT ![r] = label]

-----------------------------------------------------------------------------
(* The guest before its loop *)

\* Start launches the plugin for challenge c; its main builds a scenario.
Launch(r, c) ==
    /\ pc[r] = "off"
    /\ Goto(r, "new")
    /\ of' = [of EXCEPT ![r] = c]
    /\ UNCHANGED <<store, solved, cur, checks, retired, todo, wait, early,
                   requests, lost, issued>>

\* A clue added before Start: the price it is given is not kept.
AddClueEarly(r, k) ==
    /\ pc[r] = "new"
    /\ early' = [early EXCEPT ![r] = @ \cup {k}]
    /\ UNCHANGED <<store, solved, pc, of, cur, checks, retired, todo, wait,
                   requests, lost, issued>>

\* Scenario.Start publishes what was added before it, in one call.
Publish(r) ==
    /\ pc[r] = "new"
    /\ clues' = [clues EXCEPT ![of[r]] = early[r]]
    /\ Goto(r, "sleeping")
    /\ UNCHANGED <<credit, log, priced, uncovered, solved, of, cur, checks,
                   retired, todo, wait, early, requests, lost, issued>>

\* Mutant of AddClueLater: the price is not sent.
AddClueUnpriced(r, k) ==
    /\ pc[r] \in {"sleeping", "checking"}
    /\ clues' = [clues EXCEPT ![of[r]] = @ \cup {k}]
    /\ UNCHANGED <<credit, log, priced, uncovered, solved, guest, requests, lost,
                   issued>>

\* A clue added later is published at once, with its price.
AddClueLater(r, k) ==
    /\ pc[r] \in {"sleeping", "checking"}
    /\ clues' = [clues EXCEPT ![of[r]] = @ \cup {k}]
    /\ priced' = [priced EXCEPT ![of[r]] = @ \cup {k}]
    /\ UNCHANGED <<credit, log, uncovered, solved, guest, requests, lost, issued>>

-----------------------------------------------------------------------------
(* The check map, which evaluateChecks locks for a whole round *)

Unlocked(r) == pc[r] \in {"new", "sleeping"}

\* A check of that name is replaced: the new one is live and due at once.
AddCheck(r, k) ==
    /\ Unlocked(r)
    /\ issued[of[r]][k] < MaxCount
    /\ checks' = [checks EXCEPT ![r] = @ \cup {k}]
    /\ retired' = [retired EXCEPT ![r] = @ \ {k}]
    /\ wait' = [wait EXCEPT ![r][k] = 0]
    /\ issued' = Inc(issued, of[r], k)
    /\ UNCHANGED <<store, solved, pc, of, cur, todo, early, requests, lost>>

\* Mutant of RemoveCheck: it does not wait for the lock.
RemoveCheckUnlocked(r, k) ==
    /\ pc[r] \in {"new", "sleeping", "checking", "award"}
    /\ checks' = [checks EXCEPT ![r] = @ \ {k}]
    /\ UNCHANGED <<store, solved, pc, of, cur, retired, todo, wait, early,
                   requests, lost, issued>>

RemoveCheck(r, k) ==
    /\ Unlocked(r)
    /\ checks' = [checks EXCEPT ![r] = @ \ {k}]
    /\ UNCHANGED <<store, solved, pc, of, cur, retired, todo, wait, early,
                   requests, lost, issued>>

-----------------------------------------------------------------------------
(* Scenario.evaluateChecks, once a round *)

Wake(r) ==
    /\ pc[r] = "sleeping"
    /\ Goto(r, "checking")
    /\ todo' = [todo EXCEPT ![r] = checks[r]]
    /\ wait' = [wait EXCEPT ![r] =
                   [k \in Checks |-> IF @[k] = 0 THEN 0 ELSE @[k] - 1]]
    /\ UNCHANGED <<store, solved, of, cur, checks, retired, early, requests,
                   lost, issued>>

Live(r, k) == k \in checks[r] /\ k \notin retired[r]

Skip(r, k) ==
    /\ pc[r] = "checking" /\ k \in todo[r]
    /\ ~Live(r, k) \/ wait[r][k] > 0
    /\ todo' = [todo EXCEPT ![r] = @ \ {k}]
    /\ UNCHANGED <<store, solved, pc, of, cur, checks, retired, wait, early,
                   requests, lost, issued>>

Due(r, k) ==
    /\ pc[r] = "checking" /\ k \in todo[r]
    /\ Live(r, k) /\ wait[r][k] = 0
    /\ wait' = [wait EXCEPT ![r][k] = Every[k]]

\* What the trigger says.  (The bound is on checks that repeat: their triggers
\* stop passing.)
Triggers(r, k) ==
    /\ k \in solved[of[r]]
    /\ k \in Repeating => credit[of[r]][k] < MaxCount

\* The trigger says false, or fails.
NotPassed(r, k) ==
    /\ Due(r, k)
    /\ ~Triggers(r, k)
    /\ todo' = [todo EXCEPT ![r] = @ \ {k}]
    /\ UNCHANGED <<store, solved, pc, of, cur, checks, retired, early,
                   requests, lost, issued>>

Passed(r, k) ==
    /\ Due(r, k)
    /\ Triggers(r, k)
    /\ Goto(r, "award")
    /\ cur' = [cur EXCEPT ![r] = k]
    /\ UNCHANGED <<store, solved, of, checks, retired, todo, early, requests,
                   lost, issued>>

\* updateScore, first write: the team.
Credit(r) ==
    /\ pc[r] = "award"
    /\ credit' = Inc(credit, of[r], cur[r])
    /\ Goto(r, "logging")
    /\ UNCHANGED <<log, clues, priced, uncovered, solved, of, cur, checks,
                   retired, todo, wait, early, requests, lost, issued>>

\* Mutants of Log: the check is never retired, as docs/challenges/aws/sdk.md:134 has
\* it of a loop that changes a copy of the check; the event is written once more.
LogKeepsLive(r) ==
    /\ pc[r] = "logging"
    /\ log' = Inc(log, of[r], cur[r])
    /\ todo' = [todo EXCEPT ![r] = @ \ {cur[r]}]
    /\ Goto(r, "checking")
    /\ UNCHANGED <<credit, clues, priced, uncovered, solved, of, cur, checks,
                   retired, wait, early, requests, lost, issued>>

LogAgain(r) ==
    /\ pc[r] = "logging"
    /\ log[of[r]][cur[r]] < MaxCount
    /\ log' = Inc(log, of[r], cur[r])
    /\ UNCHANGED <<credit, clues, priced, uncovered, solved, guest, requests,
                   lost, issued>>

\* updateScore, second write: the challenge.  The guest hears of the success and
\* retires the check, unless it repeats.
Log(r) ==
    /\ pc[r] = "logging"
    /\ log' = Inc(log, of[r], cur[r])
    /\ retired' = [retired EXCEPT ![r] = @ \cup ({cur[r]} \ Repeating)]
    /\ todo' = [todo EXCEPT ![r] = @ \ {cur[r]}]
    /\ Goto(r, "checking")
    /\ UNCHANGED <<credit, clues, priced, uncovered, solved, of, cur, checks,
                   wait, early, requests, lost, issued>>

\* Mutant of AwardFails: the check is retired although the guest got an error.
AwardFailsForGood(r) ==
    /\ "oltp" \in Faults
    /\ \/ pc[r] = "award" /\ UNCHANGED lost
       \/ /\ pc[r] = "logging"
          /\ lost[of[r]][cur[r]] < MaxCount
          /\ lost' = Inc(lost, of[r], cur[r])
    /\ retired' = [retired EXCEPT ![r] = @ \cup ({cur[r]} \ Repeating)]
    /\ todo' = [todo EXCEPT ![r] = @ \ {cur[r]}]
    /\ Goto(r, "checking")
    /\ UNCHANGED <<store, solved, of, cur, checks, wait, early, requests, issued>>

\* One of the two writes fails.  The host answers with an empty block, which the
\* guest cannot decode: an error, and the check stays live for the next round.
AwardFails(r) ==
    /\ "oltp" \in Faults
    /\ \/ pc[r] = "award" /\ UNCHANGED lost
       \/ /\ pc[r] = "logging"
          /\ lost[of[r]][cur[r]] < MaxCount
          /\ lost' = Inc(lost, of[r], cur[r])
    /\ todo' = [todo EXCEPT ![r] = @ \ {cur[r]}]
    /\ Goto(r, "checking")
    /\ UNCHANGED <<store, solved, of, cur, checks, retired, wait, early,
                   requests, issued>>

\* The round is over; the loop sleeps.
EndRound(r) ==
    /\ pc[r] = "checking" /\ todo[r] = {}
    /\ Goto(r, "sleeping")
    /\ UNCHANGED <<store, solved, of, cur, checks, retired, todo, wait, early,
                   requests, lost, issued>>

\* The game ends, the guest panics or cancels, or the server goes down.  A write
\* still to be made under the ended context is not made.
End(r) ==
    /\ pc[r] \notin {"off", "done"}
    /\ Goto(r, "done")
    /\ lost' = IF pc[r] = "logging" THEN Inc(lost, of[r], cur[r]) ELSE lost
    /\ UNCHANGED <<store, solved, of, cur, checks, retired, todo, wait, early,
                   requests, issued>>

-----------------------------------------------------------------------------
(* ChallengeService.UncoverClue *)

\* The handler finds a price for the clue, in a read of its own.
FindPrice(q, c, k) ==
    /\ req[q] = "idle"
    /\ k \in priced[c]
    /\ log[c][k] < MaxCount
    /\ req' = [req EXCEPT ![q] = "uncover"]
    /\ reqOf' = [reqOf EXCEPT ![q] = c]
    /\ reqClue' = [reqClue EXCEPT ![q] = k]
    /\ UNCHANGED <<store, solved, guest, lost, issued>>

\* First write: the challenge.
Uncover(q) ==
    /\ req[q] = "uncover"
    /\ log' = Inc(log, reqOf[q], reqClue[q])
    /\ uncovered' = [uncovered EXCEPT ![reqOf[q]] = @ \cup {reqClue[q]}]
    /\ req' = [req EXCEPT ![q] = "charge"]
    /\ UNCHANGED <<credit, clues, priced, solved, guest, reqOf, reqClue, lost,
                   issued>>

\* Second write: the team.
Charge(q) ==
    /\ req[q] = "charge"
    /\ credit' = Inc(credit, reqOf[q], reqClue[q])
    /\ req' = [req EXCEPT ![q] = "idle"]
    /\ UNCHANGED <<log, clues, priced, uncovered, solved, guest, reqOf, reqClue,
                   lost, issued>>

\* One of the two fails, or its caller has gone: the team keeps the points it
\* owes.
UncoverFails(q) ==
    /\ "oltp" \in Faults
    /\ \/ req[q] = "uncover" /\ UNCHANGED lost
       \/ req[q] = "charge" /\ lost' = Inc(lost, reqOf[q], reqClue[q])
    /\ req' = [req EXCEPT ![q] = "idle"]
    /\ UNCHANGED <<store, solved, guest, reqOf, reqClue, issued>>

-----------------------------------------------------------------------------
\* The players change what the triggers see.
Play(c, k) ==
    /\ solved' = [solved EXCEPT ![c] =
                     IF k \in @ THEN @ \ {k} ELSE @ \cup {k}]
    /\ UNCHANGED <<store, guest, requests, lost, issued>>

Loop(r) ==
    \/ Wake(r) \/ EndRound(r) \/ Credit(r) \/ Log(r) \/ AwardFails(r)
    \/ \E k \in Checks : Skip(r, k) \/ NotPassed(r, k) \/ Passed(r, k)

Build(r) ==
    \/ \E c \in Challenges : Launch(r, c)
    \/ \E k \in Clues : AddClueEarly(r, k) \/ AddClueLater(r, k)
    \/ \E k \in Checks : AddCheck(r, k) \/ RemoveCheck(r, k)
    \/ Publish(r)

Request(q) ==
    \/ \E c \in Challenges, k \in Clues : FindPrice(q, c, k)
    \/ Uncover(q) \/ Charge(q) \/ UncoverFails(q)

Next ==
    \/ \E r \in Runs : Build(r) \/ Loop(r) \/ End(r)
    \/ \E q \in Requests : Request(q)
    \/ \E c \in Challenges, k \in Checks : Play(c, k)

Spec == Init /\ [][Next]_vars

\* The guest's loop goes on as long as the guest lives, and a write the loop
\* retries for ever succeeds some time.
FairSpec ==
    /\ Spec
    /\ \A r \in Runs :
          /\ WF_vars(Loop(r))
          /\ SF_vars(Credit(r)) /\ SF_vars(Log(r))

-----------------------------------------------------------------------------
(* Properties *)

\* Awards whose second write is still to come, charges likewise.
Awarding(c, k) ==
    {r \in Runs : pc[r] = "logging" /\ of[r] = c /\ cur[r] = k}

Charging(c, k) ==
    {q \in Requests : req[q] = "charge" /\ reqOf[q] = c /\ reqClue[q] = k}

\* Score and score events tell the same story, up to the second writes that are
\* still to come or were lost: an award is in the score first, a charge in the
\* events first.
Ledger ==
    \A c \in Challenges :
        /\ \A k \in Checks :
              credit[c][k] = log[c][k] + Cardinality(Awarding(c, k)) + lost[c][k]
        /\ \A k \in Clues :
              log[c][k] = credit[c][k] + Cardinality(Charging(c, k)) + lost[c][k]

\* A check that does not repeat appears in the score events at most once for
\* each time it was added, however often its award is retried.  The documentation
\* says that it "re-awards every cycle" (docs/challenges/aws/sdk.md:136): the loop
\* ranges over pointers by now, and what it writes to a check stays.
OneShotLoggedOnce ==
    \A c \in Challenges, k \in Checks \ Repeating : log[c][k] <= issued[c][k]

\* A team is paid for such a check at most once for each time it was added, and
\* once more for each payment whose score event was lost: a retry after the first
\* write pays again, and nothing else does: in particular not the next round, as
\* docs/challenges/aws/sdk.md:136 says.
PaidOnce ==
    \A c \in Challenges, k \in Checks \ Repeating :
        credit[c][k] <= issued[c][k] + lost[c][k]

\* Points for a check go to a team only from a run that has the check on its
\* list, live: nobody removes, replaces or retires it between the trigger and
\* the award.
AwardsAreLive ==
    [][\A c \in Challenges, k \in Checks :
          credit'[c][k] # credit[c][k] =>
              \E r \in Runs : of[r] = c /\ cur[r] = k /\ Live(r, k)]_vars

\* A one-shot check that stays passed is awarded in the end, retries included,
\* unless its guest ends.
AwardComes ==
    \A c \in Challenges, k \in Checks \ Repeating, r \in Runs :
        <>[](pc[r] \notin {"off", "new", "done"} /\ of[r] = c
                /\ k \in checks[r] /\ k \in solved[c])
            => <>(log[c][k] > 0)

\* Only a clue that some run of the challenge was given before Start is published
\* without a price, and nobody can uncover it: whatever is added later, to
\* whatever run, keeps the price it was given, a restart of the challenge included.
OnlyEarlyCluesAreFree ==
    \A c \in Challenges :
        clues[c] \ priced[c] \subseteq UNION {early[r] : r \in {q \in Runs : of[q] = c}}

=============================================================================
