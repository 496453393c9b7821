--------------------------- MODULE AssetRegistry ---------------------------
(***************************************************************************)
(* AssetRepository as the API requests and the telemetry worker drive it:  *)
(* each request is a coroutine with a database session of its own, and     *)
(* requests interleave at every await.  A session reads a row, works on    *)
(* what it loaded and commits later (READ COMMITTED, no row lock, no       *)
(* version column).  A transaction takes effect at its commit.             *)
(*                                                                         *)
(* The table infrastructure_assets is kept as the history of its committed *)
(* rows, so that what a session loaded and what the cache holds are        *)
(* version numbers.                                                        *)
(***************************************************************************)
EXTENDS AssetLifecycle, Sequences, FiniteSets, Functions

CONSTANTS Requests,      \* coroutines that may be in flight at once
          Targets,       \* lifecycle_state literals a PATCH may carry
          MaxCommits     \* bound: versions committed in all

ASSUME MaxCommitsAssumption == MaxCommits \in Nat

VARIABLES versions,  \* committed versions of each row, oldest first
          journal,   \* audit_logs of each asset, oldest first
          cache,     \* eims:asset:<id>: the version stored, 0 when there is none
          req        \* the coroutines

vars == <<versions, journal, cache, req>>
store == <<versions, journal>>

Exists(a) == versions[a] # <<>>
Latest(a) == Len(versions[a])
Current(a) == versions[a][Latest(a)]
Committed == FoldFunction(LAMBDA vs, n : Len(vs) + n, 0, versions)

PrintUnconstrained(p) == TRUE        \* mutant: no unique index

PrintFree(p) == \A a \in Assets : Exists(a) => Current(a).print # p

-----------------------------------------------------------------------------
(* A coroutine: what it was asked, where it stands and the version its     *)
(* session loaded.                                                         *)

Op == {"enroll", "lookup", "transition", "report", "quarantine"}
Step == {"idle", "match", "read", "fill", "commit", "refresh", "repopulate"}

Request == [op : Op \cup {"none"}, step : Step, asset : Assets \cup {None},
            seen : Nat, host : Hosts \cup {None}, print : Prints \cup {None},
            score : ReportScores \cup {None}, target : Targets \cup {None}]

Idle == [op |-> "none", step |-> "idle", asset |-> None, seen |-> 0,
         host |-> None, print |-> None, score |-> None, target |-> None]

Loaded(r) == versions[req[r].asset][req[r].seen]

Start(r, q) ==
    /\ req[r].step = "idle"
    /\ req' = [req EXCEPT ![r] = q]
    /\ UNCHANGED <<store, cache>>

Goto(r, step) == req' = [req EXCEPT ![r].step = step]

\* The response is sent, or the request ends in an HTTP error.
Finish(r) == req' = [req EXCEPT ![r] = Idle]

\* The session's flush and COMMIT: row and audit entry together.
Commit(a, row, entry) ==
    /\ Committed < MaxCommits
    /\ versions' = [versions EXCEPT ![a] = Append(@, row)]
    /\ journal' = [journal EXCEPT ![a] = Append(@, entry)]
    /\ UNCHANGED cache

-----------------------------------------------------------------------------
Init ==
    /\ versions = [a \in Assets |-> <<>>]
    /\ journal = [a \in Assets |-> <<>>]
    /\ cache = [a \in Assets |-> 0]
    /\ req = [r \in Requests |-> Idle]

(* create_asset: POST /assets, and the OCR registrations.                  *)
BeginEnroll(r) ==
    \E h \in Hosts, p \in Prints :
        Start(r, [Idle EXCEPT !.op = "enroll", !.step = "commit",
                              !.host = h, !.print = p])

\* A fresh uuid4 names the row.
CommitEnroll(r) ==
    /\ req[r].op = "enroll" /\ req[r].step = "commit"
    /\ PrintFree(req[r].print)
    /\ \E a \in Assets :
          /\ ~Exists(a)
          /\ Commit(a, NewRow(req[r].host, req[r].print, "Discovered", 0),
                    EnrollEntry)
          /\ req' = [req EXCEPT ![r].asset = a, ![r].step = "refresh"]

(* get_asset_by_id: GET /assets/{id}, and the first half of transition_state. *)
BeginLookup(r) ==
    \E a \in Assets :
        Start(r, [Idle EXCEPT !.op = "lookup", !.step = "read", !.asset = a])

\* The cached value is fetched and not used; the row is always selected.
ReadRow(r) ==
    /\ req[r].step = "read"
    /\ req[r].op \in {"lookup", "transition"}
    /\ IF Exists(req[r].asset)
       THEN req' = [req EXCEPT ![r].seen = Latest(req[r].asset), ![r].step = "fill"]
       ELSE Finish(r)                                               \* 404
    /\ UNCHANGED <<store, cache>>

\* Mutant: the matrix is not asked.
FillCacheUnvalidated(r) ==
    /\ req[r].step = "fill"
    /\ cache' = [cache EXCEPT ![req[r].asset] = req[r].seen]
    /\ IF req[r].op = "transition" THEN Goto(r, "commit") ELSE Finish(r)
    /\ UNCHANGED store

\* Mutant: the new row is cached before it is committed.
FillCacheEarly(r) ==
    LET valid == req[r].op = "transition" /\ Permitted(Loaded(r).state, req[r].target)
    IN  /\ req[r].step = "fill"
        /\ cache' = [cache EXCEPT ![req[r].asset] =
                         IF valid THEN req[r].seen + 1 ELSE req[r].seen]
        /\ IF valid THEN Goto(r, "commit") ELSE Finish(r)
        /\ UNCHANGED store

FillCache(r) ==
    /\ req[r].step = "fill"
    /\ cache' = [cache EXCEPT ![req[r].asset] = req[r].seen]
    /\ IF req[r].op = "transition" /\ Permitted(Loaded(r).state, req[r].target)
       THEN Goto(r, "commit")
       ELSE Finish(r)                            \* lookup done, or 409 Conflict
    /\ UNCHANGED store

(* transition_state: PATCH /assets/{id}.                                   *)
BeginTransition(r) ==
    \E a \in Assets, t \in Targets :
        Start(r, [Idle EXCEPT !.op = "transition", !.step = "read",
                              !.asset = a, !.target = t])

\* Mutant: the whole loaded row is written back, not the changed column.
CommitTransitionWholeRow(r) ==
    /\ req[r].op = "transition" /\ req[r].step = "commit"
    /\ Commit(req[r].asset, TransitionRow(Loaded(r), req[r].target),
              TransitionEntry(Loaded(r), req[r].target))
    /\ Goto(r, "refresh")

CommitTransition(r) ==
    LET a == req[r].asset IN
    /\ req[r].op = "transition" /\ req[r].step = "commit"
    /\ Commit(a, TransitionRow(Current(a), req[r].target),
              TransitionEntry(Loaded(r), req[r].target))
    /\ Goto(r, "refresh")

(* upsert_offline_report: POST /assets/import-report.                      *)
BeginReport(r) ==
    \E h \in Hosts, p \in Prints, s \in ReportScores :
        Start(r, [Idle EXCEPT !.op = "report", !.step = "match",
                              !.host = h, !.print = p, !.score = s])

Matches(r) == {a \in Assets : /\ Exists(a)
                              /\ \/ Current(a).print = req[r].print
                                 \/ Current(a).host = req[r].host}

\* scalar_one_or_none: more than one match raises, the request ends in a 500.
MatchReport(r) ==
    /\ req[r].step = "match"
    /\ \/ /\ Matches(r) = {}
          /\ Goto(r, "commit")
       \/ \E a \in Assets :
             /\ Matches(r) = {a}
             /\ req' = [req EXCEPT ![r].asset = a, ![r].seen = Latest(a),
                                   ![r].step = "commit"]
       \/ /\ Cardinality(Matches(r)) > 1
          /\ Finish(r)
    /\ UNCHANGED <<store, cache>>

CommitImport(r) ==
    /\ req[r].op = "report" /\ req[r].step = "commit" /\ req[r].asset = None
    /\ PrintFree(req[r].print)
    /\ req[r].score \in Score
    /\ \E a \in Assets :
          /\ ~Exists(a)
          /\ Commit(a, NewRow(req[r].host, req[r].print,
                              ReportState(req[r].score), req[r].score),
                    ImportEntry(req[r].score))
          /\ req' = [req EXCEPT ![r].asset = a, ![r].step = "refresh"]

CommitUpdate(r) ==
    LET a == req[r].asset IN
    /\ req[r].op = "report" /\ req[r].step = "commit" /\ a # None
    /\ req[r].score \in Score
    /\ Commit(a, ReportRow(Current(a), Loaded(r), req[r].host, req[r].score),
              UpdateEntry(req[r].score))
    /\ Goto(r, "refresh")

\* The unique index or the CHECK refuses the row: rollback, HTTP 500.
ConstraintViolated(r) ==
    /\ req[r].step = "commit"
    /\ \/ req[r].op \in {"enroll", "report"} /\ req[r].asset = None
             /\ ~PrintFree(req[r].print)
       \/ req[r].op = "report" /\ req[r].score \notin Score
    /\ Finish(r)
    /\ UNCHANGED <<store, cache>>

(* The tail of every write: refresh the row, then store it in the cache.   *)
Refresh(r) ==
    /\ req[r].step = "refresh"
    /\ req' = [req EXCEPT ![r].seen = Latest(req[r].asset), ![r].step = "repopulate"]
    /\ UNCHANGED <<store, cache>>

Repopulate(r) ==
    /\ req[r].step = "repopulate"
    /\ cache' = [cache EXCEPT ![req[r].asset] = req[r].seen]
    /\ Finish(r)
    /\ UNCHANGED store

(* _persist_batch of the telemetry worker, for one anomaly.  There is one  *)
(* worker; it neither asks the matrix nor touches the cache.               *)
BeginQuarantine(r) ==
    /\ \A q \in Requests : req[q].op # "quarantine"
    /\ \E a \in Assets :
          Start(r, [Idle EXCEPT !.op = "quarantine", !.step = "read", !.asset = a])

\* Mutant: an asset already Quarantined is quarantined again.
ReadForQuarantineAlways(r) ==
    LET a == req[r].asset IN
    /\ req[r].op = "quarantine" /\ req[r].step = "read"
    /\ IF Exists(a)
       THEN req' = [req EXCEPT ![r].seen = Latest(a), ![r].step = "commit"]
       ELSE Finish(r)
    /\ UNCHANGED <<store, cache>>

ReadForQuarantine(r) ==
    LET a == req[r].asset IN
    /\ req[r].op = "quarantine" /\ req[r].step = "read"
    /\ IF Exists(a) /\ Current(a).state # "Quarantined"
       THEN req' = [req EXCEPT ![r].seen = Latest(a), ![r].step = "commit"]
       ELSE Finish(r)
    /\ UNCHANGED <<store, cache>>

CommitQuarantine(r) ==
    LET a == req[r].asset IN
    /\ req[r].op = "quarantine" /\ req[r].step = "commit"
    /\ Commit(a, QuarantineRow(Current(a), Loaded(r)), QuarantineEntry(Loaded(r)))
    /\ Finish(r)

\* The database or Redis fails, or the server stops, at any await: an open
\* transaction is rolled back, a committed one stays, the cache is not set.
Abort(r) ==
    /\ req[r].step # "idle"
    /\ Finish(r)
    /\ UNCHANGED <<store, cache>>

\* The TTL of 300 s runs out, or volatile-LRU evicts the key.
ExpireCache(a) ==
    /\ cache[a] # 0
    /\ cache' = [cache EXCEPT ![a] = 0]
    /\ UNCHANGED <<store, req>>

-----------------------------------------------------------------------------
EnrollStep(r) == BeginEnroll(r) \/ CommitEnroll(r)
ReadStep(r) == BeginLookup(r) \/ ReadRow(r) \/ FillCache(r)
TransitionStep(r) == BeginTransition(r) \/ CommitTransition(r)
ReportStep(r) == BeginReport(r) \/ MatchReport(r) \/ CommitImport(r) \/ CommitUpdate(r)
QuarantineStep(r) == BeginQuarantine(r) \/ ReadForQuarantine(r) \/ CommitQuarantine(r)
TailStep(r) == Refresh(r) \/ Repopulate(r) \/ ConstraintViolated(r) \/ Abort(r)

Next ==
    \/ \E r \in Requests :
          \/ EnrollStep(r) \/ ReadStep(r) \/ TransitionStep(r)
          \/ ReportStep(r) \/ QuarantineStep(r) \/ TailStep(r)
    \/ \E a \in Assets : ExpireCache(a)

Spec == Init /\ [][Next]_vars

-----------------------------------------------------------------------------
Ledger == INSTANCE AssetLedger

\* Requests, sessions and the cache hidden, the registry is the ledger:
\* whatever the interleaving, the committed effect of every operation is one
\* read-modify-write on a version that was committed before.
RefinesLedger == Ledger!Spec

\* Each step belongs to certain operations, and each operation has its
\* arguments.
WellFormed(r) ==
    /\ req[r].step = "match" => req[r].op = "report" /\ req[r].asset = None
    /\ req[r].step = "read" => req[r].op \in {"lookup", "transition", "quarantine"}
    /\ req[r].step = "fill" => req[r].op \in {"lookup", "transition"}
    /\ req[r].op \in {"enroll", "report"} => req[r].host \in Hosts /\ req[r].print \in Prints
    /\ req[r].op = "report" => req[r].score \in ReportScores
    /\ req[r].op \in {"lookup", "transition", "quarantine"} => req[r].asset \in Assets

TypeOK ==
    /\ versions \in [Assets -> Seq(Row)]
    /\ journal \in [Assets -> Seq(Entry)]
    /\ cache \in [Assets -> Nat]
    /\ req \in [Requests -> Request]
    /\ \A r \in Requests : WellFormed(r)

\* The cache never holds a row that was not committed: no interleaving of
\* fills, writes, failures and rollbacks makes it serve data the database
\* never had.  It may well hold an old version.
CacheHoldsCommitted == \A a \in Assets : cache[a] <= Latest(a)

\* Used in the proofs: a session that is about to commit an update stands on a
\* version that was committed, and what it checked (the matrix for a PATCH,
\* "not yet Quarantined" for the worker) is true of that version.
StandsOnCommitted(r) ==
    /\ req[r].step \in {"fill", "refresh", "repopulate"} => req[r].asset \in Assets
    /\ req[r].step = "refresh" => Exists(req[r].asset)
    /\ (\/ req[r].step \in {"fill", "repopulate"}
        \/ req[r].step = "commit" /\ req[r].asset # None) =>
           req[r].seen \in 1 .. Latest(req[r].asset)
    /\ (req[r].step = "commit" /\ req[r].op = "transition") =>
           Permitted(Loaded(r).state, req[r].target)
    /\ (req[r].step = "commit" /\ req[r].op = "quarantine") =>
           Loaded(r).state # "Quarantined"

SessionsStandOnCommitted == \A r \in Requests : StandsOnCommitted(r)

\* What the entry of an update claims about the row before and after it.
AsRecorded(before, after, e) ==
    /\ e.verb = "TRANSITION_STATE" =>
          /\ Permitted(before.state, after.state)
          /\ e.from = before.state /\ e.to = after.state
    /\ e.verb = "UPDATE_FROM_REPORT" =>
          after.state = ReportState(e.score) /\ after.score = e.score
    /\ e.verb = "AUTOMATED_QUARANTINE_4625" =>
          /\ before.state # "Quarantined" /\ after.state = "Quarantined"
          /\ after.score = e.score

\* Coroutine r is about to update asset a from its latest version: nobody
\* committed to a since r loaded it.
Abreast(r, a) ==
    req[r].step = "commit" /\ req[r].asset = a /\ req[r].seen = Latest(a)

UpdatesAsRecorded ==
    \A r \in Requests, a \in Assets :
        Abreast(r, a) /\ req'[r] # req[r] /\ versions'[a] # versions[a]
        => AsRecorded(Current(a), Current(a)', journal'[a][Len(journal'[a])])

\* Only sessions that overlap make the row and its journal diverge: an update
\* that nobody overtook moves along the matrix (state_machine.py:33), sets the
\* score and the state of the report (controller.py:215), and takes the
\* penalty off the score it overwrites, whatever every other coroutine does.
OnlyOverlapsDiverge == [][UpdatesAsRecorded]_vars

JournalExplainsRow == Ledger!JournalExplainsRow
RecordedTransitionsLegal == Ledger!RecordedTransitionsLegal
FingerprintIdentifies == Ledger!FingerprintIdentifies

-----------------------------------------------------------------------------
(* What the repository's documents say of the registry and the code does   *)
(* not do: each is refuted by a run of its own.                            *)

\* state_machine.py:60, "Terminal read-only historical archival state".
DecommissionedIsTerminal ==
    [][\A a \in Assets :
          (Exists(a) /\ Current(a).state = "Decommissioned") =>
              Current(a)'.state = "Decommissioned"]_versions

\* state_machine.py:33, "Prohibits illegal state jumps": each transition the
\* PATCH handler commits is an arrow of the matrix.
TransitionsFollowMatrix ==
    \A a \in Assets : \A n \in 2 .. Latest(a) :
        journal[a][n].verb = "TRANSITION_STATE" =>
            Permitted(versions[a][n - 1].state, versions[a][n].state)

\* controller.py:215, "Creates or updates the asset record and sets its
\* compliance score": the score the audit entry says was set is the row's.
ImportSetsScore ==
    \A a \in Assets : \A n \in 1 .. Latest(a) :
        journal[a][n].verb = "UPDATE_FROM_REPORT" =>
            versions[a][n].score = journal[a][n].score

=============================================================================
