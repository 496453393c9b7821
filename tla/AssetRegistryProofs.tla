------------------------ MODULE AssetRegistryProofs ------------------------
(***************************************************************************)
(* For any number of coroutines, assets, hosts, fingerprints and scores:   *)
(* the registry's sessions and cache only ever stand on committed rows,    *)
(* the ledger keeps its invariants, and the registry implements the        *)
(* ledger, so they hold of the registry.                                   *)
(***************************************************************************)
EXTENDS AssetRegistry, TLAPS

RegistryInv ==
    /\ TypeOK
    /\ SessionsStandOnCommitted
    /\ CacheHoldsCommitted

\* No step shortens a row's history or rewrites a version of it.
HistoriesGrow ==
    \A b \in Assets :
        /\ Len(versions[b]) \in Nat /\ Len(versions'[b]) \in Nat
        /\ Len(versions[b]) <= Len(versions'[b])
        /\ \A i \in 1 .. Len(versions[b]) : versions'[b][i] = versions[b][i]

-----------------------------------------------------------------------------
\* An automated quarantine never leaves a score outside 0..100.
LEMMA PenalisedScore == \A s \in Score : Penalised(s) \in Score
BY DEF Penalised, Score

\* The rows the UPDATE statements leave are rows.
LEMMA RowsTyped ==
    ASSUME NEW cur \in Row, NEW old \in Row
    PROVE  /\ \A t \in AssetState : TransitionRow(cur, t) \in Row
           /\ \A h \in Hosts, s \in Score : ReportRow(cur, old, h, s) \in Row
           /\ QuarantineRow(cur, old) \in Row
<1>1. Penalised(old.score) \in Score
  BY PenalisedScore DEF Row
<1>2. \A s : ReportState(s) \in AssetState
  BY DEF ReportState, AssetState
<1>3. QED
  BY <1>1, <1>2 DEF Row, TransitionRow, ReportRow, QuarantineRow, Written, AssetState

\* The rows the INSERT statements create are rows.
LEMMA BirthsTyped ==
    ASSUME NEW h \in Hosts, NEW p \in Prints, NEW s \in Score
    PROVE  NewRow(h, p, "Discovered", 0) \in Row /\ NewRow(h, p, ReportState(s), s) \in Row
BY DEF Row, NewRow, AssetState, Score, ReportState

-----------------------------------------------------------------------------
\* A commit only adds a version at the end of one row's history.
LEMMA CommitExtends ==
    ASSUME TypeOK, NEW a \in Assets, NEW row \in Row, NEW entry \in Entry,
           Commit(a, row, entry)
    PROVE  /\ versions' \in [Assets -> Seq(Row)]
           /\ journal' \in [Assets -> Seq(Entry)]
           /\ cache' = cache
           /\ Len(versions'[a]) = Len(versions[a]) + 1
           /\ HistoriesGrow
<1>1. /\ versions[a] \in Seq(Row) /\ versions'[a] = Append(versions[a], row)
      /\ \A b \in Assets : versions[b] \in Seq(Row)
      /\ \A b \in Assets \ {a} : versions'[b] = versions[b]
  BY DEF TypeOK, Commit
<1>2. versions' \in [Assets -> Seq(Row)] /\ journal' \in [Assets -> Seq(Entry)]
  BY <1>1 DEF TypeOK, Commit
<1>3. QED
  BY <1>1, <1>2 DEF Commit, HistoriesGrow

\* Requests that do not move keep what they stand on while histories grow.
LEMMA OthersStand ==
    ASSUME NEW r \in Requests, TypeOK, TypeOK', StandsOnCommitted(r),
           req'[r] = req[r], HistoriesGrow
    PROVE  StandsOnCommitted(r)'
<1> DEFINE q == req[r]
<1>1. q \in Request /\ WellFormed(r) /\ req'[r] = q
  BY DEF TypeOK
<1>2. \A b \in Assets : Exists(b) => Exists(b)'
  BY DEF Exists, TypeOK, HistoriesGrow
<1>3. /\ q.step \in {"fill", "refresh", "repopulate"} => q.asset \in Assets
      /\ q.step = "refresh" => Exists(q.asset)
  BY DEF StandsOnCommitted
<1>4. (\/ q.step \in {"fill", "repopulate"}
       \/ q.step = "commit" /\ q.asset # None) =>
           /\ q.asset \in Assets
           /\ q.seen \in 1 .. Len(versions[q.asset])
           /\ q.seen \in 1 .. Len(versions'[q.asset])
           /\ versions'[q.asset][q.seen] = versions[q.asset][q.seen]
  BY <1>1 DEF StandsOnCommitted, Latest, Request, HistoriesGrow
<1>5. q.step = "commit" /\ q.op \in {"transition", "quarantine"} =>
           q.asset \in Assets /\ q.asset # None
  BY <1>1, NoneAssumption DEF WellFormed
<1>6. (q.step = "commit" /\ q.op = "transition") =>
           Permitted(versions[q.asset][q.seen].state, q.target)
  BY DEF StandsOnCommitted, Loaded
<1>7. (q.step = "commit" /\ q.op = "quarantine") =>
           versions[q.asset][q.seen].state # "Quarantined"
  BY DEF StandsOnCommitted, Loaded
<1> HIDE DEF q
<1>8. QED
  BY <1>1, <1>2, <1>3, <1>4, <1>5, <1>6, <1>7 DEF StandsOnCommitted, Latest, Loaded, Permitted

\* A step of coroutine r keeps the invariant when histories only grow, the
\* cache stays within them and r's new record stands on its asset's.
LEMMA StepPreserves ==
    ASSUME RegistryInv, NEW r \in Requests, NEW q \in Request,
           req' = [req EXCEPT ![r] = q],
           versions' \in [Assets -> Seq(Row)], journal' \in [Assets -> Seq(Entry)],
           HistoriesGrow,
           cache' \in [Assets -> Nat], CacheHoldsCommitted',
           WellFormed(r)', StandsOnCommitted(r)'
    PROVE  RegistryInv'
<1>1. req \in [Requests -> Request] /\ TypeOK
  BY DEF RegistryInv, TypeOK
<1>2. /\ req' \in [Requests -> Request]
      /\ \A o \in Requests \ {r} : req'[o] = req[o]
  BY <1>1
<1>3. \A o \in Requests \ {r} : WellFormed(o)'
  BY <1>1, <1>2 DEF TypeOK, WellFormed
<1>4. TypeOK'
  BY <1>2, <1>3 DEF TypeOK
<1>5. \A o \in Requests \ {r} : StandsOnCommitted(o)'
  BY <1>1, <1>2, <1>4, OthersStand DEF RegistryInv, SessionsStandOnCommitted
<1>6. QED
  BY <1>4, <1>5 DEF RegistryInv, SessionsStandOnCommitted

\* The case of a step that commits nothing and leaves the cache alone.
LEMMA QuietStep ==
    ASSUME RegistryInv, NEW r \in Requests, NEW q \in Request,
           req' = [req EXCEPT ![r] = q], UNCHANGED <<store, cache>>,
           WellFormed(r)', StandsOnCommitted(r)'
    PROVE  RegistryInv'
<1>1. HistoriesGrow
  BY DEF RegistryInv, TypeOK, HistoriesGrow, store
<1>2. CacheHoldsCommitted'
  BY DEF RegistryInv, CacheHoldsCommitted, Latest, store
<1>3. QED
  BY <1>1, <1>2, StepPreserves DEF RegistryInv, TypeOK, store

\* The case of a step that commits a row and its entry.
LEMMA CommitStep ==
    ASSUME RegistryInv, NEW r \in Requests, NEW q \in Request,
           req' = [req EXCEPT ![r] = q],
           NEW a \in Assets, NEW row \in Row, NEW entry \in Entry,
           Commit(a, row, entry),
           WellFormed(r)', StandsOnCommitted(r)'
    PROVE  RegistryInv'
<1>1. /\ versions' \in [Assets -> Seq(Row)] /\ journal' \in [Assets -> Seq(Entry)]
      /\ cache' = cache /\ HistoriesGrow
  BY CommitExtends DEF RegistryInv
<1>2. CacheHoldsCommitted'
  BY <1>1 DEF RegistryInv, TypeOK, CacheHoldsCommitted, HistoriesGrow, Latest
<1>3. QED
  BY <1>1, <1>2, StepPreserves DEF RegistryInv, TypeOK

\* The case of a step that stores a committed version in the cache.
LEMMA CacheStep ==
    ASSUME RegistryInv, NEW r \in Requests, NEW q \in Request,
           req' = [req EXCEPT ![r] = q],
           NEW a \in Assets, NEW n \in 0 .. Latest(a),
           cache' = [cache EXCEPT ![a] = n], UNCHANGED store,
           WellFormed(r)', StandsOnCommitted(r)'
    PROVE  RegistryInv'
<1>1. HistoriesGrow
  BY DEF RegistryInv, TypeOK, HistoriesGrow, store
<1>2. cache' \in [Assets -> Nat] /\ CacheHoldsCommitted'
  BY DEF RegistryInv, TypeOK, CacheHoldsCommitted, Latest, store
<1>3. QED
  BY <1>1, <1>2, StepPreserves DEF RegistryInv, TypeOK, store

\* An idle coroutine stands on nothing.
LEMMA IdleStands ==
    ASSUME NEW r \in Requests, req'[r] = Idle
    PROVE  Idle \in Request /\ WellFormed(r)' /\ StandsOnCommitted(r)'
BY DEF Idle, Request, Op, Step, WellFormed, StandsOnCommitted

-----------------------------------------------------------------------------
\* A request that begins stands on nothing yet.
LEMMA StartPreserves ==
    ASSUME RegistryInv, NEW r \in Requests, NEW q \in Request, Start(r, q),
           q.step \in {"commit", "read", "match"},
           q.step = "commit" => q.op = "enroll" /\ q.asset = None,
           q.step = "match" => q.op = "report" /\ q.asset = None,
           q.step = "read" => q.op \in {"lookup", "transition", "quarantine"},
           q.op \in {"enroll", "report"} => q.host \in Hosts /\ q.print \in Prints,
           q.op = "report" => q.score \in ReportScores,
           q.op \in {"lookup", "transition", "quarantine"} => q.asset \in Assets
    PROVE  RegistryInv'
<1>1. req' = [req EXCEPT ![r] = q] /\ req'[r] = q /\ UNCHANGED <<store, cache>>
  BY DEF Start, RegistryInv, TypeOK
<1>2. WellFormed(r)' /\ StandsOnCommitted(r)'
  BY <1>1 DEF WellFormed, StandsOnCommitted
<1>3. QED
  BY <1>1, <1>2, QuietStep

\* The invariant survives a request that begins: nothing is read yet.
LEMMA BeginPreserves ==
    ASSUME RegistryInv, NEW r \in Requests,
           \/ BeginEnroll(r) \/ BeginLookup(r) \/ BeginTransition(r)
           \/ BeginReport(r) \/ BeginQuarantine(r)
    PROVE  RegistryInv'
<1>1. ASSUME NEW h \in Hosts, NEW p \in Prints,
             Start(r, [Idle EXCEPT !.op = "enroll", !.step = "commit",
                                   !.host = h, !.print = p])
      PROVE  RegistryInv'
  <2> DEFINE q == [Idle EXCEPT !.op = "enroll", !.step = "commit",
                               !.host = h, !.print = p]
  <2>1. /\ q \in Request /\ q.op = "enroll" /\ q.step = "commit" /\ q.asset = None
        /\ q.host = h /\ q.print = p
    BY DEF Idle, Request, Op, Step
  <2>2. Start(r, q)
    BY <1>1
  <2> HIDE DEF q
  <2>3. QED
    BY <2>1, <2>2, StartPreserves
<1>2. ASSUME NEW a \in Assets,
             Start(r, [Idle EXCEPT !.op = "lookup", !.step = "read",
                                   !.asset = a])
      PROVE  RegistryInv'
  <2> DEFINE q == [Idle EXCEPT !.op = "lookup", !.step = "read",
                               !.asset = a]
  <2>1. /\ q \in Request /\ q.op = "lookup" /\ q.step = "read"
        /\ q.asset = a
    BY DEF Idle, Request, Op, Step
  <2>2. Start(r, q)
    BY <1>2
  <2> HIDE DEF q
  <2>3. QED
    BY <2>1, <2>2, StartPreserves
<1>3. ASSUME NEW a \in Assets, NEW t \in Targets,
             Start(r, [Idle EXCEPT !.op = "transition", !.step = "read",
                                   !.asset = a, !.target = t])
      PROVE  RegistryInv'
  <2> DEFINE q == [Idle EXCEPT !.op = "transition", !.step = "read",
                               !.asset = a, !.target = t]
  <2>1. /\ q \in Request /\ q.op = "transition" /\ q.step = "read"
        /\ q.asset = a /\ q.target = t
    BY DEF Idle, Request, Op, Step
  <2>2. Start(r, q)
    BY <1>3
  <2> HIDE DEF q
  <2>3. QED
    BY <2>1, <2>2, StartPreserves
<1>4. ASSUME NEW h \in Hosts, NEW p \in Prints, NEW s \in ReportScores,
             Start(r, [Idle EXCEPT !.op = "report", !.step = "match",
                                   !.host = h, !.print = p, !.score = s])
      PROVE  RegistryInv'
  <2> DEFINE q == [Idle EXCEPT !.op = "report", !.step = "match",
                               !.host = h, !.print = p, !.score = s]
  <2>1. /\ q \in Request /\ q.op = "report" /\ q.step = "match" /\ q.asset = None
        /\ q.host = h /\ q.print = p /\ q.score = s
    BY DEF Idle, Request, Op, Step
  <2>2. Start(r, q)
    BY <1>4
  <2> HIDE DEF q
  <2>3. QED
    BY <2>1, <2>2, StartPreserves
<1>5. ASSUME NEW a \in Assets,
             Start(r, [Idle EXCEPT !.op = "quarantine", !.step = "read",
                                   !.asset = a])
      PROVE  RegistryInv'
  <2> DEFINE q == [Idle EXCEPT !.op = "quarantine", !.step = "read",
                               !.asset = a]
  <2>1. /\ q \in Request /\ q.op = "quarantine" /\ q.step = "read"
        /\ q.asset = a
    BY DEF Idle, Request, Op, Step
  <2>2. Start(r, q)
    BY <1>5
  <2> HIDE DEF q
  <2>3. QED
    BY <2>1, <2>2, StartPreserves
<1>6. CASE BeginEnroll(r)
  BY <1>6, <1>1 DEF BeginEnroll
<1>7. CASE BeginLookup(r)
  BY <1>7, <1>2 DEF BeginLookup
<1>8. CASE BeginTransition(r)
  BY <1>8, <1>3 DEF BeginTransition
<1>9. CASE BeginReport(r)
  BY <1>9, <1>4 DEF BeginReport
<1>10. CASE BeginQuarantine(r)
  BY <1>10, <1>5 DEF BeginQuarantine
<1>11. QED
  BY <1>6, <1>7, <1>8, <1>9, <1>10

-----------------------------------------------------------------------------
\* What the invariant says of one coroutine.
LEMMA Standing ==
    ASSUME RegistryInv, NEW r \in Requests
    PROVE  /\ req[r] \in Request /\ WellFormed(r) /\ StandsOnCommitted(r)
           /\ versions \in [Assets -> Seq(Row)] /\ journal \in [Assets -> Seq(Entry)]
           /\ cache \in [Assets -> Nat] /\ req \in [Requests -> Request]
BY DEF RegistryInv, TypeOK, SessionsStandOnCommitted

\* A session about to update stands on a row, and there is a row to update.
LEMMA LoadedRow ==
    ASSUME RegistryInv, NEW r \in Requests,
           \/ req[r].step = "commit" /\ req[r].asset # None
           \/ req[r].step = "fill"
    PROVE  /\ req[r].asset \in Assets
           /\ req[r].seen \in 1 .. Len(versions[req[r].asset])
           /\ Loaded(r) \in Row /\ Current(req[r].asset) \in Row
<1>1. /\ req[r] \in Request /\ StandsOnCommitted(r) /\ versions \in [Assets -> Seq(Row)]
  BY Standing
<1>2. /\ req[r].asset \in Assets
      /\ req[r].seen \in 1 .. Len(versions[req[r].asset])
  BY <1>1 DEF StandsOnCommitted, Latest, Request
<1>3. QED
  BY <1>1, <1>2 DEF Loaded, Current, Latest

\* Coroutine r's record becomes q: at step s, on asset a of which it loaded
\* version n, the rest as it was.
Becomes(r, q, s, a, n) ==
    /\ req' = [req EXCEPT ![r] = q] /\ req'[r] = q
    /\ q.step = s /\ q.asset = a /\ q.seen = n
    /\ q.op = req[r].op /\ q.host = req[r].host /\ q.print = req[r].print
    /\ q.score = req[r].score /\ q.target = req[r].target

\* Moving a coroutine's program counter keeps the rest of its record.
LEMMA GotoRecord ==
    ASSUME RegistryInv, NEW r \in Requests, NEW s \in Step, Goto(r, s)
    PROVE  \E q \in Request : Becomes(r, q, s, req[r].asset, req[r].seen)
<1> DEFINE q == [req[r] EXCEPT !.step = s]
<1>1. req \in [Requests -> Request] /\ req[r] \in Request
  BY Standing
<1>2. /\ q \in Request /\ q.step = s
      /\ q.op = req[r].op /\ q.asset = req[r].asset /\ q.seen = req[r].seen
      /\ q.host = req[r].host /\ q.print = req[r].print
      /\ q.score = req[r].score /\ q.target = req[r].target
  BY <1>1 DEF Request
<1>3. req' = [req EXCEPT ![r] = q]
  BY <1>1 DEF Goto
<1> HIDE DEF q
<1>4. req'[r] = q
  BY <1>1, <1>3
<1>5. QED
  BY <1>2, <1>3, <1>4 DEF Becomes

\* So does setting the asset it works on, the version it loaded, or both.
LEMMA LoadRecord ==
    ASSUME RegistryInv, NEW r \in Requests, NEW a \in Assets, NEW n \in Nat,
           NEW s \in Step,
           \/ req' = [req EXCEPT ![r].asset = a, ![r].seen = n, ![r].step = s]
           \/ req' = [req EXCEPT ![r].seen = n, ![r].step = s] /\ a = req[r].asset
           \/ req' = [req EXCEPT ![r].asset = a, ![r].step = s] /\ n = req[r].seen
    PROVE  \E q \in Request : Becomes(r, q, s, a, n)
<1> DEFINE q == [req[r] EXCEPT !.asset = a, !.seen = n, !.step = s]
<1>1. req \in [Requests -> Request] /\ req[r] \in Request
  BY Standing
<1>2. /\ q \in Request /\ q.step = s /\ q.asset = a /\ q.seen = n
      /\ q.op = req[r].op /\ q.host = req[r].host /\ q.print = req[r].print
      /\ q.score = req[r].score /\ q.target = req[r].target
  BY <1>1 DEF Request
<1>3. a = req[r].asset => [req[r] EXCEPT !.seen = n, !.step = s] = q
  BY <1>1 DEF Request
<1>4. n = req[r].seen => [req[r] EXCEPT !.asset = a, !.step = s] = q
  BY <1>1 DEF Request
<1>5. req' = [req EXCEPT ![r] = q]
  <2>1. CASE req' = [req EXCEPT ![r].asset = a, ![r].seen = n, ![r].step = s]
    BY <2>1, <1>1
  <2>2. CASE req' = [req EXCEPT ![r].seen = n, ![r].step = s] /\ a = req[r].asset
    <3>1. req' = [req EXCEPT ![r] = [req[r] EXCEPT !.seen = n, !.step = s]]
      BY <2>2, <1>1
    <3>2. QED
      BY <3>1, <2>2, <1>3
  <2>3. CASE req' = [req EXCEPT ![r].asset = a, ![r].step = s] /\ n = req[r].seen
    <3>1. req' = [req EXCEPT ![r] = [req[r] EXCEPT !.asset = a, !.step = s]]
      BY <2>3, <1>1
    <3>2. QED
      BY <3>1, <2>3, <1>4
  <2>4. QED
    BY <2>1, <2>2, <2>3
<1> HIDE DEF q
<1>6. req'[r] = q
  BY <1>1, <1>5
<1>7. QED
  BY <1>2, <1>5, <1>6 DEF Becomes

\* A request that ends without a commit.
LEMMA EndPreserves ==
    ASSUME RegistryInv, NEW r \in Requests, Finish(r), UNCHANGED <<store, cache>>
    PROVE  RegistryInv'
<1>1. req' = [req EXCEPT ![r] = Idle] /\ req'[r] = Idle
  BY Standing DEF Finish
<1>2. QED
  BY <1>1, IdleStands, QuietStep

-----------------------------------------------------------------------------
(* Reading.                                                                *)

\* ... a row that is read into a request ...
LEMMA ReadRowPreserves ==
    ASSUME RegistryInv, NEW r \in Requests, ReadRow(r)
    PROVE  RegistryInv'
<1>1. /\ req[r] \in Request /\ WellFormed(r) /\ versions \in [Assets -> Seq(Row)]
      /\ req[r].asset \in Assets
  BY Standing DEF ReadRow, WellFormed
<1>2. CASE ~Exists(req[r].asset)
  BY <1>2, EndPreserves DEF ReadRow
<1>3. CASE Exists(req[r].asset)
  <2>1. Latest(req[r].asset) \in 1 .. Latest(req[r].asset) /\ Latest(req[r].asset) \in Nat
    BY <1>1, <1>3 DEF Exists, Latest
  <2>2. PICK q \in Request : Becomes(r, q, "fill", req[r].asset, Latest(req[r].asset))
    BY <1>1, <1>3, <2>1, LoadRecord DEF ReadRow, Step
  <2>3. WellFormed(r)' /\ StandsOnCommitted(r)'
    BY <1>1, <2>1, <2>2 DEF ReadRow, Becomes, WellFormed, StandsOnCommitted, Latest, store
  <2>4. QED
    BY <2>2, <2>3, QuietStep DEF Becomes, ReadRow
<1>4. QED
  BY <1>2, <1>3

\* ... a row that is put into the cache ...
LEMMA FillCachePreserves ==
    ASSUME RegistryInv, NEW r \in Requests, FillCache(r)
    PROVE  RegistryInv'
<1>1. /\ req[r] \in Request /\ WellFormed(r) /\ versions' = versions
      /\ req[r].asset \in Assets /\ req[r].seen \in 1 .. Latest(req[r].asset)
      /\ req[r].seen \in 0 .. Latest(req[r].asset)
  BY Standing DEF FillCache, StandsOnCommitted, store
<1>2. CASE req[r].op = "transition" /\ Permitted(Loaded(r).state, req[r].target)
  <2>1. PICK q \in Request : Becomes(r, q, "commit", req[r].asset, req[r].seen)
    BY <1>2, GotoRecord DEF FillCache, Step
  <2>2. WellFormed(r)' /\ StandsOnCommitted(r)'
    BY <1>1, <1>2, <2>1 DEF Becomes, WellFormed, StandsOnCommitted, Latest, Loaded, Permitted
  <2>3. QED
    BY <1>1, <2>1, <2>2, CacheStep DEF FillCache, Becomes
<1>3. CASE ~(req[r].op = "transition" /\ Permitted(Loaded(r).state, req[r].target))
  <2>1. req' = [req EXCEPT ![r] = Idle] /\ req'[r] = Idle
    BY <1>3, Standing DEF FillCache, Finish
  <2>2. QED
    BY <1>1, <2>1, IdleStands, CacheStep DEF FillCache
<1>4. QED
  BY <1>2, <1>3

\* ... a report matched by its fingerprints ...
LEMMA MatchReportPreserves ==
    ASSUME RegistryInv, NEW r \in Requests, MatchReport(r)
    PROVE  RegistryInv'
<1>1. /\ req[r] \in Request /\ WellFormed(r) /\ StandsOnCommitted(r)
      /\ versions \in [Assets -> Seq(Row)] /\ versions' = versions
      /\ req[r].op = "report" /\ req[r].asset = None
  BY Standing DEF MatchReport, WellFormed, store
<1>2. CASE Goto(r, "commit") /\ Matches(r) = {}
  <2>1. PICK q \in Request : Becomes(r, q, "commit", req[r].asset, req[r].seen)
    BY <1>2, GotoRecord DEF Step
  <2>2. WellFormed(r)' /\ StandsOnCommitted(r)'
    BY <1>1, <2>1 DEF Becomes, WellFormed, StandsOnCommitted
  <2>3. QED
    BY <2>1, <2>2, QuietStep DEF MatchReport, Becomes
<1>3. ASSUME NEW a \in Assets, Matches(r) = {a},
             req' = [req EXCEPT ![r].asset = a, ![r].seen = Latest(a),
                                ![r].step = "commit"]
      PROVE  RegistryInv'
  <2>1. Latest(a) \in 1 .. Latest(a) /\ Latest(a) \in Nat
    BY <1>1, <1>3 DEF Matches, Exists, Latest
  <2>2. PICK q \in Request : Becomes(r, q, "commit", a, Latest(a))
    BY <1>3, <2>1, LoadRecord DEF Step
  <2>3. WellFormed(r)' /\ StandsOnCommitted(r)'
    BY <1>1, <2>1, <2>2 DEF Becomes, WellFormed, StandsOnCommitted, Latest
  <2>4. QED
    BY <2>2, <2>3, QuietStep DEF Becomes, MatchReport
<1>4. CASE Finish(r)
  BY <1>4, EndPreserves DEF MatchReport
<1>5. QED
  BY <1>2, <1>3, <1>4 DEF MatchReport

\* ... a row read for a quarantine ...
LEMMA ReadForQuarantinePreserves ==
    ASSUME RegistryInv, NEW r \in Requests, ReadForQuarantine(r)
    PROVE  RegistryInv'
<1> DEFINE a == req[r].asset
<1>1. /\ req[r] \in Request /\ WellFormed(r) /\ versions \in [Assets -> Seq(Row)]
      /\ a \in Assets /\ req[r].op = "quarantine"
  BY Standing DEF ReadForQuarantine, WellFormed
<1>2. CASE Exists(a) /\ Current(a).state # "Quarantined"
  <2>1. Latest(a) \in 1 .. Latest(a) /\ Latest(a) \in Nat
    BY <1>1, <1>2 DEF Exists, Latest
  <2>2. PICK q \in Request : Becomes(r, q, "commit", a, Latest(a))
    BY <1>1, <1>2, <2>1, LoadRecord DEF ReadForQuarantine, Step
  <2>3. WellFormed(r)' /\ StandsOnCommitted(r)'
    BY <1>1, <1>2, <2>1, <2>2
    DEF ReadForQuarantine, Becomes, WellFormed, StandsOnCommitted, Latest, Loaded, Current,
        store
  <2>4. QED
    BY <2>2, <2>3, QuietStep DEF Becomes, ReadForQuarantine
<1>3. CASE ~(Exists(a) /\ Current(a).state # "Quarantined")
  BY <1>3, EndPreserves DEF ReadForQuarantine
<1>4. QED
  BY <1>2, <1>3

-----------------------------------------------------------------------------
(* Committing.                                                             *)

\* The step that leaves a session waiting to refresh the row it wrote.
LEMMA RefreshStands ==
    ASSUME RegistryInv, NEW r \in Requests, NEW q \in Request,
           req'[r] = q, q.step = "refresh", q.asset \in Assets,
           q.op = req[r].op, q.host = req[r].host, q.print = req[r].print,
           q.score = req[r].score, req[r].step = "commit",
           versions' \in [Assets -> Seq(Row)], Len(versions'[q.asset]) > 0
    PROVE  WellFormed(r)' /\ StandsOnCommitted(r)'
<1>1. WellFormed(r)
  BY Standing
<1>2. versions'[q.asset] # <<>>
  OBVIOUS
<1>3. QED
  BY <1>1, <1>2 DEF WellFormed, StandsOnCommitted, Exists

\* Enrolling or importing: a coroutine commits the first version of an asset.
LEMMA BirthCommits ==
    ASSUME RegistryInv, NEW r \in Requests, NEW a \in Assets,
           NEW row \in Row, NEW entry \in Entry, Commit(a, row, entry),
           req[r].step = "commit",
           req' = [req EXCEPT ![r].asset = a, ![r].step = "refresh"]
    PROVE  RegistryInv'
<1>1. req[r] \in Request /\ req[r].seen \in Nat
  BY Standing DEF Request
<1>2. PICK q \in Request : Becomes(r, q, "refresh", a, req[r].seen)
  BY <1>1, LoadRecord DEF Step
<1>3. versions' \in [Assets -> Seq(Row)] /\ Len(versions'[a]) > 0
  <2>1. TypeOK
    BY DEF RegistryInv
  <2>2. /\ versions' \in [Assets -> Seq(Row)] /\ HistoriesGrow
        /\ Len(versions'[a]) = Len(versions[a]) + 1
    BY <2>1, CommitExtends
  <2>3. Len(versions[a]) \in Nat
    BY <2>2 DEF HistoriesGrow
  <2>4. QED
    BY <2>2, <2>3
<1>4. WellFormed(r)' /\ StandsOnCommitted(r)'
  BY <1>2, <1>3, RefreshStands DEF Becomes
<1>5. QED
  BY <1>2, <1>4, CommitStep DEF Becomes

\* Updating: a coroutine commits a further version of the asset it loaded.
LEMMA UpdateCommits ==
    ASSUME RegistryInv, NEW r \in Requests,
           NEW row \in Row, NEW entry \in Entry,
           req[r].asset \in Assets, Commit(req[r].asset, row, entry),
           req[r].step = "commit", Goto(r, "refresh")
    PROVE  RegistryInv'
<1>1. PICK q \in Request : Becomes(r, q, "refresh", req[r].asset, req[r].seen)
  BY GotoRecord DEF Step
<1>2. versions' \in [Assets -> Seq(Row)] /\ Len(versions'[req[r].asset]) > 0
  BY CommitExtends DEF RegistryInv, HistoriesGrow
<1>3. WellFormed(r)' /\ StandsOnCommitted(r)'
  BY <1>1, <1>2, RefreshStands DEF Becomes
<1>4. QED
  BY <1>1, <1>3, CommitStep DEF Becomes

\* ... the commit of an enrolment, which writes a row and its first journal entry ...
LEMMA CommitEnrollPreserves ==
    ASSUME RegistryInv, NEW r \in Requests, CommitEnroll(r)
    PROVE  RegistryInv'
<1>1. PICK a \in Assets :
        /\ Commit(a, NewRow(req[r].host, req[r].print, "Discovered", 0), EnrollEntry)
        /\ req' = [req EXCEPT ![r].asset = a, ![r].step = "refresh"]
  BY DEF CommitEnroll
<1>2. req[r].host \in Hosts /\ req[r].print \in Prints /\ req[r].step = "commit"
  BY Standing DEF CommitEnroll, WellFormed
<1>3. /\ NewRow(req[r].host, req[r].print, "Discovered", 0) \in Row
      /\ EnrollEntry \in Entry
  BY <1>2 DEF NewRow, Row, AssetState, Score, EnrollEntry, Entry, Verb
<1>4. QED
  BY <1>1, <1>2, <1>3, BirthCommits

\* ... of an imported asset ...
LEMMA CommitImportPreserves ==
    ASSUME RegistryInv, NEW r \in Requests, CommitImport(r)
    PROVE  RegistryInv'
<1> DEFINE q == req[r]
<1>1. PICK a \in Assets :
        /\ Commit(a, NewRow(q.host, q.print, ReportState(q.score), q.score),
                  ImportEntry(q.score))
        /\ req' = [req EXCEPT ![r].asset = a, ![r].step = "refresh"]
  BY DEF CommitImport
<1>2. /\ q.host \in Hosts /\ q.print \in Prints /\ q.score \in Score
      /\ q.step = "commit"
  BY Standing DEF CommitImport, WellFormed
<1>3. /\ NewRow(q.host, q.print, ReportState(q.score), q.score) \in Row
      /\ ImportEntry(q.score) \in Entry
  BY <1>2, BirthsTyped DEF ImportEntry, Entry, Verb
<1>4. QED
  BY <1>1, <1>2, <1>3, BirthCommits

\* ... of a transition, under the version that was read ...
LEMMA CommitTransitionPreserves ==
    ASSUME RegistryInv, NEW r \in Requests, CommitTransition(r)
    PROVE  RegistryInv'
<1> DEFINE a == req[r].asset
           t == req[r].target
<1>1. /\ req[r].step = "commit" /\ a \in Assets /\ a # None
      /\ Permitted(Loaded(r).state, t)
  BY Standing, NoneAssumption DEF CommitTransition, WellFormed, StandsOnCommitted
<1>2. Loaded(r) \in Row /\ Current(a) \in Row /\ t \in AssetState
  BY <1>1, LoadedRow DEF Permitted
<1>3. TransitionRow(Current(a), t) \in Row /\ TransitionEntry(Loaded(r), t) \in Entry
  BY <1>2, RowsTyped DEF TransitionEntry, Entry, Verb, Row
<1>4. QED
  BY <1>1, <1>3, UpdateCommits DEF CommitTransition

\* ... of an update ...
LEMMA CommitUpdatePreserves ==
    ASSUME RegistryInv, NEW r \in Requests, CommitUpdate(r)
    PROVE  RegistryInv'
<1> DEFINE a == req[r].asset
           h == req[r].host
           s == req[r].score
<1>1. /\ req[r].step = "commit" /\ a # None /\ s \in Score /\ h \in Hosts
  BY Standing DEF CommitUpdate, WellFormed
<1>2. a \in Assets /\ Loaded(r) \in Row /\ Current(a) \in Row
  BY <1>1, LoadedRow
<1>3. /\ ReportRow(Current(a), Loaded(r), h, s) \in Row
      /\ UpdateEntry(s) \in Entry
  BY <1>1, <1>2, RowsTyped DEF UpdateEntry, Entry, Verb
<1>4. QED
  BY <1>1, <1>2, <1>3, UpdateCommits DEF CommitUpdate

\* ... of a quarantine ...
LEMMA CommitQuarantinePreserves ==
    ASSUME RegistryInv, NEW r \in Requests, CommitQuarantine(r)
    PROVE  RegistryInv'
<1> DEFINE a == req[r].asset
<1>1. /\ req[r].step = "commit" /\ a \in Assets /\ a # None
  BY Standing, NoneAssumption DEF CommitQuarantine, WellFormed
<1>2. Loaded(r) \in Row /\ Current(a) \in Row /\ Penalised(Loaded(r).score) \in Score
  BY <1>1, LoadedRow, PenalisedScore DEF Row
<1>3. /\ QuarantineRow(Current(a), Loaded(r)) \in Row
      /\ QuarantineEntry(Loaded(r)) \in Entry
  BY <1>2, RowsTyped DEF QuarantineEntry, Entry, Verb
<1>4. req' = [req EXCEPT ![r] = Idle] /\ req'[r] = Idle
  BY Standing DEF CommitQuarantine, Finish
<1>5. QED
  BY <1>1, <1>3, <1>4, IdleStands, CommitStep DEF CommitQuarantine

-----------------------------------------------------------------------------
(* The tail of a write, failures and evictions.                            *)

\* ... a row read again after its commit ...
LEMMA RefreshPreserves ==
    ASSUME RegistryInv, NEW r \in Requests, Refresh(r)
    PROVE  RegistryInv'
<1> DEFINE a == req[r].asset
<1>1. /\ WellFormed(r) /\ versions \in [Assets -> Seq(Row)] /\ versions' = versions
      /\ a \in Assets /\ Exists(a)
  BY Standing DEF Refresh, StandsOnCommitted, store
<1>2. Latest(a) \in 1 .. Latest(a) /\ Latest(a) \in Nat
  BY <1>1 DEF Exists, Latest
<1>3. PICK q \in Request : Becomes(r, q, "repopulate", a, Latest(a))
  BY <1>1, <1>2, LoadRecord DEF Refresh, Step
<1>4. WellFormed(r)' /\ StandsOnCommitted(r)'
  BY <1>1, <1>2, <1>3 DEF Becomes, WellFormed, StandsOnCommitted, Latest
<1>5. QED
  BY <1>3, <1>4, QuietStep DEF Becomes, Refresh

\* ... the cache filled after a commit ...
LEMMA RepopulatePreserves ==
    ASSUME RegistryInv, NEW r \in Requests, Repopulate(r)
    PROVE  RegistryInv'
<1>1. /\ req[r].asset \in Assets
      /\ req[r].seen \in 1 .. Latest(req[r].asset)
      /\ req[r].seen \in 0 .. Latest(req[r].asset)
  BY Standing DEF Repopulate, StandsOnCommitted
<1>2. req' = [req EXCEPT ![r] = Idle] /\ req'[r] = Idle
  BY Standing DEF Repopulate, Finish
<1>3. QED
  BY <1>1, <1>2, IdleStands, CacheStep DEF Repopulate

\* ... and a cache entry that expires.
LEMMA ExpireCachePreserves ==
    ASSUME RegistryInv, NEW a \in Assets, ExpireCache(a)
    PROVE  RegistryInv'
<1>1. /\ TypeOK /\ SessionsStandOnCommitted /\ CacheHoldsCommitted
      /\ versions' = versions /\ journal' = journal /\ req' = req
      /\ cache' = [cache EXCEPT ![a] = 0]
  BY DEF RegistryInv, ExpireCache, store
<1>2. TypeOK' /\ CacheHoldsCommitted'
  BY <1>1 DEF TypeOK, WellFormed, CacheHoldsCommitted, Latest
<1>3. SessionsStandOnCommitted'
  BY <1>1 DEF SessionsStandOnCommitted, StandsOnCommitted, Exists, Latest, Loaded, Permitted
<1>4. QED
  BY <1>2, <1>3 DEF RegistryInv

-----------------------------------------------------------------------------
\* The registry starts empty.
LEMMA InitRegistryInv == Init => RegistryInv
<1> SUFFICES ASSUME Init PROVE RegistryInv
  OBVIOUS
<1>1. \A r \in Requests : req[r] = Idle
  BY DEF Init
<1>2. Idle \in Request /\ Idle.step = "idle" /\ Idle.op = "none"
  BY DEF Idle, Request, Op, Step
<1>3. TypeOK
  BY <1>1, <1>2 DEF Init, TypeOK, WellFormed
<1>4. SessionsStandOnCommitted
  BY <1>1, <1>2 DEF SessionsStandOnCommitted, StandsOnCommitted
<1>5. CacheHoldsCommitted
  <2> SUFFICES ASSUME NEW a \in Assets PROVE cache[a] <= Latest(a)
    BY DEF CacheHoldsCommitted
  <2>1. cache[a] = 0 /\ versions[a] = <<>>
    BY DEF Init
  <2>2. Latest(a) = 0
    BY <2>1 DEF Latest
  <2>3. QED
    BY <2>1, <2>2
<1>6. QED
  BY <1>3, <1>4, <1>5 DEF RegistryInv

\* No step breaks the invariant.
LEMMA NextRegistryInv == RegistryInv /\ [Next]_vars => RegistryInv'
<1> SUFFICES ASSUME RegistryInv, [Next]_vars PROVE RegistryInv'
  OBVIOUS
<1>1. ASSUME NEW r \in Requests, EnrollStep(r) PROVE RegistryInv'
  BY <1>1, BeginPreserves, CommitEnrollPreserves DEF EnrollStep
<1>2. ASSUME NEW r \in Requests, ReadStep(r) PROVE RegistryInv'
  BY <1>2, BeginPreserves, ReadRowPreserves, FillCachePreserves DEF ReadStep
<1>3. ASSUME NEW r \in Requests, TransitionStep(r) PROVE RegistryInv'
  BY <1>3, BeginPreserves, CommitTransitionPreserves DEF TransitionStep
<1>4. ASSUME NEW r \in Requests, ReportStep(r) PROVE RegistryInv'
  BY <1>4, BeginPreserves, MatchReportPreserves, CommitImportPreserves,
     CommitUpdatePreserves DEF ReportStep
<1>5. ASSUME NEW r \in Requests, QuarantineStep(r) PROVE RegistryInv'
  BY <1>5, BeginPreserves, ReadForQuarantinePreserves, CommitQuarantinePreserves
  DEF QuarantineStep
<1>6. ASSUME NEW r \in Requests, TailStep(r) PROVE RegistryInv'
  BY <1>6, RefreshPreserves, RepopulatePreserves, EndPreserves
  DEF TailStep, ConstraintViolated, Abort
<1>7. ASSUME NEW a \in Assets, ExpireCache(a) PROVE RegistryInv'
  BY <1>7, ExpireCachePreserves
<1>8. CASE UNCHANGED vars
  BY <1>8 DEF vars, RegistryInv, TypeOK, WellFormed, SessionsStandOnCommitted,
              StandsOnCommitted, CacheHoldsCommitted, Exists, Latest, Loaded, Permitted
<1>9. QED
  BY <1>1, <1>2, <1>3, <1>4, <1>5, <1>6, <1>7, <1>8 DEF Next

\* Every session about to commit stands on a committed version of which what
\* it checked is true, and the cache holds committed rows only, whatever the
\* number of coroutines and however they interleave, fail or are cancelled.
THEOREM RegistrySafe == Spec => []RegistryInv
BY InitRegistryInv, NextRegistryInv, PTL DEF Spec

\* TypeOK, as the runs check it.
THEOREM RegistryTyped == Spec => []TypeOK
<1>1. RegistryInv => TypeOK
  BY DEF RegistryInv
<1>2. QED
  BY <1>1, RegistrySafe, PTL

\* No interleaving puts a version in the cache that was not committed.
THEOREM CacheSafe == Spec => []CacheHoldsCommitted
<1>1. RegistryInv => CacheHoldsCommitted
  BY DEF RegistryInv
<1>2. QED
  BY <1>1, RegistrySafe, PTL

-----------------------------------------------------------------------------
(* What an update does when no other session came between its read and its *)
(* commit.                                                                 *)

\* After a commit the row's current version and its journal's last entry are
\* the ones committed.
LEMMA CommitIsLatest ==
    ASSUME RegistryInv, NEW a \in Assets, NEW row \in Row, NEW entry \in Entry,
           Commit(a, row, entry)
    PROVE  Current(a)' = row /\ journal'[a][Len(journal'[a])] = entry
<1>1. versions \in [Assets -> Seq(Row)] /\ journal \in [Assets -> Seq(Entry)]
  BY DEF RegistryInv, TypeOK
<1>2. /\ versions[a] \in Seq(Row) /\ versions'[a] = Append(versions[a], row)
      /\ journal[a] \in Seq(Entry) /\ journal'[a] = Append(journal[a], entry)
  BY <1>1 DEF Commit
<1>3. versions'[a][Len(versions'[a])] = row
  BY <1>2
<1>4. journal'[a][Len(journal'[a])] = entry
  BY <1>2
<1>5. QED
  BY <1>3, <1>4 DEF Current, Latest

\* The newest entry of asset a is true of the row before and after the step.
Recorded(a) == AsRecorded(Current(a), Current(a)', journal'[a][Len(journal'[a])])

\* A transition that nobody overtook moves along the matrix.
LEMMA TransitionAbreast ==
    ASSUME RegistryInv, NEW r \in Requests, NEW a \in Assets,
           Abreast(r, a), CommitTransition(r)
    PROVE  Recorded(a)
<1> DEFINE t == req[r].target
           before == Current(a)
<1>1. a # None /\ Loaded(r) = before /\ Permitted(before.state, t)
  BY Standing, NoneAssumption
  DEF Abreast, CommitTransition, StandsOnCommitted, Loaded, Current
<1>2. before \in Row /\ t \in AssetState
  BY <1>1, LoadedRow DEF Abreast, Permitted
<1>3. /\ TransitionRow(before, t) \in Row /\ TransitionEntry(before, t) \in Entry
      /\ TransitionRow(before, t).state = t
  BY <1>2, RowsTyped DEF TransitionEntry, TransitionRow, Entry, Verb, Row
<1>4. Commit(a, TransitionRow(before, t), TransitionEntry(before, t))
  BY <1>1 DEF Abreast, CommitTransition
<1>5. /\ Current(a)' = TransitionRow(before, t)
      /\ journal'[a][Len(journal'[a])] = TransitionEntry(before, t)
  BY <1>3, <1>4, CommitIsLatest
<1>6. AsRecorded(before, TransitionRow(before, t), TransitionEntry(before, t))
  BY <1>1, <1>3 DEF AsRecorded, TransitionEntry
<1>7. QED
  BY <1>5, <1>6 DEF Recorded

\* A report that nobody overtook sets the score and the state it asks for.
LEMMA ReportAbreast ==
    ASSUME RegistryInv, NEW r \in Requests, NEW a \in Assets,
           Abreast(r, a), CommitUpdate(r)
    PROVE  Recorded(a)
<1> DEFINE s == req[r].score
           h == req[r].host
           before == Current(a)
           after == ReportRow(before, before, h, s)
<1>1. /\ a # None /\ Loaded(r) = before /\ s \in Score /\ h \in Hosts
  BY Standing, NoneAssumption DEF Abreast, CommitUpdate, WellFormed, Loaded, Current
<1>2. before \in Row
  BY <1>1, LoadedRow DEF Abreast
<1>3. after \in Row /\ UpdateEntry(s) \in Entry
  BY <1>1, <1>2, RowsTyped DEF UpdateEntry, Entry, Verb
<1>4. after.state = ReportState(s) /\ after.score = s
  BY <1>2 DEF ReportRow, Written, Row
<1>5. Commit(a, after, UpdateEntry(s))
  BY <1>1 DEF Abreast, CommitUpdate
<1>6. Current(a)' = after /\ journal'[a][Len(journal'[a])] = UpdateEntry(s)
  BY <1>3, <1>5, CommitIsLatest
<1>7. AsRecorded(before, after, UpdateEntry(s))
  BY <1>4 DEF AsRecorded, UpdateEntry
<1>8. QED
  BY <1>6, <1>7 DEF Recorded

\* A quarantine that nobody overtook takes the penalty off the row's score.
LEMMA QuarantineAbreast ==
    ASSUME RegistryInv, NEW r \in Requests, NEW a \in Assets,
           Abreast(r, a), CommitQuarantine(r)
    PROVE  Recorded(a)
<1> DEFINE before == Current(a)
           after == QuarantineRow(before, before)
<1>1. a # None /\ Loaded(r) = before /\ before.state # "Quarantined"
  BY Standing, NoneAssumption
  DEF Abreast, CommitQuarantine, StandsOnCommitted, Loaded, Current
<1>2. before \in Row /\ Penalised(before.score) \in Score
  BY <1>1, LoadedRow, PenalisedScore DEF Abreast, Row
<1>3. after \in Row /\ QuarantineEntry(before) \in Entry
  BY <1>2, RowsTyped DEF QuarantineEntry, Entry, Verb
<1>4. after.state = "Quarantined" /\ after.score = Penalised(before.score)
  BY <1>2 DEF QuarantineRow, Written, Row
<1>5. Commit(a, after, QuarantineEntry(before))
  BY <1>1 DEF Abreast, CommitQuarantine
<1>6. /\ Current(a)' = after
      /\ journal'[a][Len(journal'[a])] = QuarantineEntry(before)
  BY <1>3, <1>5, CommitIsLatest
<1>7. AsRecorded(before, after, QuarantineEntry(before))
  BY <1>1, <1>4 DEF AsRecorded, QuarantineEntry
<1>8. QED
  BY <1>6, <1>7 DEF Recorded

\* Every step writes at most one coroutine's record.
LEMMA OneMoves ==
    ASSUME RegistryInv, NEW o \in Requests,
           \/ EnrollStep(o) \/ ReadStep(o) \/ TransitionStep(o)
           \/ ReportStep(o) \/ QuarantineStep(o) \/ TailStep(o)
    PROVE  \A r \in Requests \ {o} : req'[r] = req[r]
<1>1. req \in [Requests -> Request]
  BY Standing
<1>2. CASE EnrollStep(o)
  BY <1>1, <1>2 DEF EnrollStep, BeginEnroll, CommitEnroll, Start
<1>3. CASE ReadStep(o)
  BY <1>1, <1>3 DEF ReadStep, BeginLookup, ReadRow, FillCache, Start, Goto, Finish
<1>4. CASE TransitionStep(o)
  BY <1>1, <1>4 DEF TransitionStep, BeginTransition, CommitTransition, Start, Goto
<1>5. CASE ReportStep(o)
  BY <1>1, <1>5 DEF ReportStep, BeginReport, MatchReport, CommitImport, CommitUpdate,
                    Start, Goto, Finish
<1>6. CASE QuarantineStep(o)
  BY <1>1, <1>6 DEF QuarantineStep, BeginQuarantine, ReadForQuarantine,
                    CommitQuarantine, Start, Finish
<1>7. CASE TailStep(o)
  BY <1>1, <1>7 DEF TailStep, Refresh, Repopulate, ConstraintViolated, Abort, Finish
<1>8. QED
  BY <1>2, <1>3, <1>4, <1>5, <1>6, <1>7

\* Of the steps of a coroutine about to update, only its commit changes rows.
LEMMA OnlyItsCommitWrites ==
    ASSUME RegistryInv, NEW r \in Requests, req[r].step = "commit", req[r].asset # None,
           versions' # versions,
           \/ EnrollStep(r) \/ ReadStep(r) \/ TransitionStep(r)
           \/ ReportStep(r) \/ QuarantineStep(r) \/ TailStep(r)
    PROVE  CommitEnroll(r) \/ CommitTransition(r) \/ CommitUpdate(r) \/ CommitQuarantine(r)
<1>1. CASE EnrollStep(r)
  BY <1>1 DEF EnrollStep, BeginEnroll, Start, store
<1>2. CASE ReadStep(r)
  BY <1>2 DEF ReadStep, BeginLookup, ReadRow, FillCache, Start, store
<1>3. CASE TransitionStep(r)
  BY <1>3 DEF TransitionStep, BeginTransition, Start, store
<1>4. CASE ReportStep(r)
  BY <1>4 DEF ReportStep, BeginReport, MatchReport, CommitImport, Start, store
<1>5. CASE QuarantineStep(r)
  BY <1>5 DEF QuarantineStep, BeginQuarantine, ReadForQuarantine, Start, store
<1>6. CASE TailStep(r)
  BY <1>6 DEF TailStep, Refresh, Repopulate, ConstraintViolated, Abort, store
<1>7. QED
  BY <1>1, <1>2, <1>3, <1>4, <1>5, <1>6

\* An enrolment's first entry claims nothing of an earlier row.
LEMMA EnrollAbreast ==
    ASSUME RegistryInv, NEW r \in Requests, NEW a \in Assets,
           versions'[a] # versions[a], CommitEnroll(r)
    PROVE  Recorded(a)
<1>1. PICK b \in Assets :
        Commit(b, NewRow(req[r].host, req[r].print, "Discovered", 0), EnrollEntry)
  BY DEF CommitEnroll
<1>2. req[r].host \in Hosts /\ req[r].print \in Prints
  BY Standing DEF CommitEnroll, WellFormed
<1>3. /\ NewRow(req[r].host, req[r].print, "Discovered", 0) \in Row
      /\ EnrollEntry \in Entry
  BY <1>2 DEF NewRow, Row, AssetState, Score, EnrollEntry, Entry, Verb
<1>4. a = b
  BY <1>1, Standing DEF Commit
<1>5. journal'[a][Len(journal'[a])] = EnrollEntry
  BY <1>1, <1>3, <1>4, CommitIsLatest
<1>6. QED
  BY <1>5 DEF Recorded, AsRecorded, EnrollEntry

\* The property, of one step.
LEMMA StepRecorded ==
    ASSUME RegistryInv, [Next]_vars, NEW r \in Requests, NEW a \in Assets,
           Abreast(r, a), req'[r] # req[r], versions'[a] # versions[a]
    PROVE  Recorded(a)
<1>1. a # None /\ req[r].step = "commit" /\ req[r].asset = a /\ versions' # versions
  BY NoneAssumption DEF Abreast
<1>2. PICK o \in Requests :
        \/ EnrollStep(o) \/ ReadStep(o) \/ TransitionStep(o)
        \/ ReportStep(o) \/ QuarantineStep(o) \/ TailStep(o)
  BY <1>1 DEF Next, ExpireCache, store, vars
<1>3. o = r
  BY <1>2, OneMoves
<1>4. CommitEnroll(r) \/ CommitTransition(r) \/ CommitUpdate(r) \/ CommitQuarantine(r)
  BY <1>1, <1>2, <1>3, OnlyItsCommitWrites
<1>5. QED
  BY <1>4, EnrollAbreast, TransitionAbreast, ReportAbreast, QuarantineAbreast

\* Only sessions that overlap make the row and its journal diverge: an update
\* whose loaded version is still the latest at its commit moves along the
\* matrix, sets what its report asks for, and takes the penalty off the score
\* it overwrites, whatever every other coroutine is doing.
THEOREM OverlapsDiverge == Spec => OnlyOverlapsDiverge
<1>1. RegistryInv /\ [Next]_vars => [UpdatesAsRecorded]_vars
  BY StepRecorded DEF UpdatesAsRecorded, Recorded
<1>2. QED
  BY <1>1, RegistrySafe, PTL DEF Spec, OnlyOverlapsDiverge

-----------------------------------------------------------------------------
(* The refinement.  Commits of the registry are the ledger's transactions, *)
(* every other step leaves the ledger as it is.                            *)

\* The two modules extend one AssetLifecycle: its operators are the same.
LEMMA SameLifecycle ==
    /\ Ledger!AssetState = AssetState
    /\ Ledger!Score = Score
    /\ Ledger!EnrollEntry = EnrollEntry
    /\ \A s : /\ Ledger!ReportState(s) = ReportState(s)
              /\ Ledger!ImportEntry(s) = ImportEntry(s)
              /\ Ledger!UpdateEntry(s) = UpdateEntry(s)
    /\ \A h, p, st, sc : Ledger!NewRow(h, p, st, sc) = NewRow(h, p, st, sc)
    /\ \A c, t : /\ Ledger!TransitionRow(c, t) = TransitionRow(c, t)
                 /\ Ledger!TransitionEntry(c, t) = TransitionEntry(c, t)
                 /\ Ledger!Permitted(c, t) <=> Permitted(c, t)
    /\ \A c, l : Ledger!QuarantineRow(c, l) = QuarantineRow(c, l)
    /\ \A l : Ledger!QuarantineEntry(l) = QuarantineEntry(l)
    /\ \A c, l, h, s : Ledger!ReportRow(c, l, h, s) = ReportRow(c, l, h, s)
BY DEF Ledger!AssetState, AssetState, Ledger!Score, Score, Ledger!EnrollEntry, EnrollEntry,
       Ledger!ReportState, ReportState, Ledger!ImportEntry, ImportEntry,
       Ledger!UpdateEntry, UpdateEntry, Ledger!NewRow, NewRow,
       Ledger!TransitionRow, TransitionRow, Ledger!TransitionEntry, TransitionEntry,
       Ledger!Permitted, Permitted, Ledger!AllowedTransitions, AllowedTransitions,
       Ledger!QuarantineRow, QuarantineRow, Ledger!QuarantineEntry, QuarantineEntry,
       Ledger!Penalised, Penalised, Ledger!ReportRow, ReportRow,
       Ledger!Written, Written

\* A row and its journal entry are written as the ledger writes them.
LEMMA CommitIsLedgerCommit ==
    ASSUME NEW a \in Assets, NEW row, NEW entry, Commit(a, row, entry)
    PROVE  Ledger!Commit(a, row, entry)
BY DEF Commit, Ledger!Commit

\* What a session loaded is one of the ledger's versions, so its commit is an
\* update of the ledger from that version.
LEMMA LedgerUpdate ==
    ASSUME RegistryInv, NEW r \in Requests,
           req[r].step = "commit", req[r].asset # None,
           \/ \E t \in AssetState : Ledger!Transition(req[r].asset, req[r].seen, t)
           \/ \E h \in Hosts, s \in ReportScores \cap Score :
                 Ledger!UpdateFromReport(req[r].asset, req[r].seen, h, s)
           \/ Ledger!Quarantine(req[r].asset, req[r].seen)
    PROVE  Ledger!Next
BY LoadedRow, SameLifecycle DEF Ledger!Update, Ledger!Next

\* An enrolment is a birth in the ledger ...
LEMMA CommitEnrollRefines ==
    ASSUME RegistryInv, NEW r \in Requests, CommitEnroll(r)
    PROVE  Ledger!Next
<1> DEFINE h == req[r].host
           p == req[r].print
<1>1. h \in Hosts /\ p \in Prints
  BY Standing DEF CommitEnroll, WellFormed
<1>2. PICK a \in Assets : ~Exists(a) /\ Commit(a, NewRow(h, p, "Discovered", 0), EnrollEntry)
  BY DEF CommitEnroll
<1>3. Ledger!Enroll(a, h, p)
  BY <1>2, CommitIsLedgerCommit, SameLifecycle
  DEF CommitEnroll, Ledger!Enroll, PrintFree, Ledger!PrintFree, Exists, Ledger!Exists,
      Current, Latest, Ledger!Current
<1>4. QED
  BY <1>1, <1>3, SameLifecycle DEF Ledger!Birth, Ledger!Next

\* ... so is an import ...
LEMMA CommitImportRefines ==
    ASSUME RegistryInv, NEW r \in Requests, CommitImport(r)
    PROVE  Ledger!Next
<1> DEFINE h == req[r].host
           p == req[r].print
           s == req[r].score
<1>1. h \in Hosts /\ p \in Prints /\ s \in ReportScores \cap Score
  BY Standing DEF CommitImport, WellFormed
<1>2. PICK a \in Assets :
        ~Exists(a) /\ Commit(a, NewRow(h, p, ReportState(s), s), ImportEntry(s))
  BY DEF CommitImport
<1>3. Ledger!ImportReport(a, h, p, s)
  BY <1>2, CommitIsLedgerCommit, SameLifecycle
  DEF CommitImport, Ledger!ImportReport, PrintFree, Ledger!PrintFree, Exists,
      Ledger!Exists, Current, Latest, Ledger!Current
<1>4. QED
  BY <1>1, <1>3, SameLifecycle DEF Ledger!Birth, Ledger!Next

\* ... a transition is one of the ledger ...
LEMMA CommitTransitionRefines ==
    ASSUME RegistryInv, NEW r \in Requests, CommitTransition(r)
    PROVE  Ledger!Next
<1> DEFINE a == req[r].asset
           t == req[r].target
<1>1. /\ req[r].step = "commit" /\ a \in Assets /\ a # None
      /\ Permitted(Loaded(r).state, t) /\ t \in AssetState
  BY Standing, NoneAssumption DEF CommitTransition, WellFormed, StandsOnCommitted, Permitted
<1>2. Ledger!Commit(a, TransitionRow(Current(a), t), TransitionEntry(Loaded(r), t))
  BY <1>1, CommitIsLedgerCommit DEF CommitTransition
<1>3. Ledger!Transition(a, req[r].seen, t)
  BY <1>1, <1>2, SameLifecycle DEF Ledger!Transition, Loaded, Current, Latest, Ledger!Current
<1>4. QED
  BY <1>1, <1>3, LedgerUpdate

\* ... an update too ...
LEMMA CommitUpdateRefines ==
    ASSUME RegistryInv, NEW r \in Requests, CommitUpdate(r)
    PROVE  Ledger!Next
<1> DEFINE a == req[r].asset
           h == req[r].host
           s == req[r].score
<1>1. /\ req[r].step = "commit" /\ a # None
      /\ h \in Hosts /\ s \in ReportScores \cap Score
  BY Standing DEF CommitUpdate, WellFormed
<1>2. Ledger!Commit(a, ReportRow(Current(a), Loaded(r), h, s), UpdateEntry(s))
  BY <1>1, LoadedRow, CommitIsLedgerCommit DEF CommitUpdate
<1>3. Ledger!UpdateFromReport(a, req[r].seen, h, s)
  BY <1>2, SameLifecycle DEF Ledger!UpdateFromReport, Loaded, Current, Latest, Ledger!Current
<1>4. QED
  BY <1>1, <1>3, LedgerUpdate

\* ... and a quarantine.
LEMMA CommitQuarantineRefines ==
    ASSUME RegistryInv, NEW r \in Requests, CommitQuarantine(r)
    PROVE  Ledger!Next
<1> DEFINE a == req[r].asset
<1>1. /\ req[r].step = "commit" /\ a \in Assets /\ a # None
      /\ Loaded(r).state # "Quarantined"
  BY Standing, NoneAssumption DEF CommitQuarantine, WellFormed, StandsOnCommitted
<1>2. Ledger!Commit(a, QuarantineRow(Current(a), Loaded(r)), QuarantineEntry(Loaded(r)))
  BY <1>1, CommitIsLedgerCommit DEF CommitQuarantine
<1>3. Ledger!Quarantine(a, req[r].seen)
  BY <1>1, <1>2, SameLifecycle DEF Ledger!Quarantine, Loaded, Current, Latest, Ledger!Current
<1>4. QED
  BY <1>1, <1>3, LedgerUpdate

\* Every step of the registry is a step of the ledger or none.
LEMMA StepRefines == RegistryInv /\ [Next]_vars => [Ledger!Next]_(Ledger!vars)
<1> SUFFICES ASSUME RegistryInv, [Next]_vars
             PROVE  Ledger!Next \/ UNCHANGED store
  BY DEF Ledger!vars, store
<1>1. ASSUME NEW r \in Requests, EnrollStep(r)
      PROVE  Ledger!Next \/ UNCHANGED store
  BY <1>1, CommitEnrollRefines DEF EnrollStep, BeginEnroll, Start
<1>2. ASSUME NEW r \in Requests, ReadStep(r)
      PROVE  UNCHANGED store
  BY <1>2 DEF ReadStep, BeginLookup, Start, ReadRow, FillCache
<1>3. ASSUME NEW r \in Requests, TransitionStep(r)
      PROVE  Ledger!Next \/ UNCHANGED store
  BY <1>3, CommitTransitionRefines DEF TransitionStep, BeginTransition, Start
<1>4. ASSUME NEW r \in Requests, ReportStep(r)
      PROVE  Ledger!Next \/ UNCHANGED store
  BY <1>4, CommitImportRefines, CommitUpdateRefines
  DEF ReportStep, BeginReport, Start, MatchReport
<1>5. ASSUME NEW r \in Requests, QuarantineStep(r)
      PROVE  Ledger!Next \/ UNCHANGED store
  BY <1>5, CommitQuarantineRefines
  DEF QuarantineStep, BeginQuarantine, Start, ReadForQuarantine
<1>6. ASSUME NEW r \in Requests, TailStep(r)
      PROVE  UNCHANGED store
  BY <1>6 DEF TailStep, Refresh, Repopulate, ConstraintViolated, Abort
<1>7. ASSUME NEW a \in Assets, ExpireCache(a)
      PROVE  UNCHANGED store
  BY <1>7 DEF ExpireCache
<1>8. CASE UNCHANGED vars
  BY <1>8 DEF vars, store
<1>9. QED
  BY <1>1, <1>2, <1>3, <1>4, <1>5, <1>6, <1>7, <1>8 DEF Next

\* The registry implements the ledger: whatever the interleaving of requests,
\* failures and cache traffic, its committed history is one the ledger allows.
THEOREM RegistryRefinesLedger == Spec => RefinesLedger
<1>1. Init => Ledger!Init
  BY DEF Init, Ledger!Init
<1>2. QED
  BY <1>1, StepRefines, RegistrySafe, PTL DEF Spec, RefinesLedger, Ledger!Spec

-----------------------------------------------------------------------------
(* The ledger, for itself: its invariant needs nothing of the registry.     *)

LedgerInv ==
    /\ Ledger!TypeOK
    /\ Ledger!JournalExplainsRow
    /\ Ledger!RecordedTransitionsLegal
    /\ Ledger!FingerprintIdentifies

-----------------------------------------------------------------------------
\* An automated quarantine never leaves a score outside 0..100.
LEMMA LedgerPenalised == \A s \in Ledger!Score : Ledger!Penalised(s) \in Ledger!Score
BY DEF Ledger!Penalised, Ledger!Score

\* The rows the UPDATE statements leave are rows, with the fingerprint of the
\* row they start from.
LEMMA LedgerRows ==
    ASSUME NEW cur \in Ledger!Row, NEW old \in Ledger!Row
    PROVE  /\ \A t \in Ledger!AssetState :
                 /\ Ledger!TransitionRow(cur, t) \in Ledger!Row
                 /\ Ledger!TransitionRow(cur, t).print = cur.print
           /\ \A h \in Hosts, s \in Ledger!Score :
                 /\ Ledger!ReportRow(cur, old, h, s) \in Ledger!Row
                 /\ Ledger!ReportRow(cur, old, h, s).print = cur.print
           /\ Ledger!QuarantineRow(cur, old) \in Ledger!Row
           /\ Ledger!QuarantineRow(cur, old).print = cur.print
<1>1. Ledger!Penalised(old.score) \in Ledger!Score
  BY LedgerPenalised DEF Ledger!Row
<1>2. \A s : Ledger!ReportState(s) \in Ledger!AssetState
  BY DEF Ledger!ReportState, Ledger!AssetState
<1>3. QED
  BY <1>1, <1>2 DEF Ledger!Row, Ledger!TransitionRow, Ledger!ReportRow,
            Ledger!QuarantineRow, Ledger!Written, Ledger!AssetState

\* Each column of a report's UPDATE is written for itself.
LEMMA ReportColumns ==
    ASSUME NEW current \in Ledger!Row, NEW loaded \in Ledger!Row,
           NEW h \in Hosts, NEW s \in Ledger!Score
    PROVE  /\ Ledger!ReportRow(current, loaded, h, s) \in Ledger!Row
           /\ Ledger!ReportRow(current, loaded, h, s).print = current.print
           /\ Ledger!ReportRow(current, loaded, h, s).state
                = Ledger!Written(current.state, loaded.state, Ledger!ReportState(s))
           /\ Ledger!ReportRow(current, loaded, h, s).score
                = Ledger!Written(current.score, loaded.score, s)
<1>1. /\ Ledger!ReportRow(current, loaded, h, s) \in Ledger!Row
      /\ Ledger!ReportRow(current, loaded, h, s).print = current.print
  <2>1. \A g \in Hosts, t \in Ledger!Score :
            /\ Ledger!ReportRow(current, loaded, g, t) \in Ledger!Row
            /\ Ledger!ReportRow(current, loaded, g, t).print = current.print
    BY LedgerRows
  <2>2. QED
    BY <2>1
<1> DEFINE state == Ledger!Written(current.state, loaded.state, Ledger!ReportState(s))
           score == Ledger!Written(current.score, loaded.score, s)
           host == Ledger!Written(current.host, loaded.host, h)
<1>2. Ledger!ReportRow(current, loaded, h, s)
        = [current EXCEPT !.host = host, !.state = state, !.score = score]
  BY DEF Ledger!ReportRow
<1> HIDE DEF state, score, host
<1>3. /\ Ledger!ReportRow(current, loaded, h, s).state = state
      /\ Ledger!ReportRow(current, loaded, h, s).score = score
  BY <1>2 DEF Ledger!Row
<1>4. QED
  BY <1>1, <1>3 DEF state, score

-----------------------------------------------------------------------------
\* What one transaction does to the two histories: asset a's grow by one at
\* the end, the others stay.
LEMMA CommitAppends ==
    ASSUME Ledger!TypeOK, NEW a \in Assets, NEW row \in Ledger!Row, NEW entry \in Ledger!Entry,
           Ledger!Commit(a, row, entry)
    PROVE  /\ Ledger!TypeOK'
           /\ \A b \in Assets \ {a} : /\ versions'[b] = versions[b]
                                      /\ journal'[b] = journal[b]
           /\ Len(versions'[a]) = Len(versions[a]) + 1
           /\ versions'[a][Len(versions[a]) + 1] = row
           /\ \A i \in 1 .. Len(versions[a]) : versions'[a][i] = versions[a][i]
           /\ Len(journal'[a]) = Len(journal[a]) + 1
           /\ journal'[a][Len(journal[a]) + 1] = entry
           /\ \A i \in 1 .. Len(journal[a]) : journal'[a][i] = journal[a][i]
<1>1. /\ versions[a] \in Seq(Ledger!Row) /\ journal[a] \in Seq(Ledger!Entry)
      /\ versions'[a] = Append(versions[a], row)
      /\ journal'[a] = Append(journal[a], entry)
      /\ \A b \in Assets \ {a} : versions'[b] = versions[b] /\ journal'[b] = journal[b]
  BY DEF Ledger!TypeOK, Ledger!Commit
<1>2. Ledger!TypeOK'
  BY <1>1 DEF Ledger!TypeOK, Ledger!Commit
<1>3. QED
  BY <1>1, <1>2

\* A version already in the history goes on being explained when the history
\* grows behind it.
LEMMA ExplainsStable ==
    ASSUME NEW vs, NEW ws, NEW e, NEW n \in Nat \ {0},
           \A i \in 1 .. n : ws[i] = vs[i],
           Ledger!Explains(vs, e, n)
    PROVE  Ledger!Explains(ws, e, n)
<1>1. ws[n] = vs[n] /\ (n > 1 => ws[n - 1] = vs[n - 1])
  OBVIOUS
<1>2. QED
  BY <1>1 DEF Ledger!Explains

\* A transaction keeps the invariant when its entry explains its row, when a
\* transition it records is legal and starts from a state once held, and when
\* its row carries the asset's own fingerprint, or a free one at birth.
LEMMA CommitPreserves ==
    ASSUME LedgerInv, NEW a \in Assets, NEW row \in Ledger!Row, NEW entry \in Ledger!Entry,
           Ledger!Commit(a, row, entry),
           Ledger!Explains(versions'[a], entry, Len(versions[a]) + 1),
           entry.verb = "TRANSITION_STATE" =>
               /\ Ledger!Permitted(entry.from, entry.to)
               /\ \E i \in 1 .. Len(versions[a]) : versions[a][i].state = entry.from,
           \/ ~Ledger!Exists(a) /\ Ledger!PrintFree(row.print)
           \/ Ledger!Exists(a) /\ row.print = Ledger!Current(a).print
    PROVE  LedgerInv'
<1> DEFINE n == Len(versions[a]) + 1
<1>1. Ledger!TypeOK
  BY DEF LedgerInv
<1>2. \A b \in Assets : versions[b] \in Seq(Ledger!Row) /\ journal[b] \in Seq(Ledger!Entry)
                        /\ Len(journal[b]) = Len(versions[b]) /\ Len(versions[b]) \in Nat
  BY <1>1 DEF LedgerInv, Ledger!TypeOK, Ledger!JournalExplainsRow
<1>3. /\ Ledger!TypeOK'
      /\ \A b \in Assets \ {a} : versions'[b] = versions[b] /\ journal'[b] = journal[b]
      /\ Len(versions'[a]) = n /\ versions'[a][n] = row
      /\ \A i \in 1 .. n - 1 : versions'[a][i] = versions[a][i]
      /\ Len(journal'[a]) = n /\ journal'[a][n] = entry
      /\ \A i \in 1 .. n - 1 : journal'[a][i] = journal[a][i]
  BY <1>1, <1>2, CommitAppends
<1> HIDE DEF n
<1>n. n \in Nat \ {0} /\ Len(versions[a]) = n - 1 /\ Len(journal[a]) = n - 1
  BY <1>2 DEF n
<1>4. Ledger!JournalExplainsRow'
  <2>1. ASSUME NEW b \in Assets, NEW k \in 1 .. Len(journal'[b])
        PROVE  Ledger!Explains(versions'[b], journal'[b][k], k)
    <3>1. CASE b # a
      BY <1>3, <3>1, <2>1 DEF LedgerInv, Ledger!JournalExplainsRow
    <3>2. CASE b = a /\ k = n
      BY <1>3, <3>2 DEF n
    <3>3. CASE b = a /\ k # n
      <4>1. k \in 1 .. n - 1 /\ k \in Nat \ {0}
        BY <1>3, <1>n, <3>3, <2>1
      <4>2. Ledger!Explains(versions[a], journal[a][k], k)
        BY <4>1, <1>n DEF LedgerInv, Ledger!JournalExplainsRow
      <4>3. \A i \in 1 .. k : versions'[a][i] = versions[a][i]
        BY <4>1, <1>3, <1>n
      <4>4. Ledger!Explains(versions'[a], journal[a][k], k)
        BY <4>1, <4>2, <4>3, ExplainsStable
      <4>5. QED
        BY <4>1, <4>4, <1>3, <3>3
    <3>4. QED
      BY <3>1, <3>2, <3>3
  <2>2. \A b \in Assets : Len(journal'[b]) = Len(versions'[b])
    BY <1>2, <1>3
  <2>3. QED
    BY <2>1, <2>2 DEF Ledger!JournalExplainsRow
<1>5. Ledger!RecordedTransitionsLegal'
  <2> SUFFICES ASSUME NEW b \in Assets, NEW k \in 1 .. Len(journal'[b]),
                      journal'[b][k].verb = "TRANSITION_STATE"
               PROVE  /\ Ledger!Permitted(journal'[b][k].from, journal'[b][k].to)
                      /\ \E i \in 1 .. k - 1 :
                            versions'[b][i].state = journal'[b][k].from
    BY DEF Ledger!RecordedTransitionsLegal
  <2>1. CASE b # a
    <3>1. versions'[b] = versions[b] /\ journal'[b] = journal[b]
      BY <1>3, <2>1
    <3>2. Ledger!RecordedTransitionsLegal
      BY DEF LedgerInv
    <3>3. QED
      BY <3>1, <3>2 DEF Ledger!RecordedTransitionsLegal
  <2>2. CASE b = a /\ k = n
    BY <1>3, <1>n, <2>2
  <2>3. CASE b = a /\ k # n
    <3>1. k \in 1 .. n - 1
      BY <1>3, <1>n, <2>3
    <3>2. /\ Ledger!Permitted(journal[a][k].from, journal[a][k].to)
          /\ \E i \in 1 .. k - 1 : versions[a][i].state = journal[a][k].from
      BY <3>1, <1>3, <1>n, <2>3 DEF LedgerInv, Ledger!RecordedTransitionsLegal
    <3>3. PICK i \in 1 .. k - 1 : versions[a][i].state = journal[a][k].from
      BY <3>2
    <3>4. i \in 1 .. n - 1
      BY <3>1, <1>n
    <3>5. versions'[a][i] = versions[a][i] /\ journal'[a][k] = journal[a][k]
      BY <3>1, <3>4, <1>3
    <3>6. QED
      BY <3>2, <3>3, <3>5, <2>3
  <2>4. QED
    BY <2>1, <2>2, <2>3
<1>6. Ledger!FingerprintIdentifies'
  <2>1. \A b \in Assets : \A i \in 1 .. Len(versions[b]) :
           (versions[b][i].print = row.print) <=> (b = a)
    <3>1. CASE ~Ledger!Exists(a) /\ Ledger!PrintFree(row.print)
      <4> SUFFICES ASSUME NEW b \in Assets, NEW i \in 1 .. Len(versions[b])
                   PROVE  versions[b][i].print # row.print /\ b # a
        OBVIOUS
      <4>1. Ledger!Exists(b) /\ Len(versions[b]) \in 1 .. Len(versions[b])
        BY <1>2 DEF Ledger!Exists
      <4>2. Ledger!Current(b).print # row.print
        BY <4>1, <3>1 DEF Ledger!PrintFree
      <4>3. versions[b][i].print = Ledger!Current(b).print
        BY <4>1 DEF LedgerInv, Ledger!FingerprintIdentifies, Ledger!Current
      <4>4. QED
        BY <4>1, <4>2, <4>3, <3>1
    <3>2. CASE Ledger!Exists(a) /\ row.print = Ledger!Current(a).print
      <4>1. Len(versions[a]) \in 1 .. Len(versions[a])
        BY <1>2, <3>2 DEF Ledger!Exists
      <4>2. QED
        BY <4>1, <3>2 DEF LedgerInv, Ledger!FingerprintIdentifies, Ledger!Current
    <3>3. QED
      BY <3>1, <3>2
  <2> SUFFICES ASSUME NEW b \in Assets, NEW c \in Assets,
                      NEW i \in 1 .. Len(versions'[b]), NEW j \in 1 .. Len(versions'[c])
               PROVE  (versions'[b][i].print = versions'[c][j].print) <=> (b = c)
    BY DEF Ledger!FingerprintIdentifies
  <2>2. (versions'[b][i].print = row.print) <=> (b = a)
    BY <2>1, <1>3, <1>n
  <2>3. (versions'[c][j].print = row.print) <=> (c = a)
    BY <2>1, <1>3, <1>n
  <2>4. CASE b # a /\ c # a
    <3>1. versions'[b] = versions[b] /\ versions'[c] = versions[c]
      BY <2>4, <1>3
    <3>2. Ledger!FingerprintIdentifies
      BY DEF LedgerInv
    <3>3. QED
      BY <3>1, <3>2 DEF Ledger!FingerprintIdentifies
  <2>5. QED
    BY <2>2, <2>3, <2>4
<1>7. QED
  BY <1>3, <1>4, <1>5, <1>6 DEF LedgerInv

-----------------------------------------------------------------------------
\* The ledger starts empty.
LEMMA InitLedgerInv == Ledger!Init => LedgerInv
<1> SUFFICES ASSUME Ledger!Init PROVE LedgerInv
  OBVIOUS
<1>1. \A a \in Assets : /\ versions[a] = <<>> /\ journal[a] = <<>>
                        /\ Len(versions[a]) = 0 /\ Len(journal[a]) = 0
  BY DEF Ledger!Init
<1>2. Ledger!TypeOK
  BY DEF Ledger!Init, Ledger!TypeOK
<1>3. QED
  BY <1>1, <1>2 DEF LedgerInv, Ledger!JournalExplainsRow, Ledger!RecordedTransitionsLegal,
                    Ledger!FingerprintIdentifies

\* The ledger's invariant survives the birth of an asset ...
LEMMA BirthPreserves ==
    ASSUME LedgerInv, NEW a \in Assets, Ledger!Birth(a)
    PROVE  LedgerInv'
<1>1. /\ versions[a] \in Seq(Ledger!Row) /\ ~Ledger!Exists(a) /\ Len(versions[a]) = 0
  BY DEF Ledger!Birth, Ledger!Enroll, Ledger!ImportReport, LedgerInv, Ledger!TypeOK,
         Ledger!Exists
<1>2. PICK h \in Hosts, p \in Prints :
        \/ Ledger!Enroll(a, h, p)
        \/ \E s \in ReportScores \cap Ledger!Score : Ledger!ImportReport(a, h, p, s)
  BY DEF Ledger!Birth
<1>3. CASE Ledger!Enroll(a, h, p)
  <2> DEFINE row == Ledger!NewRow(h, p, "Discovered", 0)
  <2>1. row \in Ledger!Row /\ Ledger!EnrollEntry \in Ledger!Entry /\ row.print = p
    BY DEF Ledger!Row, Ledger!NewRow, Ledger!AssetState, Ledger!Score, Ledger!Entry,
           Ledger!EnrollEntry, Ledger!Verb
  <2>2. Ledger!Commit(a, row, Ledger!EnrollEntry) /\ Ledger!PrintFree(row.print)
    BY <1>3, <2>1 DEF Ledger!Enroll
  <2>3. versions'[a][1] = row
    BY <2>1, <2>2, <1>1, CommitAppends DEF LedgerInv
  <2>4. Ledger!Explains(versions'[a], Ledger!EnrollEntry, Len(versions[a]) + 1)
    BY <2>3, <1>1 DEF Ledger!Explains, Ledger!EnrollEntry, Ledger!NewRow
  <2>5. Ledger!EnrollEntry.verb # "TRANSITION_STATE"
    BY DEF Ledger!EnrollEntry
  <2>6. QED
    BY <2>1, <2>2, <2>4, <2>5, <1>1, CommitPreserves
<1>4. CASE \E s \in ReportScores \cap Ledger!Score : Ledger!ImportReport(a, h, p, s)
  <2>0. PICK s \in ReportScores \cap Ledger!Score : Ledger!ImportReport(a, h, p, s)
    BY <1>4
  <2> DEFINE row == Ledger!NewRow(h, p, Ledger!ReportState(s), s)
  <2>1. row \in Ledger!Row /\ Ledger!ImportEntry(s) \in Ledger!Entry /\ row.print = p
    BY DEF Ledger!Row, Ledger!NewRow, Ledger!AssetState, Ledger!Score, Ledger!Entry,
           Ledger!ImportEntry, Ledger!Verb, Ledger!ReportState
  <2>2. Ledger!Commit(a, row, Ledger!ImportEntry(s)) /\ Ledger!PrintFree(row.print)
    BY <2>0, <2>1 DEF Ledger!ImportReport
  <2>3. versions'[a][1] = row
    BY <2>1, <2>2, <1>1, CommitAppends DEF LedgerInv
  <2>4. Ledger!Explains(versions'[a], Ledger!ImportEntry(s), Len(versions[a]) + 1)
    BY <2>3, <1>1 DEF Ledger!Explains, Ledger!ImportEntry, Ledger!NewRow
  <2>5. Ledger!ImportEntry(s).verb # "TRANSITION_STATE"
    BY DEF Ledger!ImportEntry
  <2>6. QED
    BY <2>1, <2>2, <2>4, <2>5, <1>1, CommitPreserves
<1>5. QED
  BY <1>2, <1>3, <1>4

\* ... and whatever changes the asset afterwards.
LEMMA UpdatePreserves ==
    ASSUME LedgerInv, NEW a \in Assets, Ledger!Update(a)
    PROVE  LedgerInv'
<1>1. PICK i \in 1 .. Len(versions[a]) :
        \/ \E t \in Ledger!AssetState : Ledger!Transition(a, i, t)
        \/ \E h \in Hosts, s \in ReportScores \cap Ledger!Score :
              Ledger!UpdateFromReport(a, i, h, s)
        \/ Ledger!Quarantine(a, i)
  BY DEF Ledger!Update
<1> DEFINE n == Len(versions[a])
           cur == Ledger!Current(a)
           old == versions[a][i]
<1>2. /\ n \in Nat \ {0} /\ i \in 1 .. n /\ versions[a] \in Seq(Ledger!Row)
      /\ cur \in Ledger!Row /\ old \in Ledger!Row /\ cur = versions[a][n] /\ Ledger!Exists(a)
  BY <1>1 DEF LedgerInv, Ledger!TypeOK, Ledger!Exists, Ledger!Current
<1> HIDE DEF n, cur, old
\* An update keeps the invariant when its row is a row, keeps the
\* fingerprint, and is explained by its entry over the current row.
<1>3. ASSUME NEW row \in Ledger!Row, NEW entry \in Ledger!Entry, Ledger!Commit(a, row, entry),
             row.print = cur.print,
             \A vs : (vs[n + 1] = row /\ vs[n] = cur) => Ledger!Explains(vs, entry, n + 1),
             entry.verb = "TRANSITION_STATE" =>
                 Ledger!Permitted(entry.from, entry.to) /\ entry.from = old.state
      PROVE  LedgerInv'
  <2>1. versions'[a][n + 1] = row /\ versions'[a][n] = cur
    BY <1>2, <1>3, CommitAppends DEF LedgerInv, n
  <2>2. Ledger!Explains(versions'[a], entry, n + 1)
    BY <2>1, <1>3
  <2>3. QED
    BY <2>2, <1>2, <1>3, CommitPreserves DEF n, cur, old
<1>4. ASSUME NEW t \in Ledger!AssetState, Ledger!Transition(a, i, t)
      PROVE  LedgerInv'
  <2> DEFINE row == Ledger!TransitionRow(cur, t)
             entry == Ledger!TransitionEntry(old, t)
  <2>1. /\ row \in Ledger!Row /\ row.print = cur.print /\ row = [cur EXCEPT !.state = t]
        /\ entry \in Ledger!Entry /\ entry.verb = "TRANSITION_STATE"
        /\ entry.from = old.state /\ entry.to = t
    BY <1>2 DEF Ledger!Row, Ledger!Entry, Ledger!Verb, Ledger!TransitionRow,
            Ledger!TransitionEntry
  <2>2. Ledger!Commit(a, row, entry) /\ Ledger!Permitted(old.state, t)
    BY <1>4 DEF Ledger!Transition, cur, old
  <2>3. ASSUME NEW vs, vs[n + 1] = row, vs[n] = cur
        PROVE  Ledger!Explains(vs, entry, n + 1)
    <3>1. n + 1 > 1 /\ (n + 1) - 1 = n
      BY <1>2
    <3>2. QED
      BY <3>1, <2>1, <2>3 DEF Ledger!Explains
  <2> HIDE DEF row, entry
  <2>4. QED
    BY <2>1, <2>2, <2>3, <1>3
<1>5. ASSUME NEW h \in Hosts, NEW s \in ReportScores \cap Ledger!Score,
             Ledger!UpdateFromReport(a, i, h, s)
      PROVE  LedgerInv'
  <2> DEFINE row == Ledger!ReportRow(cur, old, h, s)
             entry == Ledger!UpdateEntry(s)
  <2>1. /\ row \in Ledger!Row /\ row.print = cur.print
        /\ row.state \in {Ledger!ReportState(s), cur.state}
        /\ row.score \in {s, cur.score}
    <3>1. cur \in Ledger!Row /\ old \in Ledger!Row
      BY <1>2
    <3>2. h \in Hosts /\ s \in Ledger!Score
      BY <1>5
    <3>3. /\ row \in Ledger!Row /\ row.print = cur.print
          /\ row.state = Ledger!Written(cur.state, old.state, Ledger!ReportState(s))
          /\ row.score = Ledger!Written(cur.score, old.score, s)
      BY <3>1, <3>2, ReportColumns
    <3>4. QED
      BY <3>3 DEF Ledger!Written
  <2>2. entry \in Ledger!Entry /\ entry.verb = "UPDATE_FROM_REPORT" /\ entry.score = s
    BY DEF Ledger!Entry, Ledger!Verb, Ledger!UpdateEntry
  <2>3. Ledger!Commit(a, row, entry)
    BY <1>5 DEF Ledger!UpdateFromReport, cur, old
  <2>4. ASSUME NEW vs, vs[n + 1] = row, vs[n] = cur
        PROVE  Ledger!Explains(vs, entry, n + 1)
    <3>1. n + 1 > 1 /\ (n + 1) - 1 = n
      BY <1>2
    <3>2. QED
      BY <3>1, <2>1, <2>2, <2>4 DEF Ledger!Explains
  <2> HIDE DEF row, entry
  <2>5. QED
    BY <2>1, <2>2, <2>3, <2>4, <1>3
<1>6. CASE Ledger!Quarantine(a, i)
  <2> DEFINE row == Ledger!QuarantineRow(cur, old)
             entry == Ledger!QuarantineEntry(old)
  <2>0. Ledger!Penalised(old.score) \in Ledger!Score
    BY <1>2, LedgerPenalised DEF Ledger!Row
  <2>1. /\ row \in Ledger!Row /\ row.print = cur.print /\ row.host = cur.host
        /\ row.state = "Quarantined"
        /\ row.score \in {Ledger!Penalised(old.score), cur.score}
    BY <1>2, <2>0 DEF Ledger!Row, Ledger!QuarantineRow, Ledger!Written, Ledger!AssetState
  <2>2. /\ entry \in Ledger!Entry /\ entry.verb = "AUTOMATED_QUARANTINE_4625"
        /\ entry.score = Ledger!Penalised(old.score)
    BY <2>0 DEF Ledger!Entry, Ledger!Verb, Ledger!QuarantineEntry
  <2>3. Ledger!Commit(a, row, entry)
    BY <1>6 DEF Ledger!Quarantine, cur, old
  <2>4. ASSUME NEW vs, vs[n + 1] = row, vs[n] = cur
        PROVE  Ledger!Explains(vs, entry, n + 1)
    <3>1. n + 1 > 1 /\ (n + 1) - 1 = n
      BY <1>2
    <3>2. QED
      BY <3>1, <2>1, <2>2, <2>4 DEF Ledger!Explains
  <2> HIDE DEF row, entry
  <2>5. QED
    BY <2>1, <2>2, <2>3, <2>4, <1>3
<1>7. QED
  BY <1>1, <1>4, <1>5, <1>6

\* Every behaviour of the ledger keeps rows and entries well formed, one
\* audit entry per committed version that explains it, recorded transitions
\* inside the lifecycle matrix, and one fingerprint per asset.
THEOREM LedgerSafe == Ledger!Spec => []LedgerInv
<1>1. LedgerInv /\ [Ledger!Next]_(Ledger!vars) => LedgerInv'
  <2> SUFFICES ASSUME LedgerInv, [Ledger!Next]_(Ledger!vars) PROVE LedgerInv'
    OBVIOUS
  <2>1. CASE Ledger!Next
    BY <2>1, BirthPreserves, UpdatePreserves DEF Ledger!Next
  <2>2. CASE UNCHANGED Ledger!vars
    BY <2>2 DEF Ledger!vars, LedgerInv, Ledger!TypeOK, Ledger!JournalExplainsRow,
                Ledger!RecordedTransitionsLegal, Ledger!FingerprintIdentifies, Ledger!Explains,
                Ledger!Permitted
  <2>3. QED
    BY <2>1, <2>2
<1>2. QED
  BY InitLedgerInv, <1>1, PTL DEF Ledger!Spec

-----------------------------------------------------------------------------
(* What the ledger promises holds of the registry.                          *)

\* What the runs check of the ledger follows from its invariant.
LEMMA LedgerInvariants ==
    LedgerInv => JournalExplainsRow /\ RecordedTransitionsLegal /\ FingerprintIdentifies
BY DEF LedgerInv, JournalExplainsRow, RecordedTransitionsLegal, FingerprintIdentifies

\* The registry, which implements the ledger, has the ledger's invariant.
LEMMA RegistryLedgerInv == Spec => []LedgerInv
BY LedgerSafe, RegistryRefinesLedger, PTL DEF RefinesLedger

\* Every committed version of an asset's row has exactly one audit entry, and
\* the entry tells what the version holds.
THEOREM JournalComplete == Spec => []JournalExplainsRow
BY RegistryLedgerInv, LedgerInvariants, PTL

\* No audit entry records a transition outside the lifecycle matrix.
THEOREM JournalLegal == Spec => []RecordedTransitionsLegal
BY RegistryLedgerInv, LedgerInvariants, PTL

\* A fingerprint never names two assets, nor an asset two fingerprints.
THEOREM IdentityHolds == Spec => []FingerprintIdentifies
BY RegistryLedgerInv, LedgerInvariants, PTL

=============================================================================
