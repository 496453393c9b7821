---------------------------- MODULE EvidenceImport ----------------------------
(***************************************************************************)
(* POST /assets/import-report hands the event_logs of an offline report to *)
(* ingest_report_events: normalise, look the deduplication keys up, store  *)
(* what is new in one transaction, analyse the most severe ones one by     *)
(* one, each finding in a transaction of its own.  Several imports run at  *)
(* once, each on the session of its request; nothing but the look-up keeps *)
(* an event from being stored twice.                                       *)
(*                                                                         *)
(* A row of windows_event_logs is its position in `logs', in the order of  *)
(* commits; it remembers how many rows the look-up of its import saw.  A   *)
(* finding is identified by the row it was made for.                       *)
(***************************************************************************)
EXTENDS Naturals, Sequences, FiniteSets

CONSTANTS Assets,
          Events,      \* usable events of the reports
          Unusable,    \* an entry normalize_report_event refuses
          KeyOf,       \* what compute_dedup_key hashes, besides the asset
          Priority,    \* severity rank: critical 3, error 2, warning 1, else 0
          Reports,     \* the event lists the clients send
          Imports,     \* requests in progress at a time
          AnalyzeMax,  \* DEFAULT_ANALYZE_MAX
          MaxImports   \* bound: reports sent

ASSUME EventsAssumption ==
    /\ Unusable \notin Events
    /\ Priority \in [Events -> Nat]
    /\ DOMAIN KeyOf = Events
    /\ Reports \subseteq Seq(Events \cup {Unusable})
ASSUME BoundsAssumption == AnalyzeMax \in Nat /\ MaxImports \in Nat

VARIABLES logs,      \* windows_event_logs
          findings,  \* analysis_history, the rows of the import pipeline
          job,       \* the requests
          sent

vars == <<logs, findings, job, sent>>

-----------------------------------------------------------------------------
Keys == {KeyOf[e] : e \in Events}

Row == [asset : Assets, event : Events, seen : Nat]

\* event_source_id is a row, or "None" (0 here).
Finding == [row : Nat \ {0}, source : Nat]

\* EventIngestResult.
Count == [received : Nat, new : Nat, duplicate : Nat, failed : Nat,
          analyzed : Nat, broken : Nat]

NoCount == [received |-> 0, new |-> 0, duplicate |-> 0, failed |-> 0,
            analyzed |-> 0, broken |-> 0]

Step == {"idle", "lookup", "store", "select", "analyze"}

\* events: still to be looked up, then the new ones; first: the first row they
\* got; todo: rows to analyse; skip: those of them somebody analysed already.
Job == [step : Step, asset : Assets, events : Seq(Events), seen : Nat, first : Nat,
        todo : Seq(Nat \ {0}), skip : SUBSET (Nat \ {0}), count : Count]

Identity(i) == <<logs[i].asset, KeyOf[logs[i].event]>>

Rows == 1 .. Len(logs)

Init ==
    /\ logs = <<>> /\ findings = {} /\ sent = 0
    /\ job \in [Imports -> {[step |-> "idle", asset |-> a, events |-> <<>>, seen |-> 0,
                             first |-> 1, todo |-> <<>>, skip |-> {}, count |-> NoCount] :
                                a \in Assets}]

-----------------------------------------------------------------------------
\* The n-th of a set of positions.
Nth(positions, n) ==
    CHOOSE x \in positions : Cardinality({y \in positions : y < x}) = n - 1

\* The entries of a list that are good, in their order.
Kept(list, good) ==
    LET at == {n \in DOMAIN list : list[n] \in good} IN
    [n \in 1 .. Cardinality(at) |-> list[Nth(at, n)]]

\* normalize_report_event refuses what is no record or has no number.
Usable(report) == Kept(report, Events)

\* What is not usable is counted as failed.  An empty list is answered at once,
\* before anything is read.
Begin(r, a, report) ==
    LET usable == Usable(report) IN
    /\ job[r].step = "idle" /\ sent < MaxImports /\ report # <<>>
    /\ job' = [job EXCEPT ![r] =
                 [step |-> "lookup", asset |-> a, events |-> usable, seen |-> 0,
                  first |-> 1, todo |-> <<>>, skip |-> {},
                  count |-> [NoCount EXCEPT !.received = Len(report),
                                            !.failed = Len(report) - Len(usable)]]]
    /\ sent' = sent + 1
    /\ UNCHANGED <<logs, findings>>

NothingKnown(a) == {}                       \* mutant: the query never matches

\* _fetch_duplicate_keys: the keys stored for this asset.
Known(a) == {KeyOf[logs[i].event] : i \in {k \in Rows : logs[k].asset = a}}

\* The look-up, and what it makes new: an event the report repeats is new
\* every time, since the look-up precedes all of them.
LookedUp(r, known, seen) ==
    LET q == job[r]
        fresh == Kept(q.events, {e \in Events : KeyOf[e] \notin known}) IN
    /\ q.step = "lookup"
    /\ job' = [job EXCEPT ![r] =
                [q EXCEPT !.step = IF fresh = <<>> THEN "idle" ELSE "store",
                          !.events = fresh, !.seen = seen,
                          !.count = [q.count EXCEPT !.new = Len(fresh),
                                                    !.duplicate = Len(q.events) - Len(fresh)]]]
    /\ UNCHANGED <<logs, findings, sent>>

Lookup(r) == LookedUp(r, Known(job[r].asset), Len(logs))

\* A failing look-up treats everything as new.
LookupFails(r) == LookedUp(r, {}, 0)

\* The stable sort by falling analysis_priority.
Before(r, x, y) ==
    LET p == Priority[job[r].events[x]]
        q == Priority[job[r].events[y]] IN p > q \/ (p = q /\ x < y)

\* The n-th event of the batch in that order.
Ranked(r, n) ==
    LET batch == DOMAIN job[r].events IN
    CHOOSE x \in batch : Cardinality({y \in batch : Before(r, y, x)}) = n - 1

\* The candidates, as the rows they got.
Candidates(r) ==
    LET size == Len(job[r].events) IN
    [n \in 1 .. (IF size < AnalyzeMax THEN size ELSE AnalyzeMax) |->
        Len(logs) + Ranked(r, n)]

\* _persist_event for each, then one commit.
Store(r) ==
    LET q == job[r] IN
    /\ q.step = "store"
    /\ logs' = logs \o [n \in DOMAIN q.events |->
                          [asset |-> q.asset, event |-> q.events[n], seen |-> q.seen]]
    /\ job' = [job EXCEPT ![r].step = IF AnalyzeMax = 0 THEN "idle" ELSE "select",
                          ![r].first = Len(logs) + 1, ![r].todo = Candidates(r)]
    /\ UNCHANGED <<findings, sent>>

\* One event the table refuses, or a failed look-up before it, rolls the
\* whole batch back; the report itself is stored already.
StoreFails(r) ==
    /\ job[r].step = "store"
    /\ job' = [job EXCEPT ![r].step = "idle", ![r].count.new = 0,
                          ![r].count.failed = @ + job[r].count.new]
    /\ UNCHANGED <<logs, findings, sent>>

-----------------------------------------------------------------------------
Analyzed == {Identity(f.row) : f \in findings}

\* _fetch_analyzed_keys, once, before the loop.  A failure is taken for "none".
Select(r) ==
    /\ job[r].step = "select"
    /\ \E known \in {Analyzed, {}} :
          job' = [job EXCEPT ![r].step = "analyze",
                             ![r].skip = {i \in Rows : Identity(i) \in known}]
    /\ UNCHANGED <<logs, findings, sent>>

\* The loop goes on with the next candidate, or returns the result.
Advance(r, count) ==
    job' = [job EXCEPT ![r].step = IF Len(job[r].todo) = 1 THEN "idle" ELSE "analyze",
                       ![r].todo = Tail(@), ![r].count = count]

Skip(r) ==
    /\ job[r].step = "analyze" /\ Head(job[r].todo) \in job[r].skip
    /\ Advance(r, job[r].count)
    /\ UNCHANGED <<logs, findings, sent>>

Alike(i) == {k \in Rows : KeyOf[logs[k].event] = KeyOf[logs[i].event]}

\* _find_event_log_id: scalar_one_or_none raises when the event is stored
\* twice, and the exception is taken for "not found".
SourceOf(i) ==
    IF \E k \in Rows \ {i} : Identity(k) = Identity(i) THEN 0 ELSE i

\* The finding is committed on its own.
Analyze(r) ==
    LET i == Head(job[r].todo) IN
    /\ job[r].step = "analyze" /\ i \notin job[r].skip
    /\ findings' = findings \cup {[row |-> i, source |-> SourceOf(i)]}
    /\ Advance(r, [job[r].count EXCEPT !.analyzed = @ + 1])
    /\ UNCHANGED <<logs, sent>>

\* Mutant: the events are committed with the first finding, not before it.
AnalyzeFailsUncommitted(r) ==
    /\ job[r].step = "analyze" /\ Head(job[r].todo) \notin job[r].skip
    /\ logs' = IF Len(logs) = job[r].first + Len(job[r].events) - 1
               THEN SubSeq(logs, 1, job[r].first - 1) ELSE logs
    /\ job' = [job EXCEPT ![r].step = "idle", ![r].todo = <<>>]
    /\ UNCHANGED <<findings, sent>>

\* Whatever _analyze_event raises, it rolls back its own transaction and the
\* loop goes on.
AnalyzeFails(r) ==
    /\ job[r].step = "analyze" /\ Head(job[r].todo) \notin job[r].skip
    /\ Advance(r, [job[r].count EXCEPT !.broken = @ + 1])
    /\ UNCHANGED <<logs, findings, sent>>

\* The request is cancelled or the server stops; the result is lost.
Abort(r) ==
    /\ job[r].step # "idle"
    /\ job' = [job EXCEPT ![r].step = "idle", ![r].todo = <<>>, ![r].count = NoCount]
    /\ UNCHANGED <<logs, findings, sent>>

\* DELETE /analyzer/history/{id}.
DeleteFinding(f) ==
    /\ findings' = findings \ {f}
    /\ UNCHANGED <<logs, job, sent>>

ImportStep(r) ==
    \/ Lookup(r) \/ LookupFails(r) \/ Store(r) \/ StoreFails(r)
    \/ Select(r) \/ Skip(r) \/ Analyze(r) \/ AnalyzeFails(r)

Next ==
    \/ \E r \in Imports, a \in Assets, report \in Reports : Begin(r, a, report)
    \/ \E r \in Imports : ImportStep(r) \/ Abort(r)
    \/ \E f \in findings : DeleteFinding(f)

Spec == Init /\ [][Next]_vars

-----------------------------------------------------------------------------
\* Findings and pending analyses are about rows that were committed.
TypeOK ==
    /\ logs \in Seq(Row) /\ findings \subseteq Finding
    /\ \A f \in findings : f.row \in Rows /\ f.source \in {0, f.row}
    /\ job \in [Imports -> Job]
    /\ \A r \in Imports :
          /\ \A n \in DOMAIN job[r].todo : job[r].todo[n] \in Rows
          /\ job[r].seen <= Len(logs)
    /\ sent \in 0 .. MaxImports

\* The counters the client gets account for every event it sent, whichever
\* step failed (EventIngestResult).
CountersAddUp ==
    \A r \in Imports :
        LET c == job[r].count IN
        job[r].step # "lookup" =>
            /\ c.received = c.new + c.duplicate + c.failed
            /\ c.analyzed + c.broken <= c.new
            /\ c.analyzed + c.broken <= AnalyzeMax

\* An event that an import's look-up saw stored is not stored by it again:
\* only imports that overlap, or a report that repeats an event, store one
\* twice (compute_dedup_key, _fetch_duplicate_keys).
OnlyRacesDuplicate ==
    \A i, k \in Rows : i < k /\ Identity(i) = Identity(k) => logs[k].seen < i

\* What the client is told of its events and what the table holds of them agree,
\* whatever failed and whoever else was importing (ingest_report_events).
ImportAccounted == CountersAddUp /\ OnlyRacesDuplicate

Store0 == INSTANCE EvidenceStore WITH
    Identities <- Assets \X Keys,
    kept <- {Identity(i) : i \in Rows},
    concluded <- Analyzed

\* Nothing an analysis, a failure or a second import does loses evidence that
\* was stored, and no finding is about evidence that was not.
KeepsEvidence == Store0!Spec

\* import_pipeline.py:22: "Duplicate events do not create duplicate analyses".
NoDoubleAnalysis ==
    \A f, g \in findings : Identity(f.row) = Identity(g.row) => f = g

=============================================================================
