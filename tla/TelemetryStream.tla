-------------------------- MODULE TelemetryStream --------------------------
(***************************************************************************)
(* Telemetry ingestion: agents' POSTs append to the Redis stream           *)
(* eims:telemetry:ingestion, and the one TelemetryStreamConsumer drains it *)
(* in batches into PostgreSQL, counting failed logons per source address   *)
(* and quarantining the assets on which they exceed the threshold.         *)
(*                                                                         *)
(* A message is named by its place in the order of acceptance, a stream    *)
(* position is that number, and the database keeps how many rows were      *)
(* written for each message.  An asset is named by its fingerprint.        *)
(***************************************************************************)
EXTENDS Integers, Sequences, FiniteSets, FiniteSetsExt

CONSTANTS Prints,       \* client certificate fingerprints
          Sources,      \* source addresses of failed logons
          Kinds,        \* the kinds of message published
          None,         \* the source a message does not have
          BatchSize,    \* XREAD count
          Threshold,    \* failed logons a source may cause within the window
          MaxStream,    \* XADD maxlen
          MaxMessages,  \* bound: messages published
          MaxFaults     \* bound: failures and restarts

ASSUME KindsAssumption == Kinds \subseteq {"heartbeat", "logon", "malformed"}
ASSUME NoneAssumption == None \notin Sources
ASSUME SizesAssumption ==
    /\ BatchSize \in Nat \ {0} /\ Threshold \in Nat /\ MaxStream \in Nat \ {0}
    /\ MaxMessages \in Nat /\ MaxFaults \in Nat

VARIABLES published,   \* every message answered 202 "accepted", in order
          live,        \* those still in the stream
          lost,        \* those that never reached it, or left it unread
          enrolled,    \* fingerprints in infrastructure_assets
          quarantined, \* those whose asset the consumer has quarantined
          isolated,    \* those whose asset an operator's PATCH has
          rows,        \* rows[n]: rows committed for message n
          count,       \* count[s]: eims:sec:bruteforce:<s>, 0 when there is no key
          expiring,    \* sources whose key has a time to live
          alerted,     \* assets announced on eims:events:alerts
          lastId,      \* the consumer's bookmark, in memory only
          worker,      \* the batch in hand
          faults       \* failures and restarts so far

vars == <<published, live, lost, enrolled, quarantined, isolated, rows, count,
          expiring, alerted, lastId, worker, faults>>
stream == <<published, live, lost>>
assets == <<enrolled, quarantined, isolated>>
counters == <<count, expiring>>

-----------------------------------------------------------------------------
Message == [kind : Kinds, print : Prints, src : Sources \cup {None}]

Sendable == {m \in Message : (m.kind = "logon") <=> (m.src # None)}

WellFormed(n) == published[n].kind # "malformed"

\* lifecycle_state = "Quarantined", by either hand.
InQuarantine == quarantined \cup isolated

(* The batch in hand: its messages, those not yet scanned, the assets a    *)
(* quarantine is due for, and whether a fingerprint had no asset.          *)
Step == {"idle", "scan", "commit", "trim"}

Ids == 1 .. Len(published)

Turn == [step : Step, batch : SUBSET Ids, todo : SUBSET Ids, due : SUBSET Prints,
         stray : BOOLEAN]

Idle == [step |-> "idle", batch |-> {}, todo |-> {}, due |-> {}, stray |-> FALSE]

Newest == Max(worker.batch)

Fault == faults < MaxFaults /\ faults' = faults + 1

\* process_batch raised: the loop logs it, sleeps and calls it again, and
\* what it had collected is gone.
GiveUp == worker' = Idle

-----------------------------------------------------------------------------
Init ==
    /\ published = <<>> /\ live = {} /\ lost = {}
    /\ enrolled = {} /\ quarantined = {} /\ isolated = {}
    /\ rows = [n \in 1 .. MaxMessages |-> 0]
    /\ count = [s \in Sources |-> 0] /\ expiring = {} /\ alerted = {}
    /\ lastId = 0 /\ worker = Idle /\ faults = 0

(* Agents, operators and time.                                             *)

\* XADD maxlen ~ MaxStream: whole nodes at the old end of the stream go, never
\* below MaxStream entries.
Publish(m) ==
    LET n == Len(published) + 1
        grown == live \cup {n}
    IN  /\ n <= MaxMessages
        /\ published' = Append(published, m)
        /\ \E cut \in 0 .. n :
              LET gone == {i \in grown : i <= cut}
              IN  /\ gone = {} \/ Cardinality(grown \ gone) >= MaxStream
                  /\ live' = grown \ gone
                  /\ lost' = lost \cup {i \in gone : rows[i] = 0}
        /\ UNCHANGED <<assets, rows, counters, alerted, lastId, worker, faults>>

\* Redis is disconnected or the XADD fails: "accepted" all the same.
PublishFallback(m) ==
    /\ Len(published) < MaxMessages
    /\ Fault
    /\ published' = Append(published, m)
    /\ lost' = lost \cup {Len(published) + 1}
    /\ UNCHANGED <<live, assets, rows, counters, alerted, lastId, worker>>

\* The registry creates the asset of fingerprint p.
Enroll(p) ==
    /\ p \notin enrolled
    /\ enrolled' = enrolled \cup {p}
    /\ UNCHANGED <<stream, quarantined, isolated, rows, counters, alerted, lastId,
                   worker, faults>>

\* An operator puts the asset in quarantine, or returns it to PendingAudit.
Isolate(p) ==
    /\ p \in enrolled \ InQuarantine
    /\ isolated' = isolated \cup {p}
    /\ UNCHANGED <<stream, enrolled, quarantined, rows, counters, alerted, lastId,
                   worker, faults>>

Release(p) ==
    /\ p \in InQuarantine
    /\ quarantined' = quarantined \ {p}
    /\ isolated' = isolated \ {p}
    /\ UNCHANGED <<stream, enrolled, rows, counters, alerted, lastId, worker, faults>>

\* The window of a source closes, or its key is evicted.
ExpireCount(s) ==
    /\ s \in expiring
    /\ count' = [count EXCEPT ![s] = 0]
    /\ expiring' = expiring \ {s}
    /\ UNCHANGED <<stream, assets, rows, alerted, lastId, worker, faults>>

-----------------------------------------------------------------------------
(* process_batch.                                                          *)

\* Mutant: the next batch is read from the message after next.
FetchSkipping ==
    LET unread == {n \in live : n > lastId + 1}
        batch == {n \in unread : Cardinality({i \in unread : i <= n}) <= BatchSize}
    IN  /\ worker.step = "idle" /\ batch # {}
        /\ worker' = [Idle EXCEPT !.step = "scan", !.batch = batch, !.todo = batch]
        /\ UNCHANGED <<stream, assets, rows, counters, alerted, lastId, faults>>

\* XREAD count=BatchSize from the bookmark; an empty answer ends the turn.
Fetch ==
    LET unread == {n \in live : n > lastId}
        batch == {n \in unread : Cardinality({i \in unread : i <= n}) <= BatchSize}
    IN  /\ worker.step = "idle" /\ batch # {}
        /\ worker' = [Idle EXCEPT !.step = "scan", !.batch = batch, !.todo = batch]
        /\ UNCHANGED <<stream, assets, rows, counters, alerted, lastId, faults>>

\* Nothing new, or Redis unavailable: the turn ends with nothing done.
EmptyTurn ==
    /\ worker.step = "idle"
    /\ \/ \A n \in live : n <= lastId
       \/ faults < MaxFaults
    /\ UNCHANGED vars

\* INCR; how far beyond the threshold a counter is makes no difference.
Counted(s) == IF count[s] > Threshold THEN count[s] ELSE count[s] + 1

\* One turn of the loop over the batch: resolve the fingerprint, build the
\* row, and for a failed logon (4625) INCR and EXPIRE.
Scan ==
    LET n == Min(worker.todo)
        m == published[n]
        known == m.print \in enrolled
        over == m.kind = "logon" /\ Counted(m.src) > Threshold
    IN  /\ worker.step = "scan" /\ worker.todo # {}
        /\ worker' = [worker EXCEPT
              !.todo = @ \ {n},
              !.stray = @ \/ (WellFormed(n) /\ ~known),
              !.due = IF over /\ known THEN @ \cup {m.print} ELSE @]
        /\ IF m.kind = "logon"
           THEN /\ count' = [count EXCEPT ![m.src] = Counted(m.src)]
                /\ expiring' = IF over \/ Counted(m.src) = 1
                               THEN expiring \cup {m.src} ELSE expiring
           ELSE UNCHANGED counters
        /\ UNCHANGED <<stream, assets, rows, alerted, lastId, faults>>

\* The lookup fails, or Redis does, before the INCR or between it and EXPIRE.
ScanFails ==
    LET m == published[Min(worker.todo)]
    IN  /\ worker.step = "scan" /\ worker.todo # {}
        /\ WellFormed(Min(worker.todo))
        /\ Fault
        /\ \/ UNCHANGED count
           \/ m.kind = "logon" /\ count' = [count EXCEPT ![m.src] = Counted(m.src)]
        /\ GiveUp
        /\ UNCHANGED <<stream, assets, rows, expiring, alerted, lastId>>

\* Mutant: the alert is left for after the commit.
AnnounceLater ==
    LET marked == worker.due \ InQuarantine
    IN  /\ worker.step = "scan" /\ worker.todo = {}
        /\ worker' = [worker EXCEPT !.step = "commit", !.due = marked]
        /\ UNCHANGED <<stream, assets, rows, counters, alerted, lastId, faults>>

\* _persist_batch selects each asset that is due, marks it and announces it,
\* before anything is flushed.
Announce ==
    LET marked == worker.due \ InQuarantine
    IN  /\ worker.step = "scan" /\ worker.todo = {}
        /\ worker' = [worker EXCEPT !.step = "commit", !.due = marked]
        /\ alerted' = alerted \cup marked
        /\ UNCHANGED <<stream, assets, rows, counters, lastId, faults>>

\* Redis fails while the announcements go out.
AnnounceFails ==
    /\ worker.step = "scan" /\ worker.todo = {}
    /\ Fault
    /\ \E told \in SUBSET (worker.due \ InQuarantine) : alerted' = alerted \cup told
    /\ GiveUp
    /\ UNCHANGED <<stream, assets, rows, counters, lastId>>

\* Rows of the batch and quarantines become visible together.  A row of an
\* asset that does not exist violates the foreign key.
Committed ==
    /\ worker.step = "commit"
    /\ ~worker.stray
    /\ rows' = [n \in DOMAIN rows |->
                   IF n \in worker.batch /\ WellFormed(n) THEN rows[n] + 1 ELSE rows[n]]
    /\ quarantined' = quarantined \cup worker.due
    /\ UNCHANGED <<stream, enrolled, isolated, counters, alerted, lastId>>

\* Mutant: the batch is acknowledged and trimmed although its rows failed.
PersistRegardless ==
    \/ /\ Committed
       /\ worker' = [worker EXCEPT !.step = "trim"]
       /\ UNCHANGED faults
    \/ /\ worker.step = "commit" /\ worker.stray
       /\ worker' = [worker EXCEPT !.step = "trim"]
       /\ UNCHANGED <<stream, assets, rows, counters, alerted, lastId, faults>>

\* Mutant: the quarantine is committed in a transaction of its own.
PersistSplit ==
    /\ worker.step = "commit"
    /\ quarantined' = quarantined \cup worker.due
    /\ IF worker.stray
       THEN GiveUp /\ UNCHANGED rows
       ELSE /\ worker' = [worker EXCEPT !.step = "trim"]
            /\ rows' = [n \in DOMAIN rows |->
                  IF n \in worker.batch /\ WellFormed(n) THEN rows[n] + 1 ELSE rows[n]]
    /\ UNCHANGED <<stream, enrolled, isolated, counters, alerted, lastId, faults>>

Persist ==
    \/ /\ Committed
       /\ worker' = [worker EXCEPT !.step = "trim"]
       /\ UNCHANGED faults
    \/ /\ worker.step = "commit" /\ worker.stray
       /\ GiveUp
       /\ UNCHANGED <<stream, assets, rows, counters, alerted, lastId, faults>>

\* The database fails: rolled back, or committed with the answer lost.
PersistFails ==
    /\ worker.step = "commit"
    /\ Fault
    /\ GiveUp
    /\ \/ Committed
       \/ UNCHANGED <<stream, assets, rows, counters, alerted, lastId>>

\* Mutant: the bookmark is not advanced.
TrimOnly ==
    /\ worker.step = "trim"
    /\ \E cut \in 0 .. Newest - 1 : live' = {n \in live : n > cut}
    /\ GiveUp
    /\ UNCHANGED <<published, lost, assets, rows, counters, alerted, lastId, faults>>

\* XTRIM minid ~ the newest of the batch: whole nodes older than it go, and a
\* failure is swallowed.  A batch of malformed messages leaves the bookmark.
Trim ==
    /\ worker.step = "trim"
    /\ \E cut \in 0 .. Newest - 1 : live' = {n \in live : n > cut}
    /\ lastId' = IF \E n \in worker.batch : WellFormed(n) THEN Newest ELSE lastId
    /\ GiveUp
    /\ UNCHANGED <<published, lost, assets, rows, counters, alerted, faults>>

\* stop() cancels the task at an await, or the process dies; the next one
\* starts from "0-0".
Restart ==
    /\ Fault
    /\ lastId' = 0
    /\ GiveUp
    /\ UNCHANGED <<stream, assets, rows, counters, alerted>>

Worker == Fetch \/ Scan \/ Announce \/ Persist \/ Trim

Next ==
    \/ \E m \in Sendable : Publish(m) \/ PublishFallback(m)
    \/ \E p \in Prints : Enroll(p) \/ Isolate(p) \/ Release(p)
    \/ \E s \in Sources : ExpireCount(s)
    \/ Worker \/ EmptyTurn
    \/ ScanFails \/ AnnounceFails \/ PersistFails \/ Restart

\* The consumer's task runs for as long as the server does.
Spec == Init /\ [][Next]_vars /\ WF_vars(Worker)

-----------------------------------------------------------------------------
TypeOK ==
    /\ published \in Seq(Sendable) /\ Len(published) <= MaxMessages
    /\ live \subseteq Ids /\ lost \subseteq Ids
    /\ enrolled \subseteq Prints /\ InQuarantine \subseteq Prints
    /\ rows \in [1 .. MaxMessages -> Nat]
    /\ count \in [Sources -> 0 .. Threshold + 1] /\ expiring \subseteq Sources
    /\ alerted \subseteq Prints
    /\ lastId \in 0 .. Len(published)
    /\ worker \in Turn
    /\ worker.todo \subseteq worker.batch
    /\ (worker.step = "idle") <=> (worker.batch = {})
    /\ faults \in 0 .. MaxFaults

\* Once in the stream, a well-formed message stays there until its row is
\* committed: no failure, restart, trim or redelivery drops it.  Only XADD's
\* own length limit may push it out unread.
NoSilentLoss ==
    \A n \in Ids : WellFormed(n) => rows[n] > 0 \/ n \in live \/ n \in lost

\* A message is stored again only when something failed in between: without
\* a failure, once.
CopiesBounded == \A n \in Ids : rows[n] <= 1 + faults

\* The database follows the order of acceptance: a message is not stored
\* while an earlier one still waits.
StoredInOrder ==
    \A i, j \in Ids :
        (i < j /\ WellFormed(i) /\ rows[j] > 0) => rows[i] > 0 \/ i \in lost

\* An automated quarantine is committed together with the row of a failed
\* logon on that very asset: evidence and verdict are one transaction.
QuarantineHasEvidence ==
    [][\A p \in Prints :
          (p \notin quarantined /\ p \in quarantined') =>
              \E n \in Ids : /\ rows'[n] > rows[n]
                             /\ published[n].kind = "logon" /\ published[n].print = p]_vars

\* Every automated quarantine was announced before it was visible.
QuarantineAnnounced == quarantined \subseteq alerted

\* If every agent is enrolled sooner or later, what is in the stream is
\* stored sooner or later, whatever fails meanwhile. It takes that no batch is
\* malformed as a whole: the bookmark moves with rows only, so the loop would
\* fetch such a batch again for ever.
Drains ==
    (/\ \A p \in Prints : <>(p \in enrolled)
     /\ [](Cardinality({n \in Ids : ~ WellFormed(n)}) < BatchSize)) =>
        \A n \in 1 .. MaxMessages :
            (n \in live /\ WellFormed(n)) ~> (rows[n] > 0 \/ n \in lost)

-----------------------------------------------------------------------------
(* What the comments and documents say and the code does not do.           *)

\* worker.py:213, "Trigger quarantine if > 5 failed logins within 60s".
QuarantineMeansFailedLogons ==
    quarantined # {} =>
        \E s \in Sources :
            Cardinality({n \in Ids : published[n].src = s}) > Threshold

\* 03_SOFTWARE_ARCHITECTURE_DOCUMENT.md:203-205: the engine sets the asset's
\* status, journals it and then publishes the alert.
AlertsAreTrue ==
    [][\A p \in Prints :
          (p \notin alerted /\ p \in alerted') => p \in quarantined']_vars

\* 03_SOFTWARE_ARCHITECTURE_DOCUMENT.md:365, an offending payload does not
\* obstruct the ingestion of the others.
NotObstructed ==
    \A n \in 1 .. MaxMessages :
        (n \in live /\ WellFormed(n) /\ published[n].print \in enrolled)
            ~> (rows[n] > 0 \/ n \in lost)

=============================================================================
