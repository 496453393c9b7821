---------------------------- MODULE AssetLedger ----------------------------
(***************************************************************************)
(* What the registry promises, with requests, sessions and the cache       *)
(* hidden: each asset is born once, every committed version of its row has *)
(* exactly one audit entry, and an operation may act on a version older    *)
(* than the one it overwrites.  AssetRegistry implements this.             *)
(***************************************************************************)
EXTENDS AssetLifecycle, Sequences

VARIABLES versions,  \* versions[a]: the committed versions of row a, oldest first
          journal    \* journal[a]: audit_logs of asset a, oldest first

vars == <<versions, journal>>

Exists(a) == versions[a] # <<>>
Current(a) == versions[a][Len(versions[a])]

\* The unique index on cryptographic_fingerprint.
PrintFree(p) == \A a \in Assets : Exists(a) => Current(a).print # p

\* One transaction: the row and its audit entry become visible together.
Commit(a, row, entry) ==
    /\ versions' = [versions EXCEPT ![a] = Append(@, row)]
    /\ journal' = [journal EXCEPT ![a] = Append(@, entry)]

-----------------------------------------------------------------------------
Init ==
    /\ versions = [a \in Assets |-> <<>>]
    /\ journal = [a \in Assets |-> <<>>]

Enroll(a, h, p) ==
    /\ ~Exists(a)
    /\ PrintFree(p)
    /\ Commit(a, NewRow(h, p, "Discovered", 0), EnrollEntry)

ImportReport(a, h, p, s) ==
    /\ ~Exists(a)
    /\ PrintFree(p)
    /\ Commit(a, NewRow(h, p, ReportState(s), s), ImportEntry(s))

\* The matrix is checked against version i, not against the row overwritten.
Transition(a, i, target) ==
    /\ Permitted(versions[a][i].state, target)
    /\ Commit(a, TransitionRow(Current(a), target),
              TransitionEntry(versions[a][i], target))

UpdateFromReport(a, i, h, s) ==
    Commit(a, ReportRow(Current(a), versions[a][i], h, s), UpdateEntry(s))

Quarantine(a, i) ==
    /\ versions[a][i].state # "Quarantined"
    /\ Commit(a, QuarantineRow(Current(a), versions[a][i]),
              QuarantineEntry(versions[a][i]))

Birth(a) ==
    \E h \in Hosts, p \in Prints :
        \/ Enroll(a, h, p)
        \/ \E s \in ReportScores \cap Score : ImportReport(a, h, p, s)

Update(a) ==
    \E i \in 1 .. Len(versions[a]) :
        \/ \E t \in AssetState : Transition(a, i, t)
        \/ \E h \in Hosts, s \in ReportScores \cap Score : UpdateFromReport(a, i, h, s)
        \/ Quarantine(a, i)

Next == \E a \in Assets : Birth(a) \/ Update(a)

Spec == Init /\ [][Next]_vars

-----------------------------------------------------------------------------
TypeOK ==
    /\ versions \in [Assets -> Seq(Row)]
    /\ journal \in [Assets -> Seq(Entry)]

\* Every committed version is accounted for by exactly one audit entry, and
\* the entry tells what the version holds.  After a transition or a
\* quarantine the state is the one the verb names.  After a report it is the
\* state the score calls for, or, when the session saw nothing to change, the
\* one it found: the entry alone does not say which.
Explains(vs, e, n) ==
    /\ e.verb = "ENROLL_ASSET" =>
          n = 1 /\ vs[n].state = e.to /\ vs[n].score = 0
    /\ e.verb = "IMPORT_REPORT" =>
          n = 1 /\ vs[n].state = ReportState(e.score) /\ vs[n].score = e.score
    /\ e.verb = "TRANSITION_STATE" =>
          n > 1 /\ vs[n] = [vs[n - 1] EXCEPT !.state = e.to]
    /\ e.verb = "AUTOMATED_QUARANTINE_4625" =>
          /\ n > 1
          /\ vs[n].state = "Quarantined"
          /\ vs[n].score \in {e.score, vs[n - 1].score}
          /\ vs[n].host = vs[n - 1].host
    /\ e.verb = "UPDATE_FROM_REPORT" =>
          /\ n > 1
          /\ vs[n].state \in {ReportState(e.score), vs[n - 1].state}
          /\ vs[n].score \in {e.score, vs[n - 1].score}

JournalExplainsRow ==
    \A a \in Assets :
        /\ Len(journal[a]) = Len(versions[a])
        /\ \A n \in 1 .. Len(journal[a]) :
              Explains(versions[a], journal[a][n], n)

\* No entry records a jump outside the matrix, and the state it says the
\* asset left is one the asset had really been in earlier, although not
\* necessarily the one just before.
RecordedTransitionsLegal ==
    \A a \in Assets : \A n \in 1 .. Len(journal[a]) :
        journal[a][n].verb = "TRANSITION_STATE" =>
            /\ Permitted(journal[a][n].from, journal[a][n].to)
            /\ \E i \in 1 .. n - 1 :
                  versions[a][i].state = journal[a][n].from

\* An asset keeps the fingerprint it was born with, and no two assets ever
\* share one, whichever of enrolment and import races created them.
FingerprintIdentifies ==
    \A a, b \in Assets :
        \A i \in 1 .. Len(versions[a]), j \in 1 .. Len(versions[b]) :
            (versions[a][i].print = versions[b][j].print) <=> (a = b)

=============================================================================
