--------------------------- MODULE AssetLifecycle ---------------------------
(***************************************************************************)
(* The asset row, its lifecycle matrix and its audit entries: the pure     *)
(* data on which backend/domain/asset_registry works.  No state here.      *)
(***************************************************************************)
EXTENDS Integers

CONSTANTS Assets,    \* primary keys of infrastructure_assets
          Hosts,     \* hostnames
          Prints,    \* cryptographic fingerprints
          ReportScores, \* compliance_score values an offline report may carry
          None       \* "no value": a NULL, an argument an operation lacks

ASSUME ReportScoresAssumption == ReportScores \subseteq Int
ASSUME NoneAssumption == None \notin Assets \cup Hosts \cup Prints

-----------------------------------------------------------------------------
AssetState == {"Discovered", "PendingAudit", "Compliant", "NonCompliant",
               "Quarantined", "Decommissioned"}

\* The adjacency matrix as a relation.  Decommissioned has no successor.
AllowedTransitions ==
    {<<"Discovered", "PendingAudit">>,
     <<"PendingAudit", "Compliant">>, <<"PendingAudit", "NonCompliant">>,
     <<"PendingAudit", "Quarantined">>,
     <<"Compliant", "NonCompliant">>, <<"Compliant", "Quarantined">>,
     <<"Compliant", "Decommissioned">>,
     <<"NonCompliant", "Compliant">>, <<"NonCompliant", "Quarantined">>,
     <<"NonCompliant", "Decommissioned">>,
     <<"Quarantined", "PendingAudit">>, <<"Quarantined", "Decommissioned">>}

\* validate_transition lets the mutation through.  A literal that is not a
\* state is refused like an illegal jump.
Permitted(current, target) ==
    /\ current \in AssetState
    /\ target \in AssetState
    /\ <<current, target>> \in AllowedTransitions

-----------------------------------------------------------------------------
Score == 0 .. 100            \* ck_asset_compliance_score_bounds

\* The state an offline report asks for.
ReportState(score) == IF score < 70 THEN "NonCompliant" ELSE "Compliant"

PenalisedUnclamped(score) == score - 30          \* mutant: no max(0, ...)

\* The score an automated quarantine leaves: max(0, old_score - 30).
Penalised(score) == IF score > 30 THEN score - 30 ELSE 0

Row == [host : Hosts, print : Prints, state : AssetState, score : Score]

NewRow(h, p, st, sc) == [host |-> h, print |-> p, state |-> st, score |-> sc]

\* A column of the UPDATE statement the session emits: assigning the value
\* that was loaded is no change, the column is left out and the row keeps
\* what another transaction put there.
Written(current, loaded, assigned) ==
    IF assigned = loaded THEN current ELSE assigned

-----------------------------------------------------------------------------
(* Audit entries: the verb and what its immutable_payload records.         *)

Verb == {"ENROLL_ASSET", "IMPORT_REPORT", "UPDATE_FROM_REPORT",
         "TRANSITION_STATE", "AUTOMATED_QUARANTINE_4625"}

Entry == [verb : Verb, from : AssetState \cup {None},
          to : AssetState \cup {None}, score : Score \cup {None}]

\* assigned_state; no score is recorded.
EnrollEntry == [verb |-> "ENROLL_ASSET", from |-> None,
                to |-> "Discovered", score |-> None]

\* Only the score is recorded; neither entry names a state.
ImportEntry(s) == [verb |-> "IMPORT_REPORT", from |-> None,
                   to |-> None, score |-> s]

UpdateEntry(s) == [verb |-> "UPDATE_FROM_REPORT", from |-> None,
                   to |-> None, score |-> s]

\* Mutant: previous_state is read after the assignment.
TransitionEntryLate(loaded, target) ==
    [verb |-> "TRANSITION_STATE", from |-> target,
     to |-> target, score |-> loaded.score]

\* previous_state, new_state, compliance_score_at_transition.
TransitionEntry(loaded, target) ==
    [verb |-> "TRANSITION_STATE", from |-> loaded.state,
     to |-> target, score |-> loaded.score]

\* new_score; old_score is what it was computed from.
QuarantineEntry(loaded) ==
    [verb |-> "AUTOMATED_QUARANTINE_4625", from |-> None,
     to |-> None, score |-> Penalised(loaded.score)]

-----------------------------------------------------------------------------
(* The row each kind of UPDATE leaves, from the row as it now stands and   *)
(* the version the transaction loaded.                                     *)

\* The target differs from the loaded state (the matrix has no loop), so the
\* state column is always written.
TransitionRow(current, target) == [current EXCEPT !.state = target]

ReportRow(current, loaded, h, s) ==
    [current EXCEPT
        !.host  = Written(@, loaded.host, h),
        !.state = Written(@, loaded.state, ReportState(s)),
        !.score = Written(@, loaded.score, s)]

QuarantineRow(current, loaded) ==
    [current EXCEPT
        !.state = "Quarantined",
        !.score = Written(@, loaded.score, Penalised(loaded.score))]

=============================================================================
