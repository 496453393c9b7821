---------------------------- MODULE EvidenceStore ----------------------------
(***************************************************************************)
(* What the offline import promises about collected evidence, with the     *)
(* requests, sessions, counters and failures left out: an identity is the  *)
(* deduplication key of a Windows event on an asset; what is kept stays    *)
(* kept, and a conclusion is drawn from kept evidence only.                *)
(***************************************************************************)
CONSTANT Identities

VARIABLES kept,       \* identities with a row in windows_event_logs
          concluded   \* identities with a row in analysis_history

evidence == <<kept, concluded>>

Init == kept = {} /\ concluded = {}

\* One transaction keeps the new events of a report, all or none.
Keep ==
    /\ \E new \in SUBSET Identities : kept' = kept \cup new
    /\ UNCHANGED concluded

Conclude ==
    /\ \E i \in kept : concluded' = concluded \cup {i}
    /\ UNCHANGED kept

\* An operator deletes an entry of the history.
Retract ==
    /\ \E gone \in SUBSET concluded : concluded' = concluded \ gone
    /\ UNCHANGED kept

Next == Keep \/ Conclude \/ Retract

Spec == Init /\ [][Next]_evidence

=============================================================================
