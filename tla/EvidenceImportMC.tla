---------------------------- MODULE EvidenceImportMC ----------------------------
\* Two distinguishable events and one that shares the key of the first: entries
\* without a record number and a time stamp hash alike.
EXTENDS EvidenceImport

CONSTANTS a1, a2, r1, r2, logon, crash, note, bad

EventsMC == {logon, crash, note}
KeyOfMC == [e \in EventsMC |-> IF e = note THEN logon ELSE e]
PriorityMC == [e \in EventsMC |-> CASE e = crash -> 3 [] e = logon -> 1 [] OTHER -> 0]
ReportsMC == {<<logon, crash>>, <<note, bad, crash, logon>>}

=============================================================================
