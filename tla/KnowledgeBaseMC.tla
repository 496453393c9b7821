---------------------------- MODULE KnowledgeBaseMC ----------------------------
\* A number three families share, in a reported event whose message somebody
\* also pastes; a Windows text close to it that has no number; a number of the
\* catalogue in a JSON log; a vendor code with an article, and one without.
EXTENDS KnowledgeBase, TLC

CONSTANTS c1, c2

Symmetry == Permutations({c1, c2})

Src(event, text, code, family) == [event |-> event, text |-> text, code |-> code, family |-> family]

Filter == Src("5156", "filter", "", "windows_event")
Nameless == Src("Unknown", "nameless", "", "windows_event")
Report == Src("5156", "filter", "", "")
Json == Src("5156", "json", "", "json")
Dcom == Src("10005", "dcom", "", "json")
Backup == Src("SESSION-FAILED", "job", "SESSION-FAILED", "veeam_vbr")
Host == Src("CBT", "host", "CBT", "vmware")

SourcesMC == {Filter, Nameless, Report, Json, Dcom, Backup, Host}
ImportedMC == {Report}
CloseMC == {<<"filter", "nameless">>}

=============================================================================
