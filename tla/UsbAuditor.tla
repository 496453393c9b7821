------------------------------- MODULE UsbAuditor -------------------------------
(***************************************************************************)
(* One stick in the field.  On the operator's machine the package is       *)
(* staged, copied to the stick and checked against its manifest.  On an    *)
(* audited machine the auditor scans, removes the machine's old reports,   *)
(* writes the new one beside the package, uploads it once, and exits; the  *)
(* remediation assistant may resume a suspended BitLocker protection.  The *)
(* stick may be pulled at any step.                                        *)
(***************************************************************************)
EXTENDS ComplianceChecks, Sequences

CONSTANTS Machines,        \* what can be read of each machine, by its name
          Covers,          \* <<a, b>>: the name b begins with a and "_"
          Volumes,         \* states of a BitLocker volume
          Sources,         \* files of SOURCE_ALLOWLIST
          MaxVersion,      \* bound on edits of the sources
          MaxMinute        \* bound on the clock

\* What Get-BitLockerVolume says of a volume.
VolumeReading == [volume : STRING, protection : {"On", "Off", "Unknown"}, progress : 0 .. 100, protectors : Nat]

\* Windows reports a fully encrypted volume as encrypted to a hundred percent.
\* The manifest is not one of the sources.
ASSUME AuditorAssumption ==
    /\ Volumes \ {Unread} \subseteq VolumeReading /\ Unread \notin VolumeReading
    /\ \A v \in Volumes \ {Unread} : v.volume = "FullyEncrypted" => v.progress = 100
    /\ "MANIFEST.txt" \notin Sources

VARIABLES stage,      \* what is being done with the stick
          version,    \* of the sources
          runtime,    \* whether the cached runtime is complete
          staged,     \* the staged package, or {}
          package,    \* the package on the stick: files as <<name, content>>
          reports,    \* JSON reports on the stick
          sent,       \* the verdict the last audit uploaded, or "none"
          minute,     \* the clock, to the minute that names a report
          audit,      \* the audit under way
          exit,       \* the exit code of what ran last, or -1
          assessed    \* the volume the assistant read, and its log

vars == <<stage, version, runtime, staged, package, reports, sent, minute, audit, exit, assessed>>

Nobody == [machine |-> "none", seen |-> 0, verdict |-> "none", old |-> {}, had |-> {}]

NoPlan == [volume |-> Unread, log |-> "none"]

Init ==
    /\ stage = "idle" /\ version = 1 /\ runtime = FALSE /\ staged = {} /\ package = {}
    /\ reports = {} /\ sent = "none" /\ minute = 1 /\ audit = Nobody /\ exit = -1
    /\ assessed = NoPlan

build == <<version, runtime, staged>>
field == <<reports, sent, audit, assessed>>

Ends(code) == stage' = "idle" /\ exit' = code

-----------------------------------------------------------------------------
Edit ==
    /\ stage = "idle" /\ version < MaxVersion /\ version' = version + 1
    /\ exit' = -1 /\ UNCHANGED <<stage, runtime, staged, package, minute, field>>

\* The names a package holds, and its manifest: the others with their contents.
Contents(files) == {f \in files : f[1] # "MANIFEST.txt"}

Manifest(files) == <<"MANIFEST.txt", Contents(files)>>

Required == {"main.py", "python.exe", "MANIFEST.txt"}

\* Mutant: the manifest's names are compared, not the hashes.
FindProblemsNames(files) ==
    \/ \E name \in Required : \A f \in files : f[1] # name
    \/ \E m \in files : m[1] = "MANIFEST.txt" /\ {f[1] : f \in m[2]} # {f[1] : f \in Contents(files)}

\* find_problems: the manifest's entries are there with their hashes, and
\* nothing else is.  The files it passes over (reports, logs and bytecode) are
\* not part of a package here.
FindProblems(files) ==
    \/ \E name \in Required : \A f \in files : f[1] # name
    \/ \E m \in files : m[1] = "MANIFEST.txt" /\ m[2] # Contents(files)

\* _ensure_runtime: the marker is written last, so that what broke off is redone.
EnsureRuntime ==
    /\ stage = "idle" /\ stage' = "staging" /\ exit' = -1
    /\ runtime' = TRUE
    /\ UNCHANGED <<version, staged, package, minute, field>>

RuntimeFails ==
    /\ stage = "idle" /\ ~runtime /\ Ends(2)
    /\ UNCHANGED <<version, runtime, staged, package, minute, field>>

\* build_package: everything anew; a source that is missing leaves nothing of use.
Stage ==
    /\ stage = "staging" /\ runtime
    /\ LET files == {<<s, version>> : s \in Sources} \cup {<<"python.exe", 0>>} IN
       staged' = files \cup {Manifest(files)}
    /\ stage' = IF FindProblems(staged') THEN "idle" ELSE "select"
    /\ exit' = IF FindProblems(staged') THEN 2 ELSE -1
    /\ UNCHANGED <<version, runtime, package, minute, field>>

StageFails ==
    /\ stage = "staging" /\ Ends(2)
    /\ staged' = {}
    /\ UNCHANGED <<version, runtime, package, minute, field>>

\* No drive, a wrong choice, no space, not writable; or the operator does not
\* confirm that the package on the stick is replaced.
Refuse ==
    /\ stage = "select" /\ stage' = "idle"
    /\ exit' \in IF package # {} \/ reports # {} THEN {1, 2} ELSE {2}
    /\ UNCHANGED <<build, package, minute, field>>

\* Remove-Item on the package's directory: reports are kept in it.
RemovePackage ==
    /\ stage = "select" /\ package' = {} /\ reports' = {} /\ stage' = "copying"
    /\ UNCHANGED <<build, sent, minute, audit, exit, assessed>>

RemoveFails ==
    /\ stage = "select" /\ package # {} /\ Ends(2)
    /\ \E left \in SUBSET package : package' = left
    /\ \E left \in SUBSET reports : reports' = left
    /\ UNCHANGED <<build, sent, minute, audit, assessed>>

\* Copy-Item; a file may arrive damaged.
CopyFile ==
    /\ stage = "copying"
    /\ \E f \in staged : /\ \A g \in package : g[1] # f[1]
                         /\ \/ package' = package \cup {f}
                            \/ f[1] # "MANIFEST.txt" /\ package' = package \cup {<<f[1], -1>>}
    /\ UNCHANGED <<build, stage, minute, exit, field>>

CopyFails ==
    /\ stage = "copying" /\ Ends(2) /\ UNCHANGED <<build, package, minute, field>>

Verify ==
    /\ stage = "copying" /\ {f[1] : f \in package} = {f[1] : f \in staged}
    /\ Ends(IF FindProblems(package) THEN 2 ELSE 0)
    /\ UNCHANGED <<build, package, minute, field>>

-----------------------------------------------------------------------------
Tick ==
    /\ stage = "idle" /\ minute < MaxMinute /\ minute' = minute + 1 /\ exit' = -1
    /\ UNCHANGED <<stage, build, package, field>>

\* The rows of Summary.xlsx: a report that cannot be parsed is skipped.
Rows == {r \in reports : r.whole}

\* run_scan, up to the score; nobody waits for the package to be verified.
Outcomes ==
    [m \in DOMAIN Machines |->
        {[seen |-> Cardinality(Seen(obs)), verdict |-> Verdict(obs)] : obs \in Machines[m]}]

Scan ==
    /\ stage = "idle" /\ {"main.py", "python.exe"} \subseteq {f[1] : f \in package}
    /\ \E m \in DOMAIN Machines : \E outcome \in Outcomes[m] :
        audit' = [machine |-> m, seen |-> outcome.seen, verdict |-> outcome.verdict,
                  old |-> {r \in reports : r.machine = m \/ <<m, r.machine>> \in Covers},
                  had |-> {r.machine : r \in Rows}]
    /\ stage' = "saving" /\ exit' = -1 /\ sent' = "none"
    /\ UNCHANGED <<build, package, reports, minute, assessed>>

\* get_system_info or a scanner raises.
ScanFails ==
    /\ stage = "idle" /\ {"main.py", "python.exe"} \subseteq {f[1] : f \in package}
    /\ Ends(2) /\ UNCHANGED <<build, package, minute, field>>

\* save_report first unlinks what its pattern matches; one that fails stays.
RemoveOld ==
    /\ stage = "saving" /\ audit.old # {}
    /\ \E r \in audit.old :
        /\ audit' = [audit EXCEPT !.old = @ \ {r}]
        /\ reports' \in {reports, reports \ {r}}
    /\ UNCHANGED <<stage, build, package, sent, minute, exit, assessed>>

NewReport(whole) ==
    [machine |-> audit.machine, at |-> minute, whole |-> whole, verdict |-> audit.verdict]

Replacing(r) == {o \in reports : o.machine # r.machine \/ o.at # r.at} \cup {r}

Write ==
    /\ stage = "saving" /\ audit.old = {}
    /\ reports' = Replacing(NewReport(TRUE))
    /\ stage' = "syncing"
    /\ UNCHANGED <<build, package, sent, minute, audit, exit, assessed>>

\* Mutant: a report that could not be written is a warning, as the event logs are.
WriteFailsOn ==
    /\ stage = "saving" /\ audit.old = {} /\ stage' = "syncing"
    /\ reports' \in {reports, Replacing(NewReport(FALSE))}
    /\ UNCHANGED <<build, package, sent, minute, audit, exit, assessed>>

\* OSError: nothing, or a part of the file.
WriteFails ==
    /\ stage = "saving" /\ audit.old = {} /\ Ends(2) /\ audit' = Nobody
    /\ reports' \in {reports, Replacing(NewReport(FALSE))}
    /\ UNCHANGED <<build, package, sent, minute, assessed>>

ExitCode == IF audit.verdict = "Compliant" THEN 0 ELSE 1

\* sync_report posts the bytes of the file; whatever becomes of it, the exit
\* code is that of the verdict.
Sync ==
    /\ stage = "syncing" /\ Ends(ExitCode) /\ audit' = Nobody
    /\ \E r \in reports :
        /\ r.machine = audit.machine /\ r.at = minute /\ r.whole
        /\ sent' = r.verdict
    /\ UNCHANGED <<build, package, reports, minute, assessed>>

\* Disabled, unreachable, refused or malformed.
SyncFails ==
    /\ stage = "syncing" /\ Ends(ExitCode) /\ audit' = Nobody
    /\ UNCHANGED <<build, package, reports, sent, minute, assessed>>

\* The stick is pulled, or the machine switched off.
Pull ==
    /\ stage \in {"saving", "syncing", "copying"} /\ Ends(-1) /\ audit' = Nobody
    /\ reports' \in {reports} \cup (IF stage = "saving" /\ audit.old = {}
                                    THEN {Replacing(NewReport(FALSE))} ELSE {})
    /\ UNCHANGED <<build, package, sent, minute, assessed>>

-----------------------------------------------------------------------------
Assess ==
    /\ stage = "idle" /\ stage' = "confirm" /\ exit' = -1
    /\ \E v \in Volumes : assessed' = [volume |-> v, log |-> "none"]
    /\ UNCHANGED <<build, package, reports, sent, minute, audit>>

\* Plan only, nothing permitted, no administrator, another phrase typed, or
\* Resume-BitLocker fails.
NotApplied ==
    /\ stage = "confirm" /\ assessed.log = "none" /\ stage' = "idle" /\ assessed' = NoPlan
    /\ exit' \in IF Plan(assessed.volume) = "RESUME_PROTECTION" THEN {0, 3, 4, 5} ELSE {0}
    /\ UNCHANGED <<build, package, reports, sent, minute, audit>>

\* Resume-BitLocker turns the protection on, at once or at the next restart;
\* the volume is read again.
Apply ==
    /\ stage = "confirm" /\ assessed.log = "none" /\ Plan(assessed.volume) = "RESUME_PROTECTION"
    /\ \E now \in {"On", "Off"} :
        assessed' = [volume |-> [assessed.volume EXCEPT !.protection = now], log |-> "APPLIED"]
    /\ UNCHANGED <<stage, build, package, reports, sent, minute, audit, exit>>

Close ==
    /\ stage = "confirm" /\ assessed.log = "APPLIED" /\ Ends(0) /\ assessed' = NoPlan
    /\ UNCHANGED <<build, package, reports, sent, minute, audit>>

\* _main of build_usb_package.py, the launcher around it, run_scan, the assistant.
Staging == EnsureRuntime \/ RuntimeFails \/ Stage \/ StageFails

Deployment == Refuse \/ RemovePackage \/ RemoveFails \/ CopyFile \/ CopyFails \/ Verify

Audit == Scan \/ ScanFails \/ RemoveOld \/ Write \/ WriteFails \/ Sync \/ SyncFails

Remediation == Assess \/ NotApplied \/ Apply \/ Close

Next == Edit \/ Tick \/ Staging \/ Deployment \/ Audit \/ Pull \/ Remediation

Spec == Init /\ [][Next]_vars

-----------------------------------------------------------------------------
Verdicts == {"Compliant", "Non-Compliant"}

Report == [machine : DOMAIN Machines, at : Nat, whole : BOOLEAN, verdict : Verdicts]

AuditRecord ==
    [machine : DOMAIN Machines \cup {"none"}, seen : Nat, verdict : Verdicts \cup {"none"},
     old : SUBSET Report, had : SUBSET DOMAIN Machines]

Assessment == [volume : VolumeReading \cup {Unread}, log : {"none", "APPLIED"}]

TypeOK ==
    /\ stage \in {"idle", "staging", "select", "copying", "saving", "syncing", "confirm"}
    /\ version \in Nat \ {0} /\ minute \in Nat /\ runtime \in BOOLEAN
    /\ reports \subseteq Report /\ sent \in Verdicts \cup {"none"} /\ exit \in -1 .. 5
    /\ audit \in AuditRecord /\ assessed \in Assessment

\* A machine is found compliant only on the sight of two thirds of what the
\* auditor can check, whatever reads as a pass or a warning without being seen.
CompliantWasSeen == stage \in {"saving", "syncing"} /\ audit.verdict = "Compliant" => audit.seen >= 12

\* Two programs read the same volume: what the assistant calls compliant the
\* auditor passes, and only that; what it may resume the auditor fails, and
\* passes as soon as the protection is on.
PlanAgreesWithVerdict ==
    /\ (Plan(assessed.volume) = "COMPLIANT") <=> (BitLocker(assessed.volume) = "PASS")
    /\ Plan(assessed.volume) = "RESUME_PROTECTION" => BitLocker(assessed.volume) = "FAIL"
    /\ assessed.log = "APPLIED" => (assessed.volume.protection = "On" <=> BitLocker(assessed.volume) = "PASS")

\* No verdict claims more than was seen, and both programs give the same one.
VerdictsFounded == CompliantWasSeen /\ PlanAgreesWithVerdict

\* A package that is reported verified is, file for file, the one that was built
\* from the sources: nothing missing, damaged, left over or of another version.
VerifiedMeansWhole ==
    [][stage = "copying" /\ exit' = 0 => package' = staged /\ \E v \in 1 .. version : <<"main.py", v>> \in package']_vars

\* "Always LOCAL FIRST": an audit that ends with a verdict, uploaded or not,
\* leaves a whole report of that verdict on the stick, and what it uploads is
\* that report.
VerdictIsOnRecord ==
    [][stage' = "idle" /\ stage \in {"saving", "syncing"} /\ (exit' \in {0, 1} \/ sent' # sent) =>
          \E r \in Rows' : /\ r.machine = audit.machine /\ r.at = minute
                           /\ exit' = IF r.verdict = "Compliant" THEN 0 ELSE 1
                           /\ sent' \in {"none", r.verdict}]_vars

\* "Remove old reports for same machine (1 machine = 1 file)": every machine
\* that had a report on the stick before an audit has one after it.
EvidenceSurvives ==
    [][stage' = "idle" /\ stage \in {"saving", "syncing"} =>
          \A m \in audit.had : \E r \in Rows' : r.machine = m]_vars
=================================================================================
