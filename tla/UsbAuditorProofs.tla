--------------------------- MODULE UsbAuditorProofs ---------------------------
(***************************************************************************)
(* For all machines, volumes, sources and versions: a verdict is founded   *)
(* on what was seen, a package that is reported verified is the one that   *)
(* was built, and an audit that ends with a verdict has it on record.      *)
(***************************************************************************)
EXTENDS UsbAuditor, FiniteSetTheorems, TLAPS

-----------------------------------------------------------------------------
(* How many checks there are.                                               *)

\* Disjoint sets together have as many elements as both.
LEMMA Joined ==
    ASSUME NEW S, NEW T, IsFiniteSet(S), IsFiniteSet(T), S \cap T = {}
    PROVE  /\ IsFiniteSet(S \cup T)
           /\ Cardinality(S \cup T) = Cardinality(S) + Cardinality(T)
<1>1. Cardinality(S \cap T) = 0
  BY FS_EmptySet
<1>2. Cardinality(S) \in Nat /\ Cardinality(T) \in Nat
  BY FS_CardinalityType
<1>3. /\ IsFiniteSet(S \cup T)
      /\ Cardinality(S \cup T) = Cardinality(S) + Cardinality(T) - Cardinality(S \cap T)
  BY FS_Union
<1>4. QED
  BY <1>1, <1>2, <1>3

\* Two elements are two ...
LEMMA Pair ==
    ASSUME NEW a, NEW b, a # b
    PROVE  IsFiniteSet({a, b}) /\ Cardinality({a, b}) = 2
<1>1. {a, b} = {a} \cup {b} /\ {a} \cap {b} = {}
  OBVIOUS
<1>2. /\ IsFiniteSet({a}) /\ Cardinality({a}) = 1
      /\ IsFiniteSet({b}) /\ Cardinality({b}) = 1
  BY FS_Singleton
<1>3. IsFiniteSet({a} \cup {b}) /\ Cardinality({a} \cup {b}) = 1 + 1
  BY <1>1, <1>2, Joined
<1>4. QED
  BY <1>1, <1>3

\* ... and three are three.
LEMMA Triple ==
    ASSUME NEW a, NEW b, NEW c, a # b, a # c, b # c
    PROVE  IsFiniteSet({a, b, c}) /\ Cardinality({a, b, c}) = 3
<1>1. {a, b, c} = {a, b} \cup {c} /\ {a, b} \cap {c} = {}
  OBVIOUS
<1>2. /\ IsFiniteSet({a, b}) /\ Cardinality({a, b}) = 2
      /\ IsFiniteSet({c}) /\ Cardinality({c}) = 1
  BY Pair, FS_Singleton
<1>3. IsFiniteSet({a, b} \cup {c}) /\ Cardinality({a, b} \cup {c}) = 2 + 1
  BY <1>1, <1>2, Joined
<1>4. QED
  BY <1>1, <1>3

\* Six checks report without looking, and eighteen look.
LEMMA ChecksCounted ==
    /\ IsFiniteSet(Checks) /\ Cardinality(Checks) = 24
    /\ IsFiniteSet(Implemented) /\ Cardinality(Implemented) = 18
    /\ IsFiniteSet(NotImplemented) /\ Cardinality(NotImplemented) = 6
    /\ Implemented \cap NotImplemented = {}
<1>1. /\ IsFiniteSet(SecurityChecks) /\ Cardinality(SecurityChecks) = 4
  <2>1. /\ SecurityChecks = {"firewall", "defender"} \cup {"bitlocker", "windows_update"}
        /\ {"firewall", "defender"} \cap {"bitlocker", "windows_update"} = {}
    BY DEF SecurityChecks
  <2>2. /\ IsFiniteSet({"firewall", "defender"}) /\ Cardinality({"firewall", "defender"}) = 2
        /\ IsFiniteSet({"bitlocker", "windows_update"}) /\ Cardinality({"bitlocker", "windows_update"}) = 2
    BY Pair
  <2>3. QED
    BY <2>1, <2>2, Joined
<1>2. IsFiniteSet(Services) /\ Cardinality(Services) = 5
  <2>1. /\ Services = {"WinDefend", "BITS", "wuauserv"} \cup {"RemoteRegistry", "W32Time"}
        /\ {"WinDefend", "BITS", "wuauserv"} \cap {"RemoteRegistry", "W32Time"} = {}
    BY DEF Services
  <2>2. /\ IsFiniteSet({"WinDefend", "BITS", "wuauserv"}) /\ Cardinality({"WinDefend", "BITS", "wuauserv"}) = 3
        /\ IsFiniteSet({"RemoteRegistry", "W32Time"}) /\ Cardinality({"RemoteRegistry", "W32Time"}) = 2
    BY Pair, Triple
  <2>3. QED
    BY <2>1, <2>2, Joined
<1>3. IsFiniteSet(RegistryKeys) /\ Cardinality(RegistryKeys) = 3
  BY Triple DEF RegistryKeys
<1>4. IsFiniteSet(SetupChecks) /\ Cardinality(SetupChecks) = 6
  <2> DEFINE A == {"computer_name_serial", "timezone", "sentinelone"}
             B == {"wifi_profiles", "new_outlook", "xbox"}
  <2>1. SetupChecks = A \cup B /\ A \cap B = {}
    BY DEF SetupChecks
  <2>2. IsFiniteSet(A) /\ Cardinality(A) = 3 /\ IsFiniteSet(B) /\ Cardinality(B) = 3
    BY Triple
  <2> HIDE DEF A, B
  <2>3. QED
    BY <2>1, <2>2, Joined
<1>5. IsFiniteSet(NotImplemented) /\ Cardinality(NotImplemented) = 6
  <2> DEFINE A == {"non_unicode_thai", "dhcp", "datetime_sync"}
             B == {"thai_keyboard", "netlogon_reg", "default_apps"}
  <2>1. NotImplemented = A \cup B /\ A \cap B = {}
    BY DEF NotImplemented
  <2>2. IsFiniteSet(A) /\ Cardinality(A) = 3 /\ IsFiniteSet(B) /\ Cardinality(B) = 3
    BY Triple
  <2> HIDE DEF A, B
  <2>3. QED
    BY <2>1, <2>2, Joined
<1>6. /\ SecurityChecks \cap Services = {}
      /\ (SecurityChecks \cup Services) \cap RegistryKeys = {}
      /\ (SecurityChecks \cup Services \cup RegistryKeys) \cap SetupChecks = {}
      /\ Implemented \cap NotImplemented = {}
  BY DEF SecurityChecks, Services, RegistryKeys, SetupChecks, Implemented, NotImplemented
<1>7. IsFiniteSet(SecurityChecks \cup Services) /\ Cardinality(SecurityChecks \cup Services) = 9
  BY <1>1, <1>2, <1>6, Joined
<1>8. /\ IsFiniteSet(SecurityChecks \cup Services \cup RegistryKeys)
      /\ Cardinality(SecurityChecks \cup Services \cup RegistryKeys) = 12
  BY <1>3, <1>6, <1>7, Joined
<1>9. IsFiniteSet(Implemented) /\ Cardinality(Implemented) = 18
  BY <1>4, <1>6, <1>8, Joined DEF Implemented
<1>10. QED
  BY <1>5, <1>6, <1>9, Joined DEF Checks

\* The checks that pass although nothing was read.
Unnoticed == {"SMBv1", "new_outlook", "xbox"}

\* Each check is of one kind.
LEMMA KindsApart ==
    /\ SecurityChecks = {"firewall", "defender", "bitlocker", "windows_update"}
    /\ {"new_outlook", "xbox"} \subseteq SetupChecks
    /\ \A c \in SecurityChecks : c \notin Services \cup RegistryKeys \cup SetupChecks
    /\ \A c \in Services : c \notin SecurityChecks \cup RegistryKeys \cup SetupChecks
    /\ \A c \in RegistryKeys : c \notin SecurityChecks \cup Services \cup SetupChecks
    /\ \A c \in SetupChecks : c \notin SecurityChecks \cup Services \cup RegistryKeys
    /\ \A c \in NotImplemented : c \notin SecurityChecks \cup Services \cup RegistryKeys \cup SetupChecks
BY DEF SecurityChecks, Services, RegistryKeys, SetupChecks, NotImplemented

\* What Status asks for each kind of check.
LEMMA StatusByKind ==
    ASSUME NEW m
    PROVE  /\ Status(m, "firewall") = Firewall(m.firewall)
           /\ Status(m, "defender") = Defender(m.defender)
           /\ Status(m, "bitlocker") = BitLocker(m.bitlocker)
           /\ Status(m, "windows_update") = WindowsUpdate(m.windows_update)
           /\ \A c \in Services : Status(m, c) = Service(c, m.services[c])
           /\ \A c \in RegistryKeys : Status(m, c) = Registry(c, m.registry[c])
           /\ \A c \in SetupChecks \ {"new_outlook", "xbox"} : Status(m, c) = Setup(m.setup[c])
           /\ \A c \in NotImplemented : Status(m, c) = "WARNING"
BY KindsApart DEF Status

\* Every other check that could not be read costs points.
LEMMA UnreadCosts ==
    ASSUME NEW m, NEW c \in Implemented \ Seen(m), c \notin Unnoticed
    PROVE  Status(m, c) # "PASS"
<1>1. CASE c \in SecurityChecks
  <2>1. m[c] = Unread
    BY <1>1 DEF Seen, ReadSecurity
  <2>2. c = "firewall" => Status(m, c) # "PASS"
    BY <2>1, StatusByKind DEF Firewall
  <2>3. c = "defender" => Status(m, c) # "PASS"
    BY <2>1, StatusByKind DEF Defender
  <2>4. c = "bitlocker" => Status(m, c) # "PASS"
    BY <2>1, StatusByKind DEF BitLocker
  <2>5. c = "windows_update" => Status(m, c) # "PASS"
    BY <2>1, StatusByKind DEF WindowsUpdate
  <2>6. QED
    BY <1>1, <2>2, <2>3, <2>4, <2>5, KindsApart
<1>2. CASE c \in Services
  <2>1. m.services[c] = Unread
    BY <1>2 DEF Seen, ReadServices
  <2>2. QED
    BY <1>2, <2>1, StatusByKind DEF Service
<1>3. CASE c \in RegistryKeys
  <2>1. m.registry[c] = Unread /\ c # "SMBv1"
    BY <1>3 DEF Seen, ReadRegistry, Unnoticed
  <2>2. QED
    BY <1>3, <2>1, StatusByKind DEF Registry
<1>4. CASE c \in SetupChecks
  <2>1. m.setup[c] = Unread /\ c \in SetupChecks \ {"new_outlook", "xbox"}
    BY <1>4 DEF Seen, ReadSetup, Unnoticed
  <2>2. Status(m, c) = Setup(Unread)
    BY <2>1, StatusByKind
  <2>3. Setup(Unread) # "PASS"
    BY DEF Setup
  <2>4. QED
    BY <2>2, <2>3
<1>5. QED
  BY <1>1, <1>2, <1>3, <1>4 DEF Implemented

\* Eighty rounded percent are at most nine halves lost.
LEMMA RoundedPass ==
    ASSUME NEW p \in Nat, NEW w \in Nat, NEW f \in Nat, p + w + f = 24,
           Round(100 * p + 50 * w, 24) >= 80
    PROVE  w + 2 * f <= 9
<1> DEFINE a == 100 * p + 50 * w
           q == a \div 24
           r == a % 24
<1>1. a \in Nat /\ a = 24 * q + r /\ r \in 0 .. 23 /\ q \in Int
  OBVIOUS
<1>2. Round(a, 24) = IF 2 * r > 24 \/ (2 * r = 24 /\ q % 2 = 1) THEN q + 1 ELSE q
  BY DEF Round
<1>3. q >= 80 \/ (q >= 79 /\ r >= 12)
  BY <1>1, <1>2
<1>4. a >= 1908
  BY <1>1, <1>3
<1>5. QED
  BY <1>4

\* A machine is compliant only if at most six of the eighteen checks saw
\* nothing: three that pass unseen, and three that cost half.
LEMMA CompliantSeen ==
    ASSUME NEW m
    PROVE  /\ Cardinality(Seen(m)) \in Nat
           /\ Verdict(m) = "Compliant" => Cardinality(Seen(m)) >= 12
<1> DEFINE P == {c \in Checks : Status(m, c) = "PASS"}
           W == {c \in Checks : Status(m, c) = "WARNING"}
           F == Checks \ (P \cup W)
           U == Implemented \ Seen(m)
           Costly == U \ Unnoticed
<1>1. /\ Seen(m) \subseteq Implemented /\ Implemented \subseteq Checks /\ NotImplemented \subseteq Checks
  BY DEF Seen, ReadSecurity, ReadServices, ReadRegistry, ReadSetup, Implemented, Checks
<1>2. /\ IsFiniteSet(Seen(m)) /\ Cardinality(Seen(m)) \in Nat
      /\ IsFiniteSet(U) /\ Cardinality(U) \in Nat
      /\ IsFiniteSet(P) /\ Cardinality(P) \in Nat
      /\ IsFiniteSet(W) /\ Cardinality(W) \in Nat
      /\ IsFiniteSet(F) /\ Cardinality(F) \in Nat
      /\ IsFiniteSet(Costly) /\ Cardinality(Costly) \in Nat
  BY <1>1, ChecksCounted, FS_Subset, FS_CardinalityType
<1>3. Cardinality(P) + Cardinality(W) + Cardinality(F) = 24
  <2>1. P \cap W = {} /\ (P \cup W) \cap F = {} /\ Checks = (P \cup W) \cup F
    OBVIOUS
  <2>2. IsFiniteSet(P \cup W) /\ Cardinality(P \cup W) = Cardinality(P) + Cardinality(W)
    BY <1>2, <2>1, Joined
  <2>3. Cardinality((P \cup W) \cup F) = Cardinality(P \cup W) + Cardinality(F)
    BY <1>2, <2>1, <2>2, Joined
  <2>4. QED
    BY <1>2, <2>1, <2>2, <2>3, ChecksCounted
<1>4. Cardinality(Costly) + 6 <= Cardinality(W) + Cardinality(F)
  <2>1. /\ Costly \cap NotImplemented = {}
        /\ Costly \cup NotImplemented \subseteq W \cup F
    <3>1. \A c \in Costly : Status(m, c) # "PASS" /\ c \in Checks
      BY <1>1, UnreadCosts
    <3>2. \A c \in NotImplemented : Status(m, c) # "PASS" /\ c \in Checks
      BY <1>1, StatusByKind
    <3>3. QED
      BY <3>1, <3>2, ChecksCounted
  <2>2. W \cap F = {}
    OBVIOUS
  <2> HIDE DEF Costly, W, F
  <2>3. Cardinality(Costly \cup NotImplemented) = Cardinality(Costly) + 6
    BY <1>2, <2>1, ChecksCounted, Joined
  <2>4. IsFiniteSet(W \cup F) /\ Cardinality(W \cup F) = Cardinality(W) + Cardinality(F)
    BY <1>2, <2>2, Joined
  <2>5. Cardinality(Costly \cup NotImplemented) <= Cardinality(W \cup F)
    BY <2>1, <2>4, FS_Subset
  <2>6. QED
    BY <2>3, <2>4, <2>5
<1>5. Cardinality(U) <= Cardinality(Costly) + 3
  <2> DEFINE Free == U \cap Unnoticed
  <2>1. U = Costly \cup Free /\ Costly \cap Free = {}
    OBVIOUS
  <2>2. IsFiniteSet(Unnoticed) /\ Cardinality(Unnoticed) = 3
    BY Triple DEF Unnoticed
  <2>3. IsFiniteSet(Free) /\ Cardinality(Free) <= 3 /\ Cardinality(Free) \in Nat
    BY <2>2, FS_Subset, FS_CardinalityType
  <2> HIDE DEF U, Costly, Free
  <2>4. Cardinality(Costly \cup Free) = Cardinality(Costly) + Cardinality(Free)
    BY <1>2, <2>1, <2>3, Joined
  <2>5. QED
    BY <1>2, <2>1, <2>3, <2>4
<1>6. Cardinality(Seen(m)) + Cardinality(U) = 18
  <2>1. Implemented = Seen(m) \cup U /\ Seen(m) \cap U = {}
    BY <1>1
  <2> HIDE DEF U
  <2>2. Cardinality(Seen(m) \cup U) = Cardinality(Seen(m)) + Cardinality(U)
    BY <1>2, <2>1, Joined
  <2>3. QED
    BY <2>1, <2>2, ChecksCounted
<1>7. Verdict(m) = "Compliant" => Round(100 * Cardinality(P) + 50 * Cardinality(W), 24) >= 80
  BY ChecksCounted DEF Verdict, Score, Earned, Count
<1> HIDE DEF P, W, F, U, Costly
<1>8. Verdict(m) = "Compliant" => Cardinality(W) + 2 * Cardinality(F) <= 9
  BY <1>2, <1>3, <1>7, RoundedPass
<1>9. QED
  BY <1>2, <1>4, <1>5, <1>6, <1>8

-----------------------------------------------------------------------------
(* The two readings of a volume.                                            *)

\* Readings in which a fully encrypted volume is encrypted to the end.
Consistent == {Unread} \cup {v \in VolumeReading : v.volume = "FullyEncrypted" => v.progress = 100}

\* What the assistant calls compliant the auditor passes, and only that; what
\* it may resume the auditor fails, until the protection is on.
LEMMA ReadingsAgree ==
    ASSUME NEW v \in Consistent
    PROVE  /\ (Plan(v) = "COMPLIANT") <=> (BitLocker(v) = "PASS")
           /\ Plan(v) = "RESUME_PROTECTION" =>
                 /\ v \in VolumeReading /\ BitLocker(v) = "FAIL"
                 /\ v.volume = "FullyEncrypted" /\ v.protectors > 0
BY AuditorAssumption DEF Plan, BitLocker, VolumeReading, Consistent

\* Once the protection could be resumed, it alone decides.
LEMMA ResumedReads ==
    ASSUME NEW v \in VolumeReading, v.volume = "FullyEncrypted", v.progress = 100, v.protectors > 0
    PROVE  v.protection = "On" <=> BitLocker(v) = "PASS"
BY AuditorAssumption DEF BitLocker, VolumeReading

-----------------------------------------------------------------------------
(* The invariant.                                                           *)

\* A package as Stage leaves it.
FilesOf(v) == {<<s, v>> : s \in Sources} \cup {<<"python.exe", 0>>}
PackageOf(v) == FilesOf(v) \cup {Manifest(FilesOf(v))}

\* While a package is copied, it is one of some version of the sources, no exit
\* code is left from earlier, and the stick has no manifest but this one.
BuildInStep ==
    /\ stage \in {"select", "copying"} =>
          exit = -1 /\ \E v \in 1 .. version : staged = PackageOf(v)
    /\ stage = "copying" => \A f \in package : f[1] = "MANIFEST.txt" => f \in staged

\* While an audit saves and uploads, nothing has been uploaded; before the
\* upload the report of this minute is the one that was just written.
AuditInStep ==
    /\ audit.verdict = "Compliant" => audit.seen >= 12
    /\ stage \in {"saving", "syncing"} =>
          audit.machine \in DOMAIN Machines /\ audit.verdict # "none" /\ sent = "none"
    /\ stage = "syncing" =>
          /\ NewReport(TRUE) \in reports
          /\ \A r \in reports :
                r.machine = audit.machine /\ r.at = minute => r = NewReport(TRUE)

\* What the assistant read is a reading Windows gives, and what it resumed had
\* been suspended.
PlanInStep ==
    /\ assessed.volume \in Consistent
    /\ assessed.log = "APPLIED" =>
          /\ assessed.volume \in VolumeReading
          /\ assessed.volume.volume = "FullyEncrypted" /\ assessed.volume.protectors > 0

AuditorInv == TypeOK /\ BuildInStep /\ AuditInStep /\ PlanInStep

\* What the scan of a machine makes of any observation of it.
LEMMA OutcomesTyped ==
    ASSUME NEW m \in DOMAIN Machines, NEW outcome \in Outcomes[m]
    PROVE  /\ outcome.seen \in Nat /\ outcome.verdict \in Verdicts
           /\ outcome.verdict = "Compliant" => outcome.seen >= 12
<1>1. PICK obs \in Machines[m] : outcome = [seen |-> Cardinality(Seen(obs)), verdict |-> Verdict(obs)]
  BY DEF Outcomes
<1>2. outcome.seen = Cardinality(Seen(obs)) /\ outcome.verdict = Verdict(obs)
  BY <1>1
<1>3. Verdict(obs) \in Verdicts
  BY DEF Verdict, Verdicts
<1>4. QED
  BY <1>2, <1>3, CompliantSeen

\* The report of an audit under way.
LEMMA NewReportTyped ==
    ASSUME TypeOK, AuditInStep, stage \in {"saving", "syncing"}, NEW whole \in BOOLEAN
    PROVE  /\ NewReport(whole) \in Report
           /\ NewReport(whole).machine = audit.machine /\ NewReport(whole).at = minute
           /\ NewReport(whole).whole = whole /\ NewReport(whole).verdict = audit.verdict
           /\ Replacing(NewReport(whole)) \subseteq Report
<1>1. audit.machine \in DOMAIN Machines /\ audit.verdict \in Verdicts /\ minute \in Nat
  BY DEF TypeOK, AuditInStep, AuditRecord
<1>2. NewReport(whole) \in Report
  BY <1>1 DEF NewReport, Report
<1>3. QED
  BY <1>2 DEF NewReport, Replacing, TypeOK

\* Nothing is built or audited at first.
LEMMA InitAuditorInv == Init => AuditorInv
<1> SUFFICES ASSUME Init PROVE AuditorInv
  OBVIOUS
<1>0. Nobody \in AuditRecord /\ NoPlan \in Assessment
  BY DEF Nobody, NoPlan, AuditRecord, Assessment
<1>a. audit \in AuditRecord /\ assessed \in Assessment
  BY <1>0 DEF Init
<1>b. version \in Nat \ {0} /\ minute \in Nat /\ exit \in -1 .. 5
  BY DEF Init
<1>c. runtime \in BOOLEAN
  BY DEF Init
<1>d. reports \subseteq Report /\ sent \in Verdicts \cup {"none"}
  BY DEF Init
<1>1. TypeOK
  BY <1>a, <1>b, <1>c, <1>d DEF Init, TypeOK
<1>2. BuildInStep /\ AuditInStep
  BY DEF Init, BuildInStep, AuditInStep, Nobody
<1>3. PlanInStep
  BY DEF Init, PlanInStep, NoPlan, Consistent
<1>4. QED
  BY <1>1, <1>2, <1>3 DEF AuditorInv

-----------------------------------------------------------------------------
(* Each step keeps the types.                                               *)

\* Types survive the steps that build and deploy a package ...
LEMMA BuildTyped ==
    ASSUME AuditorInv, Edit \/ Tick \/ Staging \/ Deployment
    PROVE  TypeOK'
<1> USE DEF AuditorInv, TypeOK, field, build, Ends
<1>1. CASE Edit
  BY <1>1 DEF Edit
<1>2. CASE Tick
  BY <1>2 DEF Tick
<1>3. CASE EnsureRuntime
  BY <1>3 DEF EnsureRuntime
<1>4. CASE RuntimeFails
  BY <1>4 DEF RuntimeFails
<1>5. CASE Stage
  BY <1>5 DEF Stage
<1>6. CASE StageFails
  BY <1>6 DEF StageFails
<1>7. CASE Refuse
  BY <1>7 DEF Refuse
<1>8. CASE RemovePackage
  BY <1>8 DEF RemovePackage
<1>9. CASE RemoveFails
  BY <1>9 DEF RemoveFails
<1>10. CASE CopyFile
  BY <1>10 DEF CopyFile
<1>11. CASE CopyFails
  BY <1>11 DEF CopyFails
<1>12. CASE Verify
  BY <1>12 DEF Verify
<1>13. QED
  BY <1>1, <1>2, <1>3, <1>4, <1>5, <1>6, <1>7, <1>8, <1>9, <1>10, <1>11, <1>12
     DEF Staging, Deployment

\* ... an audit ...
LEMMA AuditTyped ==
    ASSUME AuditorInv, Audit \/ Pull
    PROVE  TypeOK'
<1> USE DEF AuditorInv, field, build, Ends
<1>0. /\ Nobody \in AuditRecord
      /\ ExitCode \in -1 .. 5
  BY DEF Nobody, ExitCode, AuditRecord
<1>1. CASE Scan
  <2>0. PICK m \in DOMAIN Machines : \E outcome \in Outcomes[m] :
          audit' = [machine |-> m, seen |-> outcome.seen, verdict |-> outcome.verdict,
                    old |-> {r \in reports : r.machine = m \/ <<m, r.machine>> \in Covers},
                    had |-> {r.machine : r \in Rows}]
    BY <1>1 DEF Scan
  <2>1. PICK outcome \in Outcomes[m] :
          audit' = [machine |-> m, seen |-> outcome.seen, verdict |-> outcome.verdict,
                    old |-> {r \in reports : r.machine = m \/ <<m, r.machine>> \in Covers},
                    had |-> {r.machine : r \in Rows}]
    BY <2>0
  <2>2. {r.machine : r \in Rows} \subseteq DOMAIN Machines
    BY DEF TypeOK, Rows, Report
  <2>3. outcome.seen \in Nat /\ outcome.verdict \in Verdicts
    BY OutcomesTyped
  <2>4. audit' \in AuditRecord
    BY <2>1, <2>2, <2>3 DEF TypeOK, AuditRecord
  <2>5. QED
    BY <1>1, <2>4 DEF Scan, TypeOK
<1>2. CASE ScanFails
  BY <1>2 DEF ScanFails, TypeOK
<1>3. CASE RemoveOld
  BY <1>3 DEF RemoveOld, TypeOK, AuditRecord
<1>4. CASE Write
  <2>1. reports' \subseteq Report
    BY <1>4, NewReportTyped DEF Write
  <2>2. QED
    BY <1>4, <2>1 DEF Write, TypeOK
<1>5. CASE WriteFails
  <2>1. reports' \subseteq Report
    BY <1>5, NewReportTyped DEF WriteFails, TypeOK
  <2>2. QED
    BY <1>5, <1>0, <2>1 DEF WriteFails, TypeOK
<1>6. CASE Sync
  BY <1>6, <1>0 DEF Sync, TypeOK, Report
<1>7. CASE SyncFails
  BY <1>7, <1>0 DEF SyncFails, TypeOK
<1>8. CASE Pull
  <2>1. reports' \subseteq Report
    BY <1>8, NewReportTyped DEF Pull, TypeOK
  <2>2. QED
    BY <1>8, <1>0, <2>1 DEF Pull, TypeOK
<1>9. QED
  BY <1>1, <1>2, <1>3, <1>4, <1>5, <1>6, <1>7, <1>8 DEF Audit

\* What the assistant reads after Resume-BitLocker is a reading once more.
LEMMA AppliedReads ==
    ASSUME AuditorInv, Apply
    PROVE  /\ assessed' \in Assessment
           /\ assessed'.log = "APPLIED"
           /\ assessed'.volume \in Consistent /\ assessed'.volume \in VolumeReading
           /\ assessed'.volume.volume = "FullyEncrypted" /\ assessed'.volume.protectors > 0
<1>1. PICK now \in {"On", "Off"} :
        assessed' = [volume |-> [assessed.volume EXCEPT !.protection = now], log |-> "APPLIED"]
  BY DEF Apply
<1>2. /\ assessed.volume \in VolumeReading /\ assessed.volume \in Consistent
      /\ assessed.volume.volume = "FullyEncrypted" /\ assessed.volume.protectors > 0
  BY ReadingsAgree DEF AuditorInv, PlanInStep, Apply
<1>3. PICK w : w = assessed.volume
  OBVIOUS
<1>s. now \in {"On", "Off", "Unknown"}
  OBVIOUS
<1>v. PICK v : v = [w EXCEPT !.protection = now]
  OBVIOUS
<1>4. w \in VolumeReading /\ w.volume = "FullyEncrypted" /\ w.protectors > 0 /\ w.progress = 100
  BY <1>2, <1>3, AuditorAssumption DEF Consistent
<1>5. /\ v \in VolumeReading /\ v.volume = "FullyEncrypted"
      /\ v.protectors = w.protectors /\ v.progress = 100
  BY <1>s, <1>v, <1>4 DEF VolumeReading
<1>6. v \in Consistent
  BY <1>5 DEF Consistent
<1>7. assessed' = [volume |-> v, log |-> "APPLIED"]
  BY <1>1, <1>3, <1>v
<1>8. assessed'.volume = v /\ assessed'.log = "APPLIED"
  BY <1>7
<1>9. v.protectors > 0
  BY <1>4, <1>5
<1>10. QED
  BY <1>5, <1>6, <1>7, <1>8, <1>9 DEF Assessment

\* ... and a remediation.
LEMMA RemediationTyped ==
    ASSUME AuditorInv, Remediation
    PROVE  TypeOK'
<1>1. NoPlan \in Assessment
  BY DEF NoPlan, Assessment
<1>2. assessed' \in Assessment
  <2>1. CASE Assess
    BY <2>1, AuditorAssumption DEF Assess, Assessment
  <2>2. QED
    BY <1>1, <2>1, AppliedReads DEF Remediation, NotApplied, Apply, Close
<1>3. /\ stage' \in {"idle", "confirm"} /\ exit' \in -1 .. 5
      /\ UNCHANGED <<build, package, reports, sent, minute, audit>>
  BY DEF Remediation, Assess, NotApplied, Apply, Close, Ends, AuditorInv, TypeOK
<1>4. QED
  BY <1>2, <1>3 DEF AuditorInv, TypeOK, build

-----------------------------------------------------------------------------
(* Each step keeps what is said of the package, the audit and the plan.     *)

\* The manifest names every file of a package, and none of them is another one.
LEMMA PackageShape ==
    ASSUME NEW v
    PROVE  /\ \A f \in FilesOf(v) : f[1] # "MANIFEST.txt"
           /\ Contents(FilesOf(v)) = FilesOf(v)
           /\ Manifest(FilesOf(v)) = <<"MANIFEST.txt", FilesOf(v)>>
           /\ \A f \in PackageOf(v) :
                 IF f[1] = "MANIFEST.txt" THEN f = <<"MANIFEST.txt", FilesOf(v)>> ELSE f \in FilesOf(v)
<1>1. \A f \in FilesOf(v) : f[1] # "MANIFEST.txt"
  BY AuditorAssumption DEF FilesOf
<1>2. Contents(FilesOf(v)) = FilesOf(v)
  BY <1>1 DEF Contents
<1>3. Manifest(FilesOf(v)) = <<"MANIFEST.txt", FilesOf(v)>>
  BY <1>2 DEF Manifest
<1>4. QED
  BY <1>1, <1>2, <1>3 DEF PackageOf

\* What is known of a build stays true in every step ...
LEMMA BuildKept ==
    ASSUME AuditorInv, Next
    PROVE  BuildInStep'
<1> USE DEF AuditorInv
<1>1. CASE Stage
  <2>1. staged' = PackageOf(version) /\ version' = version /\ version \in 1 .. version
    BY <1>1 DEF Stage, PackageOf, FilesOf, TypeOK
  <2>2. stage' \in {"idle", "select"} /\ (stage' = "select" => exit' = -1)
    BY <1>1 DEF Stage
  <2>3. QED
    BY <2>1, <2>2 DEF BuildInStep
<1>2. CASE RemovePackage
  BY <1>2 DEF RemovePackage, BuildInStep, build
<1>3. CASE CopyFile
  <2>1. /\ stage = "copying" /\ stage' = "copying" /\ exit' = exit
        /\ staged' = staged /\ version' = version
    BY <1>3 DEF CopyFile, build
  <2>2. \A f \in package' : f[1] = "MANIFEST.txt" => f \in staged
    BY <1>3, <2>1 DEF CopyFile, BuildInStep
  <2>3. QED
    BY <2>1, <2>2 DEF BuildInStep
<1>4. CASE ~Stage /\ ~RemovePackage /\ ~CopyFile
  <2>1. stage' \notin {"select", "copying"}
    BY <1>4 DEF Next, Edit, Tick, Staging, EnsureRuntime, RuntimeFails, StageFails, Deployment, Refuse,
                RemoveFails, CopyFails, Verify, Audit, Scan, ScanFails, RemoveOld, Write, WriteFails,
                Sync, SyncFails, Pull, Remediation, Assess, NotApplied, Apply, Close, Ends
  <2>2. QED
    BY <2>1 DEF BuildInStep
<1>5. QED
  BY <1>1, <1>2, <1>3, <1>4

\* ... of an audit ...
LEMMA AuditKept ==
    ASSUME AuditorInv, Next
    PROVE  AuditInStep'
<1> USE DEF AuditorInv
<1>1. CASE Scan
  <2>1. PICK m \in DOMAIN Machines : \E outcome \in Outcomes[m] :
          audit' = [machine |-> m, seen |-> outcome.seen, verdict |-> outcome.verdict,
                    old |-> {r \in reports : r.machine = m \/ <<m, r.machine>> \in Covers},
                    had |-> {r.machine : r \in Rows}]
    BY <1>1 DEF Scan
  <2>2. PICK outcome \in Outcomes[m] :
          /\ audit'.machine = m /\ audit'.seen = outcome.seen /\ audit'.verdict = outcome.verdict
    BY <2>1
  <2>3. /\ outcome.verdict \in Verdicts
        /\ outcome.verdict = "Compliant" => outcome.seen >= 12
    BY OutcomesTyped
  <2>4. stage' = "saving" /\ sent' = "none"
    BY <1>1 DEF Scan
  <2>5. QED
    BY <2>2, <2>3, <2>4 DEF AuditInStep, Verdicts
<1>2. CASE RemoveOld
  <2>1. /\ audit'.machine = audit.machine /\ audit'.verdict = audit.verdict /\ audit'.seen = audit.seen
        /\ stage = "saving" /\ stage' = "saving" /\ sent' = sent
    BY <1>2 DEF RemoveOld, TypeOK, AuditRecord
  <2>2. QED
    BY <2>1 DEF AuditInStep
<1>3. CASE Write
  <2>1. /\ audit' = audit /\ minute' = minute /\ sent' = sent
        /\ stage = "saving" /\ stage' = "syncing"
        /\ reports' = Replacing(NewReport(TRUE))
    BY <1>3 DEF Write
  <2>2. NewReport(TRUE).machine = audit.machine /\ NewReport(TRUE).at = minute
    BY <2>1, NewReportTyped
  <2>3. NewReport(TRUE)' = NewReport(TRUE)
    BY <2>1 DEF NewReport
  <2>4. QED
    BY <2>1, <2>2, <2>3 DEF AuditInStep, Replacing
<1>4. CASE ~Scan /\ ~RemoveOld /\ ~Write
  <2>1. stage' \notin {"saving", "syncing"}
    BY <1>4 DEF Next, Edit, Tick, Staging, EnsureRuntime, RuntimeFails, Stage, StageFails, Deployment,
                Refuse, RemovePackage, RemoveFails, CopyFile, CopyFails, Verify, Audit, ScanFails,
                WriteFails, Sync, SyncFails, Pull, Remediation, Assess, NotApplied, Apply, Close, Ends
  <2>2. audit' \in {audit, Nobody}
    BY <1>4 DEF Next, Edit, Tick, Staging, EnsureRuntime, RuntimeFails, Stage, StageFails, Deployment,
                Refuse, RemovePackage, RemoveFails, CopyFile, CopyFails, Verify, Audit, ScanFails,
                WriteFails, Sync, SyncFails, Pull, Remediation, Assess, NotApplied, Apply, Close, field
  <2>3. Nobody.verdict # "Compliant"
    BY DEF Nobody
  <2>4. QED
    BY <2>1, <2>2, <2>3 DEF AuditInStep
<1>5. QED
  BY <1>1, <1>2, <1>3, <1>4

\* ... and of a plan.
LEMMA PlanKept ==
    ASSUME AuditorInv, Next
    PROVE  PlanInStep'
<1> USE DEF AuditorInv
<1>1. CASE Assess
  <2>1. PICK v \in Volumes : assessed' = [volume |-> v, log |-> "none"]
    BY <1>1 DEF Assess
  <2>2. assessed'.volume = v /\ assessed'.log = "none" /\ v \in Consistent
    BY <2>1, AuditorAssumption DEF Consistent
  <2>3. QED
    BY <2>2 DEF PlanInStep
<1>2. CASE Apply
  BY <1>2, AppliedReads DEF PlanInStep
<1>3. CASE NotApplied \/ Close
  BY <1>3 DEF NotApplied, Close, NoPlan, PlanInStep, Consistent
<1>4. CASE ~Assess /\ ~Apply /\ ~NotApplied /\ ~Close
  <2>1. assessed' = assessed
    BY <1>4 DEF Next, Edit, Tick, Staging, EnsureRuntime, RuntimeFails, Stage, StageFails, Deployment,
                Refuse, RemovePackage, RemoveFails, CopyFile, CopyFails, Verify, Audit, Scan, ScanFails,
                RemoveOld, Write, WriteFails, Sync, SyncFails, Pull, Remediation, field
  <2>2. QED
    BY <2>1 DEF PlanInStep
<1>5. QED
  BY <1>1, <1>2, <1>3, <1>4

\* AuditorInv is inductive: what a package, an audit and a plan are said to be
\* holds from step to step.
THEOREM AuditorSafe == Spec => []AuditorInv
<1>1. AuditorInv /\ [Next]_vars => AuditorInv'
  <2> SUFFICES ASSUME AuditorInv, [Next]_vars PROVE AuditorInv'
    OBVIOUS
  <2>1. CASE Next
    <3>1. TypeOK'
      BY <2>1, BuildTyped, AuditTyped, RemediationTyped DEF Next
    <3>2. QED
      BY <2>1, <3>1, BuildKept, AuditKept, PlanKept DEF AuditorInv
  <2>2. CASE UNCHANGED vars
    BY <2>2 DEF vars, AuditorInv, TypeOK, BuildInStep, AuditInStep, PlanInStep, NewReport
  <2>3. QED
    BY <2>1, <2>2
<1>2. QED
  BY InitAuditorInv, <1>1, PTL DEF Spec

-----------------------------------------------------------------------------
(* The properties.                                                          *)

\* A compliant verdict rests on at least twelve checks that read what they
\* report on, and the auditor and the assistant never contradict each other
\* about a volume.
THEOREM VerdictsHold == Spec => []VerdictsFounded
<1>1. AuditorInv => VerdictsFounded
  <2> SUFFICES ASSUME AuditorInv PROVE VerdictsFounded
    OBVIOUS
  <2>1. CompliantWasSeen
    BY DEF AuditorInv, AuditInStep, CompliantWasSeen
  <2>2. PlanAgreesWithVerdict
    <3>1. assessed.volume \in Consistent
      BY DEF AuditorInv, PlanInStep
    <3>2. assessed.log = "APPLIED" =>
            (assessed.volume.protection = "On" <=> BitLocker(assessed.volume) = "PASS")
      <4> SUFFICES ASSUME assessed.log = "APPLIED"
                   PROVE  assessed.volume.protection = "On" <=> BitLocker(assessed.volume) = "PASS"
        OBVIOUS
      <4>1. /\ assessed.volume \in VolumeReading /\ assessed.volume.volume = "FullyEncrypted"
            /\ assessed.volume.protectors > 0
        BY DEF AuditorInv, PlanInStep
      <4>2. assessed.volume.progress = 100
        BY <3>1, <4>1, AuditorAssumption DEF Consistent
      <4>3. QED
        BY <4>1, <4>2, ResumedReads
    <3>3. QED
      BY <3>1, <3>2, ReadingsAgree DEF PlanAgreesWithVerdict
  <2>3. QED
    BY <2>1, <2>2 DEF VerdictsFounded
<1>2. QED
  BY <1>1, AuditorSafe, PTL

\* A verification that succeeds has compared every file with the manifest of the
\* package that was built.
LEMMA VerifiedIsBuilt ==
    ASSUME AuditorInv, Verify, exit' = 0
    PROVE  package' = staged /\ \E v \in 1 .. version : <<"main.py", v>> \in package'
<1>1. /\ stage = "copying" /\ package' = package /\ ~FindProblems(package)
  BY DEF Verify, Ends
<1>2. PICK v \in 1 .. version : staged = PackageOf(v)
  BY <1>1 DEF AuditorInv, BuildInStep
<1>3. \A f \in package : f[1] = "MANIFEST.txt" => f = <<"MANIFEST.txt", FilesOf(v)>>
  BY <1>1, <1>2, PackageShape DEF AuditorInv, BuildInStep
<1>4. /\ \A name \in Required : \E f \in package : f[1] = name
      /\ \A m \in package : m[1] = "MANIFEST.txt" => m[2] = Contents(package)
  BY <1>1 DEF FindProblems
<1>5. <<"MANIFEST.txt", FilesOf(v)>> \in package
  BY <1>3, <1>4 DEF Required
<1>6. Contents(package) = FilesOf(v)
  <2>1. <<"MANIFEST.txt", FilesOf(v)>>[1] = "MANIFEST.txt" /\ <<"MANIFEST.txt", FilesOf(v)>>[2] = FilesOf(v)
    OBVIOUS
  <2>2. QED
    BY <1>4, <1>5, <2>1
<1>7. package = FilesOf(v) \cup {<<"MANIFEST.txt", FilesOf(v)>>}
  BY <1>3, <1>5, <1>6 DEF Contents
<1>8. staged = FilesOf(v) \cup {<<"MANIFEST.txt", FilesOf(v)>>}
  BY <1>2, PackageShape DEF PackageOf
<1>9. <<"main.py", v>> \in package
  <2>1. PICK f \in package : f[1] = "main.py"
    BY <1>4 DEF Required
  <2>2. f \in FilesOf(v)
    BY <1>7, <2>1
  <2>3. QED
    BY <1>7, <2>1, <2>2 DEF FilesOf
<1>10. QED
  BY <1>1, <1>7, <1>8, <1>9

\* A package that is reported verified is, file for file, the one that was built
\* from some version of the sources.
THEOREM PackagesWhole == Spec => VerifiedMeansWhole
<1>1. AuditorInv /\ [Next]_vars =>
        [stage = "copying" /\ exit' = 0 =>
            package' = staged /\ \E v \in 1 .. version : <<"main.py", v>> \in package']_vars
  <2> SUFFICES ASSUME AuditorInv, Next, stage = "copying", exit' = 0
               PROVE  package' = staged /\ \E v \in 1 .. version : <<"main.py", v>> \in package'
    BY DEF vars
  <2>1. exit = -1
    BY DEF AuditorInv, BuildInStep
  <2>2. Verify
    BY <2>1 DEF Next, Edit, Tick, Staging, EnsureRuntime, RuntimeFails, Stage, StageFails, Deployment,
                Refuse, RemovePackage, RemoveFails, CopyFile, CopyFails, Audit, Scan, ScanFails,
                RemoveOld, Write, WriteFails, Sync, SyncFails, Pull, Remediation, Assess, NotApplied,
                Apply, Close, Ends
  <2>3. QED
    BY <2>2, VerifiedIsBuilt
<1>2. QED
  BY <1>1, AuditorSafe, PTL DEF Spec, VerifiedMeansWhole

\* Local first: an audit that ends with a verdict has written a whole report of
\* that verdict, and what it uploads is that report.
THEOREM VerdictsOnRecord == Spec => VerdictIsOnRecord
<1>1. AuditorInv /\ [Next]_vars =>
        [stage' = "idle" /\ stage \in {"saving", "syncing"} /\ (exit' \in {0, 1} \/ sent' # sent) =>
            \E r \in Rows' : /\ r.machine = audit.machine /\ r.at = minute
                             /\ exit' = IF r.verdict = "Compliant" THEN 0 ELSE 1
                             /\ sent' \in {"none", r.verdict}]_vars
  <2> SUFFICES ASSUME AuditorInv, Next, stage' = "idle", stage \in {"saving", "syncing"},
                      exit' \in {0, 1} \/ sent' # sent
               PROVE  \E r \in Rows' : /\ r.machine = audit.machine /\ r.at = minute
                                       /\ exit' = IF r.verdict = "Compliant" THEN 0 ELSE 1
                                       /\ sent' \in {"none", r.verdict}
    BY DEF vars
  <2>1. Sync \/ SyncFails
    <3>1. Audit \/ Pull
      BY DEF Next, Edit, Tick, Staging, EnsureRuntime, RuntimeFails, Stage, StageFails, Deployment,
             Refuse, RemovePackage, RemoveFails, CopyFile, CopyFails, Verify, Remediation, Assess,
             NotApplied, Apply, Close
    <3>2. ~Scan /\ ~ScanFails /\ ~RemoveOld /\ ~Write
      BY DEF Scan, ScanFails, RemoveOld, Write
    <3>3. ~WriteFails
      <4>1. WriteFails => exit' = 2 /\ sent' = sent
        BY DEF WriteFails, Ends
      <4>2. QED
        BY <4>1
    <3>4. ~Pull
      <4>1. Pull => exit' = -1 /\ sent' = sent
        BY DEF Pull, Ends
      <4>2. QED
        BY <4>1
    <3>5. QED
      BY <3>1, <3>2, <3>3, <3>4 DEF Audit
  <2>2. stage = "syncing" /\ reports' = reports /\ exit' = ExitCode
    BY <2>1 DEF Sync, SyncFails, Ends
  <2>3. /\ NewReport(TRUE) \in reports /\ sent = "none"
        /\ \A r \in reports : r.machine = audit.machine /\ r.at = minute => r = NewReport(TRUE)
    BY <2>2 DEF AuditorInv, AuditInStep
  <2>4. /\ NewReport(TRUE).machine = audit.machine /\ NewReport(TRUE).at = minute
        /\ NewReport(TRUE).whole = TRUE /\ NewReport(TRUE).verdict = audit.verdict
    BY NewReportTyped DEF AuditorInv
  <2>5. NewReport(TRUE) \in Rows'
    BY <2>2, <2>3, <2>4 DEF Rows
  <2>6. exit' = IF NewReport(TRUE).verdict = "Compliant" THEN 0 ELSE 1
    BY <2>2, <2>4 DEF ExitCode
  <2>7. sent' \in {"none", NewReport(TRUE).verdict}
    <3>1. CASE Sync
      BY <2>3, <3>1 DEF Sync
    <3>2. CASE SyncFails
      BY <2>3, <3>2 DEF SyncFails
    <3>3. QED
      BY <2>1, <3>1, <3>2
  <2>8. QED
    BY <2>4, <2>5, <2>6, <2>7
<1>2. QED
  BY <1>1, AuditorSafe, PTL DEF Spec, VerdictIsOnRecord
=============================================================================
