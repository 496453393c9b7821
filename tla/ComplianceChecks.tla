---------------------------- MODULE ComplianceChecks ----------------------------
(***************************************************************************)
(* What the portable auditor makes of one Windows machine: eighteen checks *)
(* of what it could read, six that are not implemented, one score.         *)
(* Observations are given by the outcomes the checks tell apart; Unread is *)
(* a command that failed, timed out or was denied.                         *)
(***************************************************************************)
EXTENDS Integers, FiniteSets

CONSTANT Unread

Profiles == {"Domain", "Private", "Public"}

\* RemoteRegistry is the one service that should be stopped.
Services == {"WinDefend", "BITS", "wuauserv", "RemoteRegistry", "W32Time"}

Expected(service) == IF service = "RemoteRegistry" THEN "stopped" ELSE "running"

RegistryKeys == {"UAC", "RDP", "SMBv1"}

SecurityChecks == {"firewall", "defender", "bitlocker", "windows_update"}

SetupChecks == {"computer_name_serial", "timezone", "sentinelone", "wifi_profiles", "new_outlook", "xbox"}

NotImplemented == {"non_unicode_thai", "dhcp", "datetime_sync", "thai_keyboard", "netlogon_reg", "default_apps"}

Implemented == SecurityChecks \cup Services \cup RegistryKeys \cup SetupChecks

Checks == Implemented \cup NotImplemented

-----------------------------------------------------------------------------
\* _check_firewall, given whether each profile is on, of those that could be
\* parsed: a list that is not complete may pass.
Firewall(profiles) ==
    IF profiles = Unread \/ DOMAIN profiles = {} THEN "FAIL"
    ELSE IF \A p \in DOMAIN profiles : profiles[p] THEN "PASS"
    ELSE IF \E p \in DOMAIN profiles : profiles[p] THEN "WARNING" ELSE "FAIL"

\* _check_defender; an age that cannot be read is -1 and so not above seven.
Defender(d) ==
    IF d = Unread \/ ~d.enabled THEN "FAIL"
    ELSE IF ~d.realtime \/ d.age > 7 THEN "WARNING" ELSE "PASS"

\* Mutant: encrypted and on is enough, recovery protector or not.
BitLockerUnescrowed(v) ==
    IF v # Unread /\ v.volume = "FullyEncrypted" /\ v.protection = "On" THEN "PASS" ELSE "FAIL"

\* _evaluate_bitlocker.
BitLocker(v) ==
    IF v = Unread THEN "FAIL" ELSE
    CASE v.volume \in {"EncryptionInProgress", "EncryptionPaused"} -> "WARNING"
      [] v.volume \in {"DecryptionInProgress", "DecryptionPaused"} -> "FAIL"
      [] OTHER ->
           CASE v.protection = "On" ->
                    IF v.volume = "FullyEncrypted" /\ v.progress >= 100 /\ v.protectors > 0
                    THEN "PASS" ELSE "WARNING"
             [] v.protection = "Off" -> "FAIL"
             [] OTHER -> "WARNING"

\* _check_windows_update, by the days since the last patch.
WindowsUpdate(days) ==
    IF days = Unread THEN "FAIL" ELSE IF days <= 30 THEN "PASS" ELSE IF days <= 90 THEN "WARNING" ELSE "FAIL"

\* _get_service_status: absent, denied and failed are alike.
Service(s, state) ==
    IF state = Unread THEN "FAIL" ELSE IF state = Expected(s) THEN "PASS" ELSE "WARNING"

\* _evaluate_check: of SMBv1, what cannot be read is taken to be removed.
Registry(key, value) ==
    IF value = Unread THEN IF key = "SMBv1" THEN "PASS" ELSE "FAIL"
    ELSE IF value = "expected" THEN "PASS" ELSE "FAIL"

\* _check_computer_name_serial, _check_timezone, _check_sentinelone,
\* _check_wifi_profiles: what cannot be read is a warning.
Setup(value) ==
    IF value \in {Unread, "suffixed"} THEN "WARNING" ELSE IF value = "expected" THEN "PASS" ELSE "FAIL"

\* _check_appx_uninstalled: no answer and no package are the same empty text.
AppxUninstalled(value) == IF value = "installed" THEN "FAIL" ELSE "PASS"

\* get_security_info, get_services_info, get_registry_info, get_setup_verify_info.
Status(m, check) ==
    CASE check = "firewall" -> Firewall(m.firewall)
      [] check = "defender" -> Defender(m.defender)
      [] check = "bitlocker" -> BitLocker(m.bitlocker)
      [] check = "windows_update" -> WindowsUpdate(m.windows_update)
      [] check \in Services -> Service(check, m.services[check])
      [] check \in RegistryKeys -> Registry(check, m.registry[check])
      [] check \in {"new_outlook", "xbox"} -> AppxUninstalled(m.setup[check])
      [] check \in SetupChecks \ {"new_outlook", "xbox"} -> Setup(m.setup[check])
      [] OTHER -> "WARNING"

-----------------------------------------------------------------------------
Count(m, checks, status) == Cardinality({c \in checks : Status(m, c) = status})

\* _score_statuses, in points of SCORE_MAP.
Earned(m, checks) == 100 * Count(m, checks, "PASS") + 50 * Count(m, checks, "WARNING")

\* round(): to the nearest integer, a half to the even one.
Round(a, b) ==
    LET q == a \div b
        r == a % b IN
    IF 2 * r > b \/ (2 * r = b /\ q % 2 = 1) THEN q + 1 ELSE q

Score(m) == Round(Earned(m, Checks), Cardinality(Checks))

\* calculate_compliance.
Verdict(m) == IF Score(m) >= 80 THEN "Compliant" ELSE "Non-Compliant"

\* What could be read, by the reader: an exit code, a timeout, an access denied or
\* a value that is not there leaves nothing.
ReadSecurity(m) == {c \in SecurityChecks : m[c] # Unread}
ReadServices(m) == {c \in Services : m.services[c] # Unread}
ReadRegistry(m) == {c \in RegistryKeys : m.registry[c] # Unread}
ReadSetup(m) == {c \in SetupChecks : m.setup[c] # Unread}

\* The checks that read what they report on.
Seen(m) == ReadSecurity(m) \cup ReadServices(m) \cup ReadRegistry(m) \cup ReadSetup(m)

-----------------------------------------------------------------------------
\* Get-PlanDecision of the remediation assistant.
Plan(v) ==
    IF v = Unread THEN "UNKNOWN" ELSE
    CASE v.volume \in {"EncryptionInProgress", "EncryptionPaused", "DecryptionInProgress", "DecryptionPaused"} ->
            "IN_PROGRESS"
      [] OTHER ->
           CASE v.volume = "FullyEncrypted" /\ v.protection \in {"On", "Off"} ->
                    IF v.protectors = 0 THEN "BLOCKED"
                    ELSE IF v.protection = "On" THEN "COMPLIANT" ELSE "RESUME_PROTECTION"
             [] v.volume # "FullyEncrypted" /\ v.protection = "On" -> "IN_PROGRESS"
             [] v.volume = "FullyDecrypted" /\ v.protection = "Off" -> "ACTION_REQUIRED"
             [] OTHER -> "UNKNOWN"
=================================================================================
