----------------------------- MODULE SourceParsing -----------------------------
(***************************************************************************)
(* How the analyzer decides what a text is: the source family, then the    *)
(* parser of that family, then the diagnostic code of a vendor's text.     *)
(* A text is given by the markers its lines carry, its shape as JSON and   *)
(* the name of its file.                                                   *)
(***************************************************************************)
EXTENDS LogText

CONSTANT Anchors    \* per code, the markers around which windows are cut: _ANCHOR_RES

\* The markers counted for Veeam and for VMware; a signature may be one of them.
VeeamMarkers == {"jobtype", "veeam_mp", "helper", "revert", "session_failed"}
VmwareMarkers == {"hostd", "cbt", "invalid"}

\* Whole-text shapes: an object, a list whose first element is one, other JSON
\* (an empty list, a list of numbers), or no JSON at all.
Shapes == {"object", "objects", "other", ""}

MarksOf(text) == UNION {text[i].marks : i \in DOMAIN text}

Hits(marks, markers) == Cardinality(marks \cap markers)

\* _has_windows_evidence.  The XML patterns are looked up as plain substrings,
\* so of an event's XML only the <EventID element counts.
WindowsEvidence(marks) ==
    \/ "xml_eventid" \in marks
    \/ {"event_id", "event_id_eq"} \cap marks # {} /\ "field" \in marks

IsVeeam(marks, html) ==
    \/ Hits(marks, VeeamMarkers) >= 2
    \/ Hits(marks, VeeamMarkers) = 1 /\ ({"veeam", "veeam_mp"} \cap marks # {} \/ html)

IsVmware(marks) ==
    \/ Hits(marks, VmwareMarkers) >= 2
    \/ Hits(marks, VmwareMarkers) = 1 /\ {"vmware", "esxi"} \cap marks # {}

\* classify_source: Veeam before VMware, whose interfaces Veeam's logs quote.
Classify(marks, shape, html) ==
    CASE shape # "" -> "json"
      [] shape = "" /\ IsVeeam(marks, html) -> "veeam_vbr"
      [] shape = "" /\ ~IsVeeam(marks, html) /\ IsVmware(marks) -> "vmware"
      [] OTHER ->
           CASE "fortinet" \in marks -> "fortinet"
             [] "fortinet" \notin marks /\ "cisco" \in marks -> "cisco_asa"
             [] {"fortinet", "cisco"} \cap marks = {} /\ "syslog" \in marks -> "linux_syslog"
             [] OTHER -> IF WindowsEvidence(marks) THEN "windows_event" ELSE "unknown_text"

Chain == "VEEAM-REPLICA-SNAPSHOT-CHAIN"
CbtDelete == "VMWARE-CBT-DELETE-FAILED"
FileMissing == "VMWARE-SNAPSHOT-FILE-MISSING"
SessionFailed == "VEEAM-SESSION-FAILED"

HasChain(marks) ==
    /\ {"revert", "helper", "bad_config"} \cap marks # {}
    /\ {"invalid", "missing", "bad_config"} \cap marks # {}

HasFileMissing(marks) == {"invalid", "missing"} \subseteq marks

\* resolve_vendor_diagnostic.
Resolve(marks, family) ==
    IF family \notin {"veeam_vbr", "vmware"} THEN ""
    ELSE IF family = "veeam_vbr" /\ HasChain(marks) THEN Chain
    ELSE IF "cbt" \in marks THEN CbtDelete
    ELSE IF HasFileMissing(marks) THEN FileMissing
    ELSE IF family = "veeam_vbr" /\ "session_failed" \in marks THEN SessionFailed ELSE ""

Vendor(text, family) ==
    LET code == Resolve(MarksOf(text), family) IN
    [family |-> family, code |-> code,
     event |-> IF code # "" THEN code
               ELSE IF family = "veeam_vbr" THEN "VEEAM-UNKNOWN" ELSE "VMWARE-UNKNOWN"]

Plain(family, event) == [family |-> family, code |-> "", event |-> event]

\* Of the two ways of writing an event's number that count as Windows evidence
\* the field matcher reads one.
ParseWindows(marks) == Plain("windows_event", IF "event_id" \in marks THEN "number" ELSE "Unknown")

ParseFortinet(marks) == Plain("fortinet", IF "logid" \in marks THEN "logid" ELSE "Fortinet")

ParseCisco(marks) == Plain("cisco_asa", IF "asa_id" \in marks THEN "asa_id" ELSE "Unknown")

\* A failed password is looked for before the other phrases.
ParseSyslog(marks) ==
    Plain("linux_syslog", IF "auth_fail" \in marks THEN "AUTH-FAIL"
                          ELSE IF "panic" \in marks THEN "PANIC" ELSE "SYSLOG")

ParseJson(marks) == Plain("json", IF "event_id" \in marks THEN "number" ELSE "JSON-LOG")

Unknown == Plain("unknown_text", "Unknown")

\* parse_event_metadata: whatever has no parser of its own is unknown, never Windows.
Parse(text, shape, html) ==
    LET marks == MarksOf(text)
        family == Classify(marks, shape, html) IN
    CASE text = <<>> -> Unknown
      [] text # <<>> /\ shape \in {"object", "objects"} -> ParseJson(marks)
      [] text # <<>> /\ family \in {"veeam_vbr", "vmware"} -> Vendor(text, family)
      [] text # <<>> /\ family = "fortinet" -> ParseFortinet(marks)
      [] text # <<>> /\ family = "cisco_asa" -> ParseCisco(marks)
      [] text # <<>> /\ family = "linux_syslog" -> ParseSyslog(marks)
      [] text # <<>> /\ family = "windows_event" -> ParseWindows(marks)
      [] OTHER -> Unknown
================================================================================
