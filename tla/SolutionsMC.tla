------------------------------ MODULE SolutionsMC ------------------------------
EXTENDS Solutions

Says(marks) == [len |-> 2, at |-> Untimed, clock |-> "", sessions |-> {}, ops |-> {}, marks |-> marks]

Doing(op, marks) == [Says(marks) EXCEPT !.ops = {op}]

When(t, line) == [line EXCEPT !.at = t, !.clock = "local"]

Nothing == Says({})

\* A revert that fails, in one operation and in two; a deletion before a revert
\* that fails; a snapshot's creation; a move by hand; one operation that drifts.
Texts0 ==
    {<<Doing("revert", {"revert"}), Says({"missing", "invalid"})>>,
     <<Doing("revert", {"revert"}), Doing("create", {"create"}), Says({"missing", "invalid"})>>,
     <<Doing("delete", {"delete", "snapshot"}), Doing("revert", {"revert", "snapshot"}), Says({"missing"})>>,
     <<Doing("delete", {"delete", "snapshot"}), Nothing, Says({"missing"}), Says({"invalid"})>>,
     <<Doing("create", {"create"}), Nothing, Nothing, Says({"invalid"})>>,
     <<Says({"missing", "mismatch"}), Says({"vvol", "missing", "invalid"})>>,
     <<When(11, Says({"missing"})), When(13, Nothing), When(15, Says({"invalid"}))>>}

Environments ==
    {<<Says({"vsan", "esa"}), Nothing, Nothing, Nothing, Says({"cbt", "lock"})>>,
     <<Says({"vsan"}), Says({"cbt"}), Says({"esa"})>>,
     <<Nothing, Says({"session_failed"})>>}

Log(text) == <<[file |-> 1, text |-> text]>>

Pair(a, b) == <<[file |-> 1, text |-> a], [file |-> 2, text |-> b]>>

Request(family, code, evidence, curated) ==
    [family |-> family, code |-> code, evidence |-> evidence, curated |-> curated]

MCRequests ==
    {Request("vmware", FileMissing, Log(t), FALSE) : t \in Texts0}
      \cup {Request("vmware", CbtDelete, Log(t), FALSE) : t \in Environments}
      \cup {Request("vmware", FileMissing, Pair(<<Doing("revert", {"revert"})>>, <<Says({"missing", "invalid"})>>), FALSE),
            Request("veeam_vbr", Chain, Pair(<<Says({"revert", "missing", "invalid"})>>,
                                             <<Says({"missing", "delete", "snapshot", "create", "invalid"})>>), FALSE)}
      \cup {Request(f, "", Log(<<Says({"failure_word"})>>), FALSE) : f \in {"vmware", "linux_syslog", "unknown_text"}}
      \cup {Request("veeam_vbr", SessionFailed, Log(<<Nothing>>), FALSE),
            Request("windows_event", "", Log(<<Nothing>>), TRUE),
            Request("windows_event", "", Log(<<Nothing>>), FALSE)}

MCAnchors ==
    [c \in {"", Chain, CbtDelete, FileMissing, SessionFailed} |->
        CASE c = CbtDelete -> {"cbt"}
          [] c = FileMissing -> {"missing", "invalid", "revert", "create", "delete", "manual", "vvol", "vsan"}
          [] c = Chain -> {"missing", "invalid", "revert", "cbt", "helper", "vvol", "vsan"}
          [] OTHER -> {}]

Page(url, kind) == [url |-> url, kind |-> kind]

\* One of them is an article's own page, one a starting point.
MCPages == {Page("docs", "official"), Page("a424591", "official"), Page("root", "official"),
            Page("forum", "community"), Page("blog", "other")}

MCStarting ==
    [f \in {"vmware", "veeam_vbr", "windows_event", "linux_syslog"} |->
        CASE f = "linux_syslog" -> <<>>
          [] f = "vmware" -> <<Page("root", "start")>>
          [] OTHER -> <<Page("root", "start"), Page("help", "start")>>]

MCTiers == [f \in DOMAIN MCStarting |-> IF f = "linux_syslog" THEN 0 ELSE 2]
================================================================================
