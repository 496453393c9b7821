---------------------------- MODULE EvidenceBundleMC ----------------------------
EXTENDS EvidenceBundle

Plain0 == [len |-> 2, at |-> Untimed, clock |-> "", sessions |-> {}, ops |-> {}, marks |-> {}]

At(line, clock, at) == [line EXCEPT !.clock = clock, !.at = at]

Marked(marks) == [Plain0 EXCEPT !.marks = marks]

Warn == Marked({"warn_word"})

Fail(marks) == Marked({"failure_word"} \cup marks)

Doing(op, job) == [Plain0 EXCEPT !.ops = op, !.sessions = {<<"jobid", j>> : j \in job}]

F0 == [name |-> 1, allowed |-> TRUE, html |-> FALSE, bytes |-> 2, legible |-> TRUE,
       text |-> <<Plain0>>, shape |-> "",
       ids |-> [k \in IdKeys |-> ""],
       paths |-> {"log"}, signatures |-> {}]

\* Three files of one virtual machine on one clock, of which the first and the
\* last are too far apart; one on another clock; one of a job session; others.
Early == [F0 EXCEPT !.ids["vm"] = "vm1", !.paths = {"disk", "log"},
                    !.text = <<At(Fail({"cbt", "vmware"}), "local", 11), At(Warn, "local", 12)>>]
Middle == [F0 EXCEPT !.name = 2, !.ids["vm"] = "vm1",
                     !.text = <<At(Fail({"revert", "helper"}), "local", 14), Warn,
                                At(Fail({"missing"}), "local", 18)>>]
Late == [F0 EXCEPT !.name = 3, !.ids["vm"] = "vm1", !.signatures = {"sig"},
                   !.text = <<At(Fail({"jobtype", "veeam"}), "local", 21), At(Fail({"cbt"}), "local", 22)>>]
Utc == [F0 EXCEPT !.name = 4, !.paths = {"disk"}, !.signatures = {"sig"},
                  !.text = <<At(Fail({"cbt", "invalid", "missing"}), "utc", 13), At(Warn, "utc", 12)>>]
Job == [F0 EXCEPT !.name = 5, !.ids["jobid"] = "j1", !.signatures = {"sig"},
                  !.text = <<At(Doing({"revert"}, {"j1"}), "local", 15), Fail({"cbt", "hostd"}),
                             At(Doing({"delete"}, {}), "local", 16)>>]
Twin == [Job EXCEPT !.name = 2, !.ids["vm"] = "vm1", !.text = <<At(Warn, "utc", 13)>>]
Big == [F0 EXCEPT !.name = 6, !.bytes = 9, !.shape = "object"]

Huge == [F0 EXCEPT !.name = 7, !.bytes = 11]
Binary == [F0 EXCEPT !.name = 7, !.allowed = FALSE]
Garbled == [F0 EXCEPT !.name = 7, !.legible = FALSE]

Several == {<<>>} \cup UNION {[1 .. n -> {Early, Middle, Late, Utc, Job, Twin, Big}] : n \in 1 .. 3}

Odd == {<<Huge>>, <<Binary>>, <<Early, Garbled>>, <<Big, Big, Big>>, <<Big, Early, Early, Early>>}

\* Texts for compaction and diagnosis, and for the operations in one file.
Kinds == {Plain0, [Fail({"cbt", "veeam"}) EXCEPT !.len = 3], [Marked({"revert"}) EXCEPT !.len = 5]}

Words == {Marked({"jobtype"}), Marked({"veeam", "invalid"}), Fail({"session_failed", "missing"}),
          Marked({"helper"}), Fail({"cbt", "syslog"}), Marked({"event_id", "field", "bad_config"})}

Levels == {Marked({"failure_word", "noise"}), Marked({"warning_level", "failure_word"}), Marked({"config", "cbt"}),
           Marked({"finished"}), Marked({"info_level", "failure_word"}), Marked({"error_level"})}

Steps == {At(Doing({"revert"}, {"j1"}), "local", 11), At(Doing({"create"}, {"j1"}), "local", 14),
          Doing({"create", "revert"}, {"j2"}), At(Plain0, "utc", 12), At(Plain0, "local", 9), Plain0}

Single1(texts) == {<<[F0 EXCEPT !.text = t]>> : t \in texts}

TextsOf(kinds, n) == UNION {[1 .. k -> kinds] : k \in 1 .. n}

MCOffers == Several \cup Odd
              \cup Single1(TextsOf(Kinds, 7)) \cup Single1(TextsOf(Words, 3)) \cup Single1(TextsOf(Levels, 2)) \cup Single1(TextsOf(Steps, 4))

MCAnchors == [c \in {Chain, CbtDelete, FileMissing, SessionFailed} |->
                IF c = SessionFailed THEN {} ELSE {"cbt", "invalid", "missing", "revert"}]

MCCodeOrder == <<Chain, SessionFailed, CbtDelete, FileMissing>>

MCArtifacts == {"log"}
=================================================================================
