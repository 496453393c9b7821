----------------------------- MODULE KnowledgeBase -----------------------------
(***************************************************************************)
(* The analyzer's memory: analysis_history, what was answered to whom and  *)
(* how it was rated, and ai_knowledge, the solutions that later answers    *)
(* may reuse.  An analysis searches the knowledge, commits its history     *)
(* entry, then exports its solution with score 0; a vote commits to the    *)
(* history, then to the knowledge.  Each export looks its row up, waits    *)
(* for an embedding and writes: nothing but the look-up keeps a text from  *)
(* being stored twice, and two sessions may hold the same row.             *)
(*                                                                         *)
(* A source is a text together with what parse_event_metadata makes of it. *)
(* A solution is the set of what contributed to it: sources, by what the   *)
(* model, a search or a user said about them, and the articles that the    *)
(* analyzer brings along.                                                  *)
(***************************************************************************)
EXTENDS Integers, Sequences, FiniteSets

CONSTANTS Sources,     \* records [event, text, code, family]
          Imported,    \* those that come from a USB report: no family, no export
          Catalogue,   \* the keys of EVENT_KNOWLEDGE
          VendorArticles, \* the codes _vendor_entry has an article for
          Close,       \* pairs of texts within CROSS_IDENTITY_MAX_DISTANCE
          Numeric,     \* identifiers that are digits only
          VendorCodes, \* VENDOR_DIAGNOSTIC_CODES
          Sessions,    \* requests in progress at a time
          Faults,      \* whether the database and the embedding may fail
          MaxEntries,  \* bound: analyses
          MaxVotes     \* bound: votes

Strict == {"cisco_asa", "fortinet", "linux_syslog", "json"}
Vendor == {"veeam_vbr", "vmware"}
Windows == "windows_event"
Families == Strict \cup Vendor \cup {Windows, "unknown_text", ""}

\* get_curated_summary: the DCOM errors have one entry.
CatalogueKey(event) == IF event \in {"10005", "10009", "10028"} THEN "10016" ELSE event

ASSUME SourcesAssumption ==
    /\ Sources # {} /\ \A s \in Sources : s.family \in Families
    /\ Imported \subseteq Sources
    /\ \A s \in Sources : s.family = "" <=> s \in Imported
    /\ \A s \in Imported : s.event \in Numeric /\ s.code = ""
    /\ \A s \in Sources : s.code \in {"", s.event}  \* parse_veeam, parse_vmware
    /\ \A s \in Sources : s.code # "" => s.family \in Vendor
    /\ \A s \in Sources : s.family \in Vendor => CatalogueKey(s.event) \notin Catalogue
    /\ VendorArticles \subseteq VendorCodes /\ VendorCodes \cap (Catalogue \cup {""}) = {}
    /\ Numeric \cap (VendorCodes \cup {"", "Unknown"}) = {}
ASSUME BoundsAssumption == Faults \in BOOLEAN /\ MaxEntries \in Nat /\ MaxVotes \in Nat

VARIABLES history,    \* analysis_history
          knowledge,  \* ai_knowledge
          job,        \* the sessions
          praised,    \* history variable: sources with a positive vote
          votes

vars == <<history, knowledge, job, praised, votes>>

-----------------------------------------------------------------------------
Key(s) == <<s.event, s.text>>

\* diagnostic_identity: the vendor code, or the event.
Identity(s) == IF s.code # "" THEN s.code ELSE s.event

\* build_summary takes a missing family for Windows.
Family(s) == IF s.family = "" THEN Windows ELSE s.family

\* An article is named by its key.  The catalogue is one of Windows events; a
\* vendor code has one article, whichever product reported it.
Article(key) == [event |-> key, text |-> "article", code |-> "",
                 family |-> IF key \in VendorArticles THEN "vendor" ELSE Windows]

Contributions == Sources \cup {Article(key) : key \in Catalogue \cup VendorArticles}

Score == {-1, 0, 1}

\* source carries event_id, description and the _knowledge marker; seen is how
\* many rows there were when the look-up that preceded the insertion ran.
Row == [source : Sources, solution : SUBSET Contributions, score : Score, seen : Nat]

Entry == [source : Sources, solution : SUBSET Contributions, score : Score, live : BOOLEAN]

\* row, read: the row the look-up found (0: none), and what it held then.
Job == [step : {"idle", "commit", "lookup", "write"}, source : Sources,
        solution : SUBSET Contributions, vote : Score, row : Nat, read : Row, seen : Nat]

NoSource == CHOOSE s \in Sources : TRUE

NoRow == [source |-> NoSource, solution |-> {}, score |-> 0, seen |-> 0]

NoJob == [step |-> "idle", source |-> NoSource, solution |-> {}, vote |-> 0,
          row |-> 0, read |-> NoRow, seen |-> 0]

Idle(p) == [job EXCEPT ![p] = NoJob]

Init ==
    /\ history = <<>> /\ knowledge = <<>> /\ praised = {} /\ votes = 0
    /\ job = [p \in Sessions |-> NoJob]

-----------------------------------------------------------------------------
IsVendor(family, identity) == family \in Vendor \/ identity \in VendorCodes

\* Mutant: a score of 0 is enough.
Unverified(row, s) == row.score >= 0 /\ <<row.source.text, s.text>> \in Close

\* score > 0 and distance <= max_distance.
Verified(row, s) == row.score > 0 /\ <<row.source.text, s.text>> \in Close

\* Mutant: a row without a family marker answers any family.
UsableUnmarked(row, s) ==
    /\ row.score >= 0 /\ Family(s) # "unknown_text"
    /\ row.source.family = "" \/ row.source.family = Family(s)
    /\ \/ Identity(s) # "Unknown" /\ Identity(row.source) = Identity(s)
       \/ Verified(row, s)

\* _is_usable_knowledge_row.
Usable(row, s) ==
    LET mine == Family(s)
        its == row.source.family
        same == Identity(s) # "Unknown" /\ Identity(row.source) = Identity(s) IN
    /\ row.score >= 0 /\ mine # "unknown_text"
    /\ IF IsVendor(mine, Identity(s))
       THEN /\ IsVendor(its, Identity(row.source))
            /\ its \in {"", mine} /\ Identity(row.source) = Identity(s)
       ELSE /\ ~IsVendor(its, Identity(row.source))
            /\ mine \in Strict => its = mine
            /\ its = "" /\ row.source.event \in Numeric => mine = Windows
            /\ mine = Windows => its \in {"", Windows}
            /\ same \/ Verified(row, s)

\* What the query of search_similar_logs selects: the same event, unless the
\* source has none.
Selected(row, s) ==
    IF s.code \in VendorCodes THEN row.source.event = s.code
    ELSE s.event # "Unknown" => row.source.event = s.event

\* The rows search_similar_logs may return.
Found(s) == {i \in DOMAIN knowledge : Selected(knowledge[i], s) /\ Usable(knowledge[i], s)}

\* The best score comes first; which of those is closest is left open.
Best(rows) == {i \in rows : \A k \in rows : knowledge[k].score <= knowledge[i].score}

\* What it returns first, and the two that a language model is shown (top_k).
Similar(s) == {knowledge[i].solution : i \in Best(Found(s))}

Shown(s) ==
    UNION {{knowledge[i].solution \cup knowledge[k].solution :
               k \in IF Found(s) = {i} THEN {i} ELSE Best(Found(s) \ {i})} : i \in Best(Found(s))}

\* The articles are taken by code or number alone, whatever the family.
Curated(s) ==
    IF s.code \in VendorArticles THEN {Article(s.code)}
    ELSE {Article(key) : key \in Catalogue \cap {CatalogueKey(s.event)}}

\* build_summary.  A language model is shown what was found and answers for
\* this source; without one the first solution found is the answer, word for
\* word; when nothing was found, or the search failed, the web search answers.
Answers(s) ==
    IF Curated(s) # {} THEN {Curated(s)}
    ELSE {{s} \cup x : x \in Shown(s)} \cup Similar(s) \cup
         (IF Found(s) = {} \/ Faults THEN {{s}} ELSE {})

-----------------------------------------------------------------------------
\* submit_analysis, and _analyze_event for an imported event.
Analyze(p, s) ==
    /\ job[p].step = "idle" /\ Len(history) < MaxEntries
    /\ \E x \in Answers(s) :
          job' = [job EXCEPT ![p].step = "commit", ![p].source = s,
                             ![p].solution = x, ![p].vote = 0]
    /\ UNCHANGED <<history, knowledge, praised, votes>>

\* The entry is committed; an imported event is not exported.
Commit(p) ==
    LET q == job[p] IN
    /\ q.step = "commit" /\ Len(history) < MaxEntries
    /\ history' = Append(history, [source |-> q.source, solution |-> q.solution,
                                   score |-> 0, live |-> TRUE])
    /\ job' = IF q.source \in Imported THEN Idle(p) ELSE [job EXCEPT ![p].step = "lookup"]
    /\ UNCHANGED <<knowledge, praised, votes>>

\* The votes: both set the score and commit, then may go on to the knowledge.
Vote(p, i, score, solution, sync) ==
    LET e == history[i] IN
    /\ job[p].step = "idle" /\ e.live /\ votes < MaxVotes
    /\ votes' = votes + 1
    /\ history' = [history EXCEPT ![i].score = score, ![i].solution = solution]
    /\ praised' = IF score > 0 THEN praised \cup {e.source} ELSE praised
    /\ job' = IF sync
              THEN [job EXCEPT ![p].step = "lookup", ![p].source = e.source,
                               ![p].solution = solution, ![p].vote = score]
              ELSE job
    /\ UNCHANGED knowledge

\* POST /analyzer/history/{id}/feedback.
SubmitFeedback(p, i) ==
    \E score \in {-1, 1} : Vote(p, i, score, history[i].solution, TRUE)

\* POST /analyzer/feedback: may correct the solution; a negative vote stays in
\* the history.
Feedback(p, i) ==
    \E score \in {-1, 1}, solution \in {history[i].solution, {history[i].source}} :
        Vote(p, i, score, solution, score > 0)

DeleteHistory(i) ==
    /\ history[i].live
    /\ history' = [history EXCEPT ![i].live = FALSE]
    /\ UNCHANGED <<knowledge, job, praised, votes>>

-----------------------------------------------------------------------------
\* Mutant: the marker is part of the identity of a row.
ExactInFamily(p) ==
    {i \in DOMAIN knowledge : /\ Key(knowledge[i].source) = Key(job[p].source)
                              /\ knowledge[i].source.family = job[p].source.family}

Exact(p) == {i \in DOMAIN knowledge : Key(knowledge[i].source) = Key(job[p].source)}

\* Without a row a negative vote has nothing to quarantine.
Missed(p, seen) ==
    job' = IF job[p].vote < 0 THEN Idle(p)
           ELSE [job EXCEPT ![p].step = "write", ![p].seen = seen]

\* add_solution looks the exact row up.
Lookup(p) ==
    /\ job[p].step = "lookup" /\ Exact(p) = {}
    /\ Missed(p, Len(knowledge))
    /\ UNCHANGED <<history, knowledge, praised, votes>>

\* Of several, .first() takes any.
LookupHits(p) ==
    /\ job[p].step = "lookup"
    /\ \E i \in Exact(p) :
          job' = [job EXCEPT ![p].step = "write", ![p].row = i, ![p].read = knowledge[i]]
    /\ UNCHANGED <<history, knowledge, praised, votes>>

LookupFails(p) ==
    /\ job[p].step = "lookup" /\ Faults
    /\ Missed(p, 0)
    /\ UNCHANGED <<history, knowledge, praised, votes>>

Insert(p) ==
    LET q == job[p] IN
    /\ q.step = "write" /\ q.row = 0
    /\ knowledge' = Append(knowledge, [source |-> q.source, solution |-> q.solution,
                                       score |-> q.vote, seen |-> q.seen])
    /\ job' = Idle(p)
    /\ UNCHANGED <<history, praised, votes>>

\* The UPDATE names the columns whose value differs from what was read;
\* solution_json holds the solution and the marker.
Update(p) ==
    LET q == job[p]
        row == knowledge[q.row]
        fresh == q.solution # q.read.solution \/ q.source # q.read.source IN
    /\ q.step = "write" /\ q.row # 0
    /\ knowledge' = [knowledge EXCEPT ![q.row] =
          [row EXCEPT !.score = IF q.vote # q.read.score THEN q.vote ELSE @,
                      !.solution = IF fresh THEN q.solution ELSE @,
                      !.source = IF fresh THEN q.source ELSE @]]
    /\ job' = Idle(p)
    /\ UNCHANGED <<history, praised, votes>>

\* The commit of the entry fails, no embedding is made, the write is rolled
\* back, or the request ends.
GiveUp(p) ==
    /\ Faults /\ job[p].step \in {"commit", "write"}
    /\ job' = Idle(p)
    /\ UNCHANGED <<history, knowledge, praised, votes>>

Next ==
    \/ \E p \in Sessions :
          \/ \E s \in Sources : Analyze(p, s)
          \/ \E i \in DOMAIN history : SubmitFeedback(p, i) \/ Feedback(p, i)
          \/ Commit(p) \/ Lookup(p) \/ LookupHits(p) \/ LookupFails(p)
          \/ Insert(p) \/ Update(p) \/ GiveUp(p)
    \/ \E i \in DOMAIN history : DeleteHistory(i)

Spec == Init /\ [][Next]_vars

-----------------------------------------------------------------------------
\* The tables hold what the schema says, and a session writes to a row that
\* was stored for its own event and text.
TypeOK ==
    /\ history \in Seq(Entry) /\ Len(history) <= MaxEntries
    /\ knowledge \in Seq(Row)
    /\ job \in [Sessions -> Job]
    /\ \A p \in Sessions :
          job[p].step = "write" /\ job[p].row # 0 =>
             /\ job[p].row \in DOMAIN knowledge
             /\ Key(knowledge[job[p].row].source) = Key(job[p].source)
    /\ praised \subseteq Sources /\ votes \in 0 .. MaxVotes

\* Some source of the family is answered by the article.
Asked(family, a) == \E b \in Sources : Family(b) = family /\ a \in Curated(b)

\* Veeam and VMware get nothing about Windows, and Windows nothing else.
InFamily(source, a) ==
    /\ Family(a) = Family(source) \/ Asked(Family(source), a)
    /\ Family(source) \in Vendor => Family(a) # Windows
    /\ Family(source) = Windows => Family(a) = Windows

OwnFamily(source, solution) == \A a \in solution : InFamily(source, a)

\* Whatever is answered, stored or about to be stored for a source was found
\* out about sources of its family, or is an article on a number of its
\* family, through any chain of reuse.  So "Windows solutions can never answer
\* Veeam/VMware and vice versa" (vector_db.py:215); for the other families
\* see FamiliesApart.
FamilyIsolation ==
    /\ \A i \in DOMAIN history : OwnFamily(history[i].source, history[i].solution)
    /\ \A i \in DOMAIN knowledge : OwnFamily(knowledge[i].source, knowledge[i].solution)
    /\ \A p \in Sessions : job[p].step # "idle" => OwnFamily(job[p].source, job[p].solution)

\* Refuted: nothing about Windows answers another family ("JSON -> json only",
\* vector_db.py:219).  The guardrails see to it for what is reused; but the
\* catalogue of Windows events is asked before, by number alone.
FamiliesApart ==
    \A i \in DOMAIN history : \A a \in history[i].solution :
        Family(a) = Windows => Family(history[i].source) = Windows

\* The source's own identity, or the entry the catalogue has for it.
About(a, s) == Identity(a) \in {Identity(s), CatalogueKey(Identity(s))}

Travelled(source, solution) ==
    \E a \in solution : ~About(a, source) /\ \A v \in praised : ~About(a, v)

\* A solution reaches a source with another diagnostic identity only if a
\* user praised an analysis of the identity it comes from, however often it
\* was passed on (cross-identity reuse, vector_db.py).  An article comes from
\* every identity it is kept for.
TravelsOnlyPraised ==
    /\ \A i \in DOMAIN history : ~Travelled(history[i].source, history[i].solution)
    /\ \A i \in DOMAIN knowledge : ~Travelled(knowledge[i].source, knowledge[i].solution)

\* Two rows for one event and text were inserted by sessions that overlapped,
\* or after a look-up that failed: the later one did not see the earlier.
OnlyOverlapsDuplicate ==
    \A i, k \in DOMAIN knowledge :
        i < k /\ Key(knowledge[i].source) = Key(knowledge[k].source) => knowledge[k].seen < i

\* vector_db.py:128: "Negative feedback no longer vanishes: the exact existing
\* row is updated/quarantined with the negative score so retrieval guardrails
\* exclude it."  It stays so until a user praises an analysis of the text.
QuarantineLasts ==
    [][\A i \in DOMAIN knowledge :
          knowledge[i].score < 0 /\ knowledge'[i].score >= 0 =>
             \E v \in praised : Key(v) = Key(knowledge[i].source)]_vars

=============================================================================
