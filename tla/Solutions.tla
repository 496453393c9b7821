-------------------------------- MODULE Solutions --------------------------------
(***************************************************************************)
(* From a diagnosis to an answer: the vendor's articles whose conditions   *)
(* the evidence meets, then what a web search finds, then fixed starting   *)
(* points, three references in all; and the summary, by the first of five  *)
(* sources that yields one.                                                *)
(*                                                                         *)
(* The evidence handed over is not the log but windows cut out of its      *)
(* operations, and each article is tested on windows cut out of those.     *)
(***************************************************************************)
EXTENDS SourceParsing

CONSTANTS Requests,        \* records [family, code, evidence, curated]
          Pages,           \* what the web may return: [url, kind]
          Starting,        \* per family, the fixed starting points
          Tiers,           \* per family, how many site-restricted searches
          WebLimit, HitLimit, ResultLimit

\* What is told apart by its address is given once; two addresses are one if they
\* are to _canonical_url.
WebPage == [url : STRING, kind : STRING]

GivenOnce(pages) == \A i, j \in DOMAIN pages : pages[i].url = pages[j].url => i = j

\* A code is resolved of two families' texts only; a required file that is missing
\* and an invalid snapshot open a window for either code they lead to. The starting
\* points are fixed lists.
ASSUME SolutionsAssumption ==
    /\ Requests \subseteq [family : STRING, code : STRING, curated : BOOLEAN,
                          evidence : Seq([file : Nat, text : Seq(Line)])]
    /\ \A r \in Requests : r.code \in {Chain, CbtDelete, FileMissing} => r.family \in {"veeam_vbr", "vmware"}
    /\ {"missing", "invalid"} \subseteq Anchors[FileMissing] \cap Anchors[Chain]
    /\ Pages \subseteq WebPage /\ {WebLimit, HitLimit, ResultLimit} \subseteq Nat
    /\ \A r \in Requests : r.family # "unknown_text" =>
          Starting[r.family] \in Seq(WebPage) /\ GivenOnce(Starting[r.family]) /\ Tiers[r.family] \in 0 .. 3

\* An article: the codes it may answer; whether it is about an operation or about
\* the environment, and the anchors of its windows; the marks it asks for, all of
\* the ones and some of the others.
Articles ==
    [a424591 |-> [codes |-> {FileMissing, Chain}, operation |-> TRUE, anchors |-> {"missing", "invalid", "revert"},
                  all |-> {"revert", "missing", "invalid"}, some |-> {}],
     a418256 |-> [codes |-> {CbtDelete}, operation |-> FALSE, anchors |-> {},
                  all |-> {}, some |-> {"cbt", "missing", "lock"}],
     a442155 |-> [codes |-> {CbtDelete, FileMissing}, operation |-> FALSE, anchors |-> {},
                  all |-> {"vsan", "esa"}, some |-> {}],
     a411756 |-> [codes |-> {CbtDelete, FileMissing}, operation |-> FALSE, anchors |-> {},
                  all |-> {"vvol"}, some |-> {}],
     a318905 |-> [codes |-> {FileMissing, Chain}, operation |-> TRUE, anchors |-> {"invalid", "create"},
                  all |-> {"invalid", "create"}, some |-> {}],
     a450780 |-> [codes |-> {FileMissing, Chain}, operation |-> TRUE, anchors |-> {"missing", "delete", "snapshot"},
                  all |-> {"snapshot", "delete", "missing"}, some |-> {}],
     a452165 |-> [codes |-> {FileMissing, Chain}, operation |-> TRUE, anchors |-> {"missing", "manual", "mismatch"},
                  all |-> {"missing"}, some |-> {"manual", "mismatch"}]]

ArticleOrder == <<"a424591", "a418256", "a442155", "a411756", "a318905", "a450780", "a452165">>

ArticlePage(id) == [url |-> id, kind |-> "article"]

VARIABLES stage, request, tier, kb, web, seen, results, summary

solution == <<stage, request, tier, kb, web, seen, results, summary>>

NoSummary == [by |-> "", family |-> "", causes |-> 0, steps |-> 0, names |-> {}]

-----------------------------------------------------------------------------
\* _article_applies, the condition on the text.
Gate(id, marks) ==
    /\ Articles[id].all \subseteq marks
    /\ Articles[id].some = {} \/ Articles[id].some \cap marks # {}

\* window_texts: the lines around each anchor, inside a sequence of lines.
CutOut(lines, anchors) ==
    {Keep(lines, {j \in DOMAIN lines : Distance(i, j) <= Gap}) :
        i \in {k \in DOMAIN lines : lines[k].marks \cap anchors # {}}}

LinesOf(seg) == [k \in DOMAIN seg |-> seg[k].line]

\* The operations of a log, as lines.
Operations(evidence) ==
    LET segs == Segments(Joined([i \in DOMAIN evidence |-> Records(evidence[i].file, evidence[i].text)])) IN
    {LinesOf(segs[s]) : s \in DOMAIN segs}

\* Mutant: the windows are put one after the other, as one text.
ContextJoined(evidence, code) ==
    {FlattenSeq(SetToSeq(UNION {CutOut(o, Anchors[code]) : o \in Operations(evidence)}))}

\* diagnostic_local_context: the windows as texts, each under a marker of its
\* own, or the whole evidence where the code has no anchor in it.
Context(evidence, code) ==
    LET windows == UNION {CutOut(o, Anchors[code]) : o \in Operations(evidence)} IN
    IF code = "" \/ windows = {} THEN {evidence[i].text : i \in DOMAIN evidence} ELSE windows

\* _article_applies_local for one text: the environment anywhere in it, an
\* operation in one window of one operation.
Applies(id, code, text) ==
    /\ code \in Articles[id].codes
    /\ IF ~Articles[id].operation THEN Gate(id, MarksOf(text))
       ELSE LET segs == Segments(Records(1, text)) IN
            \E s \in DOMAIN segs : \E w \in CutOut(LinesOf(segs[s]), Articles[id].anchors) :
                Gate(id, MarksOf(w))

\* _article_allowed: what a summary names is tested as the references are.
Allowed(r, id) == \E text \in Context(r.evidence, r.code) : Applies(id, r.code, text)

\* vendor_reference_results.
References(r) == Keep(ArticleOrder, {k \in DOMAIN ArticleOrder : Allowed(r, ArticleOrder[k])})

Named(r, ids) == {id \in ids : Allowed(r, id)}

Shows(r, mark) == \E text \in Context(r.evidence, r.code) : mark \in MarksOf(text)

\* _vendor_entry, code by code: how many causes and steps, which articles.
CbtEntry(r) == [causes |-> 2, steps |-> 3, names |-> Named(r, {"a418256", "a442155", "a411756"})]

\* Three of its articles stand for a cause each; with none of them, a check does.
MissingEntry(r) ==
    LET named == Named(r, {"a424591", "a318905", "a450780", "a452165", "a411756"})
        supposed == named \cap {"a452165", "a450780", "a411756"} IN
    [causes |-> IF supposed = {} THEN 2 ELSE 1 + Cardinality(supposed), steps |-> 3, names |-> named]

\* Only what the text shows is stated. `config` is one of the wordings that "invalid"
\* stands for: an invalid snapshot configuration.
ChainEntry(r, config) ==
    [causes |-> IF Shows(r, "cbt") /\ (Shows(r, "missing") \/ config) THEN 2 ELSE 1,
     steps |-> IF Shows(r, "cbt") THEN 3 ELSE 2,
     names |-> {}]

-----------------------------------------------------------------------------
SolutionInit ==
    /\ stage = "refs" /\ request \in Requests /\ tier = 0
    /\ kb = <<>> /\ web = <<>> /\ seen = {} /\ results = <<>> /\ summary = NoSummary

\* A source that is not known is not searched for.
NoSearch ==
    /\ stage = "refs" /\ request.family = "unknown_text"
    /\ stage' = "summary" /\ UNCHANGED <<request, tier, kb, web, seen, results, summary>>

Refer ==
    /\ stage = "refs" /\ request.family # "unknown_text"
    /\ kb' = References(request)
    /\ seen' = ToSet(kb')
    /\ stage' = "web" /\ UNCHANGED <<request, tier, web, results, summary>>

\* _classify_source: REJECT is what a host outside the family's lists gets.
Rejected(page) == page.kind = "other"

\* One page of a search: known, rejected, or taken.
Take(acc, page) ==
    IF Len(acc.web) >= WebLimit \/ page.url \in acc.seen \/ Rejected(page) THEN acc
    ELSE [web |-> Append(acc.web, page), seen |-> acc.seen \cup {page.url}]

Taken(acc, hits) == FoldLeft(LAMBDA a, p : Take(a, p), acc, hits)

Searching == stage = "web" /\ tier < Tiers[request.family] /\ Len(web) < WebLimit

SearchTier ==
    /\ Searching
    /\ \E n \in 0 .. HitLimit : \E hits \in [1 .. n -> Pages] :
        LET acc == Taken([web |-> web, seen |-> seen], hits) IN
        web' = acc.web /\ seen' = acc.seen
    /\ tier' = tier + 1 /\ UNCHANGED <<stage, request, kb, results, summary>>

\* The search engine fails: what earlier searches found is kept, the rest skipped.
SearchFails ==
    /\ Searching /\ tier' = Tiers[request.family]
    /\ UNCHANGED <<stage, request, kb, web, seen, results, summary>>

Least(a, b) == IF a < b THEN a ELSE b

\* Official pages first; sort() is stable.
OfficialFirst(pages) ==
    LET official == {k \in DOMAIN pages : pages[k].kind = "official"} IN
    Keep(pages, official) \o Keep(pages, DOMAIN pages \ official)

Assemble ==
    /\ stage = "web" /\ ~Searching
    /\ LET start == Starting[request.family]
           fallback == Keep(start, {k \in DOMAIN start : start[k].url \notin seen})
           all == [k \in DOMAIN kb |-> ArticlePage(kb[k])] \o OfficialFirst(web) \o fallback IN
       results' = SubSeq(all, 1, Least(Len(all), ResultLimit))
    /\ stage' = "summary" /\ UNCHANGED <<request, tier, kb, web, seen, summary>>

-----------------------------------------------------------------------------
Summed(a) == summary' = a /\ stage' = "done" /\ UNCHANGED <<request, tier, kb, web, seen, results>>

HasEntry == request.code \in {CbtDelete, FileMissing, Chain}

\* get_vendor_summary: what it answers to a code is in `entries`.
ByVendor(code, entries) ==
    /\ stage = "summary" /\ request.code = code
    /\ \E e \in entries :
        Summed([by |-> "vendor", family |-> request.family,
                causes |-> e.causes, steps |-> e.steps, names |-> e.names])

FromVendor ==
    \/ ByVendor(CbtDelete, {CbtEntry(request)})
    \/ ByVendor(FileMissing, {MissingEntry(request)})
    \/ ByVendor(Chain, {ChainEntry(request, config) : config \in {c \in BOOLEAN : c => Shows(request, "invalid")}})

\* get_curated_summary: an entry of event_knowledge.json.
FromCurated ==
    /\ stage = "summary" /\ ~HasEntry /\ request.curated
    /\ \E c \in 1 .. 3, s \in {1, 2, 3, 4, 6} :
        Summed([by |-> "curated", family |-> "windows_event", causes |-> c, steps |-> s, names |-> {}])

\* A stored solution, of the family's own by search_similar_logs.
FromKnowledge ==
    /\ stage = "summary" /\ ~HasEntry /\ ~request.curated /\ request.family # "unknown_text"
    /\ \E c, s \in {0, 3} :
        Summed([by |-> "knowledge", family |-> request.family, causes |-> c, steps |-> s, names |-> {}])

\* _build_from_gemini: whatever the model answers, if it can be read.
FromModel ==
    /\ stage = "summary" /\ ~HasEntry /\ ~request.curated
    /\ \E c, s \in {0, 3} :
        Summed([by |-> "model", family |-> request.family, causes |-> c, steps |-> s, names |-> {}])

\* How much the fixed texts have to say, in either language.
FallbackCauses == 3
FallbackSteps == 3
VendorCauses == 1
VendorSteps == 3
SpecificCauses == 2
SpecificSteps == 3

\* _unique_items, of texts that differ.
UniqueItems(n, limit) == Least(n, limit)

Completed(n, fixed) == IF n < 2 THEN UniqueItems(n + fixed, 3) ELSE n

Replaced(n, fixed) == IF n < 3 THEN fixed ELSE n

Generic == {"", SessionFailed}

\* _build_from_web, given how many causes and steps the pages yield and whether
\* an application is named: for a source that is not known and for a vendor's generic
\* failure the pages are not used; of Windows, the application's own come first.
Written(c, s, app) ==
    CASE request.family = "unknown_text" -> [causes |-> 2, steps |-> 3]
      [] request.family \in {"veeam_vbr", "vmware"} /\ request.code \in Generic ->
            [causes |-> VendorCauses, steps |-> VendorSteps]
      [] request.family = "windows_event" ->
            IF app THEN [causes |-> UniqueItems(SpecificCauses + c, 3),
                         steps |-> UniqueItems(SpecificSteps + Replaced(s, FallbackSteps), 5)]
            ELSE [causes |-> Completed(c, FallbackCauses), steps |-> Replaced(s, FallbackSteps)]
      [] OTHER -> [causes |-> Completed(c, VendorCauses), steps |-> Replaced(s, VendorSteps)]

FromWeb ==
    /\ stage = "summary" /\ ~HasEntry /\ ~request.curated
    /\ \E c \in 0 .. 3, s \in 0 .. 5, app \in BOOLEAN :
        LET w == Written(c, s, app) IN
        Summed([by |-> "web", family |-> request.family, causes |-> w.causes, steps |-> w.steps, names |-> {}])

SolutionNext == NoSearch \/ Refer \/ SearchTier \/ SearchFails \/ Assemble
          \/ FromVendor \/ FromCurated \/ FromKnowledge \/ FromModel \/ FromWeb

SolutionSpec == SolutionInit /\ [][SolutionNext]_solution

-----------------------------------------------------------------------------
SolutionTypeOK ==
    /\ stage \in {"refs", "web", "summary", "done"} /\ request \in Requests
    /\ tier \in 0 .. 3 /\ Len(web) <= WebLimit /\ Len(results) <= ResultLimit
    /\ ToSet(kb) \subseteq DOMAIN Articles /\ ToSet(web) \subseteq Pages
    /\ summary.by \in {"", "vendor", "curated", "knowledge", "model", "web"}

\* "Never by combining unrelated keywords from different files or attempts across
\* a bundle": an article about an operation is cited only if one operation of the
\* log that was submitted meets its condition on its own.
OneOperationMeetsGate ==
    \A id \in ToSet(kb) \cup summary.names :
        Articles[id].operation => \E o \in Operations(request.evidence) : Gate(id, MarksOf(o))

\* "Downstream re-windowing is safe": a window cut out of an operation, numbered
\* anew and partitioned again, is one operation still, unless a
\* line kept to the last character makes it longer than MaxChars.
WindowsStayWhole ==
    stage = "refs" =>
      \A o \in Operations(request.evidence) : \A w \in CutOut(o, Anchors[request.code]) :
        Length(w) <= MaxChars => LET segs == Segments(Records(1, w)) IN Len(segs) = 1 /\ LinesOf(segs[1]) = w

\* An article the summary names is one the evidence calls for: it is a reference
\* too, unless three others come before it.
NamedAreReferred == summary.names \subseteq ToSet(kb)

\* An answer written without a model and not recalled from the knowledge base has
\* causes and steps, whatever the evidence and the pages lack.
NeverEmptyHanded == summary.by \in {"vendor", "curated", "web"} => summary.causes >= 1 /\ summary.steps >= 1

\* No reference is given twice, whether it is an article, found by one search or by
\* several, or a starting point.
ReferencesApart == GivenOnce(results)

\* What the answer cites, the evidence of some one operation calls for, however
\* often the text was cut on the way (vendor_reference_results), and it is cited
\* once; where that is nothing, it says something still.
CitationsFounded ==
    OneOperationMeetsGate /\ WindowsStayWhole /\ NamedAreReferred /\ ReferencesApart /\ NeverEmptyHanded

\* "Environment articles use the whole segment": where a file of the log names
\* vSAN and ESA, the article on it is among the references for the codes it answers.
EnvironmentSeen ==
    stage = "web" /\ request.code \in Articles.a442155.codes =>
        ((\E i \in DOMAIN request.evidence : {"vsan", "esa"} \subseteq MarksOf(request.evidence[i].text))
           => "a442155" \in ToSet(kb))
==================================================================================
