----------------------------- MODULE EvidenceBundle -----------------------------
(***************************************************************************)
(* A request that analyses several files as one incident: the files are    *)
(* read under three limits, each is parsed and summarised, what they share *)
(* decides how far they are taken to belong together, and one answer is    *)
(* committed to the history and offered to the knowledge base.             *)
(***************************************************************************)
EXTENDS SourceParsing

CONSTANTS Offers,                  \* the requests: sequences of files
          MaxFiles, MaxFileBytes, MaxTotalBytes, Chunk,
          ItemsPerFile, ItemsTotal,
          Artifacts,               \* observed paths that say where logs were collected
          CodeOrder                \* the codes as sorted() orders them

\* correlation_ids, the ones that are compared; "" where none was seen.  A task's
\* session is another identity and is not.
IdKeys == {"jobsessionid", "jobid", "vm", "snapshot_id"}

\* sanitised name (a number), allowed extension, HTML report, size, the text the
\* upload yields (or that it yields none), its identifiers, paths and signatures.
File == [name : Nat, allowed : BOOLEAN, html : BOOLEAN, bytes : Nat, legible : BOOLEAN,
         text : Seq(Line), shape : Shapes, ids : [IdKeys -> STRING],
         paths : SUBSET STRING, signatures : SUBSET STRING]

ASSUME BundleAssumption ==
    /\ {MaxFiles, MaxFileBytes, MaxTotalBytes, Chunk, ItemsPerFile, ItemsTotal} \subseteq Nat \ {0}
    /\ Offers # {} /\ Offers \subseteq Seq(File)
    /\ CodeOrder \in Seq(STRING) /\ ToSet(CodeOrder) = {Chain, CbtDelete, FileMissing, SessionFailed}

VARIABLES phase,    \* where submit_bundle is
          offer,    \* the files of the request
          raw,      \* files read in full
          data,     \* bytes read of the next one
          entries,  \* files summarised
          answer,   \* what will be stored and returned
          history,  \* answers committed
          exported, \* answers the knowledge base took
          status    \* HTTP status

bundle == <<phase, offer, raw, data, entries, answer, history, exported, status>>

NoAnswer == [confidence |-> "", sources |-> {}, primary |-> 0, items |-> <<>>,
             incident |-> [first |-> <<>>, terminal |-> <<>>, timeline |-> <<>>, evidence |-> <<>>, doubt |-> "none"],
             windows |-> {}]

-----------------------------------------------------------------------------
TimesOf(text) == {text[i].at : i \in {j \in DOMAIN text : text[j].at # Untimed}}

ClocksOf(text) == {text[i].clock : i \in {j \in DOMAIN text : text[j].at # Untimed}}

\* is_evidence_file_path: where a log was collected says nothing of the incident.
Resources(f) == f.paths \ Artifacts

\* summarize_file_evidence, with the metadata parsed from the compacted text; a
\* window only where one clock was read.
Summarize(f) ==
    LET short == Keep(f.text, Compacted(f.text))
        timed == Cardinality(ClocksOf(f.text)) = 1 IN
    [name |-> f.name, text |-> f.text, ids |-> f.ids, signatures |-> f.signatures,
     resources |-> Resources(f),
     meta |-> Parse(short, IF Length(f.text) > MaxChars THEN "" ELSE f.shape, f.html),
     clock |-> IF timed THEN CHOOSE c \in ClocksOf(f.text) : TRUE ELSE "",
     from |-> IF timed THEN CHOOSE t \in TimesOf(f.text) : \A u \in TimesOf(f.text) : t <= u ELSE Untimed,
     to |-> IF timed THEN CHOOSE t \in TimesOf(f.text) : \A u \in TimesOf(f.text) : u <= t ELSE Untimed]

-----------------------------------------------------------------------------
Names(es, g) == {es[i].name : i \in g}

\* The files that share a value, where they have two names at least.
Shared(es, groups) == {g \in groups : Cardinality(Names(es, g)) >= 2}

IdGroups(es, keys) ==
    Shared(es, {{i \in DOMAIN es : es[i].ids[k] = v} :
                 k \in keys, v \in (UNION {{es[i].ids[l] : l \in keys} : i \in DOMAIN es}) \ {""}})

PathGroups(es) ==
    Shared(es, {{i \in DOMAIN es : p \in es[i].resources} : p \in UNION {es[i].resources : i \in DOMAIN es}})

SignatureGroups(es) ==
    Shared(es, {{i \in DOMAIN es : s \in es[i].signatures} : s \in UNION {es[i].signatures : i \in DOMAIN es}})

ResourceGroups(es) == PathGroups(es) \cup IdGroups(es, {"vm", "snapshot_id"})

Later(a, b) == IF a < b THEN b ELSE a
Sooner(a, b) == IF a < b THEN a ELSE b

\* _windows_overlap.
Overlap(a, b) == Later(a.from, b.from) - Epsilon <= Sooner(a.to, b.to) + Epsilon

\* Mutant: each file is compared with the next one only.
CompatibleInTurn(es, g) ==
    /\ \A i \in g : es[i].from # Untimed
    /\ \A i, j \in g : i < j /\ (\A k \in g : ~(i < k /\ k < j)) =>
                         es[i].clock = es[j].clock /\ Overlap(es[i], es[j])

Compatible(es, g) ==
    /\ \A i \in g : es[i].from # Untimed
    /\ \A i, j \in g : i # j => es[i].clock = es[j].clock /\ Overlap(es[i], es[j])

NamesOf(es, groups) == UNION {Names(es, g) : g \in groups}

\* correlate_bundle: identifiers, or else resources, or else signatures.
Correlate(es) ==
    LET sessions == IdGroups(es, {"jobsessionid", "jobid"})
        resources == ResourceGroups(es)
        alike == SignatureGroups(es) IN
    IF sessions # {} THEN [confidence |-> "strong", sources |-> NamesOf(es, sessions)]
    ELSE IF resources # {}
    THEN [confidence |-> IF \E g \in resources : Compatible(es, g) THEN "medium" ELSE "weak",
          sources |-> NamesOf(es, resources)]
    ELSE IF alike # {} THEN [confidence |-> "weak", sources |-> NamesOf(es, alike)]
    ELSE [confidence |-> "none", sources |-> Names(es, DOMAIN es)]

-----------------------------------------------------------------------------
Votes(es, code) == Cardinality({i \in DOMAIN es : es[i].meta.code = code})

\* Mutant: the first code with the most votes in the order of the files.
ElectFirst(es) ==
    LET voted == {i \in DOMAIN es : es[i].meta.code # ""} IN
    IF voted = {} THEN 1
    ELSE CHOOSE i \in voted :
           /\ \A j \in voted : Votes(es, es[j].meta.code) <= Votes(es, es[i].meta.code)
           /\ \A j \in voted : Votes(es, es[j].meta.code) = Votes(es, es[i].meta.code) => i <= j

\* The code with the most votes, the first in order among equals.
Top(votes) ==
    CodeOrder[CHOOSE k \in DOMAIN CodeOrder :
                \A j \in DOMAIN CodeOrder :
                  /\ votes[CodeOrder[j]] <= votes[CodeOrder[k]]
                  /\ j < k => votes[CodeOrder[j]] < votes[CodeOrder[k]]]

\* The first file with the code most files have; without a code, the first file.
Elect(es) ==
    LET votes == [c \in ToSet(CodeOrder) |-> Votes(es, c)] IN
    IF \A c \in DOMAIN votes : votes[c] = 0 THEN 1
    ELSE CHOOSE i \in DOMAIN es : /\ es[i].meta.code = Top(votes)
                                 /\ \A j \in 1 .. i - 1 : es[j].meta.code # Top(votes)

\* build_evidence_items: failing lines, so many of a file and so many in all.
Items(es) ==
    FoldLeft(LAMBDA items, e :
        LET nos == SelectSeq([i \in DOMAIN e.text |-> i], LAMBDA i : FailureLine(e.text[i]))
            room == Sooner(Sooner(ItemsPerFile, Len(nos)), ItemsTotal - Len(items)) IN
        items \o [k \in 1 .. room |-> [file |-> e.name, no |-> nos[k]]],
      <<>>, es)

AllRecords(es) == Joined([i \in DOMAIN es |-> Records(es[i].name, es[i].text)])

\* incident_from_records: failures from strength 2 on, warnings at strength 1.
Signals(recs, strengths) == Texts(recs, Upward({k \in DOMAIN recs : Strength(recs[k].line) \in strengths}))

Timeline(recs) == LET line == Ordered(Signals(recs, {1, 2, 3})) IN SubSeq(line, 1, Sooner(12, Len(line)))

Evidence(recs) == LET line == Ordered(Signals(recs, {2, 3})) IN SubSeq(line, 1, Sooner(10, Len(line)))

\* What is said of the order: nothing, or that the clocks cannot be compared, or
\* that some signal has no time.
Doubt(signals) ==
    IF Cardinality(Domains(signals)) > 1 THEN "clocks"
    ELSE IF \E k \in DOMAIN signals : signals[k].line.at = Untimed THEN "untimed" ELSE "none"

\* The first and the last failure, or warning where nothing failed.
Incident(recs) ==
    LET failures == Ordered(Signals(recs, {2, 3}))
        told == IF failures # <<>> THEN failures ELSE Ordered(Signals(recs, {1})) IN
    [first |-> SubSeq(told, 1, Sooner(1, Len(told))),
     terminal |-> SubSeq(told, Later(1, Len(told)), Len(told)),
     timeline |-> Timeline(recs), evidence |-> Evidence(recs),
     doubt |-> Doubt(Signals(recs, {1, 2, 3}))]

\* diagnostic_local_context: around each anchor, inside its segment.
KbWindows(recs, code) ==
    LET segs == Segments(recs) IN
    UNION {{{<<segs[s][j].file, segs[s][j].no>> : j \in {k \in DOMAIN segs[s] : Distance(k, i) <= Gap}} :
             i \in {k \in DOMAIN segs[s] : segs[s][k].line.marks \cap Anchors[code] # {}}} :
           s \in DOMAIN segs}

Answer(es) ==
    LET recs == AllRecords(es)
        code == es[Elect(es)].meta.code
        related == IF Len(es) < 2 THEN [confidence |-> "none", sources |-> Names(es, DOMAIN es)]
                   ELSE Correlate(es) IN
    [confidence |-> related.confidence, sources |-> related.sources, primary |-> Elect(es),
     items |-> Items(es), incident |-> Incident(recs),
     windows |-> IF code = "" THEN {} ELSE KbWindows(recs, code)]

-----------------------------------------------------------------------------
BundleInit ==
    /\ phase = "count" /\ offer \in Offers
    /\ raw = <<>> /\ data = 0 /\ entries = <<>> /\ answer = NoAnswer
    /\ history = <<>> /\ exported = 0 /\ status = 0

Reply(code) == status' = code /\ phase' = "done"

Untouched == <<offer, raw, data, entries, answer, history, exported>>

TooMany ==
    /\ phase = "count" /\ Len(offer) \notin 1 .. MaxFiles
    /\ Reply(400) /\ UNCHANGED Untouched

Accept ==
    /\ phase = "count" /\ Len(offer) \in 1 .. MaxFiles /\ phase' = "read"
    /\ UNCHANGED <<offer, raw, data, entries, answer, history, exported, status>>

Reading == phase = "read" /\ Len(raw) < Len(offer)

Current == offer[Len(raw) + 1]

Sizes(files) == [i \in DOMAIN files |-> files[i].bytes]

Held == Total(Sizes(raw)) + data

\* read_upload_bounded: chunks, up to one byte more than a file may have.
ReadChunk ==
    /\ Reading /\ data < Current.bytes /\ data <= MaxFileBytes
    /\ data' = Sooner(Sooner(data + Chunk, Current.bytes), MaxFileBytes + 1)
    /\ UNCHANGED <<phase, offer, raw, entries, answer, history, exported, status>>

FileTooLarge ==
    /\ Reading /\ data > MaxFileBytes
    /\ Reply(413) /\ UNCHANGED Untouched

ReadFails == Reading /\ Reply(400) /\ UNCHANGED Untouched

HaveRead ==
    /\ Reading /\ data = Current.bytes /\ data <= MaxFileBytes /\ Held <= MaxTotalBytes
    /\ raw' = Append(raw, Current) /\ data' = 0
    /\ UNCHANGED <<phase, offer, entries, answer, history, exported, status>>

TotalTooLarge ==
    /\ Reading /\ data = Current.bytes /\ Held > MaxTotalBytes
    /\ Reply(413) /\ UNCHANGED Untouched

\* validate_bundle; what it refuses after the checks above is an extension.
Validate ==
    /\ phase = "read" /\ Len(raw) = Len(offer)
    /\ IF Held <= MaxTotalBytes /\ \A i \in DOMAIN raw : raw[i].allowed
       THEN phase' = "parse" /\ UNCHANGED status
       ELSE Reply(413)
    /\ UNCHANGED Untouched

ParseFile ==
    /\ phase = "parse" /\ Len(entries) < Len(raw)
    /\ LET f == raw[Len(entries) + 1] IN
       IF f.legible THEN entries' = Append(entries, Summarize(f)) /\ UNCHANGED <<phase, status>>
       ELSE Reply(400) /\ UNCHANGED entries
    /\ UNCHANGED <<offer, raw, data, answer, history, exported>>

Compose ==
    /\ phase = "parse" /\ Len(entries) = Len(raw)
    /\ answer' = Answer(entries) /\ phase' = "commit"
    /\ UNCHANGED <<offer, raw, data, entries, history, exported, status>>

\* The search, the summary or the commit raises: nothing is stored.
Fails ==
    /\ phase = "commit"
    /\ Reply(500) /\ UNCHANGED Untouched

Commit ==
    /\ phase = "commit"
    /\ history' = Append(history, answer) /\ phase' = "export"
    /\ UNCHANGED <<offer, raw, data, entries, answer, exported, status>>

\* add_solution; its failure is ignored.
Export ==
    /\ phase = "export"
    /\ exported' \in {exported, exported + 1} /\ Reply(200)
    /\ UNCHANGED <<offer, raw, data, entries, answer, history>>

BundleNext == TooMany \/ Accept \/ ReadChunk \/ FileTooLarge \/ ReadFails \/ HaveRead \/ TotalTooLarge
          \/ Validate \/ ParseFile \/ Compose \/ Fails \/ Commit \/ Export

BundleSpec == BundleInit /\ [][BundleNext]_bundle

-----------------------------------------------------------------------------
BundleTypeOK ==
    /\ phase \in {"count", "read", "parse", "commit", "export", "done"}
    /\ data \in 0 .. MaxFileBytes + 1 /\ exported \in 0 .. 1
    /\ raw = SubSeq(offer, 1, Len(raw)) /\ Len(entries) <= Len(raw)
    /\ answer.confidence \in {"", "none", "weak", "medium", "strong"}
    /\ answer.primary \in 0 .. Len(entries) /\ Len(answer.items) <= ItemsTotal
    /\ history \in {<<>>, <<answer>>} /\ status \in {0, 200, 400, 413, 500}
    /\ exported <= Len(history)

\* However the sizes are spread, the request never holds more than one file
\* beyond the total, and what is parsed is within the total.
HeldBounded ==
    /\ Held <= MaxTotalBytes + MaxFileBytes + 1
    /\ entries # <<>> => Held <= MaxTotalBytes

\* Overlap is tested two files at a time; the answer reads as one incident.  At
\* medium confidence some shared resource was seen by files that really have
\* one moment in common, on one clock.
CommonMoment ==
    phase = "commit" /\ answer.confidence = "medium" =>
        \E g \in ResourceGroups(entries) :
            \E t \in UNION {entries[i].from - Epsilon .. entries[i].to + Epsilon : i \in g} :
                \A i \in g : /\ entries[i].from - Epsilon <= t /\ t <= entries[i].to + Epsilon
                            /\ \A j \in g : entries[i].clock = entries[j].clock

\* A file that is not among the correlated sources has no say in the verdict:
\* without it confidence and sources are the same.
OutsidersChangeNothing ==
    phase = "commit" /\ answer.confidence # "none" =>
        \A i \in DOMAIN entries :
            entries[i].name \notin answer.sources =>
                Correlate(RemoveAt(entries, i)) =
                    [confidence |-> answer.confidence, sources |-> answer.sources]

\* The verdict on a bundle rests on what the sources it names have in common, and
\* on nothing else (correlate_bundle).
VerdictFounded == CommonMoment /\ OutsidersChangeNothing

Permuted(s) == {[i \in DOMAIN s |-> s[f[i]]] : f \in Bijection(DOMAIN s, DOMAIN s)}

\* Files under different names give the same verdict, sources, diagnosis (the code
\* the primary is named for), incident and windows in whatever order they were
\* picked for upload.  Not the same primary: where no file has a code it is the
\* first one uploaded; nor the same items, which share one limit (submit_bundle).
OrderOfUploadIrrelevant ==
    phase = "commit" /\ Cardinality(Names(entries, DOMAIN entries)) = Len(entries) =>
        \A es \in Permuted(entries) :
            LET other == Answer(es) IN
            /\ other.confidence = answer.confidence /\ other.sources = answer.sources
            /\ es[other.primary].meta.code = entries[answer.primary].meta.code
            /\ other.incident = answer.incident /\ other.windows = answer.windows

\* The same records had the clocks of one kind been set differently.
Shift(recs, clock, by) ==
    [k \in DOMAIN recs |-> IF recs[k].line.clock = clock /\ recs[k].line.at # Untimed
                           THEN [recs[k] EXCEPT !.line.at = @ + by] ELSE recs[k]]

Places(recs) == [k \in DOMAIN recs |-> <<recs[k].file, recs[k].no>>]

Story(incident) ==
    [part \in {"first", "terminal", "timeline", "evidence"} |-> Places(incident[part])]

\* A clock without a time zone may be off by any amount.  Shifting all times of
\* one clock never changes what is reported as the course of the incident.
OffsetsIrrelevant ==
    phase = "commit" =>
        \A clock \in Clocks, by \in {Epsilon, 3 * Day} :
            LET shifted == Incident(Shift(AllRecords(entries), clock, by)) IN
            Story(shifted) = Story(answer.incident) /\ shifted.doubt = answer.incident.doubt

\* Where the answer expresses no doubt, what it calls the first failure and the
\* terminal one are so by one clock that all failures and warnings show, and the
\* timeline does not contradict them.
UndoubtedIsOrdered ==
    phase = "commit" /\ answer.incident.doubt = "none" =>
        LET recs == AllRecords(entries)
            signals == {k \in DOMAIN recs : Strength(recs[k].line) > 0}
            line == answer.incident.timeline IN
        /\ \A k \in signals : Strength(recs[k].line) > 1 =>
              /\ answer.incident.first[1].line.at <= recs[k].line.at
              /\ recs[k].line.at <= answer.incident.terminal[1].line.at
        /\ \A i, j \in DOMAIN line : i < j => line[i].line.at <= line[j].line.at
        /\ \A i, j \in signals : recs[i].line.clock = recs[j].line.clock

\* A segment is one operation: one file, one clock, one session of each type, one
\* named operation, one day, no silence longer than Epsilon between timed lines.
OneOperation(seg) ==
    \A i, j \in DOMAIN seg : i < j =>
        /\ seg[i].file = seg[j].file
        /\ \A s \in seg[i].line.sessions, t \in seg[j].line.sessions : s[1] = t[1] => s[2] = t[2]
        /\ \A o \in Single(seg[i].line.ops), p \in Single(seg[j].line.ops) : o = p
        /\ seg[i].line.at # Untimed /\ seg[j].line.at # Untimed =>
              /\ seg[i].line.clock = seg[j].line.clock
              /\ Date(seg[i].line.at) = Date(seg[j].line.at)
              /\ (\A k \in i + 1 .. j - 1 : seg[k].line.at = Untimed) =>
                    Distance(seg[i].line.at, seg[j].line.at) <= Epsilon

\* What separates two neighbouring segments of a file is to be seen in them: the
\* line that opens the second does not fit the first.
Parted(seg, next) ==
    LET all == Append(seg, next[1]) IN
    next[1].file = seg[1].file /\ next[1].no - seg[Len(seg)].no <= Gap => ~OneOperation(all)

\* Operations are neither mixed nor cut, and no record is lost or moved.
OperationsApart ==
    phase = "commit" =>
        LET recs == AllRecords(entries)
            segs == Segments(recs) IN
        /\ Joined(segs) = Sorted(recs, SourceBefore)
        /\ \A k \in DOMAIN segs : OneOperation(segs[k])
        /\ \A k \in 1 .. Len(segs) - 1 : Parted(segs[k], segs[k + 1])

\* What is reported as a sequence of events is one, whatever the files' clocks say
\* (unify_timeline, partition_operations).
ChronologySound == OffsetsIrrelevant /\ UndoubtedIsOrdered /\ OperationsApart

\* A compacted text is never longer than MaxChars; the lines retained as records
\* take no more, or are those of header and tail alone.
CompactionCapped ==
    phase = "parse" => \A i \in DOMAIN raw :
        LET text == raw[i].text IN
        /\ CompactedLength(text) <= MaxChars
        /\ Length(text) > MaxChars =>
              Cost(text, Retained(text)) <= MaxChars \/ Retained(text) = Ends(text)

\* As long as there are fewer windows than allowed, no line whose pattern matches
\* is farther than two radii from the centre of one.  It may still be dropped: see
\* SignalsSurvive.
SignalsNearWindows ==
    phase = "parse" => \A i \in DOMAIN raw :
        LET text == raw[i].text IN
        Length(text) > MaxChars /\ Len(Centres(text)) < MaxWindows =>
            \A j \in DOMAIN text : IsSignal(text[j]) =>
                \E k \in ToSet(Centres(text)) : Distance(j, k) <= 2 * Radius

\* The limits bound what is held and what is shown, at every size, and bound how
\* far a failure is from what is kept while there are windows left
\* (read_upload_bounded, compact_log_evidence, _retained_source_lines).
LimitsHold == HeldBounded /\ CompactionCapped /\ SignalsNearWindows

\* "Never silently discards failures located past a fixed head offset": where the
\* limits on windows and characters are not reached, every signal is kept.
SignalsSurvive ==
    phase = "parse" => \A i \in DOMAIN raw :
        LET text == raw[i].text IN
        Length(text) > MaxChars /\ Len(Centres(text)) < MaxWindows /\ Overflow(text) <= 0 =>
            \A j \in DOMAIN text : IsSignal(text[j]) => j \in Compacted(text)

================================================================================
