-------------------------------- MODULE LogText --------------------------------
(***************************************************************************)
(* What the analyzer keeps of a log that is too long, and how it arranges  *)
(* the lines it kept: compaction of a text, retention of records, their    *)
(* order in time, and the operations they are partitioned into.            *)
(*                                                                         *)
(* A text is a sequence of lines; of a line the model knows its length,    *)
(* its time and clock, and which of the program's patterns it matches.     *)
(***************************************************************************)
EXTENDS Integers, Sequences, FiniteSets, SequencesExt

CONSTANTS HeaderChars, TailChars,    \* HEADER_CHARS, TAIL_CHARS
          Radius,          \* WINDOW_RADIUS
          MaxWindows,      \* MAX_WINDOWS
          MaxChars,        \* MAX_CHARS
          Mark,            \* characters of a separator between two parts
          Note,            \* characters of the closing note
          Slack,           \* the 500 characters set aside when windows are trimmed
          Gap,             \* KB_WINDOW_RADIUS_LINES
          Epsilon,         \* 300 seconds
          Day              \* seconds of a day

ASSUME CompactionAssumption ==
    /\ {HeaderChars, TailChars, Radius, MaxWindows, MaxChars, Mark, Note, Gap, Epsilon, Day} \subseteq Nat \ {0}
    /\ Slack \in Nat /\ Mark <= Slack
    /\ HeaderChars + TailChars + 2 * Mark + Note + Slack < MaxChars

Untimed == -1

Clocks == {"utc", "local", "syslog_year_unknown", ""}

\* len: characters; at, clock: parse_evidence_timestamp, counted from the year 1,
\* and timestamp_domain;
\* sessions: typed session ids; ops: operations named; marks: the patterns of the
\* analyzer that match, of settings, noise, failures and products.
Line == [len : Nat, at : Nat \cup {Untimed}, clock : Clocks, sessions : SUBSET (STRING \X STRING),
         ops : SUBSET STRING, marks : SUBSET STRING]

\* The signatures that name a vendor's failure; "finished" is a processing that
\* finished with errors.
Keywords == {"cbt", "invalid", "missing", "bad_config", "finished"}

Has(l, marks) == l.marks \cap marks # {}

\* _is_signal, of compaction: by words alone, be it in a setting or in noise.
IsSignal(l) == Has(l, Keywords \cup {"helper", "session_failed", "error_level", "warning_level",
                                     "failure_word", "warn_word"})

\* FAILURE_LINE, of the evidence items: a warning is none, a missing file is.
FailureLine(l) == Has(l, {"failure_word", "error_level", "session_failed", "missing", "cbt", "bad_config"})

\* _signal_strength: a setting shows nothing; then the signatures, the outcome of
\* a session, the level the line declares, and plain words.
SignalStrength(l) ==
    IF Has(l, {"config"}) THEN 0
    ELSE IF Has(l, Keywords) THEN 3
    ELSE IF Has(l, {"session_failed", "error_level"}) THEN 2
    ELSE IF Has(l, {"warning_level"}) THEN 1
    ELSE IF Has(l, {"info_level"}) THEN 0
    ELSE IF Has(l, {"failure_word"}) THEN 2
    ELSE IF Has(l, {"warn_word", "helper"}) THEN 1 ELSE 0

\* _is_noise comes first, whatever else the line says.
Strength(l) == IF Has(l, {"noise", "info_level", "config"}) THEN 0 ELSE SignalStrength(l)

-----------------------------------------------------------------------------
Total(numbers) == FoldLeft(LAMBDA m, n : m + n, 0, numbers)

\* Characters up to and with line i, and of the whole text.
Through(text, i) == Total([k \in 1 .. i |-> text[k].len + 1])

Length(text) == IF text = <<>> THEN 0 ELSE Through(text, Len(text)) - 1

Around(text, i) == {j \in DOMAIN text : i - Radius <= j /\ j <= i + Radius}

\* Mutant: a signal passed over closes its surroundings too.
CentresFar(text) ==
    LET signals == SelectSeq([i \in DOMAIN text |-> i], LAMBDA i : IsSignal(text[i]))
        apart == SelectSeq([k \in DOMAIN signals |-> k], LAMBDA k :
                   \A j \in 1 .. k - 1 : Around(text, signals[j]) \cap Around(text, signals[k]) = {}) IN
    SubSeq([k \in DOMAIN apart |-> signals[apart[k]]], 1,
           IF Len(apart) < MaxWindows THEN Len(apart) ELSE MaxWindows)

\* The signals a window is opened around: none whose window would touch
\* another, and MaxWindows at most.
Centres(text) ==
    FoldLeft(LAMBDA cs, i :
        IF /\ IsSignal(text[i]) /\ Len(cs) < MaxWindows
           /\ \A k \in DOMAIN cs : Around(text, cs[k]) \cap Around(text, i) = {}
        THEN Append(cs, i) ELSE cs,
      <<>>, [i \in DOMAIN text |-> i])

\* The surroundings in order.
WindowAt(text, i) ==
    LET low == IF i > Radius THEN i - Radius ELSE 1
        high == IF i + Radius < Len(text) THEN i + Radius ELSE Len(text) IN
    [k \in 1 .. high - low + 1 |-> low + k - 1]

Texts(text, is) == [k \in DOMAIN is |-> text[is[k]]]

\* Windows as index sequences, exact repetitions of an earlier one left out.
Windows(text) ==
    FoldLeft(LAMBDA ws, i :
        LET w == WindowAt(text, i) IN
        IF \E k \in DOMAIN ws : Texts(text, ws[k]) = Texts(text, w) THEN ws ELSE Append(ws, w),
      <<>>, Centres(text))

BodyLength(text) ==
    LET ws == Windows(text) IN
    Total([k \in DOMAIN ws |-> Length(Texts(text, ws[k]))])
      + (IF Len(ws) > 1 THEN Mark * (Len(ws) - 1) ELSE 0)

Overflow(text) == HeaderChars + TailChars + 2 * Mark + Note + BodyLength(text) - MaxChars

\* How much of the body is kept, and the length of what results.
BodyKept(text) ==
    IF Overflow(text) > 0 THEN BodyLength(text) - Overflow(text) - Slack ELSE BodyLength(text)

CompactedLength(text) ==
    IF Length(text) <= MaxChars THEN Length(text)
    ELSE IF Overflow(text) <= 0 THEN MaxChars + Overflow(text)
    ELSE IF BodyLength(text) > Overflow(text) + Slack
    THEN HeaderChars + TailChars + 2 * Mark + Note + BodyKept(text) + Mark
    ELSE MaxChars + Mark

\* Position in the body where the k-th line of window w ends.
BodyEnd(text, w, k) ==
    LET ws == Windows(text) IN
    Total([v \in 1 .. w - 1 |-> Length(Texts(text, ws[v])) + Mark])
      + Length(Texts(text, SubSeq(ws[w], 1, k)))

\* compact_log_evidence, by the lines it keeps to their end: a line's patterns
\* are taken to stand at its end, so a line that is cut in the header is lost.
Compacted(text) ==
    IF Length(text) <= MaxChars THEN DOMAIN text
    ELSE LET ws == Windows(text)
             inWindow == {ws[p[1]][p[2]] : p \in
                           {q \in (DOMAIN ws) \X (1 .. 2 * Radius + 1) :
                              /\ q[2] \in DOMAIN ws[q[1]]
                              /\ BodyEnd(text, q[1], q[2]) <= BodyKept(text)}} IN
         {i \in DOMAIN text : \/ Through(text, i) - 1 <= HeaderChars
                              \/ Through(text, i) - 1 > Length(text) - TailChars
                              \/ i \in inWindow}

\* The elements of a finite set in the order of a relation: the n-th of them comes
\* after n - 1 others.
Arranged(S, R) ==
    [n \in 1 .. Cardinality(S) |-> CHOOSE x \in S : Cardinality({y \in S : <<y, x>> \in R}) = n - 1]

Upward(is) == Arranged(is, {p \in is \X is : p[1] < p[2]})

Keep(text, is) == Texts(text, Upward(is))

-----------------------------------------------------------------------------
Cost(text, is) == Total([i \in DOMAIN text |-> IF i \in is THEN text[i].len + 1 ELSE 0])

\* HeaderChars and tail by whole lines, the line that reaches the budget included.
Ends(text) ==
    {i \in DOMAIN text : \/ Cost(text, 1 .. i - 1) < HeaderChars
                         \/ Cost(text, i + 1 .. Len(text)) < TailChars}

\* _retained_source_lines: a window that does not fit is passed over.
Retained(text) ==
    FoldLeft(LAMBDA kept, i : IF Cost(text, kept \cup Around(text, i)) <= MaxChars
                              THEN kept \cup Around(text, i) ELSE kept,
             Ends(text), Centres(text))

Joined(parts) == FoldLeft(LAMBDA whole, part : whole \o part, <<>>, parts)

\* build_evidence_records for one file.
Records(file, text) ==
    LET is == IF Length(text) > MaxChars THEN Retained(text) ELSE DOMAIN text
        nos == Upward({i \in is : text[i].len > 0}) IN
    [k \in DOMAIN nos |-> [file |-> file, no |-> nos[k], line |-> text[nos[k]]]]

-----------------------------------------------------------------------------
Domains(recs) == {recs[k].line.clock : k \in {j \in DOMAIN recs : recs[j].line.at # Untimed}}

\* Names stand for numbers, so that they have an order.
SourceBefore(a, b) == a.file < b.file \/ (a.file = b.file /\ a.no < b.no)

TimeBefore(a, b) ==
    \/ /\ a.line.at # Untimed
       /\ b.line.at = Untimed \/ a.line.at < b.line.at
    \/ a.line.at = b.line.at /\ SourceBefore(a, b)

\* sorted() with a key: stable.
Stably(recs, before(_, _)) ==
    {p \in (DOMAIN recs) \X (DOMAIN recs) :
        \/ before(recs[p[1]], recs[p[2]])
        \/ ~before(recs[p[2]], recs[p[1]]) /\ p[1] < p[2]}

Sorted(recs, before(_, _)) == Texts(recs, Arranged(DOMAIN recs, Stably(recs, before)))

\* order_records.
Ordered(recs) ==
    IF Cardinality(Domains(recs)) > 1 THEN Sorted(recs, SourceBefore) ELSE Sorted(recs, TimeBefore)

-----------------------------------------------------------------------------
\* The operation named, where it is one.
Single(ops) == IF \E o \in ops : ops = {o} THEN ops ELSE {}

\* The segment being built: its records, and the last time, clock, sessions and
\* operation they showed.
NoSegment == [recs |-> <<>>, at |-> Untimed, clock |-> "none", sessions |-> {}, op |-> {}]

Date(at) == at \div Day

Distance(a, b) == IF a < b THEN b - a ELSE a - b

Closes(cur, r) ==
    LET last == cur.recs[Len(cur.recs)] IN
    /\ cur.recs # <<>>
    /\ \/ r.file # last.file
       \/ r.no - last.no > Gap
       \/ \E s \in cur.sessions, t \in r.line.sessions : s[1] = t[1] /\ s[2] # t[2]
       \/ cur.op # {} /\ Single(r.line.ops) \notin {{}, cur.op}
       \/ /\ r.line.at # Untimed /\ cur.at # Untimed
          /\ \/ r.line.clock # cur.clock
             \/ Date(r.line.at) # Date(cur.at)
             \/ Distance(r.line.at, cur.at) > Epsilon

Extend(cur, r) ==
    LET new == r.line.sessions IN
    [recs |-> Append(cur.recs, r),
     at |-> IF r.line.at # Untimed THEN r.line.at ELSE cur.at,
     clock |-> IF r.line.at # Untimed THEN r.line.clock ELSE cur.clock,
     sessions |-> new \cup {s \in cur.sessions : \A t \in new : t[1] # s[1]},
     op |-> IF Single(r.line.ops) # {} THEN Single(r.line.ops) ELSE cur.op]

\* Mutant: what the closed segment showed is carried into the next one.
ReopenedStale(cur) == [cur EXCEPT !.recs = <<>>]

Reopened(cur) == NoSegment

\* The segments closed, and the one being built, after one more record.
Divided(acc, r) ==
    IF Closes(acc.cur, r)
    THEN [done |-> Append(acc.done, acc.cur.recs), cur |-> Extend(Reopened(acc.cur), r)]
    ELSE [done |-> acc.done, cur |-> Extend(acc.cur, r)]

Partition(recs) ==
    FoldLeft(LAMBDA acc, r : Divided(acc, r), [done |-> <<>>, cur |-> NoSegment], recs)

\* operation_segments.
Segments(recs) ==
    LET run == Partition(Sorted(recs, SourceBefore)) IN
    IF run.cur.recs = <<>> THEN run.done ELSE Append(run.done, run.cur.recs)
================================================================================
