------------------------- MODULE KnowledgeBaseProofs -------------------------
(***************************************************************************)
(* For any texts, families, articles, distances, sessions and votes: a     *)
(* chain of reuse leads out of no family, only an article comes from       *)
(* another, and only praise leads to another identity; only sessions that  *)
(* overlap or a failed look-up store a text twice.                         *)
(***************************************************************************)
EXTENDS KnowledgeBase, TLAPS

\* Only a session about to write holds a row or remembers a look-up.
JobsInStep ==
    \A p \in Sessions : job[p].step # "write" => job[p].row = 0

PraisedIdentity(s) == \E v \in praised : Identity(v) = Identity(s)

\* What a session carries has not travelled either; a positive score, in the
\* table or on its way there, means that the identity was praised.
PraiseExplains ==
    /\ TravelsOnlyPraised
    /\ \A p \in Sessions : job[p].step # "idle" => ~Travelled(job[p].source, job[p].solution)
    /\ \A p \in Sessions :
          job[p].step # "idle" /\ job[p].vote > 0 => PraisedIdentity(job[p].source)
    /\ \A i \in DOMAIN knowledge :
          knowledge[i].score > 0 => PraisedIdentity(knowledge[i].source)

\* The row a session is about to insert is newer than every row of its text
\* that its look-up saw.
InsertsAreNew ==
    \A p \in Sessions : job[p].step = "write" /\ job[p].row = 0 =>
        /\ job[p].seen <= Len(knowledge)
        /\ \A i \in DOMAIN knowledge :
              Key(knowledge[i].source) = Key(job[p].source) => job[p].seen < i

KnowledgeInv ==
    /\ TypeOK
    /\ JobsInStep
    /\ FamilyIsolation
    /\ PraiseExplains
    /\ OnlyOverlapsDuplicate
    /\ InsertsAreNew

-----------------------------------------------------------------------------
(* What the guards of the reuse are worth.                                  *)

\* The markers of a source decide its diagnostic identity: two sources with
\* the same event and text have the same.
LEMMA IdentityIsEvent ==
    ASSUME NEW s \in Sources
    PROVE  Identity(s) = s.event
BY SourcesAssumption DEF Identity

\* A row that is usable for a source comes from its family.
LEMMA UsableSameFamily ==
    ASSUME NEW s \in Sources, NEW row, row.source \in Sources, Usable(row, s)
    PROVE  Family(row.source) = Family(s)
<1> DEFINE its == row.source.family
           mine == Family(s)
<1>1. its \in Families /\ mine \in Families \ {"", "unknown_text"}
  BY SourcesAssumption DEF Usable, Family, Families, Windows
<1>2. its = "" => row.source.event \in Numeric /\ Identity(row.source) \notin VendorCodes
  BY SourcesAssumption DEF Identity
<1>3. its = mine => Family(row.source) = mine
  BY <1>1 DEF Family
<1>4. CASE IsVendor(mine, Identity(s))
  BY <1>2, <1>3, <1>4 DEF Usable, IsVendor, Vendor
<1>5. CASE ~IsVendor(mine, Identity(s))
  <2>1. /\ mine \in Strict => its = mine
        /\ its = "" => mine = Windows
        /\ mine = Windows => its \in {"", Windows}
    BY <1>2, <1>5 DEF Usable
  <2>2. mine \in Strict \cup {Windows}
    BY <1>1, <1>5 DEF IsVendor, Families
  <2>3. CASE its = ""
    BY <2>1, <2>3 DEF Family
  <2>4. CASE its # ""
    BY <1>3, <2>1, <2>2, <2>4
  <2>5. QED
    BY <2>3, <2>4
<1>6. QED
  BY <1>4, <1>5

\* A row that is usable for a source has its identity or a positive score.
LEMMA UsableSameOrPraised ==
    ASSUME NEW s, NEW row, Usable(row, s)
    PROVE  Identity(row.source) = Identity(s) \/ row.score > 0
BY DEF Usable, Verified

\* What is found for a source are rows that are usable for it.
LEMMA FoundUsable ==
    ASSUME NEW s, NEW i \in Found(s)
    PROVE  i \in DOMAIN knowledge /\ Usable(knowledge[i], s)
BY DEF Found

\* An answer is an article, or the source itself and what one or two of the
\* rows found for it hold.
LEMMA AnswerParts ==
    ASSUME NEW s, NEW x \in Answers(s)
    PROVE  \/ x = Curated(s)
           \/ x \subseteq {s}
           \/ \E i, k \in Found(s) :
                 x \subseteq {s} \cup knowledge[i].solution \cup knowledge[k].solution
<1>1. CASE Curated(s) # {}
  BY <1>1 DEF Answers
<1>2. CASE Curated(s) = {} /\ x \in Similar(s)
  BY <1>2 DEF Similar, Best
<1>3. CASE Curated(s) = {} /\ x \notin Similar(s)
  <2>1. CASE \E y \in Shown(s) : x = {s} \cup y
    <3>1. PICK y \in Shown(s) : x = {s} \cup y
      BY <2>1
    <3>2. PICK i \in Best(Found(s)) :
             \E k \in IF Found(s) = {i} THEN {i} ELSE Best(Found(s) \ {i}) :
                y = knowledge[i].solution \cup knowledge[k].solution
      BY DEF Shown
    <3>3. PICK k \in IF Found(s) = {i} THEN {i} ELSE Best(Found(s) \ {i}) :
             y = knowledge[i].solution \cup knowledge[k].solution
      BY <3>2
    <3>4. i \in Found(s) /\ k \in Found(s)
      BY DEF Best
    <3>5. QED
      BY <3>1, <3>3, <3>4
  <2>2. CASE x = {s}
    BY <2>2
  <2>3. QED
    BY <1>3, <2>1, <2>2 DEF Answers
<1>4. QED
  BY <1>1, <1>2, <1>3

\* What is said of a source itself is in its family.
LEMMA ItselfSound ==
    ASSUME NEW s
    PROVE  InFamily(s, s) /\ About(s, s)
BY DEF InFamily, About, Vendor, Windows

\* An article is asked for by the source itself, on a number of its own; a
\* vendor's source has none of the catalogue, and Windows none of a vendor.
LEMMA CuratedSound ==
    ASSUME NEW s \in Sources, NEW a \in Curated(s)
    PROVE  a \in Contributions /\ InFamily(s, a) /\ About(a, s)
<1>1. /\ s.code \in {"", s.event} /\ (s.code # "" => s.family \in Vendor)
      /\ s.family \in Vendor => CatalogueKey(s.event) \notin Catalogue
      /\ VendorArticles \subseteq VendorCodes /\ "" \notin VendorCodes
      /\ \A key \in Catalogue : key \notin VendorCodes
  BY SourcesAssumption
<1>2. Asked(Family(s), a)
  BY DEF Asked
<1>3. CASE s.code \in VendorArticles
  <2>1. a = Article(s.code) /\ s.code = s.event
    BY <1>1, <1>3 DEF Curated
  <2>2. a.event = s.code /\ a.code = "" /\ a.family = "vendor"
    BY <1>3, <2>1 DEF Article
  <2>3. a \in Contributions
    BY <1>3, <2>1 DEF Contributions
  <2>4. About(a, s)
    BY <2>1, <2>2, IdentityIsEvent DEF About, Identity
  <2>5. Family(a) # Windows /\ Family(s) # Windows
    BY <1>1, <1>3, <2>2 DEF Family, Windows, Vendor
  <2>6. QED
    BY <1>2, <2>3, <2>4, <2>5 DEF InFamily
<1>4. CASE s.code \notin VendorArticles
  <2>1. PICK key \in Catalogue : key = CatalogueKey(s.event) /\ a = Article(key)
    BY <1>4 DEF Curated
  <2>2. a.event = key /\ a.code = "" /\ a.family = Windows
    BY <1>1, <2>1 DEF Article
  <2>3. a \in Contributions
    BY <2>1 DEF Contributions
  <2>4. About(a, s)
    BY <2>1, <2>2, IdentityIsEvent DEF About, Identity
  <2>5. Family(a) = Windows /\ Family(s) \notin Vendor
    BY <1>1, <2>1, <2>2 DEF Family, Windows, Vendor
  <2>6. QED
    BY <1>2, <2>3, <2>4, <2>5 DEF InFamily
<1>5. QED
  BY <1>3, <1>4

\* What is carried over from a row that was found has its place and its
\* reason with the source as well.
LEMMA FoundSound ==
    ASSUME KnowledgeInv, NEW s \in Sources, NEW i \in Found(s)
    PROVE  /\ knowledge[i].solution \in SUBSET Contributions
           /\ OwnFamily(s, knowledge[i].solution)
           /\ ~Travelled(s, knowledge[i].solution)
<1> DEFINE row == knowledge[i]
           y == row.solution
<1>1. i \in DOMAIN knowledge /\ Usable(row, s)
  BY FoundUsable
<1>2. row \in Row
  BY <1>1 DEF KnowledgeInv, TypeOK
<1>3. row.source \in Sources /\ y \in SUBSET Contributions
  BY <1>2 DEF Row
<1>4. OwnFamily(s, y)
  <2>1. OwnFamily(row.source, y)
    BY <1>1 DEF KnowledgeInv, FamilyIsolation
  <2>2. Family(row.source) = Family(s)
    BY <1>1, <1>3, UsableSameFamily
  <2>3. QED
    BY <2>1, <2>2 DEF OwnFamily, InFamily
<1>5. ~Travelled(s, y)
  <2>1. ~Travelled(row.source, y)
    BY <1>1 DEF KnowledgeInv, PraiseExplains, TravelsOnlyPraised
  <2>2. CASE Identity(row.source) = Identity(s)
    BY <2>1, <2>2 DEF Travelled, About
  <2>3. CASE row.score > 0
    <3>1. PraisedIdentity(row.source)
      BY <1>1, <2>3 DEF KnowledgeInv, PraiseExplains
    <3>2. QED
      BY <2>1, <3>1 DEF Travelled, About, PraisedIdentity
  <2>4. QED
    BY <1>1, <2>2, <2>3, UsableSameOrPraised
<1>6. QED
  BY <1>3, <1>4, <1>5

\* Every answer is of its family but for the articles, and has not travelled
\* without praise.
LEMMA AnswerSound ==
    ASSUME KnowledgeInv, NEW s \in Sources, NEW x \in Answers(s)
    PROVE  /\ x \in SUBSET Contributions
           /\ OwnFamily(s, x)
           /\ ~Travelled(s, x)
<1>1. CASE x = Curated(s)
  BY <1>1, CuratedSound DEF OwnFamily, Travelled
<1>2. s \in Contributions /\ InFamily(s, s) /\ About(s, s)
  BY ItselfSound DEF Contributions
<1>3. CASE x \subseteq {s}
  BY <1>2, <1>3 DEF OwnFamily, Travelled
<1>4. CASE \E i, k \in Found(s) :
              x \subseteq {s} \cup knowledge[i].solution \cup knowledge[k].solution
  <2>1. PICK i \in Found(s), k \in Found(s) :
           x \subseteq {s} \cup knowledge[i].solution \cup knowledge[k].solution
    BY <1>4
  <2>2. /\ \A a \in knowledge[i].solution : a \in Contributions /\ InFamily(s, a)
        /\ \A a \in knowledge[k].solution : a \in Contributions /\ InFamily(s, a)
    BY FoundSound DEF OwnFamily
  <2>3. /\ ~Travelled(s, knowledge[i].solution)
        /\ ~Travelled(s, knowledge[k].solution)
    BY FoundSound
  <2>4. QED
    BY <1>2, <2>1, <2>2, <2>3 DEF OwnFamily, Travelled
<1>5. QED
  BY <1>1, <1>3, <1>4, AnswerParts

-----------------------------------------------------------------------------
(* The invariant.                                                           *)

\* A session without a job has one of the type all the same.
LEMMA NoJobTyped == NoJob \in Job
<1>1. NoSource \in Sources
  BY SourcesAssumption DEF NoSource
<1>2. NoRow \in Row
  BY <1>1 DEF NoRow, Row, Score
<1>3. QED
  BY <1>1, <1>2 DEF NoJob, Job, Score

\* The base and the history start empty.
LEMMA InvInit == Init => KnowledgeInv
<1> SUFFICES ASSUME Init PROVE KnowledgeInv
  OBVIOUS
<1>1. TypeOK
  BY NoJobTyped, BoundsAssumption DEF Init, TypeOK, NoJob
<1>2. \A p \in Sessions : job[p] = NoJob
  BY DEF Init
<1>3. JobsInStep /\ InsertsAreNew
  BY <1>2 DEF NoJob, JobsInStep, InsertsAreNew
<1>4. FamilyIsolation /\ PraiseExplains /\ OnlyOverlapsDuplicate
  BY <1>2 DEF Init, NoJob, FamilyIsolation, PraiseExplains, TravelsOnlyPraised, OnlyOverlapsDuplicate
<1>5. QED
  BY <1>1, <1>3, <1>4 DEF KnowledgeInv

\* A session that ends leaves the rest of the invariant alone.
LEMMA EndingPreserves ==
    ASSUME KnowledgeInv, NEW p \in Sessions, job' = Idle(p),
           UNCHANGED <<history, knowledge, praised, votes>>
    PROVE  KnowledgeInv'
<1>1. /\ job' \in [Sessions -> Job] /\ job'[p] = NoJob
      /\ \A o \in Sessions \ {p} : job'[o] = job[o]
  BY NoJobTyped DEF KnowledgeInv, TypeOK, Idle
<1>2. job'[p].step = "idle" /\ job'[p].row = 0
  BY <1>1 DEF NoJob
<1>3. TypeOK' /\ JobsInStep'
  BY <1>1, <1>2 DEF KnowledgeInv, TypeOK, JobsInStep
<1>4. FamilyIsolation'
  BY <1>1, <1>2 DEF KnowledgeInv, FamilyIsolation
<1>5. PraiseExplains'
  BY <1>1, <1>2 DEF KnowledgeInv, PraiseExplains, TravelsOnlyPraised, Travelled, PraisedIdentity
<1>6. OnlyOverlapsDuplicate' /\ InsertsAreNew'
  BY <1>1, <1>2 DEF KnowledgeInv, OnlyOverlapsDuplicate, InsertsAreNew
<1>7. QED
  BY <1>3, <1>4, <1>5, <1>6 DEF KnowledgeInv

\* The invariant survives an analysis that begins ...
LEMMA AnalyzePreserves ==
    ASSUME KnowledgeInv, NEW p \in Sessions, NEW s \in Sources, Analyze(p, s)
    PROVE  KnowledgeInv'
<1>1. PICK x \in Answers(s) :
         job' = [job EXCEPT ![p].step = "commit", ![p].source = s,
                            ![p].solution = x, ![p].vote = 0]
  BY DEF Analyze
<1>2. UNCHANGED <<history, knowledge, praised, votes>> /\ job[p].step = "idle"
  BY DEF Analyze
<1>3. x \in SUBSET Contributions /\ OwnFamily(s, x) /\ ~Travelled(s, x)
  BY AnswerSound
<1>4. job \in [Sessions -> Job] /\ job[p] \in Job /\ job[p].row = 0
  BY <1>2 DEF KnowledgeInv, TypeOK, JobsInStep
<1>5. /\ \A o \in Sessions \ {p} : job'[o] = job[o]
      /\ job'[p].step = "commit" /\ job'[p].source = s /\ job'[p].solution = x
      /\ job'[p].vote = 0 /\ job'[p].row = 0
  BY <1>1, <1>4 DEF Job
<1>6. job' \in [Sessions -> Job]
  BY <1>1, <1>3, <1>4 DEF Job, Score
<1>7. TypeOK' /\ JobsInStep'
  BY <1>2, <1>5, <1>6 DEF KnowledgeInv, TypeOK, JobsInStep
<1>8. FamilyIsolation'
  BY <1>2, <1>3, <1>5 DEF KnowledgeInv, FamilyIsolation
<1>9. PraiseExplains'
  BY <1>2, <1>3, <1>5 DEF KnowledgeInv, PraiseExplains, TravelsOnlyPraised, Travelled, PraisedIdentity
<1>10. OnlyOverlapsDuplicate' /\ InsertsAreNew'
  BY <1>2, <1>5 DEF KnowledgeInv, OnlyOverlapsDuplicate, InsertsAreNew
<1>11. QED
  BY <1>7, <1>8, <1>9, <1>10 DEF KnowledgeInv

\* ... its commit ...
LEMMA CommitPreserves ==
    ASSUME KnowledgeInv, NEW p \in Sessions, Commit(p)
    PROVE  KnowledgeInv'
<1> DEFINE q == job[p]
           e == [source |-> q.source, solution |-> q.solution, score |-> 0, live |-> TRUE]
<1>1. /\ history' = Append(history, e) /\ Len(history) < MaxEntries
      /\ UNCHANGED <<knowledge, praised, votes>> /\ q.step = "commit"
      /\ job' = Idle(p) \/ job' = [job EXCEPT ![p].step = "lookup"]
  BY DEF Commit
<1>2. job \in [Sessions -> Job] /\ q \in Job /\ q.row = 0
  BY <1>1 DEF KnowledgeInv, TypeOK, JobsInStep
<1>3. e \in Entry
  BY <1>2 DEF Job, Entry, Score
<1>4. /\ history' \in Seq(Entry) /\ Len(history') <= MaxEntries
      /\ \A i \in DOMAIN history' : history'[i] = e \/ (i \in DOMAIN history /\ history'[i] = history[i])
  <2> HIDE DEF e
  <2>1. history \in Seq(Entry)
    BY DEF KnowledgeInv, TypeOK
  <2>2. history' = Append(history, e) /\ Len(history) < MaxEntries
    BY <1>1
  <2>3. history' \in Seq(Entry) /\ Len(history') = Len(history) + 1
    BY <1>3, <2>1, <2>2
  <2>4. \A i \in DOMAIN history' : history'[i] = e \/ (i \in DOMAIN history /\ history'[i] = history[i])
    BY <1>3, <2>1, <2>2
  <2>5. QED
    BY <2>1, <2>2, <2>3, <2>4, BoundsAssumption
<1>5. /\ job' \in [Sessions -> Job]
      /\ \A o \in Sessions \ {p} : job'[o] = job[o]
      /\ \/ job'[p].step = "idle"
         \/ /\ job'[p].step = "lookup" /\ job'[p].source = q.source
            /\ job'[p].solution = q.solution /\ job'[p].vote = q.vote
      /\ job'[p].row = 0
  <2>1. CASE job' = Idle(p)
    BY <1>2, <2>1, NoJobTyped DEF Idle, NoJob
  <2>2. CASE job' = [job EXCEPT ![p].step = "lookup"]
    BY <1>2, <2>2 DEF Job
  <2>3. QED
    BY <1>1, <2>1, <2>2
<1>6. OwnFamily(e.source, e.solution) /\ ~Travelled(e.source, e.solution)
  BY <1>1 DEF KnowledgeInv, FamilyIsolation, PraiseExplains
<1>7. TypeOK' /\ JobsInStep'
  <2>1. /\ \A o \in Sessions : job[o].step # "write" => job[o].row = 0
        /\ \A o \in Sessions : job[o].step = "write" /\ job[o].row # 0 =>
              /\ job[o].row \in DOMAIN knowledge
              /\ Key(knowledge[job[o].row].source) = Key(job[o].source)
        /\ knowledge \in Seq(Row) /\ praised \subseteq Sources /\ votes \in 0 .. MaxVotes
    BY DEF KnowledgeInv, TypeOK, JobsInStep
  <2>2. JobsInStep'
    BY <1>5, <2>1 DEF JobsInStep
  <2>3. \A o \in Sessions : job'[o].step = "write" /\ job'[o].row # 0 =>
              /\ job'[o].row \in DOMAIN knowledge
              /\ Key(knowledge[job'[o].row].source) = Key(job'[o].source)
    BY <1>5, <2>1
  <2>4. QED
    BY <1>1, <1>4, <1>5, <2>1, <2>2, <2>3 DEF TypeOK
<1>8. FamilyIsolation'
  BY <1>1, <1>4, <1>5, <1>6 DEF KnowledgeInv, FamilyIsolation
<1>9. PraiseExplains'
  BY <1>1, <1>4, <1>5, <1>6 DEF KnowledgeInv, PraiseExplains, TravelsOnlyPraised, Travelled, PraisedIdentity
<1>10. OnlyOverlapsDuplicate' /\ InsertsAreNew'
  BY <1>1, <1>5 DEF KnowledgeInv, OnlyOverlapsDuplicate, InsertsAreNew
<1>11. QED
  BY <1>7, <1>8, <1>9, <1>10 DEF KnowledgeInv

\* A vote may add praise; whatever was explained by praise still is.
LEMMA VotePreserves ==
    ASSUME KnowledgeInv, NEW p \in Sessions, NEW i \in DOMAIN history, NEW score \in {-1, 1},
           NEW solution \in {history[i].solution, {history[i].source}},
           NEW sync \in BOOLEAN, Vote(p, i, score, solution, sync)
    PROVE  KnowledgeInv'
<1> DEFINE e == history[i]
<1>1. /\ history' = [history EXCEPT ![i].score = score, ![i].solution = solution]
      /\ praised' = IF score > 0 THEN praised \cup {e.source} ELSE praised
      /\ votes < MaxVotes /\ votes' = votes + 1 /\ knowledge' = knowledge
      /\ job[p].step = "idle"
  BY DEF Vote
<1>2. history \in Seq(Entry) /\ e \in Entry
  BY DEF KnowledgeInv, TypeOK
<1>3. e.source \in Sources /\ e.solution \in SUBSET Contributions
  BY <1>2 DEF Entry
<1>4. solution \in SUBSET Contributions /\ OwnFamily(e.source, solution) /\ ~Travelled(e.source, solution)
  <2>1. CASE solution = e.solution
    BY <1>3, <2>1 DEF KnowledgeInv, FamilyIsolation, PraiseExplains, TravelsOnlyPraised
  <2>2. CASE solution = {e.source}
    BY <1>3, <2>2, ItselfSound DEF OwnFamily, Travelled, Contributions
  <2>3. QED
    BY <2>1, <2>2
<1>5. /\ history' \in Seq(Entry) /\ Len(history') = Len(history) /\ DOMAIN history' = DOMAIN history
      /\ history'[i].source = e.source /\ history'[i].solution = solution
      /\ \A k \in DOMAIN history \ {i} : history'[k] = history[k]
  <2>1. [e EXCEPT !.score = score, !.solution = solution] \in Entry
    BY <1>2, <1>4 DEF Entry, Score
  <2>2. history' = [history EXCEPT ![i] = [e EXCEPT !.score = score, !.solution = solution]]
    BY <1>1
  <2>3. /\ history'[i] = [e EXCEPT !.score = score, !.solution = solution]
        /\ \A k \in DOMAIN history \ {i} : history'[k] = history[k]
        /\ DOMAIN history' = DOMAIN history
    BY <2>2
  <2>4. history' \in Seq(Entry) /\ Len(history') = Len(history)
    <3> DEFINE f == [e EXCEPT !.score = score, !.solution = solution]
    <3> HIDE DEF e, f
    <3>1. QED
      BY <1>2, <2>1, <2>2 DEF f
  <2>5. history'[i].source = e.source /\ history'[i].solution = solution
    BY <1>2, <2>3 DEF Entry
  <2>6. QED
    BY <2>3, <2>4, <2>5
<1>6. /\ job' \in [Sessions -> Job]
      /\ \A o \in Sessions \ {p} : job'[o] = job[o]
      /\ job'[p].row = 0
      /\ \/ job'[p].step = "idle"
         \/ /\ job'[p].step = "lookup" /\ job'[p].source = e.source
            /\ job'[p].solution = solution /\ job'[p].vote = score
  <2>1. job \in [Sessions -> Job] /\ job[p] \in Job /\ job[p].row = 0
    BY <1>1 DEF KnowledgeInv, TypeOK, JobsInStep
  <2>2. CASE ~sync
    BY <1>1, <2>1, <2>2 DEF Vote
  <2>3. CASE sync
    <3>1. job' = [job EXCEPT ![p].step = "lookup", ![p].source = e.source,
                             ![p].solution = solution, ![p].vote = score]
      BY <2>3 DEF Vote
    <3>2. QED
      BY <1>3, <1>4, <2>1, <3>1 DEF Job, Score
  <2>4. QED
    BY <2>2, <2>3
<1>7. praised' \subseteq Sources /\ praised \subseteq praised' /\ (score > 0 => e.source \in praised')
  BY <1>1, <1>3 DEF KnowledgeInv, TypeOK
<1> HIDE DEF e
<1>8. TypeOK' /\ JobsInStep'
  <2>1. votes' \in 0 .. MaxVotes
    BY <1>1, BoundsAssumption DEF KnowledgeInv, TypeOK
  <2>2. knowledge' = knowledge /\ knowledge' \in Seq(Row)
    BY <1>1 DEF KnowledgeInv, TypeOK
  <2>3. ASSUME NEW o \in Sessions, job'[o].step = "write", job'[o].row # 0
        PROVE  /\ job'[o].row \in DOMAIN knowledge'
               /\ Key(knowledge'[job'[o].row].source) = Key(job'[o].source)
    <3>1. o # p /\ job'[o] = job[o]
      BY <1>6, <2>3
    <3>2. QED
      BY <2>2, <2>3, <3>1 DEF KnowledgeInv, TypeOK
  <2>4. Len(history') <= MaxEntries /\ history' \in Seq(Entry)
    BY <1>5 DEF KnowledgeInv, TypeOK
  <2>5. TypeOK'
    BY <1>6, <1>7, <2>1, <2>2, <2>3, <2>4 DEF TypeOK
  <2>6. JobsInStep'
    BY <1>1, <1>6 DEF KnowledgeInv, JobsInStep
  <2>7. QED
    BY <2>5, <2>6
<1>9. FamilyIsolation'
  <2>1. \A k \in DOMAIN history' : OwnFamily(history'[k].source, history'[k].solution)
    BY <1>4, <1>5 DEF KnowledgeInv, FamilyIsolation
  <2>2. \A o \in Sessions : job'[o].step # "idle" => OwnFamily(job'[o].source, job'[o].solution)
    BY <1>4, <1>6 DEF KnowledgeInv, FamilyIsolation
  <2>3. QED
    BY <1>1, <2>1, <2>2 DEF KnowledgeInv, FamilyIsolation
<1>10. TravelsOnlyPraised'
  BY <1>1, <1>4, <1>5, <1>7 DEF KnowledgeInv, PraiseExplains, TravelsOnlyPraised, Travelled, e
<1>11. PraiseExplains'
  <2>1. (\A o \in Sessions : job[o].step # "idle" => ~Travelled(job[o].source, job[o].solution))'
    BY <1>4, <1>6, <1>7 DEF KnowledgeInv, PraiseExplains, Travelled
  <2>2. (\A o \in Sessions :
            job[o].step # "idle" /\ job[o].vote > 0 => PraisedIdentity(job[o].source))'
    BY <1>6, <1>7 DEF KnowledgeInv, PraiseExplains, PraisedIdentity
  <2>3. (\A k \in DOMAIN knowledge :
            knowledge[k].score > 0 => PraisedIdentity(knowledge[k].source))'
    BY <1>1, <1>7 DEF KnowledgeInv, PraiseExplains, PraisedIdentity
  <2>4. QED
    BY <1>10, <2>1, <2>2, <2>3 DEF PraiseExplains
<1>12. OnlyOverlapsDuplicate' /\ InsertsAreNew'
  BY <1>1, <1>6 DEF KnowledgeInv, OnlyOverlapsDuplicate, InsertsAreNew
<1>13. QED
  BY <1>8, <1>9, <1>11, <1>12 DEF KnowledgeInv

\* ... a solution that is deleted ...
LEMMA DeletePreserves ==
    ASSUME KnowledgeInv, NEW i \in DOMAIN history, DeleteHistory(i)
    PROVE  KnowledgeInv'
<1>1. /\ history' = [history EXCEPT ![i].live = FALSE]
      /\ UNCHANGED <<knowledge, job, praised, votes>>
  BY DEF DeleteHistory
<1>2. history \in Seq(Entry) /\ history[i] \in Entry
  BY DEF KnowledgeInv, TypeOK
<1>3. /\ history' \in Seq(Entry) /\ Len(history') = Len(history) /\ DOMAIN history' = DOMAIN history
      /\ \A k \in DOMAIN history : /\ history'[k].source = history[k].source
                                  /\ history'[k].solution = history[k].solution
  <2> DEFINE e == [history[i] EXCEPT !.live = FALSE]
  <2>1. e \in Entry /\ e.source = history[i].source /\ e.solution = history[i].solution
    BY <1>2 DEF Entry
  <2>2. history' = [history EXCEPT ![i] = e]
    BY <1>1
  <2> HIDE DEF e
  <2>3. QED
    BY <1>2, <2>1, <2>2
<1>4. TypeOK' /\ JobsInStep'
  BY <1>1, <1>3 DEF KnowledgeInv, TypeOK, JobsInStep
<1>5. FamilyIsolation'
  BY <1>1, <1>3 DEF KnowledgeInv, FamilyIsolation
<1>6. PraiseExplains'
  BY <1>1, <1>3 DEF KnowledgeInv, PraiseExplains, TravelsOnlyPraised, Travelled, PraisedIdentity
<1>7. OnlyOverlapsDuplicate' /\ InsertsAreNew'
  BY <1>1 DEF KnowledgeInv, OnlyOverlapsDuplicate, InsertsAreNew
<1>8. QED
  BY <1>4, <1>5, <1>6, <1>7 DEF KnowledgeInv

\* A look-up that finds nothing, or fails, leaves a session that may insert.
LEMMA MissPreserves ==
    ASSUME KnowledgeInv, NEW p \in Sessions, NEW seen \in 0 .. Len(knowledge),
           job[p].step = "lookup", Missed(p, seen),
           \A i \in DOMAIN knowledge : Key(knowledge[i].source) = Key(job[p].source) => seen < i,
           UNCHANGED <<history, knowledge, praised, votes>>
    PROVE  KnowledgeInv'
<1>1. CASE job' = Idle(p)
  BY <1>1, EndingPreserves
<1>2. CASE job' = [job EXCEPT ![p].step = "write", ![p].seen = seen]
  <2>1. job \in [Sessions -> Job] /\ job[p] \in Job /\ job[p].row = 0 /\ seen \in Nat
    BY DEF KnowledgeInv, TypeOK, JobsInStep
  <2>2. /\ job' \in [Sessions -> Job]
        /\ \A o \in Sessions \ {p} : job'[o] = job[o]
        /\ job'[p].step = "write" /\ job'[p].row = 0 /\ job'[p].seen = seen
        /\ job'[p].source = job[p].source /\ job'[p].solution = job[p].solution
        /\ job'[p].vote = job[p].vote
    BY <1>2, <2>1 DEF Job
  <2>3. TypeOK' /\ JobsInStep'
    BY <2>2 DEF KnowledgeInv, TypeOK, JobsInStep
  <2>4. FamilyIsolation'
    BY <2>2 DEF KnowledgeInv, FamilyIsolation
  <2>5. PraiseExplains'
    BY <2>2 DEF KnowledgeInv, PraiseExplains, TravelsOnlyPraised, Travelled, PraisedIdentity
  <2>6. OnlyOverlapsDuplicate' /\ InsertsAreNew'
    BY <2>2 DEF KnowledgeInv, OnlyOverlapsDuplicate, InsertsAreNew
  <2>7. QED
    BY <2>3, <2>4, <2>5, <2>6 DEF KnowledgeInv
<1>3. QED
  BY <1>1, <1>2 DEF Missed

\* ... and a look into the base, whether it hits, misses or fails.
LEMMA LookupPreserves ==
    ASSUME KnowledgeInv, NEW p \in Sessions, Lookup(p) \/ LookupHits(p) \/ LookupFails(p)
    PROVE  KnowledgeInv'
<1>1. knowledge \in Seq(Row) /\ job \in [Sessions -> Job] /\ job[p] \in Job
  BY DEF KnowledgeInv, TypeOK
<1>2. CASE Lookup(p)
  BY <1>1, <1>2, MissPreserves DEF Lookup, Exact
<1>3. CASE LookupFails(p)
  BY <1>1, <1>3, MissPreserves DEF LookupFails
<1>4. CASE LookupHits(p)
  <2>1. PICK i \in DOMAIN knowledge :
           /\ Key(knowledge[i].source) = Key(job[p].source)
           /\ job' = [job EXCEPT ![p].step = "write", ![p].row = i, ![p].read = knowledge[i]]
    BY <1>4 DEF LookupHits, Exact
  <2>2. UNCHANGED <<history, knowledge, praised, votes>> /\ job[p].step = "lookup"
    BY <1>4 DEF LookupHits
  <2>3. /\ job' \in [Sessions -> Job]
        /\ \A o \in Sessions \ {p} : job'[o] = job[o]
        /\ job'[p].step = "write" /\ job'[p].row = i /\ i # 0
        /\ job'[p].source = job[p].source /\ job'[p].solution = job[p].solution
        /\ job'[p].vote = job[p].vote
    <3>1. i \in Nat /\ i # 0 /\ knowledge[i] \in Row
      BY <1>1
    <3>2. QED
      BY <1>1, <2>1, <3>1 DEF Job
  <2>4. TypeOK' /\ JobsInStep'
    BY <2>1, <2>2, <2>3 DEF KnowledgeInv, TypeOK, JobsInStep
  <2>5. FamilyIsolation'
    BY <2>2, <2>3 DEF KnowledgeInv, FamilyIsolation
  <2>6. PraiseExplains'
    BY <2>2, <2>3 DEF KnowledgeInv, PraiseExplains, TravelsOnlyPraised, Travelled, PraisedIdentity
  <2>7. OnlyOverlapsDuplicate' /\ InsertsAreNew'
    BY <2>2, <2>3 DEF KnowledgeInv, OnlyOverlapsDuplicate, InsertsAreNew
  <2>8. QED
    BY <2>4, <2>5, <2>6, <2>7 DEF KnowledgeInv
<1>5. QED
  BY <1>2, <1>3, <1>4

\* An inserted row goes behind those its look-up saw and those stored since.
LEMMA InsertPreserves ==
    ASSUME KnowledgeInv, NEW p \in Sessions, Insert(p)
    PROVE  KnowledgeInv'
<1> DEFINE q == job[p]
           r == [source |-> q.source, solution |-> q.solution, score |-> q.vote, seen |-> q.seen]
           n == Len(knowledge) + 1
<1>1. /\ knowledge' = Append(knowledge, r) /\ job' = Idle(p)
      /\ UNCHANGED <<history, praised, votes>>
      /\ q.step = "write" /\ q.row = 0
  BY DEF Insert
<1>2. job \in [Sessions -> Job] /\ q \in Job /\ knowledge \in Seq(Row)
  BY DEF KnowledgeInv, TypeOK
<1>3. /\ r \in Row /\ r.source = q.source /\ r.solution = q.solution
      /\ r.score = q.vote /\ r.seen = q.seen
  BY <1>2 DEF Job, Row
<1>4. /\ job' \in [Sessions -> Job]
      /\ \A o \in Sessions \ {p} : job'[o] = job[o]
      /\ job'[p].step = "idle" /\ job'[p].row = 0
  BY <1>1, <1>2, NoJobTyped DEF Idle, NoJob
<1> HIDE DEF q, r
<1>5. /\ knowledge' \in Seq(Row) /\ Len(knowledge') = n /\ DOMAIN knowledge' = DOMAIN knowledge \cup {n}
      /\ \A i \in DOMAIN knowledge : knowledge'[i] = knowledge[i]
      /\ knowledge'[n] = r
  BY <1>1, <1>2, <1>3
<1>6. /\ q.seen <= Len(knowledge)
      /\ \A i \in DOMAIN knowledge : Key(knowledge[i].source) = Key(q.source) => q.seen < i
  BY <1>1 DEF KnowledgeInv, InsertsAreNew, q
<1>7. OwnFamily(r.source, r.solution) /\ ~Travelled(r.source, r.solution)
      /\ (r.score > 0 => PraisedIdentity(r.source))
  BY <1>1, <1>3 DEF KnowledgeInv, FamilyIsolation, PraiseExplains, q
<1>8. TypeOK' /\ JobsInStep'
  BY <1>1, <1>4, <1>5 DEF KnowledgeInv, TypeOK, JobsInStep
<1>9. FamilyIsolation'
  BY <1>1, <1>4, <1>5, <1>7 DEF KnowledgeInv, FamilyIsolation
<1>10. PraiseExplains'
  BY <1>1, <1>4, <1>5, <1>7 DEF KnowledgeInv, PraiseExplains, TravelsOnlyPraised, Travelled, PraisedIdentity
<1>11. OnlyOverlapsDuplicate'
  BY <1>2, <1>3, <1>5, <1>6 DEF KnowledgeInv, OnlyOverlapsDuplicate
<1>12. InsertsAreNew'
  <2> SUFFICES ASSUME NEW o \in Sessions, job'[o].step = "write", job'[o].row = 0
               PROVE  /\ job'[o].seen <= Len(knowledge')
                      /\ \A i \in DOMAIN knowledge' :
                            Key(knowledge'[i].source) = Key(job'[o].source) => job'[o].seen < i
    BY DEF InsertsAreNew
  <2>1. job'[o] = job[o]
    BY <1>4
  <2>2. /\ job[o].seen <= Len(knowledge)
        /\ \A i \in DOMAIN knowledge :
              Key(knowledge[i].source) = Key(job[o].source) => job[o].seen < i
    BY <2>1 DEF KnowledgeInv, InsertsAreNew
  <2>3. job[o].seen \in Nat /\ Len(knowledge) \in Nat
    BY <1>2 DEF Job
  <2>4. job[o].seen < n /\ job[o].seen <= n
    BY <2>2, <2>3
  <2>5. QED
    BY <1>5, <2>1, <2>2, <2>4
<1>13. QED
  BY <1>8, <1>9, <1>10, <1>11, <1>12 DEF KnowledgeInv

\* The columns an update writes and those it leaves may come from different
\* sessions; they agree all the same, as both are about one event and text.
LEMMA UpdatePreserves ==
    ASSUME KnowledgeInv, NEW p \in Sessions, Update(p)
    PROVE  KnowledgeInv'
<1> DEFINE q == job[p]
           k == q.row
           row == knowledge[k]
           fresh == q.solution # q.read.solution \/ q.source # q.read.source
           new == [row EXCEPT !.score = IF q.vote # q.read.score THEN q.vote ELSE @,
                              !.solution = IF fresh THEN q.solution ELSE @,
                              !.source = IF fresh THEN q.source ELSE @]
<1>1. /\ knowledge' = [knowledge EXCEPT ![k] = new] /\ job' = Idle(p)
      /\ UNCHANGED <<history, praised, votes>>
      /\ q.step = "write" /\ k # 0
  BY DEF Update
<1>2. job \in [Sessions -> Job] /\ q \in Job /\ knowledge \in Seq(Row)
  BY DEF KnowledgeInv, TypeOK
<1>3. k \in DOMAIN knowledge /\ Key(row.source) = Key(q.source) /\ row \in Row
  BY <1>1, <1>2 DEF KnowledgeInv, TypeOK
<1>4. /\ new \in Row /\ new.seen = row.seen
      /\ new.score \in {q.vote, row.score}
      /\ \/ new.source = q.source /\ new.solution = q.solution
         \/ new.source = row.source /\ new.solution = row.solution
  BY <1>2, <1>3 DEF Job, Row
<1>5. /\ job' \in [Sessions -> Job]
      /\ \A o \in Sessions \ {p} : job'[o] = job[o]
      /\ job'[p].step = "idle" /\ job'[p].row = 0
  BY <1>1, <1>2, NoJobTyped DEF Idle, NoJob
<1>6. /\ OwnFamily(q.source, q.solution) /\ ~Travelled(q.source, q.solution)
      /\ q.vote > 0 => PraisedIdentity(q.source)
      /\ OwnFamily(row.source, row.solution) /\ ~Travelled(row.source, row.solution)
      /\ row.score > 0 => PraisedIdentity(row.source)
  BY <1>1, <1>3 DEF KnowledgeInv, FamilyIsolation, PraiseExplains, TravelsOnlyPraised
<1>7. q.source \in Sources /\ row.source \in Sources
  BY <1>2, <1>3 DEF Job, Row
<1> HIDE DEF q, row, new, fresh
<1>8. /\ knowledge' \in Seq(Row) /\ Len(knowledge') = Len(knowledge) /\ DOMAIN knowledge' = DOMAIN knowledge
      /\ \A i \in DOMAIN knowledge \ {k} : knowledge'[i] = knowledge[i]
      /\ knowledge'[k] = new
  BY <1>1, <1>2, <1>3, <1>4
<1>9. Identity(row.source) = Identity(q.source)
  BY <1>3, <1>7, IdentityIsEvent DEF Key
<1>10. /\ OwnFamily(new.source, new.solution) /\ ~Travelled(new.source, new.solution)
       /\ new.score > 0 => PraisedIdentity(new.source)
       /\ Key(new.source) = Key(row.source)
  BY <1>3, <1>4, <1>6, <1>9 DEF PraisedIdentity
<1>11. \A i \in DOMAIN knowledge : /\ Key(knowledge'[i].source) = Key(knowledge[i].source)
                                   /\ knowledge'[i].seen = knowledge[i].seen
  BY <1>4, <1>8, <1>10 DEF row
<1>12. TypeOK' /\ JobsInStep'
  <2>1. /\ \A o \in Sessions : job[o].step # "write" => job[o].row = 0
        /\ \A o \in Sessions : job[o].step = "write" /\ job[o].row # 0 =>
              /\ job[o].row \in DOMAIN knowledge
              /\ Key(knowledge[job[o].row].source) = Key(job[o].source)
        /\ history \in Seq(Entry) /\ Len(history) <= MaxEntries
        /\ praised \subseteq Sources /\ votes \in 0 .. MaxVotes
    BY DEF KnowledgeInv, TypeOK, JobsInStep
  <2>2. JobsInStep'
    BY <1>5, <2>1 DEF JobsInStep
  <2>3. \A o \in Sessions : job'[o].step = "write" /\ job'[o].row # 0 =>
              /\ job'[o].row \in DOMAIN knowledge'
              /\ Key(knowledge'[job'[o].row].source) = Key(job'[o].source)
    BY <1>5, <1>8, <1>11, <2>1
  <2>4. QED
    BY <1>1, <1>5, <1>8, <2>1, <2>2, <2>3 DEF TypeOK
<1>13. FamilyIsolation'
  BY <1>1, <1>5, <1>8, <1>10 DEF KnowledgeInv, FamilyIsolation
<1>14. PraiseExplains'
  BY <1>1, <1>5, <1>8, <1>10 DEF KnowledgeInv, PraiseExplains, TravelsOnlyPraised, Travelled, PraisedIdentity
<1>15. OnlyOverlapsDuplicate'
  BY <1>8, <1>11 DEF KnowledgeInv, OnlyOverlapsDuplicate
<1>16. InsertsAreNew'
  BY <1>5, <1>8, <1>11 DEF KnowledgeInv, InsertsAreNew
<1>17. QED
  BY <1>12, <1>13, <1>14, <1>15, <1>16 DEF KnowledgeInv

-----------------------------------------------------------------------------
\* No step breaks the invariant.
LEMMA StepPreserves == KnowledgeInv /\ [Next]_vars => KnowledgeInv'
<1> SUFFICES ASSUME KnowledgeInv, [Next]_vars PROVE KnowledgeInv'
  OBVIOUS
<1>1. ASSUME NEW p \in Sessions, NEW s \in Sources, Analyze(p, s) PROVE KnowledgeInv'
  BY <1>1, AnalyzePreserves
<1>2. ASSUME NEW p \in Sessions, NEW i \in DOMAIN history, SubmitFeedback(p, i) \/ Feedback(p, i)
      PROVE  KnowledgeInv'
  <2>1. PICK score \in {-1, 1}, solution \in {history[i].solution, {history[i].source}},
             sync \in BOOLEAN : Vote(p, i, score, solution, sync)
    <3>1. CASE SubmitFeedback(p, i)
      BY <3>1 DEF SubmitFeedback
    <3>2. CASE Feedback(p, i)
      <4>1. PICK score \in {-1, 1}, solution \in {history[i].solution, {history[i].source}} :
               Vote(p, i, score, solution, score > 0)
        BY <3>2 DEF Feedback
      <4>2. (score > 0) \in BOOLEAN
        OBVIOUS
      <4>3. QED
        BY <4>1, <4>2
    <3>3. QED
      BY <1>2, <3>1, <3>2
  <2>2. QED
    BY <2>1, VotePreserves
<1>3. ASSUME NEW p \in Sessions, Commit(p) PROVE KnowledgeInv'
  BY <1>3, CommitPreserves
<1>4. ASSUME NEW p \in Sessions, Lookup(p) \/ LookupHits(p) \/ LookupFails(p) PROVE KnowledgeInv'
  BY <1>4, LookupPreserves
<1>5. ASSUME NEW p \in Sessions, Insert(p) PROVE KnowledgeInv'
  BY <1>5, InsertPreserves
<1>6. ASSUME NEW p \in Sessions, Update(p) PROVE KnowledgeInv'
  BY <1>6, UpdatePreserves
<1>7. ASSUME NEW p \in Sessions, GiveUp(p) PROVE KnowledgeInv'
  BY <1>7, EndingPreserves DEF GiveUp
<1>8. ASSUME NEW i \in DOMAIN history, DeleteHistory(i) PROVE KnowledgeInv'
  BY <1>8, DeletePreserves
<1>9. CASE UNCHANGED vars
  BY <1>9 DEF vars, KnowledgeInv, TypeOK, JobsInStep, FamilyIsolation, PraiseExplains,
              TravelsOnlyPraised, Travelled, PraisedIdentity, OnlyOverlapsDuplicate, InsertsAreNew
<1>10. QED
  BY <1>1, <1>2, <1>3, <1>4, <1>5, <1>6, <1>7, <1>8, <1>9 DEF Next

\* The knowledge, the history and the sessions keep the invariant.
THEOREM KnowledgeSafe == Spec => []KnowledgeInv
BY InvInit, StepPreserves, PTL DEF Spec

\* The tables hold what the schema says, and a session writes only to a row
\* that was stored for its own event and text (add_solution).
THEOREM KnowledgeTyped == Spec => []TypeOK
BY KnowledgeSafe, PTL DEF KnowledgeInv

\* Whatever is answered, stored or about to be stored for a source was found
\* out about sources of its family, or is an article on a number of its family
\* (_is_usable_knowledge_row, get_curated_summary); Veeam and VMware get nothing
\* about Windows, and Windows nothing else.
THEOREM FamiliesIsolated == Spec => []FamilyIsolation
BY KnowledgeSafe, PTL DEF KnowledgeInv

\* A solution reaches a source with another diagnostic identity only if a user
\* praised an analysis of the identity it comes from (search_similar_logs).
THEOREM PraiseTravels == Spec => []TravelsOnlyPraised
BY KnowledgeSafe, PTL DEF KnowledgeInv, PraiseExplains

\* Of two rows for one event and text the later one was inserted after a
\* look-up that did not see the earlier (add_solution).
THEOREM DuplicatesOverlap == Spec => []OnlyOverlapsDuplicate
BY KnowledgeSafe, PTL DEF KnowledgeInv

=============================================================================
