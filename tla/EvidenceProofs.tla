---------------------------- MODULE EvidenceProofs ----------------------------
(***************************************************************************)
(* The two ways in which evidence reaches the analyzer, and the answer     *)
(* that is given to it.                                                    *)
(*                                                                         *)
(* For any reports, assets, keys, requests and limits: the counters of an  *)
(* import add up, only imports that overlap or a report that repeats       *)
(* itself store an event twice, and the import implements the evidence     *)
(* store.                                                                  *)
(*                                                                         *)
(* For any files and limits: a bundle is read within the sizes allowed, a  *)
(* long text is cut to its bound with every signal near something kept,    *)
(* the verdict rests on what the named files have in common, and neither   *)
(* the clocks' offsets nor the order of upload changes what is told.       *)
(*                                                                         *)
(* For any requests, anchors and pages: what an answer cites, one          *)
(* operation of the log calls for.                                         *)
(***************************************************************************)
EXTENDS EvidenceImport, EvidenceBundle, Solutions, FiniteSetTheorems, WellFoundedInduction, TLAPS

Counted(q) == q.count.analyzed + q.count.broken

\* How the counters stand at each step of a request: what is looked up is not
\* counted yet; what is stored is new; what is to be analysed was stored.
StepCounts(q) ==
    LET c == q.count IN
    /\ q.step = "lookup" => c.received = c.failed + Len(q.events) /\ Counted(q) = 0
    /\ q.step # "lookup" => c.received = c.new + c.duplicate + c.failed
    /\ q.step = "store" => q.events # <<>> /\ c.new = Len(q.events) /\ Counted(q) = 0
    /\ q.step \in {"select", "analyze"} => q.todo # <<>>
    /\ q.step \in {"select", "analyze"} =>
          Len(q.todo) + Counted(q) <= c.new /\ Len(q.todo) + Counted(q) <= AnalyzeMax
    /\ q.step = "idle" => Counted(q) <= c.new /\ Counted(q) <= AnalyzeMax

StepsCount == \A r \in Imports : StepCounts(job[r])

\* What an import is about to store is newer than every row of its identity
\* that its look-up saw.
StoresAreNew ==
    \A r \in Imports : job[r].step = "store" =>
        \A n \in DOMAIN job[r].events, i \in Rows :
            Identity(i) = <<job[r].asset, KeyOf[job[r].events[n]]>> => job[r].seen < i

ImportInv ==
    /\ TypeOK
    /\ StepsCount
    /\ OnlyRacesDuplicate
    /\ StoresAreNew

-----------------------------------------------------------------------------
(* Counting: the n-th element of a finite order exists.                     *)

Below(S, R, x) == {y \in S : <<y, x>> \in R}

\* In a finite set with a strict total order there is, for each n up to its
\* size, an element with n - 1 others before it: the number of those before it
\* tells two elements apart, so that no number is left out.
LEMMA RankExists ==
    ASSUME NEW S, IsFiniteSet(S), NEW R,
           \A x \in S : <<x, x>> \notin R,
           \A x, y, z \in S : <<x, y>> \in R /\ <<y, z>> \in R => <<x, z>> \in R,
           \A x, y \in S : x = y \/ <<x, y>> \in R \/ <<y, x>> \in R,
           NEW n \in 1 .. Cardinality(S)
    PROVE  \E x \in S : Cardinality(Below(S, R, x)) = n - 1
<1> DEFINE size == Cardinality(S)
           rank == [x \in S |-> Cardinality(Below(S, R, x))]
<1>1. size \in Nat
  BY FS_CardinalityType
<1>2. ASSUME NEW x \in S PROVE IsFiniteSet(Below(S, R, x)) /\ Cardinality(Below(S, R, x)) \in 0 .. size - 1
  <2>1. IsFiniteSet(S \ {x}) /\ Cardinality(S \ {x}) = size - 1
    BY FS_RemoveElement
  <2>2. Below(S, R, x) \in SUBSET (S \ {x})
    BY DEF Below
  <2>3. IsFiniteSet(Below(S, R, x)) /\ Cardinality(Below(S, R, x)) <= size - 1
    BY <2>1, <2>2, FS_Subset
  <2>4. Cardinality(Below(S, R, x)) \in Nat
    BY <2>3, FS_CardinalityType
  <2>5. QED
    BY <2>3, <2>4, <1>1
<1>3. ASSUME NEW x \in S, NEW z \in S, <<x, z>> \in R PROVE rank[x] # rank[z]
  <2>1. Below(S, R, x) \in SUBSET Below(S, R, z) /\ x \in Below(S, R, z) /\ x \notin Below(S, R, x)
    BY <1>3 DEF Below
  <2>2. Below(S, R, x) # Below(S, R, z)
    BY <2>1
  <2>3. Cardinality(Below(S, R, z)) # Cardinality(Below(S, R, x))
    BY <1>2, <2>1, <2>2, FS_Subset
  <2>4. QED
    BY <2>3
<1>4. SUFFICES ASSUME \A x \in S : rank[x] # n - 1 PROVE FALSE
  OBVIOUS
<1> DEFINE U == 0 .. size - 1
           T == U \ {n - 1}
<1>5. IsFiniteSet(T) /\ Cardinality(T) = size - 1
  <2>1. n - 1 \in U
    BY <1>1
  <2> HIDE DEF size
  <2>2. IsFiniteSet(U) /\ Cardinality(U) = size
    BY <1>1, FS_Interval
  <2> HIDE DEF U
  <2>3. QED
    BY <2>1, <2>2, FS_RemoveElement
<1>6. rank \in [S -> T]
  BY <1>2, <1>4
<1> HIDE DEF rank, T, size
<1>7. \E x, y \in S : x # y /\ rank[x] = rank[y]
  BY <1>1, <1>5, <1>6, FS_PigeonHole DEF size
<1>8. QED
  BY <1>3, <1>7

\* The n-th position is one of the positions.
LEMMA NthIn ==
    ASSUME NEW positions \in SUBSET Nat, IsFiniteSet(positions),
           NEW n \in 1 .. Cardinality(positions)
    PROVE  Nth(positions, n) \in positions
<1> DEFINE R == {z \in Nat \X Nat : z[1] < z[2]}
<1>1. \A x, y \in Nat : <<x, y>> \in R <=> x < y
  OBVIOUS
<1>2. \A x, y \in Nat : x = y \/ x < y \/ y < x
  OBVIOUS
<1> HIDE DEF R
<1>3. \E x \in positions : Cardinality(Below(positions, R, x)) = n - 1
  <2>1. \A x \in positions : <<x, x>> \notin R
    BY <1>1
  <2>2. \A x, y, z \in positions : <<x, y>> \in R /\ <<y, z>> \in R => <<x, z>> \in R
    BY <1>1
  <2>3. \A x, y \in positions : x = y \/ <<x, y>> \in R \/ <<y, x>> \in R
    BY <1>1, <1>2
  <2>4. QED
    BY <2>1, <2>2, <2>3, RankExists
<1>4. \A x \in positions : Below(positions, R, x) = {y \in positions : y < x}
  BY <1>1 DEF Below
<1>5. QED
  BY <1>3, <1>4 DEF Nth

\* What is kept of a list is good, and no more than the list.
LEMMA KeptGood ==
    ASSUME NEW X, NEW list \in Seq(X), NEW good
    PROVE  /\ Kept(list, good) \in Seq(good)
           /\ Len(Kept(list, good)) \in 0 .. Len(list)
<1> DEFINE at == {n \in DOMAIN list : list[n] \in good}
           size == Cardinality(at)
<1>1. at \in SUBSET (1 .. Len(list)) /\ Len(list) \in Nat
  OBVIOUS
<1>2. IsFiniteSet(1 .. Len(list)) /\ Cardinality(1 .. Len(list)) = Len(list)
  BY <1>1, FS_Interval
<1>3. IsFiniteSet(at) /\ size \in 0 .. Len(list)
  BY <1>1, <1>2, FS_Subset, FS_CardinalityType
<1>4. \A n \in 1 .. size : Nth(at, n) \in at
  BY <1>1, <1>3, NthIn
<1>5. Kept(list, good) = [n \in 1 .. size |-> list[Nth(at, n)]]
  BY DEF Kept
<1> HIDE DEF size
<1>6. \A n \in 1 .. size : list[Nth(at, n)] \in good
  BY <1>4
<1> HIDE DEF at
<1>7. QED
  BY <1>3, <1>5, <1>6

\* The n-th candidate is an event of the batch.
LEMMA RankedIn ==
    ASSUME NEW r, job[r].events \in Seq(Events), NEW n \in 1 .. Len(job[r].events)
    PROVE  Ranked(r, n) \in DOMAIN job[r].events
<1> DEFINE batch == DOMAIN job[r].events
           key(x) == Priority[job[r].events[x]]
           R == {z \in Nat \X Nat : Before(r, z[1], z[2])}
<1>1. batch = 1 .. Len(job[r].events) /\ Len(job[r].events) \in Nat
  OBVIOUS
<1>2. IsFiniteSet(batch) /\ Cardinality(batch) = Len(job[r].events)
  BY <1>1, FS_Interval
<1>3. \A x \in batch : key(x) \in Nat /\ x \in Nat
  BY EventsAssumption
<1>4. \A x, y \in batch : <<x, y>> \in R <=> Before(r, x, y)
  BY <1>3
<1>5. \A x, y \in batch : Before(r, x, y) <=> key(x) > key(y) \/ (key(x) = key(y) /\ x < y)
  BY DEF Before
<1> HIDE DEF batch, key, R
<1>6. \E x \in batch : Cardinality(Below(batch, R, x)) = n - 1
  <2>1. \A x \in batch : <<x, x>> \notin R
    BY <1>3, <1>4, <1>5
  <2>2. ASSUME NEW x \in batch, NEW y \in batch, NEW z \in batch,
               Before(r, x, y), Before(r, y, z)
        PROVE  Before(r, x, z)
    BY <1>3, <1>5, <2>2
  <2>3. ASSUME NEW x \in batch, NEW y \in batch
        PROVE  x = y \/ Before(r, x, y) \/ Before(r, y, x)
    <3>1. x \in Nat /\ y \in Nat /\ key(x) \in Nat /\ key(y) \in Nat
      BY <1>3
    <3>2. QED
      BY <1>5, <3>1
  <2>4. n \in 1 .. Cardinality(batch)
    BY <1>2
  <2>5. QED
    BY <1>2, <1>4, <2>1, <2>2, <2>3, <2>4, RankExists
<1>7. \A x \in batch : Below(batch, R, x) = {y \in batch : Before(r, y, x)}
  BY <1>4 DEF Below
<1>8. QED
  BY <1>6, <1>7 DEF Ranked, batch

-----------------------------------------------------------------------------
(* The invariant.                                                           *)

\* What the rest of the invariant asks of one request.
Sound(q) ==
    /\ q \in Job
    /\ StepCounts(q)
    /\ \A n \in DOMAIN q.todo : q.todo[n] \in Rows
    /\ q.seen <= Len(logs)
    /\ q.step = "store" =>
          \A n \in DOMAIN q.events, i \in Rows :
             Identity(i) = <<q.asset, KeyOf[q.events[n]]>> => q.seen < i

\* Every import's job is sound.
LEMMA JobsSound == ASSUME ImportInv, NEW r \in Imports PROVE Sound(job[r])
BY DEF ImportInv, TypeOK, StepsCount, StoresAreNew, Sound

\* A request starts with counters at zero.
LEMMA NoCountTyped == NoCount \in Count
BY DEF Count, NoCount

\* The counters of a job are numbers.
LEMMA CountFields ==
    ASSUME NEW c \in Count
    PROVE  /\ c.received \in Nat /\ c.new \in Nat /\ c.duplicate \in Nat
           /\ c.failed \in Nat /\ c.analyzed \in Nat /\ c.broken \in Nat
BY DEF Count

\* What was analysed or failed to be is a number too.
LEMMA CountedNat ==
    ASSUME NEW q, q.count \in Count
    PROVE  Counted(q) \in Nat /\ Counted(q) = q.count.analyzed + q.count.broken
<1> PICK a, b : a = q.count.analyzed /\ b = q.count.broken
  OBVIOUS
<1>1. a \in Nat /\ b \in Nat
  BY CountFields
<1>2. a + b \in Nat
  BY <1>1
<1>3. QED
  BY <1>2 DEF Counted

\* Nothing is imported at first.
LEMMA InvInit == Init => ImportInv
<1> SUFFICES ASSUME Init PROVE ImportInv
  OBVIOUS
<1> DEFINE idle(a) == [step |-> "idle", asset |-> a, events |-> <<>>, seen |-> 0,
                       first |-> 1, todo |-> <<>>, skip |-> {}, count |-> NoCount]
<1>1. /\ job \in [Imports -> {idle(a) : a \in Assets}]
      /\ logs = <<>> /\ findings = {} /\ sent = 0
  BY DEF Init
<1>2. ASSUME NEW a \in Assets
      PROVE  /\ idle(a) \in Job
             /\ idle(a).step = "idle" /\ idle(a).seen = 0 /\ idle(a).todo = <<>>
             /\ idle(a).count.received = 0 /\ idle(a).count.failed = 0
             /\ idle(a).count.new = 0 /\ idle(a).count.duplicate = 0
             /\ idle(a).count.analyzed = 0 /\ idle(a).count.broken = 0
  <2>1. idle(a) \in Job
    BY NoCountTyped DEF Job, Step
  <2>2. QED
    BY <2>1 DEF NoCount
<1> HIDE DEF idle
<1>3. job \in [Imports -> Job] /\ \A r \in Imports : \E a \in Assets : job[r] = idle(a)
  BY <1>1, <1>2
<1>4. TypeOK
  BY <1>1, <1>2, <1>3, BoundsAssumption DEF TypeOK, Rows
<1>5. StepsCount
  BY <1>2, <1>3, BoundsAssumption DEF StepsCount, StepCounts, Counted
<1>6. OnlyRacesDuplicate /\ StoresAreNew
  BY <1>1, <1>2, <1>3 DEF OnlyRacesDuplicate, StoresAreNew, Rows
<1>7. QED
  BY <1>4, <1>5, <1>6 DEF ImportInv

\* A step that stores nothing keeps the invariant if it leaves its own request
\* sound and draws conclusions about stored rows only.
LEMMA QuietPreserves ==
    ASSUME ImportInv, NEW r \in Imports, NEW q, Sound(q), job' = [job EXCEPT ![r] = q],
           UNCHANGED logs, sent' \in 0 .. MaxImports,
           findings' \subseteq Finding,
           \A f \in findings' : f.row \in Rows /\ f.source \in {0, f.row}
    PROVE  ImportInv'
<1>1. /\ job' \in [Imports -> Job] /\ job'[r] = q
      /\ \A s \in Imports \ {r} : job'[s] = job[s]
  BY DEF ImportInv, TypeOK, Sound
<1>2. \A s \in Imports : Sound(job'[s])
  BY <1>1, JobsSound
<1>3. TypeOK'
  BY <1>1, <1>2 DEF ImportInv, TypeOK, Rows, Sound
<1>4. StepsCount'
  BY <1>2 DEF StepsCount, Sound
<1>5. OnlyRacesDuplicate' /\ StoresAreNew'
  BY <1>2 DEF ImportInv, OnlyRacesDuplicate, StoresAreNew, Rows, Identity, Sound
<1>6. QED
  BY <1>3, <1>4, <1>5 DEF ImportInv

\* The invariant survives an import that begins ...
LEMMA BeginPreserves ==
    ASSUME ImportInv, NEW r \in Imports, NEW a \in Assets, NEW report \in Reports, Begin(r, a, report)
    PROVE  ImportInv'
<1> DEFINE usable == Usable(report)
           count == [NoCount EXCEPT !.received = Len(report), !.failed = Len(report) - Len(usable)]
           q == [step |-> "lookup", asset |-> a, events |-> usable, seen |-> 0,
                 first |-> 1, todo |-> <<>>, skip |-> {}, count |-> count]
<1>1. /\ job' = [job EXCEPT ![r] = q] /\ UNCHANGED <<logs, findings>>
      /\ sent < MaxImports /\ sent' = sent + 1
  BY DEF Begin
<1>2. report \in Seq(Events \cup {Unusable})
  BY EventsAssumption
<1>3. usable \in Seq(Events) /\ Len(usable) \in 0 .. Len(report) /\ Len(report) \in Nat
  BY <1>2, KeptGood DEF Usable
<1> HIDE DEF usable
<1>4. count \in Count /\ count.received = count.failed + Len(usable)
      /\ count.analyzed = 0 /\ count.broken = 0
  <2> DEFINE x == Len(report)
             lost == Len(report) - Len(usable)
  <2>1. x \in Nat /\ lost \in Nat /\ x = lost + Len(usable)
    BY <1>3
  <2>2. count = [NoCount EXCEPT !.received = x, !.failed = lost]
    OBVIOUS
  <2> HIDE DEF x, lost, count
  <2>3. count \in Count /\ count.received = x /\ count.failed = lost
        /\ count.analyzed = 0 /\ count.broken = 0
    BY <2>1, <2>2 DEF Count, NoCount
  <2>4. QED
    BY <2>1, <2>3
<1>5. logs \in Seq(Row) /\ sent' \in 0 .. MaxImports
  BY <1>1, BoundsAssumption DEF ImportInv, TypeOK
<1> HIDE DEF count
<1>6. q \in Job
  BY <1>3, <1>4 DEF Job, Step
<1>7. Sound(q)
  BY <1>3, <1>4, <1>5, <1>6 DEF Sound, StepCounts, Counted
<1>8. QED
  BY <1>1, <1>5, <1>7, QuietPreserves DEF ImportInv, TypeOK

\* What a look-up leaves to be stored has none of the keys it found.
LEMMA LookupPreserves ==
    ASSUME ImportInv, NEW r \in Imports, Lookup(r) \/ LookupFails(r)
    PROVE  ImportInv'
<1>1. PICK known, upTo : /\ LookedUp(r, known, upTo)
                         /\ \/ known = Known(job[r].asset) /\ upTo = Len(logs)
                            \/ known = {} /\ upTo = 0
  BY DEF Lookup, LookupFails
<1> DEFINE q == job[r]
           good == {e \in Events : KeyOf[e] \notin known}
           fresh == Kept(q.events, good)
           next == IF fresh = <<>> THEN "idle" ELSE "store"
           count == [q.count EXCEPT !.new = Len(fresh), !.duplicate = Len(q.events) - Len(fresh)]
           p == [q EXCEPT !.step = next, !.events = fresh, !.seen = upTo, !.count = count]
<1>2. q \in Job /\ Sound(q) /\ logs \in Seq(Row) /\ job \in [Imports -> Job]
  BY JobsSound DEF ImportInv, TypeOK
<1>3. q.step = "lookup" /\ UNCHANGED <<logs, findings, sent>>
  BY <1>1 DEF LookedUp
<1>4. job' = [job EXCEPT ![r] = p]
  BY <1>1 DEF LookedUp
<1>5. q.events \in Seq(Events) /\ q.count \in Count /\ Len(q.events) \in Nat
  BY <1>2 DEF Job
<1>6. fresh \in Seq(good) /\ Len(fresh) \in 0 .. Len(q.events)
  BY <1>5, KeptGood
<1>7. fresh \in Seq(Events)
  BY <1>6
<1>8. \A n \in DOMAIN fresh : KeyOf[fresh[n]] \notin known
  BY <1>6
<1> HIDE DEF fresh
<1>9. /\ count \in Count /\ count.new = Len(fresh) /\ count.received = q.count.received
      /\ count.duplicate = Len(q.events) - Len(fresh) /\ count.failed = q.count.failed
      /\ count.analyzed = q.count.analyzed /\ count.broken = q.count.broken
  <2> DEFINE c == q.count
             x == Len(fresh)
             y == Len(q.events) - Len(fresh)
  <2>1. c \in Count /\ x \in Nat /\ y \in Nat
    BY <1>5, <1>6
  <2>2. count = [c EXCEPT !.new = x, !.duplicate = y]
    OBVIOUS
  <2> HIDE DEF count, c, x, y
  <2>3. /\ count \in Count
        /\ count.new = x /\ count.duplicate = y /\ count.received = c.received
        /\ count.failed = c.failed /\ count.analyzed = c.analyzed /\ count.broken = c.broken
    BY <2>1, <2>2 DEF Count
  <2>4. QED
    BY <2>3 DEF c, x, y
<1>10. upTo \in 0 .. Len(logs) /\ upTo \in Nat
  BY <1>1, <1>2
<1> HIDE DEF count, next, good
<1>11. /\ p \in Job /\ p.step = next /\ p.events = fresh /\ p.seen = upTo /\ p.count = count
       /\ p.todo = q.todo /\ p.asset = q.asset
  <2>1. next \in Step
    BY DEF next, Step
  <2> DEFINE s == job[r]
  <2>2. s \in Job /\ p = [s EXCEPT !.step = next, !.events = fresh, !.seen = upTo, !.count = count]
    BY <1>2
  <2> HIDE DEF p, q, s
  <2>3. /\ p \in Job /\ p.step = next /\ p.events = fresh /\ p.seen = upTo /\ p.count = count
        /\ p.todo = s.todo /\ p.asset = s.asset
    BY <1>7, <1>9, <1>10, <2>1, <2>2 DEF Job
  <2>4. QED
    BY <2>3 DEF q, s
<1> HIDE DEF p
<1>12. StepCounts(p)
  <2>1. q.count.received = q.count.failed + Len(q.events) /\ Counted(q) = 0
    BY <1>2, <1>3 DEF Sound, StepCounts
  <2>2. count.received = count.new + count.duplicate + count.failed
    BY <1>5, <1>6, <1>9, <2>1 DEF Count
  <2>3. Counted(p) = 0
    BY <1>9, <1>11, <2>1 DEF Counted
  <2>4. p.step \in {"idle", "store"} /\ (p.step = "store" => fresh # <<>>)
    BY <1>11 DEF next
  <2>5. count.new \in Nat /\ Counted(p) <= count.new /\ Counted(p) <= AnalyzeMax
    BY <1>9, <2>3, BoundsAssumption DEF Count
  <2>6. p.events = fresh /\ p.count = count /\ count.new = Len(fresh)
    BY <1>9, <1>11
  <2>7. p.step # "lookup" /\ p.step \notin {"select", "analyze"}
    BY <2>4
  <2>8. QED
    BY <2>2, <2>3, <2>4, <2>5, <2>6, <2>7 DEF StepCounts
<1>13. ASSUME NEW n \in DOMAIN fresh, NEW i \in Rows, Identity(i) = <<q.asset, KeyOf[fresh[n]]>>
       PROVE  upTo < i
  <2>1. CASE known = Known(q.asset)
    <3>1. KeyOf[logs[i].event] \in known
      BY <1>13, <2>1 DEF Known, Identity
    <3>2. QED
      BY <1>8, <1>13, <3>1 DEF Identity
  <2>2. CASE upTo = 0
    BY <1>2, <2>2 DEF Rows
  <2>3. QED
    BY <1>1, <2>1, <2>2
<1>14. Sound(p)
  BY <1>2, <1>10, <1>11, <1>12, <1>13 DEF Sound
<1>15. QED
  BY <1>3, <1>4, <1>14, QuietPreserves DEF ImportInv, TypeOK

\* Rows put behind rows.
LEMMA RowsJoined ==
    ASSUME NEW s \in Seq(Row), NEW t \in Seq(Row)
    PROVE  /\ s \o t \in Seq(Row) /\ Len(s \o t) = Len(s) + Len(t)
           /\ Len(s) \in Nat /\ Len(t) \in Nat
OBVIOUS

\* What Store appends, and that the rows before it stay what they were.
LEMMA Appended ==
    ASSUME ImportInv, NEW r \in Imports, Store(r)
    PROVE  /\ logs' \in Seq(Row) /\ Len(logs) \in Nat /\ Len(job[r].events) \in Nat
           /\ Len(logs') = Len(logs) + Len(job[r].events)
           /\ \A i \in Rows : logs'[i] = logs[i] /\ Identity(i)' = Identity(i)
           /\ \A n \in 1 .. Len(job[r].events), k \in Nat : k = Len(logs) + n =>
                 /\ logs'[k].seen = job[r].seen
                 /\ Identity(k)' = <<job[r].asset, KeyOf[job[r].events[n]]>>
           /\ \A k \in Rows' :
                 k \in Rows \/ \E n \in 1 .. Len(job[r].events) : k = Len(logs) + n
<1> DEFINE q == job[r]
           row(n) == [asset |-> q.asset, event |-> q.events[n], seen |-> q.seen]
           added == [n \in DOMAIN q.events |-> row(n)]
<1>1. logs \in Seq(Row) /\ q \in Job
  BY DEF ImportInv, TypeOK
<1>2. q.events \in Seq(Events) /\ q.asset \in Assets /\ q.seen \in Nat /\ Len(q.events) \in Nat
  BY <1>1 DEF Job
<1>3. logs' = logs \o added
  BY DEF Store
<1> HIDE DEF q
<1>4. \A n \in 1 .. Len(q.events) : row(n) \in Row
  BY <1>2 DEF Row
<1>5. \A n \in DOMAIN q.events :
         row(n).asset = q.asset /\ row(n).event = q.events[n] /\ row(n).seen = q.seen
  OBVIOUS
<1> HIDE DEF row
<1>6. added \in Seq(Row) /\ Len(added) = Len(q.events) /\ \A n \in 1 .. Len(q.events) : added[n] = row(n)
  BY <1>2, <1>4
<1> HIDE DEF added
<1>7. logs' \in Seq(Row) /\ Len(logs) \in Nat /\ Len(logs') = Len(logs) + Len(q.events)
  BY <1>1, <1>3, <1>6, RowsJoined
<1>8. \A i \in Rows : logs'[i] = logs[i]
  BY <1>1, <1>3, <1>6 DEF Rows
<1>9. \A n \in 1 .. Len(q.events) : logs'[Len(logs) + n] = row(n)
  BY <1>1, <1>2, <1>3, <1>6
<1>10. \A i \in Rows : Identity(i)' = Identity(i)
  BY <1>8 DEF Identity
<1>11. \A n \in 1 .. Len(q.events), k \in Nat : k = Len(logs) + n =>
          /\ logs'[k].seen = q.seen
          /\ Identity(k)' = <<q.asset, KeyOf[q.events[n]]>>
  <2> TAKE n \in 1 .. Len(q.events), k \in Nat
  <2> HAVE k = Len(logs) + n
  <2>1. row(n).asset = q.asset /\ row(n).event = q.events[n] /\ row(n).seen = q.seen
    BY <1>2, <1>5
  <2>2. logs'[k] = row(n)
    BY <1>9
  <2>3. QED
    BY <2>1, <2>2 DEF Identity
<1>12. ASSUME NEW k \in Rows'
       PROVE  k \in Rows \/ \E n \in 1 .. Len(q.events) : k = Len(logs) + n
  <2>1. k \in 1 .. Len(logs) + Len(q.events)
    BY <1>7 DEF Rows
  <2>2. CASE k > Len(logs)
    <3>1. k - Len(logs) \in 1 .. Len(q.events) /\ k = Len(logs) + (k - Len(logs))
      BY <1>2, <1>7, <2>1, <2>2
    <3>2. QED
      BY <3>1
  <2>3. QED
    BY <1>2, <1>7, <2>1, <2>2 DEF Rows
<1>13. QED
  BY <1>2, <1>7, <1>8, <1>10, <1>11, <1>12 DEF q

\* The candidates are rows of the batch, no more of them than it has events.
LEMMA CandidateRows ==
    ASSUME ImportInv, NEW r \in Imports, Store(r)
    PROVE  /\ Candidates(r) \in Seq(Nat \ {0})
           /\ Len(Candidates(r)) <= Len(job[r].events)
           /\ Len(Candidates(r)) <= AnalyzeMax
           /\ AnalyzeMax # 0 /\ job[r].events # <<>> => Candidates(r) # <<>>
           /\ \A n \in DOMAIN Candidates(r) : Candidates(r)[n] \in Rows'
<1> DEFINE size == Len(job[r].events)
           least == IF size < AnalyzeMax THEN size ELSE AnalyzeMax
           place(n) == Len(logs) + Ranked(r, n)
<1>1. job[r].events \in Seq(Events) /\ size \in Nat
  BY DEF ImportInv, TypeOK, Job
<1>2. Len(logs) \in Nat /\ Rows' = 1 .. Len(logs) + size
  BY Appended DEF Rows
<1>3. \A n \in 1 .. size : Ranked(r, n) \in 1 .. size
  BY <1>1, RankedIn
<1>4. least \in Nat /\ least <= size /\ least <= AnalyzeMax
  BY <1>1, BoundsAssumption
<1>5. AnalyzeMax # 0 /\ job[r].events # <<>> => least # 0
  BY <1>1, BoundsAssumption
<1>6. Candidates(r) = [n \in 1 .. least |-> place(n)]
  BY DEF Candidates
<1> HIDE DEF size, least
<1>7. \A n \in 1 .. least : place(n) \in Nat \ {0} /\ place(n) \in Rows'
  BY <1>1, <1>2, <1>3, <1>4
<1> HIDE DEF place
<1>8. Candidates(r) \in Seq(Nat \ {0}) /\ Len(Candidates(r)) = least
      /\ DOMAIN Candidates(r) = 1 .. least
  BY <1>4, <1>6, <1>7
<1>9. QED
  BY <1>4, <1>5, <1>6, <1>7, <1>8 DEF size

\* A request that only waits while another one stores stays sound.
LEMMA StoreKeepsOthers ==
    ASSUME ImportInv, NEW r \in Imports, Store(r), NEW q, Sound(q)
    PROVE  Sound(q)'
<1>1. Len(logs) \in Nat /\ Len(logs) <= Len(logs') /\ Rows \subseteq Rows'
  BY Appended DEF Rows
<1>2. q \in Job /\ StepCounts(q)' /\ q.seen \in Nat /\ q.seen <= Len(logs')
  BY <1>1 DEF Sound, StepCounts, Counted, Job
<1>3. ASSUME q.step = "store", NEW n \in DOMAIN q.events, NEW i \in Rows',
             Identity(i)' = <<q.asset, KeyOf[q.events[n]]>>
      PROVE  q.seen < i
  <2>1. CASE i \in Rows
    BY <1>3, <2>1, Appended DEF Sound
  <2>2. CASE \E m \in 1 .. Len(job[r].events) : i = Len(logs) + m
    BY <1>1, <1>2, <2>2, Appended DEF Sound
  <2>3. QED
    BY <1>3, <2>1, <2>2, Appended
<1>4. QED
  BY <1>1, <1>2, <1>3 DEF Sound

\* ... a report whose new events are stored ...
LEMMA StorePreserves ==
    ASSUME ImportInv, NEW r \in Imports, Store(r)
    PROVE  ImportInv'
<1> DEFINE q == job[r]
           step == IF AnalyzeMax = 0 THEN "idle" ELSE "select"
           first == Len(logs) + 1
           todo == Candidates(r)
<1>1. q \in Job /\ Sound(q) /\ logs \in Seq(Row) /\ job \in [Imports -> Job] /\ sent \in 0 .. MaxImports
  BY JobsSound DEF ImportInv, TypeOK
<1>2. q.step = "store" /\ UNCHANGED <<findings, sent>>
  BY DEF Store
<1> PICK p : p = [q EXCEPT !.step = step, !.first = first, !.todo = todo]
  OBVIOUS
<1>3. job' = [job EXCEPT ![r] = p]
  <2>1. job' = [job EXCEPT ![r].step = step, ![r].first = first, ![r].todo = todo]
    BY DEF Store
  <2> HIDE DEF step, first, todo
  <2>2. QED
    BY <1>1, <2>1 DEF Job
<1>4. step \in Step /\ first \in Nat
  BY Appended DEF Step
<1>5. todo \in Seq(Nat \ {0}) /\ Len(todo) <= Len(q.events) /\ Len(todo) <= AnalyzeMax
      /\ (step = "select" => todo # <<>>) /\ \A n \in DOMAIN todo : todo[n] \in Rows'
  <2>1. q.events # <<>>
    BY <1>1, <1>2 DEF Sound, StepCounts
  <2>2. QED
    BY <2>1, CandidateRows
<1>6. step \in {"idle", "select"}
  OBVIOUS
<1> HIDE DEF step, first, todo
<1>7. /\ p \in Job /\ p.step = step /\ p.todo = todo /\ p.events = q.events
      /\ p.seen = q.seen /\ p.asset = q.asset /\ p.count = q.count
  <2> DEFINE s == q
  <2>1. s \in Job /\ p = [s EXCEPT !.step = step, !.first = first, !.todo = todo]
    BY <1>1
  <2> HIDE DEF q, s
  <2>2. /\ p \in Job /\ p.step = step /\ p.todo = todo /\ p.events = s.events
        /\ p.seen = s.seen /\ p.asset = s.asset /\ p.count = s.count
    BY <1>4, <1>5, <2>1 DEF Job
  <2>3. QED
    BY <2>2 DEF s
<1>8. StepCounts(p)
  <2>1. /\ q.count.received = q.count.new + q.count.duplicate + q.count.failed
        /\ q.count.new = Len(q.events) /\ Counted(q) = 0
    BY <1>1, <1>2 DEF Sound, StepCounts
  <2>2. Counted(p) = 0 /\ p.count.new = Len(q.events) /\ Len(q.events) \in Nat /\ Len(todo) \in Nat
    BY <1>1, <1>5, <1>7, <2>1 DEF Counted, Job
  <2>3. p.count.received = p.count.new + p.count.duplicate + p.count.failed
    BY <1>7, <2>1
  <2>4. p.step # "lookup" /\ p.step # "store"
    BY <1>6, <1>7
  <2>5. QED
    BY <1>5, <1>6, <1>7, <2>2, <2>3, <2>4, BoundsAssumption DEF StepCounts
<1>9. Sound(p)'
  <2>1. q.seen <= Len(logs')
    BY <1>1, Appended DEF Sound, Job
  <2>2. p.step # "store"
    BY <1>6, <1>7
  <2>3. StepCounts(p)'
    BY <1>8 DEF StepCounts, Counted
  <2>4. QED
    BY <1>5, <1>7, <2>1, <2>2, <2>3 DEF Sound
<1>10. /\ job' \in [Imports -> Job] /\ job'[r] = p
       /\ \A s \in Imports \ {r} : job'[s] = job[s]
  BY <1>1, <1>3, <1>7
<1>11. \A s \in Imports : Sound(job[s])'
  <2> SUFFICES ASSUME NEW s \in Imports PROVE Sound(job[s])'
    OBVIOUS
  <2>1. CASE s = r
    BY <1>9, <1>10, <2>1 DEF Sound
  <2>2. CASE s # r
    <3>1. PICK q0 : q0 = job[s]
      OBVIOUS
    <3>2. Sound(q0)'
      BY <3>1, JobsSound, StoreKeepsOthers
    <3>3. QED
      BY <1>10, <2>2, <3>1, <3>2 DEF Sound
  <2>3. QED
    BY <2>1, <2>2
<1>12. TypeOK'
  <2>1. \A f \in findings : f \in Finding /\ f.row \in Rows' /\ f.source \in {0, f.row}
    BY Appended DEF ImportInv, TypeOK, Rows
  <2>2. QED
    BY <1>1, <1>2, <1>10, <1>11, <2>1, Appended DEF TypeOK, Sound
<1>13. StepsCount' /\ StoresAreNew'
  BY <1>11 DEF StepsCount, StoresAreNew, Sound
<1>14. OnlyRacesDuplicate'
  <2> SUFFICES ASSUME NEW i \in Rows', NEW k \in Rows', i < k, Identity(i)' = Identity(k)'
               PROVE  logs'[k].seen < i
    BY DEF OnlyRacesDuplicate
  <2>1. Len(logs) \in Nat /\ i \in Nat /\ k \in Nat /\ q.seen \in Nat /\ q.seen <= Len(logs)
    BY <1>1, Appended DEF Sound, Job, Rows
  <2>2. CASE k \in Rows
    <3>1. i \in Rows
      BY <2>1, <2>2 DEF Rows
    <3>2. QED
      BY <2>2, <3>1, Appended DEF ImportInv, OnlyRacesDuplicate
  <2>3. CASE \E n \in 1 .. Len(q.events) : k = Len(logs) + n
    <3>1. PICK n \in 1 .. Len(q.events) : k = Len(logs) + n
      BY <2>3
    <3>2. logs'[k].seen = q.seen /\ Identity(k)' = <<q.asset, KeyOf[q.events[n]]>>
      BY <2>1, <3>1, Appended
    <3>3. CASE i \in Rows
      <4>1. Identity(i) = <<q.asset, KeyOf[q.events[n]]>>
        BY <3>2, <3>3, Appended
      <4>2. n \in DOMAIN q.events
        BY <1>1, Appended DEF Job
      <4>3. QED
        BY <1>1, <1>2, <3>2, <3>3, <4>1, <4>2 DEF Sound
    <3>4. CASE i > Len(logs)
      BY <2>1, <3>2, <3>4
    <3>5. QED
      BY <2>1, <3>3, <3>4 DEF Rows
  <2>4. QED
    BY <2>2, <2>3, Appended
<1>15. QED
  BY <1>12, <1>13, <1>14 DEF ImportInv

\* ... a transaction that fails ...
LEMMA StoreFailsPreserves ==
    ASSUME ImportInv, NEW r \in Imports, StoreFails(r)
    PROVE  ImportInv'
<1>1. /\ job[r] \in Job /\ Sound(job[r]) /\ job \in [Imports -> Job]
      /\ sent \in 0 .. MaxImports
  BY JobsSound DEF ImportInv, TypeOK
<1> PICK q : q = job[r]
  OBVIOUS
<1> PICK failed : failed = q.count.failed + q.count.new
  OBVIOUS
<1> PICK c : c = [q.count EXCEPT !.new = 0, !.failed = failed]
  OBVIOUS
<1> PICK p : p = [q EXCEPT !.step = "idle", !.count = c]
  OBVIOUS
<1>2. q \in Job /\ q.count \in Count /\ q.step = "store" /\ UNCHANGED <<logs, findings, sent>>
  BY <1>1 DEF StoreFails, Job
<1>3. job' = [job EXCEPT ![r] = p]
  BY <1>1 DEF StoreFails, Job, Count
<1>4. /\ failed \in Nat /\ c \in Count
      /\ c.new = 0 /\ c.failed = failed /\ c.received = q.count.received
      /\ c.duplicate = q.count.duplicate
      /\ c.analyzed = q.count.analyzed /\ c.broken = q.count.broken
  <2>1. failed \in Nat
    BY <1>2 DEF Count
  <2>2. QED
    BY <1>2, <2>1 DEF Count
<1>5. /\ p \in Job /\ p.step = "idle" /\ p.count = c /\ p.todo = q.todo
      /\ p.seen = q.seen
  BY <1>2, <1>4 DEF Job, Step
<1>6. StepCounts(p)
  <2>1. q.count.received = q.count.new + q.count.duplicate + q.count.failed /\ Counted(q) = 0
    BY <1>1, <1>2 DEF Sound, StepCounts
  <2>2. Counted(p) = 0
    BY <1>4, <1>5, <2>1 DEF Counted
  <2>3. c.received = c.new + c.duplicate + c.failed
    <3>1. /\ q.count.new \in Nat /\ q.count.duplicate \in Nat /\ q.count.failed \in Nat
      BY <1>2, CountFields
    <3>2. QED
      BY <1>4, <2>1, <3>1
  <2>4. p.step # "lookup" /\ p.step # "store" /\ p.step \notin {"select", "analyze"}
    BY <1>5
  <2>5. Counted(p) <= p.count.new /\ Counted(p) <= AnalyzeMax
    <3>1. p.count.new = 0
      BY <1>4, <1>5
    <3>2. 0 <= AnalyzeMax
      BY BoundsAssumption
    <3>3. QED
      BY <2>2, <3>1, <3>2
  <2>6. p.count.received = p.count.new + p.count.duplicate + p.count.failed
    BY <1>5, <2>3
  <2>7. QED
    BY <2>4, <2>5, <2>6 DEF StepCounts
<1>7. Sound(p)
  BY <1>1, <1>5, <1>6 DEF Sound
<1>8. QED
  BY <1>1, <1>2, <1>3, <1>7, QuietPreserves DEF ImportInv, TypeOK

\* ... the choice of what is to be analysed ...
LEMMA SelectPreserves ==
    ASSUME ImportInv, NEW r \in Imports, Select(r)
    PROVE  ImportInv'
<1>1. /\ job[r] \in Job /\ Sound(job[r]) /\ job \in [Imports -> Job]
      /\ sent \in 0 .. MaxImports /\ Rows \subseteq Nat \ {0}
  BY JobsSound DEF ImportInv, TypeOK, Rows
<1> PICK q : q = job[r]
  OBVIOUS
<1>2. q.step = "select" /\ UNCHANGED <<logs, findings, sent>>
  BY DEF Select
<1>3. PICK skip \in SUBSET (Nat \ {0}) :
         job' = [job EXCEPT ![r] = [q EXCEPT !.step = "analyze", !.skip = skip]]
  <2>1. PICK known : job' = [job EXCEPT ![r].step = "analyze",
                                        ![r].skip = {i \in Rows : Identity(i) \in known}]
    BY DEF Select
  <2> PICK skip : skip = {i \in Rows : Identity(i) \in known}
    OBVIOUS
  <2>2. job' = [job EXCEPT ![r] = [q EXCEPT !.step = "analyze", !.skip = skip]]
    BY <1>1, <2>1 DEF Job
  <2>3. QED
    BY <1>1, <2>2
<1> PICK p : p = [q EXCEPT !.step = "analyze", !.skip = skip]
  OBVIOUS
<1>4. /\ p \in Job /\ p.step = "analyze" /\ p.count = q.count /\ p.todo = q.todo
      /\ p.seen = q.seen
  BY <1>1 DEF Job, Step
<1>5. StepCounts(p)
  BY <1>1, <1>2, <1>4 DEF Sound, StepCounts, Counted
<1>6. Sound(p)
  BY <1>1, <1>4, <1>5 DEF Sound
<1>7. QED
  BY <1>1, <1>2, <1>3, <1>6, QuietPreserves DEF ImportInv, TypeOK

\* (One more analysis, and one less to come, are still within what was received.)
LEMMA OneMore ==
    ASSUME NEW m \in Nat \ {0}, NEW l \in Nat, l = m - 1,
           NEW x \in Nat, NEW y \in Nat, x <= y + 1, NEW n \in Nat, m + y <= n
    PROVE  l + x <= n
OBVIOUS

\* One candidate less, and at most one analysis more.
LEMMA AdvancePreserves ==
    ASSUME ImportInv, NEW r \in Imports, job[r].step = "analyze",
           NEW c \in Count, Advance(r, c),
           c.received = job[r].count.received, c.new = job[r].count.new,
           c.duplicate = job[r].count.duplicate, c.failed = job[r].count.failed,
           c.analyzed + c.broken <= Counted(job[r]) + 1,
           UNCHANGED <<logs, sent>>, findings' \subseteq Finding,
           \A f \in findings' : f.row \in Rows /\ f.source \in {0, f.row}
    PROVE  ImportInv'
<1>1. /\ job[r] \in Job /\ Sound(job[r]) /\ job \in [Imports -> Job]
      /\ sent \in 0 .. MaxImports
  BY JobsSound DEF ImportInv, TypeOK
<1> PICK q : q = job[r]
  OBVIOUS
<1> PICK step : step = IF Len(q.todo) = 1 THEN "idle" ELSE "analyze"
  OBVIOUS
<1> PICK rest : rest = Tail(q.todo)
  OBVIOUS
<1> PICK p : p = [q EXCEPT !.step = step, !.todo = rest, !.count = c]
  OBVIOUS
<1>2. job' = [job EXCEPT ![r] = p]
  BY <1>1 DEF Advance, Job
<1>3. q.todo \in Seq(Nat \ {0}) /\ q.todo # <<>> /\ q \in Job
  BY <1>1 DEF Job, Sound, StepCounts
<1>4. /\ rest \in Seq(Nat \ {0}) /\ Len(rest) = Len(q.todo) - 1 /\ Len(q.todo) \in Nat \ {0}
      /\ \A n \in DOMAIN rest : rest[n] = q.todo[n + 1] /\ n + 1 \in DOMAIN q.todo
  BY <1>3
<1>5. step \in {"idle", "analyze"} /\ (step = "analyze" => Len(rest) # 0)
  BY <1>4
<1>6. /\ p \in Job /\ p.step = step /\ p.todo = rest /\ p.count = c /\ p.seen = q.seen
  BY <1>3, <1>4, <1>5 DEF Job, Step
<1>7. StepCounts(p)
  <2>1. /\ q.count.received = q.count.new + q.count.duplicate + q.count.failed
        /\ Len(q.todo) + Counted(q) <= q.count.new /\ Len(q.todo) + Counted(q) <= AnalyzeMax
    BY <1>1 DEF Sound, StepCounts
  <2>2. Counted(p) \in Nat /\ Counted(q) \in Nat /\ Counted(p) <= Counted(q) + 1
        /\ c.new \in Nat /\ AnalyzeMax \in Nat
    <3>1. q.count \in Count /\ p.count \in Count
      BY <1>3, <1>6 DEF Job
    <3>2. Counted(p) \in Nat /\ Counted(q) \in Nat /\ Counted(p) = c.analyzed + c.broken
      BY <3>1, <1>6, CountedNat
    <3>3. c.new \in Nat
      BY CountFields
    <3>4. QED
      BY <3>2, <3>3, BoundsAssumption
  <2>3. Len(rest) + Counted(p) <= c.new /\ Len(rest) + Counted(p) <= AnalyzeMax
        /\ Len(rest) \in Nat
    <3>1. Len(q.todo) \in Nat \ {0} /\ Len(rest) = Len(q.todo) - 1 /\ Len(rest) \in Nat
      BY <1>4
    <3>2. Len(q.todo) + Counted(q) <= c.new /\ Len(q.todo) + Counted(q) <= AnalyzeMax
      BY <2>1
    <3>3. QED
      BY <2>2, <3>1, <3>2, OneMore
  <2>4. Counted(p) <= c.new /\ Counted(p) <= AnalyzeMax
    BY <2>2, <2>3
  <2>5. c.received = c.new + c.duplicate + c.failed
    BY <2>1
  <2>6. step = "analyze" => rest # <<>>
    BY <1>4, <1>5
  <2>7. QED
    BY <1>5, <1>6, <2>3, <2>4, <2>5, <2>6 DEF StepCounts
<1>8. \A n \in DOMAIN p.todo : p.todo[n] \in Rows
  BY <1>1, <1>4, <1>6 DEF Sound
<1>9. Sound(p)
  BY <1>1, <1>5, <1>6, <1>7, <1>8 DEF Sound
<1>10. QED
  BY <1>1, <1>2, <1>9, QuietPreserves DEF ImportInv, TypeOK

\* The candidate at the head is a stored row, whose finding names it or nothing.
LEMMA HeadStored ==
    ASSUME ImportInv, NEW r \in Imports, job[r].step = "analyze"
    PROVE  /\ Head(job[r].todo) \in Rows
           /\ SourceOf(Head(job[r].todo)) \in {0, Head(job[r].todo)}
<1>1. job[r].todo \in Seq(Nat \ {0}) /\ job[r].todo # <<>>
      /\ \A n \in DOMAIN job[r].todo : job[r].todo[n] \in Rows
  BY JobsSound DEF Sound, StepCounts, Job
<1>2. QED
  BY <1>1 DEF SourceOf

\* ... an analysis ...
LEMMA AnalysePreserves ==
    ASSUME ImportInv, NEW r \in Imports, Skip(r) \/ Analyze(r) \/ AnalyzeFails(r)
    PROVE  ImportInv'
<1>1. /\ job[r].step = "analyze" /\ job[r].count \in Count
      /\ findings \subseteq Finding
      /\ \A f \in findings : f.row \in Rows /\ f.source \in {0, f.row}
  BY JobsSound DEF Skip, Analyze, AnalyzeFails, ImportInv, TypeOK, Sound, Job
<1> PICK q : q = job[r].count
  OBVIOUS
<1>2. q \in Count /\ Counted(job[r]) = q.analyzed + q.broken
  BY <1>1 DEF Counted
<1>3. CASE Skip(r)
  <2>1. q.analyzed + q.broken <= Counted(job[r]) + 1
    BY <1>2 DEF Count
  <2>2. Advance(r, q) /\ UNCHANGED <<logs, findings, sent>>
    BY <1>3 DEF Skip
  <2>3. QED
    BY <1>1, <1>2, <2>1, <2>2, AdvancePreserves
<1>4. CASE Analyze(r)
  <2> PICK i : i = Head(job[r].todo)
    OBVIOUS
  <2> PICK c : c = [q EXCEPT !.analyzed = @ + 1]
    OBVIOUS
  <2>1. /\ c \in Count /\ c.received = q.received /\ c.new = q.new /\ c.duplicate = q.duplicate
        /\ c.failed = q.failed /\ c.analyzed + c.broken <= q.analyzed + q.broken + 1
    BY <1>2 DEF Count
  <2>2. /\ Advance(r, c) /\ UNCHANGED <<logs, sent>>
        /\ findings' = findings \cup {[row |-> i, source |-> SourceOf(i)]}
    BY <1>4 DEF Analyze
  <2>3. i \in Rows /\ i \in Nat \ {0} /\ SourceOf(i) \in {0, i}
    BY <1>1, HeadStored DEF Rows
  <2>4. findings' \subseteq Finding /\ \A f \in findings' : f.row \in Rows /\ f.source \in {0, f.row}
    BY <1>1, <2>2, <2>3 DEF Finding
  <2>5. QED
    BY <1>1, <1>2, <2>1, <2>2, <2>4, AdvancePreserves
<1>5. CASE AnalyzeFails(r)
  <2> PICK c : c = [q EXCEPT !.broken = @ + 1]
    OBVIOUS
  <2>1. /\ c \in Count /\ c.received = q.received /\ c.new = q.new /\ c.duplicate = q.duplicate
        /\ c.failed = q.failed /\ c.analyzed + c.broken <= q.analyzed + q.broken + 1
    BY <1>2 DEF Count
  <2>2. Advance(r, c) /\ UNCHANGED <<logs, findings, sent>>
    BY <1>5 DEF AnalyzeFails
  <2>3. QED
    BY <1>1, <1>2, <2>1, <2>2, AdvancePreserves
<1>6. QED
  BY <1>3, <1>4, <1>5

\* ... an import that is broken off ...
LEMMA AbortPreserves ==
    ASSUME ImportInv, NEW r \in Imports, Abort(r)
    PROVE  ImportInv'
<1>1. /\ job[r] \in Job /\ Sound(job[r]) /\ job \in [Imports -> Job]
      /\ sent \in 0 .. MaxImports
  BY JobsSound DEF ImportInv, TypeOK
<1> PICK q : q = job[r]
  OBVIOUS
<1> PICK p : p = [q EXCEPT !.step = "idle", !.todo = <<>>, !.count = NoCount]
  OBVIOUS
<1>2. job' = [job EXCEPT ![r] = p] /\ UNCHANGED <<logs, findings, sent>>
  BY <1>1 DEF Abort, Job
<1>3. /\ p \in Job /\ p.step = "idle" /\ p.todo = <<>> /\ p.count = NoCount
      /\ p.seen = q.seen
  <2>1. "idle" \in Step /\ <<>> \in Seq(Nat \ {0})
    BY DEF Step
  <2>2. q \in Job /\ NoCount \in Count
    BY <1>1, NoCountTyped
  <2>3. QED
    BY <2>1, <2>2 DEF Job
<1>4. StepCounts(p)
  BY <1>3, BoundsAssumption DEF StepCounts, Counted, NoCount
<1>5. Sound(p)
  BY <1>1, <1>3, <1>4 DEF Sound
<1>6. QED
  BY <1>1, <1>2, <1>5, QuietPreserves DEF ImportInv, TypeOK

\* ... and a finding that is deleted.
LEMMA DeletePreserves ==
    ASSUME ImportInv, NEW f \in findings, DeleteFinding(f)
    PROVE  ImportInv'
<1>1. TypeOK'
  BY DEF DeleteFinding, ImportInv, TypeOK, Rows
<1>2. QED
  BY <1>1 DEF DeleteFinding, ImportInv, StepsCount, OnlyRacesDuplicate, StoresAreNew, Rows, Identity

\* No step breaks the invariant.
LEMMA StepPreserves == ImportInv /\ [Next]_vars => ImportInv'
<1> SUFFICES ASSUME ImportInv, [Next]_vars PROVE ImportInv'
  OBVIOUS
<1>1. CASE Next
  <2>1. ASSUME NEW r \in Imports, NEW a \in Assets, NEW report \in Reports, Begin(r, a, report)
        PROVE  ImportInv'
    BY <2>1, BeginPreserves
  <2>2. ASSUME NEW r \in Imports, ImportStep(r) \/ Abort(r)
        PROVE  ImportInv'
    BY <2>2, LookupPreserves, StorePreserves, StoreFailsPreserves, SelectPreserves,
       AnalysePreserves, AbortPreserves DEF ImportStep
  <2>3. ASSUME NEW f \in findings, DeleteFinding(f)
        PROVE  ImportInv'
    BY <2>3, DeletePreserves
  <2>4. QED
    BY <1>1, <2>1, <2>2, <2>3 DEF Next
<1>2. CASE UNCHANGED vars
  BY <1>2 DEF vars, ImportInv, TypeOK, StepsCount, OnlyRacesDuplicate, StoresAreNew, Rows, Identity
<1>3. QED
  BY <1>1, <1>2

-----------------------------------------------------------------------------
\* Whatever fails and however imports overlap, counters, pending analyses and
\* rows stay consistent (ingest_report_events).
THEOREM ImportSafe == Spec => []ImportInv
BY InvInit, StepPreserves, PTL DEF Spec

\* Pending analyses and findings are about rows the table holds
\* (_analyze_event, _find_event_log_id).
THEOREM ImportTyped == Spec => []TypeOK
<1>1. ImportInv => TypeOK
  BY DEF ImportInv
<1>2. QED
  BY <1>1, ImportSafe, PTL

\* The answer of an import accounts for every event of the report, and the table
\* holds an event twice only when imports overlapped or the report repeats it
\* (EventIngestResult, _fetch_duplicate_keys).
THEOREM ImportsAccounted == Spec => []ImportAccounted
<1>1. ImportInv => ImportAccounted
  <2> SUFFICES ASSUME ImportInv PROVE CountersAddUp /\ OnlyRacesDuplicate
    BY DEF ImportAccounted
  <2>1. ASSUME NEW r \in Imports, job[r].step # "lookup"
        PROVE  /\ job[r].count.received = job[r].count.new + job[r].count.duplicate + job[r].count.failed
               /\ job[r].count.analyzed + job[r].count.broken <= job[r].count.new
               /\ job[r].count.analyzed + job[r].count.broken <= AnalyzeMax
    <3>1. job[r] \in Job /\ StepCounts(job[r])
      BY JobsSound DEF Sound
    <3> PICK q : q = job[r]
      OBVIOUS
    <3>2. q.step \in Step /\ q.count \in Count /\ Len(q.todo) \in Nat /\ Len(q.events) \in Nat
      BY <3>1 DEF Job
    <3>3. Counted(q) \in Nat /\ q.count.new \in Nat /\ AnalyzeMax \in Nat
      <4>1. q.count.analyzed \in Nat /\ q.count.broken \in Nat /\ q.count.new \in Nat
        BY <3>2, CountFields
      <4>2. QED
        BY <4>1, BoundsAssumption DEF Counted
    <3>4. Counted(q) <= q.count.new /\ Counted(q) <= AnalyzeMax
      BY <2>1, <3>1, <3>2, <3>3 DEF StepCounts, Step
    <3>5. QED
      BY <2>1, <3>1, <3>4 DEF StepCounts, Counted
  <2>2. QED
    BY <2>1 DEF CountersAddUp, ImportInv
<1>2. QED
  BY <1>1, ImportSafe, PTL

-----------------------------------------------------------------------------
(* The import implements the evidence store.                                *)

Stored == {Identity(i) : i \in Rows}

\* What a step that leaves the tables alone leaves of the evidence.
LEMMA QuietMaps ==
    ASSUME UNCHANGED <<logs, findings>>
    PROVE  Stored' = Stored /\ Analyzed' = Analyzed
BY DEF Stored, Analyzed, Rows, Identity

\* To store is to add to what the abstract store holds ...
LEMMA StoreMaps ==
    ASSUME ImportInv, ImportInv', NEW r \in Imports, Store(r)
    PROVE  /\ \E new \in SUBSET (Assets \X Keys) : Stored' = Stored \cup new
           /\ Analyzed' = Analyzed
<1>1. ASSUME NEW i \in Rows' PROVE Identity(i)' \in Assets \X Keys
  <2>1. logs'[i] \in Row
    BY <1>1 DEF ImportInv, TypeOK, Rows
  <2>2. QED
    BY <2>1 DEF Identity, Row, Keys
<1>2. Stored' \subseteq Assets \X Keys
  BY <1>1 DEF Stored
<1>3. Rows \subseteq Rows' /\ \A i \in Rows : Identity(i)' = Identity(i)
  BY Appended DEF Rows
<1>4. Stored \subseteq Stored'
  BY <1>3 DEF Stored
<1>5. Stored' = Stored \cup Stored'
  BY <1>4
<1>6. findings' = findings /\ \A f \in findings : Identity(f.row)' = Identity(f.row)
  BY <1>3 DEF Store, ImportInv, TypeOK
<1>7. Analyzed' = Analyzed
  BY <1>6 DEF Analyzed
<1>8. QED
  BY <1>2, <1>5, <1>7

\* ... to analyse, to what it has analysed ...
LEMMA AnalyzeMaps ==
    ASSUME ImportInv, NEW r \in Imports, Analyze(r)
    PROVE  /\ \E i \in Stored : Analyzed' = Analyzed \cup {i}
           /\ Stored' = Stored
<1> PICK i : i = Head(job[r].todo)
  OBVIOUS
<1>1. i \in Rows /\ UNCHANGED logs
  BY HeadStored DEF Analyze
<1>2. findings' = findings \cup {[row |-> i, source |-> SourceOf(i)]}
  BY DEF Analyze
<1>3. \A k : Identity(k)' = Identity(k)
  BY <1>1 DEF Identity
<1> PICK made : made = [row |-> i, source |-> SourceOf(i)]
  OBVIOUS
<1>4. findings' = findings \cup {made} /\ made.row = i
  BY <1>2
<1>5. Analyzed' = {Identity(f.row) : f \in findings'}
  BY <1>3 DEF Analyzed
<1>6. Analyzed' = Analyzed \cup {Identity(i)}
  BY <1>4, <1>5 DEF Analyzed
<1>7. Identity(i) \in Stored /\ Stored' = Stored
  BY <1>1 DEF Stored, Rows, Identity
<1>8. QED
  BY <1>6, <1>7

\* ... and to delete is to retract, which leaves what is stored.
LEMMA DeleteMaps ==
    ASSUME NEW f \in findings, DeleteFinding(f)
    PROVE  /\ \E gone \in SUBSET Analyzed : Analyzed' = Analyzed \ gone
           /\ Stored' = Stored
<1>1. UNCHANGED logs /\ findings' \subseteq findings
  BY DEF DeleteFinding
<1>2. Analyzed' \subseteq Analyzed
  BY <1>1 DEF Analyzed, Identity
<1>3. Analyzed' = Analyzed \ (Analyzed \ Analyzed')
  BY <1>2
<1>4. Stored' = Stored
  BY <1>1 DEF Stored, Rows, Identity
<1>5. QED
  BY <1>3, <1>4

\* Both start empty.
LEMMA InitMaps == Init => Store0!Init
BY DEF Init, Store0!Init, Rows, Analyzed

\* Every step of an import is one of the abstract store or none.
LEMMA StepMaps == ImportInv /\ ImportInv' /\ [Next]_vars => [Store0!Next]_(Store0!evidence)
<1> SUFFICES ASSUME ImportInv, ImportInv', [Next]_vars
             PROVE  Store0!Next \/ UNCHANGED <<Stored, Analyzed>>
  BY DEF Store0!evidence, Stored
<1>1. ASSUME NEW r \in Imports, Store(r) PROVE Store0!Next
  BY <1>1, StoreMaps DEF Store0!Next, Store0!Keep, Stored
<1>2. ASSUME NEW r \in Imports, Analyze(r) PROVE Store0!Next
  BY <1>2, AnalyzeMaps DEF Store0!Next, Store0!Conclude, Stored
<1>3. ASSUME NEW f \in findings, DeleteFinding(f) PROVE Store0!Next
  BY <1>3, DeleteMaps DEF Store0!Next, Store0!Retract, Stored
<1>4. ASSUME UNCHANGED <<logs, findings>> PROVE UNCHANGED <<Stored, Analyzed>>
  BY <1>4, QuietMaps
<1>5. ASSUME NEW r \in Imports,
             Lookup(r) \/ LookupFails(r) \/ StoreFails(r) \/ Select(r) \/ Skip(r)
             \/ AnalyzeFails(r) \/ Abort(r)
      PROVE  UNCHANGED <<logs, findings>>
  BY <1>5 DEF Lookup, LookupFails, LookedUp, StoreFails, Select, Skip, AnalyzeFails, Abort
<1>6. ASSUME NEW r \in Imports, NEW a \in Assets, NEW report \in Reports, Begin(r, a, report)
      PROVE  UNCHANGED <<logs, findings>>
  BY <1>6 DEF Begin
<1>7. CASE Next
  BY <1>1, <1>2, <1>3, <1>4, <1>5, <1>6, <1>7 DEF Next, ImportStep
<1>8. CASE UNCHANGED vars
  BY <1>4, <1>8 DEF vars
<1>9. QED
  BY <1>7, <1>8

\* Every step of the import keeps new evidence, concludes from kept evidence,
\* retracts conclusions, or changes neither: nothing stored is lost, whichever
\* import fails or is cut off (ingest_report_events).
THEOREM ImportKeepsEvidence == Spec => KeepsEvidence
BY InitMaps, StepMaps, ImportSafe, PTL DEF Spec, KeepsEvidence, Store0!Spec

-----------------------------------------------------------------------------
(* The moment that files on one clock have in common.                       *)

\* A finite set of whole numbers has a least element: among the sets
\* {y \in S : y <= x}, one contains no smaller one.
LEMMA LeastExists ==
    ASSUME NEW S \in SUBSET Int, IsFiniteSet(S), S # {}
    PROVE  \E x \in S : \A y \in S : x <= y
<1> DEFINE Down(x) == {y \in S : y <= x}
           D == {Down(x) : x \in S}
<1>1. IsWellFoundedOn(StrictSubsetOrdering(S), SUBSET S)
  BY FS_StrictSubsetOrderingWellFounded, FS_FiniteSubsetsOfFinite
<1>2. D \subseteq SUBSET S /\ D # {}
  OBVIOUS
<1>3. \E T \in D : \A U \in D : ~ (<<U, T>> \in StrictSubsetOrdering(S))
  <2> HIDE DEF D
  <2>1. QED
    BY <1>1, <1>2, WFMin
<1>4. PICK x \in S : \A y \in S : ~ (<<Down(y), Down(x)>> \in StrictSubsetOrdering(S))
  BY <1>3
<1>5. SUFFICES ASSUME NEW y \in S, y < x PROVE FALSE
  OBVIOUS
<1>6. x \in Int /\ y \in Int
  OBVIOUS
<1>7. \A z \in Down(y) : z \in Down(x)
  BY <1>5, <1>6
<1>8. x \in Down(x) /\ x \notin Down(y)
  BY <1>5, <1>6
<1>9. <<Down(y), Down(x)>> \in StrictSubsetOrdering(S)
  BY <1>7, <1>8 DEF StrictSubsetOrdering
<1>10. QED
  BY <1>4, <1>9

\* What a function makes of a finite set is finite.
LEMMA ImageFinite ==
    ASSUME NEW S, IsFiniteSet(S), NEW f, DOMAIN f = S
    PROVE  IsFiniteSet({f[x] : x \in S})
<1> DEFINE T == {f[x] : x \in S}
           h == [x \in S |-> f[x]]
<1>1. h \in [S -> T] /\ \A y \in T : \E x \in S : h[x] = y
  OBVIOUS
<1>2. h \in Surjection(S, T)
  <2> HIDE DEF h, T
  <2>1. QED
    BY <1>1 DEF Surjection
<1>3. QED
  <2> HIDE DEF h, T
  <2>1. IsFiniteSet(T)
    BY <1>2, FS_Surjection
  <2>2. QED
    BY <2>1 DEF T

\* And a greatest one, since the negated numbers have a least one.
LEMMA GreatestExists ==
    ASSUME NEW S \in SUBSET Int, IsFiniteSet(S), S # {}
    PROVE  \E x \in S : \A y \in S : y <= x
<1> DEFINE f == [x \in S |-> 0 - x]
           N == {f[x] : x \in S}
<1>1. IsFiniteSet(N)
  <2> HIDE DEF f
  <2>1. DOMAIN f = S
    BY DEF f
  <2>2. QED
    BY <2>1, ImageFinite
<1>2. N \in SUBSET Int /\ N # {}
  <2>1. \A x \in S : f[x] \in Int
    OBVIOUS
  <2> HIDE DEF f
  <2>2. QED
    BY <2>1
<1>3. PICK m \in N : \A n \in N : m <= n
  <2> HIDE DEF N
  <2>1. QED
    BY <1>1, <1>2, LeastExists
<1>4. PICK x \in S : m = 0 - x
  OBVIOUS
<1>5. \A y \in S : (0 - x) <= 0 - y
  BY <1>3, <1>4
<1>6. QED
  BY <1>5

\* A window, where there is one, ends when it begins or later.
Timely(e) ==
    /\ e.from \in Int /\ e.to \in Int
    /\ e.from # Untimed => e.from <= e.to

\* The times read in a text are finitely many.
LEMMA TimesFinite ==
    ASSUME NEW text \in Seq(Line)
    PROVE  IsFiniteSet(TimesOf(text)) /\ TimesOf(text) \in SUBSET Int
<1> DEFINE timed == {j \in DOMAIN text : text[j].at # Untimed}
<1>1. IsFiniteSet(timed)
  <2>1. DOMAIN text = 1 .. Len(text) /\ Len(text) \in Nat
    OBVIOUS
  <2>2. IsFiniteSet(1 .. Len(text))
    BY <2>1, FS_Interval
  <2>3. timed \subseteq 1 .. Len(text)
    BY <2>1
  <2>4. QED
    BY <2>2, <2>3, FS_Subset
<1>2. TimesOf(text) = {text[i].at : i \in timed}
  BY DEF TimesOf
<1>3. IsFiniteSet(TimesOf(text))
  <2> DEFINE h == [i \in timed |-> text[i].at]
  <2>1. TimesOf(text) = {h[i] : i \in timed} /\ DOMAIN h = timed
    BY <1>2
  <2> HIDE DEF timed, h
  <2>2. IsFiniteSet({h[i] : i \in timed})
    BY <1>1, <2>1, ImageFinite
  <2>3. QED
    BY <2>1, <2>2
<1>4. \A i \in DOMAIN text : text[i].at \in Int
  <2>1. \A l \in Line : l.at \in Int
    BY DEF Line, Untimed
  <2> HIDE DEF Line
  <2>2. \A i \in DOMAIN text : text[i] \in Line
    OBVIOUS
  <2>3. QED
    BY <2>1, <2>2
<1>5. QED
  BY <1>2, <1>3, <1>4

\* What summarize_file_evidence says of a file's window is in order.
LEMMA SummaryTimely == ASSUME NEW f \in File PROVE Timely(Summarize(f))
<1> DEFINE e == Summarize(f)
           timed == Cardinality(ClocksOf(f.text)) = 1
           first == CHOOSE t \in TimesOf(f.text) : \A u \in TimesOf(f.text) : t <= u
           last == CHOOSE t \in TimesOf(f.text) : \A u \in TimesOf(f.text) : u <= t
<1>1. e.from = (IF timed THEN first ELSE Untimed) /\ e.to = (IF timed THEN last ELSE Untimed)
  BY DEF Summarize
<1>2. f.text \in Seq(Line)
  BY DEF File
<1>3. ASSUME timed PROVE first \in Int /\ last \in Int /\ first <= last
  <2>1. ClocksOf(f.text) # {}
    BY <1>3, FS_EmptySet
  <2>2. TimesOf(f.text) # {}
    BY <2>1 DEF TimesOf, ClocksOf
  <2>3. IsFiniteSet(TimesOf(f.text)) /\ TimesOf(f.text) \in SUBSET Int
    BY <1>2, TimesFinite
  <2>4. \E t \in TimesOf(f.text) : \A u \in TimesOf(f.text) : t <= u
    BY <2>2, <2>3, LeastExists
  <2>5. \E t \in TimesOf(f.text) : \A u \in TimesOf(f.text) : u <= t
    BY <2>2, <2>3, GreatestExists
  <2>6. first \in TimesOf(f.text) /\ \A u \in TimesOf(f.text) : first <= u
    BY <2>4
  <2>7. last \in TimesOf(f.text)
    BY <2>5
  <2>8. QED
    BY <2>3, <2>6, <2>7
<1>4. Untimed \in Int
  BY DEF Untimed
<1>5. (timed => e.from = first /\ e.to = last) /\ (~timed => e.from = Untimed /\ e.to = Untimed)
  BY <1>1
<1>6. QED
  <2> HIDE DEF e, timed, first, last
  <2>1. Timely(e)
    BY <1>3, <1>4, <1>5 DEF Timely
  <2>2. QED
    BY <2>1 DEF e

\* Of two windows that overlap, the one that begins first reaches the beginning
\* of the other.
LEMMA Within ==
    ASSUME NEW a \in Int, NEW b \in Int, NEW c \in Int, NEW d \in Int, NEW e \in Nat, a <= c, c <= d
    PROVE  /\ a - e <= c - e /\ c - e \in c - e .. d + e /\ c - e <= d + e
           /\ Later(a, c) - e <= Sooner(b, d) + e => c - e <= b + e
BY DEF Later, Sooner

\* Windows that overlap two at a time, within the tolerance, have a moment in
\* common: the beginning of the one that begins last.
LEMMA MomentFound ==
    ASSUME NEW S, NEW es \in Seq(S), \A i \in DOMAIN es : Timely(es[i]),
           NEW g \in SUBSET DOMAIN es, g # {}, Compatible(es, g)
    PROVE  \E t \in UNION {es[i].from - Epsilon .. es[i].to + Epsilon : i \in g} :
               \A i \in g : /\ es[i].from - Epsilon <= t /\ t <= es[i].to + Epsilon
                           /\ \A j \in g : es[i].clock = es[j].clock
<1> DEFINE start == [i \in g |-> es[i].from]
           starts == {start[i] : i \in g}
<1>0. Epsilon \in Nat
  BY CompactionAssumption
<1>4. \A i \in g : es[i].from \in Int /\ es[i].to \in Int /\ es[i].from <= es[i].to
  BY DEF Timely, Compatible
<1>1. IsFiniteSet(starts) /\ starts \in SUBSET Int /\ starts # {}
  <2>1. IsFiniteSet(DOMAIN es)
    BY FS_Interval
  <2>2. IsFiniteSet(g)
    BY <2>1, FS_Subset
  <2>3. IsFiniteSet(starts)
    <3> HIDE DEF start
    <3>1. DOMAIN start = g
      BY DEF start
    <3>2. QED
      BY <2>2, <3>1, ImageFinite
  <2>4. QED
    BY <2>3, <1>4
<1>2. PICK s \in starts : \A u \in starts : u <= s
  <2> HIDE DEF starts
  <2>1. QED
    BY <1>1, GreatestExists
<1>3. PICK m \in g : es[m].from = s
  OBVIOUS
<1>5. \A i \in g : es[i].from <= es[m].from
  BY <1>2, <1>3
<1>6. ASSUME NEW i \in g PROVE es[m].from - Epsilon <= es[i].to + Epsilon
  <2>1. es[i].from \in Int /\ es[i].to \in Int /\ es[m].from \in Int /\ es[m].to \in Int
         /\ es[m].from <= es[m].to /\ es[i].from <= es[m].from
    BY <1>4, <1>5
  <2>2. CASE i = m
    BY <1>0, <2>1, <2>2, Within
  <2>3. CASE i # m
    <3>1. Overlap(es[i], es[m])
      BY <2>3 DEF Compatible
    <3>2. QED
      BY <1>0, <2>1, <3>1, Within DEF Overlap
  <2>4. QED
    BY <2>2, <2>3
<1>7. \A i, j \in g : es[i].clock = es[j].clock
  BY DEF Compatible
<1> DEFINE t == es[m].from - Epsilon
<1>8. t \in es[m].from - Epsilon .. es[m].to + Epsilon
  <2>1. es[m].from \in Int /\ es[m].to \in Int /\ es[m].from <= es[m].to
    BY <1>4
  <2>2. QED
    BY <1>0, <2>1
<1>9. \A i \in g : es[i].from - Epsilon <= t
  BY <1>0, <1>4, <1>5, Within
<1>10. QED
  <2>1. t \in UNION {es[i].from - Epsilon .. es[i].to + Epsilon : i \in g}
    BY <1>8
  <2>2. \A i \in g : /\ es[i].from - Epsilon <= t /\ t <= es[i].to + Epsilon
                    /\ \A j \in g : es[i].clock = es[j].clock
    BY <1>6, <1>7, <1>9
  <2>3. QED
    BY <2>1, <2>2

-----------------------------------------------------------------------------
(* What a file that shares nothing changes in a verdict: nothing.           *)

\* Where the k-th of the files stood before the i-th was removed.
Place(i, k) == IF k < i THEN k ELSE k + 1

\* A group of files as it is numbered without the i-th file.
Without(es, i, g) == {k \in DOMAIN RemoveAt(es, i) : Place(i, k) \in g}

\* The list without its i-th element has the others, in their order.
LEMMA RemovedAt ==
    ASSUME NEW S, NEW es \in Seq(S), NEW i \in DOMAIN es
    PROVE  /\ RemoveAt(es, i) \in Seq(S)
           /\ DOMAIN RemoveAt(es, i) = 1 .. Len(es) - 1 /\ DOMAIN es = 1 .. Len(es) /\ Len(es) \in Nat
           /\ \A k \in DOMAIN RemoveAt(es, i) : RemoveAt(es, i)[k] = es[Place(i, k)]
<1> DEFINE before == SubSeq(es, 1, i - 1)
           after == SubSeq(es, i + 1, Len(es))
<1>1. before \in Seq(S) /\ Len(before) = i - 1 /\ \A k \in 1 .. i - 1 : before[k] = es[k]
  OBVIOUS
<1>2. after \in Seq(S) /\ Len(after) = Len(es) - i /\ \A k \in 1 .. Len(es) - i : after[k] = es[i + k]
  OBVIOUS
<1>3. RemoveAt(es, i) = before \o after
  BY DEF RemoveAt
<1> HIDE DEF before, after
<1>4. RemoveAt(es, i) \in Seq(S) /\ Len(RemoveAt(es, i)) = Len(es) - 1
  BY <1>1, <1>2, <1>3
<1>5. ASSUME NEW k \in DOMAIN RemoveAt(es, i) PROVE RemoveAt(es, i)[k] = es[Place(i, k)]
  <2>1. i \in 1 .. Len(es) /\ Len(es) \in Nat /\ k \in 1 .. Len(es) - 1
    BY <1>4, <1>5
  <2>2. CASE k < i
    <3>1. k \in 1 .. Len(before)
      BY <1>1, <2>1, <2>2
    <3>2. RemoveAt(es, i)[k] = before[k]
      BY <1>1, <1>2, <1>3, <3>1
    <3>3. QED
      BY <1>1, <2>1, <2>2, <3>1, <3>2 DEF Place
  <2>3. CASE ~(k < i)
    <3> DEFINE m == k - (i - 1)
    <3>1. m \in 1 .. Len(after) /\ k = Len(before) + m /\ i + m = k + 1
      BY <1>1, <1>2, <2>1, <2>3
    <3> HIDE DEF m
    <3>2. (before \o after)[Len(before) + m] = after[m]
      <4>1. ASSUME NEW a \in Seq(S), NEW b \in Seq(S), NEW n \in 1 .. Len(b)
            PROVE  (a \o b)[Len(a) + n] = b[n]
        OBVIOUS
      <4>2. before \in Seq(S) /\ after \in Seq(S)
        BY <1>1, <1>2
      <4>3. QED
        BY <3>1, <4>1, <4>2
    <3>3. after[m] = es[k + 1]
      BY <1>2, <3>1
    <3>4. RemoveAt(es, i)[k] = es[k + 1]
      BY <1>3, <3>1, <3>2, <3>3
    <3>5. QED
      BY <2>3, <3>4 DEF Place
  <2>4. QED
    BY <2>2, <2>3
<1>6. DOMAIN RemoveAt(es, i) = 1 .. Len(RemoveAt(es, i))
  BY <1>4
<1>7. DOMAIN es = 1 .. Len(es) /\ Len(es) \in Nat
  OBVIOUS
<1>8. QED
  BY <1>4, <1>5, <1>6, <1>7

\* Each of the others has one place in the shorter list.
LEMMA PlacesMatch ==
    ASSUME NEW S, NEW es \in Seq(S), NEW i \in DOMAIN es
    PROVE  /\ \A k \in DOMAIN RemoveAt(es, i) :
                 Place(i, k) \in DOMAIN es \ {i} /\ RemoveAt(es, i)[k] = es[Place(i, k)]
           /\ \A k, l \in DOMAIN RemoveAt(es, i) : Place(i, k) = Place(i, l) => k = l
           /\ \A j \in DOMAIN es \ {i} : \E k \in DOMAIN RemoveAt(es, i) : Place(i, k) = j
<1> DEFINE shorter == RemoveAt(es, i)
<1>1. /\ DOMAIN shorter = 1 .. Len(es) - 1 /\ DOMAIN es = 1 .. Len(es) /\ Len(es) \in Nat
      /\ \A k \in DOMAIN shorter : shorter[k] = es[Place(i, k)]
  BY RemovedAt
<1>2. i \in 1 .. Len(es)
  BY <1>1
<1> HIDE DEF shorter
<1>3. \A k \in 1 .. Len(es) - 1 : Place(i, k) \in 1 .. Len(es) /\ Place(i, k) # i
  BY <1>1, <1>2 DEF Place
<1>4. \A k, l \in 1 .. Len(es) - 1 : Place(i, k) = Place(i, l) => k = l
  BY <1>1, <1>2 DEF Place
<1>5. ASSUME NEW j \in 1 .. Len(es), j # i PROVE \E k \in 1 .. Len(es) - 1 : Place(i, k) = j
  <2>1. CASE j < i
    BY <1>1, <1>2, <2>1 DEF Place
  <2>2. CASE ~(j < i)
    <3>1. j - 1 \in 1 .. Len(es) - 1 /\ Place(i, j - 1) = j
      BY <1>1, <1>2, <1>5, <2>2 DEF Place
    <3>2. QED
      BY <3>1
  <2>3. QED
    BY <2>1, <2>2
<1>6. QED
  BY <1>1, <1>3, <1>4, <1>5 DEF shorter

\* The names in a group are those it has without the file.
LEMMA NamesWithout ==
    ASSUME NEW S, NEW es \in Seq(S), NEW i \in DOMAIN es, NEW g \in SUBSET DOMAIN es
    PROVE  /\ Names(RemoveAt(es, i), Without(es, i, g)) \subseteq Names(es, g)
           /\ i \notin g => Names(RemoveAt(es, i), Without(es, i, g)) = Names(es, g)
<1> DEFINE shorter == RemoveAt(es, i)
           h == Without(es, i, g)
<1>1. \A k \in DOMAIN shorter : Place(i, k) \in DOMAIN es \ {i} /\ shorter[k] = es[Place(i, k)]
  BY PlacesMatch
<1>2. \A j \in DOMAIN es \ {i} : \E k \in DOMAIN shorter : Place(i, k) = j
  BY PlacesMatch
<1>3. \A k \in h : k \in DOMAIN shorter /\ Place(i, k) \in g
  BY DEF Without
<1>4. \A k \in DOMAIN shorter : Place(i, k) \in g => k \in h
  BY DEF Without
<1> HIDE DEF shorter, h
<1>5. \A k \in h : shorter[k].name = es[Place(i, k)].name
  BY <1>1, <1>3
<1>6. ASSUME i \notin g, NEW j \in g PROVE \E k \in h : shorter[k].name = es[j].name
  <2>1. PICK k \in DOMAIN shorter : Place(i, k) = j
    BY <1>2, <1>6
  <2>2. QED
    BY <1>1, <1>4, <2>1
<1>7. Names(shorter, h) \subseteq Names(es, g)
  BY <1>3, <1>5 DEF Names
<1>8. i \notin g => Names(es, g) \subseteq Names(shorter, h)
  BY <1>6 DEF Names
<1>9. QED
  BY <1>7, <1>8 DEF shorter, h

\* The names in a group are finitely many.
LEMMA NamesFinite ==
    ASSUME NEW S, NEW es \in Seq(S), NEW g \in SUBSET DOMAIN es
    PROVE  IsFiniteSet(Names(es, g))
<1> DEFINE name == [j \in g |-> es[j].name]
<1>1. IsFiniteSet(DOMAIN es)
  BY FS_Interval
<1>2. IsFiniteSet(g)
  BY <1>1, FS_Subset
<1>3. Names(es, g) = {name[j] : j \in g} /\ DOMAIN name = g
  BY DEF Names
<1> HIDE DEF name
<1>4. IsFiniteSet({name[j] : j \in g})
  BY <1>2, <1>3, ImageFinite
<1>5. QED
  BY <1>3, <1>4

\* A group with two names without the file has two with it; a group without the
\* file keeps its size.
LEMMA SizeWithout ==
    ASSUME NEW S, NEW es \in Seq(S), NEW i \in DOMAIN es, NEW g \in SUBSET DOMAIN es
    PROVE  /\ Cardinality(Names(RemoveAt(es, i), Without(es, i, g))) >= 2 => Cardinality(Names(es, g)) >= 2
           /\ i \notin g => Cardinality(Names(RemoveAt(es, i), Without(es, i, g))) = Cardinality(Names(es, g))
<1> DEFINE N == Names(es, g)
           M == Names(RemoveAt(es, i), Without(es, i, g))
<1>1. M \subseteq N /\ (i \notin g => M = N)
  BY NamesWithout
<1>2. IsFiniteSet(N)
  BY NamesFinite
<1> HIDE DEF M, N
<1>3. Cardinality(M) \in Nat /\ Cardinality(N) \in Nat /\ Cardinality(M) <= Cardinality(N)
  BY <1>1, <1>2, FS_Subset, FS_CardinalityType
<1>4. (Cardinality(M) >= 2 => Cardinality(N) >= 2) /\ (i \notin g => Cardinality(M) = Cardinality(N))
  BY <1>1, <1>3
<1>5. QED
  BY <1>4 DEF M, N

\* The groups of one kind, before and after the file was removed, correspond.
Correspond(es, i, before, after) ==
    /\ before \subseteq SUBSET DOMAIN es
    /\ \A h \in after : \E g \in before : h = Without(es, i, g)
    /\ \A g \in before : Without(es, i, g) = {} \/ Without(es, i, g) \in after

\* No group arises; and if the file is in none, all remain, with their names.
LEMMA SharedWithout ==
    ASSUME NEW S, NEW es \in Seq(S), NEW i \in DOMAIN es, NEW before, NEW after,
           Correspond(es, i, before, after)
    PROVE  /\ Shared(es, before) = {} => Shared(RemoveAt(es, i), after) = {}
           /\ es[i].name \notin NamesOf(es, Shared(es, before)) =>
                 /\ Shared(RemoveAt(es, i), after) = {Without(es, i, g) : g \in Shared(es, before)}
                 /\ NamesOf(RemoveAt(es, i), Shared(RemoveAt(es, i), after)) = NamesOf(es, Shared(es, before))
<1> DEFINE shorter == RemoveAt(es, i)
           old == Shared(es, before)
           new == Shared(shorter, after)
<1>1. \A g \in old : g \in before /\ g \in SUBSET DOMAIN es /\ Cardinality(Names(es, g)) >= 2
  BY DEF Shared, Correspond
<1>2. ASSUME NEW h \in new PROVE \E g \in old : h = Without(es, i, g)
  <2>1. h \in after /\ Cardinality(Names(shorter, h)) >= 2
    BY DEF Shared
  <2>2. PICK g \in before : h = Without(es, i, g)
    BY <2>1 DEF Correspond
  <2>3. g \in SUBSET DOMAIN es
    BY <2>2 DEF Correspond
  <2>4. Cardinality(Names(es, g)) >= 2
    BY <2>1, <2>2, <2>3, SizeWithout
  <2>5. QED
    BY <2>2, <2>4 DEF Shared
<1>3. ASSUME es[i].name \notin NamesOf(es, old)
      PROVE  /\ \A g \in old : i \notin g /\ Without(es, i, g) \in new
                                /\ Names(shorter, Without(es, i, g)) = Names(es, g)
  <2> SUFFICES ASSUME NEW g \in old
               PROVE  i \notin g /\ Without(es, i, g) \in new /\ Names(shorter, Without(es, i, g)) = Names(es, g)
    OBVIOUS
  <2>1. i \notin g
    BY <1>3 DEF NamesOf, Names
  <2>2. g \in before /\ g \in SUBSET DOMAIN es /\ Cardinality(Names(es, g)) >= 2
    BY <1>1
  <2>3. Names(shorter, Without(es, i, g)) = Names(es, g)
    BY <2>1, <2>2, NamesWithout
  <2>4. Without(es, i, g) # {}
    <3>1. SUFFICES ASSUME Without(es, i, g) = {} PROVE FALSE
      OBVIOUS
    <3>2. Names(es, g) = {}
      BY <2>3, <3>1 DEF Names
    <3>3. QED
      BY <2>2, <3>2, FS_EmptySet
  <2>5. Without(es, i, g) \in after
    BY <2>2, <2>4 DEF Correspond
  <2>6. QED
    BY <2>1, <2>2, <2>3, <2>5 DEF Shared
<1> HIDE DEF old, new, shorter
<1>4. old = {} => new = {}
  BY <1>2
<1>5. ASSUME es[i].name \notin NamesOf(es, old)
      PROVE  /\ new = {Without(es, i, g) : g \in old}
             /\ NamesOf(shorter, new) = NamesOf(es, old)
  <2>1. new = {Without(es, i, g) : g \in old}
    BY <1>2, <1>3, <1>5
  <2>2. \A g \in old : Names(shorter, Without(es, i, g)) = Names(es, g)
    BY <1>3, <1>5
  <2>3. QED
    BY <2>1, <2>2 DEF NamesOf
<1>6. QED
  BY <1>4, <1>5 DEF old, new, shorter

\* The groups of correlate_bundle before those with one name only are left out.
IdSets(es, keys) ==
    {{i \in DOMAIN es : es[i].ids[k] = v} :
        k \in keys, v \in (UNION {{es[i].ids[l] : l \in keys} : i \in DOMAIN es}) \ {""}}

PathSets(es) ==
    {{i \in DOMAIN es : v \in es[i].resources} : v \in UNION {es[i].resources : i \in DOMAIN es}}

SignatureSets(es) ==
    {{i \in DOMAIN es : v \in es[i].signatures} : v \in UNION {es[i].signatures : i \in DOMAIN es}}

\* The files that name a path.
LEMMA PathsCorrespond ==
    ASSUME NEW S, NEW es \in Seq(S), NEW i \in DOMAIN es
    PROVE  Correspond(es, i, PathSets(es), PathSets(RemoveAt(es, i)))
<1> DEFINE shorter == RemoveAt(es, i)
           Old(v) == {j \in DOMAIN es : v \in es[j].resources}
           New(v) == {k \in DOMAIN shorter : v \in shorter[k].resources}
           olds == UNION {es[j].resources : j \in DOMAIN es}
           news == UNION {shorter[k].resources : k \in DOMAIN shorter}
<1>1. \A k \in DOMAIN shorter : Place(i, k) \in DOMAIN es \ {i} /\ shorter[k] = es[Place(i, k)]
  BY PlacesMatch
<1>2. PathSets(es) = {Old(v) : v \in olds} /\ PathSets(shorter) = {New(v) : v \in news}
  BY DEF PathSets
<1>3. \A g : Without(es, i, g) = {k \in DOMAIN shorter : Place(i, k) \in g}
  BY DEF Without
<1> HIDE DEF shorter
<1>4. \A v : New(v) = Without(es, i, Old(v))
  BY <1>1, <1>3
<1>5. \A v \in news : v \in olds
  BY <1>1
<1>6. \A v : New(v) # {} => v \in news
  OBVIOUS
<1>7. \A v : Old(v) \in SUBSET DOMAIN es
  OBVIOUS
<1> HIDE DEF Old, New, olds, news
<1>8. PathSets(es) \subseteq SUBSET DOMAIN es
  BY <1>2, <1>7
<1>9. \A h \in PathSets(shorter) : \E g \in PathSets(es) : h = Without(es, i, g)
  BY <1>2, <1>4, <1>5
<1>10. \A g \in PathSets(es) : Without(es, i, g) = {} \/ Without(es, i, g) \in PathSets(shorter)
  BY <1>2, <1>4, <1>6
<1>11. QED
  BY <1>8, <1>9, <1>10 DEF Correspond, shorter

\* The files that show a signature.
LEMMA SignaturesCorrespond ==
    ASSUME NEW S, NEW es \in Seq(S), NEW i \in DOMAIN es
    PROVE  Correspond(es, i, SignatureSets(es), SignatureSets(RemoveAt(es, i)))
<1> DEFINE shorter == RemoveAt(es, i)
           Old(v) == {j \in DOMAIN es : v \in es[j].signatures}
           New(v) == {k \in DOMAIN shorter : v \in shorter[k].signatures}
           olds == UNION {es[j].signatures : j \in DOMAIN es}
           news == UNION {shorter[k].signatures : k \in DOMAIN shorter}
<1>1. \A k \in DOMAIN shorter : Place(i, k) \in DOMAIN es \ {i} /\ shorter[k] = es[Place(i, k)]
  BY PlacesMatch
<1>2. SignatureSets(es) = {Old(v) : v \in olds} /\ SignatureSets(shorter) = {New(v) : v \in news}
  BY DEF SignatureSets
<1>3. \A g : Without(es, i, g) = {k \in DOMAIN shorter : Place(i, k) \in g}
  BY DEF Without
<1> HIDE DEF shorter
<1>4. \A v : New(v) = Without(es, i, Old(v))
  BY <1>1, <1>3
<1>5. \A v \in news : v \in olds
  BY <1>1
<1>6. \A v : New(v) # {} => v \in news
  OBVIOUS
<1>7. \A v : Old(v) \in SUBSET DOMAIN es
  OBVIOUS
<1> HIDE DEF Old, New, olds, news
<1>8. SignatureSets(es) \subseteq SUBSET DOMAIN es
  BY <1>2, <1>7
<1>9. \A h \in SignatureSets(shorter) : \E g \in SignatureSets(es) : h = Without(es, i, g)
  BY <1>2, <1>4, <1>5
<1>10. \A g \in SignatureSets(es) : Without(es, i, g) = {} \/ Without(es, i, g) \in SignatureSets(shorter)
  BY <1>2, <1>4, <1>6
<1>11. QED
  BY <1>8, <1>9, <1>10 DEF Correspond, shorter

\* The files that have an identifier.
LEMMA IdsCorrespond ==
    ASSUME NEW S, NEW es \in Seq(S), NEW i \in DOMAIN es, NEW keys
    PROVE  Correspond(es, i, IdSets(es, keys), IdSets(RemoveAt(es, i), keys))
<1> DEFINE shorter == RemoveAt(es, i)
           blank == ""
           Old(k, v) == {j \in DOMAIN es : es[j].ids[k] = v}
           New(k, v) == {j \in DOMAIN shorter : shorter[j].ids[k] = v}
           olds == (UNION {{es[j].ids[l] : l \in keys} : j \in DOMAIN es}) \ {blank}
           news == (UNION {{shorter[j].ids[l] : l \in keys} : j \in DOMAIN shorter}) \ {blank}
<1>1. \A j \in DOMAIN shorter : Place(i, j) \in DOMAIN es \ {i} /\ shorter[j] = es[Place(i, j)]
  BY PlacesMatch
<1>2. IdSets(es, keys) = {Old(k, v) : k \in keys, v \in olds}
      /\ IdSets(shorter, keys) = {New(k, v) : k \in keys, v \in news}
  BY DEF IdSets
<1>3. \A g : Without(es, i, g) = {j \in DOMAIN shorter : Place(i, j) \in g}
  BY DEF Without
<1> HIDE DEF shorter, blank
<1>4. \A k, v : New(k, v) = Without(es, i, Old(k, v))
  BY <1>1, <1>3
<1>5. \A v \in news : v \in olds
  BY <1>1
<1>6. \A k \in keys, v \in olds : New(k, v) # {} => v \in news
  OBVIOUS
<1>7. \A k, v : Old(k, v) \in SUBSET DOMAIN es
  OBVIOUS
<1> HIDE DEF Old, New, olds, news
<1>8. IdSets(es, keys) \subseteq SUBSET DOMAIN es
  BY <1>2, <1>7
<1>9. \A h \in IdSets(shorter, keys) : \E g \in IdSets(es, keys) : h = Without(es, i, g)
  BY <1>2, <1>4, <1>5
<1>10. ASSUME NEW g \in IdSets(es, keys), Without(es, i, g) # {}
       PROVE  Without(es, i, g) \in IdSets(shorter, keys)
  <2>1. PICK k \in keys, v \in olds : g = Old(k, v)
    BY <1>2
  <2>2. New(k, v) = Without(es, i, g) /\ v \in news
    BY <1>4, <1>6, <1>10, <2>1
  <2>3. QED
    BY <1>2, <2>2
<1>11. QED
  BY <1>8, <1>9, <1>10 DEF Correspond, shorter

\* Whether the files of a group overlap does not depend on the others.
LEMMA CompatibleWithout ==
    ASSUME NEW S, NEW es \in Seq(S), NEW i \in DOMAIN es, NEW g \in SUBSET DOMAIN es, i \notin g
    PROVE  Compatible(RemoveAt(es, i), Without(es, i, g)) <=> Compatible(es, g)
<1> DEFINE shorter == RemoveAt(es, i)
           h == Without(es, i, g)
<1>1. \A k \in DOMAIN shorter : Place(i, k) \in DOMAIN es \ {i} /\ shorter[k] = es[Place(i, k)]
  BY PlacesMatch
<1>2. \A k, l \in DOMAIN shorter : Place(i, k) = Place(i, l) => k = l
  BY PlacesMatch
<1>3. \A j \in DOMAIN es \ {i} : \E k \in DOMAIN shorter : Place(i, k) = j
  BY PlacesMatch
<1>4. h = {k \in DOMAIN shorter : Place(i, k) \in g}
  BY DEF Without
<1> HIDE DEF shorter, h
<1>5. \A k \in h : Place(i, k) \in g /\ shorter[k] = es[Place(i, k)]
  BY <1>1, <1>4
<1>6. \A j \in g : \E k \in h : Place(i, k) = j /\ shorter[k] = es[j]
  BY <1>1, <1>3, <1>4
<1>7. \A k, l \in h : k # l => Place(i, k) # Place(i, l)
  BY <1>2, <1>4
<1>8. Compatible(es, g) => Compatible(shorter, h)
  BY <1>5, <1>7 DEF Compatible
<1>9. ASSUME Compatible(shorter, h) PROVE Compatible(es, g)
  <2>1. \A j \in g : es[j].from # Untimed
    BY <1>6, <1>9 DEF Compatible
  <2>2. ASSUME NEW a \in g, NEW b \in g, a # b
        PROVE  es[a].clock = es[b].clock /\ Overlap(es[a], es[b])
    <3>1. PICK k \in h : Place(i, k) = a /\ shorter[k] = es[a]
      BY <1>6
    <3>2. PICK l \in h : Place(i, l) = b /\ shorter[l] = es[b]
      BY <1>6
    <3>3. k # l
      BY <2>2, <3>1, <3>2
    <3>4. shorter[k].clock = shorter[l].clock /\ Overlap(shorter[k], shorter[l])
      BY <1>9, <3>3 DEF Compatible
    <3>5. QED
      BY <3>1, <3>2, <3>4
  <2>3. QED
    BY <2>1, <2>2 DEF Compatible
<1>10. QED
  BY <1>8, <1>9 DEF shorter, h

\* Two kinds of groups together correspond if each does.
LEMMA BothCorrespond ==
    ASSUME NEW es, NEW i, NEW a, NEW b, NEW c, NEW d, Correspond(es, i, a, c), Correspond(es, i, b, d)
    PROVE  Correspond(es, i, a \cup b, c \cup d)
BY DEF Correspond

\* correlate_bundle gives the same verdict without a file that is not among the
\* sources it names.
LEMMA VerdictWithout ==
    ASSUME NEW S, NEW es \in Seq(S), NEW i \in DOMAIN es,
           Correlate(es).confidence # "none", es[i].name \notin Correlate(es).sources
    PROVE  Correlate(RemoveAt(es, i)) =
               [confidence |-> Correlate(es).confidence, sources |-> Correlate(es).sources]
<1> DEFINE shorter == RemoveAt(es, i)
           sessionKeys == {"jobsessionid", "jobid"}
           diskKeys == {"vm", "snapshot_id"}
           Sessions(fs) == IdGroups(fs, sessionKeys)
           Resembling(fs) == SignatureGroups(fs)
<1>1. \A fs : /\ Sessions(fs) = Shared(fs, IdSets(fs, sessionKeys))
             /\ ResourceGroups(fs) = Shared(fs, PathSets(fs) \cup IdSets(fs, diskKeys))
             /\ Resembling(fs) = Shared(fs, SignatureSets(fs))
  <2>1. ASSUME NEW fs PROVE Sessions(fs) = Shared(fs, IdSets(fs, sessionKeys))
    BY DEF IdGroups, IdSets
  <2>2. ASSUME NEW fs PROVE ResourceGroups(fs) = Shared(fs, PathSets(fs) \cup IdSets(fs, diskKeys))
    <3>1. IdGroups(fs, diskKeys) = Shared(fs, IdSets(fs, diskKeys))
      BY DEF IdGroups, IdSets
    <3>2. PathGroups(fs) = Shared(fs, PathSets(fs))
      BY DEF PathGroups, PathSets
    <3>3. \A a, b : Shared(fs, a) \cup Shared(fs, b) = Shared(fs, a \cup b)
      BY DEF Shared
    <3>4. ResourceGroups(fs) = PathGroups(fs) \cup IdGroups(fs, diskKeys)
      BY DEF ResourceGroups
    <3>5. QED
      BY <3>1, <3>2, <3>3, <3>4
  <2>3. ASSUME NEW fs PROVE Resembling(fs) = Shared(fs, SignatureSets(fs))
    BY DEF SignatureGroups, SignatureSets
  <2>4. QED
    BY <2>1, <2>2, <2>3
<1>2. /\ Correspond(es, i, IdSets(es, sessionKeys), IdSets(shorter, sessionKeys))
      /\ Correspond(es, i, PathSets(es) \cup IdSets(es, diskKeys), PathSets(shorter) \cup IdSets(shorter, diskKeys))
      /\ Correspond(es, i, SignatureSets(es), SignatureSets(shorter))
  BY IdsCorrespond, PathsCorrespond, SignaturesCorrespond, BothCorrespond
<1> DEFINE Lost(old, new) == old = {} => new = {}
           Same(old, new) ==
               es[i].name \notin NamesOf(es, old) =>
                   new = {Without(es, i, g) : g \in old} /\ NamesOf(shorter, new) = NamesOf(es, old)
<1>3. /\ Lost(Sessions(es), Sessions(shorter)) /\ Same(Sessions(es), Sessions(shorter))
      /\ Lost(ResourceGroups(es), ResourceGroups(shorter)) /\ Same(ResourceGroups(es), ResourceGroups(shorter))
      /\ Lost(Resembling(es), Resembling(shorter)) /\ Same(Resembling(es), Resembling(shorter))
  BY <1>1, <1>2, SharedWithout
<1>4. \A fs : Correlate(fs) =
         IF Sessions(fs) # {} THEN [confidence |-> "strong", sources |-> NamesOf(fs, Sessions(fs))]
         ELSE IF ResourceGroups(fs) # {}
         THEN [confidence |-> IF \E g \in ResourceGroups(fs) : Compatible(fs, g) THEN "medium" ELSE "weak",
               sources |-> NamesOf(fs, ResourceGroups(fs))]
         ELSE IF Resembling(fs) # {} THEN [confidence |-> "weak", sources |-> NamesOf(fs, Resembling(fs))]
         ELSE [confidence |-> "none", sources |-> Names(fs, DOMAIN fs)]
  BY DEF Correlate
<1>5. \A g \in ResourceGroups(es) : g \in SUBSET DOMAIN es
  BY <1>1, <1>2 DEF Correspond, Shared
<1> HIDE DEF Sessions, Alike, shorter
<1>6. CASE Sessions(es) # {}
  <2>1. Correlate(es) = [confidence |-> "strong", sources |-> NamesOf(es, Sessions(es))]
    BY <1>4, <1>6
  <2>2. Sessions(shorter) # {} /\ NamesOf(shorter, Sessions(shorter)) = NamesOf(es, Sessions(es))
    <3>1. es[i].name \notin NamesOf(es, Sessions(es))
      BY <2>1
    <3>2. QED
      BY <1>3, <1>6, <3>1
  <2>3. Correlate(shorter) = [confidence |-> "strong", sources |-> NamesOf(shorter, Sessions(shorter))]
    BY <1>4, <2>2
  <2>4. QED
    BY <2>1, <2>2, <2>3 DEF shorter
<1>7. CASE Sessions(es) = {} /\ ResourceGroups(es) # {}
  <2> DEFINE told == IF \E g \in ResourceGroups(es) : Compatible(es, g) THEN "medium" ELSE "weak"
             retold == IF \E g \in ResourceGroups(shorter) : Compatible(shorter, g) THEN "medium" ELSE "weak"
  <2>1. Correlate(es) = [confidence |-> told, sources |-> NamesOf(es, ResourceGroups(es))]
    BY <1>4, <1>7
  <2>2. Sessions(shorter) = {}
    BY <1>3, <1>7
  <2>3. es[i].name \notin NamesOf(es, ResourceGroups(es))
    BY <2>1
  <2>4. /\ ResourceGroups(shorter) = {Without(es, i, g) : g \in ResourceGroups(es)}
        /\ NamesOf(shorter, ResourceGroups(shorter)) = NamesOf(es, ResourceGroups(es))
    BY <1>3, <2>3
  <2>5. ResourceGroups(shorter) # {}
    BY <1>7, <2>4
  <2>6. Correlate(shorter) = [confidence |-> retold, sources |-> NamesOf(shorter, ResourceGroups(shorter))]
    BY <1>4, <2>2, <2>5
  <2>7. \A g \in ResourceGroups(es) : i \notin g
    BY <2>3 DEF NamesOf, Names
  <2>8. \A g \in ResourceGroups(es) : Compatible(shorter, Without(es, i, g)) <=> Compatible(es, g)
    BY <1>5, <2>7, CompatibleWithout DEF shorter
  <2>9. told = retold
    BY <2>4, <2>8
  <2> HIDE DEF told, retold
  <2>10. QED
    BY <2>1, <2>4, <2>6, <2>9 DEF shorter
<1>8. CASE Sessions(es) = {} /\ ResourceGroups(es) = {} /\ Resembling(es) # {}
  <2>1. Correlate(es) = [confidence |-> "weak", sources |-> NamesOf(es, Resembling(es))]
    BY <1>4, <1>8
  <2>2. Sessions(shorter) = {} /\ ResourceGroups(shorter) = {}
    BY <1>3, <1>8
  <2>3. Resembling(shorter) # {} /\ NamesOf(shorter, Resembling(shorter)) = NamesOf(es, Resembling(es))
    <3>1. es[i].name \notin NamesOf(es, Resembling(es))
      BY <2>1
    <3>2. QED
      BY <1>3, <1>8, <3>1
  <2>4. Correlate(shorter) = [confidence |-> "weak", sources |-> NamesOf(shorter, Resembling(shorter))]
    BY <1>4, <2>2, <2>3
  <2>5. QED
    BY <2>1, <2>3, <2>4 DEF shorter
<1>9. CASE Sessions(es) = {} /\ ResourceGroups(es) = {} /\ Resembling(es) = {}
  <2>1. Correlate(es).confidence = "none"
    BY <1>4, <1>9
  <2>2. QED
    BY <2>1
<1>10. QED
  BY <1>6, <1>7, <1>8, <1>9

\* Medium confidence is that of a group whose files overlap.
LEMMA MediumHasGroup ==
    ASSUME NEW es, Correlate(es).confidence = "medium"
    PROVE  \E g \in ResourceGroups(es) : Compatible(es, g)
BY DEF Correlate

\* The files that have an identifier are files of the bundle.
LEMMA IdSetsFiles ==
    ASSUME NEW es, NEW keys
    PROVE  IdSets(es, keys) \subseteq SUBSET DOMAIN es
<1> DEFINE values == (UNION {{es[i].ids[l] : l \in keys} : i \in DOMAIN es}) \ {""}
           Had(k, v) == {i \in DOMAIN es : es[i].ids[k] = v}
<1>1. IdSets(es, keys) = {Had(k, v) : k \in keys, v \in values}
  BY DEF IdSets
<1>2. \A k, v : Had(k, v) \in SUBSET DOMAIN es
  OBVIOUS
<1> HIDE DEF values, Had
<1>3. QED
  BY <1>1, <1>2

\* The groups of a shared resource are files, and not none.
LEMMA GroupsAreFiles ==
    ASSUME NEW S, NEW es \in Seq(S), NEW g \in ResourceGroups(es)
    PROVE  g \in SUBSET DOMAIN es /\ g # {}
<1>1. \A A : \A h \in Shared(es, A) : h \in A /\ Cardinality(Names(es, h)) >= 2
  BY DEF Shared
<1>2. /\ PathGroups(es) = Shared(es, PathSets(es))
      /\ IdGroups(es, {"vm", "snapshot_id"}) = Shared(es, IdSets(es, {"vm", "snapshot_id"}))
  BY DEF PathGroups, PathSets, IdGroups, IdSets
<1>3. g \in PathGroups(es) \/ g \in IdGroups(es, {"vm", "snapshot_id"})
  BY DEF ResourceGroups
<1>4. Cardinality(Names(es, g)) >= 2
      /\ (g \in PathSets(es) \/ g \in IdSets(es, {"vm", "snapshot_id"}))
  BY <1>1, <1>2, <1>3
<1>5. g \in SUBSET DOMAIN es
  <2>1. ASSUME g \in PathSets(es) PROVE g \in SUBSET DOMAIN es
    BY <2>1 DEF PathSets
  <2>2. ASSUME g \in IdSets(es, {"vm", "snapshot_id"}) PROVE g \in SUBSET DOMAIN es
    BY <2>2, IdSetsFiles
  <2>3. QED
    BY <1>4, <2>1, <2>2
<1>6. ASSUME g = {} PROVE FALSE
  <2>1. Names(es, g) = {}
    BY <1>6 DEF Names
  <2>2. QED
    BY <1>4, <2>1, FS_EmptySet
<1>7. QED
  BY <1>5, <1>6

-----------------------------------------------------------------------------
(* Folding a sequence: the recursion that FoldLeft stands for has a         *)
(* solution, and along the sequence it is a running result.                 *)

\* What holds at the start and is passed on by every step holds all the way.
LEMMA Upwards ==
    ASSUME NEW n \in Nat, NEW good, 0 \in good, \A k \in 1 .. n : k - 1 \in good => k \in good
    PROVE  \A k \in 0 .. n : k \in good
<1> DEFINE bad == {k \in 0 .. n : k \notin good}
<1>1. SUFFICES ASSUME bad # {} PROVE FALSE
  OBVIOUS
<1>2. IsFiniteSet(0 .. n)
  BY FS_Interval
<1>3. IsFiniteSet(bad) /\ bad \in SUBSET Int
  BY <1>2, FS_Subset
<1>4. PICK m \in bad : \A k \in bad : m <= k
  <2> HIDE DEF bad
  <2>1. QED
    BY <1>1, <1>3, LeastExists
<1>5. m \in 1 .. n /\ m - 1 \in 0 .. n /\ ~(m <= m - 1)
  OBVIOUS
<1>6. m - 1 \in good
  BY <1>4, <1>5
<1>7. QED
  BY <1>5, <1>6

\* The last of 1 .. k, and what remains without it.
LEMMA LastOf ==
    ASSUME NEW k \in Nat \ {0}
    PROVE  Max(1 .. k) = k /\ (1 .. k) \ {k} = 1 .. k - 1 /\ 1 .. k # {}
<1>1. k \in 1 .. k /\ \A y \in 1 .. k : k >= y
  OBVIOUS
<1>2. \A x \in 1 .. k : (\A y \in 1 .. k : x >= y) => x = k
  OBVIOUS
<1>3. Max(1 .. k) = k
  BY <1>1, <1>2 DEF Max
<1>4. (1 .. k) \ {k} = 1 .. k - 1
  OBVIOUS
<1>5. QED
  BY <1>1, <1>3, <1>4

\* it folds the numbers up to n with F, from the greatest of a set downwards.
Folds(it, base, F, n) ==
    \A s \in SUBSET (1 .. n) : it[s] = IF s = {} THEN base ELSE F[<<it[s \ {Max(s)}], Max(s)>>]

\* The recursion of a fold with values in V has a solution on the subsets of
\* 1 .. m, one number at a time.
LEMMA FoldGrows ==
    ASSUME NEW n \in Nat, NEW V, NEW base \in V, NEW F \in [V \X (1 .. n) -> V],
           NEW m \in 1 .. n, NEW it \in [SUBSET (1 .. m - 1) -> V], Folds(it, base, F, m - 1)
    PROVE  \E jt \in [SUBSET (1 .. m) -> V] : Folds(jt, base, F, m)
<1> DEFINE jt == [s \in SUBSET (1 .. m) |-> IF m \in s THEN F[<<it[s \ {m}], m>>] ELSE it[s]]
<1>1. \A s \in SUBSET (1 .. m) : s \ {m} \in SUBSET (1 .. m - 1)
  OBVIOUS
<1>2. \A s \in SUBSET (1 .. m) : m \notin s => s \in SUBSET (1 .. m - 1)
  OBVIOUS
<1>3. ASSUME NEW s \in SUBSET (1 .. m), m \in s PROVE Max(s) = m
  <2>1. \A y \in s : m >= y
    OBVIOUS
  <2>2. \A x \in s : (\A y \in s : x >= y) => x = m
    BY <1>3
  <2>3. QED
    BY <1>3, <2>1, <2>2 DEF Max
<1>4. ASSUME NEW s \in SUBSET (1 .. m) PROVE jt[s] \in V
  <2>1. CASE m \in s
    <3>1. it[s \ {m}] \in V
      BY <1>1
    <3>2. F[<<it[s \ {m}], m>>] \in V
      BY <3>1
    <3>3. QED
      BY <2>1, <3>2
  <2>2. CASE m \notin s
    BY <1>2, <2>2
  <2>3. QED
    BY <2>1, <2>2
<1>5. jt \in [SUBSET (1 .. m) -> V]
  BY <1>4
<1>6. ASSUME NEW s \in SUBSET (1 .. m)
      PROVE  jt[s] = IF s = {} THEN base ELSE F[<<jt[s \ {Max(s)}], Max(s)>>]
  <2>1. CASE m \in s
    <3>1. jt[s \ {m}] = it[s \ {m}]
      BY <1>1
    <3>2. Max(s) = m
      BY <1>3, <2>1
    <3>3. jt[s] = F[<<it[s \ {m}], m>>]
      BY <2>1
    <3> HIDE DEF jt
    <3>4. QED
      BY <2>1, <3>1, <3>2, <3>3
  <2>2. CASE m \notin s
    <3>0. s \in SUBSET (1 .. m - 1) => it[s] = IF s = {} THEN base ELSE F[<<it[s \ {Max(s)}], Max(s)>>]
      BY DEF Folds
    <3>1. s \in SUBSET (1 .. m - 1) /\ s \ {Max(s)} \in SUBSET (1 .. m) /\ m \notin s \ {Max(s)}
      BY <1>2, <2>2
    <3>2. jt[s] = it[s] /\ jt[s \ {Max(s)}] = it[s \ {Max(s)}]
      BY <2>2, <3>1
    <3> HIDE DEF jt
    <3>3. QED
      BY <3>0, <3>1, <3>2
  <2>3. QED
    BY <2>1, <2>2
<1>7. QED
  <2> HIDE DEF jt
  <2>1. Folds(jt, base, F, m)
    BY <1>6 DEF Folds
  <2>2. QED
    BY <1>5, <2>1

\* So it has one on all subsets of 1 .. n.
LEMMA FoldSolved ==
    ASSUME NEW n \in Nat, NEW V, NEW base \in V, NEW F \in [V \X (1 .. n) -> V]
    PROVE  \E it \in [SUBSET (1 .. n) -> V] : Folds(it, base, F, n)
<1> DEFINE Solved(m) == \E it \in [SUBSET (1 .. m) -> V] : Folds(it, base, F, m)
           good == {m \in 0 .. n : Solved(m)}
<1>1. Solved(0)
  <2> DEFINE it == [s \in SUBSET (1 .. 0) |-> base]
  <2>1. it \in [SUBSET (1 .. 0) -> V]
    OBVIOUS
  <2>2. \A s \in SUBSET (1 .. 0) : s = {} /\ it[s] = base
    OBVIOUS
  <2> HIDE DEF it
  <2>3. QED
    BY <2>1, <2>2 DEF Folds
<1>2. ASSUME NEW m \in 1 .. n, Solved(m - 1) PROVE Solved(m)
  BY <1>2, FoldGrows
<1> HIDE DEF Solved
<1>3. 0 \in good
  BY <1>1
<1>4. \A m \in 1 .. n : m - 1 \in good => m \in good
  BY <1>2
<1>5. \A m \in 0 .. n : m \in good
  <2> HIDE DEF good
  <2>1. QED
    BY <1>3, <1>4, Upwards
<1>6. Solved(n)
  BY <1>5
<1>7. QED
  BY <1>6 DEF Solved

\* The greatest of a set of numbers up to n is one of them.
LEMMA LargestIn ==
    ASSUME NEW n \in Nat, NEW s \in SUBSET (1 .. n), s # {}
    PROVE  Max(s) \in 1 .. n /\ s \ {Max(s)} \in SUBSET (1 .. n)
<1>1. IsFiniteSet(1 .. n)
  BY FS_Interval
<1>2. IsFiniteSet(s) /\ s \in SUBSET Int
  <2>1. IsFiniteSet(s)
    BY <1>1, FS_Subset
  <2>2. s \in SUBSET Int
    OBVIOUS
  <2>3. QED
    BY <2>1, <2>2
<1>3. \E x \in s : \A y \in s : y <= x
  BY <1>2, GreatestExists
<1>4. \E x \in s : \A y \in s : x >= y
  BY <1>2, <1>3
<1>5. Max(s) \in s
  BY <1>4 DEF Max
<1>6. QED
  BY <1>5

\* What a CHOOSE of the recursion, of which no type is known, is known to satisfy:
\* it folds with F as long as its values lie in V.
Follows(it, base, F, n, V) ==
    /\ n \in Nat /\ base \in V /\ F \in [V \X (1 .. n) -> V]
    /\ it[{}] = base
    /\ \A s \in SUBSET (1 .. n) :
          s # {} /\ it[s \ {Max(s)}] \in V => it[s] = F[<<it[s \ {Max(s)}], Max(s)>>]

\* Whatever follows the recursion as long as its values lie in V has them there, and
\* runs along the sequence.
LEMMA FoldRuns ==
    ASSUME NEW n, NEW V, NEW base, NEW F, NEW ch, Follows(ch, base, F, n, V)
    PROVE  /\ \A k \in 0 .. n : ch[1 .. k] \in V
           /\ ch[1 .. 0] = base
           /\ \A k \in 1 .. n : ch[1 .. k] = F[<<ch[1 .. k - 1], k>>]
<1> DEFINE good == {k \in 0 .. n : ch[1 .. k] \in V}
<1>0. n \in Nat /\ base \in V /\ F \in [V \X (1 .. n) -> V]
  BY DEF Follows
<1>1. ch[1 .. 0] = base
  <2>1. 1 .. 0 = {}
    OBVIOUS
  <2>2. QED
    BY <2>1 DEF Follows
<1>2. ASSUME NEW k \in 1 .. n, ch[1 .. k - 1] \in V PROVE ch[1 .. k] = F[<<ch[1 .. k - 1], k>>]
  <2>1. Max(1 .. k) = k /\ (1 .. k) \ {k} = 1 .. k - 1 /\ 1 .. k # {}
    <3>1. k \in Nat \ {0}
      BY <1>0
    <3>2. QED
      BY <3>1, LastOf
  <2>2. 1 .. k \in SUBSET (1 .. n)
    BY <1>0
  <2>3. ch[(1 .. k) \ {Max(1 .. k)}] = ch[1 .. k - 1]
    BY <2>1
  <2>4. ch[1 .. k] = F[<<ch[(1 .. k) \ {Max(1 .. k)}], Max(1 .. k)>>]
    BY <1>2, <2>1, <2>2, <2>3 DEF Follows
  <2>5. QED
    BY <2>1, <2>3, <2>4
<1>3. ASSUME NEW k \in 1 .. n, k - 1 \in good PROVE k \in good
  <2>1. ch[1 .. k - 1] \in V
    BY <1>3
  <2>2. F[<<ch[1 .. k - 1], k>>] \in V
    BY <1>0, <2>1
  <2>3. ch[1 .. k] \in V
    BY <1>2, <2>1, <2>2
  <2>4. QED
    BY <2>3
<1>4. 0 \in good
  BY <1>0, <1>1
<1>5. \A k \in 0 .. n : k \in good
  <2> HIDE DEF good
  <2>1. QED
    BY <1>0, <1>3, <1>4, Upwards
<1>6. ASSUME NEW k \in 1 .. n PROVE ch[1 .. k] = F[<<ch[1 .. k - 1], k>>]
  <2>1. k - 1 \in 0 .. n
    BY <1>0
  <2>2. ch[1 .. k - 1] \in V
    BY <1>5, <2>1
  <2>3. QED
    BY <1>2, <2>2
<1>7. QED
  BY <1>1, <1>5, <1>6

\* A total is a running one.
LEMMA TotalRuns ==
    ASSUME NEW numbers \in Seq(Int)
    PROVE  \E acc \in [0 .. Len(numbers) -> Int] :
              /\ acc[0] = 0 /\ acc[Len(numbers)] = Total(numbers)
              /\ \A k \in 1 .. Len(numbers) : acc[k] = acc[k - 1] + numbers[k]
<1> DEFINE n == Len(numbers)
           V == Int
           F == [p \in V \X (1 .. n) |-> p[1] + numbers[p[2]]]
           Eq(it) == it = [s \in SUBSET DOMAIN numbers |-> IF s = {} THEN 0 ELSE it[s \ {Max(s)}] + numbers[Max(s)]]
           ch == CHOOSE it : Eq(it)
<1>1. Total(numbers) = ch[DOMAIN numbers]
  BY DEF Total, FoldLeft, MapThenFoldSet
<1>2. n \in Nat /\ DOMAIN numbers = 1 .. n
  OBVIOUS
<1>3. 0 \in V
  OBVIOUS
<1>4. \A v \in V, k \in 1 .. n : v + numbers[k] \in V
  OBVIOUS
<1>5. F \in [V \X (1 .. n) -> V] /\ \A v \in V, k \in 1 .. n : F[<<v, k>>] = v + numbers[k]
  BY <1>4
<1>6. \A s \in SUBSET (1 .. n) : s # {} => Max(s) \in 1 .. n /\ s \ {Max(s)} \in SUBSET (1 .. n)
  BY <1>2, LargestIn
<1>7. \E it : Eq(it)
  <2>1. PICK it \in [SUBSET (1 .. n) -> V] : Folds(it, 0, F, n)
    <3> HIDE DEF V, F
    <3>1. QED
      BY <1>2, <1>3, <1>5, FoldSolved
  <2>2. ASSUME NEW s \in SUBSET (1 .. n), s # {} PROVE it[s] = it[s \ {Max(s)}] + numbers[Max(s)]
    <3>1. it[s] = F[<<it[s \ {Max(s)}], Max(s)>>]
      BY <2>1, <2>2 DEF Folds
    <3>2. Max(s) \in 1 .. n /\ it[s \ {Max(s)}] \in V
      BY <1>6, <2>1, <2>2
    <3> HIDE DEF F, V
    <3>3. QED
      BY <1>5, <3>1, <3>2
  <2>3. it[{}] = 0
    BY <2>1 DEF Folds
  <2> HIDE DEF V, F
  <2>4. Eq(it)
    BY <1>2, <2>1, <2>2, <2>3
  <2> HIDE DEF Eq
  <2>5. QED
    BY <2>4
<1>8. Eq(ch)
  BY <1>7
<1>9. ASSUME NEW s \in SUBSET (1 .. n), s # {}, ch[s \ {Max(s)}] \in V
      PROVE  ch[s] = F[<<ch[s \ {Max(s)}], Max(s)>>]
  <2> HIDE DEF ch, F, V
  <2>1. ch[s] = ch[s \ {Max(s)}] + numbers[Max(s)]
    BY <1>2, <1>8, <1>9
  <2>2. Max(s) \in 1 .. n
    BY <1>6, <1>9
  <2>3. QED
    BY <1>5, <1>9, <2>1, <2>2
<1>10. ch[{}] = 0
  <2> HIDE DEF ch
  <2>1. QED
    BY <1>8
<1>11. Follows(ch, 0, F, n, V)
  <2> HIDE DEF ch, F, V, n
  <2>1. QED
    BY <1>2, <1>3, <1>5, <1>9, <1>10 DEF Follows
<1> HIDE DEF ch, F, V, n
<1>12. /\ \A k \in 0 .. n : ch[1 .. k] \in V
       /\ ch[1 .. 0] = 0
       /\ \A k \in 1 .. n : ch[1 .. k] = F[<<ch[1 .. k - 1], k>>]
  <2>1. PICK base : base = 0
    OBVIOUS
  <2>2. Follows(ch, base, F, n, V)
    BY <1>11, <2>1
  <2>3. /\ \A k \in 0 .. n : ch[1 .. k] \in V
        /\ ch[1 .. 0] = base
        /\ \A k \in 1 .. n : ch[1 .. k] = F[<<ch[1 .. k - 1], k>>]
    BY <2>2, FoldRuns
  <2>4. QED
    BY <2>1, <2>3
<1> DEFINE acc == [k \in 0 .. n |-> ch[1 .. k]]
<1>13. acc \in [0 .. n -> V] /\ acc[0] = 0 /\ acc[n] = Total(numbers)
  BY <1>1, <1>2, <1>12
<1>14. ASSUME NEW k \in 1 .. n PROVE acc[k] = acc[k - 1] + numbers[k]
  <2>1. k - 1 \in 0 .. n /\ acc[k - 1] = ch[1 .. k - 1] /\ acc[k] = ch[1 .. k]
    BY <1>2
  <2> HIDE DEF acc
  <2>2. QED
    BY <1>5, <1>12, <2>1
<1> HIDE DEF acc
<1>15. QED
  BY <1>13, <1>14 DEF V, n

\* The numbers of a text's lines.
Numbers(text) == [i \in DOMAIN text |-> i]

\* One step of the walk that opens windows, of the one that leaves repetitions
\* out, and of the one that retains surroundings.
Opens(text, cs, i) ==
    IF /\ IsSignal(text[i]) /\ Len(cs) < MaxWindows
       /\ \A k \in DOMAIN cs : Around(text, cs[k]) \cap Around(text, i) = {}
    THEN Append(cs, i) ELSE cs

Adds(text, ws, i) ==
    IF \E k \in DOMAIN ws : Texts(text, ws[k]) = Texts(text, WindowAt(text, i))
    THEN ws ELSE Append(ws, WindowAt(text, i))

Widens(text, kept, i) ==
    IF Cost(text, kept \cup Around(text, i)) <= MaxChars THEN kept \cup Around(text, i) ELSE kept

\* What may be retained: what costs no more than allowed, or the ends alone.
Affordable(text) == {is \in SUBSET DOMAIN text : Cost(text, is) <= MaxChars \/ is = Ends(text)}

\* The centres of the windows are found line by line.
LEMMA CentresRun ==
    ASSUME NEW text \in Seq(Line)
    PROVE  \E acc \in [0 .. Len(Numbers(text)) -> Seq(DOMAIN text)] :
              /\ acc[0] = <<>> /\ acc[Len(Numbers(text))] = Centres(text)
              /\ \A k \in 1 .. Len(Numbers(text)) : acc[k] = Opens(text, acc[k - 1], Numbers(text)[k])
<1> DEFINE n == Len(Numbers(text))
           V == Seq(DOMAIN text)
           F == [p \in V \X (1 .. n) |-> Opens(text, p[1], Numbers(text)[p[2]])]
           Eq(it) == it = [s \in SUBSET DOMAIN Numbers(text) |-> IF s = {} THEN <<>> ELSE Opens(text, it[s \ {Max(s)}], Numbers(text)[Max(s)])]
           ch == CHOOSE it : Eq(it)
<1>1. Centres(text) = ch[DOMAIN Numbers(text)]
  BY DEF Centres, Opens, Numbers, FoldLeft, MapThenFoldSet
<1>2. n \in Nat /\ DOMAIN Numbers(text) = 1 .. n
  OBVIOUS
<1>3. <<>> \in V
  OBVIOUS
<1>4. \A v \in V, k \in 1 .. n : Opens(text, v, Numbers(text)[k]) \in V
  <2> SUFFICES ASSUME NEW v \in V, NEW k \in 1 .. n PROVE Opens(text, v, Numbers(text)[k]) \in V
    OBVIOUS
  <2>1. Numbers(text)[k] = k /\ k \in DOMAIN text
    BY DEF Numbers
  <2>2. Append(v, k) \in V
    <3>1. ASSUME NEW S, NEW s \in Seq(S), NEW e \in S PROVE Append(s, e) \in Seq(S)
      OBVIOUS
    <3>2. QED
      BY <2>1, <3>1
  <2> HIDE DEF V, n
  <2>3. QED
    BY <2>1, <2>2 DEF Opens
<1>5. F \in [V \X (1 .. n) -> V] /\ \A v \in V, k \in 1 .. n : F[<<v, k>>] = Opens(text, v, Numbers(text)[k])
  BY <1>4
<1>6. \A s \in SUBSET (1 .. n) : s # {} => Max(s) \in 1 .. n /\ s \ {Max(s)} \in SUBSET (1 .. n)
  BY <1>2, LargestIn
<1>7. \E it : Eq(it)
  <2>1. PICK it \in [SUBSET (1 .. n) -> V] : Folds(it, <<>>, F, n)
    <3> HIDE DEF V, F
    <3>1. QED
      BY <1>2, <1>3, <1>5, FoldSolved
  <2>2. ASSUME NEW s \in SUBSET (1 .. n), s # {} PROVE it[s] = Opens(text, it[s \ {Max(s)}], Numbers(text)[Max(s)])
    <3>1. it[s] = F[<<it[s \ {Max(s)}], Max(s)>>]
      BY <2>1, <2>2 DEF Folds
    <3>2. Max(s) \in 1 .. n /\ it[s \ {Max(s)}] \in V
      BY <1>6, <2>1, <2>2
    <3> HIDE DEF F, V
    <3>3. QED
      BY <1>5, <3>1, <3>2
  <2>3. it[{}] = <<>>
    BY <2>1 DEF Folds
  <2> HIDE DEF V, F
  <2>4. Eq(it)
    BY <1>2, <2>1, <2>2, <2>3
  <2> HIDE DEF Eq
  <2>5. QED
    BY <2>4
<1>8. Eq(ch)
  BY <1>7
<1>9. ASSUME NEW s \in SUBSET (1 .. n), s # {}, ch[s \ {Max(s)}] \in V
      PROVE  ch[s] = F[<<ch[s \ {Max(s)}], Max(s)>>]
  <2> HIDE DEF ch, F, V
  <2>1. ch[s] = Opens(text, ch[s \ {Max(s)}], Numbers(text)[Max(s)])
    BY <1>2, <1>8, <1>9
  <2>2. Max(s) \in 1 .. n
    BY <1>6, <1>9
  <2>3. QED
    BY <1>5, <1>9, <2>1, <2>2
<1>10. ch[{}] = <<>>
  <2> HIDE DEF ch
  <2>1. QED
    BY <1>8
<1>11. Follows(ch, <<>>, F, n, V)
  <2> HIDE DEF ch, F, V, n
  <2>1. QED
    BY <1>2, <1>3, <1>5, <1>9, <1>10 DEF Follows
<1> HIDE DEF ch, F, V, n
<1>12. /\ \A k \in 0 .. n : ch[1 .. k] \in V
       /\ ch[1 .. 0] = <<>>
       /\ \A k \in 1 .. n : ch[1 .. k] = F[<<ch[1 .. k - 1], k>>]
  BY <1>11, FoldRuns
<1> DEFINE acc == [k \in 0 .. n |-> ch[1 .. k]]
<1>13. acc \in [0 .. n -> V] /\ acc[0] = <<>> /\ acc[n] = Centres(text)
  BY <1>1, <1>2, <1>12
<1>14. ASSUME NEW k \in 1 .. n PROVE acc[k] = Opens(text, acc[k - 1], Numbers(text)[k])
  <2>1. k - 1 \in 0 .. n /\ acc[k - 1] = ch[1 .. k - 1] /\ acc[k] = ch[1 .. k]
    BY <1>2
  <2> HIDE DEF acc
  <2>2. QED
    BY <1>5, <1>12, <2>1
<1> HIDE DEF acc
<1>15. QED
  BY <1>13, <1>14 DEF V, n

\* A window is made of lines of the text.
LEMMA WindowLines ==
    ASSUME NEW text \in Seq(Line), NEW i \in DOMAIN text
    PROVE  WindowAt(text, i) \in Seq(DOMAIN text)
<1> DEFINE low == IF i > Radius THEN i - Radius ELSE 1
           high == IF i + Radius < Len(text) THEN i + Radius ELSE Len(text)
<1>1. Radius \in Nat
  BY CompactionAssumption
<1>2. i \in 1 .. Len(text) /\ Len(text) \in Nat /\ DOMAIN text = 1 .. Len(text)
  OBVIOUS
<1>3. low \in 1 .. Len(text) /\ high \in 1 .. Len(text) /\ low <= high
  BY <1>1, <1>2
<1>4. WindowAt(text, i) = [k \in 1 .. high - low + 1 |-> low + k - 1]
  BY DEF WindowAt
<1> HIDE DEF low, high
<1>5. high - low + 1 \in Nat /\ \A k \in 1 .. high - low + 1 : low + k - 1 \in 1 .. Len(text)
  BY <1>2, <1>3
<1>6. QED
  BY <1>2, <1>4, <1>5

\* The windows are gathered centre by centre.
LEMMA WindowsRun ==
    ASSUME NEW text \in Seq(Line), Centres(text) \in Seq(DOMAIN text)
    PROVE  \E acc \in [0 .. Len(Centres(text)) -> Seq(Seq(DOMAIN text))] :
              /\ acc[0] = <<>> /\ acc[Len(Centres(text))] = Windows(text)
              /\ \A k \in 1 .. Len(Centres(text)) : acc[k] = Adds(text, acc[k - 1], Centres(text)[k])
<1> DEFINE n == Len(Centres(text))
           V == Seq(Seq(DOMAIN text))
           F == [p \in V \X (1 .. n) |-> Adds(text, p[1], Centres(text)[p[2]])]
           Eq(it) == it = [s \in SUBSET DOMAIN Centres(text) |-> IF s = {} THEN <<>> ELSE Adds(text, it[s \ {Max(s)}], Centres(text)[Max(s)])]
           ch == CHOOSE it : Eq(it)
<1>1. Windows(text) = ch[DOMAIN Centres(text)]
  BY DEF Windows, Adds, FoldLeft, MapThenFoldSet
<1>2. n \in Nat /\ DOMAIN Centres(text) = 1 .. n
  OBVIOUS
<1>3. <<>> \in V
  OBVIOUS
<1>4. \A v \in V, k \in 1 .. n : Adds(text, v, Centres(text)[k]) \in V
  <2> SUFFICES ASSUME NEW v \in V, NEW k \in 1 .. n PROVE Adds(text, v, Centres(text)[k]) \in V
    OBVIOUS
  <2> DEFINE w == WindowAt(text, Centres(text)[k])
  <2>1. Centres(text)[k] \in DOMAIN text
    OBVIOUS
  <2>2. w \in Seq(DOMAIN text)
    BY <2>1, WindowLines
  <2> HIDE DEF w
  <2>3. Append(v, w) \in V
    <3>1. ASSUME NEW S, NEW s \in Seq(S), NEW e \in S PROVE Append(s, e) \in Seq(S)
      OBVIOUS
    <3>2. QED
      BY <2>2, <3>1
  <2> HIDE DEF V, n
  <2>4. QED
    BY <2>3 DEF Adds, w
<1>5. F \in [V \X (1 .. n) -> V] /\ \A v \in V, k \in 1 .. n : F[<<v, k>>] = Adds(text, v, Centres(text)[k])
  BY <1>4
<1>6. \A s \in SUBSET (1 .. n) : s # {} => Max(s) \in 1 .. n /\ s \ {Max(s)} \in SUBSET (1 .. n)
  BY <1>2, LargestIn
<1>7. \E it : Eq(it)
  <2>1. PICK it \in [SUBSET (1 .. n) -> V] : Folds(it, <<>>, F, n)
    <3> HIDE DEF V, F
    <3>1. QED
      BY <1>2, <1>3, <1>5, FoldSolved
  <2>2. ASSUME NEW s \in SUBSET (1 .. n), s # {} PROVE it[s] = Adds(text, it[s \ {Max(s)}], Centres(text)[Max(s)])
    <3>1. it[s] = F[<<it[s \ {Max(s)}], Max(s)>>]
      BY <2>1, <2>2 DEF Folds
    <3>2. Max(s) \in 1 .. n /\ it[s \ {Max(s)}] \in V
      BY <1>6, <2>1, <2>2
    <3> HIDE DEF F, V
    <3>3. QED
      BY <1>5, <3>1, <3>2
  <2>3. it[{}] = <<>>
    BY <2>1 DEF Folds
  <2> HIDE DEF V, F
  <2>4. Eq(it)
    BY <1>2, <2>1, <2>2, <2>3
  <2> HIDE DEF Eq
  <2>5. QED
    BY <2>4
<1>8. Eq(ch)
  BY <1>7
<1>9. ASSUME NEW s \in SUBSET (1 .. n), s # {}, ch[s \ {Max(s)}] \in V
      PROVE  ch[s] = F[<<ch[s \ {Max(s)}], Max(s)>>]
  <2> HIDE DEF ch, F, V
  <2>1. ch[s] = Adds(text, ch[s \ {Max(s)}], Centres(text)[Max(s)])
    BY <1>2, <1>8, <1>9
  <2>2. Max(s) \in 1 .. n
    BY <1>6, <1>9
  <2>3. QED
    BY <1>5, <1>9, <2>1, <2>2
<1>10. ch[{}] = <<>>
  <2> HIDE DEF ch
  <2>1. QED
    BY <1>8
<1>11. Follows(ch, <<>>, F, n, V)
  <2> HIDE DEF ch, F, V, n
  <2>1. QED
    BY <1>2, <1>3, <1>5, <1>9, <1>10 DEF Follows
<1> HIDE DEF ch, F, V, n
<1>12. /\ \A k \in 0 .. n : ch[1 .. k] \in V
       /\ ch[1 .. 0] = <<>>
       /\ \A k \in 1 .. n : ch[1 .. k] = F[<<ch[1 .. k - 1], k>>]
  BY <1>11, FoldRuns
<1> DEFINE acc == [k \in 0 .. n |-> ch[1 .. k]]
<1>13. acc \in [0 .. n -> V] /\ acc[0] = <<>> /\ acc[n] = Windows(text)
  BY <1>1, <1>2, <1>12
<1>14. ASSUME NEW k \in 1 .. n PROVE acc[k] = Adds(text, acc[k - 1], Centres(text)[k])
  <2>1. k - 1 \in 0 .. n /\ acc[k - 1] = ch[1 .. k - 1] /\ acc[k] = ch[1 .. k]
    BY <1>2
  <2> HIDE DEF acc
  <2>2. QED
    BY <1>5, <1>12, <2>1
<1> HIDE DEF acc
<1>15. QED
  BY <1>13, <1>14 DEF V, n

\* The lines retained grow centre by centre.
LEMMA RetainedRuns ==
    ASSUME NEW text \in Seq(Line), Centres(text) \in Seq(DOMAIN text)
    PROVE  \E acc \in [0 .. Len(Centres(text)) -> Affordable(text)] :
              /\ acc[0] = Ends(text) /\ acc[Len(Centres(text))] = Retained(text)
              /\ \A k \in 1 .. Len(Centres(text)) : acc[k] = Widens(text, acc[k - 1], Centres(text)[k])
<1> DEFINE n == Len(Centres(text))
           V == Affordable(text)
           F == [p \in V \X (1 .. n) |-> Widens(text, p[1], Centres(text)[p[2]])]
           Eq(it) == it = [s \in SUBSET DOMAIN Centres(text) |-> IF s = {} THEN Ends(text) ELSE Widens(text, it[s \ {Max(s)}], Centres(text)[Max(s)])]
           ch == CHOOSE it : Eq(it)
<1>1. Retained(text) = ch[DOMAIN Centres(text)]
  BY DEF Retained, Widens, FoldLeft, MapThenFoldSet
<1>2. n \in Nat /\ DOMAIN Centres(text) = 1 .. n
  OBVIOUS
<1>3. Ends(text) \in V
  BY DEF Affordable, Ends
<1>4. \A v \in V, k \in 1 .. n : Widens(text, v, Centres(text)[k]) \in V
  BY DEF Widens, Around, Affordable
<1>5. F \in [V \X (1 .. n) -> V] /\ \A v \in V, k \in 1 .. n : F[<<v, k>>] = Widens(text, v, Centres(text)[k])
  BY <1>4
<1>6. \A s \in SUBSET (1 .. n) : s # {} => Max(s) \in 1 .. n /\ s \ {Max(s)} \in SUBSET (1 .. n)
  BY <1>2, LargestIn
<1>7. \E it : Eq(it)
  <2>1. PICK it \in [SUBSET (1 .. n) -> V] : Folds(it, Ends(text), F, n)
    <3> HIDE DEF V, F
    <3>1. QED
      BY <1>2, <1>3, <1>5, FoldSolved
  <2>2. ASSUME NEW s \in SUBSET (1 .. n), s # {} PROVE it[s] = Widens(text, it[s \ {Max(s)}], Centres(text)[Max(s)])
    <3>1. it[s] = F[<<it[s \ {Max(s)}], Max(s)>>]
      BY <2>1, <2>2 DEF Folds
    <3>2. Max(s) \in 1 .. n /\ it[s \ {Max(s)}] \in V
      BY <1>6, <2>1, <2>2
    <3> HIDE DEF F, V
    <3>3. QED
      BY <1>5, <3>1, <3>2
  <2>3. it[{}] = Ends(text)
    BY <2>1 DEF Folds
  <2> HIDE DEF V, F
  <2>4. Eq(it)
    BY <1>2, <2>1, <2>2, <2>3
  <2> HIDE DEF Eq
  <2>5. QED
    BY <2>4
<1>8. Eq(ch)
  BY <1>7
<1>9. ASSUME NEW s \in SUBSET (1 .. n), s # {}, ch[s \ {Max(s)}] \in V
      PROVE  ch[s] = F[<<ch[s \ {Max(s)}], Max(s)>>]
  <2> HIDE DEF ch, F, V
  <2>1. ch[s] = Widens(text, ch[s \ {Max(s)}], Centres(text)[Max(s)])
    BY <1>2, <1>8, <1>9
  <2>2. Max(s) \in 1 .. n
    BY <1>6, <1>9
  <2>3. QED
    BY <1>5, <1>9, <2>1, <2>2
<1>10. ch[{}] = Ends(text)
  <2> HIDE DEF ch
  <2>1. QED
    BY <1>8
<1>11. Follows(ch, Ends(text), F, n, V)
  <2> HIDE DEF ch, F, V, n
  <2>1. QED
    BY <1>2, <1>3, <1>5, <1>9, <1>10 DEF Follows
<1> HIDE DEF ch, F, V, n
<1>12. /\ \A k \in 0 .. n : ch[1 .. k] \in V
       /\ ch[1 .. 0] = Ends(text)
       /\ \A k \in 1 .. n : ch[1 .. k] = F[<<ch[1 .. k - 1], k>>]
  BY <1>11, FoldRuns
<1> DEFINE acc == [k \in 0 .. n |-> ch[1 .. k]]
<1>13. acc \in [0 .. n -> V] /\ acc[0] = Ends(text) /\ acc[n] = Retained(text)
  BY <1>1, <1>2, <1>12
<1>14. ASSUME NEW k \in 1 .. n PROVE acc[k] = Widens(text, acc[k - 1], Centres(text)[k])
  <2>1. k - 1 \in 0 .. n /\ acc[k - 1] = ch[1 .. k - 1] /\ acc[k] = ch[1 .. k]
    BY <1>2
  <2> HIDE DEF acc
  <2>2. QED
    BY <1>5, <1>12, <2>1
<1> HIDE DEF acc
<1>15. QED
  BY <1>13, <1>14 DEF V, n

\* What is joined grows part by part.
LEMMA JoinedRuns ==
    ASSUME NEW X, NEW parts \in Seq(Seq(X))
    PROVE  \E acc \in [0 .. Len(parts) -> Seq(X)] :
              /\ acc[0] = <<>> /\ acc[Len(parts)] = Joined(parts)
              /\ \A k \in 1 .. Len(parts) : acc[k] = acc[k - 1] \o parts[k]
<1> DEFINE n == Len(parts)
           V == Seq(X)
           F == [p \in V \X (1 .. n) |-> p[1] \o parts[p[2]]]
           Eq(it) == it = [s \in SUBSET DOMAIN parts |-> IF s = {} THEN <<>> ELSE it[s \ {Max(s)}] \o parts[Max(s)]]
           ch == CHOOSE it : Eq(it)
<1>1. Joined(parts) = ch[DOMAIN parts]
  BY DEF Joined, FoldLeft, MapThenFoldSet
<1>2. n \in Nat /\ DOMAIN parts = 1 .. n
  OBVIOUS
<1>3. <<>> \in V
  OBVIOUS
<1>4. \A v \in V, k \in 1 .. n : v \o parts[k] \in V
  <2> SUFFICES ASSUME NEW v \in V, NEW k \in 1 .. n PROVE v \o parts[k] \in V
    OBVIOUS
  <2>1. parts[k] \in Seq(X)
    OBVIOUS
  <2>2. QED
    BY <2>1
<1>5. F \in [V \X (1 .. n) -> V] /\ \A v \in V, k \in 1 .. n : F[<<v, k>>] = v \o parts[k]
  BY <1>4
<1>6. \A s \in SUBSET (1 .. n) : s # {} => Max(s) \in 1 .. n /\ s \ {Max(s)} \in SUBSET (1 .. n)
  BY <1>2, LargestIn
<1>7. \E it : Eq(it)
  <2>1. PICK it \in [SUBSET (1 .. n) -> V] : Folds(it, <<>>, F, n)
    <3> HIDE DEF V, F
    <3>1. QED
      BY <1>2, <1>3, <1>5, FoldSolved
  <2>2. ASSUME NEW s \in SUBSET (1 .. n), s # {} PROVE it[s] = it[s \ {Max(s)}] \o parts[Max(s)]
    <3>1. it[s] = F[<<it[s \ {Max(s)}], Max(s)>>]
      BY <2>1, <2>2 DEF Folds
    <3>2. Max(s) \in 1 .. n /\ it[s \ {Max(s)}] \in V
      BY <1>6, <2>1, <2>2
    <3> HIDE DEF F, V
    <3>3. QED
      BY <1>5, <3>1, <3>2
  <2>3. it[{}] = <<>>
    BY <2>1 DEF Folds
  <2> HIDE DEF V, F
  <2>4. Eq(it)
    BY <1>2, <2>1, <2>2, <2>3
  <2> HIDE DEF Eq
  <2>5. QED
    BY <2>4
<1>8. Eq(ch)
  BY <1>7
<1>9. ASSUME NEW s \in SUBSET (1 .. n), s # {}, ch[s \ {Max(s)}] \in V
      PROVE  ch[s] = F[<<ch[s \ {Max(s)}], Max(s)>>]
  <2> HIDE DEF ch, F, V
  <2>1. ch[s] = ch[s \ {Max(s)}] \o parts[Max(s)]
    BY <1>2, <1>8, <1>9
  <2>2. Max(s) \in 1 .. n
    BY <1>6, <1>9
  <2>3. QED
    BY <1>5, <1>9, <2>1, <2>2
<1>10. ch[{}] = <<>>
  <2> HIDE DEF ch
  <2>1. QED
    BY <1>8
<1>11. Follows(ch, <<>>, F, n, V)
  <2> HIDE DEF ch, F, V, n
  <2>1. QED
    BY <1>2, <1>3, <1>5, <1>9, <1>10 DEF Follows
<1> HIDE DEF ch, F, V, n
<1>12. /\ \A k \in 0 .. n : ch[1 .. k] \in V
       /\ ch[1 .. 0] = <<>>
       /\ \A k \in 1 .. n : ch[1 .. k] = F[<<ch[1 .. k - 1], k>>]
  BY <1>11, FoldRuns
<1> DEFINE acc == [k \in 0 .. n |-> ch[1 .. k]]
<1>13. acc \in [0 .. n -> V] /\ acc[0] = <<>> /\ acc[n] = Joined(parts)
  BY <1>1, <1>2, <1>12
<1>14. ASSUME NEW k \in 1 .. n PROVE acc[k] = acc[k - 1] \o parts[k]
  <2>1. k - 1 \in 0 .. n /\ acc[k - 1] = ch[1 .. k - 1] /\ acc[k] = ch[1 .. k]
    BY <1>2
  <2> HIDE DEF acc
  <2>2. QED
    BY <1>5, <1>12, <2>1
<1> HIDE DEF acc
<1>15. QED
  BY <1>13, <1>14 DEF V, n

\* What is joined from parts has the parts' elements.
LEMMA JoinedIn == ASSUME NEW X, NEW parts \in Seq(Seq(X)) PROVE Joined(parts) \in Seq(X)
<1>1. PICK acc \in [0 .. Len(parts) -> Seq(X)] : acc[Len(parts)] = Joined(parts)
  BY JoinedRuns
<1>2. Len(parts) \in 0 .. Len(parts)
  OBVIOUS
<1>3. QED
  BY <1>1, <1>2

\* A part put behind the others is joined last.
LEMMA JoinedAppended ==
    ASSUME NEW X, NEW ss \in Seq(Seq(X)), NEW s \in Seq(X)
    PROVE  Joined(Append(ss, s)) = Joined(ss) \o s
<1> DEFINE n == Len(ss)
           tt == Append(ss, s)
<1>1. n \in Nat /\ tt \in Seq(Seq(X)) /\ Len(tt) = n + 1 /\ tt[n + 1] = s /\ \A k \in 1 .. n : tt[k] = ss[k]
  OBVIOUS
<1> HIDE DEF tt
<1>2. PICK a \in [0 .. Len(ss) -> Seq(X)] :
        /\ a[0] = <<>> /\ a[Len(ss)] = Joined(ss)
        /\ \A k \in 1 .. Len(ss) : a[k] = a[k - 1] \o ss[k]
  BY JoinedRuns
<1>3. PICK b \in [0 .. Len(tt) -> Seq(X)] :
        /\ b[0] = <<>> /\ b[Len(tt)] = Joined(tt)
        /\ \A k \in 1 .. Len(tt) : b[k] = b[k - 1] \o tt[k]
  BY <1>1, JoinedRuns
<1> DEFINE good == {k \in 0 .. n : a[k] = b[k]}
<1>4. 0 \in good
  BY <1>1, <1>2, <1>3
<1>5. ASSUME NEW k \in 1 .. n, k - 1 \in good PROVE k \in good
  <2>1. a[k] = a[k - 1] \o ss[k]
    BY <1>2
  <2>2. k \in 1 .. Len(tt)
    BY <1>1
  <2>3. b[k] = b[k - 1] \o tt[k]
    BY <1>3, <2>2
  <2>4. a[k - 1] = b[k - 1] /\ tt[k] = ss[k]
    BY <1>1, <1>5
  <2>5. a[k] = b[k]
    BY <2>1, <2>3, <2>4
  <2>6. QED
    BY <1>1, <2>5
<1>6. \A k \in 0 .. n : k \in good
  <2> HIDE DEF good
  <2>1. QED
    BY <1>1, <1>4, <1>5, Upwards
<1>7. a[n] = b[n] /\ n \in 0 .. n
  BY <1>1, <1>6
<1>8. b[n + 1] = b[n] \o s
  <2>1. n + 1 \in 1 .. Len(tt) /\ (n + 1) - 1 = n
    BY <1>1
  <2>2. b[n + 1] = b[(n + 1) - 1] \o tt[n + 1]
    BY <1>3, <2>1
  <2>3. QED
    BY <1>1, <2>1, <2>2
<1>9. QED
  BY <1>1, <1>2, <1>3, <1>7, <1>8 DEF tt

-----------------------------------------------------------------------------
(* What the limits guarantee of a text and of the sizes read.               *)

\* One number more adds itself.
LEMMA TotalAppended ==
    ASSUME NEW numbers \in Seq(Int), NEW x \in Int
    PROVE  Total(numbers) \in Int /\ Total(Append(numbers, x)) = Total(numbers) + x
<1> DEFINE more == Append(numbers, x)
           n == Len(numbers)
<1>1. more \in Seq(Int) /\ Len(more) = n + 1 /\ n \in Nat /\ more[n + 1] = x
      /\ \A k \in 1 .. n : more[k] = numbers[k]
  OBVIOUS
<1> HIDE DEF more
<1>2. PICK a \in [0 .. Len(numbers) -> Int] :
         /\ a[0] = 0 /\ a[Len(numbers)] = Total(numbers)
         /\ \A k \in 1 .. Len(numbers) : a[k] = a[k - 1] + numbers[k]
  BY TotalRuns
<1>3. PICK b \in [0 .. Len(more) -> Int] :
         /\ b[0] = 0 /\ b[Len(more)] = Total(more)
         /\ \A k \in 1 .. Len(more) : b[k] = b[k - 1] + more[k]
  BY <1>1, TotalRuns
<1> DEFINE good == {k \in 0 .. n : a[k] = b[k]}
<1>4. 0 \in good
  BY <1>1, <1>2, <1>3
<1>5. ASSUME NEW k \in 1 .. n, k - 1 \in good PROVE k \in good
  <2>1. a[k] = a[k - 1] + numbers[k]
    BY <1>2
  <2>2. k \in 1 .. Len(more)
    BY <1>1
  <2>3. b[k] = b[k - 1] + more[k]
    BY <1>3, <2>2
  <2>4. a[k - 1] = b[k - 1] /\ more[k] = numbers[k]
    BY <1>1, <1>5
  <2>5. QED
    BY <1>1, <2>1, <2>3, <2>4
<1>6. \A k \in 0 .. n : k \in good
  <2> HIDE DEF good
  <2>1. QED
    BY <1>1, <1>4, <1>5, Upwards
<1>7. a[n] = b[n] /\ n \in 0 .. n
  BY <1>1, <1>6
<1>8. b[n + 1] = b[n] + x
  <2>1. n + 1 \in 1 .. Len(more) /\ (n + 1) - 1 = n
    BY <1>1
  <2>2. b[n + 1] = b[(n + 1) - 1] + more[n + 1]
    BY <1>3, <2>1
  <2>3. QED
    BY <1>1, <2>1, <2>2
<1>9. Total(numbers) \in Int
  BY <1>2, <1>7
<1>10. Total(more) = Total(numbers) + x
  BY <1>1, <1>2, <1>3, <1>7, <1>8
<1>11. QED
  BY <1>9, <1>10 DEF more

\* A total of whole numbers is one.
LEMMA TotalWhole == ASSUME NEW numbers \in Seq(Int) PROVE Total(numbers) \in Int
BY TotalAppended

\* The sizes of the files read, with one more.
LEMMA SizesAppended ==
    ASSUME NEW files \in Seq(File), NEW f \in File
    PROVE  /\ Sizes(files) \in Seq(Int) /\ f.bytes \in Nat
           /\ Total(Sizes(Append(files, f))) = Total(Sizes(files)) + f.bytes
<1>1. \A g \in File : g.bytes \in Nat
  BY DEF File
<1> HIDE DEF File
<1>2. \A k \in DOMAIN files : files[k] \in File /\ files[k].bytes \in Int
  BY <1>1
<1>3. Sizes(files) \in Seq(Int) /\ Len(Sizes(files)) = Len(files)
  BY <1>2 DEF Sizes
<1>4. f.bytes \in Nat
  BY <1>1
<1>5. Sizes(Append(files, f)) = Append(Sizes(files), f.bytes)
  <2> DEFINE more == Append(files, f)
             old == Sizes(files)
  <2>1. /\ DOMAIN more = 1 .. Len(files) + 1 /\ Len(files) \in Nat
        /\ more[Len(files) + 1] = f /\ \A k \in 1 .. Len(files) : more[k] = files[k]
    OBVIOUS
  <2>2. /\ DOMAIN Append(old, f.bytes) = 1 .. Len(files) + 1
        /\ Append(old, f.bytes)[Len(files) + 1] = f.bytes
        /\ \A k \in 1 .. Len(files) : Append(old, f.bytes)[k] = old[k]
        /\ Append(old, f.bytes) = [k \in 1 .. Len(files) + 1 |-> Append(old, f.bytes)[k]]
    <3> HIDE DEF old
    <3>1. old \in Seq(Int) /\ Len(old) = Len(files)
      BY <1>3 DEF old
    <3>2. QED
      BY <1>4, <3>1
  <2>3. \A k \in 1 .. Len(files) : old[k] = files[k].bytes
    BY DEF Sizes
  <2>4. Sizes(more) = [k \in 1 .. Len(files) + 1 |-> more[k].bytes]
    BY <2>1 DEF Sizes
  <2> HIDE DEF more, old
  <2>5. \A k \in 1 .. Len(files) + 1 : more[k].bytes = Append(old, f.bytes)[k]
    BY <2>1, <2>2, <2>3
  <2>6. Sizes(more) = Append(old, f.bytes)
    BY <2>2, <2>4, <2>5
  <2>7. QED
    BY <2>6 DEF more, old
<1>6. Total(Append(Sizes(files), f.bytes)) = Total(Sizes(files)) + f.bytes
  BY <1>3, <1>4, TotalAppended
<1>7. QED
  BY <1>3, <1>4, <1>5, <1>6

\* Lengths are whole numbers.
LEMMA LengthWhole == ASSUME NEW text \in Seq(Line) PROVE Length(text) \in Int
<1>1. \A l \in Line : l.len \in Nat
  BY DEF Line
<1> HIDE DEF Line
<1>2. \A k \in 1 .. Len(text) : text[k] \in Line
  OBVIOUS
<1>3. [k \in 1 .. Len(text) |-> text[k].len + 1] \in Seq(Int)
  <2>1. \A k \in 1 .. Len(text) : text[k].len + 1 \in Int
    BY <1>1, <1>2
  <2>2. Len(text) \in Nat
    OBVIOUS
  <2>3. QED
    BY <2>1, <2>2
<1>4. Through(text, Len(text)) \in Int
  BY <1>3, TotalWhole DEF Through
<1>5. QED
  BY <1>4 DEF Length

\* The centres and the windows are made of lines of the text.
LEMMA CentresLines == ASSUME NEW text \in Seq(Line) PROVE Centres(text) \in Seq(DOMAIN text)
<1>1. PICK acc \in [0 .. Len(Numbers(text)) -> Seq(DOMAIN text)] : acc[Len(Numbers(text))] = Centres(text)
  BY CentresRun
<1>2. Len(Numbers(text)) \in Nat
  BY DEF Numbers
<1>3. QED
  BY <1>1, <1>2

\* Windows are made of lines of the text.
LEMMA WindowsLines == ASSUME NEW text \in Seq(Line) PROVE Windows(text) \in Seq(Seq(DOMAIN text))
<1>1. Centres(text) \in Seq(DOMAIN text)
  BY CentresLines
<1>2. PICK acc \in [0 .. Len(Centres(text)) -> Seq(Seq(DOMAIN text))] : acc[Len(Centres(text))] = Windows(text)
  BY <1>1, WindowsRun
<1>3. Len(Centres(text)) \in Nat
  BY <1>1
<1>4. QED
  BY <1>2, <1>3

\* So is the length of the windows together.
LEMMA BodyWhole == ASSUME NEW text \in Seq(Line) PROVE BodyLength(text) \in Int
<1> DEFINE ws == Windows(text)
<1>1. ws \in Seq(Seq(DOMAIN text))
  BY WindowsLines
<1> HIDE DEF ws
<1>2. ASSUME NEW k \in DOMAIN ws PROVE Length(Texts(text, ws[k])) \in Int
  <2>1. ws[k] \in Seq(DOMAIN text)
    BY <1>1
  <2>2. Texts(text, ws[k]) \in Seq(Line)
    <3> HIDE DEF Line
    <3>1. ASSUME NEW L, NEW is \in Seq(DOMAIN text), text \in Seq(L)
          PROVE  [m \in DOMAIN is |-> text[is[m]]] \in Seq(L)
      BY <3>1
    <3>2. QED
      BY <2>1, <3>1 DEF Texts
  <2>3. QED
    BY <2>2, LengthWhole
<1>3. [k \in DOMAIN ws |-> Length(Texts(text, ws[k]))] \in Seq(Int)
  <2>1. DOMAIN ws = 1 .. Len(ws) /\ Len(ws) \in Nat
    BY <1>1
  <2>2. QED
    BY <1>2, <2>1
<1>4. Total([k \in DOMAIN ws |-> Length(Texts(text, ws[k]))]) \in Int
  BY <1>3, TotalWhole
<1>5. Len(ws) \in Nat /\ Mark \in Nat
  BY <1>1, CompactionAssumption
<1>6. (IF Len(ws) > 1 THEN Mark * (Len(ws) - 1) ELSE 0) \in Int
  BY <1>5
<1>7. BodyLength(text) = Total([k \in DOMAIN ws |-> Length(Texts(text, ws[k]))])
                           + (IF Len(ws) > 1 THEN Mark * (Len(ws) - 1) ELSE 0)
  BY DEF BodyLength, ws
<1>8. QED
  BY <1>4, <1>6, <1>7

\* compact_log_evidence never returns more than MaxChars characters: when it cuts
\* the windows, it takes away more than the mark that says so.
LEMMA CompactedFits == ASSUME NEW text \in Seq(Line) PROVE CompactedLength(text) <= MaxChars
<1> DEFINE body == BodyLength(text)
           over == Overflow(text)
           rest == HeaderChars + TailChars + 2 * Mark + Note
<1>1. rest \in Int /\ MaxChars \in Int /\ Mark \in Int /\ Slack \in Int /\ Mark <= Slack /\ rest + Slack < MaxChars
  BY CompactionAssumption
<1>2. body \in Int
  BY BodyWhole
<1>3. over = rest + body - MaxChars
  BY DEF Overflow
<1>4. over > 0 => BodyKept(text) = body - over - Slack
  BY DEF BodyKept
<1>5. CompactedLength(text) =
        IF Length(text) <= MaxChars THEN Length(text)
        ELSE IF over <= 0 THEN MaxChars + over
        ELSE IF body > over + Slack THEN rest + BodyKept(text) + Mark
        ELSE MaxChars + Mark
  BY DEF CompactedLength
<1> HIDE DEF body, over, rest
<1>6. over \in Int
  BY <1>1, <1>2, <1>3
<1>7. over > 0 => rest + BodyKept(text) + Mark <= MaxChars
  BY <1>1, <1>2, <1>3, <1>4, <1>6
<1>8. body > over + Slack
  BY <1>1, <1>2, <1>3
<1>9. over <= 0 => MaxChars + over <= MaxChars
  BY <1>1, <1>6
<1>10. QED
  BY <1>5, <1>6, <1>7, <1>8, <1>9

\* What is retained as records costs no more than allowed, or is the ends alone.
LEMMA RetainedFits ==
    ASSUME NEW text \in Seq(Line)
    PROVE  Cost(text, Retained(text)) <= MaxChars \/ Retained(text) = Ends(text)
<1>1. Centres(text) \in Seq(DOMAIN text)
  BY CentresLines
<1>2. PICK acc \in [0 .. Len(Centres(text)) -> Affordable(text)] : acc[Len(Centres(text))] = Retained(text)
  BY <1>1, RetainedRuns
<1>3. Retained(text) \in Affordable(text)
  <2>1. Len(Centres(text)) \in Nat
    BY <1>1
  <2>2. QED
    BY <1>2, <2>1
<1>4. QED
  BY <1>3 DEF Affordable

\* Two lines whose surroundings touch are at most two radii apart.
LEMMA Touching ==
    ASSUME NEW text \in Seq(Line), NEW i \in DOMAIN text, NEW j \in DOMAIN text,
           Around(text, i) \cap Around(text, j) # {}
    PROVE  Distance(j, i) <= 2 * Radius
<1>1. PICK k \in DOMAIN text : i - Radius <= k /\ k <= i + Radius /\ j - Radius <= k /\ k <= j + Radius
  BY DEF Around
<1>2. i \in Nat /\ j \in Nat /\ k \in Nat
  OBVIOUS
<1>3. Radius \in Nat
  BY CompactionAssumption
<1>4. ASSUME NEW a \in Nat, NEW b \in Nat, NEW c \in Nat, NEW r \in Nat,
             a - r <= c, c <= a + r, b - r <= c, c <= b + r
      PROVE  Distance(b, a) <= 2 * r
  BY <1>4 DEF Distance
<1>5. QED
  BY <1>1, <1>2, <1>3, <1>4

\* As long as fewer windows than allowed were opened, each line with a signal has
\* one near it.
LEMMA SignalsNear ==
    ASSUME NEW text \in Seq(Line), Len(Centres(text)) < MaxWindows, NEW j \in DOMAIN text, IsSignal(text[j])
    PROVE  \E k \in ToSet(Centres(text)) : Distance(j, k) <= 2 * Radius
<1> DEFINE n == Len(Numbers(text))
<1>1. n \in Nat /\ n = Len(text) /\ DOMAIN text = 1 .. n /\ \A k \in 1 .. n : Numbers(text)[k] = k
  BY DEF Numbers
<1>2. PICK acc \in [0 .. n -> Seq(DOMAIN text)] :
         /\ acc[0] = <<>> /\ acc[n] = Centres(text)
         /\ \A k \in 1 .. n : acc[k] = Opens(text, acc[k - 1], Numbers(text)[k])
  BY CentresRun
<1> HIDE DEF n
<1> DEFINE Near(i, cs) == \E k \in DOMAIN cs : Distance(i, cs[k]) <= 2 * Radius
           good == {k \in 0 .. n : Len(acc[k]) < MaxWindows =>
                       \A i \in 1 .. k : IsSignal(text[i]) => Near(i, acc[k])}
<1>3. 0 \in good
  BY <1>1
<1>4. ASSUME NEW k \in 1 .. n, k - 1 \in good PROVE k \in good
  <2> DEFINE old == acc[k - 1]
             new == acc[k]
  <2>1. SUFFICES ASSUME Len(new) < MaxWindows, NEW i \in 1 .. k, IsSignal(text[i]) PROVE Near(i, new)
    BY <1>1
  <2>2. k - 1 \in 0 .. n /\ k \in DOMAIN text
    BY <1>1
  <2>3. old \in Seq(DOMAIN text)
    BY <1>2, <2>2
  <2>4. new = Opens(text, old, k)
    BY <1>1, <1>2
  <2>5. i # k => (Len(old) < MaxWindows => Near(i, old))
    <3>1. i # k => i \in 1 .. k - 1
      BY <1>1
    <3> HIDE DEF Near
    <3>2. QED
      BY <1>4, <2>1, <3>1
  <2>6. MaxWindows \in Nat /\ Radius \in Nat
    BY CompactionAssumption
  <2> HIDE DEF old, new, good
  <2>7. Len(old) \in Nat
    BY <2>3
  <2>8. CASE new = Append(old, k)
    <3>1. Len(new) = Len(old) + 1 /\ DOMAIN new = 1 .. Len(old) + 1 /\ new[Len(old) + 1] = k
          /\ DOMAIN old = 1 .. Len(old) /\ \A m \in 1 .. Len(old) : new[m] = old[m]
      BY <2>2, <2>3, <2>8
    <3>2. CASE i = k
      <4>1. Distance(k, k) <= 2 * Radius
        BY <1>1, <2>6 DEF Distance
      <4>2. Len(old) + 1 \in DOMAIN new
        BY <2>7, <3>1
      <4>3. QED
        BY <3>1, <3>2, <4>1, <4>2
    <3>3. CASE i # k
      <4>1. Len(old) < MaxWindows
        BY <2>1, <2>6, <2>7, <3>1
      <4>2. PICK m \in DOMAIN old : Distance(i, old[m]) <= 2 * Radius
        BY <2>5, <3>3, <4>1
      <4>3. m \in DOMAIN new /\ new[m] = old[m]
        BY <2>7, <3>1
      <4>4. QED
        BY <4>2, <4>3
    <3>4. QED
      BY <3>2, <3>3
  <2>9. CASE new # Append(old, k)
    <3>1. new = old
      BY <2>4, <2>9 DEF Opens
    <3>2. CASE i = k
      <4>1. PICK m \in DOMAIN old : Around(text, old[m]) \cap Around(text, k) # {}
        BY <2>1, <2>4, <2>9, <3>1, <3>2 DEF Opens
      <4>2. old[m] \in DOMAIN text
        BY <2>3
      <4>3. Distance(k, old[m]) <= 2 * Radius
        BY <2>2, <4>1, <4>2, Touching
      <4>4. QED
        BY <3>1, <3>2, <4>3
    <3>3. CASE i # k
      BY <2>1, <2>5, <3>1, <3>3
    <3>4. QED
      BY <3>2, <3>3
  <2>10. QED
    BY <2>8, <2>9
<1>5. \A k \in 0 .. n : k \in good
  <2> HIDE DEF good
  <2>1. QED
    BY <1>1, <1>3, <1>4, Upwards
<1>6. Near(j, acc[n])
  <2>1. n \in 0 .. n /\ j \in 1 .. n
    BY <1>1
  <2> HIDE DEF Near
  <2>2. QED
    BY <1>2, <1>5, <2>1
<1>7. QED
  BY <1>2, <1>6 DEF ToSet

-----------------------------------------------------------------------------
(* Orders: what Arranged, Upward and Sorted return.                         *)

\* R is a strict total order of S.
Orders(R, S) ==
    /\ \A x \in S : <<x, x>> \notin R
    /\ \A x, y, z \in S : <<x, y>> \in R /\ <<y, z>> \in R => <<x, z>> \in R
    /\ \A x, y \in S : x = y \/ <<x, y>> \in R \/ <<y, x>> \in R

\* s lists the elements of S in the order R: each once, smaller ones first.
Lists(s, S, R) ==
    /\ s \in [1 .. Cardinality(S) -> S]
    /\ \A x \in S : \E n \in 1 .. Cardinality(S) : s[n] = x
    /\ \A i, j \in 1 .. Cardinality(S) : i < j => <<s[i], s[j]>> \in R

\* The number of the elements before one tells it from the others.
LEMMA RanksDiffer ==
    ASSUME NEW S, IsFiniteSet(S), NEW R, Orders(R, S), NEW x \in S, NEW y \in S, <<x, y>> \in R
    PROVE  /\ Cardinality(Below(S, R, x)) \in 0 .. Cardinality(S) - 1
           /\ Cardinality(Below(S, R, x)) < Cardinality(Below(S, R, y))
<1>1. IsFiniteSet(Below(S, R, x)) /\ IsFiniteSet(Below(S, R, y))
  <2>1. Below(S, R, x) \in SUBSET S /\ Below(S, R, y) \in SUBSET S
    BY DEF Below
  <2>2. QED
    BY <2>1, FS_Subset
<1>2. x \in Below(S, R, y) /\ Below(S, R, x) \subseteq Below(S, R, y) /\ x \notin Below(S, R, x)
  BY DEF Below, Orders
<1>3. Below(S, R, x) \in SUBSET Below(S, R, y) /\ Below(S, R, x) # Below(S, R, y)
  BY <1>2
<1>4. Cardinality(Below(S, R, x)) \in Nat /\ Cardinality(Below(S, R, y)) \in Nat /\ Cardinality(S) \in Nat
  BY <1>1, FS_CardinalityType
<1>5. Cardinality(Below(S, R, x)) <= Cardinality(Below(S, R, y))
      /\ Cardinality(Below(S, R, x)) # Cardinality(Below(S, R, y))
  BY <1>1, <1>3, FS_Subset
<1>6. Below(S, R, y) \in SUBSET S
  BY DEF Below
<1>7. Cardinality(Below(S, R, y)) <= Cardinality(S)
  BY <1>6, FS_Subset
<1>8. QED
  BY <1>4, <1>5, <1>7

\* Arranged lists a finite set in a strict total order.
LEMMA ArrangedLists ==
    ASSUME NEW S, IsFiniteSet(S), NEW R, Orders(R, S)
    PROVE  Lists(Arranged(S, R), S, R)
<1> DEFINE size == Cardinality(S)
           rank(x) == Cardinality(Below(S, R, x))
           s == Arranged(S, R)
<1>1. size \in Nat
  BY FS_CardinalityType
<1>2. ASSUME NEW n \in 1 .. size PROVE \E x \in S : rank(x) = n - 1
  BY RankExists DEF Orders
<1>3. s = [n \in 1 .. size |-> CHOOSE x \in S : rank(x) = n - 1]
  BY DEF Arranged, Below
<1> HIDE DEF rank
<1>4. \A n \in 1 .. size : s[n] \in S /\ rank(s[n]) = n - 1
  BY <1>2, <1>3
<1>5. s \in [1 .. size -> S]
  BY <1>2, <1>3
<1> HIDE DEF s
<1>6. \A x, y \in S : <<x, y>> \in R => rank(x) < rank(y)
  BY RanksDiffer DEF rank
<1>7. ASSUME NEW x \in S PROVE rank(x) \in 0 .. size - 1
  <2>1. Below(S, R, x) \in SUBSET (S \ {x}) /\ IsFiniteSet(S \ {x}) /\ Cardinality(S \ {x}) = size - 1
    BY FS_RemoveElement DEF Below, Orders
  <2>2. IsFiniteSet(Below(S, R, x)) /\ rank(x) <= size - 1
    BY <2>1, FS_Subset DEF rank
  <2>3. rank(x) \in Nat
    BY <2>2, FS_CardinalityType DEF rank
  <2>4. QED
    BY <1>1, <2>2, <2>3
<1>8. ASSUME NEW x \in S, NEW y \in S, rank(x) = rank(y) PROVE x = y
  <2>1. ~(rank(x) < rank(y)) /\ ~(rank(y) < rank(x))
    BY <1>7, <1>8
  <2>2. QED
    BY <1>6, <2>1 DEF Orders
<1>9. ASSUME NEW x \in S PROVE \E n \in 1 .. size : s[n] = x
  <2> DEFINE n == rank(x) + 1
  <2>1. n \in 1 .. size /\ rank(x) = n - 1
    BY <1>1, <1>7
  <2> HIDE DEF n
  <2>2. s[n] \in S /\ rank(s[n]) = rank(x)
    BY <1>4, <2>1
  <2>3. QED
    BY <1>8, <2>1, <2>2
<1>10. ASSUME NEW i \in 1 .. size, NEW j \in 1 .. size, i < j PROVE <<s[i], s[j]>> \in R
  <2>1. s[i] \in S /\ s[j] \in S /\ rank(s[i]) = i - 1 /\ rank(s[j]) = j - 1
    BY <1>4
  <2>2. s[i] # s[j] /\ ~(rank(s[j]) < rank(s[i]))
    BY <1>1, <1>10, <2>1
  <2>3. QED
    BY <1>6, <2>1, <2>2 DEF Orders
<1>11. QED
  BY <1>5, <1>9, <1>10 DEF Lists, s

\* Upward lists numbers from the least to the greatest.
LEMMA UpwardLists ==
    ASSUME NEW n \in Nat, NEW is \in SUBSET (1 .. n)
    PROVE  /\ Cardinality(is) \in Nat
           /\ Upward(is) \in [1 .. Cardinality(is) -> is]
           /\ \A x \in is : \E k \in 1 .. Cardinality(is) : Upward(is)[k] = x
           /\ \A i, j \in 1 .. Cardinality(is) : i < j => Upward(is)[i] < Upward(is)[j]
<1> DEFINE R == {p \in is \X is : p[1] < p[2]}
<1>1. IsFiniteSet(is) /\ Cardinality(is) \in Nat
  <2>1. IsFiniteSet(1 .. n)
    BY FS_Interval
  <2>2. QED
    BY <2>1, FS_Subset, FS_CardinalityType
<1>2. \A x \in is, y \in is : <<x, y>> \in R <=> x < y
  OBVIOUS
<1>3. Upward(is) = Arranged(is, R)
  BY DEF Upward
<1> HIDE DEF R
<1>4. \A x \in is : x \in Nat
  OBVIOUS
<1>5. Orders(R, is)
  BY <1>2, <1>4 DEF Orders
<1>6. Lists(Upward(is), is, R)
  BY <1>1, <1>3, <1>5, ArrangedLists
<1>7. \A i \in 1 .. Cardinality(is) : Upward(is)[i] \in is
  BY <1>6 DEF Lists
<1>8. QED
  BY <1>1, <1>2, <1>6, <1>7 DEF Lists

\* Records, as build_evidence_records makes them.
Rec == [file : Nat, no : Nat, line : Line]

\* The places of a record and its time are numbers.
LEMMA RecordFields ==
    ASSUME NEW r \in Rec
    PROVE  r.file \in Nat /\ r.no \in Nat /\ r.line \in Line /\ r.line.at \in Int
<1>1. r.file \in Nat /\ r.no \in Nat /\ r.line \in Line
  BY DEF Rec
<1>2. \A l \in Line : l.at \in Nat \cup {Untimed}
  BY DEF Line
<1>3. QED
  BY <1>1, <1>2 DEF Untimed

\* What a list of indices picks.
LEMMA PickedTexts ==
    ASSUME NEW X, NEW s \in Seq(X), NEW m \in Nat, NEW is \in [1 .. m -> DOMAIN s]
    PROVE  /\ Texts(s, is) \in Seq(X) /\ Len(Texts(s, is)) = m /\ DOMAIN Texts(s, is) = 1 .. m
           /\ \A k \in 1 .. m : Texts(s, is)[k] = s[is[k]]
BY DEF Texts

\* The stable order of a key is strict and total, for the place of a record ...
LEMMA StablySource ==
    ASSUME NEW recs \in Seq(Rec)
    PROVE  Orders(Stably(recs, SourceBefore), DOMAIN recs)
<1> DEFINE R == Stably(recs, SourceBefore)
           B(i, j) == SourceBefore(recs[i], recs[j])
<1>1. \A i, j \in DOMAIN recs : <<i, j>> \in R <=> (B(i, j) \/ (~B(j, i) /\ i < j))
  BY DEF Stably
<1>2. \A i \in DOMAIN recs : recs[i].file \in Nat /\ recs[i].no \in Nat /\ i \in Nat
  BY RecordFields
<1>3. \A i, j \in DOMAIN recs : B(i, j) <=> (recs[i].file < recs[j].file \/ (recs[i].file = recs[j].file /\ recs[i].no < recs[j].no))
  BY DEF SourceBefore
<1> HIDE DEF R, B
<1>4. \A i \in DOMAIN recs : <<i, i>> \notin R
  BY <1>1, <1>2, <1>3
<1>5. ASSUME NEW i \in DOMAIN recs, NEW j \in DOMAIN recs, NEW k \in DOMAIN recs, <<i, j>> \in R, <<j, k>> \in R
      PROVE  <<i, k>> \in R
  <2>1. /\ B(i, j) \/ (~B(j, i) /\ i < j)
        /\ B(j, k) \/ (~B(k, j) /\ j < k)
        /\ <<i, k>> \in R <=> (B(i, k) \/ (~B(k, i) /\ i < k))
    BY <1>1, <1>5
  <2>2. i \in Nat /\ j \in Nat /\ k \in Nat
    BY <1>2
  <2>3. PICK a \in Nat, b \in Nat, c \in Nat, d \in Nat, e \in Nat, f \in Nat :
           /\ a = recs[i].file /\ b = recs[i].no /\ c = recs[j].file /\ d = recs[j].no
           /\ e = recs[k].file /\ f = recs[k].no
    BY <1>2
  <2>4. /\ B(i, j) <=> (a < c \/ (a = c /\ b < d))
        /\ B(j, i) <=> (c < a \/ (c = a /\ d < b))
        /\ B(j, k) <=> (c < e \/ (c = e /\ d < f))
        /\ B(k, j) <=> (e < c \/ (e = c /\ f < d))
        /\ B(i, k) <=> (a < e \/ (a = e /\ b < f))
        /\ B(k, i) <=> (e < a \/ (e = a /\ f < b))
    BY <1>3, <2>3
  <2>5. QED
    BY <2>1, <2>2, <2>4
<1>6. ASSUME NEW i \in DOMAIN recs, NEW j \in DOMAIN recs
      PROVE  i = j \/ <<i, j>> \in R \/ <<j, i>> \in R
  <2>1. i \in Nat /\ j \in Nat
    BY <1>2
  <2>2. i = j \/ i < j \/ j < i
    BY <2>1
  <2>3. QED
    BY <1>1, <2>2
<1>7. QED
  <2> USE <1>4, <1>5, <1>6
  <2>1. Orders(R, DOMAIN recs)
    BY DEF Orders
  <2>2. QED
    BY <2>1 DEF R

\* ... and for its time.
LEMMA StablyTime ==
    ASSUME NEW recs \in Seq(Rec)
    PROVE  Orders(Stably(recs, TimeBefore), DOMAIN recs)
<1> DEFINE R == Stably(recs, TimeBefore)
           B(i, j) == TimeBefore(recs[i], recs[j])
           S(i, j) == SourceBefore(recs[i], recs[j])
           t(i) == recs[i].line.at
<1>1. \A i, j \in DOMAIN recs : <<i, j>> \in R <=> (B(i, j) \/ (~B(j, i) /\ i < j))
  BY DEF Stably
<1>2. \A i \in DOMAIN recs : recs[i].file \in Nat /\ recs[i].no \in Nat /\ i \in Nat /\ t(i) \in Int
  BY RecordFields
<1>3. \A i, j \in DOMAIN recs : B(i, j) <=> ((t(i) # Untimed /\ (t(j) = Untimed \/ t(i) < t(j))) \/ (t(i) = t(j) /\ S(i, j)))
  BY DEF TimeBefore
<1>4. \A i, j \in DOMAIN recs : S(i, j) <=> (recs[i].file < recs[j].file \/ (recs[i].file = recs[j].file /\ recs[i].no < recs[j].no))
  BY DEF SourceBefore
<1> HIDE DEF R, B, S, t
<1>5. ASSUME NEW i \in DOMAIN recs PROVE <<i, i>> \notin R
  <2>1. ~S(i, i) /\ ~(t(i) < t(i))
    BY <1>2, <1>4
  <2>2. ~B(i, i)
    BY <1>3, <2>1
  <2>3. QED
    BY <1>1, <1>2, <2>2
<1>6. ASSUME NEW i \in DOMAIN recs, NEW j \in DOMAIN recs, NEW k \in DOMAIN recs, <<i, j>> \in R, <<j, k>> \in R
      PROVE  <<i, k>> \in R
  <2>1. /\ B(i, j) \/ (~B(j, i) /\ i < j)
        /\ B(j, k) \/ (~B(k, j) /\ j < k)
        /\ <<i, k>> \in R <=> (B(i, k) \/ (~B(k, i) /\ i < k))
    BY <1>1, <1>6
  <2>2. i \in Nat /\ j \in Nat /\ k \in Nat /\ t(i) \in Int /\ t(j) \in Int /\ t(k) \in Int
    BY <1>2
  <2>3. PICK a \in Nat, b \in Nat, c \in Nat, d \in Nat, e \in Nat, f \in Nat :
           /\ a = recs[i].file /\ b = recs[i].no /\ c = recs[j].file /\ d = recs[j].no
           /\ e = recs[k].file /\ f = recs[k].no
    BY <1>2
  <2>4. /\ S(i, j) <=> (a < c \/ (a = c /\ b < d))
        /\ S(j, i) <=> (c < a \/ (c = a /\ d < b))
        /\ S(j, k) <=> (c < e \/ (c = e /\ d < f))
        /\ S(k, j) <=> (e < c \/ (e = c /\ f < d))
        /\ S(i, k) <=> (a < e \/ (a = e /\ b < f))
        /\ S(k, i) <=> (e < a \/ (e = a /\ f < b))
    BY <1>4, <2>3
  <2>5. /\ B(i, j) <=> ((t(i) # Untimed /\ (t(j) = Untimed \/ t(i) < t(j))) \/ (t(i) = t(j) /\ S(i, j)))
        /\ B(j, i) <=> ((t(j) # Untimed /\ (t(i) = Untimed \/ t(j) < t(i))) \/ (t(j) = t(i) /\ S(j, i)))
        /\ B(j, k) <=> ((t(j) # Untimed /\ (t(k) = Untimed \/ t(j) < t(k))) \/ (t(j) = t(k) /\ S(j, k)))
        /\ B(k, j) <=> ((t(k) # Untimed /\ (t(j) = Untimed \/ t(k) < t(j))) \/ (t(k) = t(j) /\ S(k, j)))
        /\ B(i, k) <=> ((t(i) # Untimed /\ (t(k) = Untimed \/ t(i) < t(k))) \/ (t(i) = t(k) /\ S(i, k)))
        /\ B(k, i) <=> ((t(k) # Untimed /\ (t(i) = Untimed \/ t(k) < t(i))) \/ (t(k) = t(i) /\ S(k, i)))
    BY <1>3
  <2>6. QED
    BY <2>1, <2>2, <2>4, <2>5
<1>7. ASSUME NEW i \in DOMAIN recs, NEW j \in DOMAIN recs
      PROVE  i = j \/ <<i, j>> \in R \/ <<j, i>> \in R
  <2>1. i \in Nat /\ j \in Nat
    BY <1>2
  <2>2. i = j \/ i < j \/ j < i
    BY <2>1
  <2>3. QED
    BY <1>1, <2>2
<1>8. QED
  <2> USE <1>5, <1>6, <1>7
  <2>1. Orders(R, DOMAIN recs)
    BY DEF Orders
  <2>2. QED
    BY <2>1 DEF R

-----------------------------------------------------------------------------
(* Clocks set differently.                                                  *)

\* Sorted records are the records, arranged.
LEMMA SortedRecords ==
    ASSUME NEW recs \in Seq(Rec), NEW R, Orders(R, DOMAIN recs)
    PROVE  /\ Arranged(DOMAIN recs, R) \in [1 .. Len(recs) -> DOMAIN recs]
           /\ Lists(Arranged(DOMAIN recs, R), DOMAIN recs, R)
           /\ Cardinality(DOMAIN recs) = Len(recs)
<1>1. DOMAIN recs = 1 .. Len(recs) /\ Len(recs) \in Nat
  OBVIOUS
<1>2. IsFiniteSet(1 .. Len(recs)) /\ Cardinality(1 .. Len(recs)) = Len(recs)
  BY <1>1, FS_Interval
<1>3. Lists(Arranged(DOMAIN recs, R), DOMAIN recs, R)
  BY <1>1, <1>2, ArrangedLists
<1>4. QED
  BY <1>1, <1>2, <1>3 DEF Lists

\* The records are in the order of their places, or of their times.
LEMMA OrderedRecords ==
    ASSUME NEW recs \in Seq(Rec)
    PROVE  /\ Sorted(recs, SourceBefore) \in Seq(Rec) /\ Sorted(recs, TimeBefore) \in Seq(Rec)
           /\ Ordered(recs) \in Seq(Rec)
           /\ Len(Ordered(recs)) = Len(recs)
<1>1. /\ Arranged(DOMAIN recs, Stably(recs, SourceBefore)) \in [1 .. Len(recs) -> DOMAIN recs]
      /\ Arranged(DOMAIN recs, Stably(recs, TimeBefore)) \in [1 .. Len(recs) -> DOMAIN recs]
  BY SortedRecords, StablySource, StablyTime
<1>2. Len(recs) \in Nat
  OBVIOUS
<1>3. \A is \in [1 .. Len(recs) -> DOMAIN recs] : Texts(recs, is) \in Seq(Rec) /\ Len(Texts(recs, is)) = Len(recs)
  BY <1>2, PickedTexts
<1>4. /\ Sorted(recs, SourceBefore) \in Seq(Rec) /\ Len(Sorted(recs, SourceBefore)) = Len(recs)
      /\ Sorted(recs, TimeBefore) \in Seq(Rec) /\ Len(Sorted(recs, TimeBefore)) = Len(recs)
  BY <1>1, <1>3 DEF Sorted
<1>5. QED
  BY <1>4 DEF Ordered

\* Signals are some of the records, in their order.
Signalling(recs, strengths) == {k \in DOMAIN recs : Strength(recs[k].line) \in strengths}

\* Signals are picked by their places, each of them once.
LEMMA SignalRecords ==
    ASSUME NEW recs \in Seq(Rec), NEW strengths
    PROVE  /\ Cardinality(Signalling(recs, strengths)) \in Nat
           /\ Upward(Signalling(recs, strengths)) \in
                 [1 .. Cardinality(Signalling(recs, strengths)) -> Signalling(recs, strengths)]
           /\ \A k \in Signalling(recs, strengths) : \E n \in 1 .. Cardinality(Signalling(recs, strengths)) :
                 Upward(Signalling(recs, strengths))[n] = k
           /\ Signals(recs, strengths) = Texts(recs, Upward(Signalling(recs, strengths)))
           /\ Signals(recs, strengths) \in Seq(Rec)
           /\ Len(Signals(recs, strengths)) = Cardinality(Signalling(recs, strengths))
<1> DEFINE is == Signalling(recs, strengths)
<1>1. DOMAIN recs = 1 .. Len(recs) /\ Len(recs) \in Nat
  OBVIOUS
<1>2. is \in SUBSET (1 .. Len(recs)) /\ is \in SUBSET DOMAIN recs
  BY <1>1 DEF Signalling
<1>3. Signals(recs, strengths) = Texts(recs, Upward(is))
  BY DEF Signals, Signalling
<1> HIDE DEF is
<1>4. /\ Cardinality(is) \in Nat /\ Upward(is) \in [1 .. Cardinality(is) -> is]
      /\ \A k \in is : \E n \in 1 .. Cardinality(is) : Upward(is)[n] = k
  BY <1>1, <1>2, UpwardLists
<1>5. Upward(is) \in [1 .. Cardinality(is) -> DOMAIN recs]
  BY <1>2, <1>4
<1>6. Texts(recs, Upward(is)) \in Seq(Rec) /\ Len(Texts(recs, Upward(is))) = Cardinality(is)
  BY <1>4, <1>5, PickedTexts
<1>7. QED
  BY <1>3, <1>4, <1>6 DEF is

\* A record whose clock is set differently.
Moved(r, clock, by) ==
    IF r.line.clock = clock /\ r.line.at # Untimed THEN [r EXCEPT !.line.at = @ + by] ELSE r

\* Only its time differs, and that it has one does not.
LEMMA MovedRecord ==
    ASSUME NEW r \in Rec, NEW clock, NEW by \in Nat \ {0}
    PROVE  /\ Moved(r, clock, by) \in Rec
           /\ Moved(r, clock, by).file = r.file /\ Moved(r, clock, by).no = r.no
           /\ Moved(r, clock, by).line.clock = r.line.clock
           /\ Moved(r, clock, by).line.marks = r.line.marks
           /\ Moved(r, clock, by).line.at = Untimed <=> r.line.at = Untimed
           /\ Moved(r, clock, by).line.at =
                 IF r.line.clock = clock /\ r.line.at # Untimed THEN r.line.at + by ELSE r.line.at
<1>1. CASE r.line.clock = clock /\ r.line.at # Untimed
  <2> DEFINE new == [r.line EXCEPT !.at = @ + by]
             m == [r EXCEPT !.line = new]
  <2>1. r.line \in Line /\ r.line.at \in Int
    BY RecordFields
  <2>2. r.line.at \in Nat
    <3>1. \A l \in Line : l.at \in Nat \cup {Untimed}
      BY DEF Line
    <3>2. QED
      BY <1>1, <2>1, <3>1
  <2>3. new \in Line /\ new.clock = r.line.clock /\ new.marks = r.line.marks /\ new.at = r.line.at + by
    BY <2>1, <2>2 DEF Line
  <2> HIDE DEF new
  <2>4. m \in Rec /\ m.file = r.file /\ m.no = r.no /\ m.line = new
    BY <2>3 DEF Rec
  <2>5. Moved(r, clock, by) = m
    BY <1>1 DEF Moved, new
  <2>6. r.line.at + by # Untimed
    BY <2>2 DEF Untimed
  <2> HIDE DEF m
  <2>7. QED
    BY <1>1, <2>3, <2>4, <2>5, <2>6
<1>2. CASE ~(r.line.clock = clock /\ r.line.at # Untimed)
  BY <1>2 DEF Moved
<1>3. QED
  BY <1>1, <1>2

\* The shifted records one by one.
LEMMA ShiftedRecords ==
    ASSUME NEW recs \in Seq(Rec), NEW clock, NEW by \in Nat \ {0}
    PROVE  /\ Shift(recs, clock, by) \in Seq(Rec)
           /\ DOMAIN Shift(recs, clock, by) = DOMAIN recs /\ Len(Shift(recs, clock, by)) = Len(recs)
           /\ \A k \in DOMAIN recs : Shift(recs, clock, by)[k] = Moved(recs[k], clock, by)
           /\ Shift(recs, clock, by) = [k \in DOMAIN recs |-> Moved(recs[k], clock, by)]
<1>1. Shift(recs, clock, by) = [k \in DOMAIN recs |-> Moved(recs[k], clock, by)]
  BY DEF Shift, Moved
<1>2. \A k \in DOMAIN recs : Moved(recs[k], clock, by) \in Rec
  BY MovedRecord
<1>3. QED
  BY <1>1, <1>2

\* Picking and shifting commute.
LEMMA ShiftedTexts ==
    ASSUME NEW recs \in Seq(Rec), NEW clock, NEW by \in Nat \ {0},
           NEW m \in Nat, NEW is \in [1 .. m -> DOMAIN recs]
    PROVE  Texts(Shift(recs, clock, by), is) = Shift(Texts(recs, is), clock, by)
<1> DEFINE more == Shift(recs, clock, by)
           picked == Texts(recs, is)
<1>1. /\ more \in Seq(Rec) /\ DOMAIN more = DOMAIN recs
      /\ \A k \in DOMAIN recs : more[k] = Moved(recs[k], clock, by)
  BY ShiftedRecords
<1>2. picked \in Seq(Rec) /\ DOMAIN picked = 1 .. m /\ \A k \in 1 .. m : picked[k] = recs[is[k]]
  BY PickedTexts
<1>3. Shift(picked, clock, by) = [k \in 1 .. m |-> Moved(picked[k], clock, by)]
  BY <1>2, ShiftedRecords
<1>4. Texts(more, is) = [k \in 1 .. m |-> more[is[k]]]
  BY DEF Texts
<1> HIDE DEF more, picked
<1>5. \A k \in 1 .. m : more[is[k]] = Moved(picked[k], clock, by)
  BY <1>1, <1>2
<1>6. QED
  BY <1>3, <1>4, <1>5 DEF more, picked

\* A signal is one whatever its time.
LEMMA ShiftedSignals ==
    ASSUME NEW recs \in Seq(Rec), NEW clock, NEW by \in Nat \ {0}, NEW strengths
    PROVE  Signals(Shift(recs, clock, by), strengths) = Shift(Signals(recs, strengths), clock, by)
<1> DEFINE more == Shift(recs, clock, by)
           is == Signalling(recs, strengths)
<1>1. /\ more \in Seq(Rec) /\ DOMAIN more = DOMAIN recs
      /\ \A k \in DOMAIN recs : more[k] = Moved(recs[k], clock, by)
  BY ShiftedRecords
<1>2. \A k \in DOMAIN recs : more[k].line.marks = recs[k].line.marks
  BY <1>1, MovedRecord
<1>3. \A l, m : l.marks = m.marks => Strength(l) = Strength(m)
  BY DEF Strength, SignalStrength, Has
<1>4. \A k \in DOMAIN recs : Strength(more[k].line) = Strength(recs[k].line)
  BY <1>2, <1>3
<1>5. Signalling(more, strengths) = is
  BY <1>1, <1>4 DEF Signalling
<1>6. Signals(more, strengths) = Texts(more, Upward(is)) /\ Signals(recs, strengths) = Texts(recs, Upward(is))
  BY <1>1, <1>5, SignalRecords
<1>7. Cardinality(is) \in Nat /\ Upward(is) \in [1 .. Cardinality(is) -> DOMAIN recs]
  <2>1. is \subseteq DOMAIN recs
    BY DEF Signalling
  <2> HIDE DEF is
  <2>2. QED
    BY <2>1, SignalRecords DEF is
<1> HIDE DEF is
<1>8. QED
  BY <1>6, <1>7, ShiftedTexts

\* The clocks of the timed lines are the same.
LEMMA ShiftedDomains ==
    ASSUME NEW recs \in Seq(Rec), NEW clock, NEW by \in Nat \ {0}
    PROVE  Domains(Shift(recs, clock, by)) = Domains(recs)
<1> DEFINE more == Shift(recs, clock, by)
<1>1. DOMAIN more = DOMAIN recs /\ \A k \in DOMAIN recs : more[k] = Moved(recs[k], clock, by)
  BY ShiftedRecords
<1> HIDE DEF more
<1>2. \A k \in DOMAIN recs : more[k].line.clock = recs[k].line.clock
                             /\ (more[k].line.at = Untimed <=> recs[k].line.at = Untimed)
  BY <1>1, MovedRecord
<1>3. Domains(more) = Domains(recs)
  BY <1>1, <1>2 DEF Domains
<1>4. QED
  BY <1>3 DEF more

\* Where there is no second clock, timed records show the same.
LEMMA OneClock ==
    ASSUME NEW recs \in Seq(Rec), ~(Cardinality(Domains(recs)) > 1),
           NEW i \in DOMAIN recs, NEW j \in DOMAIN recs, recs[i].line.at # Untimed, recs[j].line.at # Untimed
    PROVE  recs[i].line.clock = recs[j].line.clock
<1> DEFINE timed == {k \in DOMAIN recs : recs[k].line.at # Untimed}
           f == [k \in timed |-> recs[k].line.clock]
           a == recs[i].line.clock
           b == recs[j].line.clock
<1>1. IsFiniteSet(timed)
  <2>1. IsFiniteSet(DOMAIN recs)
    <3>1. DOMAIN recs = 1 .. Len(recs) /\ Len(recs) \in Nat
      OBVIOUS
    <3>2. QED
      BY <3>1, FS_Interval
  <2>2. QED
    BY <2>1, FS_Subset
<1>2. Domains(recs) = {f[k] : k \in timed}
  BY DEF Domains
<1>3. IsFiniteSet(Domains(recs))
  <2> HIDE DEF f, timed
  <2>1. DOMAIN f = timed
    BY DEF f
  <2>2. IsFiniteSet({f[k] : k \in timed})
    BY <1>1, <2>1, ImageFinite
  <2>3. QED
    BY <1>2, <2>2
<1>4. a \in Domains(recs) /\ b \in Domains(recs)
  BY DEF Domains
<1> HIDE DEF a, b
<1>5. SUFFICES ASSUME a # b PROVE FALSE
  BY DEF a, b
<1> DEFINE pair == {a} \cup {b}
<1>6. Cardinality(pair) = 2
  <2>1. IsFiniteSet({a}) /\ Cardinality({a}) = 1
    BY FS_Singleton
  <2>2. b \notin {a}
    BY <1>5
  <2>3. IsFiniteSet(pair) /\ pair \ {b} = {a} /\ b \in pair
    BY <2>1, <2>2, FS_AddElement
  <2> HIDE DEF pair
  <2>4. Cardinality(pair \ {b}) = Cardinality(pair) - 1 /\ Cardinality(pair) \in Nat
    BY <2>3, FS_RemoveElement, FS_CardinalityType
  <2> DEFINE rest == pair \ {b}
  <2>5. Cardinality(rest) = 1
    BY <2>1, <2>3
  <2>6. Cardinality(rest) = Cardinality(pair) - 1
    BY <2>4
  <2> HIDE DEF rest
  <2>7. QED
    BY <2>4, <2>5, <2>6
<1>7. Cardinality(pair) <= Cardinality(Domains(recs)) /\ Cardinality(Domains(recs)) \in Nat
  <2>1. pair \in SUBSET Domains(recs)
    BY <1>4
  <2>2. QED
    BY <1>3, <2>1, FS_Subset, FS_CardinalityType
<1> HIDE DEF pair
<1>8. ~(Cardinality(Domains(recs)) > 1)
  OBVIOUS
<1>9. QED
  BY <1>6, <1>7, <1>8

\* Shifting one clock changes the order of places never, ...
LEMMA ShiftedSource ==
    ASSUME NEW recs \in Seq(Rec), NEW clock, NEW by \in Nat \ {0}
    PROVE  Sorted(Shift(recs, clock, by), SourceBefore) = Shift(Sorted(recs, SourceBefore), clock, by)
<1> DEFINE more == Shift(recs, clock, by)
           is == Arranged(DOMAIN recs, Stably(recs, SourceBefore))
<1>1. DOMAIN more = DOMAIN recs /\ \A k \in DOMAIN recs : more[k].file = recs[k].file /\ more[k].no = recs[k].no
  BY ShiftedRecords, MovedRecord
<1>2. is \in [1 .. Len(recs) -> DOMAIN recs]
  BY SortedRecords, StablySource
<1>3. Len(recs) \in Nat
  OBVIOUS
<1> HIDE DEF more
<1>4. \A i, j \in DOMAIN recs : SourceBefore(more[i], more[j]) <=> SourceBefore(recs[i], recs[j])
  BY <1>1 DEF SourceBefore
<1>5. Stably(more, SourceBefore) = Stably(recs, SourceBefore)
  BY <1>1, <1>4 DEF Stably
<1>6. Sorted(more, SourceBefore) = Texts(more, is) /\ Sorted(recs, SourceBefore) = Texts(recs, is)
  BY <1>1, <1>5 DEF Sorted
<1> HIDE DEF is
<1>7. Texts(Shift(recs, clock, by), is) = Shift(Texts(recs, is), clock, by)
  BY <1>2, <1>3, ShiftedTexts
<1>8. QED
  BY <1>6, <1>7 DEF more

\* ... and that of times not where there is one clock.
LEMMA ShiftedTime ==
    ASSUME NEW recs \in Seq(Rec), NEW clock, NEW by \in Nat \ {0}, ~(Cardinality(Domains(recs)) > 1)
    PROVE  Sorted(Shift(recs, clock, by), TimeBefore) = Shift(Sorted(recs, TimeBefore), clock, by)
<1> DEFINE more == Shift(recs, clock, by)
           is == Arranged(DOMAIN recs, Stably(recs, TimeBefore))
<1>1. DOMAIN more = DOMAIN recs /\ \A k \in DOMAIN recs : more[k] = Moved(recs[k], clock, by)
  BY ShiftedRecords
<1>2. is \in [1 .. Len(recs) -> DOMAIN recs]
  BY SortedRecords, StablyTime
<1>3. Len(recs) \in Nat
  OBVIOUS
<1> HIDE DEF more
<1>4. ASSUME NEW i \in DOMAIN recs, NEW j \in DOMAIN recs
      PROVE  TimeBefore(more[i], more[j]) <=> TimeBefore(recs[i], recs[j])
  <2> DEFINE a == recs[i].line
             b == recs[j].line
             c == more[i].line
             d == more[j].line
  <2>1. recs[i] \in Rec /\ recs[j] \in Rec
    OBVIOUS
  <2>2. a.at \in Int /\ b.at \in Int
    BY <2>1, RecordFields
  <2>3. /\ c.at = IF a.clock = clock /\ a.at # Untimed THEN a.at + by ELSE a.at
        /\ d.at = IF b.clock = clock /\ b.at # Untimed THEN b.at + by ELSE b.at
        /\ c.at = Untimed <=> a.at = Untimed
        /\ d.at = Untimed <=> b.at = Untimed
    BY <1>1, <2>1, MovedRecord
  <2>4. SourceBefore(more[i], more[j]) <=> SourceBefore(recs[i], recs[j])
    BY <1>1, <2>1, MovedRecord DEF SourceBefore
  <2>5. a.at # Untimed /\ b.at # Untimed => a.clock = b.clock
    BY OneClock
  <2> HIDE DEF a, b, c, d
  <2>6. (c.at < d.at /\ c.at # Untimed /\ d.at # Untimed) <=> (a.at < b.at /\ a.at # Untimed /\ b.at # Untimed)
    BY <2>2, <2>3, <2>5
  <2>7. c.at = d.at <=> a.at = b.at
    BY <2>2, <2>3, <2>5
  <2>8. TimeBefore(more[i], more[j]) <=>
           \/ c.at # Untimed /\ (d.at = Untimed \/ c.at < d.at)
           \/ c.at = d.at /\ SourceBefore(more[i], more[j])
    BY DEF TimeBefore, c, d
  <2>9. TimeBefore(recs[i], recs[j]) <=>
           \/ a.at # Untimed /\ (b.at = Untimed \/ a.at < b.at)
           \/ a.at = b.at /\ SourceBefore(recs[i], recs[j])
    BY DEF TimeBefore, a, b
  <2>10. QED
    BY <2>3, <2>4, <2>6, <2>7, <2>8, <2>9
<1>5. Stably(more, TimeBefore) = Stably(recs, TimeBefore)
  BY <1>1, <1>4 DEF Stably
<1>6. Sorted(more, TimeBefore) = Texts(more, is) /\ Sorted(recs, TimeBefore) = Texts(recs, is)
  BY <1>1, <1>5 DEF Sorted
<1> HIDE DEF is
<1>7. Texts(Shift(recs, clock, by), is) = Shift(Texts(recs, is), clock, by)
  BY <1>2, <1>3, ShiftedTexts
<1>8. QED
  BY <1>6, <1>7 DEF more

\* So what order_records makes of shifted records is what it makes of them, shifted.
LEMMA ShiftedOrder ==
    ASSUME NEW recs \in Seq(Rec), NEW clock, NEW by \in Nat \ {0}
    PROVE  Ordered(Shift(recs, clock, by)) = Shift(Ordered(recs), clock, by)
<1>1. Domains(Shift(recs, clock, by)) = Domains(recs)
  BY ShiftedDomains
<1>2. CASE Cardinality(Domains(recs)) > 1
  <2>1. Ordered(Shift(recs, clock, by)) = Sorted(Shift(recs, clock, by), SourceBefore)
        /\ Ordered(recs) = Sorted(recs, SourceBefore)
    BY <1>1, <1>2 DEF Ordered
  <2>2. QED
    BY <2>1, ShiftedSource
<1>3. CASE ~(Cardinality(Domains(recs)) > 1)
  <2>1. Ordered(Shift(recs, clock, by)) = Sorted(Shift(recs, clock, by), TimeBefore)
        /\ Ordered(recs) = Sorted(recs, TimeBefore)
    BY <1>1, <1>3 DEF Ordered
  <2>2. QED
    BY <1>3, <2>1, ShiftedTime
<1>4. QED
  BY <1>2, <1>3

\* A stretch of a sequence within its bounds.
LEMMA Stretch ==
    ASSUME NEW X, NEW s \in Seq(X), NEW a \in Nat \ {0}, NEW b \in 0 .. Len(s)
    PROVE  /\ SubSeq(s, a, b) \in Seq(X)
           /\ DOMAIN SubSeq(s, a, b) = 1 .. (b - a + 1)
           /\ \A k \in 1 .. (b - a + 1) : k + a - 1 \in DOMAIN s /\ SubSeq(s, a, b)[k] = s[k + a - 1]
<1>1. b \in Nat /\ Len(s) \in Nat /\ DOMAIN s = 1 .. Len(s)
  OBVIOUS
<1>2. \A k \in 1 .. (b - a + 1) : k + a - 1 \in 1 .. Len(s)
  BY <1>1
<1>3. SubSeq(s, a, b) \in Seq(X) /\ DOMAIN SubSeq(s, a, b) = 1 .. (b - a + 1)
  BY <1>1
<1>4. \A k \in 1 .. (b - a + 1) : SubSeq(s, a, b)[k] = s[k + a - 1]
  BY <1>1
<1>5. QED
  BY <1>1, <1>2, <1>3, <1>4

\* A stretch of shifted records is at the same places.
LEMMA ShiftedStretch ==
    ASSUME NEW recs \in Seq(Rec), NEW clock, NEW by \in Nat \ {0}, NEW a \in Nat \ {0}, NEW b \in 0 .. Len(recs)
    PROVE  Places(SubSeq(Shift(recs, clock, by), a, b)) = Places(SubSeq(recs, a, b))
<1> DEFINE more == Shift(recs, clock, by)
           long == SubSeq(more, a, b)
           short == SubSeq(recs, a, b)
<1>1. more \in Seq(Rec) /\ Len(more) = Len(recs)
      /\ \A k \in DOMAIN recs : more[k].file = recs[k].file /\ more[k].no = recs[k].no
  BY ShiftedRecords, MovedRecord
<1> HIDE DEF more
<1>2. DOMAIN long = 1 .. (b - a + 1) /\ \A k \in 1 .. (b - a + 1) : long[k] = more[k + a - 1]
  BY <1>1, Stretch
<1>3. DOMAIN short = 1 .. (b - a + 1) /\ \A k \in 1 .. (b - a + 1) : k + a - 1 \in DOMAIN recs /\ short[k] = recs[k + a - 1]
  BY Stretch
<1> HIDE DEF long, short
<1>4. \A k \in 1 .. (b - a + 1) : long[k].file = short[k].file /\ long[k].no = short[k].no
  BY <1>1, <1>2, <1>3
<1>5. Places(long) = Places(short)
  BY <1>2, <1>3, <1>4 DEF Places
<1>6. QED
  BY <1>5 DEF more, long, short

\* The records of which first and terminal failure are taken.
Told(recs) ==
    IF Ordered(Signals(recs, {2, 3})) # <<>> THEN Ordered(Signals(recs, {2, 3})) ELSE Ordered(Signals(recs, {1}))

\* The parts of what is told of an incident.
LEMMA IncidentParts ==
    ASSUME NEW recs
    PROVE  /\ Incident(recs).first = SubSeq(Told(recs), 1, Sooner(1, Len(Told(recs))))
           /\ Incident(recs).terminal = SubSeq(Told(recs), Later(1, Len(Told(recs))), Len(Told(recs)))
           /\ Incident(recs).timeline = SubSeq(Ordered(Signals(recs, {1, 2, 3})), 1, Sooner(12, Len(Ordered(Signals(recs, {1, 2, 3})))))
           /\ Incident(recs).evidence = SubSeq(Ordered(Signals(recs, {2, 3})), 1, Sooner(10, Len(Ordered(Signals(recs, {2, 3})))))
           /\ Incident(recs).doubt = Doubt(Signals(recs, {1, 2, 3}))
BY DEF Incident, Told, Timeline, Evidence

\* The parts come from ordered records.
LEMMA ToldRecords ==
    ASSUME NEW recs \in Seq(Rec)
    PROVE  /\ Told(recs) \in Seq(Rec)
           /\ \A strengths : Ordered(Signals(recs, strengths)) \in Seq(Rec)
<1>1. \A strengths : Ordered(Signals(recs, strengths)) \in Seq(Rec)
  <2> SUFFICES ASSUME NEW strengths PROVE Ordered(Signals(recs, strengths)) \in Seq(Rec)
    OBVIOUS
  <2>1. Signals(recs, strengths) \in Seq(Rec)
    BY SignalRecords
  <2>2. QED
    BY <2>1, OrderedRecords
<1>2. QED
  BY <1>1 DEF Told

\* The ordered signals of shifted records are the signals, ordered and shifted.
LEMMA ShiftedOrderedSignals ==
    ASSUME NEW recs \in Seq(Rec), NEW clock, NEW by \in Nat \ {0}, NEW strengths
    PROVE  /\ Ordered(Signals(Shift(recs, clock, by), strengths)) = Shift(Ordered(Signals(recs, strengths)), clock, by)
           /\ Ordered(Signals(Shift(recs, clock, by), strengths)) = <<>>
                 <=> Ordered(Signals(recs, strengths)) = <<>>
<1> DEFINE some == Signals(recs, strengths)
           line == Ordered(some)
<1>1. some \in Seq(Rec)
  BY SignalRecords
<1>2. Signals(Shift(recs, clock, by), strengths) = Shift(some, clock, by)
  BY ShiftedSignals
<1> HIDE DEF some
<1>3. Ordered(Shift(some, clock, by)) = Shift(line, clock, by)
  BY <1>1, ShiftedOrder
<1>4. line \in Seq(Rec)
  BY <1>1, OrderedRecords
<1> HIDE DEF line
<1>5. Shift(line, clock, by) \in Seq(Rec) /\ Len(Shift(line, clock, by)) = Len(line)
  BY <1>4, ShiftedRecords
<1>6. Shift(line, clock, by) = <<>> <=> line = <<>>
  <2>1. ASSUME NEW s \in Seq(Rec), NEW t \in Seq(Rec), Len(s) = Len(t) PROVE s = <<>> <=> t = <<>>
    BY <2>1
  <2>2. QED
    BY <1>4, <1>5, <2>1
<1>7. QED
  BY <1>2, <1>3, <1>6 DEF some, line

\* Shifting one clock does not change the story, and neither the doubt.
LEMMA StoryShifted ==
    ASSUME NEW recs \in Seq(Rec), NEW clock, NEW by \in Nat \ {0}
    PROVE  /\ Story(Incident(Shift(recs, clock, by))) = Story(Incident(recs))
           /\ Incident(Shift(recs, clock, by)).doubt = Incident(recs).doubt
<1> DEFINE more == Shift(recs, clock, by)
           all == Ordered(Signals(recs, {1, 2, 3}))
           failures == Ordered(Signals(recs, {2, 3}))
           told == Told(recs)
           i == Incident(recs)
           j == Incident(more)
<1>1. more \in Seq(Rec)
  BY ShiftedRecords
<1>2. all \in Seq(Rec) /\ failures \in Seq(Rec) /\ told \in Seq(Rec)
  BY ToldRecords
<1>3. /\ Ordered(Signals(more, {1, 2, 3})) = Shift(all, clock, by)
      /\ Ordered(Signals(more, {2, 3})) = Shift(failures, clock, by)
      /\ Told(more) = Shift(told, clock, by)
  <2>1. \A s : /\ Ordered(Signals(more, s)) = Shift(Ordered(Signals(recs, s)), clock, by)
               /\ Ordered(Signals(more, s)) = <<>> <=> Ordered(Signals(recs, s)) = <<>>
    BY ShiftedOrderedSignals
  <2>2. QED
    BY <2>1 DEF Told
<1>4. /\ Len(Shift(all, clock, by)) = Len(all) /\ Len(Shift(failures, clock, by)) = Len(failures)
      /\ Len(Shift(told, clock, by)) = Len(told)
  BY <1>2, ShiftedRecords
<1>5. /\ i.first = SubSeq(told, 1, Sooner(1, Len(told)))
      /\ i.terminal = SubSeq(told, Later(1, Len(told)), Len(told))
      /\ i.timeline = SubSeq(all, 1, Sooner(12, Len(all)))
      /\ i.evidence = SubSeq(failures, 1, Sooner(10, Len(failures)))
      /\ i.doubt = Doubt(Signals(recs, {1, 2, 3}))
  BY IncidentParts
<1>6. /\ j.first = SubSeq(Shift(told, clock, by), 1, Sooner(1, Len(told)))
      /\ j.terminal = SubSeq(Shift(told, clock, by), Later(1, Len(told)), Len(told))
      /\ j.timeline = SubSeq(Shift(all, clock, by), 1, Sooner(12, Len(all)))
      /\ j.evidence = SubSeq(Shift(failures, clock, by), 1, Sooner(10, Len(failures)))
      /\ j.doubt = Doubt(Signals(more, {1, 2, 3}))
  <2> HIDE DEF more, all, failures, told
  <2>1. /\ j.first = SubSeq(Told(more), 1, Sooner(1, Len(Told(more))))
        /\ j.terminal = SubSeq(Told(more), Later(1, Len(Told(more))), Len(Told(more)))
        /\ j.timeline = SubSeq(Ordered(Signals(more, {1, 2, 3})), 1, Sooner(12, Len(Ordered(Signals(more, {1, 2, 3})))))
        /\ j.evidence = SubSeq(Ordered(Signals(more, {2, 3})), 1, Sooner(10, Len(Ordered(Signals(more, {2, 3})))))
        /\ j.doubt = Doubt(Signals(more, {1, 2, 3}))
    BY IncidentParts
  <2> HIDE DEF j
  <2>2. QED
    BY <1>3, <1>4, <2>1
<1> HIDE DEF more, all, failures, told, i, j
<1>7. \A s \in Seq(Rec) : /\ Sooner(1, Len(s)) \in 0 .. Len(s) /\ Sooner(12, Len(s)) \in 0 .. Len(s)
                          /\ Sooner(10, Len(s)) \in 0 .. Len(s) /\ Later(1, Len(s)) \in Nat \ {0}
                          /\ Len(s) \in 0 .. Len(s)
  BY DEF Sooner, Later
<1>8. /\ Places(j.first) = Places(i.first) /\ Places(j.terminal) = Places(i.terminal)
      /\ Places(j.timeline) = Places(i.timeline) /\ Places(j.evidence) = Places(i.evidence)
  <2>1. Places(j.first) = Places(i.first)
    <3>1. 1 \in Nat \ {0} /\ Sooner(1, Len(told)) \in 0 .. Len(told)
      BY <1>2, <1>7
    <3>2. Places(SubSeq(Shift(told, clock, by), 1, Sooner(1, Len(told)))) = Places(SubSeq(told, 1, Sooner(1, Len(told))))
      BY <1>2, <3>1, ShiftedStretch
    <3>3. QED
      BY <1>5, <1>6, <3>2
  <2>2. Places(j.terminal) = Places(i.terminal)
    <3>1. Later(1, Len(told)) \in Nat \ {0} /\ Len(told) \in 0 .. Len(told)
      BY <1>2, <1>7
    <3>2. Places(SubSeq(Shift(told, clock, by), Later(1, Len(told)), Len(told))) = Places(SubSeq(told, Later(1, Len(told)), Len(told)))
      BY <1>2, <3>1, ShiftedStretch
    <3>3. QED
      BY <1>5, <1>6, <3>2
  <2>3. Places(j.timeline) = Places(i.timeline)
    <3>1. 1 \in Nat \ {0} /\ Sooner(12, Len(all)) \in 0 .. Len(all)
      BY <1>2, <1>7
    <3>2. Places(SubSeq(Shift(all, clock, by), 1, Sooner(12, Len(all)))) = Places(SubSeq(all, 1, Sooner(12, Len(all))))
      BY <1>2, <3>1, ShiftedStretch
    <3>3. QED
      BY <1>5, <1>6, <3>2
  <2>4. Places(j.evidence) = Places(i.evidence)
    <3>1. 1 \in Nat \ {0} /\ Sooner(10, Len(failures)) \in 0 .. Len(failures)
      BY <1>2, <1>7
    <3>2. Places(SubSeq(Shift(failures, clock, by), 1, Sooner(10, Len(failures)))) = Places(SubSeq(failures, 1, Sooner(10, Len(failures))))
      BY <1>2, <3>1, ShiftedStretch
    <3>3. QED
      BY <1>5, <1>6, <3>2
  <2>5. QED
    BY <2>1, <2>2, <2>3, <2>4
<1>9. Story(j) = Story(i)
  <2>1. \A part \in {"first", "terminal", "timeline", "evidence"} : Places(j[part]) = Places(i[part])
    BY <1>8
  <2>2. QED
    BY <2>1 DEF Story
<1>10. j.doubt = i.doubt
  <2> DEFINE s == Signals(recs, {1, 2, 3})
             t == Shift(s, clock, by)
  <2>1. s \in Seq(Rec)
    BY SignalRecords
  <2>2. Signals(more, {1, 2, 3}) = t
    BY ShiftedSignals DEF more
  <2> HIDE DEF s
  <2>3. Domains(t) = Domains(s)
    BY <2>1, ShiftedDomains
  <2>4. DOMAIN t = DOMAIN s /\ \A k \in DOMAIN s : t[k].line.at = Untimed <=> s[k].line.at = Untimed
    BY <2>1, ShiftedRecords, MovedRecord
  <2> HIDE DEF t
  <2>5. Doubt(t) = Doubt(s)
    BY <2>3, <2>4 DEF Doubt
  <2>6. QED
    BY <1>5, <1>6, <2>2, <2>5 DEF s
<1>11. QED
  BY <1>9, <1>10 DEF i, j, more

-----------------------------------------------------------------------------
(* An answer without doubt.                                                 *)

\* The clocks of records are finitely many, and those of some not more than those of all.
LEMMA DomainsFinite ==
    ASSUME NEW recs \in Seq(Rec)
    PROVE  IsFiniteSet(Domains(recs)) /\ Cardinality(Domains(recs)) \in Nat
<1> DEFINE timed == {k \in DOMAIN recs : recs[k].line.at # Untimed}
           f == [k \in timed |-> recs[k].line.clock]
<1>1. IsFiniteSet(timed)
  <2>1. IsFiniteSet(DOMAIN recs)
    <3>1. DOMAIN recs = 1 .. Len(recs) /\ Len(recs) \in Nat
      OBVIOUS
    <3>2. QED
      BY <3>1, FS_Interval
  <2>2. QED
    BY <2>1, FS_Subset
<1>2. Domains(recs) = {f[k] : k \in timed}
  BY DEF Domains
<1>3. IsFiniteSet(Domains(recs))
  <2> HIDE DEF f, timed
  <2>1. DOMAIN f = timed
    BY DEF f
  <2>2. IsFiniteSet({f[k] : k \in timed})
    BY <1>1, <2>1, ImageFinite
  <2>3. QED
    BY <1>2, <2>2
<1>4. QED
  BY <1>3, FS_CardinalityType

\* Timed records of one clock are told in the order of time, none added, none lost.
LEMMA TimedOrder ==
    ASSUME NEW recs \in Seq(Rec), ~(Cardinality(Domains(recs)) > 1),
           \A k \in DOMAIN recs : recs[k].line.at # Untimed
    PROVE  /\ Ordered(recs) \in Seq(Rec) /\ Len(Ordered(recs)) = Len(recs)
           /\ \A k \in DOMAIN recs : \E n \in DOMAIN Ordered(recs) : Ordered(recs)[n] = recs[k]
           /\ \A i, j \in DOMAIN Ordered(recs) : i < j => Ordered(recs)[i].line.at <= Ordered(recs)[j].line.at
<1> DEFINE R == Stably(recs, TimeBefore)
           is == Arranged(DOMAIN recs, R)
           line == Ordered(recs)
<1>1. line = Texts(recs, is)
  BY DEF Ordered, Sorted
<1>2. DOMAIN recs = 1 .. Len(recs) /\ Len(recs) \in Nat
  OBVIOUS
<1>3. \A i, j \in DOMAIN recs : <<i, j>> \in R => TimeBefore(recs[i], recs[j]) \/ ~TimeBefore(recs[j], recs[i])
  BY DEF Stably
<1>4. Orders(R, DOMAIN recs)
  BY StablyTime
<1> HIDE DEF R
<1>5. is \in [1 .. Len(recs) -> DOMAIN recs] /\ Lists(is, DOMAIN recs, R) /\ Cardinality(DOMAIN recs) = Len(recs)
  BY <1>4, SortedRecords
<1> HIDE DEF is, line
<1>6. /\ line \in Seq(Rec) /\ Len(line) = Len(recs) /\ DOMAIN line = 1 .. Len(recs)
      /\ \A k \in 1 .. Len(recs) : line[k] = recs[is[k]]
  BY <1>1, <1>2, <1>5, PickedTexts
<1>7. ASSUME NEW k \in DOMAIN recs PROVE \E n \in DOMAIN line : line[n] = recs[k]
  <2>1. PICK n \in 1 .. Len(recs) : is[n] = k
    BY <1>5 DEF Lists
  <2>2. QED
    BY <1>6, <2>1
<1>8. ASSUME NEW i \in 1 .. Len(recs), NEW j \in 1 .. Len(recs), i < j
      PROVE  line[i].line.at <= line[j].line.at
  <2> DEFINE p == is[i]
             q == is[j]
  <2>1. p \in DOMAIN recs /\ q \in DOMAIN recs /\ <<p, q>> \in R
    BY <1>5, <1>8 DEF Lists
  <2>2. line[i] = recs[p] /\ line[j] = recs[q]
    BY <1>6
  <2> HIDE DEF p, q
  <2>3. TimeBefore(recs[p], recs[q]) \/ ~TimeBefore(recs[q], recs[p])
    BY <1>3, <2>1
  <2>4. /\ recs[p].line.at \in Int /\ recs[q].line.at \in Int
        /\ recs[p].line.at # Untimed /\ recs[q].line.at # Untimed
    BY <2>1, RecordFields
  <2>5. TimeBefore(recs[p], recs[q]) => recs[p].line.at <= recs[q].line.at
    BY <2>4 DEF TimeBefore
  <2>6. ~TimeBefore(recs[q], recs[p]) => recs[p].line.at <= recs[q].line.at
    BY <2>4 DEF TimeBefore
  <2>7. QED
    BY <2>2, <2>3, <2>5, <2>6
<1>9. QED
  BY <1>6, <1>7, <1>8 DEF line

\* What is said of the order.
LEMMA NoDoubt ==
    ASSUME NEW signals, Doubt(signals) = "none"
    PROVE  /\ ~(Cardinality(Domains(signals)) > 1)
           /\ \A k \in DOMAIN signals : signals[k].line.at # Untimed
BY DEF Doubt

\* A strength is one of four.
LEMMA StrengthIn == ASSUME NEW l PROVE Strength(l) \in {0, 1, 2, 3}
BY DEF Strength, SignalStrength

\* The signals of some strengths are timed and of one clock where all signals are.
LEMMA SomeSignals ==
    ASSUME NEW recs \in Seq(Rec), Doubt(Signals(recs, {1, 2, 3})) = "none", NEW strengths \in SUBSET {1, 2, 3}
    PROVE  /\ Signals(recs, strengths) \in Seq(Rec)
           /\ ~(Cardinality(Domains(Signals(recs, strengths))) > 1)
           /\ \A k \in DOMAIN Signals(recs, strengths) : Signals(recs, strengths)[k].line.at # Untimed
           /\ \A k \in Signalling(recs, strengths) :
                 \E n \in DOMAIN Signals(recs, strengths) : Signals(recs, strengths)[n] = recs[k]
<1> DEFINE all == Signals(recs, {1, 2, 3})
           some == Signals(recs, strengths)
<1>1. \A s : /\ Signals(recs, s) \in Seq(Rec)
             /\ \A k \in Signalling(recs, s) : \E n \in DOMAIN Signals(recs, s) : Signals(recs, s)[n] = recs[k]
             /\ \A n \in DOMAIN Signals(recs, s) : \E k \in Signalling(recs, s) : Signals(recs, s)[n] = recs[k]
  <2> SUFFICES ASSUME NEW s
               PROVE  /\ Signals(recs, s) \in Seq(Rec)
                      /\ \A k \in Signalling(recs, s) : \E n \in DOMAIN Signals(recs, s) : Signals(recs, s)[n] = recs[k]
                      /\ \A n \in DOMAIN Signals(recs, s) : \E k \in Signalling(recs, s) : Signals(recs, s)[n] = recs[k]
    OBVIOUS
  <2> DEFINE is == Signalling(recs, s)
             m == Cardinality(is)
             nos == Upward(is)
  <2>1. /\ m \in Nat /\ nos \in [1 .. m -> is] /\ \A k \in is : \E n \in 1 .. m : nos[n] = k
        /\ Signals(recs, s) = Texts(recs, nos) /\ Signals(recs, s) \in Seq(Rec)
    BY SignalRecords
  <2>2. is \subseteq DOMAIN recs
    BY DEF Signalling
  <2> HIDE DEF is, m, nos
  <2>3. nos \in [1 .. m -> DOMAIN recs]
    BY <2>1, <2>2
  <2>4. DOMAIN Texts(recs, nos) = 1 .. m /\ \A n \in 1 .. m : Texts(recs, nos)[n] = recs[nos[n]]
    BY <2>1, <2>3, PickedTexts
  <2>5. \A n \in 1 .. m : nos[n] \in is
    BY <2>1
  <2>6. QED
    BY <2>1, <2>4, <2>5 DEF is
<1>2. Signalling(recs, strengths) \subseteq Signalling(recs, {1, 2, 3})
  BY DEF Signalling
<1>3. /\ ~(Cardinality(Domains(all)) > 1)
      /\ \A k \in DOMAIN all : all[k].line.at # Untimed
  BY NoDoubt
<1>4. /\ all \in Seq(Rec) /\ some \in Seq(Rec)
      /\ \A k \in Signalling(recs, {1, 2, 3}) : \E n \in DOMAIN all : all[n] = recs[k]
      /\ \A n \in DOMAIN some : \E k \in Signalling(recs, strengths) : some[n] = recs[k]
  BY <1>1
<1> HIDE DEF all, some
<1>5. \A n \in DOMAIN some : \E k \in DOMAIN all : some[n] = all[k]
  BY <1>2, <1>4
<1>6. \A k \in DOMAIN some : some[k].line.at # Untimed
  BY <1>3, <1>5
<1>7. Domains(some) \in SUBSET Domains(all)
  BY <1>5 DEF Domains
<1>8. ~(Cardinality(Domains(some)) > 1)
  <2>1. /\ IsFiniteSet(Domains(all)) /\ Cardinality(Domains(all)) \in Nat
        /\ IsFiniteSet(Domains(some)) /\ Cardinality(Domains(some)) \in Nat
    BY <1>4, DomainsFinite
  <2>2. Cardinality(Domains(some)) <= Cardinality(Domains(all))
    BY <1>7, <2>1, FS_Subset
  <2>3. QED
    BY <1>3, <2>1, <2>2
<1>9. QED
  BY <1>1, <1>4, <1>6, <1>8 DEF some

\* Without doubt the first failure is not later than any, the terminal one not
\* earlier, the timeline in the order of time, and the clock the same everywhere.
LEMMA UndoubtedOrdered ==
    ASSUME NEW recs \in Seq(Rec), Incident(recs).doubt = "none"
    PROVE  /\ \A k \in DOMAIN recs : Strength(recs[k].line) > 1 =>
                 /\ Incident(recs).first[1].line.at <= recs[k].line.at
                 /\ recs[k].line.at <= Incident(recs).terminal[1].line.at
           /\ \A i, j \in DOMAIN Incident(recs).timeline :
                 i < j => Incident(recs).timeline[i].line.at <= Incident(recs).timeline[j].line.at
           /\ \A i, j \in DOMAIN recs : Strength(recs[i].line) > 0 /\ Strength(recs[j].line) > 0 =>
                 recs[i].line.clock = recs[j].line.clock
<1> DEFINE all == Signals(recs, {1, 2, 3})
           failures == Signals(recs, {2, 3})
           line == Ordered(all)
           worst == Ordered(failures)
<1>1. Doubt(all) = "none"
  BY IncidentParts
<1>2. /\ all \in Seq(Rec) /\ ~(Cardinality(Domains(all)) > 1)
      /\ \A k \in DOMAIN all : all[k].line.at # Untimed
      /\ \A k \in Signalling(recs, {1, 2, 3}) : \E n \in DOMAIN all : all[n] = recs[k]
  BY <1>1, SomeSignals
<1>3. /\ failures \in Seq(Rec) /\ ~(Cardinality(Domains(failures)) > 1)
      /\ \A k \in DOMAIN failures : failures[k].line.at # Untimed
      /\ \A k \in Signalling(recs, {2, 3}) : \E n \in DOMAIN failures : failures[n] = recs[k]
  <2>1. {2, 3} \in SUBSET {1, 2, 3}
    OBVIOUS
  <2>2. QED
    BY <1>1, <2>1, SomeSignals
<1> HIDE DEF all, failures
<1>4. /\ line \in Seq(Rec) /\ \A i, j \in DOMAIN line : i < j => line[i].line.at <= line[j].line.at
  BY <1>2, TimedOrder
<1>5. /\ worst \in Seq(Rec) /\ Len(worst) = Len(failures)
      /\ \A k \in DOMAIN failures : \E n \in DOMAIN worst : worst[n] = failures[k]
      /\ \A i, j \in DOMAIN worst : i < j => worst[i].line.at <= worst[j].line.at
  BY <1>3, TimedOrder
<1> HIDE DEF line, worst
<1>6. ASSUME NEW k \in DOMAIN recs, Strength(recs[k].line) > 1
      PROVE  /\ Incident(recs).first[1].line.at <= recs[k].line.at
             /\ recs[k].line.at <= Incident(recs).terminal[1].line.at
  <2>1. k \in Signalling(recs, {2, 3})
    BY <1>6, StrengthIn DEF Signalling
  <2>2. PICK n \in DOMAIN worst : worst[n] = recs[k]
    BY <1>3, <1>5, <2>1
  <2> DEFINE m == Len(worst)
  <2>3. m \in Nat \ {0} /\ DOMAIN worst = 1 .. m /\ n \in 1 .. m /\ worst # <<>>
    BY <1>5, <2>2
  <2>4. Told(recs) = worst
    BY <2>3 DEF Told, worst, failures
  <2>5. Sooner(1, m) = 1 /\ Later(1, m) = m
    BY <2>3 DEF Sooner, Later
  <2>6. Incident(recs).first = SubSeq(worst, 1, 1) /\ Incident(recs).terminal = SubSeq(worst, m, m)
    <3>1. /\ Incident(recs).first = SubSeq(Told(recs), 1, Sooner(1, Len(Told(recs))))
          /\ Incident(recs).terminal = SubSeq(Told(recs), Later(1, Len(Told(recs))), Len(Told(recs)))
      BY IncidentParts
    <3>2. QED
      BY <2>4, <2>5, <3>1
  <2>7. SubSeq(worst, 1, 1)[1] = worst[1] /\ SubSeq(worst, m, m)[1] = worst[m]
    <3> HIDE DEF m
    <3>1. 1 \in 0 .. Len(worst) /\ m \in 0 .. Len(worst)
      BY <2>3 DEF m
    <3>2. ASSUME NEW a \in 1 .. m, a \in 0 .. Len(worst) PROVE SubSeq(worst, a, a)[1] = worst[a]
      <4>1. a \in Nat \ {0} /\ 1 \in 1 .. (a - a + 1) /\ 1 + a - 1 = a
        BY <2>3
      <4>2. SubSeq(worst, a, a)[1] = worst[1 + a - 1]
        BY <1>5, <3>2, <4>1, Stretch
      <4>3. QED
        BY <4>1, <4>2
    <3>3. QED
      BY <2>3, <3>1, <3>2
  <2>8. worst[1].line.at <= worst[n].line.at /\ worst[n].line.at <= worst[m].line.at
    <3>1. /\ worst[1].line.at \in Int /\ worst[n].line.at \in Int /\ worst[m].line.at \in Int
      <4>1. worst[1] \in Rec /\ worst[n] \in Rec /\ worst[m] \in Rec
        BY <1>5, <2>3
      <4>2. QED
        BY <4>1, RecordFields
    <3>2. n = 1 \/ 1 < n
      BY <2>3
    <3>3. n = m \/ n < m
      BY <2>3
    <3>4. 1 \in DOMAIN worst /\ n \in DOMAIN worst /\ m \in DOMAIN worst
      BY <2>3
    <3> HIDE DEF m
    <3>5. QED
      BY <1>5, <3>1, <3>2, <3>3, <3>4
  <2>9. QED
    BY <2>2, <2>6, <2>7, <2>8
<1>7. ASSUME NEW i \in DOMAIN Incident(recs).timeline, NEW j \in DOMAIN Incident(recs).timeline, i < j
      PROVE  Incident(recs).timeline[i].line.at <= Incident(recs).timeline[j].line.at
  <2> DEFINE b == Sooner(12, Len(line))
             part == SubSeq(line, 1, b)
  <2>1. Incident(recs).timeline = part
    BY IncidentParts DEF line, all
  <2>2. b \in 0 .. Len(line)
    BY <1>4 DEF Sooner
  <2> HIDE DEF b
  <2>3. /\ DOMAIN part = 1 .. (b - 1 + 1)
        /\ \A k \in 1 .. (b - 1 + 1) : k + 1 - 1 \in DOMAIN line /\ part[k] = line[k + 1 - 1]
    BY <1>4, <2>2, Stretch
  <2> HIDE DEF part
  <2>4. i \in Nat /\ j \in Nat /\ i \in DOMAIN line /\ j \in DOMAIN line /\ part[i] = line[i] /\ part[j] = line[j]
    BY <1>7, <2>1, <2>2, <2>3
  <2>5. QED
    BY <1>4, <1>7, <2>1, <2>4
<1>8. ASSUME NEW i \in DOMAIN recs, NEW j \in DOMAIN recs,
             Strength(recs[i].line) > 0, Strength(recs[j].line) > 0
      PROVE  recs[i].line.clock = recs[j].line.clock
  <2>1. i \in Signalling(recs, {1, 2, 3}) /\ j \in Signalling(recs, {1, 2, 3})
    BY <1>8, StrengthIn DEF Signalling
  <2>2. PICK a \in DOMAIN all, b \in DOMAIN all : all[a] = recs[i] /\ all[b] = recs[j]
    BY <1>2, <2>1
  <2>3. all[a].line.clock = all[b].line.clock
    BY <1>2, OneClock
  <2>4. QED
    BY <2>2, <2>3
<1>9. QED
  BY <1>6, <1>7, <1>8

-----------------------------------------------------------------------------
(* The operations a bundle's records are partitioned into.                   *)

\* A segment being built, and a partition on the way.
Building == [recs : Seq(Rec), at : Nat \cup {Untimed}, clock : Clocks \cup {"none"},
             sessions : SUBSET (STRING \X STRING), op : SUBSET STRING]

Partial == [done : Seq(Seq(Rec)), cur : Building]

Undivided == [done |-> <<>>, cur |-> NoSegment]

\* What is known of a record's line.
LEMMA LineFields ==
    ASSUME NEW r \in Rec
    PROVE  /\ r.line.at \in Nat \cup {Untimed} /\ r.line.clock \in Clocks
           /\ r.line.sessions \in SUBSET (STRING \X STRING) /\ Single(r.line.ops) \in SUBSET STRING
           /\ \A o, p \in Single(r.line.ops) : o = p
<1>1. r.line \in Line
  BY RecordFields
<1>2. \A l \in Line : /\ l.at \in Nat \cup {Untimed} /\ l.clock \in Clocks
                      /\ l.sessions \in SUBSET (STRING \X STRING) /\ l.ops \in SUBSET STRING
  BY DEF Line
<1>3. QED
  BY <1>1, <1>2 DEF Single

\* A record opens a segment or continues one.
LEMMA ExtendBuilds ==
    ASSUME NEW cur \in Building, NEW r \in Rec
    PROVE  /\ Extend(cur, r) \in Building
           /\ Extend(cur, r).recs = Append(cur.recs, r)
           /\ Extend(cur, r).at = IF r.line.at # Untimed THEN r.line.at ELSE cur.at
           /\ Extend(cur, r).clock = IF r.line.at # Untimed THEN r.line.clock ELSE cur.clock
           /\ Extend(cur, r).sessions = r.line.sessions \cup
                 {s \in cur.sessions : \A t \in r.line.sessions : t[1] # s[1]}
           /\ Extend(cur, r).op = IF Single(r.line.ops) # {} THEN Single(r.line.ops) ELSE cur.op
<1>1. \A b \in Building : /\ b.recs \in Seq(Rec) /\ b.at \in Nat \cup {Untimed}
                         /\ b.clock \in Clocks \cup {"none"}
                         /\ b.sessions \in SUBSET (STRING \X STRING) /\ b.op \in SUBSET STRING
  BY DEF Building
<1>2. Append(cur.recs, r) \in Seq(Rec)
  BY <1>1
<1>3. /\ Extend(cur, r).recs = Append(cur.recs, r)
      /\ Extend(cur, r).at = IF r.line.at # Untimed THEN r.line.at ELSE cur.at
      /\ Extend(cur, r).clock = IF r.line.at # Untimed THEN r.line.clock ELSE cur.clock
      /\ Extend(cur, r).sessions = r.line.sessions \cup
            {s \in cur.sessions : \A t \in r.line.sessions : t[1] # s[1]}
      /\ Extend(cur, r).op = IF Single(r.line.ops) # {} THEN Single(r.line.ops) ELSE cur.op
  BY DEF Extend
<1>4. Extend(cur, r) = [recs |-> Extend(cur, r).recs, at |-> Extend(cur, r).at,
        clock |-> Extend(cur, r).clock, sessions |-> Extend(cur, r).sessions, op |-> Extend(cur, r).op]
  BY DEF Extend
<1>5. /\ (IF r.line.at # Untimed THEN r.line.at ELSE cur.at) \in Nat \cup {Untimed}
      /\ (IF r.line.at # Untimed THEN r.line.clock ELSE cur.clock) \in Clocks \cup {"none"}
      /\ (IF Single(r.line.ops) # {} THEN Single(r.line.ops) ELSE cur.op) \in SUBSET STRING
      /\ r.line.sessions \cup {s \in cur.sessions : \A t \in r.line.sessions : t[1] # s[1]}
           \in SUBSET (STRING \X STRING)
  <2>1. cur.at \in Nat \cup {Untimed} /\ cur.clock \in Clocks \cup {"none"} /\ cur.op \in SUBSET STRING
    BY <1>1
  <2>2. cur.sessions \in SUBSET (STRING \X STRING)
    BY <1>1
  <2>3. r.line.sessions \in SUBSET (STRING \X STRING)
    BY LineFields
  <2>4. r.line.sessions \cup {s \in cur.sessions : \A t \in r.line.sessions : t[1] # s[1]}
           \in SUBSET (STRING \X STRING)
    BY <2>2, <2>3, Zenon
  <2>5. QED
    BY <2>1, <2>4, LineFields
<1>6. Extend(cur, r) \in Building
  <2>1. PICK e : e = Extend(cur, r)
    OBVIOUS
  <2>2. /\ e.recs \in Seq(Rec) /\ e.at \in Nat \cup {Untimed} /\ e.clock \in Clocks \cup {"none"}
        /\ e.sessions \in SUBSET (STRING \X STRING) /\ e.op \in SUBSET STRING
    BY <1>2, <1>3, <1>5, <2>1
  <2>3. [recs |-> e.recs, at |-> e.at, clock |-> e.clock, sessions |-> e.sessions, op |-> e.op] \in Building
    BY <2>2 DEF Building
  <2>4. e = [recs |-> e.recs, at |-> e.at, clock |-> e.clock, sessions |-> e.sessions, op |-> e.op]
    BY <1>4, <2>1
  <2>5. QED
    BY <2>1, <2>3, <2>4
<1>7. QED
  BY <1>3, <1>6

\* So does a partition.
LEMMA DividedPartial ==
    ASSUME NEW acc \in Partial, NEW r \in Rec
    PROVE  /\ Divided(acc, r) \in Partial
           /\ Divided(acc, r).done = IF Closes(acc.cur, r) THEN Append(acc.done, acc.cur.recs) ELSE acc.done
           /\ Divided(acc, r).cur = Extend(IF Closes(acc.cur, r) THEN NoSegment ELSE acc.cur, r)
           /\ NoSegment \in Building
<1>1. acc.done \in Seq(Seq(Rec)) /\ acc.cur \in Building
  BY DEF Partial
<1>2. NoSegment \in Building
  BY DEF NoSegment, Building
<1>3. acc.cur.recs \in Seq(Rec)
  BY <1>1 DEF Building
<1>4. Append(acc.done, acc.cur.recs) \in Seq(Seq(Rec))
  BY <1>1, <1>3
<1>5. Extend(IF Closes(acc.cur, r) THEN NoSegment ELSE acc.cur, r) \in Building
  BY <1>1, <1>2, ExtendBuilds
<1>6. \A d \in Seq(Seq(Rec)), c \in Building : [done |-> d, cur |-> c] \in Partial
  BY DEF Partial
<1>7. Divided(acc, r) = IF Closes(acc.cur, r)
                        THEN [done |-> Append(acc.done, acc.cur.recs), cur |-> Extend(NoSegment, r)]
                        ELSE [done |-> acc.done, cur |-> Extend(acc.cur, r)]
  BY DEF Divided, Reopened
<1>8. CASE Closes(acc.cur, r)
  <2>1. Extend(NoSegment, r) \in Building
    BY <1>2, ExtendBuilds
  <2>2. Divided(acc, r) = [done |-> Append(acc.done, acc.cur.recs), cur |-> Extend(NoSegment, r)]
    BY <1>7, <1>8
  <2>3. Divided(acc, r) \in Partial
    BY <1>4, <1>6, <2>1, <2>2
  <2>4. QED
    BY <1>2, <1>8, <2>2, <2>3
<1>9. CASE ~Closes(acc.cur, r)
  BY <1>1, <1>2, <1>5, <1>6, <1>7, <1>9
<1>10. QED
  BY <1>8, <1>9

\* A partition grows record by record.
LEMMA PartitionRuns ==
    ASSUME NEW recs \in Seq(Rec)
    PROVE  \E acc \in [0 .. Len(recs) -> Partial] :
              /\ acc[0] = Undivided /\ acc[Len(recs)] = Partition(recs)
              /\ \A k \in 1 .. Len(recs) : acc[k] = Divided(acc[k - 1], recs[k])
<1> DEFINE n == Len(recs)
           V == Partial
           F == [p \in V \X (1 .. n) |-> Divided(p[1], recs[p[2]])]
           Eq(it) == it = [s \in SUBSET DOMAIN recs |-> IF s = {} THEN Undivided ELSE Divided(it[s \ {Max(s)}], recs[Max(s)])]
           ch == CHOOSE it : Eq(it)
<1>1. Partition(recs) = ch[DOMAIN recs]
  BY DEF Partition, Undivided, FoldLeft, MapThenFoldSet
<1>2. n \in Nat /\ DOMAIN recs = 1 .. n
  OBVIOUS
<1>3. Undivided \in V
  <2>1. NoSegment \in Building
    BY DEF NoSegment, Building
  <2>2. QED
    BY <2>1 DEF Undivided, Partial
<1>4. \A v \in V, k \in 1 .. n : Divided(v, recs[k]) \in V
  <2> SUFFICES ASSUME NEW v \in V, NEW k \in 1 .. n PROVE Divided(v, recs[k]) \in V
    OBVIOUS
  <2>1. recs[k] \in Rec
    OBVIOUS
  <2>2. QED
    BY <2>1, DividedPartial
<1>5. F \in [V \X (1 .. n) -> V] /\ \A v \in V, k \in 1 .. n : F[<<v, k>>] = Divided(v, recs[k])
  BY <1>4
<1>6. \A s \in SUBSET (1 .. n) : s # {} => Max(s) \in 1 .. n /\ s \ {Max(s)} \in SUBSET (1 .. n)
  BY <1>2, LargestIn
<1>7. \E it : Eq(it)
  <2>1. PICK it \in [SUBSET (1 .. n) -> V] : Folds(it, Undivided, F, n)
    <3> HIDE DEF V, F
    <3>1. QED
      BY <1>2, <1>3, <1>5, FoldSolved
  <2>2. ASSUME NEW s \in SUBSET (1 .. n), s # {} PROVE it[s] = Divided(it[s \ {Max(s)}], recs[Max(s)])
    <3>1. it[s] = F[<<it[s \ {Max(s)}], Max(s)>>]
      BY <2>1, <2>2 DEF Folds
    <3>2. Max(s) \in 1 .. n /\ it[s \ {Max(s)}] \in V
      BY <1>6, <2>1, <2>2
    <3> HIDE DEF F, V
    <3>3. QED
      BY <1>5, <3>1, <3>2
  <2>3. it[{}] = Undivided
    BY <2>1 DEF Folds
  <2> HIDE DEF V, F
  <2>4. Eq(it)
    BY <1>2, <2>1, <2>2, <2>3
  <2> HIDE DEF Eq
  <2>5. QED
    BY <2>4
<1>8. Eq(ch)
  BY <1>7
<1>9. ASSUME NEW s \in SUBSET (1 .. n), s # {}, ch[s \ {Max(s)}] \in V
      PROVE  ch[s] = F[<<ch[s \ {Max(s)}], Max(s)>>]
  <2> HIDE DEF ch, F, V
  <2>1. ch[s] = Divided(ch[s \ {Max(s)}], recs[Max(s)])
    BY <1>2, <1>8, <1>9
  <2>2. Max(s) \in 1 .. n
    BY <1>6, <1>9
  <2>3. QED
    BY <1>5, <1>9, <2>1, <2>2
<1>10. ch[{}] = Undivided
  <2> HIDE DEF ch
  <2>1. QED
    BY <1>8
<1>11. Follows(ch, Undivided, F, n, V)
  <2> HIDE DEF ch, F, V, n
  <2>1. QED
    BY <1>2, <1>3, <1>5, <1>9, <1>10 DEF Follows
<1> HIDE DEF ch, F, V, n
<1>12. /\ \A k \in 0 .. n : ch[1 .. k] \in V
       /\ ch[1 .. 0] = Undivided
       /\ \A k \in 1 .. n : ch[1 .. k] = F[<<ch[1 .. k - 1], k>>]
  BY <1>11, FoldRuns
<1> DEFINE acc == [k \in 0 .. n |-> ch[1 .. k]]
<1>13. acc \in [0 .. n -> V] /\ acc[0] = Undivided /\ acc[n] = Partition(recs)
  BY <1>1, <1>2, <1>12
<1>14. ASSUME NEW k \in 1 .. n PROVE acc[k] = Divided(acc[k - 1], recs[k])
  <2>1. k - 1 \in 0 .. n /\ acc[k - 1] = ch[1 .. k - 1] /\ acc[k] = ch[1 .. k]
    BY <1>2
  <2> HIDE DEF acc
  <2>2. QED
    BY <1>5, <1>12, <2>1
<1> HIDE DEF acc
<1>15. QED
  BY <1>13, <1>14 DEF V, n

\* What two records of one operation have in common ...
Suits(a, b) ==
    /\ a.file = b.file
    /\ \A s \in a.line.sessions, t \in b.line.sessions : s[1] = t[1] => s[2] = t[2]
    /\ \A o \in Single(a.line.ops), p \in Single(b.line.ops) : o = p
    /\ a.line.at # Untimed /\ b.line.at # Untimed =>
          a.line.clock = b.line.clock /\ Date(a.line.at) = Date(b.line.at)

\* ... and how close they are in time where nothing timed is between them.
Near(a, b) == a.line.at # Untimed /\ b.line.at # Untimed => Distance(a.line.at, b.line.at) <= Epsilon

Fitting(seg, i, j) ==
    /\ Suits(seg[i], seg[j])
    /\ (\A k \in i + 1 .. j - 1 : seg[k].line.at = Untimed) => Near(seg[i], seg[j])

\* A segment is of one operation where each record fits each later one.
LEMMA OneByPairs ==
    ASSUME NEW seg, NEW n, DOMAIN seg = 1 .. n
    PROVE  OneOperation(seg) <=> \A i, j \in 1 .. n : i < j => Fitting(seg, i, j)
<1>1. ASSUME OneOperation(seg), NEW i \in 1 .. n, NEW j \in 1 .. n, i < j PROVE Fitting(seg, i, j)
  <2>1. /\ seg[i].file = seg[j].file
        /\ \A s \in seg[i].line.sessions, t \in seg[j].line.sessions : s[1] = t[1] => s[2] = t[2]
        /\ \A o \in Single(seg[i].line.ops), p \in Single(seg[j].line.ops) : o = p
        /\ seg[i].line.at # Untimed /\ seg[j].line.at # Untimed =>
              /\ seg[i].line.clock = seg[j].line.clock
              /\ Date(seg[i].line.at) = Date(seg[j].line.at)
              /\ (\A k \in i + 1 .. j - 1 : seg[k].line.at = Untimed) =>
                    Distance(seg[i].line.at, seg[j].line.at) <= Epsilon
    BY <1>1, Zenon DEF OneOperation
  <2>2. Suits(seg[i], seg[j])
    BY <2>1, Zenon DEF Suits
  <2>3. (\A k \in i + 1 .. j - 1 : seg[k].line.at = Untimed) => Near(seg[i], seg[j])
    BY <2>1, Zenon DEF Near
  <2>4. QED
    BY <2>2, <2>3, Zenon DEF Fitting
<1>2. ASSUME NEW i \in 1 .. n, NEW j \in 1 .. n, Fitting(seg, i, j)
      PROVE  /\ seg[i].file = seg[j].file
             /\ \A s \in seg[i].line.sessions, t \in seg[j].line.sessions : s[1] = t[1] => s[2] = t[2]
             /\ \A o \in Single(seg[i].line.ops), p \in Single(seg[j].line.ops) : o = p
             /\ seg[i].line.at # Untimed /\ seg[j].line.at # Untimed =>
                   /\ seg[i].line.clock = seg[j].line.clock
                   /\ Date(seg[i].line.at) = Date(seg[j].line.at)
                   /\ (\A k \in i + 1 .. j - 1 : seg[k].line.at = Untimed) =>
                         Distance(seg[i].line.at, seg[j].line.at) <= Epsilon
  BY <1>2, Zenon DEF Fitting, Suits, Near
<1>3. QED
  BY <1>1, <1>2, Zenon DEF OneOperation

\* Whether two records fit does not depend on what comes after them.
LEMMA FittingStays ==
    ASSUME NEW seg, NEW more, NEW i \in Nat, NEW j \in Nat, \A k \in i .. j : seg[k] = more[k], i < j
    PROVE  Fitting(seg, i, j) <=> Fitting(more, i, j)
<1>1. seg[i] = more[i] /\ seg[j] = more[j] /\ \A k \in i + 1 .. j - 1 : seg[k] = more[k]
  OBVIOUS
<1>2. (\A k \in i + 1 .. j - 1 : seg[k].line.at = Untimed) <=> \A k \in i + 1 .. j - 1 : more[k].line.at = Untimed
  BY <1>1
<1>3. QED
  BY <1>1, <1>2 DEF Fitting

\* What a segment being built has seen: every session and the operation named, and
\* the last time.
Shown(cur) ==
    /\ \A k \in DOMAIN cur.recs : cur.recs[k].line.sessions \subseteq cur.sessions
    /\ \A s \in cur.sessions : \E k \in DOMAIN cur.recs : s \in cur.recs[k].line.sessions
    /\ \A k \in DOMAIN cur.recs : Single(cur.recs[k].line.ops) \in {{}, cur.op}
    /\ cur.op # {} => \E k \in DOMAIN cur.recs : Single(cur.recs[k].line.ops) = cur.op
    /\ cur.at = Untimed => \A k \in DOMAIN cur.recs : cur.recs[k].line.at = Untimed
    /\ cur.at # Untimed => \E m \in DOMAIN cur.recs :
          /\ cur.recs[m].line.at = cur.at /\ cur.recs[m].line.clock = cur.clock
          /\ \A k \in DOMAIN cur.recs : k > m => cur.recs[k].line.at = Untimed

\* A record that opens a segment is all it has seen.
LEMMA ShownFirst ==
    ASSUME NEW r \in Rec
    PROVE  /\ Extend(NoSegment, r) \in Building /\ Extend(NoSegment, r).recs = <<r>>
           /\ Shown(Extend(NoSegment, r)) /\ OneOperation(<<r>>)
<1>1. NoSegment \in Building
  BY DEF NoSegment, Building
<1>2. NoSegment.recs = <<>> /\ NoSegment.at = Untimed /\ NoSegment.sessions = {} /\ NoSegment.op = {}
  BY DEF NoSegment
<1> DEFINE cur == Extend(NoSegment, r)
<1>3. /\ cur \in Building /\ cur.recs = Append(<<>>, r)
      /\ cur.at = r.line.at /\ (r.line.at # Untimed => cur.clock = r.line.clock)
      /\ cur.sessions = r.line.sessions /\ cur.op = Single(r.line.ops)
  <2>1. /\ cur \in Building /\ cur.recs = Append(NoSegment.recs, r)
        /\ cur.at = IF r.line.at # Untimed THEN r.line.at ELSE NoSegment.at
        /\ cur.clock = IF r.line.at # Untimed THEN r.line.clock ELSE NoSegment.clock
        /\ cur.sessions = r.line.sessions \cup {s \in NoSegment.sessions : \A t \in r.line.sessions : t[1] # s[1]}
        /\ cur.op = IF Single(r.line.ops) # {} THEN Single(r.line.ops) ELSE NoSegment.op
    BY <1>1, ExtendBuilds
  <2> HIDE DEF cur
  <2>2. QED
    BY <1>2, <2>1
<1>4. Append(<<>>, r) = <<r>> /\ DOMAIN <<r>> = {1} /\ <<r>>[1] = r
  OBVIOUS
<1>5. OneOperation(<<r>>)
  BY <1>4 DEF OneOperation
<1> HIDE DEF cur
<1>6. Shown(cur)
  BY <1>3, <1>4 DEF Shown
<1>7. QED
  BY <1>3, <1>4, <1>5, <1>6 DEF cur

\* Where a segment is not closed, its records and the next are of one operation.
LEMMA ShownNext ==
    ASSUME NEW cur \in Building, NEW r \in Rec, cur.recs # <<>>,
           Shown(cur), OneOperation(cur.recs), ~Closes(cur, r)
    PROVE  Shown(Extend(cur, r)) /\ OneOperation(Append(cur.recs, r))
<1> DEFINE n == Len(cur.recs)
           old == cur.recs
           new == Append(cur.recs, r)
           ext == Extend(cur, r)
<1>1. /\ old \in Seq(Rec) /\ n \in Nat \ {0} /\ DOMAIN old = 1 .. n
      /\ new \in Seq(Rec) /\ DOMAIN new = 1 .. n + 1 /\ new[n + 1] = r /\ \A k \in 1 .. n : new[k] = old[k]
  <2>1. old \in Seq(Rec)
    BY DEF Building
  <2>2. QED
    BY <2>1
<1>2. /\ ext.recs = new
      /\ ext.at = IF r.line.at # Untimed THEN r.line.at ELSE cur.at
      /\ ext.clock = IF r.line.at # Untimed THEN r.line.clock ELSE cur.clock
      /\ ext.sessions = r.line.sessions \cup {s \in cur.sessions : \A t \in r.line.sessions : t[1] # s[1]}
      /\ ext.op = IF Single(r.line.ops) # {} THEN Single(r.line.ops) ELSE cur.op
  BY ExtendBuilds
<1>3. /\ r.file = old[n].file
      /\ \A s \in cur.sessions, t \in r.line.sessions : s[1] = t[1] => s[2] = t[2]
      /\ cur.op # {} => Single(r.line.ops) \in {{}, cur.op}
      /\ r.line.at # Untimed /\ cur.at # Untimed =>
            /\ r.line.clock = cur.clock /\ Date(r.line.at) = Date(cur.at)
            /\ ~(Distance(r.line.at, cur.at) > Epsilon)
  BY DEF Closes
<1>4. /\ cur.sessions \in SUBSET (STRING \X STRING) /\ r.line.sessions \in SUBSET (STRING \X STRING)
      /\ cur.at \in Nat \cup {Untimed}
  BY LineFields DEF Building
<1> HIDE DEF ext, new, old, n
<1>5. ext.sessions = cur.sessions \cup r.line.sessions
  <2>1. \A s \in STRING \X STRING, t \in STRING \X STRING : s[1] = t[1] /\ s[2] = t[2] => s = t
    OBVIOUS
  <2>2. ASSUME NEW s \in cur.sessions, s \notin r.line.sessions, NEW t \in r.line.sessions PROVE t[1] # s[1]
    BY <1>3, <1>4, <2>1, <2>2
  <2>3. QED
    BY <1>2, <2>2
<1>6. Shown(cur) /\ OneOperation(old)
  BY DEF old
<1>7. /\ \A k \in 1 .. n : old[k].line.sessions \subseteq cur.sessions
      /\ \A s \in cur.sessions : \E k \in 1 .. n : s \in old[k].line.sessions
      /\ \A k \in 1 .. n : Single(old[k].line.ops) \in {{}, cur.op}
      /\ cur.op # {} => \E k \in 1 .. n : Single(old[k].line.ops) = cur.op
      /\ cur.at = Untimed => \A k \in 1 .. n : old[k].line.at = Untimed
      /\ cur.at # Untimed => \E m \in 1 .. n :
          /\ old[m].line.at = cur.at /\ old[m].line.clock = cur.clock
          /\ \A k \in 1 .. n : k > m => old[k].line.at = Untimed
  BY <1>1, <1>6 DEF Shown, old
<1>8. Single(r.line.ops) # {} /\ cur.op # {} => Single(r.line.ops) = cur.op
  BY <1>3
<1>9. Shown(ext)
  <2>1. \A k \in 1 .. n + 1 : new[k].line.sessions \subseteq ext.sessions
    BY <1>1, <1>5, <1>7
  <2>2. \A s \in ext.sessions : \E k \in 1 .. n + 1 : s \in new[k].line.sessions
    <3>1. ASSUME NEW s \in cur.sessions PROVE \E k \in 1 .. n + 1 : s \in new[k].line.sessions
      BY <1>1, <1>7
    <3>2. ASSUME NEW s \in r.line.sessions PROVE \E k \in 1 .. n + 1 : s \in new[k].line.sessions
      BY <1>1
    <3>3. QED
      BY <1>5, <3>1, <3>2
  <2>3. \A k \in 1 .. n + 1 : Single(new[k].line.ops) \in {{}, ext.op}
    <3>1. CASE Single(r.line.ops) # {}
      <4>1. ext.op = Single(r.line.ops) /\ cur.op \in {{}, ext.op}
        BY <1>2, <1>8, <3>1
      <4>2. QED
        <5> SUFFICES ASSUME NEW k \in 1 .. n + 1 PROVE Single(new[k].line.ops) \in {{}, ext.op}
          OBVIOUS
        <5>1. CASE k \in 1 .. n
          <6>1. new[k] = old[k] /\ Single(old[k].line.ops) \in {{}, cur.op}
            BY <1>1, <1>7, <5>1
          <6>2. QED
            BY <4>1, <6>1
        <5>2. CASE k = n + 1
          BY <1>1, <4>1, <5>2
        <5>3. QED
          BY <1>1, <5>1, <5>2
    <3>2. CASE Single(r.line.ops) = {}
      <4>1. ext.op = cur.op
        BY <1>2, <3>2
      <4>2. QED
        <5> SUFFICES ASSUME NEW k \in 1 .. n + 1 PROVE Single(new[k].line.ops) \in {{}, ext.op}
          OBVIOUS
        <5>1. CASE k \in 1 .. n
          <6>1. new[k] = old[k] /\ Single(old[k].line.ops) \in {{}, cur.op}
            BY <1>1, <1>7, <5>1
          <6>2. QED
            BY <4>1, <6>1
        <5>2. CASE k = n + 1
          BY <1>1, <3>2, <5>2
        <5>3. QED
          BY <1>1, <5>1, <5>2
    <3>3. QED
      BY <3>1, <3>2
  <2>4. ext.op # {} => \E k \in 1 .. n + 1 : Single(new[k].line.ops) = ext.op
    <3>1. CASE Single(r.line.ops) # {}
      BY <1>1, <1>2, <3>1
    <3>2. CASE Single(r.line.ops) = {}
      BY <1>1, <1>2, <1>7, <3>2
    <3>3. QED
      BY <3>1, <3>2
  <2>5. ext.at = Untimed => \A k \in 1 .. n + 1 : new[k].line.at = Untimed
    BY <1>1, <1>2, <1>7
  <2>6. ext.at # Untimed => \E m \in 1 .. n + 1 :
          /\ new[m].line.at = ext.at /\ new[m].line.clock = ext.clock
          /\ \A k \in 1 .. n + 1 : k > m => new[k].line.at = Untimed
    <3>1. CASE r.line.at # Untimed
      BY <1>1, <1>2, <3>1
    <3>2. CASE r.line.at = Untimed /\ cur.at # Untimed
      BY <1>1, <1>2, <1>7, <3>2
    <3>3. QED
      BY <1>2, <3>1, <3>2
  <2>7. QED
    BY <1>1, <1>2, <2>1, <2>2, <2>3, <2>4, <2>5, <2>6 DEF Shown
<1>10. ASSUME NEW i \in 1 .. n
       PROVE  /\ old[i].file = r.file
              /\ \A s \in old[i].line.sessions, t \in r.line.sessions : s[1] = t[1] => s[2] = t[2]
              /\ \A o \in Single(old[i].line.ops), p \in Single(r.line.ops) : o = p
              /\ old[i].line.at # Untimed /\ r.line.at # Untimed =>
                    /\ old[i].line.clock = r.line.clock /\ Date(old[i].line.at) = Date(r.line.at)
                    /\ (\A k \in i + 1 .. n : old[k].line.at = Untimed) =>
                          Distance(old[i].line.at, r.line.at) <= Epsilon
  <2>1. old[i].file = r.file
    <3>1. i = n \/ (i < n /\ n \in 1 .. n)
      BY <1>1
    <3>2. CASE i < n /\ n \in 1 .. n
      <4>1. Fitting(old, i, n)
        BY <1>1, <1>6, <3>2, OneByPairs
      <4>2. QED
        BY <1>3, <4>1 DEF Fitting, Suits
    <3>3. QED
      BY <1>3, <3>1, <3>2
  <2>2. \A s \in old[i].line.sessions, t \in r.line.sessions : s[1] = t[1] => s[2] = t[2]
    BY <1>3, <1>7
  <2>3. \A o \in Single(old[i].line.ops), p \in Single(r.line.ops) : o = p
    <3>1. Single(old[i].line.ops) \in {{}, cur.op}
      BY <1>7
    <3>2. \A o, p \in Single(r.line.ops) : o = p
      BY LineFields
    <3>3. QED
      BY <1>8, <3>1, <3>2
  <2>4. ASSUME old[i].line.at # Untimed, r.line.at # Untimed
        PROVE  /\ old[i].line.clock = r.line.clock /\ Date(old[i].line.at) = Date(r.line.at)
               /\ (\A k \in i + 1 .. n : old[k].line.at = Untimed) =>
                     Distance(old[i].line.at, r.line.at) <= Epsilon
    <3>1. cur.at # Untimed
      BY <1>7, <2>4
    <3>2. PICK m \in 1 .. n : /\ old[m].line.at = cur.at /\ old[m].line.clock = cur.clock
                              /\ \A k \in 1 .. n : k > m => old[k].line.at = Untimed
      BY <1>7, <3>1
    <3>3. i <= m
      BY <1>1, <2>4, <3>2
    <3>4. old[i].line.clock = cur.clock /\ Date(old[i].line.at) = Date(cur.at)
      <4>1. CASE i = m
        BY <3>2, <4>1
      <4>2. CASE i < m
        <5>1. Fitting(old, i, m)
          BY <1>1, <1>6, <4>2, OneByPairs
        <5>2. QED
          BY <2>4, <3>1, <3>2, <5>1 DEF Fitting, Suits
      <4>3. QED
        BY <1>1, <3>3, <4>1, <4>2
    <3>5. ASSUME \A k \in i + 1 .. n : old[k].line.at = Untimed PROVE i = m
      BY <1>1, <3>1, <3>2, <3>3, <3>5
    <3>6. r.line.clock = cur.clock /\ Date(r.line.at) = Date(cur.at)
          /\ ~(Distance(r.line.at, cur.at) > Epsilon)
      BY <1>3, <2>4, <3>1
    <3>7. r.line.at \in Int /\ cur.at \in Int /\ Epsilon \in Nat
      <4>1. Epsilon \in Nat
        BY CompactionAssumption
      <4>2. QED
        BY <1>4, <4>1, RecordFields DEF Untimed
    <3>8. Distance(cur.at, r.line.at) <= Epsilon
      BY <3>6, <3>7 DEF Distance
    <3>9. QED
      BY <3>2, <3>4, <3>5, <3>6, <3>8
  <2>5. QED
    BY <2>1, <2>2, <2>3, <2>4
<1>11. OneOperation(new)
  <2>1. ASSUME NEW i \in 1 .. n, NEW j \in 1 .. n, i < j PROVE Fitting(new, i, j)
    <3>1. i \in Nat /\ j \in Nat /\ \A k \in i .. j : old[k] = new[k]
      BY <1>1
    <3>2. Fitting(old, i, j)
      BY <1>1, <1>6, <2>1, OneByPairs
    <3>3. QED
      BY <2>1, <3>1, <3>2, FittingStays
  <2>2. ASSUME NEW i \in 1 .. n PROVE Fitting(new, i, n + 1)
    <3>1. new[i] = old[i] /\ new[n + 1] = r /\ (n + 1) - 1 = n /\ \A k \in i + 1 .. n : new[k] = old[k]
      BY <1>1
    <3>2. (\A k \in i + 1 .. (n + 1) - 1 : new[k].line.at = Untimed) => \A k \in i + 1 .. n : old[k].line.at = Untimed
      BY <3>1
    <3>3. Suits(old[i], r) /\ ((\A k \in i + 1 .. n : old[k].line.at = Untimed) => Near(old[i], r))
      BY <1>10 DEF Suits, Near
    <3>4. Suits(new[i], new[n + 1]) /\ ((\A k \in i + 1 .. (n + 1) - 1 : new[k].line.at = Untimed) => Near(new[i], new[n + 1]))
      BY <3>1, <3>2, <3>3, Zenon
    <3>5. QED
      BY <3>4, Zenon DEF Fitting
  <2>3. \A i, j \in 1 .. n + 1 : i < j => Fitting(new, i, j)
    <3> SUFFICES ASSUME NEW i \in 1 .. n + 1, NEW j \in 1 .. n + 1, i < j PROVE Fitting(new, i, j)
      OBVIOUS
    <3>1. i \in 1 .. n /\ (j \in 1 .. n \/ j = n + 1)
      BY <1>1
    <3>2. QED
      BY <2>1, <2>2, <3>1
  <2>4. QED
    BY <1>1, <2>3, OneByPairs
<1>12. QED
  BY <1>9, <1>11 DEF ext, new

\* Where it is closed, the reason is in the records.
LEMMA ClosedParted ==
    ASSUME NEW cur \in Building, NEW r \in Rec, Shown(cur), OneOperation(cur.recs), Closes(cur, r)
    PROVE  cur.recs # <<>> /\ Parted(cur.recs, <<r>>)
<1> DEFINE n == Len(cur.recs)
           old == cur.recs
           new == Append(cur.recs, r)
<1>0. cur.recs # <<>>
  BY DEF Closes
<1>1. /\ old \in Seq(Rec) /\ n \in Nat \ {0} /\ DOMAIN old = 1 .. n
      /\ new \in Seq(Rec) /\ DOMAIN new = 1 .. n + 1 /\ new[n + 1] = r /\ \A k \in 1 .. n : new[k] = old[k]
  <2>1. old \in Seq(Rec)
    BY DEF Building
  <2>2. QED
    BY <1>0, <2>1
<1>2. <<r>>[1] = r
  OBVIOUS
<1>3. SUFFICES ASSUME r.file = old[1].file, r.no - old[n].no <= Gap, OneOperation(new) PROVE FALSE
  BY <1>0, <1>2 DEF Parted
<1>4. /\ r.line.at \in Int /\ cur.at \in Int /\ Epsilon \in Nat /\ Gap \in Nat /\ r.no \in Int
      /\ old[n].no \in Int
  <2>1. cur.at \in Nat \cup {Untimed}
    BY DEF Building
  <2>2. old[n] \in Rec
    BY <1>1
  <2>3. QED
    <3>1. Epsilon \in Nat /\ Gap \in Nat
      BY CompactionAssumption
    <3>2. r.line.at \in Int /\ r.no \in Int /\ old[n].no \in Int
      BY <2>2, RecordFields
    <3>3. QED
      BY <2>1, <3>1, <3>2 DEF Untimed
<1>5. old[n].file = old[1].file
  <2> HIDE DEF n, old, new
  <2>1. n = 1 \/ (1 < n /\ n \in 1 .. n /\ 1 \in 1 .. n)
    BY <1>1
  <2>2. CASE 1 < n /\ n \in 1 .. n /\ 1 \in 1 .. n
    <3>1. Fitting(old, 1, n)
      BY <1>1, <2>2, OneByPairs DEF old
    <3>2. QED
      BY <3>1 DEF Fitting, Suits
  <2>3. QED
    BY <2>1, <2>2
<1>6. \/ \E s \in cur.sessions, t \in r.line.sessions : s[1] = t[1] /\ s[2] # t[2]
      \/ cur.op # {} /\ Single(r.line.ops) \notin {{}, cur.op}
      \/ /\ r.line.at # Untimed /\ cur.at # Untimed
         /\ \/ r.line.clock # cur.clock
            \/ Date(r.line.at) # Date(cur.at)
            \/ Distance(r.line.at, cur.at) > Epsilon
  <2>1. ~(r.no - old[n].no > Gap)
    BY <1>3, <1>4
  <2>2. ~(r.file # old[n].file)
    BY <1>3, <1>5
  <2>3. QED
    BY <2>1, <2>2 DEF Closes
<1> HIDE DEF new, old, n
<1>7. ASSUME NEW i \in 1 .. n
      PROVE  /\ \A s \in old[i].line.sessions, t \in r.line.sessions : s[1] = t[1] => s[2] = t[2]
             /\ \A o \in Single(old[i].line.ops), p \in Single(r.line.ops) : o = p
             /\ old[i].line.at # Untimed /\ r.line.at # Untimed =>
                   /\ old[i].line.clock = r.line.clock /\ Date(old[i].line.at) = Date(r.line.at)
                   /\ (\A k \in i + 1 .. n : old[k].line.at = Untimed) =>
                         Distance(old[i].line.at, r.line.at) <= Epsilon
  <2>1. /\ i \in 1 .. n + 1 /\ n + 1 \in 1 .. n + 1 /\ i < n + 1 /\ (n + 1) - 1 = n
        /\ new[i] = old[i] /\ new[n + 1] = r /\ \A k \in i + 1 .. n : new[k] = old[k]
    BY <1>1
  <2>2. Fitting(new, i, n + 1)
    <3>1. DOMAIN new = 1 .. n + 1 /\ OneOperation(new)
      BY <1>1, <1>3
    <3>2. QED
      BY <2>1, <3>1, OneByPairs
  <2>3. (\A k \in i + 1 .. n : old[k].line.at = Untimed) => \A k \in i + 1 .. (n + 1) - 1 : new[k].line.at = Untimed
    BY <2>1
  <2>4. Suits(old[i], r) /\ ((\A k \in i + 1 .. n : old[k].line.at = Untimed) => Near(old[i], r))
    <3>1. Suits(new[i], new[n + 1]) /\ ((\A k \in i + 1 .. (n + 1) - 1 : new[k].line.at = Untimed) => Near(new[i], new[n + 1]))
      BY <2>2, Zenon DEF Fitting
    <3>2. QED
      BY <2>1, <2>3, <3>1, Zenon
  <2>5. QED
    BY <2>4 DEF Suits, Near
<1>8. CASE \E s \in cur.sessions, t \in r.line.sessions : s[1] = t[1] /\ s[2] # t[2]
  <2>1. \A s \in cur.sessions : \E k \in 1 .. n : s \in old[k].line.sessions
    BY <1>1 DEF Shown, old
  <2>2. QED
    BY <1>7, <1>8, <2>1
<1>9. CASE cur.op # {} /\ Single(r.line.ops) \notin {{}, cur.op}
  <2>1. PICK k \in 1 .. n : Single(old[k].line.ops) = cur.op
    BY <1>1, <1>9 DEF Shown, old
  <2>2. \A o \in cur.op, p \in Single(r.line.ops) : o = p
    BY <1>7, <2>1
  <2>3. PICK o \in cur.op, p \in Single(r.line.ops) : TRUE
    BY <1>9
  <2>4. old[k] \in Rec
    BY <1>1
  <2>5. cur.op = {o} /\ Single(r.line.ops) = {p}
    BY <2>1, <2>3, <2>4, LineFields
  <2>6. QED
    BY <1>9, <2>2, <2>5
<1>10. CASE /\ r.line.at # Untimed /\ cur.at # Untimed
            /\ \/ r.line.clock # cur.clock
               \/ Date(r.line.at) # Date(cur.at)
               \/ Distance(r.line.at, cur.at) > Epsilon
  <2>1. PICK m \in 1 .. n : /\ old[m].line.at = cur.at /\ old[m].line.clock = cur.clock
                            /\ \A k \in 1 .. n : k > m => old[k].line.at = Untimed
    BY <1>1, <1>10 DEF Shown, old
  <2>2. \A k \in m + 1 .. n : old[k].line.at = Untimed
    BY <1>1, <2>1
  <2>3. /\ cur.clock = r.line.clock /\ Date(cur.at) = Date(r.line.at)
        /\ Distance(cur.at, r.line.at) <= Epsilon
    BY <1>7, <1>10, <2>1, <2>2
  <2>4. ~(Distance(r.line.at, cur.at) > Epsilon)
    BY <1>4, <2>3 DEF Distance
  <2>5. QED
    BY <1>10, <2>3, <2>4
<1>11. QED
  BY <1>6, <1>8, <1>9, <1>10

\* Segments that are operations, neither mixed nor cut, and that cover the records.
Cleft(segs, whole) ==
    /\ Joined(segs) = whole
    /\ \A k \in DOMAIN segs : OneOperation(segs[k])
    /\ \A k \in 1 .. Len(segs) - 1 : Parted(segs[k], segs[k + 1])

\* They stay so when a record opens one more segment ...
LEMMA CleftOpened ==
    ASSUME NEW segs \in Seq(Seq(Rec)), NEW whole, NEW r \in Rec, segs # <<>>,
           Cleft(segs, whole), Parted(segs[Len(segs)], <<r>>)
    PROVE  Cleft(Append(segs, <<r>>), whole \o <<r>>)
<1> DEFINE n == Len(segs)
           more == Append(segs, <<r>>)
<1>1. /\ n \in Nat /\ DOMAIN segs = 1 .. n /\ DOMAIN more = 1 .. n + 1 /\ Len(more) = n + 1
      /\ more[n + 1] = <<r>> /\ \A k \in 1 .. n : more[k] = segs[k]
  OBVIOUS
<1>2. <<r>> \in Seq(Rec)
  OBVIOUS
<1>3. Joined(more) = Joined(segs) \o <<r>>
  BY <1>2, JoinedAppended
<1>4. OneOperation(<<r>>) /\ \A k \in 1 .. n : OneOperation(segs[k])
  BY <1>1, ShownFirst DEF Cleft
<1>5. \A k \in 1 .. n - 1 : Parted(segs[k], segs[k + 1])
  BY DEF Cleft
<1>6. Parted(segs[n], <<r>>)
  OBVIOUS
<1> HIDE DEF n, more
<1>7. \A k \in 1 .. n + 1 : OneOperation(more[k])
  <2> SUFFICES ASSUME NEW k \in 1 .. n + 1 PROVE OneOperation(more[k])
    OBVIOUS
  <2>1. k \in 1 .. n \/ k = n + 1
    BY <1>1
  <2>2. QED
    BY <1>1, <1>4, <2>1
<1>8. \A k \in 1 .. n : Parted(more[k], more[k + 1])
  <2> SUFFICES ASSUME NEW k \in 1 .. n PROVE Parted(more[k], more[k + 1])
    OBVIOUS
  <2>1. CASE k = n
    <3>1. more[k] = segs[n] /\ more[k + 1] = <<r>>
      BY <1>1, <2>1
    <3>2. QED
      BY <1>6, <3>1
  <2>2. CASE k # n
    <3>1. k \in 1 .. n - 1 /\ k + 1 \in 1 .. n
      BY <1>1, <2>2
    <3>2. more[k] = segs[k] /\ more[k + 1] = segs[k + 1]
      BY <1>1, <3>1
    <3>3. QED
      BY <1>5, <3>1, <3>2
  <2>3. QED
    BY <2>1, <2>2
<1>9. Joined(segs) = whole
  BY DEF Cleft
<1>10. (n + 1) - 1 = n
  BY <1>1
<1>11. Cleft(more, whole \o <<r>>)
  BY <1>1, <1>3, <1>7, <1>8, <1>9, <1>10 DEF Cleft
<1>12. QED
  BY <1>11 DEF more

\* ... and when it continues the last one.
LEMMA CleftContinued ==
    ASSUME NEW done \in Seq(Seq(Rec)), NEW last \in Seq(Rec), NEW whole, NEW r \in Rec, last # <<>>,
           Cleft(Append(done, last), whole), OneOperation(Append(last, r))
    PROVE  Cleft(Append(done, Append(last, r)), whole \o <<r>>)
<1> DEFINE n == Len(done)
           longer == Append(last, r)
           segs == Append(done, last)
           more == Append(done, longer)
<1>1. longer \in Seq(Rec) /\ longer[1] = last[1]
  OBVIOUS
<1> HIDE DEF longer
<1>2. /\ n \in Nat /\ DOMAIN segs = 1 .. n + 1 /\ DOMAIN more = 1 .. n + 1
      /\ Len(more) = n + 1 /\ Len(segs) = n + 1
      /\ more[n + 1] = longer /\ segs[n + 1] = last /\ \A k \in 1 .. n : more[k] = segs[k]
  BY <1>1
<1>3. Joined(more) = whole \o <<r>>
  <2>1. Joined(more) = Joined(done) \o longer
    BY <1>1, JoinedAppended
  <2>2. Joined(segs) = Joined(done) \o last
    BY JoinedAppended
  <2>3. whole = Joined(segs)
    BY DEF Cleft
  <2>4. Joined(done) \in Seq(Rec)
    BY JoinedIn
  <2>5. \A s \in Seq(Rec) : s \o longer = (s \o last) \o <<r>>
    BY DEF longer
  <2>6. QED
    BY <2>1, <2>2, <2>3, <2>4, <2>5
<1>4. \A k \in 1 .. n + 1 : OneOperation(segs[k])
  BY <1>2 DEF Cleft
<1>5. \A k \in 1 .. n : Parted(segs[k], segs[k + 1])
  <2>1. (n + 1) - 1 = n
    BY <1>2
  <2>2. QED
    BY <1>2, <2>1 DEF Cleft
<1>6. OneOperation(longer)
  BY DEF longer
<1> HIDE DEF n, more, segs
<1>7. \A k \in 1 .. n + 1 : OneOperation(more[k])
  <2> SUFFICES ASSUME NEW k \in 1 .. n + 1 PROVE OneOperation(more[k])
    OBVIOUS
  <2>1. k \in 1 .. n \/ k = n + 1
    BY <1>2
  <2>2. QED
    BY <1>2, <1>4, <1>6, <2>1
<1>8. \A k \in 1 .. n : Parted(more[k], more[k + 1])
  <2> SUFFICES ASSUME NEW k \in 1 .. n PROVE Parted(more[k], more[k + 1])
    OBVIOUS
  <2>1. Parted(segs[k], segs[k + 1]) /\ more[k] = segs[k]
    BY <1>2, <1>5
  <2>2. CASE k = n
    <3>1. more[k + 1] = longer /\ segs[k + 1] = last
      BY <1>2, <2>2
    <3>2. Parted(more[k], last)
      BY <2>1, <3>1
    <3>3. QED
      BY <1>1, <3>1, <3>2 DEF Parted
  <2>3. CASE k # n
    <3>1. more[k + 1] = segs[k + 1]
      BY <1>2, <2>3
    <3>2. QED
      BY <2>1, <3>1
  <2>4. QED
    BY <2>2, <2>3
<1>9. (n + 1) - 1 = n
  BY <1>2
<1>10. Cleft(more, whole \o <<r>>)
  BY <1>2, <1>3, <1>7, <1>8, <1>9 DEF Cleft
<1>11. QED
  BY <1>10 DEF more, longer

\* What holds of a partition after k records.
Divides(acc, recs, k) ==
    /\ acc \in Partial /\ Shown(acc.cur) /\ OneOperation(acc.cur.recs)
    /\ k = 0 => acc = Undivided
    /\ k # 0 => acc.cur.recs # <<>> /\ Cleft(Append(acc.done, acc.cur.recs), SubSeq(recs, 1, k))

\* It goes on holding.
LEMMA DividesNext ==
    ASSUME NEW recs \in Seq(Rec), NEW k \in 1 .. Len(recs), NEW acc, Divides(acc, recs, k - 1)
    PROVE  Divides(Divided(acc, recs[k]), recs, k)
<1> DEFINE r == recs[k]
           new == Divided(acc, r)
           now == SubSeq(recs, 1, k)
           past == SubSeq(recs, 1, k - 1)
<1>1. r \in Rec /\ k \in Nat /\ k # 0 /\ k - 1 \in Nat
  OBVIOUS
<1>2. now = past \o <<r>>
  OBVIOUS
<1>3. acc \in Partial /\ acc.done \in Seq(Seq(Rec)) /\ acc.cur \in Building /\ acc.cur.recs \in Seq(Rec)
  <2>1. acc \in Partial
    BY DEF Divides
  <2>2. acc.done \in Seq(Seq(Rec)) /\ acc.cur \in Building
    BY <2>1 DEF Partial
  <2>3. QED
    BY <2>1, <2>2 DEF Building
<1>4. /\ new \in Partial
      /\ new.done = IF Closes(acc.cur, r) THEN Append(acc.done, acc.cur.recs) ELSE acc.done
      /\ new.cur = Extend(IF Closes(acc.cur, r) THEN NoSegment ELSE acc.cur, r)
  BY <1>1, <1>3, DividedPartial
<1>5. /\ k - 1 = 0 => acc = Undivided
      /\ k - 1 # 0 => acc.cur.recs # <<>> /\ Cleft(Append(acc.done, acc.cur.recs), past)
      /\ Shown(acc.cur) /\ OneOperation(acc.cur.recs)
  BY DEF Divides
<1> HIDE DEF r, new, now, past
<1>6. CASE k - 1 = 0
  <2>1. acc.cur = NoSegment /\ acc.done = <<>>
    BY <1>5, <1>6 DEF Undivided
  <2>2. NoSegment.recs = <<>>
    BY DEF NoSegment
  <2>3. ~Closes(acc.cur, r)
    BY <2>1, <2>2 DEF Closes
  <2>4. new.done = <<>> /\ new.cur = Extend(NoSegment, r)
    BY <1>4, <2>1, <2>3
  <2>5. new.cur.recs = <<r>> /\ Shown(new.cur) /\ OneOperation(<<r>>)
    BY <1>1, <2>4, ShownFirst
  <2>6. past = <<>> /\ now = <<r>>
    <3>1. past = <<>>
      BY <1>6 DEF past
    <3>2. <<>> \o <<r>> = <<r>>
      OBVIOUS
    <3>3. QED
      BY <1>2, <3>1, <3>2
  <2>7. Cleft(<< <<r>> >>, <<r>>)
    <3>1. Joined(<< <<r>> >>) = <<r>>
      <4>1. <<>> \in Seq(Seq(Rec)) /\ <<r>> \in Seq(Rec) /\ Append(<<>>, <<r>>) = << <<r>> >>
        BY <1>1
      <4>2. Joined(<<>>) = <<>>
        <5>1. PICK a \in [0 .. Len(<<>>) -> Seq(Rec)] : a[0] = <<>> /\ a[Len(<<>>)] = Joined(<<>>)
          BY <4>1, JoinedRuns
        <5>2. Len(<<>>) = 0
          OBVIOUS
        <5>3. QED
          BY <5>1, <5>2
      <4>3. Joined(Append(<<>>, <<r>>)) = Joined(<<>>) \o <<r>>
        BY <4>1, JoinedAppended
      <4>4. <<>> \o <<r>> = <<r>>
        OBVIOUS
      <4>5. QED
        BY <4>1, <4>2, <4>3, <4>4
    <3>2. Len(<< <<r>> >>) = 1 /\ DOMAIN << <<r>> >> = {1} /\ << <<r>> >>[1] = <<r>>
      OBVIOUS
    <3>3. QED
      BY <2>5, <3>1, <3>2 DEF Cleft
  <2>8. Append(new.done, new.cur.recs) = << <<r>> >> /\ <<r>> # <<>>
    BY <2>4, <2>5
  <2>9. QED
    BY <1>1, <1>4, <2>5, <2>6, <2>7, <2>8 DEF Divides, new, r, now
<1>7. CASE k - 1 # 0 /\ Closes(acc.cur, r)
  <2> DEFINE segs == Append(acc.done, acc.cur.recs)
  <2>1. /\ segs \in Seq(Seq(Rec)) /\ segs # <<>> /\ segs[Len(segs)] = acc.cur.recs
    BY <1>3
  <2>2. new.done = segs /\ new.cur = Extend(NoSegment, r)
    BY <1>4, <1>7
  <2>3. new.cur.recs = <<r>> /\ Shown(new.cur) /\ OneOperation(<<r>>)
    BY <1>1, <2>2, ShownFirst
  <2>4. Parted(acc.cur.recs, <<r>>)
    BY <1>1, <1>3, <1>5, <1>7, ClosedParted
  <2>5. Cleft(segs, past)
    BY <1>5, <1>7
  <2> HIDE DEF segs
  <2>6. Cleft(Append(segs, <<r>>), now)
    BY <1>1, <1>2, <2>1, <2>4, <2>5, CleftOpened
  <2>7. <<r>> # <<>>
    OBVIOUS
  <2>8. Shown(new.cur) /\ OneOperation(new.cur.recs) /\ new.cur.recs # <<>> /\ Cleft(Append(new.done, new.cur.recs), now)
    BY <2>2, <2>3, <2>6, <2>7, Zenon
  <2>9. QED
    BY <1>1, <1>4, <2>8 DEF Divides, new, r, now
<1>8. CASE k - 1 # 0 /\ ~Closes(acc.cur, r)
  <2>1. new.done = acc.done /\ new.cur = Extend(acc.cur, r) /\ acc.cur.recs # <<>>
    BY <1>4, <1>5, <1>8
  <2>2. new.cur.recs = Append(acc.cur.recs, r)
    BY <1>1, <1>3, <2>1, ExtendBuilds
  <2>3. Shown(new.cur) /\ OneOperation(Append(acc.cur.recs, r))
    BY <1>1, <1>3, <1>5, <1>8, <2>1, ShownNext
  <2>4. Cleft(Append(acc.done, acc.cur.recs), past)
    BY <1>5, <1>8
  <2>5. Cleft(Append(acc.done, Append(acc.cur.recs, r)), now)
    BY <1>1, <1>2, <1>3, <2>1, <2>3, <2>4, CleftContinued
  <2>6. Append(acc.cur.recs, r) # <<>>
    <3>1. \A s \in Seq(Rec) : Append(s, r) # <<>>
      BY <1>1
    <3>2. QED
      BY <1>3, <3>1
  <2>7. QED
    BY <1>1, <1>4, <2>1, <2>2, <2>3, <2>5, <2>6 DEF Divides, new, r, now
<1>9. QED
  BY <1>6, <1>7, <1>8

\* The segments of records are cleft.
LEMMA SegmentsCleft ==
    ASSUME NEW recs \in Seq(Rec)
    PROVE  Cleft(Segments(recs), Sorted(recs, SourceBefore))
<1> DEFINE line == Sorted(recs, SourceBefore)
           run == Partition(line)
           n == Len(line)
<1>1. line \in Seq(Rec) /\ n \in Nat
  <2>1. line \in Seq(Rec)
    BY OrderedRecords
  <2>2. QED
    BY <2>1
<1>2. Segments(recs) = IF run.cur.recs = <<>> THEN run.done ELSE Append(run.done, run.cur.recs)
  BY DEF Segments
<1> HIDE DEF line, run
<1>3. PICK acc \in [0 .. Len(line) -> Partial] :
        /\ acc[0] = Undivided /\ acc[Len(line)] = Partition(line)
        /\ \A k \in 1 .. Len(line) : acc[k] = Divided(acc[k - 1], line[k])
  BY <1>1, PartitionRuns
<1> DEFINE good == {k \in 0 .. n : Divides(acc[k], line, k)}
<1>4. 0 \in good
  <2>1. acc[0] \in Partial /\ 0 \in 0 .. n
    BY <1>1, <1>3
  <2>2. Undivided.cur = NoSegment /\ NoSegment.recs = <<>> /\ NoSegment.at = Untimed
        /\ NoSegment.sessions = {} /\ NoSegment.op = {}
    BY DEF Undivided, NoSegment
  <2>3. DOMAIN <<>> = {}
    OBVIOUS
  <2>4. Shown(NoSegment) /\ OneOperation(NoSegment.recs)
    BY <2>2, <2>3 DEF Shown, OneOperation
  <2>5. QED
    BY <1>3, <2>1, <2>2, <2>4 DEF Divides
<1>5. ASSUME NEW k \in 1 .. n, k - 1 \in good PROVE k \in good
  <2>1. Divides(acc[k - 1], line, k - 1) /\ k \in 0 .. n
    BY <1>1, <1>5
  <2>2. acc[k] = Divided(acc[k - 1], line[k])
    BY <1>3
  <2>3. QED
    BY <1>1, <2>1, <2>2, DividesNext
<1>6. \A k \in 0 .. n : k \in good
  <2> HIDE DEF good
  <2>1. QED
    BY <1>1, <1>4, <1>5, Upwards
<1>7. Divides(run, line, n)
  <2>1. n \in 0 .. n
    BY <1>1
  <2>2. Divides(acc[n], line, n)
    BY <1>6, <2>1
  <2>3. QED
    BY <1>3, <2>2 DEF run
<1>8. CASE n = 0
  <2>1. run.cur.recs = <<>> /\ run.done = <<>>
    BY <1>7, <1>8 DEF Divides, Undivided, NoSegment
  <2>2. line = <<>>
    BY <1>1, <1>8
  <2>3. Joined(<<>>) = <<>>
    <3>1. <<>> \in Seq(Seq(Rec)) /\ Len(<<>>) = 0
      OBVIOUS
    <3>2. PICK a \in [0 .. Len(<<>>) -> Seq(Rec)] : a[0] = <<>> /\ a[Len(<<>>)] = Joined(<<>>)
      BY <3>1, JoinedRuns
    <3>3. QED
      BY <3>1, <3>2
  <2>4. DOMAIN <<>> = {} /\ Len(<<>>) = 0
    OBVIOUS
  <2>5. Cleft(<<>>, <<>>)
    BY <2>3, <2>4 DEF Cleft
  <2>6. QED
    BY <1>2, <2>1, <2>2, <2>5 DEF line
<1>9. CASE n # 0
  <2>1. SubSeq(line, 1, n) = line
    BY <1>1
  <2>2. run.cur.recs # <<>> /\ Cleft(Append(run.done, run.cur.recs), line)
    BY <1>7, <1>9, <2>1 DEF Divides
  <2>3. QED
    BY <1>2, <2>2 DEF line
<1>10. QED
  BY <1>8, <1>9

-----------------------------------------------------------------------------
(* The request.                                                             *)

Summaries == {Summarize(f) : f \in File}

\* What is read and summarised consists of files of the request.
FilesSound ==
    /\ offer \in Seq(File) /\ raw \in Seq(File)
    /\ entries \in Seq(Summaries)

\* What is read is within the total, and what is being read within one file and a
\* byte; nothing is being read before the first file, after the last one, or once
\* the reading is over.
SizesSound ==
    /\ Total(Sizes(raw)) \in Int /\ Total(Sizes(raw)) <= MaxTotalBytes
    /\ data \in Nat /\ data <= MaxFileBytes + 1
    /\ phase \in {"count", "read", "parse", "commit", "export", "done"}
    /\ phase \in {"count", "parse", "commit", "export"} => data = 0
    /\ Len(raw) = Len(offer) => data = 0
    /\ entries # <<>> => data = 0 /\ phase \notin {"count", "read"}

\* The answer is that of all files.
AnswerSound == phase = "commit" => answer = Answer(entries)

BundleInv == FilesSound /\ SizesSound /\ AnswerSound

\* Nothing is read at first.
LEMMA BundleInitInv == BundleInit => BundleInv
<1> SUFFICES ASSUME BundleInit PROVE BundleInv
  OBVIOUS
<1>1. FilesSound
  BY BundleAssumption DEF BundleInit, FilesSound
<1>2. Sizes(raw) = <<>>
  BY DEF BundleInit, Sizes
<1>3. Total(<<>>) = 0
  <2>1. <<>> \in Seq(Int) /\ Len(<<>>) = 0
    OBVIOUS
  <2>2. PICK acc \in [0 .. Len(<<>>) -> Int] : acc[0] = 0 /\ acc[Len(<<>>)] = Total(<<>>)
    BY <2>1, TotalRuns
  <2>3. QED
    BY <2>1, <2>2
<1>4. MaxTotalBytes \in Nat /\ MaxFileBytes \in Nat
  BY BundleAssumption
<1>5. SizesSound
  BY <1>2, <1>3, <1>4 DEF BundleInit, SizesSound
<1>6. AnswerSound
  BY DEF BundleInit, AnswerSound
<1>7. QED
  BY <1>1, <1>5, <1>6 DEF BundleInv

\* Steps that read or summarise nothing and, if they end the request or go on
\* with it, leave it where the bounds still hold.
LEMMA QuietPasses ==
    ASSUME BundleInv, UNCHANGED <<offer, raw, data, entries, answer>>,
           phase' = phase \/ phase' \in {"done", "export"} \/ (phase = "count" /\ phase' = "read")
             \/ (phase' = "parse" /\ Len(raw) = Len(offer)),
           phase' = "export" => phase = "commit"
    PROVE  BundleInv'
<1>1. FilesSound'
  BY DEF BundleInv, FilesSound
<1>2. SizesSound'
  BY DEF BundleInv, SizesSound
<1>3. AnswerSound'
  BY DEF BundleInv, AnswerSound
<1>4. QED
  BY <1>1, <1>2, <1>3 DEF BundleInv

\* The file whose turn it is to be read.
LEMMA CurrentIsFile ==
    ASSUME BundleInv, Reading
    PROVE  Current \in File /\ Current.bytes \in Nat /\ Len(raw) \in Nat /\ Len(raw) # Len(offer)
<1>1. offer \in Seq(File) /\ raw \in Seq(File)
  BY DEF BundleInv, FilesSound
<1>2. Len(raw) < Len(offer)
  BY DEF Reading
<1> HIDE DEF File
<1>3. Len(raw) + 1 \in 1 .. Len(offer) /\ Len(raw) \in Nat /\ Len(raw) # Len(offer)
  BY <1>1, <1>2
<1>4. Current \in File
  BY <1>1, <1>3 DEF Current
<1>5. \A f \in File : f.bytes \in Nat
  BY DEF File
<1>6. QED
  BY <1>3, <1>4, <1>5

\* A chunk takes what is read of a file to its size, or to one byte over the limit.
LEMMA ReadChunkPasses == BundleInv /\ ReadChunk => BundleInv'
<1> SUFFICES ASSUME BundleInv, ReadChunk PROVE BundleInv'
  OBVIOUS
<1>1. Reading /\ data' = Sooner(Sooner(data + Chunk, Current.bytes), MaxFileBytes + 1)
      /\ UNCHANGED <<phase, offer, raw, entries, answer, history, exported, status>>
  BY DEF ReadChunk
<1>2. Current.bytes \in Nat /\ Len(raw) # Len(offer)
  BY <1>1, CurrentIsFile
<1>3. Chunk \in Nat /\ MaxFileBytes \in Nat /\ data \in Nat
  BY BundleAssumption DEF BundleInv, SizesSound
<1>4. data' \in Nat /\ data' <= MaxFileBytes + 1
  BY <1>1, <1>2, <1>3 DEF Sooner
<1>5. phase = "read"
  BY <1>1 DEF Reading
<1>6. FilesSound' /\ AnswerSound'
  BY <1>1, <1>5 DEF BundleInv, FilesSound, AnswerSound
<1>7. SizesSound'
  BY <1>1, <1>2, <1>4, <1>5 DEF BundleInv, SizesSound
<1>8. QED
  BY <1>6, <1>7 DEF BundleInv

\* A file read in full adds its size, and is within the total.
LEMMA HaveReadPasses == BundleInv /\ HaveRead => BundleInv'
<1> SUFFICES ASSUME BundleInv, HaveRead PROVE BundleInv'
  OBVIOUS
<1>1. /\ Reading /\ data = Current.bytes /\ Held <= MaxTotalBytes
      /\ raw' = Append(raw, Current) /\ data' = 0
      /\ UNCHANGED <<phase, offer, entries, answer, history, exported, status>>
  BY DEF HaveRead
<1>2. Current \in File /\ Current.bytes \in Nat
  BY <1>1, CurrentIsFile
<1>3. raw \in Seq(File) /\ offer \in Seq(File) /\ entries \in Seq(Summaries)
  BY DEF BundleInv, FilesSound
<1>4. Total(Sizes(Append(raw, Current))) = Total(Sizes(raw)) + Current.bytes
  BY <1>2, <1>3, SizesAppended
<1>5. Total(Sizes(raw)) \in Int /\ MaxFileBytes \in Nat /\ MaxTotalBytes \in Nat
  BY BundleAssumption DEF BundleInv, SizesSound
<1>6. phase = "read"
  BY <1>1 DEF Reading
<1>7. Append(raw, Current) \in Seq(File)
  <2>1. ASSUME NEW S, NEW s \in Seq(S), NEW e \in S PROVE Append(s, e) \in Seq(S)
    OBVIOUS
  <2>2. QED
    BY <1>2, <1>3, <2>1
<1>8. FilesSound' /\ AnswerSound'
  BY <1>1, <1>3, <1>6, <1>7 DEF FilesSound, AnswerSound
<1>9. SizesSound'
  <2>1. Sizes(raw)' = Sizes(Append(raw, Current))
    BY <1>1 DEF Sizes
  <2>2. Total(Sizes(raw))' = Total(Sizes(raw)) + Current.bytes
    BY <1>1, <1>4
  <2>3. Total(Sizes(raw)) + Current.bytes <= MaxTotalBytes
    BY <1>1 DEF Held
  <2>4. QED
    BY <1>1, <1>2, <1>5, <1>6, <2>2, <2>3 DEF BundleInv, SizesSound
<1>10. QED
  BY <1>8, <1>9 DEF BundleInv

\* A file that is parsed adds its summary.
LEMMA ParseFilePasses == BundleInv /\ ParseFile => BundleInv'
<1> SUFFICES ASSUME BundleInv, ParseFile PROVE BundleInv'
  OBVIOUS
<1> DEFINE f == raw[Len(entries) + 1]
<1>1. /\ phase = "parse" /\ Len(entries) < Len(raw)
      /\ IF f.legible THEN entries' = Append(entries, Summarize(f)) /\ UNCHANGED <<phase, status>>
         ELSE Reply(400) /\ UNCHANGED entries
      /\ UNCHANGED <<offer, raw, data, answer, history, exported>>
  BY DEF ParseFile
<1>2. CASE ~f.legible
  <2>1. phase' = "done" /\ UNCHANGED <<offer, raw, data, entries, answer>>
    BY <1>1, <1>2 DEF Reply
  <2>2. QED
    BY <2>1, QuietPasses
<1>3. CASE f.legible
  <2>1. raw \in Seq(File) /\ entries \in Seq(Summaries)
    BY DEF BundleInv, FilesSound
  <2>2. f \in File
    <3> HIDE DEF File, Summaries
    <3>1. Len(entries) + 1 \in 1 .. Len(raw)
      BY <1>1, <2>1
    <3>2. QED
      BY <2>1, <3>1
  <2>3. Append(entries, Summarize(f)) \in Seq(Summaries)
    <3>1. ASSUME NEW S, NEW s \in Seq(S), NEW e \in S PROVE Append(s, e) \in Seq(S)
      OBVIOUS
    <3>2. Summarize(f) \in Summaries
      BY <2>2 DEF Summaries
    <3> HIDE DEF Summaries, f
    <3>3. QED
      BY <2>1, <3>1, <3>2
  <2> HIDE DEF f
  <2>4. entries' = Append(entries, Summarize(f)) /\ UNCHANGED <<phase, offer, raw, data, answer>>
    BY <1>1, <1>3
  <2>5. FilesSound'
    BY <2>3, <2>4 DEF BundleInv, FilesSound
  <2>6. SizesSound' /\ AnswerSound'
    BY <1>1, <2>4 DEF BundleInv, SizesSound, AnswerSound
  <2>7. QED
    BY <2>5, <2>6 DEF BundleInv
<1>4. QED
  BY <1>2, <1>3

\* The answer is composed from the summaries.
LEMMA ComposePasses == BundleInv /\ Compose => BundleInv'
<1> SUFFICES ASSUME BundleInv, Compose PROVE BundleInv'
  OBVIOUS
<1>1. /\ phase = "parse" /\ phase' = "commit" /\ answer' = Answer(entries)
      /\ UNCHANGED <<offer, raw, data, entries, history, exported, status>>
  BY DEF Compose
<1>2. FilesSound' /\ SizesSound'
  BY <1>1 DEF BundleInv, FilesSound, SizesSound
<1>3. Answer(entries)' = Answer(entries)
  BY <1>1
<1>4. AnswerSound'
  BY <1>1, <1>3 DEF AnswerSound
<1>5. QED
  BY <1>2, <1>4 DEF BundleInv

\* No step breaks the invariant.
LEMMA BundleStepPasses == BundleInv /\ [BundleNext]_bundle => BundleInv'
<1> SUFFICES ASSUME BundleInv, [BundleNext]_bundle PROVE BundleInv'
  OBVIOUS
<1>1. CASE TooMany \/ FileTooLarge \/ ReadFails \/ TotalTooLarge \/ Fails
  <2>1. phase' = "done" /\ UNCHANGED <<offer, raw, data, entries, answer>>
    BY <1>1 DEF TooMany, FileTooLarge, ReadFails, TotalTooLarge, Fails, Reply, Untouched
  <2>2. QED
    BY <2>1, QuietPasses
<1>2. CASE Accept
  <2>1. phase = "count" /\ phase' = "read" /\ UNCHANGED <<offer, raw, data, entries, answer>>
    BY <1>2 DEF Accept
  <2>2. QED
    BY <2>1, QuietPasses
<1>3. CASE ReadChunk
  BY <1>3, ReadChunkPasses
<1>4. CASE HaveRead
  BY <1>4, HaveReadPasses
<1>5. CASE Validate
  <2>1. Len(raw) = Len(offer) /\ phase' \in {"parse", "done"} /\ UNCHANGED <<offer, raw, data, entries, answer>>
    BY <1>5 DEF Validate, Reply, Untouched
  <2>2. QED
    BY <2>1, QuietPasses
<1>6. CASE ParseFile
  BY <1>6, ParseFilePasses
<1>7. CASE Compose
  BY <1>7, ComposePasses
<1>8. CASE Commit
  <2>1. phase = "commit" /\ phase' = "export" /\ UNCHANGED <<offer, raw, data, entries, answer>>
    BY <1>8 DEF Commit
  <2>2. QED
    BY <2>1, QuietPasses
<1>9. CASE Export
  <2>1. phase' = "done" /\ UNCHANGED <<offer, raw, data, entries, answer>>
    BY <1>9 DEF Export, Reply
  <2>2. QED
    BY <2>1, QuietPasses
<1>10. CASE UNCHANGED bundle
  <2>1. phase' = phase /\ UNCHANGED <<offer, raw, data, entries, answer>>
    BY <1>10 DEF bundle
  <2>2. phase' = "export" => AnswerSound'
    BY <2>1 DEF BundleInv, AnswerSound
  <2>3. FilesSound' /\ SizesSound' /\ AnswerSound'
    BY <2>1 DEF BundleInv, FilesSound, SizesSound, AnswerSound
  <2>4. QED
    BY <2>3 DEF BundleInv
<1>11. QED
  BY <1>1, <1>2, <1>3, <1>4, <1>5, <1>6, <1>7, <1>8, <1>9, <1>10 DEF BundleNext

\* The bundle's inductive invariant: what is read and summarised are files of the
\* request, within the sizes allowed, and the answer is that of all of them.
THEOREM BundleInvariant == BundleSpec => []BundleInv
<1>1. BundleInit => BundleInv
  BY BundleInitInv
<1>2. BundleInv /\ [BundleNext]_bundle => BundleInv'
  BY BundleStepPasses
<1>3. QED
  BY <1>1, <1>2, PTL DEF BundleSpec

-----------------------------------------------------------------------------
\* The limits follow from the sizes, and from what compaction and retention return.
LEMMA LimitsFollow == BundleInv => LimitsHold
<1> SUFFICES ASSUME BundleInv PROVE LimitsHold
  OBVIOUS
<1>1. HeldBounded
  <2>1. Total(Sizes(raw)) \in Int /\ data \in Nat /\ MaxTotalBytes \in Nat /\ MaxFileBytes \in Nat
    BY BundleAssumption DEF BundleInv, SizesSound
  <2>2. Total(Sizes(raw)) <= MaxTotalBytes /\ data <= MaxFileBytes + 1 /\ (entries # <<>> => data = 0)
    BY DEF BundleInv, SizesSound
  <2>3. QED
    BY <2>1, <2>2 DEF HeldBounded, Held
<1>2. \A i \in DOMAIN raw : raw[i].text \in Seq(Line)
  <2>1. \A f \in File : f.text \in Seq(Line)
    BY DEF File
  <2>2. raw \in Seq(File)
    BY DEF BundleInv, FilesSound
  <2> HIDE DEF File
  <2>3. QED
    BY <2>1, <2>2
<1>3. CompactionCapped
  BY <1>2, CompactedFits, RetainedFits DEF CompactionCapped
<1>4. SignalsNearWindows
  BY <1>2, SignalsNear DEF SignalsNearWindows
<1>5. QED
  BY <1>1, <1>3, <1>4 DEF LimitsHold

\* What the limits cut off: however sizes are spread, a request never holds more
\* than a file beyond the total; a compacted text and the records retained are
\* never longer than allowed; and no signal is more than two radii from a window unless windows
\* ran out (read_upload_bounded, compact_log_evidence, _retained_source_lines).
THEOREM BundleLimits == BundleSpec => []LimitsHold
BY BundleInvariant, LimitsFollow, PTL

\* The verdict is the one that correlating the summaries gives.
LEMMA VerdictFollows == BundleInv => VerdictFounded
<1> SUFFICES ASSUME BundleInv, phase = "commit" PROVE VerdictFounded
  BY DEF VerdictFounded, CommonMoment, OutsidersChangeNothing
<1>1. answer = Answer(entries)
  BY DEF BundleInv, AnswerSound
<1>2. entries \in Seq(Summaries)
  BY DEF BundleInv, FilesSound
<1>3. \A i \in DOMAIN entries : Timely(entries[i])
  <2>1. \A e \in Summaries : Timely(e)
    BY SummaryTimely DEF Summaries
  <2> HIDE DEF Summaries
  <2>2. QED
    BY <1>2, <2>1
<1> DEFINE related == IF Len(entries) < 2 THEN [confidence |-> "none", sources |-> Names(entries, DOMAIN entries)]
                      ELSE Correlate(entries)
<1>4. answer.confidence = related.confidence /\ answer.sources = related.sources
  BY <1>1 DEF Answer
<1>5. answer.confidence # "none" => related = Correlate(entries)
  BY <1>4
<1> HIDE DEF related
<1>6. CommonMoment
  <2>1. SUFFICES ASSUME answer.confidence = "medium"
        PROVE  \E g \in ResourceGroups(entries) :
                 \E t \in UNION {entries[i].from - Epsilon .. entries[i].to + Epsilon : i \in g} :
                   \A i \in g : /\ entries[i].from - Epsilon <= t /\ t <= entries[i].to + Epsilon
                               /\ \A j \in g : entries[i].clock = entries[j].clock
    BY DEF CommonMoment
  <2>2. Correlate(entries).confidence = "medium"
    BY <1>4, <1>5, <2>1
  <2>3. PICK g \in ResourceGroups(entries) : Compatible(entries, g)
    BY <2>2, MediumHasGroup
  <2>4. g \in SUBSET DOMAIN entries /\ g # {}
    BY <1>2, <2>3, GroupsAreFiles
  <2>5. QED
    BY <1>2, <1>3, <2>3, <2>4, MomentFound
<1>7. OutsidersChangeNothing
  BY <1>2, <1>4, <1>5, VerdictWithout DEF OutsidersChangeNothing
<1>8. QED
  BY <1>6, <1>7 DEF VerdictFounded

\* The verdict on a bundle rests on what the sources it names have in common, and
\* on nothing else: at medium confidence some files that share a resource have a
\* moment in common on one clock, although overlap is tested two files at a time;
\* and without a file that is not named the verdict is the same (correlate_bundle).
THEOREM BundleVerdict == BundleSpec => []VerdictFounded
BY BundleInvariant, VerdictFollows, PTL

-----------------------------------------------------------------------------
(* The course of events.                                                   *)

\* The numbers of the lines that become records.
Recorded(text) ==
    {i \in IF Length(text) > MaxChars THEN Retained(text) ELSE DOMAIN text : text[i].len > 0}

\* A file's records are its retained lines, by their numbers.
LEMMA FileRecords ==
    ASSUME NEW name \in Nat, NEW text \in Seq(Line)
    PROVE  /\ Records(name, text) \in Seq(Rec)
           /\ Recorded(text) \in SUBSET (1 .. Len(text))
           /\ Upward(Recorded(text)) \in [1 .. Cardinality(Recorded(text)) -> Recorded(text)]
           /\ Cardinality(Recorded(text)) \in Nat
           /\ Records(name, text) = [k \in 1 .. Cardinality(Recorded(text)) |->
                 [file |-> name, no |-> Upward(Recorded(text))[k], line |-> text[Upward(Recorded(text))[k]]]]
<1> DEFINE is == Recorded(text)
           m == Cardinality(is)
           nos == Upward(is)
<1>1. DOMAIN text = 1 .. Len(text) /\ Len(text) \in Nat
  OBVIOUS
<1>2. Retained(text) \subseteq DOMAIN text
  <2>1. Retained(text) \in Affordable(text)
    <3>1. PICK acc \in [0 .. Len(Centres(text)) -> Affordable(text)] : acc[Len(Centres(text))] = Retained(text)
      BY CentresLines, RetainedRuns
    <3>2. Len(Centres(text)) \in Nat
      BY CentresLines
    <3>3. QED
      BY <3>1, <3>2
  <2>2. QED
    BY <2>1 DEF Affordable
<1>3. is \in SUBSET (1 .. Len(text))
  BY <1>1, <1>2 DEF Recorded
<1>4. Records(name, text) = [k \in DOMAIN nos |-> [file |-> name, no |-> nos[k], line |-> text[nos[k]]]]
  BY DEF Records, Recorded
<1> HIDE DEF is
<1>5. m \in Nat /\ nos \in [1 .. m -> is]
  BY <1>1, <1>3, UpwardLists
<1> HIDE DEF nos, m
<1>6. \A k \in 1 .. m : nos[k] \in 1 .. Len(text) /\ nos[k] \in Nat /\ text[nos[k]] \in Line
  <2> SUFFICES ASSUME NEW k \in 1 .. m PROVE nos[k] \in 1 .. Len(text) /\ nos[k] \in Nat /\ text[nos[k]] \in Line
    OBVIOUS
  <2>1. nos[k] \in is
    BY <1>5
  <2>2. nos[k] \in 1 .. Len(text)
    BY <1>3, <2>1
  <2>3. QED
    BY <1>1, <2>2
<1>7. DOMAIN nos = 1 .. m
  BY <1>5
<1>8. \A k \in 1 .. m : [file |-> name, no |-> nos[k], line |-> text[nos[k]]] \in Rec
  BY <1>6 DEF Rec
<1>9. Records(name, text) \in Seq(Rec)
  BY <1>4, <1>5, <1>7, <1>8
<1>10. QED
  BY <1>3, <1>4, <1>5, <1>7, <1>9 DEF is, nos, m

\* What is known of a summary.
LEMMA SummaryFields ==
    ASSUME NEW e \in Summaries
    PROVE  e.name \in Nat /\ e.text \in Seq(Line)
<1>1. PICK f \in File : e = Summarize(f)
  BY DEF Summaries
<1>2. e.name = f.name /\ e.text = f.text
  BY <1>1 DEF Summarize
<1>3. f.name \in Nat /\ f.text \in Seq(Line)
  BY DEF File
<1>4. QED
  BY <1>2, <1>3

\* The records of a bundle.
PartsOf(es) == [i \in DOMAIN es |-> Records(es[i].name, es[i].text)]

\* They are joined from those of the files.
LEMMA BundleRecords ==
    ASSUME NEW es \in Seq(Summaries)
    PROVE  /\ PartsOf(es) \in Seq(Seq(Rec)) /\ Len(PartsOf(es)) = Len(es)
           /\ AllRecords(es) = Joined(PartsOf(es)) /\ AllRecords(es) \in Seq(Rec)
<1>1. \A i \in DOMAIN es : Records(es[i].name, es[i].text) \in Seq(Rec)
  <2> SUFFICES ASSUME NEW i \in DOMAIN es PROVE Records(es[i].name, es[i].text) \in Seq(Rec)
    OBVIOUS
  <2>1. es[i].name \in Nat /\ es[i].text \in Seq(Line)
    BY SummaryFields
  <2>2. QED
    BY <2>1, FileRecords
<1>2. PartsOf(es) \in Seq(Seq(Rec)) /\ Len(PartsOf(es)) = Len(es)
  <2>1. ASSUME NEW Y, NEW n \in Nat, NEW f, f = [i \in 1 .. n |-> f[i]], \A i \in 1 .. n : f[i] \in Y
        PROVE  f \in Seq(Y) /\ Len(f) = n
    BY <2>1
  <2>2. /\ DOMAIN es = 1 .. Len(es) /\ Len(es) \in Nat
        /\ PartsOf(es) = [i \in DOMAIN es |-> Records(es[i].name, es[i].text)]
    BY DEF PartsOf
  <2>3. /\ PartsOf(es) = [i \in 1 .. Len(es) |-> PartsOf(es)[i]]
        /\ \A i \in 1 .. Len(es) : PartsOf(es)[i] \in Seq(Rec)
    BY <1>1, <2>2
  <2>4. QED
    BY <2>1, <2>2, <2>3
<1>3. AllRecords(es) = Joined(PartsOf(es))
  BY DEF AllRecords, PartsOf
<1>4. QED
  BY <1>2, <1>3, JoinedIn

\* Shifted clocks, undoubted orders and operations: each is a fact of the operators,
\* of whatever records the files of the bundle have.
LEMMA ChronologyFollows == BundleInv => ChronologySound
<1> SUFFICES ASSUME BundleInv, phase = "commit" PROVE ChronologySound
  BY DEF ChronologySound, OffsetsIrrelevant, UndoubtedIsOrdered, OperationsApart
<1> DEFINE recs == AllRecords(entries)
<1>1. answer.incident = Incident(recs)
  <2>1. answer = Answer(entries)
    BY DEF BundleInv, AnswerSound
  <2>2. Answer(entries).incident = Incident(AllRecords(entries))
    BY Zenon DEF Answer
  <2>3. QED
    BY <2>1, <2>2
<1>2. recs \in Seq(Rec)
  <2>1. entries \in Seq(Summaries)
    BY DEF BundleInv, FilesSound
  <2>2. QED
    BY <2>1, BundleRecords
<1> HIDE DEF recs
<1>3. OffsetsIrrelevant
  <2>1. Epsilon \in Nat \ {0} /\ 3 * Day \in Nat \ {0}
    <3>1. Epsilon \in Nat \ {0} /\ Day \in Nat \ {0}
      BY CompactionAssumption
    <3>2. QED
      BY <3>1
  <2>2. \A clock \in Clocks, by \in {Epsilon, 3 * Day} :
           /\ Story(Incident(Shift(recs, clock, by))) = Story(Incident(recs))
           /\ Incident(Shift(recs, clock, by)).doubt = Incident(recs).doubt
    BY <1>2, <2>1, StoryShifted
  <2>3. QED
    BY <1>1, <2>2 DEF OffsetsIrrelevant, recs
<1>4. UndoubtedIsOrdered
  <2> DEFINE signals == {k \in DOMAIN recs : Strength(recs[k].line) > 0}
             line == Incident(recs).timeline
  <2>1. ASSUME Incident(recs).doubt = "none"
        PROVE  /\ \A k \in signals : Strength(recs[k].line) > 1 =>
                     /\ Incident(recs).first[1].line.at <= recs[k].line.at
                     /\ recs[k].line.at <= Incident(recs).terminal[1].line.at
               /\ \A i, j \in DOMAIN line : i < j => line[i].line.at <= line[j].line.at
               /\ \A i, j \in signals : recs[i].line.clock = recs[j].line.clock
    BY <1>2, <2>1, UndoubtedOrdered
  <2>2. QED
    BY <1>1, <2>1 DEF UndoubtedIsOrdered, recs
<1>5. OperationsApart
  <2>1. Cleft(Segments(recs), Sorted(recs, SourceBefore))
    BY <1>2, SegmentsCleft
  <2>2. QED
    BY <2>1 DEF OperationsApart, Cleft, recs
<1>6. QED
  BY <1>3, <1>4, <1>5 DEF ChronologySound

\* What a bundle's answer reports as a sequence of events is one: shifted clocks do
\* not change it, where it has no doubt it is in order, and its operations are
\* neither mixed nor cut.
THEOREM BundleChronology == BundleSpec => []ChronologySound
BY BundleInvariant, ChronologyFollows, PTL

-----------------------------------------------------------------------------
(* The files picked in another order.                                       *)

\* other has the files of es, in the order f.
Rearranges(f, es, other) ==
    /\ DOMAIN other = DOMAIN es /\ f \in [DOMAIN es -> DOMAIN es]
    /\ \A i \in DOMAIN es : other[i] = es[f[i]]
    /\ \A j \in DOMAIN es : \E i \in DOMAIN es : f[i] = j
    /\ \A i, j \in DOMAIN es : f[i] = f[j] => i = j

\* Where the files of a group are.
Back(f, g) == {i \in DOMAIN f : f[i] \in g}

\* A permutation rearranges the files.
LEMMA PermutedRearranges ==
    ASSUME NEW S, NEW es \in Seq(S), NEW other \in Permuted(es)
    PROVE  /\ other \in Seq(S) /\ Len(other) = Len(es)
           /\ \E f : Rearranges(f, es, other)
<1>1. PICK f \in Bijection(DOMAIN es, DOMAIN es) : other = [i \in DOMAIN es |-> es[f[i]]]
  BY DEF Permuted
<1>2. /\ f \in [DOMAIN es -> DOMAIN es] /\ \A j \in DOMAIN es : \E i \in DOMAIN es : f[i] = j
      /\ \A i, j \in DOMAIN es : f[i] = f[j] => i = j
  BY DEF Bijection, Injection, Surjection, IsInjective
<1>3. Len(es) \in Nat /\ DOMAIN es = 1 .. Len(es)
  OBVIOUS
<1>4. \A i \in DOMAIN es : es[f[i]] \in S
  BY <1>2
<1>5. other \in Seq(S) /\ Len(other) = Len(es)
  BY <1>1, <1>3, <1>4
<1>6. Rearranges(f, es, other)
  BY <1>1, <1>2 DEF Rearranges
<1>7. QED
  BY <1>5, <1>6

\* A group keeps its names, and whether its files overlap, wherever they are put.
LEMMA GroupMoves ==
    ASSUME NEW es, NEW other, NEW f, Rearranges(f, es, other), NEW g \in SUBSET DOMAIN es
    PROVE  /\ Names(other, Back(f, g)) = Names(es, g)
           /\ Compatible(other, Back(f, g)) <=> Compatible(es, g)
<1> DEFINE h == Back(f, g)
<1>1. \A i \in h : i \in DOMAIN es /\ f[i] \in g /\ other[i] = es[f[i]]
  BY DEF Back, Rearranges
<1>2. \A j \in g : \E i \in h : f[i] = j
  BY DEF Back, Rearranges
<1>3. \A i, j \in h : i # j => f[i] # f[j]
  BY DEF Back, Rearranges
<1> HIDE DEF h
<1>4. Names(other, h) = Names(es, g)
  BY <1>1, <1>2 DEF Names
<1>5. Compatible(es, g) => Compatible(other, h)
  BY <1>1, <1>3 DEF Compatible
<1>6. ASSUME Compatible(other, h) PROVE Compatible(es, g)
  <2>1. \A j \in g : \E i \in h : f[i] = j /\ other[i] = es[j]
    BY <1>1, <1>2
  <2>2. \A j \in g : es[j].from # Untimed
    BY <1>6, <2>1 DEF Compatible
  <2>3. ASSUME NEW a \in g, NEW b \in g, a # b
        PROVE  es[a].clock = es[b].clock /\ Overlap(es[a], es[b])
    <3>1. PICK i \in h : f[i] = a /\ other[i] = es[a]
      BY <2>1
    <3>2. PICK j \in h : f[j] = b /\ other[j] = es[b]
      BY <2>1
    <3>3. i # j
      BY <2>3, <3>1, <3>2
    <3>4. other[i].clock = other[j].clock /\ Overlap(other[i], other[j])
      BY <1>6, <3>3 DEF Compatible
    <3>5. QED
      BY <3>1, <3>2, <3>4
  <2>4. QED
    BY <2>2, <2>3 DEF Compatible
<1>7. QED
  BY <1>4, <1>5, <1>6 DEF h

\* The groups of one kind, before and after, are the same files.
Moves(f, es, before, after) ==
    before \subseteq SUBSET DOMAIN es /\ after = {Back(f, g) : g \in before}

\* Those with two names are, too.
LEMMA SharedMoves ==
    ASSUME NEW es, NEW other, NEW f, Rearranges(f, es, other), NEW before, NEW after,
           Moves(f, es, before, after)
    PROVE  /\ Moves(f, es, Shared(es, before), Shared(other, after))
           /\ NamesOf(other, Shared(other, after)) = NamesOf(es, Shared(es, before))
<1>1. \A g \in before : g \in SUBSET DOMAIN es /\ Names(other, Back(f, g)) = Names(es, g)
  BY GroupMoves DEF Moves
<1>2. after = {Back(f, g) : g \in before}
  BY DEF Moves
<1>3. Shared(es, before) \subseteq before
  BY DEF Shared
<1>4. Shared(other, after) = {Back(f, g) : g \in Shared(es, before)}
  BY <1>1, <1>2 DEF Shared
<1>5. NamesOf(other, Shared(other, after)) = NamesOf(es, Shared(es, before))
  BY <1>1, <1>3, <1>4 DEF NamesOf
<1>6. QED
  BY <1>1, <1>3, <1>4, <1>5 DEF Moves

\* The files that name a path.
LEMMA PathsMove ==
    ASSUME NEW es, NEW other, NEW f, Rearranges(f, es, other)
    PROVE  Moves(f, es, PathSets(es), PathSets(other))
<1> DEFINE Old(v) == {j \in DOMAIN es : v \in es[j].resources}
           New(v) == {i \in DOMAIN other : v \in other[i].resources}
           olds == UNION {es[j].resources : j \in DOMAIN es}
           news == UNION {other[i].resources : i \in DOMAIN other}
<1>1. PathSets(es) = {Old(v) : v \in olds} /\ PathSets(other) = {New(v) : v \in news}
  BY DEF PathSets
<1>2. DOMAIN f = DOMAIN es /\ DOMAIN other = DOMAIN es /\ \A i \in DOMAIN es : f[i] \in DOMAIN es /\ other[i] = es[f[i]]
  BY DEF Rearranges
<1>3. \A v : New(v) = Back(f, Old(v))
  BY <1>2 DEF Back
<1>4. \A j \in DOMAIN es : \E i \in DOMAIN es : f[i] = j
  BY DEF Rearranges
<1>5. news = olds
  BY <1>2, <1>4
<1>6. \A v : Old(v) \in SUBSET DOMAIN es
  OBVIOUS
<1> HIDE DEF Old, New, olds, news
<1>7. QED
  BY <1>1, <1>3, <1>5, <1>6 DEF Moves

\* The files that show a signature.
LEMMA SignaturesMove ==
    ASSUME NEW es, NEW other, NEW f, Rearranges(f, es, other)
    PROVE  Moves(f, es, SignatureSets(es), SignatureSets(other))
<1> DEFINE Old(v) == {j \in DOMAIN es : v \in es[j].signatures}
           New(v) == {i \in DOMAIN other : v \in other[i].signatures}
           olds == UNION {es[j].signatures : j \in DOMAIN es}
           news == UNION {other[i].signatures : i \in DOMAIN other}
<1>1. SignatureSets(es) = {Old(v) : v \in olds} /\ SignatureSets(other) = {New(v) : v \in news}
  BY DEF SignatureSets
<1>2. DOMAIN f = DOMAIN es /\ DOMAIN other = DOMAIN es /\ \A i \in DOMAIN es : f[i] \in DOMAIN es /\ other[i] = es[f[i]]
  BY DEF Rearranges
<1>3. \A v : New(v) = Back(f, Old(v))
  BY <1>2 DEF Back
<1>4. \A j \in DOMAIN es : \E i \in DOMAIN es : f[i] = j
  BY DEF Rearranges
<1>5. news = olds
  BY <1>2, <1>4
<1>6. \A v : Old(v) \in SUBSET DOMAIN es
  OBVIOUS
<1> HIDE DEF Old, New, olds, news
<1>7. QED
  BY <1>1, <1>3, <1>5, <1>6 DEF Moves

\* The files that have an identifier.
LEMMA IdsMove ==
    ASSUME NEW es, NEW other, NEW f, Rearranges(f, es, other), NEW keys
    PROVE  Moves(f, es, IdSets(es, keys), IdSets(other, keys))
<1> DEFINE blank == ""
           Old(k, v) == {j \in DOMAIN es : es[j].ids[k] = v}
           New(k, v) == {i \in DOMAIN other : other[i].ids[k] = v}
           olds == (UNION {{es[j].ids[l] : l \in keys} : j \in DOMAIN es}) \ {blank}
           news == (UNION {{other[i].ids[l] : l \in keys} : i \in DOMAIN other}) \ {blank}
<1>1. IdSets(es, keys) = {Old(k, v) : k \in keys, v \in olds}
      /\ IdSets(other, keys) = {New(k, v) : k \in keys, v \in news}
  BY DEF IdSets
<1> HIDE DEF blank
<1>2. DOMAIN f = DOMAIN es /\ DOMAIN other = DOMAIN es /\ \A i \in DOMAIN es : f[i] \in DOMAIN es /\ other[i] = es[f[i]]
  BY DEF Rearranges
<1>3. \A k, v : New(k, v) = Back(f, Old(k, v))
  BY <1>2 DEF Back
<1>4. \A j \in DOMAIN es : \E i \in DOMAIN es : f[i] = j
  BY DEF Rearranges
<1>5. news = olds
  BY <1>2, <1>4
<1>6. \A k, v : Old(k, v) \in SUBSET DOMAIN es
  OBVIOUS
<1> HIDE DEF Old, New, olds, news
<1>7. QED
  BY <1>1, <1>3, <1>5, <1>6 DEF Moves

\* correlate_bundle gives one verdict, however the files are arranged.
LEMMA VerdictMoves ==
    ASSUME NEW es, NEW other, NEW f, Rearranges(f, es, other)
    PROVE  Correlate(other) = Correlate(es) /\ Names(other, DOMAIN other) = Names(es, DOMAIN es)
<1> DEFINE sessionKeys == {"jobsessionid", "jobid"}
           diskKeys == {"vm", "snapshot_id"}
           Sessions(fs) == IdGroups(fs, sessionKeys)
<1>1. \A fs : /\ Sessions(fs) = Shared(fs, IdSets(fs, sessionKeys))
             /\ ResourceGroups(fs) = Shared(fs, PathSets(fs) \cup IdSets(fs, diskKeys))
             /\ SignatureGroups(fs) = Shared(fs, SignatureSets(fs))
  <2> SUFFICES ASSUME NEW fs
               PROVE  /\ Sessions(fs) = Shared(fs, IdSets(fs, sessionKeys))
                      /\ ResourceGroups(fs) = Shared(fs, PathSets(fs) \cup IdSets(fs, diskKeys))
                      /\ SignatureGroups(fs) = Shared(fs, SignatureSets(fs))
    OBVIOUS
  <2>1. Sessions(fs) = Shared(fs, IdSets(fs, sessionKeys)) /\ IdGroups(fs, diskKeys) = Shared(fs, IdSets(fs, diskKeys))
    BY DEF IdGroups, IdSets
  <2>2. PathGroups(fs) = Shared(fs, PathSets(fs))
    BY DEF PathGroups, PathSets
  <2>3. \A a, b : Shared(fs, a) \cup Shared(fs, b) = Shared(fs, a \cup b)
    BY DEF Shared
  <2>4. ResourceGroups(fs) = PathGroups(fs) \cup IdGroups(fs, diskKeys)
    BY DEF ResourceGroups
  <2>5. ResourceGroups(fs) = Shared(fs, PathSets(fs) \cup IdSets(fs, diskKeys))
    BY <2>1, <2>2, <2>3, <2>4
  <2>6. SignatureGroups(fs) = Shared(fs, SignatureSets(fs))
    BY DEF SignatureGroups, SignatureSets
  <2>7. QED
    BY <2>1, <2>5, <2>6
<1>2. \A a, b, c, d : Moves(f, es, a, c) /\ Moves(f, es, b, d) => Moves(f, es, a \cup b, c \cup d)
  BY DEF Moves
<1>3. /\ Moves(f, es, IdSets(es, sessionKeys), IdSets(other, sessionKeys))
      /\ Moves(f, es, PathSets(es) \cup IdSets(es, diskKeys), PathSets(other) \cup IdSets(other, diskKeys))
      /\ Moves(f, es, SignatureSets(es), SignatureSets(other))
  BY <1>2, IdsMove, PathsMove, SignaturesMove
<1> DEFINE Same(old, new) == Moves(f, es, old, new) /\ NamesOf(other, new) = NamesOf(es, old)
<1>4. /\ Same(Sessions(es), Sessions(other)) /\ Same(ResourceGroups(es), ResourceGroups(other))
      /\ Same(SignatureGroups(es), SignatureGroups(other))
  BY <1>1, <1>3, SharedMoves
<1>5. \A old, new : Moves(f, es, old, new) => (old = {} <=> new = {})
  BY DEF Moves
<1>6. (\E g \in ResourceGroups(other) : Compatible(other, g)) <=> \E g \in ResourceGroups(es) : Compatible(es, g)
  <2>1. /\ ResourceGroups(other) = {Back(f, g) : g \in ResourceGroups(es)}
        /\ \A g \in ResourceGroups(es) : g \in SUBSET DOMAIN es
    BY <1>4 DEF Moves
  <2>2. \A g \in ResourceGroups(es) : Compatible(other, Back(f, g)) <=> Compatible(es, g)
    BY <2>1, GroupMoves
  <2>3. QED
    BY <2>1, <2>2
<1>7. Names(other, DOMAIN other) = Names(es, DOMAIN es)
  <2>1. Names(other, Back(f, DOMAIN es)) = Names(es, DOMAIN es)
    BY GroupMoves
  <2>2. Back(f, DOMAIN es) = DOMAIN other
    BY DEF Back, Rearranges
  <2>3. QED
    BY <2>1, <2>2
<1>8. \A fs : Correlate(fs) =
         IF Sessions(fs) # {} THEN [confidence |-> "strong", sources |-> NamesOf(fs, Sessions(fs))]
         ELSE IF ResourceGroups(fs) # {}
         THEN [confidence |-> IF \E g \in ResourceGroups(fs) : Compatible(fs, g) THEN "medium" ELSE "weak",
               sources |-> NamesOf(fs, ResourceGroups(fs))]
         ELSE IF SignatureGroups(fs) # {} THEN [confidence |-> "weak", sources |-> NamesOf(fs, SignatureGroups(fs))]
         ELSE [confidence |-> "none", sources |-> Names(fs, DOMAIN fs)]
  BY DEF Correlate
<1> HIDE DEF Sessions
<1>9. /\ Sessions(es) = {} <=> Sessions(other) = {}
      /\ ResourceGroups(es) = {} <=> ResourceGroups(other) = {}
      /\ SignatureGroups(es) = {} <=> SignatureGroups(other) = {}
  BY <1>4, <1>5
<1>10. Correlate(other) = Correlate(es)
  BY <1>4, <1>6, <1>7, <1>8, <1>9
<1>11. QED
  BY <1>7, <1>10

\* Wherever the files are put, as many have a code.
LEMMA VotesMove ==
    ASSUME NEW S, NEW es \in Seq(S), NEW other, NEW f, Rearranges(f, es, other), NEW code
    PROVE  Votes(other, code) = Votes(es, code) /\ Votes(es, code) \in Nat
           /\ (Votes(es, code) = 0 <=> \A i \in DOMAIN es : es[i].meta.code # code)
<1> DEFINE A == {i \in DOMAIN es : es[i].meta.code = code}
           B == {i \in DOMAIN other : other[i].meta.code = code}
           h == [i \in B |-> f[i]]
<1>1. IsFiniteSet(A) /\ IsFiniteSet(B)
  <2>1. IsFiniteSet(DOMAIN es) /\ DOMAIN other = DOMAIN es
    BY FS_Interval DEF Rearranges
  <2>2. A \in SUBSET DOMAIN es /\ B \in SUBSET DOMAIN es
    BY <2>1
  <2>3. QED
    BY <2>1, <2>2, FS_Subset
<1>2. \A i \in DOMAIN es : i \in B <=> f[i] \in A
  BY DEF Rearranges
<1>3. h \in [B -> A]
  BY <1>2 DEF Rearranges
<1>4. \A j \in A : \E i \in B : h[i] = j
  BY <1>2 DEF Rearranges
<1>5. \A i, j \in B : h[i] = h[j] => i = j
  BY DEF Rearranges
<1>6. Votes(es, code) = Cardinality(A) /\ Votes(other, code) = Cardinality(B)
  BY DEF Votes
<1>7. A = {} <=> \A i \in DOMAIN es : es[i].meta.code # code
  OBVIOUS
<1> HIDE DEF A, B, h
<1>8. h \in Bijection(B, A)
  BY <1>3, <1>4, <1>5 DEF Bijection, Injection, Surjection, IsInjective
<1>9. ExistsBijection(B, A)
  BY <1>8 DEF ExistsBijection
<1>10. Cardinality(A) = Cardinality(B)
  BY <1>1, <1>9, FS_Bijection
<1>11. Cardinality(A) \in Nat /\ (Cardinality(A) = 0 <=> A = {})
  BY <1>1, FS_CardinalityType, FS_EmptySet
<1>12. QED
  BY <1>6, <1>7, <1>10, <1>11

\* Among finitely many votes some are the most, and of those one is the first.
LEMMA TopExists ==
    ASSUME NEW votes \in [ToSet(CodeOrder) -> Nat]
    PROVE  /\ Top(votes) \in ToSet(CodeOrder)
           /\ \A c \in ToSet(CodeOrder) : votes[c] <= votes[Top(votes)]
<1> DEFINE K == DOMAIN CodeOrder
           v == [k \in K |-> votes[CodeOrder[k]]]
           Best(k) == \A j \in K : v[j] <= v[k] /\ (j < k => v[j] < v[k])
<1>1. K = 1 .. Len(CodeOrder) /\ Len(CodeOrder) \in Nat
  BY BundleAssumption
<1>2. ToSet(CodeOrder) = {CodeOrder[k] : k \in K}
  BY DEF ToSet
<1>3. K # {}
  BY <1>2, BundleAssumption
<1>4. IsFiniteSet(K) /\ K \in SUBSET Int
  BY <1>1, FS_Interval
<1>5. v \in [K -> Nat] /\ \A k \in K : v[k] = votes[CodeOrder[k]]
  BY <1>2
<1>6. Top(votes) = CodeOrder[CHOOSE k \in K : Best(k)]
  BY <1>5 DEF Top
<1> HIDE DEF v
<1>7. PICK m \in {v[k] : k \in K} : \A w \in {v[k] : k \in K} : w <= m
  <2> HIDE DEF K
  <2> DEFINE W == {v[k] : k \in K}
  <2>1. IsFiniteSet(W)
    <3>1. DOMAIN v = K /\ IsFiniteSet(K)
      BY <1>4, <1>5
    <3>2. QED
      BY <3>1, ImageFinite, Zenon
  <2>2. W \in SUBSET Int /\ W # {}
    BY <1>3, <1>5
  <2> HIDE DEF W
  <2>3. \E m \in W : \A w \in W : w <= m
    BY <2>1, <2>2, GreatestExists
  <2>4. QED
    BY <2>3 DEF W
<1>8. PICK k \in {j \in K : v[j] = m} : \A j \in {i \in K : v[i] = m} : k <= j
  <2> DEFINE J == {j \in K : v[j] = m}
  <2>1. J # {}
    BY <1>7
  <2>2. J \in SUBSET K
    OBVIOUS
  <2> HIDE DEF K, J
  <2>3. IsFiniteSet(J) /\ J \in SUBSET Int
    BY <1>4, <2>2, FS_Subset
  <2>4. \E k \in J : \A j \in J : k <= j
    BY <2>1, <2>3, LeastExists
  <2>5. QED
    BY <2>4 DEF J
<1>9. Best(k)
  <2> SUFFICES ASSUME NEW j \in K PROVE v[j] <= v[k] /\ (j < k => v[j] < v[k])
    OBVIOUS
  <2>1. v[k] = m /\ v[j] <= m /\ v[j] \in Nat /\ m \in Nat /\ j \in Int /\ k \in Int
    BY <1>4, <1>5, <1>7
  <2>2. j < k => v[j] # m
    BY <1>8, <2>1
  <2>3. QED
    BY <2>1, <2>2
<1> DEFINE first == CHOOSE i \in K : Best(i)
<1>10. first \in K /\ Best(first)
  BY <1>9
<1>11. Top(votes) = CodeOrder[first]
  BY <1>6
<1> HIDE DEF first, K
<1>12. \A c \in ToSet(CodeOrder) : \E j \in K : c = CodeOrder[j]
  BY <1>2
<1>13. Top(votes) \in ToSet(CodeOrder) /\ \A c \in ToSet(CodeOrder) : votes[c] <= votes[Top(votes)]
  BY <1>2, <1>5, <1>10, <1>11, <1>12
<1>14. QED
  BY <1>13

\* The code of a text is one of the order, or none.
LEMMA CodeKnown ==
    ASSUME NEW text, NEW shape, NEW html
    PROVE  Parse(text, shape, html).code = "" \/ Parse(text, shape, html).code \in ToSet(CodeOrder)
<1> DEFINE known == ToSet(CodeOrder)
           blank == ""
<1>1. {Chain, CbtDelete, FileMissing, SessionFailed} = known
  BY BundleAssumption
<1>2. \A marks, family : Resolve(marks, family) \in {blank, Chain, CbtDelete, FileMissing, SessionFailed}
  BY DEF Resolve
<1>3. \A family, event : Plain(family, event).code = blank
  BY DEF Plain
<1>4. \A family : Vendor(text, family).code = Resolve(MarksOf(text), family)
  BY DEF Vendor
<1> HIDE DEF known, blank
<1>5. \A family : Vendor(text, family).code = blank \/ Vendor(text, family).code \in known
  BY <1>1, <1>2, <1>4
<1>6. \/ \E family, event : Parse(text, shape, html) = Plain(family, event)
      \/ \E family : Parse(text, shape, html) = Vendor(text, family)
  BY DEF Parse, ParseJson, ParseFortinet, ParseCisco, ParseSyslog, ParseWindows, Unknown
<1>7. QED
  BY <1>3, <1>5, <1>6 DEF blank, known

\* The first file with the code most files have, has it.
LEMMA Elected ==
    ASSUME NEW S, NEW es \in Seq(S), NEW votes \in [ToSet(CodeOrder) -> Nat],
           votes = [c \in ToSet(CodeOrder) |-> Votes(es, c)]
    PROVE  /\ (\A c \in ToSet(CodeOrder) : votes[c] = 0) => Elect(es) = 1
           /\ (\E c \in ToSet(CodeOrder) : votes[c] # 0) => es[Elect(es)].meta.code = Top(votes)
<1> DEFINE top == Top(votes)
           Leads(i) == es[i].meta.code = top
           First(i) == Leads(i) /\ \A j \in 1 .. i - 1 : ~Leads(j)
<1>1. DOMAIN votes = ToSet(CodeOrder)
  OBVIOUS
<1>2. Elect(es) = IF \A c \in DOMAIN votes : votes[c] = 0 THEN 1 ELSE CHOOSE i \in DOMAIN es : First(i)
  BY DEF Elect
<1>3. ASSUME NEW c \in ToSet(CodeOrder), votes[c] # 0 PROVE \E i \in DOMAIN es : First(i)
  <2>1. top \in ToSet(CodeOrder) /\ votes[top] # 0
    <3>1. top \in ToSet(CodeOrder) /\ votes[c] <= votes[top]
      BY TopExists
    <3> HIDE DEF top
    <3>2. votes[c] \in Nat /\ votes[top] \in Nat
      BY <3>1
    <3>3. QED
      BY <1>3, <3>1, <3>2
  <2>2. Votes(es, top) # 0
    BY <2>1
  <2> DEFINE A == {i \in DOMAIN es : Leads(i)}
  <2>3. A # {}
    <3>1. Votes(es, top) = Cardinality(A)
      BY DEF Votes
    <3> HIDE DEF A
    <3>2. QED
      BY <2>2, <3>1, FS_EmptySet
  <2>4. IsFiniteSet(A) /\ A \in SUBSET Int
    <3>1. IsFiniteSet(DOMAIN es) /\ DOMAIN es = 1 .. Len(es) /\ Len(es) \in Nat
      BY FS_Interval
    <3>2. A \in SUBSET DOMAIN es
      OBVIOUS
    <3> HIDE DEF A
    <3>3. QED
      BY <3>1, <3>2, FS_Subset
  <2>5. PICK i \in A : \A j \in A : i <= j
    <3> HIDE DEF A
    <3>1. QED
      BY <2>3, <2>4, LeastExists
  <2> HIDE DEF Leads
  <2>6. i \in 1 .. Len(es) /\ Len(es) \in Nat
    OBVIOUS
  <2>7. \A j \in 1 .. i - 1 : j \in DOMAIN es /\ ~(i <= j)
    BY <2>6
  <2>8. First(i)
    BY <2>5, <2>7
  <2>9. QED
    BY <2>8
<1> HIDE DEF First
<1>4. ASSUME NEW c \in ToSet(CodeOrder), votes[c] # 0 PROVE es[Elect(es)].meta.code = top
  <2>1. Elect(es) = CHOOSE i \in DOMAIN es : First(i)
    BY <1>1, <1>2, <1>4
  <2>2. First(Elect(es))
    BY <1>3, <1>4, <2>1
  <2>3. QED
    BY <2>2 DEF First
<1>5. QED
  BY <1>1, <1>2, <1>4

\* The diagnosis is the same, wherever the files are put.
LEMMA DiagnosisMoves ==
    ASSUME NEW es \in Seq(Summaries), NEW other \in Seq(Summaries), NEW f, Rearranges(f, es, other)
    PROVE  other[Elect(other)].meta.code = es[Elect(es)].meta.code
<1> DEFINE codes == ToSet(CodeOrder)
           blank == ""
           votes == [c \in codes |-> Votes(es, c)]
<1>1. \A c \in codes : Votes(other, c) = Votes(es, c) /\ Votes(es, c) \in Nat
                       /\ (Votes(es, c) = 0 <=> \A i \in DOMAIN es : es[i].meta.code # c)
  BY VotesMove
<1>2. votes \in [codes -> Nat] /\ votes = [c \in codes |-> Votes(es, c)] /\ votes = [c \in codes |-> Votes(other, c)]
      /\ \A c \in codes : votes[c] = Votes(es, c)
  BY <1>1
<1> HIDE DEF votes
<1>3. /\ (\A c \in codes : votes[c] = 0) => Elect(es) = 1 /\ Elect(other) = 1
      /\ (\E c \in codes : votes[c] # 0) => es[Elect(es)].meta.code = Top(votes) /\ other[Elect(other)].meta.code = Top(votes)
  <2>1. /\ (\A c \in codes : votes[c] = 0) => Elect(es) = 1
        /\ (\E c \in codes : votes[c] # 0) => es[Elect(es)].meta.code = Top(votes)
    BY <1>2, Elected
  <2>2. /\ (\A c \in codes : votes[c] = 0) => Elect(other) = 1
        /\ (\E c \in codes : votes[c] # 0) => other[Elect(other)].meta.code = Top(votes)
    BY <1>2, Elected
  <2>3. QED
    BY <2>1, <2>2
<1>4. CASE \E c \in codes : votes[c] # 0
  BY <1>3, <1>4
<1>5. CASE \A c \in codes : votes[c] = 0
  <2>1. \A i \in DOMAIN es, c \in codes : es[i].meta.code # c
    BY <1>1, <1>2, <1>5
  <2>2. \A e \in Summaries : e.meta.code = blank \/ e.meta.code \in codes
    <3> SUFFICES ASSUME NEW e \in Summaries PROVE e.meta.code = blank \/ e.meta.code \in codes
      OBVIOUS
    <3>1. PICK g \in File : e = Summarize(g)
      BY DEF Summaries
    <3>2. e.meta = Parse(Keep(g.text, Compacted(g.text)), IF Length(g.text) > MaxChars THEN "" ELSE g.shape, g.html)
      BY <3>1 DEF Summarize
    <3>3. QED
      BY <3>2, CodeKnown
  <2> HIDE DEF codes, blank
  <2>3. \A i \in DOMAIN es : es[i].meta.code = blank
    <3>1. \A i \in DOMAIN es : es[i] \in Summaries
      OBVIOUS
    <3>2. QED
      BY <2>1, <2>2, <3>1
  <2>4. DOMAIN other = DOMAIN es /\ \A i \in DOMAIN es : other[i].meta.code = blank
    BY <2>3 DEF Rearranges
  <2>5. CASE 1 \in DOMAIN es
    BY <1>3, <1>5, <2>3, <2>4, <2>5 DEF codes
  <2>6. CASE 1 \notin DOMAIN es
    <3>1. Len(es) = 0 /\ Len(other) = 0
      BY <2>4, <2>6
    <3>2. es = other
      BY <3>1
    <3>3. QED
      BY <3>2
  <2>7. QED
    BY <2>5, <2>6
<1>6. QED
  BY <1>4, <1>5

-----------------------------------------------------------------------------
(* Records from the same places, in another order.                          *)

\* No two records are of one place.
Apart(recs) ==
    \A i, j \in DOMAIN recs : recs[i].file = recs[j].file /\ recs[i].no = recs[j].no => i = j

\* Both have the same records, each once.
SameRecords(a, b) == Apart(a) /\ Apart(b) /\ ToSet(a) = ToSet(b)

\* Of two lists of the same elements in one strict order, each begins with the
\* other: where they differed first, the element of one would come later in the
\* other, and the other way round.
LEMMA PrefixListed ==
    ASSUME NEW X, NEW s \in Seq(X), NEW t \in Seq(X), ToSet(s) = ToSet(t), NEW R,
           \A x, y : <<x, y>> \in R => <<y, x>> \notin R,
           \A i, j \in DOMAIN s : i < j => <<s[i], s[j]>> \in R,
           \A i, j \in DOMAIN t : i < j => <<t[i], t[j]>> \in R
    PROVE  \A i \in DOMAIN s : i \in DOMAIN t /\ s[i] = t[i]
<1> DEFINE n == Len(s)
           m == Len(t)
           bad == {i \in 1 .. n : ~(i \in 1 .. m /\ s[i] = t[i])}
<1>1. n \in Nat /\ m \in Nat /\ DOMAIN s = 1 .. n /\ DOMAIN t = 1 .. m
  OBVIOUS
<1> HIDE DEF n, m
<1>2. \A i \in 1 .. n : \E j \in 1 .. m : s[i] = t[j]
  <2> SUFFICES ASSUME NEW i \in 1 .. n PROVE \E j \in 1 .. m : s[i] = t[j]
    OBVIOUS
  <2>1. s[i] \in ToSet(s)
    BY <1>1 DEF ToSet
  <2>2. s[i] \in ToSet(t)
    BY <2>1
  <2>3. PICK j \in DOMAIN t : s[i] = t[j]
    BY <2>2 DEF ToSet
  <2>4. QED
    BY <1>1, <2>3
<1>3. \A j \in 1 .. m : \E i \in 1 .. n : s[i] = t[j]
  <2> SUFFICES ASSUME NEW j \in 1 .. m PROVE \E i \in 1 .. n : s[i] = t[j]
    OBVIOUS
  <2>1. t[j] \in ToSet(t)
    BY <1>1 DEF ToSet
  <2>2. t[j] \in ToSet(s)
    BY <2>1
  <2>3. PICK i \in DOMAIN s : t[j] = s[i]
    BY <2>2 DEF ToSet
  <2>4. QED
    BY <1>1, <2>3
<1>4. SUFFICES ASSUME bad # {} PROVE FALSE
  BY <1>1
<1>5. IsFiniteSet(bad) /\ bad \in SUBSET Int
  <2>1. IsFiniteSet(1 .. n) /\ bad \in SUBSET (1 .. n) /\ \A i \in 1 .. n : i \in Int
    BY <1>1, FS_Interval
  <2> HIDE DEF bad
  <2>2. IsFiniteSet(bad)
    BY <2>1, FS_Subset
  <2>3. QED
    BY <2>1, <2>2
<1>6. PICK k \in bad : \A i \in bad : k <= i
  <2> HIDE DEF bad
  <2>1. QED
    BY <1>4, <1>5, LeastExists
<1>7. k \in 1 .. n /\ k \in Int /\ ~(k \in 1 .. m /\ s[k] = t[k])
  OBVIOUS
<1>8. \A i \in 1 .. n : i < k => i \in 1 .. m /\ s[i] = t[i]
  <2> SUFFICES ASSUME NEW i \in 1 .. n, i < k PROVE i \in 1 .. m /\ s[i] = t[i]
    OBVIOUS
  <2>1. ~(k <= i)
    BY <1>7
  <2>2. QED
    BY <1>6, <2>1
<1>9. PICK j \in 1 .. m : s[k] = t[j]
  BY <1>2, <1>7
<1>10. ~(j < k)
  <2>1. SUFFICES ASSUME j < k PROVE FALSE
    OBVIOUS
  <2>2. j \in 1 .. n
    BY <1>1, <1>7, <2>1
  <2>3. s[j] = t[j] /\ <<s[j], s[k]>> \in R
    BY <1>1, <1>7, <1>8, <2>1, <2>2
  <2>4. QED
    BY <1>9, <2>3
<1>11. k \in 1 .. m /\ k < j
  <2>1. k <= j /\ k >= 1 /\ j <= m
    BY <1>1, <1>7, <1>10
  <2>2. k \in 1 .. m
    BY <1>1, <1>7, <2>1
  <2>3. k # j
    BY <1>7, <1>9, <2>2
  <2>4. QED
    BY <1>1, <1>7, <2>1, <2>2, <2>3
<1>12. PICK i \in 1 .. n : s[i] = t[k]
  BY <1>3, <1>11
<1>13. i # k
  BY <1>7, <1>11, <1>12
<1>14. ~(i < k)
  <2>1. SUFFICES ASSUME i < k PROVE FALSE
    OBVIOUS
  <2>2. i \in 1 .. m /\ s[i] = t[i]
    BY <1>8, <2>1
  <2>3. <<t[i], t[k]>> \in R
    BY <1>1, <1>11, <2>1, <2>2
  <2>4. QED
    BY <1>12, <2>2, <2>3
<1>15. k < i
  BY <1>1, <1>7, <1>13, <1>14
<1>16. <<s[k], s[i]>> \in R /\ <<t[k], t[j]>> \in R
  BY <1>1, <1>7, <1>11, <1>15
<1>17. QED
  BY <1>9, <1>12, <1>16

\* So they are the same list.
LEMMA ListedOnce ==
    ASSUME NEW X, NEW s \in Seq(X), NEW t \in Seq(X), ToSet(s) = ToSet(t), NEW R,
           \A x, y : <<x, y>> \in R => <<y, x>> \notin R,
           \A i, j \in DOMAIN s : i < j => <<s[i], s[j]>> \in R,
           \A i, j \in DOMAIN t : i < j => <<t[i], t[j]>> \in R
    PROVE  s = t
<1>1. \A i \in DOMAIN s : i \in DOMAIN t /\ s[i] = t[i]
  BY PrefixListed
<1>2. \A i \in DOMAIN t : i \in DOMAIN s
  BY PrefixListed
<1>3. DOMAIN s = DOMAIN t
  BY <1>1, <1>2
<1>4. QED
  BY <1>1, <1>3

\* The records of which the first comes before the second.
SourceOrder == {p \in Rec \X Rec : SourceBefore(p[1], p[2])}
TimeOrder == {p \in Rec \X Rec : TimeBefore(p[1], p[2])}

\* Neither order goes both ways, and each orders any two records of other places.
LEMMA OrdersStrict ==
    ASSUME NEW a \in Rec, NEW b \in Rec
    PROVE  /\ ~(SourceBefore(a, b) /\ SourceBefore(b, a)) /\ ~(TimeBefore(a, b) /\ TimeBefore(b, a))
           /\ a.file # b.file \/ a.no # b.no =>
                 /\ SourceBefore(a, b) \/ SourceBefore(b, a)
                 /\ TimeBefore(a, b) \/ TimeBefore(b, a)
<1>1. PICK i \in Nat, j \in Nat, k \in Nat, l \in Nat : i = a.file /\ j = a.no /\ k = b.file /\ l = b.no
  BY RecordFields
<1>2. PICK s \in Int, t \in Int : s = a.line.at /\ t = b.line.at
  BY RecordFields
<1>3. SourceBefore(a, b) <=> (i < k \/ (i = k /\ j < l))
  BY <1>1 DEF SourceBefore
<1>4. SourceBefore(b, a) <=> (k < i \/ (k = i /\ l < j))
  BY <1>1 DEF SourceBefore
<1>5. TimeBefore(a, b) <=> ((s # Untimed /\ (t = Untimed \/ s < t)) \/ (s = t /\ SourceBefore(a, b)))
  BY <1>2 DEF TimeBefore
<1>6. TimeBefore(b, a) <=> ((t # Untimed /\ (s = Untimed \/ t < s)) \/ (t = s /\ SourceBefore(b, a)))
  BY <1>2 DEF TimeBefore
<1>7. (a.file # b.file \/ a.no # b.no) <=> (i # k \/ j # l)
  BY <1>1
<1>8. QED
  BY <1>3, <1>4, <1>5, <1>6, <1>7

\* What is arranged has the records that it arranges, in strict order.
LEMMA ArrangedApart ==
    ASSUME NEW recs \in Seq(Rec), Apart(recs), NEW R, Orders(R, DOMAIN recs), NEW B,
           \A i, j \in DOMAIN recs : <<i, j>> \in R /\ i # j =>
               <<recs[i], recs[j]>> \in B \/ <<recs[j], recs[i]>> \notin B,
           \A i, j \in DOMAIN recs : i # j => <<recs[i], recs[j]>> \in B \/ <<recs[j], recs[i]>> \in B
    PROVE  /\ Texts(recs, Arranged(DOMAIN recs, R)) \in Seq(Rec)
           /\ ToSet(Texts(recs, Arranged(DOMAIN recs, R))) = ToSet(recs)
           /\ \A i, j \in DOMAIN Texts(recs, Arranged(DOMAIN recs, R)) :
                 i < j => <<Texts(recs, Arranged(DOMAIN recs, R))[i], Texts(recs, Arranged(DOMAIN recs, R))[j]>> \in B
<1> DEFINE n == Len(recs)
           arr == Arranged(DOMAIN recs, R)
           s == Texts(recs, arr)
<1>1. arr \in [1 .. n -> DOMAIN recs] /\ Lists(arr, DOMAIN recs, R) /\ Cardinality(DOMAIN recs) = n
  BY SortedRecords
<1>2. /\ \A x \in DOMAIN recs : \E i \in 1 .. n : arr[i] = x
      /\ \A i, j \in 1 .. n : i < j => <<arr[i], arr[j]>> \in R
  BY <1>1 DEF Lists
<1>3. n \in Nat
  OBVIOUS
<1> HIDE DEF arr, n
<1>4. s \in Seq(Rec) /\ DOMAIN s = 1 .. n /\ \A i \in 1 .. n : s[i] = recs[arr[i]]
  BY <1>1, <1>3, PickedTexts
<1> HIDE DEF s
<1>5. ToSet(s) = ToSet(recs)
  <2>1. \A i \in 1 .. n : s[i] \in ToSet(recs)
    BY <1>1, <1>4 DEF ToSet
  <2>2. \A x \in DOMAIN recs : \E i \in DOMAIN s : recs[x] = s[i]
    BY <1>2, <1>4
  <2>3. ToSet(s) \subseteq ToSet(recs)
    BY <1>4, <2>1 DEF ToSet
  <2>4. ToSet(recs) \subseteq ToSet(s)
    BY <2>2 DEF ToSet
  <2>5. QED
    BY <2>3, <2>4
<1>6. ASSUME NEW i \in 1 .. n, NEW j \in 1 .. n, i < j PROVE <<s[i], s[j]>> \in B
  <2>1. arr[i] \in DOMAIN recs /\ arr[j] \in DOMAIN recs /\ <<arr[i], arr[j]>> \in R
    BY <1>1, <1>2, <1>6
  <2>2. arr[i] # arr[j]
    BY <2>1 DEF Orders
  <2>3. <<recs[arr[i]], recs[arr[j]]>> \in B
    BY <2>1, <2>2
  <2>4. QED
    BY <1>4, <2>3
<1>7. QED
  BY <1>4, <1>5, <1>6 DEF s, arr

\* Records of different places have one order by place, and one by time.
LEMMA SortedApart ==
    ASSUME NEW recs \in Seq(Rec), Apart(recs)
    PROVE  /\ Sorted(recs, SourceBefore) \in Seq(Rec) /\ ToSet(Sorted(recs, SourceBefore)) = ToSet(recs)
           /\ \A i, j \in DOMAIN Sorted(recs, SourceBefore) :
                 i < j => <<Sorted(recs, SourceBefore)[i], Sorted(recs, SourceBefore)[j]>> \in SourceOrder
           /\ Sorted(recs, TimeBefore) \in Seq(Rec) /\ ToSet(Sorted(recs, TimeBefore)) = ToSet(recs)
           /\ \A i, j \in DOMAIN Sorted(recs, TimeBefore) :
                 i < j => <<Sorted(recs, TimeBefore)[i], Sorted(recs, TimeBefore)[j]>> \in TimeOrder
<1> DEFINE Q == Stably(recs, SourceBefore)
           T == Stably(recs, TimeBefore)
<1>1. Orders(Q, DOMAIN recs) /\ Orders(T, DOMAIN recs)
  BY StablySource, StablyTime
<1>2. Sorted(recs, SourceBefore) = Texts(recs, Arranged(DOMAIN recs, Q))
      /\ Sorted(recs, TimeBefore) = Texts(recs, Arranged(DOMAIN recs, T))
  BY DEF Sorted
<1>3. \A i, j \in DOMAIN recs :
         /\ <<i, j>> \in Q => SourceBefore(recs[i], recs[j]) \/ ~SourceBefore(recs[j], recs[i])
         /\ <<i, j>> \in T => TimeBefore(recs[i], recs[j]) \/ ~TimeBefore(recs[j], recs[i])
  BY DEF Stably
<1> HIDE DEF Q, T
<1>4. \A i \in DOMAIN recs : recs[i] \in Rec
  OBVIOUS
<1>5. \A a, b \in Rec : (<<a, b>> \in SourceOrder <=> SourceBefore(a, b)) /\ (<<a, b>> \in TimeOrder <=> TimeBefore(a, b))
  BY DEF SourceOrder, TimeOrder
<1>6. \A i, j \in DOMAIN recs : i # j =>
         /\ SourceBefore(recs[i], recs[j]) \/ SourceBefore(recs[j], recs[i])
         /\ TimeBefore(recs[i], recs[j]) \/ TimeBefore(recs[j], recs[i])
  <2> SUFFICES ASSUME NEW i \in DOMAIN recs, NEW j \in DOMAIN recs, i # j
               PROVE  /\ SourceBefore(recs[i], recs[j]) \/ SourceBefore(recs[j], recs[i])
                      /\ TimeBefore(recs[i], recs[j]) \/ TimeBefore(recs[j], recs[i])
    OBVIOUS
  <2>1. recs[i].file # recs[j].file \/ recs[i].no # recs[j].no
    BY DEF Apart
  <2>2. recs[i] \in Rec /\ recs[j] \in Rec
    BY <1>4
  <2>3. QED
    BY <2>1, <2>2, OrdersStrict
<1>7. /\ Texts(recs, Arranged(DOMAIN recs, Q)) \in Seq(Rec)
      /\ ToSet(Texts(recs, Arranged(DOMAIN recs, Q))) = ToSet(recs)
      /\ \A i, j \in DOMAIN Texts(recs, Arranged(DOMAIN recs, Q)) :
            i < j => <<Texts(recs, Arranged(DOMAIN recs, Q))[i], Texts(recs, Arranged(DOMAIN recs, Q))[j]>> \in SourceOrder
  <2>1. \A i, j \in DOMAIN recs :
           <<i, j>> \in Q /\ i # j => <<recs[i], recs[j]>> \in SourceOrder \/ <<recs[j], recs[i]>> \notin SourceOrder
    BY <1>3, <1>4, <1>5
  <2>2. \A i, j \in DOMAIN recs : i # j => <<recs[i], recs[j]>> \in SourceOrder \/ <<recs[j], recs[i]>> \in SourceOrder
    BY <1>4, <1>5, <1>6
  <2>3. QED
    BY <1>1, <2>1, <2>2, ArrangedApart
<1>8. /\ Texts(recs, Arranged(DOMAIN recs, T)) \in Seq(Rec)
      /\ ToSet(Texts(recs, Arranged(DOMAIN recs, T))) = ToSet(recs)
      /\ \A i, j \in DOMAIN Texts(recs, Arranged(DOMAIN recs, T)) :
            i < j => <<Texts(recs, Arranged(DOMAIN recs, T))[i], Texts(recs, Arranged(DOMAIN recs, T))[j]>> \in TimeOrder
  <2>1. \A i, j \in DOMAIN recs :
           <<i, j>> \in T /\ i # j => <<recs[i], recs[j]>> \in TimeOrder \/ <<recs[j], recs[i]>> \notin TimeOrder
    BY <1>3, <1>4, <1>5
  <2>2. \A i, j \in DOMAIN recs : i # j => <<recs[i], recs[j]>> \in TimeOrder \/ <<recs[j], recs[i]>> \in TimeOrder
    BY <1>4, <1>5, <1>6
  <2>3. QED
    BY <1>1, <2>1, <2>2, ArrangedApart
<1>9. QED
  BY <1>2, <1>7, <1>8

\* The same records are sorted into the same list.
LEMMA SortedSame ==
    ASSUME NEW a \in Seq(Rec), NEW b \in Seq(Rec), SameRecords(a, b)
    PROVE  /\ Sorted(a, SourceBefore) = Sorted(b, SourceBefore)
           /\ Sorted(a, TimeBefore) = Sorted(b, TimeBefore)
<1>1. Apart(a) /\ Apart(b) /\ ToSet(a) = ToSet(b)
  BY DEF SameRecords
<1> DEFINE Listed(s, R) == s \in Seq(Rec) /\ \A i, j \in DOMAIN s : i < j => <<s[i], s[j]>> \in R
           OneWay(R) == \A x, y : <<x, y>> \in R => <<y, x>> \notin R
<1>2. ASSUME NEW s, NEW t, NEW R, Listed(s, R), Listed(t, R), ToSet(s) = ToSet(t), OneWay(R)
      PROVE  s = t
  <2>1. s \in Seq(Rec) /\ t \in Seq(Rec)
    BY <1>2
  <2>2. /\ \A x, y : <<x, y>> \in R => <<y, x>> \notin R
        /\ \A i, j \in DOMAIN s : i < j => <<s[i], s[j]>> \in R
        /\ \A i, j \in DOMAIN t : i < j => <<t[i], t[j]>> \in R
    BY <1>2
  <2>3. QED
    BY <1>2, <2>1, <2>2, ListedOnce
<1>3. /\ Listed(Sorted(a, SourceBefore), SourceOrder) /\ Listed(Sorted(a, TimeBefore), TimeOrder)
      /\ ToSet(Sorted(a, SourceBefore)) = ToSet(a) /\ ToSet(Sorted(a, TimeBefore)) = ToSet(a)
  BY <1>1, SortedApart
<1>4. /\ Listed(Sorted(b, SourceBefore), SourceOrder) /\ Listed(Sorted(b, TimeBefore), TimeOrder)
      /\ ToSet(Sorted(b, SourceBefore)) = ToSet(b) /\ ToSet(Sorted(b, TimeBefore)) = ToSet(b)
  BY <1>1, SortedApart
<1>5. OneWay(SourceOrder)
  <2> SUFFICES ASSUME NEW x, NEW y, <<x, y>> \in SourceOrder PROVE <<y, x>> \notin SourceOrder
    OBVIOUS
  <2>1. x \in Rec /\ y \in Rec /\ SourceBefore(x, y)
    BY DEF SourceOrder
  <2>2. ~SourceBefore(y, x)
    BY <2>1, OrdersStrict
  <2>3. QED
    BY <2>2 DEF SourceOrder
<1>6. OneWay(TimeOrder)
  <2> SUFFICES ASSUME NEW x, NEW y, <<x, y>> \in TimeOrder PROVE <<y, x>> \notin TimeOrder
    OBVIOUS
  <2>1. x \in Rec /\ y \in Rec /\ TimeBefore(x, y)
    BY DEF TimeOrder
  <2>2. ~TimeBefore(y, x)
    BY <2>1, OrdersStrict
  <2>3. QED
    BY <2>2 DEF TimeOrder
<1> HIDE DEF Listed, OneWay
<1>7. Sorted(a, SourceBefore) = Sorted(b, SourceBefore)
  BY <1>1, <1>2, <1>3, <1>4, <1>5
<1>8. Sorted(a, TimeBefore) = Sorted(b, TimeBefore)
  BY <1>1, <1>2, <1>3, <1>4, <1>6
<1>9. QED
  BY <1>7, <1>8

\* The same records show the same clocks, and are ordered and doubted alike.
LEMMA OrderedSame ==
    ASSUME NEW a \in Seq(Rec), NEW b \in Seq(Rec), SameRecords(a, b)
    PROVE  Ordered(a) = Ordered(b) /\ Doubt(a) = Doubt(b)
<1>1. \A s : Domains(s) = {r.line.clock : r \in {q \in ToSet(s) : q.line.at # Untimed}}
  BY DEF Domains, ToSet
<1>2. \A s : (\E k \in DOMAIN s : s[k].line.at = Untimed) <=> \E r \in ToSet(s) : r.line.at = Untimed
  BY DEF ToSet
<1>3. ToSet(a) = ToSet(b)
  BY DEF SameRecords
<1>4. Domains(a) = Domains(b)
  BY <1>1, <1>3
<1>5. Ordered(a) = Ordered(b)
  BY <1>4, SortedSame DEF Ordered
<1>6. (\E k \in DOMAIN a : a[k].line.at = Untimed) <=> \E k \in DOMAIN b : b[k].line.at = Untimed
  BY <1>2, <1>3
<1>7. Doubt(a) = Doubt(b)
  BY <1>4, <1>6 DEF Doubt
<1>8. QED
  BY <1>5, <1>7

\* Signals are some of the records, each once.
LEMMA SignalsApart ==
    ASSUME NEW recs \in Seq(Rec), Apart(recs), NEW strengths
    PROVE  /\ Signals(recs, strengths) \in Seq(Rec) /\ Apart(Signals(recs, strengths))
           /\ ToSet(Signals(recs, strengths)) = {r \in ToSet(recs) : Strength(r.line) \in strengths}
<1> DEFINE is == Signalling(recs, strengths)
           m == Cardinality(is)
           up == Upward(is)
           s == Signals(recs, strengths)
<1>1. /\ m \in Nat /\ up \in [1 .. m -> is] /\ \A k \in is : \E n \in 1 .. m : up[n] = k
      /\ s = Texts(recs, up) /\ s \in Seq(Rec)
  BY SignalRecords
<1>2. \A k : k \in is <=> k \in DOMAIN recs /\ Strength(recs[k].line) \in strengths
  BY DEF Signalling
<1>3. \A i, j \in 1 .. m : i < j => up[i] < up[j]
  <2>1. is \in SUBSET (1 .. Len(recs)) /\ Len(recs) \in Nat
    BY DEF Signalling
  <2>2. QED
    BY <2>1, UpwardLists
<1>4. \A k \in 1 .. m : up[k] \in DOMAIN recs /\ up[k] \in Int
  BY <1>1, <1>2
<1> HIDE DEF is, m, up, s
<1>5. up \in [1 .. m -> DOMAIN recs]
  BY <1>1, <1>4
<1>6. DOMAIN s = 1 .. m /\ \A k \in 1 .. m : s[k] = recs[up[k]]
  BY <1>1, <1>5, PickedTexts
<1>7. ASSUME NEW i \in 1 .. m, NEW j \in 1 .. m, up[i] = up[j] PROVE i = j
  <2>1. i < j \/ j < i \/ i = j
    BY <1>1
  <2>2. ~(up[i] < up[j]) /\ ~(up[j] < up[i])
    BY <1>4, <1>7
  <2>3. QED
    BY <1>3, <2>1, <2>2
<1>8. Apart(s)
  BY <1>4, <1>6, <1>7 DEF Apart
<1>9. \A r \in ToSet(s) : r \in ToSet(recs) /\ Strength(r.line) \in strengths
  BY <1>1, <1>2, <1>6 DEF ToSet
<1>10. ASSUME NEW r \in ToSet(recs), Strength(r.line) \in strengths PROVE r \in ToSet(s)
  <2>1. PICK k \in DOMAIN recs : r = recs[k]
    BY DEF ToSet
  <2>2. k \in is
    BY <1>2, <1>10, <2>1
  <2>3. PICK n \in 1 .. m : up[n] = k
    BY <1>1, <2>2
  <2>4. s[n] = r /\ n \in DOMAIN s
    BY <1>6, <2>1, <2>3
  <2>5. QED
    BY <2>4 DEF ToSet
<1>11. ToSet(s) = {r \in ToSet(recs) : Strength(r.line) \in strengths}
  BY <1>9, <1>10
<1>12. QED
  BY <1>1, <1>8, <1>11 DEF s

\* The same records tell the same of the incident, and have the same segments.
LEMMA StorySame ==
    ASSUME NEW a \in Seq(Rec), NEW b \in Seq(Rec), SameRecords(a, b)
    PROVE  Incident(a) = Incident(b) /\ \A code : KbWindows(a, code) = KbWindows(b, code)
<1>1. \A strengths : Ordered(Signals(a, strengths)) = Ordered(Signals(b, strengths))
                     /\ Doubt(Signals(a, strengths)) = Doubt(Signals(b, strengths))
  <2> SUFFICES ASSUME NEW strengths
               PROVE  Ordered(Signals(a, strengths)) = Ordered(Signals(b, strengths))
                      /\ Doubt(Signals(a, strengths)) = Doubt(Signals(b, strengths))
    OBVIOUS
  <2>1. Apart(a) /\ Apart(b) /\ ToSet(a) = ToSet(b)
    BY DEF SameRecords
  <2>2. /\ Signals(a, strengths) \in Seq(Rec) /\ Apart(Signals(a, strengths))
        /\ ToSet(Signals(a, strengths)) = {r \in ToSet(a) : Strength(r.line) \in strengths}
    BY <2>1, SignalsApart
  <2>3. /\ Signals(b, strengths) \in Seq(Rec) /\ Apart(Signals(b, strengths))
        /\ ToSet(Signals(b, strengths)) = {r \in ToSet(b) : Strength(r.line) \in strengths}
    BY <2>1, SignalsApart
  <2>4. SameRecords(Signals(a, strengths), Signals(b, strengths))
    BY <2>1, <2>2, <2>3 DEF SameRecords
  <2>5. QED
    BY <2>2, <2>3, <2>4, OrderedSame
<1>2. Timeline(a) = Timeline(b) /\ Evidence(a) = Evidence(b)
  BY <1>1 DEF Timeline, Evidence
<1>3. Incident(a) = Incident(b)
  BY <1>1, <1>2 DEF Incident
<1>4. Segments(a) = Segments(b)
  BY SortedSame DEF Segments
<1>5. \A code : KbWindows(a, code) = KbWindows(b, code)
  BY <1>4 DEF KbWindows
<1>6. QED
  BY <1>3, <1>5

-----------------------------------------------------------------------------
(* The records of files under different names.                              *)

\* Two sequences one after the other have what either has.
LEMMA BothHold ==
    ASSUME NEW X, NEW a \in Seq(X), NEW b \in Seq(X)
    PROVE  ToSet(a \o b) = ToSet(a) \cup ToSet(b)
<1> DEFINE l == Len(a)
           m == Len(b)
           c == a \o b
<1>1. /\ l \in Nat /\ m \in Nat /\ DOMAIN a = 1 .. l /\ DOMAIN b = 1 .. m /\ DOMAIN c = 1 .. l + m
      /\ \A i \in 1 .. l : c[i] = a[i]
      /\ \A i \in 1 .. l + m : i > l => i - l \in 1 .. m /\ c[i] = b[i - l]
      /\ \A i \in 1 .. m : l + i \in 1 .. l + m /\ c[l + i] = b[i]
  OBVIOUS
<1> HIDE DEF l, m, c
<1>2. \A i \in 1 .. l + m : (i \in 1 .. l /\ c[i] = a[i]) \/ (i - l \in 1 .. m /\ c[i] = b[i - l])
  BY <1>1
<1>3. ToSet(c) \subseteq ToSet(a) \cup ToSet(b)
  BY <1>1, <1>2 DEF ToSet
<1>4. \A i \in 1 .. l + m : c[i] \in ToSet(c)
  BY <1>1 DEF ToSet
<1>5. ToSet(a) \subseteq ToSet(c)
  <2>1. \A i \in 1 .. l : i \in 1 .. l + m
    BY <1>1
  <2>2. \A i \in 1 .. l : a[i] \in ToSet(c)
    BY <1>1, <1>4, <2>1
  <2>3. QED
    BY <1>1, <2>2 DEF ToSet
<1>6. ToSet(b) \subseteq ToSet(c)
  <2>1. \A i \in 1 .. m : b[i] \in ToSet(c)
    BY <1>1, <1>4
  <2>2. QED
    BY <1>1, <2>1 DEF ToSet
<1>7. QED
  BY <1>3, <1>5, <1>6 DEF c

\* What is joined has the records of the parts, and if these are of different
\* files, each once.
LEMMA JoinedApart ==
    ASSUME NEW parts \in Seq(Seq(Rec)), \A i \in DOMAIN parts : Apart(parts[i]),
           \A i, j \in DOMAIN parts : \A p \in ToSet(parts[i]), q \in ToSet(parts[j]) : p.file = q.file => i = j
    PROVE  Apart(Joined(parts)) /\ ToSet(Joined(parts)) = UNION {ToSet(parts[i]) : i \in DOMAIN parts}
<1> DEFINE n == Len(parts)
           All(k) == UNION {ToSet(parts[i]) : i \in 1 .. k}
<1>1. n \in Nat /\ DOMAIN parts = 1 .. n
  OBVIOUS
<1>2. PICK acc \in [0 .. n -> Seq(Rec)] :
        /\ acc[0] = <<>> /\ acc[n] = Joined(parts)
        /\ \A k \in 1 .. n : acc[k] = acc[k - 1] \o parts[k]
  BY JoinedRuns
<1> DEFINE good == {k \in 0 .. n : Apart(acc[k]) /\ ToSet(acc[k]) = All(k)}
<1> HIDE DEF n
<1>3. 0 \in good
  <2>1. Apart(acc[0]) /\ ToSet(acc[0]) = {} /\ 0 \in 0 .. n
    BY <1>1, <1>2 DEF Apart, ToSet
  <2>2. All(0) = {}
    OBVIOUS
  <2>3. QED
    BY <2>1, <2>2
<1>4. ASSUME NEW k \in 1 .. n, k - 1 \in good PROVE k \in good
  <2> DEFINE a == acc[k - 1]
             b == parts[k]
             c == acc[k]
             l == Len(a)
             m == Len(b)
  <2>1. k - 1 \in 0 .. n /\ k \in 0 .. n /\ k \in Nat
    BY <1>1
  <2>2. a \in Seq(Rec) /\ b \in Seq(Rec) /\ c = a \o b /\ Apart(a) /\ Apart(b) /\ ToSet(a) = All(k - 1)
    <3>1. a \in Seq(Rec) /\ c = a \o b
      BY <1>2, <2>1
    <3>2. k \in DOMAIN parts
      BY <1>1
    <3>3. b \in Seq(Rec) /\ Apart(b)
      BY <3>2
    <3>4. Apart(a) /\ ToSet(a) = All(k - 1)
      BY <1>4
    <3>5. QED
      BY <3>1, <3>3, <3>4
  <2>3. All(k) = All(k - 1) \cup ToSet(b)
    <3>1. \A i : i \in 1 .. k <=> i \in 1 .. k - 1 \/ i = k
      BY <2>1
    <3>2. QED
      BY <3>1
  <2> HIDE DEF a, b, c
  <2>4. /\ l \in Nat /\ m \in Nat /\ DOMAIN a = 1 .. l /\ DOMAIN b = 1 .. m /\ DOMAIN c = 1 .. l + m
        /\ \A i \in 1 .. l : c[i] = a[i]
        /\ \A i \in 1 .. l + m : i > l => i - l \in 1 .. m /\ c[i] = b[i - l]
        /\ \A i \in 1 .. m : l + i \in 1 .. l + m /\ c[l + i] = b[i]
    BY <2>2
  <2> HIDE DEF l, m
  <2>5. ToSet(c) = ToSet(a) \cup ToSet(b)
    BY <2>2, BothHold
  <2>6. \A p \in ToSet(a), q \in ToSet(b) : p.file # q.file
    <3> SUFFICES ASSUME NEW p \in ToSet(a), NEW q \in ToSet(b), p.file = q.file PROVE FALSE
      OBVIOUS
    <3>1. PICK i \in 1 .. k - 1 : p \in ToSet(parts[i])
      BY <2>2
    <3>2. i \in DOMAIN parts /\ k \in DOMAIN parts /\ i # k
      BY <1>1, <2>1, <3>1
    <3>3. \A x \in ToSet(parts[i]), y \in ToSet(parts[k]) : x.file = y.file => i = k
      BY <3>2
    <3>4. q \in ToSet(parts[k])
      BY DEF b
    <3>5. QED
      BY <3>1, <3>2, <3>3, <3>4, Zenon
  <2>7. ASSUME NEW i \in 1 .. l + m, NEW j \in 1 .. l + m, c[i].file = c[j].file, c[i].no = c[j].no
        PROVE  i = j
    <3>1. \A h \in 1 .. l : a[h] \in ToSet(a)
      BY <2>4 DEF ToSet
    <3>2. \A h \in 1 .. m : b[h] \in ToSet(b)
      BY <2>4 DEF ToSet
    <3>3. CASE i <= l /\ j <= l
      <4>1. i \in 1 .. l /\ j \in 1 .. l
        BY <2>4, <3>3
      <4>2. c[i] = a[i] /\ c[j] = a[j] /\ i \in DOMAIN a /\ j \in DOMAIN a
        BY <2>4, <4>1
      <4>3. a[i].file = a[j].file /\ a[i].no = a[j].no
        BY <2>7, <4>2
      <4>4. QED
        BY <2>2, <4>2, <4>3 DEF Apart
    <3>4. CASE i > l /\ j > l
      <4>1. i - l \in 1 .. m /\ j - l \in 1 .. m /\ c[i] = b[i - l] /\ c[j] = b[j - l]
        BY <2>4, <3>4
      <4>2. b[i - l].file = b[j - l].file /\ b[i - l].no = b[j - l].no
        BY <2>7, <4>1
      <4>3. i - l \in DOMAIN b /\ j - l \in DOMAIN b
        BY <2>4, <4>1
      <4>4. i - l = j - l
        BY <2>2, <4>2, <4>3 DEF Apart
      <4>5. QED
        BY <2>4, <4>4
    <3>5. CASE i <= l /\ j > l
      <4>1. i \in 1 .. l /\ j - l \in 1 .. m /\ c[i] = a[i] /\ c[j] = b[j - l]
        BY <2>4, <3>5
      <4>2. QED
        BY <2>6, <2>7, <3>1, <3>2, <4>1
    <3>6. CASE i > l /\ j <= l
      <4>1. j \in 1 .. l /\ i - l \in 1 .. m /\ c[j] = a[j] /\ c[i] = b[i - l]
        BY <2>4, <3>6
      <4>2. QED
        BY <2>6, <2>7, <3>1, <3>2, <4>1
    <3>7. QED
      BY <2>4, <3>3, <3>4, <3>5, <3>6
  <2>8. Apart(c)
    BY <2>4, <2>7 DEF Apart
  <2>9. ToSet(c) = All(k)
    BY <2>2, <2>3, <2>5
  <2>10. QED
    BY <2>1, <2>8, <2>9 DEF c
<1>5. \A k \in 0 .. n : k \in good
  <2> HIDE DEF good
  <2>1. QED
    BY <1>1, <1>3, <1>4, Upwards
<1>6. n \in good
  BY <1>1, <1>5
<1>7. QED
  BY <1>1, <1>2, <1>6

\* The records of a file are of different lines of it.
LEMMA FileApart ==
    ASSUME NEW name \in Nat, NEW text \in Seq(Line)
    PROVE  Apart(Records(name, text)) /\ \A r \in ToSet(Records(name, text)) : r.file = name
<1> DEFINE is == Recorded(text)
           m == Cardinality(is)
           nos == Upward(is)
           recs == Records(name, text)
<1>1. /\ is \in SUBSET (1 .. Len(text)) /\ nos \in [1 .. m -> is] /\ m \in Nat
      /\ recs = [k \in 1 .. m |-> [file |-> name, no |-> nos[k], line |-> text[nos[k]]]]
  BY FileRecords
<1>2. \A i, j \in 1 .. m : i < j => nos[i] < nos[j]
  <2>1. Len(text) \in Nat
    OBVIOUS
  <2>2. QED
    BY <1>1, <2>1, UpwardLists
<1> HIDE DEF is, m, nos, recs
<1>3. \A k \in 1 .. m : nos[k] \in Int
  <2>1. \A i \in is : i \in Int
    BY <1>1
  <2>2. QED
    BY <1>1, <2>1
<1>4. DOMAIN recs = 1 .. m /\ \A k \in 1 .. m : recs[k].file = name /\ recs[k].no = nos[k]
  BY <1>1
<1>5. ASSUME NEW i \in 1 .. m, NEW j \in 1 .. m, nos[i] = nos[j] PROVE i = j
  <2>1. i < j \/ j < i \/ i = j
    BY <1>1
  <2>2. ~(nos[i] < nos[j]) /\ ~(nos[j] < nos[i])
    BY <1>3, <1>5
  <2>3. QED
    BY <1>2, <2>1, <2>2
<1>6. Apart(recs)
  BY <1>4, <1>5 DEF Apart
<1>7. \A r \in ToSet(recs) : r.file = name
  BY <1>4 DEF ToSet
<1>8. QED
  BY <1>6, <1>7 DEF recs

\* Numbers from 1 to n are n.
LEMMA FilesCounted == ASSUME NEW n \in Nat PROVE IsFiniteSet(1 .. n) /\ Cardinality(1 .. n) = n
BY FS_Interval

\* As many names as files: no two files have one name.
LEMMA NamesDiffer ==
    ASSUME NEW S, NEW es \in Seq(S), Cardinality(Names(es, DOMAIN es)) = Len(es)
    PROVE  \A i, j \in DOMAIN es : es[i].name = es[j].name => i = j
<1> DEFINE N == Names(es, DOMAIN es)
           h == [i \in DOMAIN es |-> es[i].name]
<1>1. DOMAIN es = 1 .. Len(es) /\ Len(es) \in Nat
  OBVIOUS
<1>2. IsFiniteSet(DOMAIN es) /\ Cardinality(DOMAIN es) = Len(es)
  <2>1. IsFiniteSet(1 .. Len(es)) /\ Cardinality(1 .. Len(es)) = Len(es)
    <3>1. PICK n \in Nat : n = Len(es)
      BY <1>1
    <3>2. IsFiniteSet(1 .. n) /\ Cardinality(1 .. n) = n
      BY FilesCounted
    <3>3. QED
      BY <3>1, <3>2
  <2>2. QED
    BY <1>1, <2>1
<1>3. h \in [DOMAIN es -> N] /\ \A y \in N : \E i \in DOMAIN es : h[i] = y
  BY DEF Names
<1>4. \A i \in DOMAIN es : h[i] = es[i].name
  OBVIOUS
<1> HIDE DEF h, N
<1>5. h \in Surjection(DOMAIN es, N)
  BY <1>3 DEF Surjection
<1>6. Cardinality(DOMAIN es) = Cardinality(N)
  BY <1>2 DEF N
<1>7. h \in Injection(DOMAIN es, N)
  BY <1>2, <1>5, <1>6, FS_SurjSameCardinalityImpliesInj
<1>8. QED
  BY <1>3, <1>4, <1>7 DEF Injection, IsInjective

\* Files under different names give each record once.
LEMMA BundleApart ==
    ASSUME NEW es \in Seq(Summaries), \A i, j \in DOMAIN es : es[i].name = es[j].name => i = j
    PROVE  /\ AllRecords(es) \in Seq(Rec) /\ Apart(AllRecords(es))
           /\ ToSet(AllRecords(es)) = UNION {ToSet(Records(es[i].name, es[i].text)) : i \in DOMAIN es}
<1> DEFINE parts == PartsOf(es)
<1>1. parts \in Seq(Seq(Rec)) /\ Len(parts) = Len(es) /\ AllRecords(es) = Joined(parts) /\ AllRecords(es) \in Seq(Rec)
  BY BundleRecords
<1>2. DOMAIN parts = DOMAIN es /\ \A i \in DOMAIN es : parts[i] = Records(es[i].name, es[i].text)
  BY DEF PartsOf
<1>3. \A i \in DOMAIN es : Apart(Records(es[i].name, es[i].text))
                           /\ \A r \in ToSet(Records(es[i].name, es[i].text)) : r.file = es[i].name
  <2> SUFFICES ASSUME NEW i \in DOMAIN es
               PROVE  Apart(Records(es[i].name, es[i].text))
                      /\ \A r \in ToSet(Records(es[i].name, es[i].text)) : r.file = es[i].name
    OBVIOUS
  <2>1. es[i].name \in Nat /\ es[i].text \in Seq(Line)
    BY SummaryFields
  <2>2. QED
    BY <2>1, FileApart
<1> HIDE DEF parts
<1>4. \A i \in DOMAIN parts : Apart(parts[i]) /\ \A r \in ToSet(parts[i]) : r.file = es[i].name
  BY <1>2, <1>3
<1>5. \A i, j \in DOMAIN parts : \A p \in ToSet(parts[i]), q \in ToSet(parts[j]) : p.file = q.file => i = j
  BY <1>2, <1>4
<1>6. Apart(Joined(parts)) /\ ToSet(Joined(parts)) = UNION {ToSet(parts[i]) : i \in DOMAIN parts}
  BY <1>1, <1>4, <1>5, JoinedApart
<1>7. QED
  BY <1>1, <1>2, <1>6

\* Put in another order, they give the same records.
LEMMA RecordsMove ==
    ASSUME NEW es \in Seq(Summaries), NEW other \in Seq(Summaries), NEW f, Rearranges(f, es, other),
           \A i, j \in DOMAIN es : es[i].name = es[j].name => i = j
    PROVE  /\ AllRecords(es) \in Seq(Rec) /\ AllRecords(other) \in Seq(Rec)
           /\ SameRecords(AllRecords(es), AllRecords(other))
<1> DEFINE Part(e) == ToSet(Records(e.name, e.text))
<1>1. /\ DOMAIN other = DOMAIN es
      /\ \A i \in DOMAIN es : f[i] \in DOMAIN es /\ other[i] = es[f[i]]
      /\ \A j \in DOMAIN es : \E i \in DOMAIN es : f[i] = j
      /\ \A i, j \in DOMAIN es : f[i] = f[j] => i = j
  BY DEF Rearranges
<1>2. ASSUME NEW i \in DOMAIN other, NEW j \in DOMAIN other, other[i].name = other[j].name PROVE i = j
  <2>1. f[i] \in DOMAIN es /\ f[j] \in DOMAIN es /\ es[f[i]].name = es[f[j]].name
    BY <1>1, <1>2
  <2>2. f[i] = f[j]
    BY <2>1
  <2>3. QED
    BY <1>1, <2>2
<1>3. /\ AllRecords(es) \in Seq(Rec) /\ Apart(AllRecords(es))
      /\ ToSet(AllRecords(es)) = UNION {Part(es[i]) : i \in DOMAIN es}
  BY BundleApart
<1>4. /\ AllRecords(other) \in Seq(Rec) /\ Apart(AllRecords(other))
      /\ ToSet(AllRecords(other)) = UNION {Part(other[i]) : i \in DOMAIN other}
  BY <1>2, BundleApart
<1> HIDE DEF Part
<1>5. {Part(es[i]) : i \in DOMAIN es} = {Part(other[i]) : i \in DOMAIN other}
  <2>1. \A i \in DOMAIN other : \E j \in DOMAIN es : Part(other[i]) = Part(es[j])
    BY <1>1
  <2>2. ASSUME NEW j \in DOMAIN es PROVE \E i \in DOMAIN other : Part(es[j]) = Part(other[i])
    <3>1. PICK i \in DOMAIN es : f[i] = j
      BY <1>1
    <3>2. i \in DOMAIN other /\ other[i] = es[j]
      BY <1>1, <3>1
    <3>3. QED
      BY <3>2
  <2>3. QED
    BY <2>1, <2>2
<1>6. QED
  BY <1>3, <1>4, <1>5 DEF SameRecords

\* The answer is that of all files; its verdict, its diagnosis and its chronology
\* are facts of the files, not of their order.
LEMMA OrderFollows == BundleInv => OrderOfUploadIrrelevant
<1> SUFFICES ASSUME BundleInv, phase = "commit", Cardinality(Names(entries, DOMAIN entries)) = Len(entries),
                    NEW es \in Permuted(entries)
             PROVE  LET other == Answer(es) IN
                    /\ other.confidence = answer.confidence /\ other.sources = answer.sources
                    /\ es[other.primary].meta.code = entries[answer.primary].meta.code
                    /\ other.incident = answer.incident /\ other.windows = answer.windows
  BY DEF OrderOfUploadIrrelevant
<1>1. answer = Answer(entries)
  BY DEF BundleInv, AnswerSound
<1>2. entries \in Seq(Summaries)
  BY DEF BundleInv, FilesSound
<1>3. es \in Seq(Summaries) /\ Len(es) = Len(entries) /\ \E f : Rearranges(f, entries, es)
  BY <1>2, PermutedRearranges
<1>4. PICK f : Rearranges(f, entries, es)
  BY <1>3
<1>5. Correlate(es) = Correlate(entries) /\ Names(es, DOMAIN es) = Names(entries, DOMAIN entries)
  BY <1>4, VerdictMoves
<1>6. es[Elect(es)].meta.code = entries[Elect(entries)].meta.code
  BY <1>2, <1>3, <1>4, DiagnosisMoves
<1>7. \A i, j \in DOMAIN entries : entries[i].name = entries[j].name => i = j
  BY <1>2, NamesDiffer
<1>8. /\ AllRecords(entries) \in Seq(Rec) /\ AllRecords(es) \in Seq(Rec)
      /\ SameRecords(AllRecords(entries), AllRecords(es))
  BY <1>2, <1>3, <1>4, <1>7, RecordsMove
<1>9. /\ Incident(AllRecords(entries)) = Incident(AllRecords(es))
      /\ \A code : KbWindows(AllRecords(entries), code) = KbWindows(AllRecords(es), code)
  BY <1>8, StorySame
<1> DEFINE Verdict(fs) == IF Len(fs) < 2 THEN [confidence |-> "none", sources |-> Names(fs, DOMAIN fs)]
                          ELSE Correlate(fs)
           Diagnosed(fs) == fs[Elect(fs)].meta.code
           Excerpt(fs, code) == IF code = "" THEN {} ELSE KbWindows(AllRecords(fs), code)
<1>10. \A fs : /\ Answer(fs).confidence = Verdict(fs).confidence /\ Answer(fs).sources = Verdict(fs).sources
              /\ Answer(fs).primary = Elect(fs)
              /\ Answer(fs).incident = Incident(AllRecords(fs))
              /\ Answer(fs).windows = Excerpt(fs, Diagnosed(fs))
  BY Zenon DEF Answer
<1>11. Verdict(es) = Verdict(entries)
  BY <1>3, <1>5
<1>12. Excerpt(es, Diagnosed(es)) = Excerpt(entries, Diagnosed(entries))
  <2>1. \A code : Excerpt(es, code) = Excerpt(entries, code)
    BY <1>9
  <2> HIDE DEF Excerpt
  <2>2. QED
    BY <1>6, <2>1
<1> HIDE DEF Verdict, Diagnosed, Excerpt
<1>13. QED
  BY <1>1, <1>6, <1>9, <1>10, <1>11, <1>12

\* Files under different names give the same verdict, sources, diagnosis, incident
\* and windows in whatever order they were picked for upload (submit_bundle,
\* correlate_bundle, order_records).
THEOREM BundleOrder == BundleSpec => []OrderOfUploadIrrelevant
BY BundleInvariant, OrderFollows, PTL

-----------------------------------------------------------------------------
(* Solutions: what the windows cut out of an operation keep.                *)

\* The lines of records are lines.
LEMMA LinesAre ==
    ASSUME NEW recs \in Seq(Rec)
    PROVE  /\ LinesOf(recs) \in Seq(Line) /\ DOMAIN LinesOf(recs) = 1 .. Len(recs) /\ Len(LinesOf(recs)) = Len(recs)
           /\ \A k \in 1 .. Len(recs) : LinesOf(recs)[k] = recs[k].line
<1>1. \A k \in 1 .. Len(recs) : recs[k].line \in Line
  <2> SUFFICES ASSUME NEW k \in 1 .. Len(recs) PROVE recs[k].line \in Line
    OBVIOUS
  <2>1. recs[k] \in Rec
    OBVIOUS
  <2>2. QED
    BY <2>1, RecordFields
<1>2. DOMAIN recs = 1 .. Len(recs) /\ Len(recs) \in Nat
  OBVIOUS
<1>3. LinesOf(recs) = [k \in 1 .. Len(recs) |-> recs[k].line]
  BY <1>2 DEF LinesOf
<1>4. QED
  BY <1>1, <1>2, <1>3

\* What is joined has what its parts have.
LEMMA JoinedHolds ==
    ASSUME NEW X, NEW parts \in Seq(Seq(X))
    PROVE  /\ \A k \in DOMAIN parts : ToSet(parts[k]) \subseteq ToSet(Joined(parts))
           /\ \A x \in ToSet(Joined(parts)) : \E k \in DOMAIN parts : x \in ToSet(parts[k])
<1> DEFINE n == Len(parts)
           All(k) == UNION {ToSet(parts[i]) : i \in 1 .. k}
<1>1. n \in Nat /\ DOMAIN parts = 1 .. n
  OBVIOUS
<1>2. PICK acc \in [0 .. n -> Seq(X)] :
        /\ acc[0] = <<>> /\ acc[n] = Joined(parts)
        /\ \A k \in 1 .. n : acc[k] = acc[k - 1] \o parts[k]
  BY JoinedRuns
<1> DEFINE good == {k \in 0 .. n : ToSet(acc[k]) = All(k)}
<1> HIDE DEF n
<1>3. 0 \in good
  <2>1. ToSet(acc[0]) = {} /\ 0 \in 0 .. n
    BY <1>1, <1>2 DEF ToSet
  <2>2. All(0) = {}
    OBVIOUS
  <2>3. QED
    BY <2>1, <2>2
<1>4. ASSUME NEW k \in 1 .. n, k - 1 \in good PROVE k \in good
  <2> DEFINE a == acc[k - 1]
             b == parts[k]
             c == acc[k]
  <2>1. k - 1 \in 0 .. n /\ k \in 0 .. n /\ k \in Nat
    BY <1>1
  <2>2. a \in Seq(X) /\ b \in Seq(X) /\ c = a \o b /\ ToSet(a) = All(k - 1)
    <3>1. a \in Seq(X) /\ c = a \o b
      BY <1>2, <2>1
    <3>2. b \in Seq(X)
      BY <1>1
    <3>3. ToSet(a) = All(k - 1)
      BY <1>4
    <3>4. QED
      BY <3>1, <3>2, <3>3
  <2>3. All(k) = All(k - 1) \cup ToSet(b)
    <3>1. \A i : i \in 1 .. k <=> i \in 1 .. k - 1 \/ i = k
      BY <2>1
    <3>2. QED
      BY <3>1
  <2> HIDE DEF a, b, c
  <2>4. ToSet(c) = ToSet(a) \cup ToSet(b)
    BY <2>2, BothHold
  <2>5. QED
    BY <2>1, <2>2, <2>3, <2>4 DEF c
<1>5. n \in good
  <2>1. n \in 0 .. n
    BY <1>1
  <2> HIDE DEF good
  <2>2. QED
    BY <1>1, <1>3, <1>4, <2>1, Upwards
<1>6. QED
  BY <1>1, <1>2, <1>5

\* No segment is empty.
LEMMA SegmentsFilled ==
    ASSUME NEW recs \in Seq(Rec)
    PROVE  Segments(recs) \in Seq(Seq(Rec)) /\ \A k \in DOMAIN Segments(recs) : Segments(recs)[k] # <<>>
<1> DEFINE sorted == Sorted(recs, SourceBefore)
           n == Len(sorted)
           run == Partition(sorted)
           Filled(segs) == \A k \in DOMAIN segs : segs[k] # <<>>
<1>1. sorted \in Seq(Rec) /\ n \in Nat
  <2>1. sorted \in Seq(Rec)
    BY OrderedRecords
  <2>2. QED
    BY <2>1
<1>2. Segments(recs) = IF run.cur.recs = <<>> THEN run.done ELSE Append(run.done, run.cur.recs)
  BY DEF Segments
<1> HIDE DEF sorted, run
<1>3. PICK acc \in [0 .. Len(sorted) -> Partial] :
        /\ acc[0] = Undivided /\ acc[Len(sorted)] = Partition(sorted)
        /\ \A k \in 1 .. Len(sorted) : acc[k] = Divided(acc[k - 1], sorted[k])
  BY <1>1, PartitionRuns
<1>4. \A p \in Partial : p.done \in Seq(Seq(Rec)) /\ p.cur.recs \in Seq(Rec)
  BY DEF Partial, Building
<1>5. ASSUME NEW segs \in Seq(Seq(Rec)), NEW s \in Seq(Rec), Filled(segs), s # <<>>
      PROVE  Append(segs, s) \in Seq(Seq(Rec)) /\ Filled(Append(segs, s))
  <2>1. /\ Append(segs, s) \in Seq(Seq(Rec)) /\ DOMAIN Append(segs, s) = 1 .. Len(segs) + 1 /\ Len(segs) \in Nat
        /\ Append(segs, s)[Len(segs) + 1] = s /\ \A k \in 1 .. Len(segs) : Append(segs, s)[k] = segs[k]
    OBVIOUS
  <2>2. DOMAIN segs = 1 .. Len(segs)
    OBVIOUS
  <2>3. \A k \in 1 .. Len(segs) + 1 : k \in 1 .. Len(segs) \/ k = Len(segs) + 1
    BY <2>1
  <2>4. QED
    BY <1>5, <2>1, <2>2, <2>3
<1> HIDE DEF Filled
<1> DEFINE good == {k \in 0 .. n : Filled(acc[k].done)}
<1>6. 0 \in good
  <2>1. acc[0].done = <<>> /\ DOMAIN <<>> = {} /\ 0 \in 0 .. n
    BY <1>1, <1>3 DEF Undivided
  <2>2. QED
    BY <2>1 DEF Filled
<1>7. ASSUME NEW k \in 1 .. n, k - 1 \in good PROVE k \in good
  <2> DEFINE a == acc[k - 1]
             r == sorted[k]
  <2>1. k - 1 \in 0 .. n /\ k \in 0 .. n /\ r \in Rec /\ a \in Partial /\ Filled(a.done)
    <3>1. k - 1 \in 0 .. n /\ k \in 0 .. n
      BY <1>1
    <3>2. QED
      BY <1>1, <1>3, <1>7, <3>1
  <2>2. acc[k] = Divided(a, r)
    BY <1>3
  <2> HIDE DEF a, r
  <2>3. acc[k].done = IF Closes(a.cur, r) THEN Append(a.done, a.cur.recs) ELSE a.done
    BY <2>1, <2>2, DividedPartial
  <2>4. Closes(a.cur, r) => a.cur.recs # <<>>
    BY DEF Closes
  <2>5. Filled(acc[k].done)
    BY <1>4, <1>5, <2>1, <2>3, <2>4
  <2>6. QED
    BY <2>1, <2>5
<1>8. n \in good
  <2>1. n \in 0 .. n
    BY <1>1
  <2> HIDE DEF good
  <2>2. QED
    BY <1>1, <1>6, <1>7, <2>1, Upwards
<1>9. run \in Partial /\ Filled(run.done)
  <2>1. n \in 0 .. n
    BY <1>1
  <2>2. QED
    BY <1>3, <1>8, <2>1 DEF run
<1>10. Segments(recs) \in Seq(Seq(Rec)) /\ Filled(Segments(recs))
  BY <1>2, <1>4, <1>5, <1>9
<1>11. QED
  BY <1>10 DEF Filled

\* A segment has records that were partitioned, and each record is in one.
LEMMA SegmentsHold ==
    ASSUME NEW recs \in Seq(Rec)
    PROVE  /\ \A k \in DOMAIN Segments(recs) : ToSet(Segments(recs)[k]) \subseteq ToSet(recs)
           /\ \A r \in ToSet(recs) : \E k \in DOMAIN Segments(recs) : r \in ToSet(Segments(recs)[k])
<1> DEFINE R == Stably(recs, SourceBefore)
           arr == Arranged(DOMAIN recs, R)
           s == Sorted(recs, SourceBefore)
           n == Len(recs)
<1>1. Segments(recs) \in Seq(Seq(Rec)) /\ Joined(Segments(recs)) = s
  BY SegmentsFilled, SegmentsCleft DEF Cleft
<1>2. n \in Nat /\ DOMAIN recs = 1 .. n
  OBVIOUS
<1>3. arr \in [1 .. n -> DOMAIN recs] /\ \A x \in DOMAIN recs : \E i \in 1 .. n : arr[i] = x
  <2>1. Orders(R, DOMAIN recs)
    BY StablySource
  <2>2. arr \in [1 .. n -> DOMAIN recs] /\ Lists(arr, DOMAIN recs, R) /\ Cardinality(DOMAIN recs) = n
    BY <2>1, SortedRecords
  <2>3. QED
    BY <2>2 DEF Lists
<1>4. s = Texts(recs, arr)
  BY DEF Sorted
<1> HIDE DEF s, arr
<1>5. DOMAIN s = 1 .. n /\ \A i \in 1 .. n : s[i] = recs[arr[i]]
  BY <1>2, <1>3, <1>4, PickedTexts
<1>6. ToSet(s) = ToSet(recs)
  <2>1. ToSet(s) \subseteq ToSet(recs)
    BY <1>3, <1>5 DEF ToSet
  <2>2. \A x \in DOMAIN recs : \E i \in DOMAIN s : recs[x] = s[i]
    BY <1>3, <1>5
  <2>3. ToSet(recs) \subseteq ToSet(s)
    BY <2>2 DEF ToSet
  <2>4. QED
    BY <2>1, <2>3
<1>7. QED
  BY <1>1, <1>6, JoinedHolds

\* What is kept of a sequence is the elements at the places to keep.
LEMMA KeepPicks ==
    ASSUME NEW X, NEW s \in Seq(X), NEW is \in SUBSET DOMAIN s
    PROVE  /\ Keep(s, is) \in Seq(X) /\ DOMAIN Keep(s, is) = 1 .. Cardinality(is) /\ Cardinality(is) \in Nat
           /\ Upward(is) \in [1 .. Cardinality(is) -> is]
           /\ \A k \in 1 .. Cardinality(is) : Keep(s, is)[k] = s[Upward(is)[k]]
           /\ ToSet(Keep(s, is)) = {s[i] : i \in is}
<1> DEFINE m == Cardinality(is)
           nos == Upward(is)
           t == Keep(s, is)
<1>1. /\ m \in Nat /\ nos \in [1 .. m -> is] /\ \A x \in is : \E k \in 1 .. m : nos[k] = x
  <2>1. DOMAIN s = 1 .. Len(s) /\ Len(s) \in Nat
    OBVIOUS
  <2>2. QED
    BY <2>1, UpwardLists
<1>2. t = Texts(s, nos)
  BY DEF Keep
<1> HIDE DEF m, nos, t
<1>3. nos \in [1 .. m -> DOMAIN s]
  BY <1>1
<1>4. t \in Seq(X) /\ DOMAIN t = 1 .. m /\ \A k \in 1 .. m : t[k] = s[nos[k]]
  BY <1>1, <1>2, <1>3, PickedTexts
<1>5. ToSet(t) = {s[i] : i \in is}
  <2>1. \A k \in 1 .. m : nos[k] \in is
    BY <1>1
  <2>2. ToSet(t) \subseteq {s[i] : i \in is}
    BY <1>4, <2>1 DEF ToSet
  <2>3. \A i \in is : \E k \in DOMAIN t : s[i] = t[k]
    BY <1>1, <1>4
  <2>4. {s[i] : i \in is} \subseteq ToSet(t)
    BY <2>3 DEF ToSet
  <2>5. QED
    BY <2>2, <2>4
<1>6. QED
  BY <1>1, <1>4, <1>5 DEF m, nos, t

\* A window is made of lines of what it is cut out of.
LEMMA WindowsCut ==
    ASSUME NEW lines \in Seq(Line), NEW anchors, NEW w \in CutOut(lines, anchors)
    PROVE  w \in Seq(Line) /\ ToSet(w) \subseteq ToSet(lines)
<1>1. PICK i \in DOMAIN lines : w = Keep(lines, {j \in DOMAIN lines : Distance(i, j) <= Gap})
  BY DEF CutOut
<1> DEFINE is == {j \in DOMAIN lines : Distance(i, j) <= Gap}
<1>2. is \in SUBSET DOMAIN lines
  OBVIOUS
<1>3. w = Keep(lines, is)
  BY <1>1
<1> HIDE DEF is
<1>4. w \in Seq(Line) /\ ToSet(w) = {lines[j] : j \in is}
  BY <1>2, <1>3, KeepPicks
<1>5. \A j \in is : lines[j] \in ToSet(lines)
  BY <1>2 DEF ToSet
<1>6. QED
  BY <1>4, <1>5

\* A line that has an anchor is in a window.
LEMMA AnchorsCut ==
    ASSUME NEW lines, NEW anchors, NEW i \in DOMAIN lines, lines[i].marks \cap anchors # {}
    PROVE  CutOut(lines, anchors) # {}
BY DEF CutOut

\* More lines have more marks ...
LEMMA MarksGrow ==
    ASSUME NEW a, NEW b, ToSet(a) \subseteq ToSet(b)
    PROVE  MarksOf(a) \subseteq MarksOf(b)
<1>1. \A i \in DOMAIN a : a[i] \in ToSet(b)
  BY DEF ToSet
<1>2. \A i \in DOMAIN a : \E j \in DOMAIN b : a[i] = b[j]
  BY <1>1 DEF ToSet
<1>3. QED
  BY <1>2 DEF MarksOf

\* ... and more marks meet what fewer met.
LEMMA GateGrows ==
    ASSUME NEW id, NEW a, NEW b, a \subseteq b, Gate(id, a)
    PROVE  Gate(id, b)
<1> DEFINE all == Articles[id].all
           some == Articles[id].some
<1>1. all \subseteq a /\ (some = {} \/ some \cap a # {})
  BY DEF Gate
<1> HIDE DEF all, some
<1>2. all \subseteq b /\ (some = {} \/ some \cap b # {})
  BY <1>1
<1>3. QED
  BY <1>2 DEF Gate, all, some

\* Articles about operations answer two codes, and ask for a mark that opens a window.
LEMMA OperationArticles ==
    ASSUME NEW id \in ToSet(ArticleOrder), Articles[id].operation
    PROVE  /\ Articles[id].codes = {FileMissing, Chain}
           /\ "missing" \in Articles[id].all \/ "invalid" \in Articles[id].all
<1>1. id \in {"a424591", "a418256", "a442155", "a411756", "a318905", "a450780", "a452165"}
  BY DEF ArticleOrder, ToSet
<1>2. ~Articles["a418256"].operation /\ ~Articles["a442155"].operation /\ ~Articles["a411756"].operation
  BY DEF Articles
<1>3. /\ Articles["a424591"].codes = {FileMissing, Chain} /\ "missing" \in Articles["a424591"].all
      /\ Articles["a318905"].codes = {FileMissing, Chain} /\ "invalid" \in Articles["a318905"].all
      /\ Articles["a450780"].codes = {FileMissing, Chain} /\ "missing" \in Articles["a450780"].all
      /\ Articles["a452165"].codes = {FileMissing, Chain} /\ "missing" \in Articles["a452165"].all
  BY DEF Articles
<1>4. QED
  BY <1>1, <1>2, <1>3

\* The lines of the segments are those of the records.
LEMMA SegmentLines ==
    ASSUME NEW recs \in Seq(Rec)
    PROVE  /\ \A k \in DOMAIN Segments(recs) :
                 /\ Segments(recs)[k] \in Seq(Rec) /\ LinesOf(Segments(recs)[k]) \in Seq(Line)
                 /\ \A l \in ToSet(LinesOf(Segments(recs)[k])) : \E r \in ToSet(recs) : l = r.line
           /\ \A r \in ToSet(recs) : \E k \in DOMAIN Segments(recs) : r.line \in ToSet(LinesOf(Segments(recs)[k]))
<1> DEFINE segs == Segments(recs)
<1>1. segs \in Seq(Seq(Rec))
  BY SegmentsFilled
<1>2. /\ \A k \in DOMAIN segs : ToSet(segs[k]) \subseteq ToSet(recs)
      /\ \A r \in ToSet(recs) : \E k \in DOMAIN segs : r \in ToSet(segs[k])
  BY SegmentsHold
<1> HIDE DEF segs
<1>3. \A k \in DOMAIN segs : segs[k] \in Seq(Rec)
  BY <1>1
<1>4. ASSUME NEW s \in Seq(Rec)
      PROVE  /\ LinesOf(s) \in Seq(Line)
             /\ \A l \in ToSet(LinesOf(s)) : \E r \in ToSet(s) : l = r.line
             /\ \A r \in ToSet(s) : r.line \in ToSet(LinesOf(s))
  <2>1. /\ LinesOf(s) \in Seq(Line) /\ DOMAIN LinesOf(s) = 1 .. Len(s)
        /\ \A k \in 1 .. Len(s) : LinesOf(s)[k] = s[k].line
    BY LinesAre
  <2>2. DOMAIN s = 1 .. Len(s)
    OBVIOUS
  <2>3. \A k \in 1 .. Len(s) : s[k] \in ToSet(s) /\ s[k].line \in ToSet(LinesOf(s))
    BY <2>1, <2>2 DEF ToSet
  <2>4. ASSUME NEW l \in ToSet(LinesOf(s)) PROVE \E r \in ToSet(s) : l = r.line
    <3>1. PICK k \in 1 .. Len(s) : l = LinesOf(s)[k]
      BY <2>1 DEF ToSet
    <3>2. QED
      BY <2>1, <2>3, <3>1
  <2>5. ASSUME NEW r \in ToSet(s) PROVE r.line \in ToSet(LinesOf(s))
    <3>1. PICK k \in 1 .. Len(s) : r = s[k]
      BY <2>2 DEF ToSet
    <3>2. QED
      BY <2>3, <3>1
  <2>6. QED
    BY <2>1, <2>4, <2>5
<1>5. QED
  BY <1>2, <1>3, <1>4 DEF segs

\* A file's records are of its lines that are not blank, whatever the file is called.
LEMMA RecordLines ==
    ASSUME NEW name \in Nat, NEW text \in Seq(Line), NEW r \in ToSet(Records(name, text))
    PROVE  /\ r.line \in ToSet(text) /\ r.line.len > 0
           /\ \A other \in Nat : \E q \in ToSet(Records(other, text)) : q.line = r.line
<1> DEFINE is == Recorded(text)
           m == Cardinality(is)
           nos == Upward(is)
<1>1. /\ is \in SUBSET (1 .. Len(text)) /\ nos \in [1 .. m -> is]
      /\ \A o \in Nat : Records(o, text) = [k \in 1 .. m |-> [file |-> o, no |-> nos[k], line |-> text[nos[k]]]]
  BY FileRecords
<1>2. \A i \in is : text[i].len > 0
  BY DEF Recorded
<1> HIDE DEF is, m, nos
<1>3. PICK k \in 1 .. m : r = [file |-> name, no |-> nos[k], line |-> text[nos[k]]]
  BY <1>1 DEF ToSet
<1>4. r.line = text[nos[k]] /\ nos[k] \in is
  BY <1>1, <1>3
<1>5. nos[k] \in DOMAIN text /\ text[nos[k]].len > 0
  <2>1. DOMAIN text = 1 .. Len(text)
    OBVIOUS
  <2>2. nos[k] \in 1 .. Len(text)
    BY <1>1, <1>4
  <2>3. QED
    BY <1>2, <1>4, <2>1, <2>2
<1>6. r.line \in ToSet(text)
  BY <1>4, <1>5 DEF ToSet
<1>7. ASSUME NEW other \in Nat PROVE \E q \in ToSet(Records(other, text)) : q.line = r.line
  <2>1. /\ DOMAIN Records(other, text) = 1 .. m
        /\ Records(other, text)[k].line = text[nos[k]]
    <3>1. Records(other, text) = [j \in 1 .. m |-> [file |-> other, no |-> nos[j], line |-> text[nos[j]]]]
      BY <1>1
    <3>2. QED
      BY <3>1
  <2>2. Records(other, text)[k] \in ToSet(Records(other, text))
    BY <2>1 DEF ToSet
  <2>3. QED
    BY <1>4, <2>1, <2>2
<1>8. QED
  BY <1>4, <1>5, <1>6, <1>7

LogFile == [file : Nat, text : Seq(Line)]

Logs == Seq(LogFile)

\* The records of a log.
Logged(evidence) == Joined([i \in DOMAIN evidence |-> Records(evidence[i].file, evidence[i].text)])

\* They are the records of its files.
LEMMA LoggedRecords ==
    ASSUME NEW evidence \in Logs
    PROVE  /\ Logged(evidence) \in Seq(Rec)
           /\ \A i \in DOMAIN evidence :
                 /\ evidence[i].file \in Nat /\ evidence[i].text \in Seq(Line)
                 /\ ToSet(Records(evidence[i].file, evidence[i].text)) \subseteq ToSet(Logged(evidence))
           /\ \A r \in ToSet(Logged(evidence)) : r.line.len > 0
<1> DEFINE parts == [i \in DOMAIN evidence |-> Records(evidence[i].file, evidence[i].text)]
           n == Len(evidence)
<1>1. n \in Nat /\ DOMAIN evidence = 1 .. n
  BY DEF Logs
<1>2. \A i \in DOMAIN evidence : evidence[i].file \in Nat /\ evidence[i].text \in Seq(Line)
  <2>1. \A e \in LogFile : e.file \in Nat /\ e.text \in Seq(Line)
    BY DEF LogFile
  <2>2. \A i \in DOMAIN evidence : evidence[i] \in LogFile
    BY DEF Logs
  <2>3. QED
    BY <2>1, <2>2
<1>3. \A i \in DOMAIN evidence : parts[i] = Records(evidence[i].file, evidence[i].text) /\ parts[i] \in Seq(Rec)
  BY <1>2, FileRecords
<1>4. parts \in Seq(Seq(Rec)) /\ DOMAIN parts = 1 .. n
  <2>1. ASSUME NEW Y, NEW f, f = [i \in 1 .. n |-> f[i]], \A i \in 1 .. n : f[i] \in Y
        PROVE  f \in Seq(Y) /\ DOMAIN f = 1 .. n
    BY <1>1, <2>1
  <2>2. parts = [i \in 1 .. n |-> parts[i]] /\ \A i \in 1 .. n : parts[i] \in Seq(Rec)
    BY <1>1, <1>3
  <2>3. QED
    BY <2>1, <2>2
<1>5. Logged(evidence) = Joined(parts)
  BY DEF Logged
<1> HIDE DEF parts, n
<1>6. Joined(parts) \in Seq(Rec)
  BY <1>4, JoinedIn
<1>7. /\ \A k \in DOMAIN parts : ToSet(parts[k]) \subseteq ToSet(Joined(parts))
      /\ \A r \in ToSet(Joined(parts)) : \E k \in DOMAIN parts : r \in ToSet(parts[k])
  BY <1>4, JoinedHolds
<1>8. ASSUME NEW r \in ToSet(Joined(parts)) PROVE r.line.len > 0
  <2>1. PICK k \in DOMAIN parts : r \in ToSet(parts[k])
    BY <1>7
  <2>2. k \in DOMAIN evidence
    BY <1>1, <1>4, <2>1
  <2>3. QED
    BY <1>2, <1>3, <2>1, <2>2, RecordLines
<1>9. QED
  BY <1>1, <1>2, <1>3, <1>4, <1>5, <1>6, <1>7, <1>8

\* The operations of a log are its segments, as lines.
LEMMA OperationsAre ==
    ASSUME NEW evidence
    PROVE  Operations(evidence) = {LinesOf(Segments(Logged(evidence))[k]) : k \in DOMAIN Segments(Logged(evidence))}
BY DEF Operations, Logged

\* The vendor's codes that articles about operations answer are codes with anchors.
LEMMA CodesAnchored ==
    ASSUME NEW code \in {FileMissing, Chain}
    PROVE  "missing" \in Anchors[code] /\ "invalid" \in Anchors[code]
<1>1. {"missing", "invalid"} \subseteq Anchors[FileMissing] /\ {"missing", "invalid"} \subseteq Anchors[Chain]
  BY SolutionsAssumption
<1>2. CASE code = FileMissing
  BY <1>1, <1>2
<1>3. CASE code = Chain
  BY <1>1, <1>3
<1>4. QED
  BY <1>2, <1>3

\* What the windows of a text show, the text shows.
LEMMA TextShows ==
    ASSUME NEW text \in Seq(Line), NEW s \in DOMAIN Segments(Records(1, text)), NEW anchors,
           NEW w \in CutOut(LinesOf(Segments(Records(1, text))[s]), anchors)
    PROVE  w \in Seq(Line) /\ \A l \in ToSet(w) : \E r \in ToSet(Records(1, text)) : l = r.line
<1> DEFINE recs == Records(1, text)
           lines == LinesOf(Segments(recs)[s])
<1>1. recs \in Seq(Rec)
  BY FileRecords
<1>2. lines \in Seq(Line) /\ \A l \in ToSet(lines) : \E r \in ToSet(recs) : l = r.line
  BY <1>1, SegmentLines
<1> HIDE DEF lines
<1>3. w \in CutOut(lines, anchors)
  BY DEF lines
<1>4. w \in Seq(Line) /\ ToSet(w) \subseteq ToSet(lines)
  BY <1>2, <1>3, WindowsCut
<1>5. QED
  BY <1>2, <1>4

\* An article about an operation that applies to a text of the context is met by one
\* operation of the log: where windows were cut, the text is one of them, inside of
\* one operation; where none was, no line has the mark that the article asks for.
LEMMA AppliesToOperation ==
    ASSUME NEW evidence \in Logs, NEW code, NEW id \in ToSet(ArticleOrder), Articles[id].operation,
           NEW text \in Context(evidence, code), Applies(id, code, text)
    PROVE  \E o \in Operations(evidence) : Gate(id, MarksOf(o))
<1> DEFINE recs == Logged(evidence)
           segs == Segments(recs)
           windows == UNION {CutOut(o, Anchors[code]) : o \in Operations(evidence)}
           blank == ""
<1>1. /\ recs \in Seq(Rec)
      /\ \A i \in DOMAIN evidence :
            /\ evidence[i].file \in Nat /\ evidence[i].text \in Seq(Line)
            /\ ToSet(Records(evidence[i].file, evidence[i].text)) \subseteq ToSet(recs)
  BY LoggedRecords
<1>2. Operations(evidence) = {LinesOf(segs[k]) : k \in DOMAIN segs}
  BY OperationsAre
<1>3. /\ \A k \in DOMAIN segs : LinesOf(segs[k]) \in Seq(Line)
      /\ \A r \in ToSet(recs) : \E k \in DOMAIN segs : r.line \in ToSet(LinesOf(segs[k]))
  BY <1>1, SegmentLines
<1>4. Context(evidence, code) = IF code = blank \/ windows = {} THEN {evidence[i].text : i \in DOMAIN evidence} ELSE windows
  BY Zenon DEF Context
<1>5. code \in {FileMissing, Chain} /\ code # blank
  <2>1. code \in Articles[id].codes
    BY DEF Applies
  <2>2. code \in {FileMissing, Chain}
    BY <2>1, OperationArticles
  <2>3. FileMissing # "" /\ Chain # ""
    BY DEF FileMissing, Chain
  <2>4. QED
    BY <2>2, <2>3
<1> HIDE DEF recs, segs, windows, blank
<1>6. PICK s \in DOMAIN Segments(Records(1, text)) :
        \E w \in CutOut(LinesOf(Segments(Records(1, text))[s]), Articles[id].anchors) : Gate(id, MarksOf(w))
  BY DEF Applies
<1>7. PICK w \in CutOut(LinesOf(Segments(Records(1, text))[s]), Articles[id].anchors) : Gate(id, MarksOf(w))
  BY <1>6
<1>8. ASSUME text \in Seq(Line)
      PROVE  w \in Seq(Line) /\ \A l \in ToSet(w) : \E r \in ToSet(Records(1, text)) : l = r.line
  BY <1>7, <1>8, TextShows
<1>9. CASE windows # {}
  <2>1. text \in windows
    BY <1>4, <1>5, <1>9
  <2>2. PICK o \in Operations(evidence) : text \in CutOut(o, Anchors[code])
    BY <2>1 DEF windows
  <2>3. o \in Seq(Line)
    BY <1>2, <1>3, <2>2
  <2>4. text \in Seq(Line) /\ ToSet(text) \subseteq ToSet(o)
    BY <2>2, <2>3, WindowsCut
  <2>5. ToSet(w) \subseteq ToSet(text)
    <3>1. \A r \in ToSet(Records(1, text)) : r.line \in ToSet(text)
      BY <2>4, RecordLines
    <3>2. QED
      BY <1>8, <2>4, <3>1
  <2>6. MarksOf(w) \subseteq MarksOf(o)
    <3>1. ToSet(w) \subseteq ToSet(o)
      BY <2>4, <2>5
    <3>2. QED
      BY <3>1, MarksGrow
  <2>7. QED
    BY <1>7, <2>2, <2>6, GateGrows
<1>10. CASE windows = {}
  <2>1. PICK i \in DOMAIN evidence : text = evidence[i].text
    BY <1>4, <1>10
  <2>2. evidence[i].file \in Nat /\ text \in Seq(Line)
        /\ ToSet(Records(evidence[i].file, text)) \subseteq ToSet(recs)
    BY <1>1, <2>1
  <2>3. PICK mark \in Articles[id].all : mark \in Anchors[code]
    <3>1. "missing" \in Anchors[code] /\ "invalid" \in Anchors[code]
      BY <1>5, CodesAnchored
    <3>2. QED
      BY <3>1, OperationArticles
  <2>4. mark \in MarksOf(w)
    BY <1>7, <2>3 DEF Gate
  <2>5. PICK j \in DOMAIN w : mark \in w[j].marks
    BY <2>4 DEF MarksOf
  <2>6. PICK r \in ToSet(Records(1, text)) : w[j] = r.line
    <3>1. w[j] \in ToSet(w)
      BY <2>5 DEF ToSet
    <3>2. QED
      BY <1>8, <2>2, <3>1
  <2>7. PICK q \in ToSet(Records(evidence[i].file, text)) : q.line = r.line
    BY <2>2, <2>6, RecordLines
  <2>8. PICK k \in DOMAIN segs : q.line \in ToSet(LinesOf(segs[k]))
    BY <1>3, <2>2, <2>7
  <2>9. PICK h \in DOMAIN LinesOf(segs[k]) : q.line = LinesOf(segs[k])[h]
    BY <2>8 DEF ToSet
  <2>10. LinesOf(segs[k])[h].marks \cap Anchors[code] # {}
    BY <2>3, <2>5, <2>6, <2>7, <2>9
  <2>11. CutOut(LinesOf(segs[k]), Anchors[code]) # {}
    BY <2>9, <2>10, AnchorsCut
  <2>12. QED
    BY <1>2, <1>10, <2>8, <2>11 DEF windows
<1>11. QED
  BY <1>9, <1>10

\* What is joined begins with the first two parts.
LEMMA JoinedBegins ==
    ASSUME NEW X, NEW parts \in Seq(Seq(X)), Len(parts) >= 2
    PROVE  /\ Len(parts[1]) + Len(parts[2]) <= Len(Joined(parts))
           /\ \A i \in 1 .. Len(parts[1]) + Len(parts[2]) : Joined(parts)[i] = (parts[1] \o parts[2])[i]
<1> DEFINE n == Len(parts)
           start == parts[1] \o parts[2]
           size == Len(parts[1]) + Len(parts[2])
           Begins(s) == size <= Len(s) /\ \A i \in 1 .. size : s[i] = start[i]
<1>1. n \in Nat /\ n >= 2 /\ DOMAIN parts = 1 .. n
  OBVIOUS
<1>2. parts[1] \in Seq(X) /\ parts[2] \in Seq(X)
  BY <1>1
<1>3. start \in Seq(X) /\ size \in Nat /\ Len(start) = size
  <2>1. ASSUME NEW s \in Seq(X), NEW t \in Seq(X)
        PROVE  s \o t \in Seq(X) /\ Len(s) + Len(t) \in Nat /\ Len(s \o t) = Len(s) + Len(t)
    OBVIOUS
  <2>2. QED
    BY <1>2, <2>1
<1>4. PICK acc \in [0 .. Len(parts) -> Seq(X)] :
        /\ acc[0] = <<>> /\ acc[Len(parts)] = Joined(parts)
        /\ \A k \in 1 .. Len(parts) : acc[k] = acc[k - 1] \o parts[k]
  BY JoinedRuns
<1>5. acc[2] = start
  <2>1. acc[1] = acc[1 - 1] \o parts[1] /\ acc[2] = acc[2 - 1] \o parts[2]
    <3>1. 1 \in 1 .. Len(parts) /\ 2 \in 1 .. Len(parts)
      BY <1>1
    <3>2. QED
      BY <1>4, <3>1
  <2>2. 1 - 1 = 0 /\ 2 - 1 = 1
    OBVIOUS
  <2>3. acc[1] = parts[1]
    <3>1. \A s \in Seq(X) : <<>> \o s = s
      OBVIOUS
    <3>2. acc[1] = <<>> \o parts[1]
      BY <1>4, <2>1, <2>2
    <3>3. QED
      BY <1>2, <3>1, <3>2
  <2>4. QED
    BY <2>1, <2>2, <2>3
<1>6. \A k \in 1 .. n : parts[k] \in Seq(X)
  BY <1>1
<1> HIDE DEF start, size
<1>7. ASSUME NEW s \in Seq(X), NEW t \in Seq(X), Begins(s) PROVE Begins(s \o t)
  <2>1. Len(s \o t) = Len(s) + Len(t) /\ Len(s) \in Nat /\ Len(t) \in Nat
        /\ \A i \in 1 .. Len(s) : (s \o t)[i] = s[i]
    OBVIOUS
  <2>2. \A i \in 1 .. size : i \in 1 .. Len(s)
    BY <1>3, <1>7, <2>1
  <2>3. QED
    BY <1>3, <1>7, <2>1, <2>2
<1>8. Begins(start)
  BY <1>3
<1> HIDE DEF Begins, n
<1> DEFINE good == {k \in 0 .. n : k < 2 \/ Begins(acc[k])}
<1>9. 0 \in good
  BY <1>1
<1>10. ASSUME NEW k \in 1 .. n, k - 1 \in good PROVE k \in good
  <2>1. k \in 0 .. n /\ k - 1 \in 0 .. n /\ (k < 2 \/ k = 2 \/ ~(k - 1 < 2))
    BY <1>1
  <2>2. CASE k = 2
    BY <1>5, <1>8, <2>1, <2>2
  <2>3. CASE ~(k - 1 < 2)
    <3>1. acc[k - 1] \in Seq(X) /\ acc[k] = acc[k - 1] \o parts[k]
      BY <1>4, <2>1 DEF n
    <3>2. Begins(acc[k - 1])
      BY <1>10, <2>3
    <3>3. Begins(acc[k])
      BY <1>6, <1>7, <3>1, <3>2
    <3>4. QED
      BY <2>1, <3>3
  <2>4. QED
    BY <2>1, <2>2, <2>3
<1>11. n \in good
  <2>1. n \in 0 .. n
    BY <1>1
  <2> HIDE DEF good
  <2>2. QED
    BY <1>1, <1>9, <1>10, <2>1, Upwards
<1>12. Begins(Joined(parts))
  BY <1>1, <1>4, <1>11 DEF n
<1>13. QED
  BY <1>12 DEF Begins, start, size

\* Records of one operation, in the order of their places and near to each other, are
\* one segment: a second one would begin with a record that fits the first.
LEMMA OneSegment ==
    ASSUME NEW recs \in Seq(Rec), Apart(recs), OneOperation(recs), recs # <<>>,
           \A i, j \in DOMAIN recs : i < j => SourceBefore(recs[i], recs[j]),
           \A i \in 1 .. Len(recs) - 1 : recs[i + 1].no - recs[i].no <= Gap
    PROVE  Segments(recs) = <<recs>>
<1> DEFINE segs == Segments(recs)
           sorted == Sorted(recs, SourceBefore)
           n == Len(segs)
           m == Len(recs)
<1>1. sorted = recs
  <2>1. /\ sorted \in Seq(Rec) /\ ToSet(sorted) = ToSet(recs)
        /\ \A i, j \in DOMAIN sorted : i < j => <<sorted[i], sorted[j]>> \in SourceOrder
    BY SortedApart
  <2> HIDE DEF sorted
  <2>2. \A x, y : <<x, y>> \in SourceOrder => <<y, x>> \notin SourceOrder
    BY OrdersStrict DEF SourceOrder
  <2>3. \A i, j \in DOMAIN recs : i < j => <<recs[i], recs[j]>> \in SourceOrder
    BY DEF SourceOrder
  <2>4. QED
    BY <2>1, <2>2, <2>3, ListedOnce
<1>2. segs \in Seq(Seq(Rec)) /\ \A k \in DOMAIN segs : segs[k] # <<>>
  BY SegmentsFilled
<1>3. Joined(segs) = recs /\ \A k \in 1 .. n - 1 : Parted(segs[k], segs[k + 1])
  <2>1. Cleft(segs, sorted)
    BY SegmentsCleft
  <2>2. QED
    BY <1>1, <2>1 DEF Cleft
<1>4. n \in Nat /\ DOMAIN segs = 1 .. n /\ m \in Nat /\ DOMAIN recs = 1 .. m
  BY <1>2
<1> HIDE DEF segs, sorted
<1>5. PICK acc \in [0 .. Len(segs) -> Seq(Rec)] :
        /\ acc[0] = <<>> /\ acc[Len(segs)] = Joined(segs)
        /\ \A k \in 1 .. Len(segs) : acc[k] = acc[k - 1] \o segs[k]
  BY <1>2, JoinedRuns
<1>6. n # 0
  BY <1>3, <1>5
<1>7. ASSUME n >= 2 PROVE FALSE
  <2> DEFINE a == segs[1]
             b == segs[2]
             l == Len(a)
             all == Append(a, b[1])
  <2>1. a \in Seq(Rec) /\ b \in Seq(Rec) /\ a # <<>> /\ b # <<>>
    <3>1. 1 \in DOMAIN segs /\ 2 \in DOMAIN segs
      BY <1>4, <1>7
    <3>2. QED
      BY <1>2, <3>1
  <2>2. Parted(a, b)
    <3>1. 1 \in 1 .. n - 1 /\ 1 + 1 = 2
      BY <1>4, <1>7
    <3>2. QED
      BY <1>3, <3>1
  <2>3. Len(a) + Len(b) <= m /\ \A i \in 1 .. Len(a) + Len(b) : recs[i] = (a \o b)[i]
    BY <1>2, <1>3, <1>7, JoinedBegins
  <2> HIDE DEF a, b, m
  <2>4. /\ l \in Nat /\ l >= 1 /\ l + 1 <= Len(a) + Len(b) /\ Len(all) = l + 1 /\ DOMAIN all = 1 .. l + 1
        /\ (a \o b)[l + 1] = b[1] /\ all[l + 1] = b[1]
        /\ \A i \in 1 .. l : (a \o b)[i] = a[i] /\ all[i] = a[i]
    <3>1. Len(a) \in Nat /\ Len(b) \in Nat /\ Len(a) # 0 /\ Len(b) # 0
      BY <2>1
    <3>2. QED
      BY <2>1, <3>1
  <2> HIDE DEF l, all
  <2>5. l + 1 <= m /\ \A i \in 1 .. l + 1 : all[i] = recs[i]
    <3>1. Len(a) + Len(b) \in Nat
      BY <2>1
    <3>2. \A i \in 1 .. l + 1 : i \in 1 .. Len(a) + Len(b) /\ (i \in 1 .. l \/ i = l + 1)
      BY <2>4, <3>1
    <3>3. QED
      BY <1>4, <2>3, <2>4, <3>1, <3>2
  <2>6. /\ 1 \in 1 .. m /\ l \in 1 .. m /\ l + 1 \in 1 .. m /\ l \in 1 .. m - 1 /\ 1 \in 1 .. l
        /\ 1 \in 1 .. l + 1 /\ l \in 1 .. l + 1 /\ l + 1 \in 1 .. l + 1 /\ l \in 1 .. l
    BY <1>4, <2>4, <2>5
  <2>7. a[1] = recs[1] /\ a[l] = recs[l] /\ b[1] = recs[l + 1]
    BY <2>4, <2>5, <2>6
  <2>8. \A i, j \in 1 .. m : i < j => Fitting(recs, i, j)
    BY <1>4, OneByPairs
  <2>9. b[1].file = a[1].file
    <3>1. Fitting(recs, 1, l + 1)
      BY <2>4, <2>6, <2>8
    <3>2. recs[1].file = recs[l + 1].file
      BY <3>1 DEF Fitting, Suits
    <3>3. QED
      BY <2>7, <3>2
  <2>10. b[1].no - a[Len(a)].no <= Gap
    <3>1. recs[l + 1].no - recs[l].no <= Gap
      BY <2>6 DEF m
    <3>2. QED
      BY <2>7, <3>1 DEF l
  <2>11. OneOperation(all)
    <3>1. ASSUME NEW i \in 1 .. l + 1, NEW j \in 1 .. l + 1, i < j PROVE Fitting(all, i, j)
      <4>1. i \in Nat /\ j \in Nat /\ i \in 1 .. m /\ j \in 1 .. m /\ \A k \in i .. j : k \in 1 .. l + 1
        BY <1>4, <2>4, <2>5
      <4>2. \A k \in i .. j : all[k] = recs[k]
        BY <2>5, <4>1
      <4>3. Fitting(recs, i, j)
        BY <2>8, <3>1, <4>1
      <4>4. QED
        BY <3>1, <4>1, <4>2, <4>3, FittingStays
    <3>2. QED
      BY <2>4, <3>1, OneByPairs
  <2>12. QED
    BY <2>2, <2>9, <2>10, <2>11 DEF Parted, all
<1>8. n = 1
  BY <1>4, <1>6, <1>7
<1>9. segs[1] \in Seq(Rec) /\ acc[1] = <<>> \o segs[1]
  <2>1. 1 \in DOMAIN segs /\ 1 \in 1 .. Len(segs) /\ 1 - 1 = 0
    BY <1>4, <1>8
  <2>2. acc[1] = acc[1 - 1] \o segs[1]
    BY <1>5, <2>1
  <2>3. QED
    BY <1>2, <1>5, <2>1, <2>2
<1>10. segs[1] = recs
  <2>1. \A s \in Seq(Rec) : <<>> \o s = s
    OBVIOUS
  <2>2. acc[1] = recs
    BY <1>3, <1>5, <1>8
  <2>3. QED
    BY <1>9, <2>1, <2>2
<1>11. segs = <<recs>>
  BY <1>2, <1>8, <1>10
<1>12. QED
  BY <1>11 DEF segs

\* All numbers up to n, listed upward, stand at their own places.
LEMMA UpwardAll ==
    ASSUME NEW n \in Nat
    PROVE  Upward(1 .. n) = [k \in 1 .. n |-> k] /\ Cardinality(1 .. n) = n
<1> DEFINE s == Upward(1 .. n)
           t == [k \in 1 .. n |-> k]
           R == {p \in Int \X Int : p[1] < p[2]}
<1>1. Cardinality(1 .. n) = n
  BY FilesCounted
<1>2. /\ s \in [1 .. n -> 1 .. n]
      /\ \A x \in 1 .. n : \E k \in 1 .. n : s[k] = x
      /\ \A i, j \in 1 .. n : i < j => s[i] < s[j]
  BY <1>1, UpwardLists
<1> HIDE DEF s
<1>3. s \in Seq(Int) /\ t \in Seq(Int) /\ DOMAIN s = 1 .. n /\ DOMAIN t = 1 .. n
  <2>1. \A k \in 1 .. n : s[k] \in Int
    BY <1>2
  <2>2. s = [k \in 1 .. n |-> s[k]]
    BY <1>2
  <2>3. QED
    BY <2>1, <2>2
<1>4. ToSet(s) = ToSet(t)
  <2>1. \A x : x \in ToSet(t) <=> x \in 1 .. n
    BY DEF ToSet
  <2>2. \A x : x \in ToSet(s) <=> x \in 1 .. n
    BY <1>2, <1>3 DEF ToSet
  <2>3. QED
    BY <2>1, <2>2
<1>5. \A x, y : <<x, y>> \in R => <<y, x>> \notin R
  OBVIOUS
<1>6. \A i, j \in DOMAIN s : i < j => <<s[i], s[j]>> \in R
  <2>1. \A k \in 1 .. n : s[k] \in Int
    BY <1>2
  <2>2. QED
    BY <1>2, <1>3, <2>1
<1>7. \A i, j \in DOMAIN t : i < j => <<t[i], t[j]>> \in R
  OBVIOUS
<1> HIDE DEF t, R
<1>8. s = t
  BY <1>3, <1>4, <1>5, <1>6, <1>7, ListedOnce
<1>9. QED
  BY <1>1, <1>8 DEF s, t

\* A text that is short and has no blank line is recorded line by line.
LEMMA ShortRecords ==
    ASSUME NEW text \in Seq(Line), Length(text) <= MaxChars, \A k \in DOMAIN text : text[k].len > 0
    PROVE  /\ Records(1, text) = [k \in 1 .. Len(text) |-> [file |-> 1, no |-> k, line |-> text[k]]]
           /\ LinesOf(Records(1, text)) = text
<1> DEFINE n == Len(text)
           recs == Records(1, text)
<1>1. n \in Nat /\ DOMAIN text = 1 .. n
  OBVIOUS
<1>2. Recorded(text) = 1 .. n
  <2>1. Length(text) \in Int /\ MaxChars \in Int
    BY LengthWhole, CompactionAssumption
  <2>2. ~(Length(text) > MaxChars)
    BY <2>1
  <2>3. Recorded(text) = {i \in DOMAIN text : text[i].len > 0}
    BY <2>2 DEF Recorded
  <2>4. QED
    BY <1>1, <2>3
<1>3. recs = [k \in 1 .. Cardinality(1 .. n) |->
                [file |-> 1, no |-> Upward(1 .. n)[k], line |-> text[Upward(1 .. n)[k]]]]
  BY <1>2, FileRecords
<1>4. Upward(1 .. n) = [k \in 1 .. n |-> k] /\ Cardinality(1 .. n) = n
  BY <1>1, UpwardAll
<1>5. \A k \in 1 .. n : Upward(1 .. n)[k] = k
  BY <1>4
<1>6. recs = [k \in 1 .. n |-> [file |-> 1, no |-> k, line |-> text[k]]]
  BY <1>3, <1>4, <1>5
<1> HIDE DEF recs, n
<1>7. DOMAIN recs = 1 .. n /\ \A k \in 1 .. n : recs[k].line = text[k]
  BY <1>6
<1>8. LinesOf(recs) = [k \in 1 .. n |-> text[k]]
  BY <1>7 DEF LinesOf
<1>9. text = [k \in 1 .. n |-> text[k]]
  BY <1>1 DEF n
<1>10. QED
  BY <1>6, <1>8, <1>9 DEF recs, n

\* A window cut out of an operation, numbered anew, is of one operation: what is
\* between two of its lines was between them in the operation.
LEMMA WindowOne ==
    ASSUME NEW seg \in Seq(Rec), OneOperation(seg), NEW i \in DOMAIN seg,
           NEW is \in SUBSET DOMAIN seg, \A j \in DOMAIN seg : j \in is <=> Distance(i, j) <= Gap,
           NEW recs \in Seq(Rec), DOMAIN recs = 1 .. Cardinality(is),
           \A k \in DOMAIN recs : recs[k].file = 1 /\ recs[k].line = seg[Upward(is)[k]].line
    PROVE  OneOperation(recs) /\ recs # <<>>
<1> DEFINE m == Cardinality(is)
           n == Len(seg)
           nos == Upward(is)
<1>1. n \in Nat /\ DOMAIN seg = 1 .. n /\ i \in 1 .. n
  OBVIOUS
<1>2. is \in SUBSET (1 .. n)
  BY <1>1
<1>3. /\ m \in Nat /\ nos \in [1 .. m -> is] /\ \A x \in is : \E k \in 1 .. m : nos[k] = x
      /\ \A a, b \in 1 .. m : a < b => nos[a] < nos[b]
  BY <1>1, <1>2, UpwardLists
<1>4. Gap \in Nat
  BY CompactionAssumption
<1>5. \A a, b \in is : \A c \in 1 .. n : a < c /\ c < b => c \in is
  <2> SUFFICES ASSUME NEW a \in is, NEW b \in is, NEW c \in 1 .. n, a < c, c < b PROVE Distance(i, c) <= Gap
    BY <1>1
  <2>1. a \in 1 .. n /\ b \in 1 .. n /\ Distance(i, a) <= Gap /\ Distance(i, b) <= Gap
    BY <1>1
  <2>2. QED
    BY <1>1, <1>4, <2>1 DEF Distance
<1>6. i \in is
  <2>1. Distance(i, i) = 0
    BY <1>1 DEF Distance
  <2>2. QED
    BY <1>4, <2>1
<1>7. \A k \in 1 .. m : recs[k].file = 1 /\ recs[k].line = seg[nos[k]].line
  OBVIOUS
<1>8. \A a, b \in 1 .. n : a < b => Fitting(seg, a, b)
  BY <1>1, OneByPairs
<1> HIDE DEF m, n, nos
<1>9. ASSUME NEW a \in 1 .. m, NEW b \in 1 .. m, a < b PROVE Fitting(recs, a, b)
  <2> DEFINE x == nos[a]
             y == nos[b]
  <2>1. x \in is /\ y \in is /\ x < y /\ x \in 1 .. n /\ y \in 1 .. n
    BY <1>2, <1>3, <1>9
  <2>2. Fitting(seg, x, y)
    BY <1>8, <2>1
  <2>3. /\ recs[a].file = recs[b].file
        /\ recs[a].line = seg[x].line /\ recs[b].line = seg[y].line
    BY <1>7
  <2>4. Suits(recs[a], recs[b])
    <3>1. Suits(seg[x], seg[y])
      BY <2>2 DEF Fitting
    <3> HIDE DEF x, y
    <3>2. QED
      BY <2>3, <3>1, Zenon DEF Suits
  <2>5. ASSUME \A k \in a + 1 .. b - 1 : recs[k].line.at = Untimed PROVE Near(recs[a], recs[b])
    <3>1. ASSUME NEW c \in x + 1 .. y - 1 PROVE seg[c].line.at = Untimed
      <4>1. c \in 1 .. n /\ x < c /\ c < y
        BY <1>1, <2>1
      <4>2. c \in is
        BY <1>5, <2>1, <4>1
      <4>3. PICK k \in 1 .. m : nos[k] = c
        BY <1>3, <4>2
      <4>4. a < k /\ k < b
        <5>1. ~(k < a) /\ ~(b < k) /\ k # a /\ k # b
          <6>1. \A u, v \in is : u \in Int /\ v \in Int
            BY <1>2
          <6>2. \A u, v \in 1 .. n : ~(u < v /\ v < u) /\ ~(u < u)
            BY <1>1
          <6>3. QED
            BY <1>3, <2>1, <4>1, <4>3, <6>1, <6>2
        <5>2. QED
          BY <1>3, <5>1
      <4>5. k \in a + 1 .. b - 1
        BY <1>3, <4>4
      <4>6. recs[k].line = seg[c].line
        BY <1>7, <4>3
      <4>7. QED
        BY <2>5, <4>5, <4>6
    <3>2. Near(seg[x], seg[y])
      BY <2>2, <3>1 DEF Fitting
    <3> HIDE DEF x, y
    <3>3. QED
      BY <2>3, <3>2, Zenon DEF Near
  <2>6. QED
    BY <2>4, <2>5 DEF Fitting
<1>10. OneOperation(recs)
  <2>1. DOMAIN recs = 1 .. m
    BY DEF m
  <2>2. QED
    BY <1>9, <2>1, OneByPairs
<1>11. recs # <<>>
  <2>1. PICK k \in 1 .. m : nos[k] = i
    BY <1>3, <1>6
  <2>2. k \in DOMAIN recs
    BY <2>1 DEF m
  <2>3. DOMAIN <<>> = {}
    OBVIOUS
  <2>4. QED
    BY <2>2, <2>3
<1>12. QED
  BY <1>10, <1>11

\* A window cut out of an operation of the log is one segment, numbered anew.
LEMMA WindowsWhole ==
    ASSUME NEW evidence \in Logs, NEW o \in Operations(evidence), NEW anchors, NEW w \in CutOut(o, anchors),
           Length(w) <= MaxChars
    PROVE  Len(Segments(Records(1, w))) = 1 /\ LinesOf(Segments(Records(1, w))[1]) = w
<1> DEFINE log == Logged(evidence)
           recs == Records(1, w)
<1>1. log \in Seq(Rec) /\ \A r \in ToSet(log) : r.line.len > 0
  BY LoggedRecords
<1>2. PICK k \in DOMAIN Segments(log) : o = LinesOf(Segments(log)[k])
  BY OperationsAre
<1> DEFINE seg == Segments(log)[k]
<1>3. seg \in Seq(Rec) /\ OneOperation(seg) /\ \A l \in ToSet(o) : \E r \in ToSet(log) : l = r.line
  <2>1. seg \in Seq(Rec) /\ \A l \in ToSet(o) : \E r \in ToSet(log) : l = r.line
    BY <1>1, <1>2, SegmentLines
  <2>2. Cleft(Segments(log), Sorted(log, SourceBefore))
    BY <1>1, SegmentsCleft
  <2>3. QED
    BY <2>1, <2>2 DEF Cleft
<1> HIDE DEF log, seg
<1>4. o = LinesOf(seg)
  BY <1>2 DEF seg
<1>5. /\ o \in Seq(Line) /\ DOMAIN o = 1 .. Len(seg) /\ \A j \in 1 .. Len(seg) : o[j] = seg[j].line
  BY <1>3, <1>4, LinesAre
<1>6. w \in Seq(Line) /\ ToSet(w) \subseteq ToSet(o)
  BY <1>5, WindowsCut
<1>7. PICK i \in DOMAIN o : w = Keep(o, {j \in DOMAIN o : Distance(i, j) <= Gap})
  BY DEF CutOut
<1> DEFINE is == {j \in DOMAIN seg : Distance(i, j) <= Gap}
<1>8. i \in DOMAIN seg /\ DOMAIN seg = DOMAIN o
  BY <1>3, <1>5
<1>9. w = Keep(o, is) /\ is \in SUBSET DOMAIN o
  BY <1>7, <1>8
<1> HIDE DEF is
<1>10. /\ DOMAIN w = 1 .. Cardinality(is) /\ Cardinality(is) \in Nat /\ Upward(is) \in [1 .. Cardinality(is) -> is]
       /\ \A j \in 1 .. Cardinality(is) : w[j] = o[Upward(is)[j]]
  BY <1>5, <1>9, KeepPicks
<1>11. \A j \in DOMAIN w : w[j].len > 0
  <2> SUFFICES ASSUME NEW j \in DOMAIN w PROVE w[j].len > 0
    OBVIOUS
  <2>1. w[j] \in ToSet(o)
    BY <1>6 DEF ToSet
  <2>2. QED
    BY <1>1, <1>3, <2>1
<1>12. recs = [j \in 1 .. Len(w) |-> [file |-> 1, no |-> j, line |-> w[j]]] /\ LinesOf(recs) = w
  BY <1>6, <1>11, ShortRecords
<1>13. Len(w) = Cardinality(is)
  BY <1>6, <1>10
<1>14. recs \in Seq(Rec) /\ Apart(recs)
  BY <1>6, FileRecords, FileApart
<1> HIDE DEF recs
<1>15. DOMAIN recs = 1 .. Cardinality(is) /\ Len(recs) = Cardinality(is)
  <2>1. DOMAIN recs = 1 .. Cardinality(is)
    BY <1>12, <1>13
  <2>2. DOMAIN recs = 1 .. Len(recs) /\ Len(recs) \in Nat
    BY <1>14
  <2>3. QED
    BY <1>10, <2>1, <2>2
<1>16. \A j \in DOMAIN recs : recs[j].file = 1 /\ recs[j].no = j /\ recs[j].line = w[j]
  BY <1>12
<1>17. \A j \in DOMAIN recs : recs[j].file = 1 /\ recs[j].line = seg[Upward(is)[j]].line
  <2> SUFFICES ASSUME NEW j \in DOMAIN recs PROVE recs[j].line = seg[Upward(is)[j]].line
    BY <1>16
  <2>1. Upward(is)[j] \in 1 .. Len(seg)
    BY <1>5, <1>9, <1>10, <1>15
  <2>2. QED
    BY <1>5, <1>10, <1>15, <1>16, <2>1
<1>18. OneOperation(recs) /\ recs # <<>>
  <2>1. is \in SUBSET DOMAIN seg /\ \A j \in DOMAIN seg : j \in is <=> Distance(i, j) <= Gap
    BY DEF is
  <2>2. QED
    BY <1>3, <1>8, <1>14, <1>15, <1>17, <2>1, WindowOne
<1>19. \A a, b \in DOMAIN recs : a < b => SourceBefore(recs[a], recs[b])
  BY <1>16 DEF SourceBefore
<1>20. \A a \in 1 .. Len(recs) - 1 : recs[a + 1].no - recs[a].no <= Gap
  <2> SUFFICES ASSUME NEW a \in 1 .. Len(recs) - 1 PROVE recs[a + 1].no - recs[a].no <= Gap
    OBVIOUS
  <2>1. a \in DOMAIN recs /\ a + 1 \in DOMAIN recs /\ a \in Nat
    BY <1>10, <1>15
  <2>2. recs[a + 1].no = a + 1 /\ recs[a].no = a
    BY <1>16, <2>1
  <2>3. Gap \in Nat /\ Gap # 0
    BY CompactionAssumption
  <2>4. QED
    BY <2>1, <2>2, <2>3
<1>21. Segments(recs) = <<recs>>
  BY <1>14, <1>18, <1>19, <1>20, OneSegment
<1>22. Len(<<recs>>) = 1 /\ <<recs>>[1] = recs
  OBVIOUS
<1>23. QED
  BY <1>12, <1>21, <1>22 DEF recs

\* The articles a request may cite.
Cited(r) == {id \in ToSet(ArticleOrder) : Allowed(r, id)}

\* The references are the articles the evidence allows, and so is what a summary names.
LEMMA ReferencesCited ==
    ASSUME NEW r
    PROVE  /\ ToSet(References(r)) = Cited(r)
           /\ \A ids \in SUBSET ToSet(ArticleOrder) : Named(r, ids) \subseteq Cited(r)
<1> DEFINE is == {k \in DOMAIN ArticleOrder : Allowed(r, ArticleOrder[k])}
<1> DEFINE all == {"a424591", "a418256", "a442155", "a411756", "a318905", "a450780", "a452165"}
<1>1. ArticleOrder \in Seq(all)
  BY DEF ArticleOrder
<1>2. is \in SUBSET DOMAIN ArticleOrder
  OBVIOUS
<1>3. References(r) = Keep(ArticleOrder, is)
  BY DEF References
<1>4. ToSet(Keep(ArticleOrder, is)) = {ArticleOrder[k] : k \in is}
  <2> HIDE DEF is
  <2>1. QED
    BY <1>1, <1>2, KeepPicks
<1>5. {ArticleOrder[k] : k \in is} = Cited(r)
  <2>1. ToSet(ArticleOrder) = {ArticleOrder[k] : k \in DOMAIN ArticleOrder}
    BY DEF ToSet
  <2>2. QED
    BY <2>1 DEF Cited
<1>6. \A ids \in SUBSET ToSet(ArticleOrder) : Named(r, ids) \subseteq Cited(r)
  BY DEF Named, Cited
<1>7. QED
  BY <1>3, <1>4, <1>5, <1>6

\* An entry says something, and names what the evidence allows.
Says(e, r) == e.causes >= 1 /\ e.steps >= 1 /\ e.names \subseteq Cited(r)

\* So it is for each code, whatever the evidence lacks.
LEMMA EntriesSay ==
    ASSUME NEW r
    PROVE  Says(CbtEntry(r), r) /\ Says(MissingEntry(r), r) /\ \A config \in BOOLEAN : Says(ChainEntry(r, config), r)
<1>1. ToSet(ArticleOrder) = {"a424591", "a418256", "a442155", "a411756", "a318905", "a450780", "a452165"}
  <2>1. DOMAIN ArticleOrder = 1 .. 7
    BY DEF ArticleOrder
  <2>2. \A x : x \in ToSet(ArticleOrder) <=> \E k \in 1 .. 7 : x = ArticleOrder[k]
    BY <2>1 DEF ToSet
  <2>3. /\ ArticleOrder[1] = "a424591" /\ ArticleOrder[2] = "a418256" /\ ArticleOrder[3] = "a442155"
        /\ ArticleOrder[4] = "a411756" /\ ArticleOrder[5] = "a318905" /\ ArticleOrder[6] = "a450780"
        /\ ArticleOrder[7] = "a452165"
    BY DEF ArticleOrder
  <2>4. \A k : k \in 1 .. 7 <=> k = 1 \/ k = 2 \/ k = 3 \/ k = 4 \/ k = 5 \/ k = 6 \/ k = 7
    OBVIOUS
  <2>5. QED
    BY <2>2, <2>3, <2>4
<1>2. \A ids \in SUBSET ToSet(ArticleOrder) : Named(r, ids) \subseteq Cited(r)
  BY ReferencesCited
<1>3. Says(CbtEntry(r), r)
  <2>1. Named(r, {"a418256", "a442155", "a411756"}) \subseteq Cited(r)
    BY <1>1, <1>2
  <2>2. QED
    BY <2>1 DEF Says, CbtEntry
<1>4. Says(MissingEntry(r), r)
  <2> DEFINE named == Named(r, {"a424591", "a318905", "a450780", "a452165", "a411756"})
             supposed == named \cap {"a452165", "a450780", "a411756"}
  <2>1. named \subseteq Cited(r)
    BY <1>1, <1>2
  <2>2. Cardinality(supposed) \in Nat
    <3>1. IsFiniteSet({"a452165", "a450780", "a411756"})
      <4>1. IsFiniteSet({"a452165"})
        BY FS_Singleton
      <4>2. IsFiniteSet({"a452165"} \cup {"a450780"})
        BY <4>1, FS_AddElement
      <4>3. IsFiniteSet(({"a452165"} \cup {"a450780"}) \cup {"a411756"})
        BY <4>2, FS_AddElement
      <4>4. ({"a452165"} \cup {"a450780"}) \cup {"a411756"} = {"a452165", "a450780", "a411756"}
        OBVIOUS
      <4>5. QED
        BY <4>3, <4>4
    <3>2. supposed \subseteq {"a452165", "a450780", "a411756"}
      OBVIOUS
    <3> HIDE DEF supposed
    <3>3. QED
      BY <3>1, <3>2, FS_Subset, FS_CardinalityType
  <2>3. MissingEntry(r) = [causes |-> IF supposed = {} THEN 2 ELSE 1 + Cardinality(supposed), steps |-> 3, names |-> named]
    BY DEF MissingEntry
  <2> HIDE DEF named, supposed
  <2>4. QED
    BY <2>1, <2>2, <2>3 DEF Says
<1>5. ASSUME NEW config \in BOOLEAN PROVE Says(ChainEntry(r, config), r)
  BY DEF Says, ChainEntry
<1>6. QED
  BY <1>3, <1>4, <1>5

\* So does what is written from the pages, however little they yield.
LEMMA PagesSay ==
    ASSUME NEW c \in 0 .. 3, NEW s \in 0 .. 5, NEW app
    PROVE  Written(c, s, app).causes >= 1 /\ Written(c, s, app).steps >= 1
<1>1. \A n \in Nat : /\ Completed(n, FallbackCauses) >= 1 /\ Completed(n, VendorCauses) >= 1
                     /\ Replaced(n, FallbackSteps) >= 1 /\ Replaced(n, VendorSteps) >= 1
                     /\ Replaced(n, FallbackSteps) \in Nat
  BY DEF Completed, Replaced, UniqueItems, Least, FallbackCauses, VendorCauses, FallbackSteps, VendorSteps
<1>2. \A n \in Nat : UniqueItems(SpecificCauses + n, 3) >= 1 /\ UniqueItems(SpecificSteps + n, 5) >= 1
  BY DEF UniqueItems, Least, SpecificCauses, SpecificSteps
<1>3. VendorCauses >= 1 /\ VendorSteps >= 1
  BY DEF VendorCauses, VendorSteps
<1>4. \/ Written(c, s, app) = [causes |-> 2, steps |-> 3]
      \/ Written(c, s, app) = [causes |-> VendorCauses, steps |-> VendorSteps]
      \/ Written(c, s, app) = [causes |-> UniqueItems(SpecificCauses + c, 3),
                               steps |-> UniqueItems(SpecificSteps + Replaced(s, FallbackSteps), 5)]
      \/ Written(c, s, app) = [causes |-> Completed(c, FallbackCauses), steps |-> Replaced(s, FallbackSteps)]
      \/ Written(c, s, app) = [causes |-> Completed(c, VendorCauses), steps |-> Replaced(s, VendorSteps)]
  BY DEF Written
<1>5. c \in Nat /\ s \in Nat
  OBVIOUS
<1>6. Replaced(s, FallbackSteps) \in Nat
  BY <1>1, <1>5
<1>7. QED
  BY <1>1, <1>2, <1>3, <1>4, <1>5, <1>6

-----------------------------------------------------------------------------
(* The search: no reference is given twice.                                 *)

\* The addresses of pages.
Urls(pages) == {pages[k].url : k \in DOMAIN pages}

\* What is kept of pages that differ are pages that differ.
LEMMA KeptOnce ==
    ASSUME NEW X, NEW s \in Seq(X), GivenOnce(s), NEW is \in SUBSET DOMAIN s
    PROVE  /\ Keep(s, is) \in Seq(X) /\ GivenOnce(Keep(s, is))
           /\ Urls(Keep(s, is)) \subseteq {s[i].url : i \in is}
<1> DEFINE m == Cardinality(is)
           nos == Upward(is)
           t == Keep(s, is)
<1>1. DOMAIN s = 1 .. Len(s) /\ Len(s) \in Nat
  OBVIOUS
<1>2. /\ t \in Seq(X) /\ DOMAIN t = 1 .. m /\ m \in Nat
      /\ nos \in [1 .. m -> is] /\ \A k \in 1 .. m : t[k] = s[nos[k]]
  BY KeepPicks
<1>3. \A i, j \in 1 .. m : i < j => nos[i] < nos[j]
  BY <1>1, UpwardLists
<1> HIDE DEF m, nos, t
<1>4. ASSUME NEW i \in DOMAIN t, NEW j \in DOMAIN t, t[i].url = t[j].url PROVE i = j
  <2>1. nos[i] \in DOMAIN s /\ nos[j] \in DOMAIN s /\ s[nos[i]].url = s[nos[j]].url
    BY <1>2, <1>4
  <2>2. nos[i] = nos[j]
    BY <2>1 DEF GivenOnce
  <2>3. nos[i] \in Int /\ nos[j] \in Int /\ i \in 1 .. m /\ j \in 1 .. m
    BY <1>1, <1>2, <2>1
  <2>4. ~(i < j) /\ ~(j < i)
    BY <1>3, <2>2, <2>3
  <2>5. QED
    BY <1>2, <2>3, <2>4
<1>5. Urls(t) \subseteq {s[i].url : i \in is}
  BY <1>2 DEF Urls
<1>6. QED
  BY <1>2, <1>4, <1>5 DEF GivenOnce, t

\* Pages that differ before pages that differ from them and among each other.
LEMMA BothOnce ==
    ASSUME NEW X, NEW a \in Seq(X), NEW b \in Seq(X), GivenOnce(a), GivenOnce(b), Urls(a) \cap Urls(b) = {}
    PROVE  a \o b \in Seq(X) /\ GivenOnce(a \o b) /\ Urls(a \o b) = Urls(a) \cup Urls(b)
<1> DEFINE n == Len(a)
           m == Len(b)
           c == a \o b
<1>1. /\ n \in Nat /\ m \in Nat /\ DOMAIN a = 1 .. n /\ DOMAIN b = 1 .. m
      /\ c \in Seq(X) /\ DOMAIN c = 1 .. n + m
      /\ \A k \in 1 .. n : c[k] = a[k]
      /\ \A k \in 1 .. n + m : k > n => c[k] = b[k - n]
  OBVIOUS
<1>2. \A k \in 1 .. m : n + k \in 1 .. n + m /\ c[n + k] = b[k]
  BY <1>1
<1> HIDE DEF n, m, c
<1>3. ASSUME NEW i \in 1 .. n + m, NEW j \in 1 .. n + m, c[i].url = c[j].url PROVE i = j
  <2>1. CASE i <= n /\ j <= n
    <3>1. i \in DOMAIN a /\ j \in DOMAIN a /\ a[i].url = a[j].url
      BY <1>1, <1>3, <2>1
    <3>2. QED
      BY <3>1 DEF GivenOnce
  <2>2. CASE i > n /\ j > n
    <3>1. i - n \in DOMAIN b /\ j - n \in DOMAIN b /\ b[i - n].url = b[j - n].url
      BY <1>1, <1>3, <2>2
    <3>2. i - n = j - n
      BY <3>1 DEF GivenOnce
    <3>3. QED
      BY <1>1, <3>2
  <2>3. CASE i <= n /\ j > n
    <3>1. i \in DOMAIN a /\ j - n \in DOMAIN b /\ a[i].url = b[j - n].url
      BY <1>1, <1>3, <2>3
    <3>2. a[i].url \in Urls(a) /\ b[j - n].url \in Urls(b)
      BY <3>1 DEF Urls
    <3>3. QED
      BY <3>1, <3>2
  <2>4. CASE i > n /\ j <= n
    <3>1. j \in DOMAIN a /\ i - n \in DOMAIN b /\ a[j].url = b[i - n].url
      BY <1>1, <1>3, <2>4
    <3>2. a[j].url \in Urls(a) /\ b[i - n].url \in Urls(b)
      BY <3>1 DEF Urls
    <3>3. QED
      BY <3>1, <3>2
  <2>5. QED
    BY <1>1, <2>1, <2>2, <2>3, <2>4
<1>4. Urls(c) \subseteq Urls(a) \cup Urls(b)
  <2> SUFFICES ASSUME NEW k \in 1 .. n + m PROVE c[k].url \in Urls(a) \cup Urls(b)
    BY <1>1 DEF Urls
  <2>1. CASE k <= n
    <3>1. k \in DOMAIN a /\ c[k] = a[k]
      BY <1>1, <2>1
    <3>2. QED
      BY <3>1 DEF Urls
  <2>2. CASE k > n
    <3>1. k - n \in DOMAIN b /\ c[k] = b[k - n]
      BY <1>1, <2>2
    <3>2. QED
      BY <3>1 DEF Urls
  <2>3. QED
    BY <1>1, <2>1, <2>2
<1>5. Urls(a) \subseteq Urls(c)
  <2>1. \A k \in DOMAIN a : k \in DOMAIN c /\ a[k].url = c[k].url
    BY <1>1
  <2>2. QED
    BY <2>1 DEF Urls
<1>6. Urls(b) \subseteq Urls(c)
  <2>1. \A k \in DOMAIN b : n + k \in DOMAIN c /\ b[k].url = c[n + k].url
    BY <1>1, <1>2
  <2>2. QED
    BY <2>1 DEF Urls
<1>7. GivenOnce(c)
  BY <1>1, <1>3 DEF GivenOnce
<1>8. QED
  BY <1>1, <1>4, <1>5, <1>6, <1>7 DEF c

\* Official pages first: the same pages.
LEMMA OfficialOnce ==
    ASSUME NEW X, NEW s \in Seq(X), GivenOnce(s)
    PROVE  OfficialFirst(s) \in Seq(X) /\ GivenOnce(OfficialFirst(s)) /\ Urls(OfficialFirst(s)) \subseteq Urls(s)
<1> DEFINE official == {k \in DOMAIN s : s[k].kind = "official"}
           a == Keep(s, official)
           b == Keep(s, DOMAIN s \ official)
<1>1. OfficialFirst(s) = a \o b
  BY DEF OfficialFirst
<1>2. official \in SUBSET DOMAIN s /\ DOMAIN s \ official \in SUBSET DOMAIN s
  OBVIOUS
<1> HIDE DEF official
<1>3. /\ a \in Seq(X) /\ GivenOnce(a) /\ Urls(a) \subseteq {s[i].url : i \in official}
      /\ b \in Seq(X) /\ GivenOnce(b) /\ Urls(b) \subseteq {s[i].url : i \in DOMAIN s \ official}
  BY <1>2, KeptOnce
<1> HIDE DEF a, b
<1>4. Urls(a) \cap Urls(b) = {}
  <2> SUFFICES ASSUME NEW u \in Urls(a), u \in Urls(b) PROVE FALSE
    OBVIOUS
  <2>1. PICK i \in official : u = s[i].url
    BY <1>3
  <2>2. PICK j \in DOMAIN s \ official : u = s[j].url
    BY <1>3
  <2>3. i = j
    BY <1>2, <2>1, <2>2 DEF GivenOnce
  <2>4. QED
    BY <2>1, <2>2, <2>3
<1>5. Urls(a) \cup Urls(b) \subseteq Urls(s)
  BY <1>2, <1>3 DEF Urls
<1>6. QED
  BY <1>1, <1>3, <1>4, <1>5, BothOnce

\* The addresses of articles and pages.
Addresses == DOMAIN Articles \cup {page.url : page \in Pages}

\* What may be in hand between two pages of a search, when the references are of the
\* addresses in `cited`.
Taking(cited) ==
    {acc \in [web : Seq(Pages), seen : SUBSET Addresses] :
        /\ GivenOnce(acc.web) /\ Len(acc.web) <= WebLimit
        /\ cited \subseteq acc.seen /\ Urls(acc.web) \subseteq acc.seen \ cited}

\* One page more.
LEMMA TakeKeeps ==
    ASSUME NEW cited, NEW acc \in Taking(cited), NEW page \in Pages
    PROVE  Take(acc, page) \in Taking(cited)
<1>1. /\ acc \in [web : Seq(Pages), seen : SUBSET Addresses] /\ GivenOnce(acc.web) /\ Len(acc.web) <= WebLimit
      /\ cited \subseteq acc.seen /\ Urls(acc.web) \subseteq acc.seen \ cited
  BY DEF Taking
<1>2. WebLimit \in Nat /\ \A p \in Pages : p.url \in Addresses
  BY SolutionsAssumption DEF Addresses
<1>3. CASE Len(acc.web) >= WebLimit \/ page.url \in acc.seen \/ Rejected(page)
  BY <1>3 DEF Take
<1>4. CASE ~(Len(acc.web) >= WebLimit \/ page.url \in acc.seen \/ Rejected(page))
  <2> DEFINE n == Len(acc.web)
             web1 == Append(acc.web, page)
             seen1 == acc.seen \cup {page.url}
  <2>1. Take(acc, page) = [web |-> web1, seen |-> seen1]
    BY <1>4 DEF Take
  <2>2. n \in Nat /\ n < WebLimit /\ page.url \notin acc.seen
    BY <1>1, <1>2, <1>4
  <2>3. /\ web1 \in Seq(Pages) /\ Len(web1) = n + 1 /\ DOMAIN web1 = 1 .. n + 1 /\ DOMAIN acc.web = 1 .. n
        /\ web1[n + 1] = page /\ \A k \in 1 .. n : web1[k] = acc.web[k]
    BY <1>1
  <2>4. seen1 \in SUBSET Addresses /\ acc.seen \subseteq seen1 /\ page.url \in seen1 /\ cited \subseteq seen1
    BY <1>1, <1>2
  <2> HIDE DEF n, web1, seen1
  <2>5. \A k \in 1 .. n : acc.web[k].url \in acc.seen \ cited
    BY <1>1, <2>3 DEF Urls
  <2>6. \A k \in 1 .. n + 1 : web1[k].url \in seen1 \ cited
    <3> SUFFICES ASSUME NEW k \in 1 .. n + 1 PROVE web1[k].url \in seen1 \ cited
      OBVIOUS
    <3>1. CASE k = n + 1
      BY <1>1, <2>2, <2>3, <2>4, <3>1
    <3>2. CASE k # n + 1
      <4>1. k \in 1 .. n
        BY <2>2, <3>2
      <4>2. QED
        BY <2>3, <2>4, <2>5, <4>1
    <3>3. QED
      BY <3>1, <3>2
  <2>7. GivenOnce(web1)
    <3> SUFFICES ASSUME NEW i \in 1 .. n + 1, NEW j \in 1 .. n + 1, web1[i].url = web1[j].url PROVE i = j
      BY <2>3 DEF GivenOnce
    <3>1. CASE i \in 1 .. n /\ j \in 1 .. n
      BY <1>1, <2>3, <3>1 DEF GivenOnce
    <3>2. CASE i = n + 1 /\ j \in 1 .. n
      BY <2>2, <2>3, <2>5, <3>2
    <3>3. CASE j = n + 1 /\ i \in 1 .. n
      BY <2>2, <2>3, <2>5, <3>3
    <3>4. QED
      BY <2>2, <3>1, <3>2, <3>3
  <2>8. Urls(web1) \subseteq seen1 \ cited
    BY <2>3, <2>6 DEF Urls
  <2>9. [web |-> web1, seen |-> seen1] \in Taking(cited)
    BY <1>2, <2>2, <2>3, <2>4, <2>7, <2>8 DEF Taking
  <2>10. QED
    BY <2>1, <2>9
<1>5. QED
  BY <1>3, <1>4

\* What a search takes is taken page by page.
LEMMA TakenRuns ==
    ASSUME NEW V, NEW start \in V, NEW n \in Nat, NEW hits \in [1 .. n -> Pages],
           \A v \in V, page \in Pages : Take(v, page) \in V
    PROVE  Taken(start, hits) \in V
<1> DEFINE F == [p \in V \X (1 .. n) |-> Take(p[1], hits[p[2]])]
           Eq(it) == it = [s \in SUBSET DOMAIN hits |-> IF s = {} THEN start ELSE Take(it[s \ {Max(s)}], hits[Max(s)])]
           ch == CHOOSE it : Eq(it)
<1>1. Taken(start, hits) = ch[DOMAIN hits]
  BY DEF Taken, FoldLeft, MapThenFoldSet
<1>2. DOMAIN hits = 1 .. n
  OBVIOUS
<1>3. \A v \in V, k \in 1 .. n : Take(v, hits[k]) \in V
  OBVIOUS
<1>4. F \in [V \X (1 .. n) -> V] /\ \A v \in V, k \in 1 .. n : F[<<v, k>>] = Take(v, hits[k])
  BY <1>3
<1>5. \A s \in SUBSET (1 .. n) : s # {} => Max(s) \in 1 .. n /\ s \ {Max(s)} \in SUBSET (1 .. n)
  BY LargestIn
<1>6. \E it : Eq(it)
  <2>1. PICK it \in [SUBSET (1 .. n) -> V] : Folds(it, start, F, n)
    <3> HIDE DEF F
    <3>1. QED
      BY <1>4, FoldSolved
  <2>2. ASSUME NEW s \in SUBSET (1 .. n), s # {} PROVE it[s] = Take(it[s \ {Max(s)}], hits[Max(s)])
    <3>1. it[s] = F[<<it[s \ {Max(s)}], Max(s)>>]
      BY <2>1, <2>2 DEF Folds
    <3>2. Max(s) \in 1 .. n /\ it[s \ {Max(s)}] \in V
      BY <1>5, <2>1, <2>2
    <3> HIDE DEF F
    <3>3. QED
      BY <1>4, <3>1, <3>2
  <2>3. it[{}] = start
    BY <2>1 DEF Folds
  <2> HIDE DEF F
  <2>4. Eq(it)
    BY <1>2, <2>1, <2>2, <2>3
  <2> HIDE DEF Eq
  <2>5. QED
    BY <2>4
<1>7. Eq(ch)
  BY <1>6
<1>8. ASSUME NEW s \in SUBSET (1 .. n), s # {}, ch[s \ {Max(s)}] \in V
      PROVE  ch[s] = F[<<ch[s \ {Max(s)}], Max(s)>>]
  <2> HIDE DEF ch, F
  <2>1. ch[s] = Take(ch[s \ {Max(s)}], hits[Max(s)])
    BY <1>2, <1>7, <1>8
  <2>2. Max(s) \in 1 .. n
    BY <1>5, <1>8
  <2>3. QED
    BY <1>4, <1>8, <2>1, <2>2
<1>9. ch[{}] = start
  <2> HIDE DEF ch
  <2>1. QED
    BY <1>7
<1>10. Follows(ch, start, F, n, V)
  <2> HIDE DEF ch, F
  <2>1. QED
    BY <1>4, <1>8, <1>9 DEF Follows
<1> HIDE DEF ch, F
<1>11. \A k \in 0 .. n : ch[1 .. k] \in V
  BY <1>10, FoldRuns
<1>12. QED
  BY <1>1, <1>2, <1>11

\* The pages of articles.
ArticlePages(ids) == [k \in DOMAIN ids |-> ArticlePage(ids[k])]

\* What may be a reference.
Referable == WebPage \cup {ArticlePage(id) : id \in DOMAIN Articles}

\* The references to articles are of different pages, and of as many as there are.
LEMMA ReferencesOnce ==
    ASSUME NEW r
    PROVE  /\ ArticlePages(References(r)) \in Seq(Referable) /\ GivenOnce(ArticlePages(References(r)))
           /\ Urls(ArticlePages(References(r))) = ToSet(References(r))
           /\ ToSet(References(r)) \subseteq DOMAIN Articles
<1> DEFINE all == {"a424591", "a418256", "a442155", "a411756", "a318905", "a450780", "a452165"}
           is == {k \in DOMAIN ArticleOrder : Allowed(r, ArticleOrder[k])}
           m == Cardinality(is)
           nos == Upward(is)
           t == References(r)
           pages == ArticlePages(t)
<1>1. ArticleOrder \in Seq(all) /\ DOMAIN ArticleOrder = 1 .. 7
  BY DEF ArticleOrder
<1>2. \A i, j \in 1 .. 7 : ArticleOrder[i] = ArticleOrder[j] => i = j
  BY DEF ArticleOrder
<1>3. t = Keep(ArticleOrder, is) /\ is \in SUBSET DOMAIN ArticleOrder
  BY DEF References
<1>4. DOMAIN Articles = all
  BY DEF Articles
<1> HIDE DEF is, all
<1>5. /\ t \in Seq(all) /\ DOMAIN t = 1 .. m /\ m \in Nat
      /\ nos \in [1 .. m -> is] /\ \A k \in 1 .. m : t[k] = ArticleOrder[nos[k]]
  BY <1>1, <1>3, KeepPicks
<1>6. \A i, j \in 1 .. m : i < j => nos[i] < nos[j]
  BY <1>1, <1>3, UpwardLists
<1> HIDE DEF m, nos, t
<1>7. \A k \in DOMAIN t : t[k] \in all
  BY <1>5
<1>8. pages \in Seq(Referable) /\ DOMAIN pages = DOMAIN t /\ \A k \in DOMAIN t : pages[k].url = t[k]
  <2>1. \A k \in DOMAIN t : ArticlePage(t[k]) \in Referable /\ ArticlePage(t[k]).url = t[k]
    BY <1>4, <1>7 DEF ArticlePage, Referable
  <2>2. pages \in [1 .. m -> Referable]
    BY <1>5, <2>1 DEF ArticlePages
  <2>3. QED
    BY <1>5, <2>1, <2>2 DEF ArticlePages
<1> HIDE DEF pages
<1>9. ASSUME NEW i \in DOMAIN pages, NEW j \in DOMAIN pages, pages[i].url = pages[j].url PROVE i = j
  <2>1. i \in 1 .. m /\ j \in 1 .. m /\ ArticleOrder[nos[i]] = ArticleOrder[nos[j]]
    BY <1>5, <1>8, <1>9
  <2>2. nos[i] \in 1 .. 7 /\ nos[j] \in 1 .. 7
    BY <1>1, <1>3, <1>5, <2>1
  <2>3. nos[i] = nos[j]
    BY <1>2, <2>1, <2>2
  <2>4. ~(i < j) /\ ~(j < i)
    BY <1>6, <2>1, <2>2, <2>3
  <2>5. QED
    BY <1>5, <2>1, <2>4
<1>10. Urls(pages) = ToSet(t)
  BY <1>8 DEF Urls, ToSet
<1>11. ToSet(t) \subseteq all
  BY <1>7 DEF ToSet
<1>12. QED
  BY <1>4, <1>8, <1>9, <1>10, <1>11 DEF GivenOnce, pages, t

\* The inductive invariant of the search: the references to articles differ, what was
\* found differs from them and among itself, and all addresses are remembered.
SearchInv ==
    /\ request \in Requests /\ stage \in {"refs", "web", "summary", "done"} /\ tier \in 0 .. 3
    /\ stage = "web" => request.family # "unknown_text"
    /\ stage = "refs" => web = <<>>
    /\ ArticlePages(kb) \in Seq(Referable) /\ GivenOnce(ArticlePages(kb)) /\ Urls(ArticlePages(kb)) = ToSet(kb)
    /\ ToSet(kb) \subseteq DOMAIN Articles
    /\ [web |-> web, seen |-> seen] \in Taking(ToSet(kb))
    /\ GivenOnce(results) /\ Len(results) <= ResultLimit
    /\ summary.by \in {"", "vendor", "curated", "knowledge", "model", "web"}

\* It holds at first: nothing is found.
LEMMA SearchInitInv == SolutionInit => SearchInv
<1> SUFFICES ASSUME SolutionInit PROVE SearchInv
  OBVIOUS
<1>1. kb = <<>> /\ web = <<>> /\ seen = {} /\ results = <<>>
  BY DEF SolutionInit
<1>2. Urls(<<>>) = {} /\ GivenOnce(<<>>)
  BY DEF Urls, GivenOnce
<1>3. ToSet(kb) = {} /\ ArticlePages(kb) \in Seq(Referable) /\ Urls(ArticlePages(kb)) = {} /\ GivenOnce(ArticlePages(kb))
  <2>1. DOMAIN kb = 1 .. 0 /\ 1 .. 0 = {}
    <3>1. DOMAIN <<>> = 1 .. 0 /\ 1 .. 0 = {}
      OBVIOUS
    <3>2. QED
      BY <1>1, <3>1, Zenon
  <2>2. ToSet(kb) = {}
    BY <2>1 DEF ToSet
  <2>3. ArticlePages(kb) \in [1 .. 0 -> Referable] /\ DOMAIN ArticlePages(kb) = {}
    BY <2>1 DEF ArticlePages
  <2> DEFINE pages == ArticlePages(kb)
  <2> HIDE DEF pages
  <2>4. pages \in Seq(Referable) /\ Urls(pages) = {} /\ GivenOnce(pages)
    BY <2>3 DEF Urls, GivenOnce, pages
  <2>5. QED
    BY <2>2, <2>4 DEF pages
<1>4. Len(<<>>) = 0 /\ WebLimit \in Nat /\ ResultLimit \in Nat
  BY SolutionsAssumption
<1>5. [web |-> <<>>, seen |-> {}] \in Taking({})
  <2> DEFINE acc == [web |-> <<>>, seen |-> {}]
  <2>1. acc.web = <<>> /\ acc.seen = {} /\ acc \in [web : Seq(Pages), seen : SUBSET Addresses]
    OBVIOUS
  <2> HIDE DEF acc
  <2>2. acc \in Taking({})
    BY <1>2, <1>4, <2>1 DEF Taking
  <2>3. QED
    BY <2>2 DEF acc
<1>6. /\ request \in Requests /\ stage \in {"refs", "web", "summary", "done"} /\ tier \in 0 .. 3
      /\ stage # "web"
  BY DEF SolutionInit
<1>7. summary.by \in {"", "vendor", "curated", "knowledge", "model", "web"}
  BY DEF SolutionInit, NoSummary
<1>8. GivenOnce(results) /\ Len(results) <= ResultLimit
  <2>1. Len(<<>>) <= ResultLimit
    BY <1>4
  <2>2. QED
    BY <1>1, <1>2, <2>1, Zenon
<1>9. [web |-> web, seen |-> seen] \in Taking(ToSet(kb))
  BY <1>1, <1>3, <1>5, Zenon
<1>10. QED
  BY <1>1, <1>3, <1>6, <1>7, <1>8, <1>9, Zenon DEF SearchInv

\* A step that leaves the search alone keeps it.
LEMMA LeavingKeeps ==
    ASSUME SearchInv, UNCHANGED <<request, kb, web, seen, results>>, tier' \in 0 .. 3,
           stage' \in {"refs", "web", "summary", "done"},
           stage' = "web" => stage = "web", stage' = "refs" => stage = "refs",
           summary'.by \in {"", "vendor", "curated", "knowledge", "model", "web"}
    PROVE  SearchInv'
<1>1. ArticlePages(kb)' = ArticlePages(kb) /\ ToSet(kb)' = ToSet(kb) /\ GivenOnce(results)' = GivenOnce(results)
  BY DEF ArticlePages, GivenOnce
<1>2. GivenOnce(ArticlePages(kb))' = GivenOnce(ArticlePages(kb)) /\ Urls(ArticlePages(kb))' = Urls(ArticlePages(kb))
  BY <1>1 DEF GivenOnce, Urls
<1>3. [web |-> web, seen |-> seen]' = [web |-> web, seen |-> seen] /\ Taking(ToSet(kb))' = Taking(ToSet(kb))
  BY <1>1 DEF Taking
<1>4. QED
  BY <1>1, <1>2, <1>3 DEF SearchInv

\* The references to articles differ.
LEMMA ReferOnce == SearchInv /\ Refer => SearchInv'
<1> SUFFICES ASSUME SearchInv, Refer PROVE SearchInv'
  OBVIOUS
<1>1. /\ stage = "refs" /\ request.family # "unknown_text" /\ stage' = "web"
      /\ kb' = References(request) /\ seen' = ToSet(kb')
      /\ UNCHANGED <<request, tier, web, results, summary>>
  BY DEF Refer
<1>2. web = <<>> /\ request \in Requests /\ tier \in 0 .. 3 /\ GivenOnce(results) /\ Len(results) <= ResultLimit
      /\ summary.by \in {"", "vendor", "curated", "knowledge", "model", "web"}
  BY <1>1 DEF SearchInv
<1>3. /\ ArticlePages(kb') \in Seq(Referable) /\ GivenOnce(ArticlePages(kb')) /\ Urls(ArticlePages(kb')) = ToSet(kb')
      /\ ToSet(kb') \subseteq DOMAIN Articles
  BY <1>1, ReferencesOnce
<1>4. [web |-> <<>>, seen |-> ToSet(kb')] \in Taking(ToSet(kb'))
  <2> DEFINE acc == [web |-> <<>>, seen |-> ToSet(kb')]
  <2>1. acc.web = <<>> /\ acc.seen = ToSet(kb') /\ acc \in [web : Seq(Pages), seen : SUBSET Addresses]
    BY <1>3 DEF Addresses
  <2>2. GivenOnce(<<>>) /\ Urls(<<>>) = {} /\ Len(<<>>) <= WebLimit
    BY SolutionsAssumption DEF GivenOnce, Urls
  <2> HIDE DEF acc
  <2>3. acc \in Taking(ToSet(kb'))
    BY <2>1, <2>2 DEF Taking
  <2>4. QED
    BY <2>3 DEF acc
<1>5. QED
  BY <1>1, <1>2, <1>3, <1>4 DEF SearchInv

\* What a search finds differs from what is known.
LEMMA SearchTierOnce == SearchInv /\ SearchTier => SearchInv'
<1> SUFFICES ASSUME SearchInv, SearchTier PROVE SearchInv'
  OBVIOUS
<1>1. /\ stage = "web" /\ tier < Tiers[request.family] /\ tier' = tier + 1
      /\ UNCHANGED <<stage, request, kb, results, summary>>
  BY DEF SearchTier, Searching
<1>2. request \in Requests /\ tier \in 0 .. 3 /\ request.family # "unknown_text"
      /\ [web |-> web, seen |-> seen] \in Taking(ToSet(kb))
  BY <1>1 DEF SearchInv
<1>3. PICK n \in 0 .. HitLimit : \E hits \in [1 .. n -> Pages] :
          LET acc == Taken([web |-> web, seen |-> seen], hits) IN web' = acc.web /\ seen' = acc.seen
  BY DEF SearchTier
<1>4. PICK hits \in [1 .. n -> Pages] :
          /\ web' = Taken([web |-> web, seen |-> seen], hits).web
          /\ seen' = Taken([web |-> web, seen |-> seen], hits).seen
  BY <1>3
<1>5. n \in Nat
  BY SolutionsAssumption
<1> DEFINE V == Taking(ToSet(kb))
           acc == Taken([web |-> web, seen |-> seen], hits)
<1>6. acc \in V
  <2>1. \A v \in V, page \in Pages : Take(v, page) \in V
    BY TakeKeeps
  <2>2. [web |-> web, seen |-> seen] \in V
    BY <1>2
  <2> HIDE DEF V
  <2>3. QED
    BY <1>5, <2>1, <2>2, TakenRuns
<1>7. [web |-> web', seen |-> seen'] \in V
  <2>1. web' = acc.web /\ seen' = acc.seen
    BY <1>4
  <2>2. acc \in [web : Seq(Pages), seen : SUBSET Addresses]
    BY <1>6 DEF Taking
  <2> HIDE DEF acc, V
  <2>3. acc = [web |-> web', seen |-> seen']
    BY <2>1, <2>2
  <2>4. QED
    BY <1>6, <2>3
<1>8. tier' \in 0 .. 3
  <2>1. Tiers[request.family] \in 0 .. 3
    BY <1>2, SolutionsAssumption
  <2>2. QED
    BY <1>1, <1>2, <2>1
<1>9. ArticlePages(kb)' = ArticlePages(kb) /\ ToSet(kb)' = ToSet(kb) /\ GivenOnce(results)' = GivenOnce(results)
  BY <1>1 DEF ArticlePages, GivenOnce
<1>10. GivenOnce(ArticlePages(kb))' = GivenOnce(ArticlePages(kb)) /\ Urls(ArticlePages(kb))' = Urls(ArticlePages(kb))
  BY <1>9 DEF GivenOnce, Urls
<1>11. [web |-> web, seen |-> seen]' \in Taking(ToSet(kb))'
  BY <1>1, <1>7
<1>12. QED
  BY <1>1, <1>8, <1>9, <1>10, <1>11 DEF SearchInv

\* Articles, pages and starting points that are not known yet differ, and so do the
\* first of them.
LEMMA AssembleOnce == SearchInv /\ Assemble => SearchInv'
<1> SUFFICES ASSUME SearchInv, Assemble PROVE SearchInv'
  OBVIOUS
<1> DEFINE start == Starting[request.family]
           new == {k \in DOMAIN start : start[k].url \notin seen}
           fallback == Keep(start, new)
           articles == ArticlePages(kb)
           pages == OfficialFirst(web)
           all == (articles \o pages) \o fallback
           m == Least(Len(all), ResultLimit)
<1>1. stage = "web" /\ stage' = "summary" /\ UNCHANGED <<request, tier, kb, web, seen, summary>>
  BY DEF Assemble
<1>2. results' = SubSeq(all, 1, m)
  BY DEF Assemble, ArticlePages
<1>3. /\ request \in Requests /\ request.family # "unknown_text"
      /\ articles \in Seq(Referable) /\ GivenOnce(articles) /\ Urls(articles) = ToSet(kb)
      /\ [web |-> web, seen |-> seen] \in Taking(ToSet(kb))
  BY <1>1 DEF SearchInv
<1>4. /\ web \in Seq(Pages) /\ GivenOnce(web)
      /\ ToSet(kb) \subseteq seen /\ Urls(web) \subseteq seen \ ToSet(kb)
  BY <1>3 DEF Taking
<1>5. web \in Seq(Referable)
  <2>1. Pages \subseteq Referable
    BY SolutionsAssumption DEF Referable
  <2>2. QED
    BY <1>4, <2>1
<1>6. start \in Seq(Referable) /\ GivenOnce(start)
  <2>1. start \in Seq(WebPage) /\ GivenOnce(start)
    BY <1>3, SolutionsAssumption
  <2>2. WebPage \subseteq Referable
    BY DEF Referable
  <2> HIDE DEF start
  <2>3. QED
    BY <2>1, <2>2
<1>7. /\ fallback \in Seq(Referable) /\ GivenOnce(fallback) /\ Urls(fallback) \cap seen = {}
  <2>1. new \in SUBSET DOMAIN start /\ \A k \in new : start[k].url \notin seen
    OBVIOUS
  <2> HIDE DEF start, new
  <2>2. /\ Keep(start, new) \in Seq(Referable) /\ GivenOnce(Keep(start, new))
        /\ Urls(Keep(start, new)) \subseteq {start[i].url : i \in new}
    BY <1>6, <2>1, KeptOnce
  <2>3. QED
    BY <2>1, <2>2
<1>8. pages \in Seq(Referable) /\ GivenOnce(pages) /\ Urls(pages) \subseteq Urls(web)
  BY <1>4, <1>5, OfficialOnce
<1> HIDE DEF start, new, fallback, articles, pages
<1>9. /\ articles \o pages \in Seq(Referable) /\ GivenOnce(articles \o pages)
      /\ Urls(articles \o pages) = Urls(articles) \cup Urls(pages)
  <2>1. Urls(articles) \cap Urls(pages) = {}
    BY <1>3, <1>4, <1>8
  <2>2. QED
    BY <1>3, <1>8, <2>1, BothOnce
<1>10. all \in Seq(Referable) /\ GivenOnce(all)
  <2>1. Urls(articles \o pages) \cap Urls(fallback) = {}
    BY <1>3, <1>4, <1>7, <1>8, <1>9
  <2>2. QED
    BY <1>7, <1>9, <2>1, BothOnce
<1> HIDE DEF all
<1>11. m \in Nat /\ m <= Len(all) /\ m <= ResultLimit
  BY <1>10, SolutionsAssumption DEF Least
<1> HIDE DEF m
<1>12. GivenOnce(results') /\ Len(results') <= ResultLimit
  <2>1. /\ DOMAIN results' = 1 .. m /\ Len(results') = m /\ DOMAIN all = 1 .. Len(all) /\ Len(all) \in Nat
        /\ \A k \in 1 .. m : results'[k] = all[k]
    BY <1>2, <1>10, <1>11
  <2>2. \A k \in 1 .. m : k \in DOMAIN all
    BY <1>11, <2>1
  <2>3. GivenOnce(results')
    BY <1>10, <2>1, <2>2 DEF GivenOnce
  <2>4. QED
    BY <1>11, <2>1, <2>3
<1>13. ArticlePages(kb)' = ArticlePages(kb) /\ ToSet(kb)' = ToSet(kb)
       /\ [web |-> web, seen |-> seen]' = [web |-> web, seen |-> seen]
  BY <1>1 DEF ArticlePages
<1>14. /\ GivenOnce(ArticlePages(kb))' = GivenOnce(ArticlePages(kb)) /\ Urls(ArticlePages(kb))' = Urls(ArticlePages(kb))
       /\ Taking(ToSet(kb))' = Taking(ToSet(kb))
  BY <1>13 DEF GivenOnce, Urls, Taking
<1>15. QED
  BY <1>1, <1>12, <1>13, <1>14 DEF SearchInv

\* Every step keeps it.
LEMMA SearchStepOnce == SearchInv /\ [SolutionNext]_solution => SearchInv'
<1>1. ASSUME SearchInv, UNCHANGED solution PROVE SearchInv'
  BY <1>1, LeavingKeeps DEF solution, SearchInv
<1>2. ASSUME SearchInv, NoSearch PROVE SearchInv'
  BY <1>2, LeavingKeeps DEF NoSearch, SearchInv
<1>3. ASSUME SearchInv, SearchFails PROVE SearchInv'
  <2>1. /\ stage = "web" /\ tier' = Tiers[request.family]
        /\ UNCHANGED <<stage, request, kb, web, seen, results, summary>>
    BY <1>3 DEF SearchFails, Searching
  <2>2. request \in Requests /\ request.family # "unknown_text" /\ stage' = "web"
        /\ summary.by \in {"", "vendor", "curated", "knowledge", "model", "web"}
    BY <1>3, <2>1 DEF SearchInv
  <2>3. tier' \in 0 .. 3
    BY <2>1, <2>2, SolutionsAssumption
  <2>4. QED
    BY <1>3, <2>1, <2>2, <2>3, LeavingKeeps
<1>4. ASSUME SearchInv, NEW a, Summed(a), a.by \in {"vendor", "curated", "knowledge", "model", "web"} PROVE SearchInv'
  <2>1. summary' = a /\ stage' = "done" /\ UNCHANGED <<request, tier, kb, web, seen, results>>
    BY <1>4 DEF Summed
  <2>2. tier \in 0 .. 3
    BY <1>4 DEF SearchInv
  <2>3. QED
    BY <1>4, <2>1, <2>2, LeavingKeeps
<1>5. ASSUME SearchInv, NEW by \in {"vendor", "curated", "knowledge", "model", "web"}, NEW family, NEW c, NEW s, NEW names,
             Summed([by |-> by, family |-> family, causes |-> c, steps |-> s, names |-> names])
      PROVE  SearchInv'
  <2> DEFINE a == [by |-> by, family |-> family, causes |-> c, steps |-> s, names |-> names]
  <2>1. a.by = by /\ Summed(a)
    BY <1>5
  <2> HIDE DEF a
  <2>2. QED
    BY <1>4, <1>5, <2>1
<1>6. ASSUME SearchInv, NEW code, NEW options, ByVendor(code, options) PROVE SearchInv'
  BY <1>5, <1>6 DEF ByVendor
<1>7. ASSUME SearchInv, FromVendor PROVE SearchInv'
  BY <1>6, <1>7 DEF FromVendor
<1>8. ASSUME SearchInv, FromCurated \/ FromKnowledge \/ FromModel \/ FromWeb PROVE SearchInv'
  <2>1. CASE FromCurated
    BY <1>5, <1>8, <2>1 DEF FromCurated
  <2>2. CASE FromKnowledge
    BY <1>5, <1>8, <2>2 DEF FromKnowledge
  <2>3. CASE FromModel
    BY <1>5, <1>8, <2>3 DEF FromModel
  <2>4. CASE FromWeb
    BY <1>5, <1>8, <2>4 DEF FromWeb
  <2>5. QED
    BY <1>8, <2>1, <2>2, <2>3, <2>4
<1>9. QED
  BY <1>1, <1>2, <1>3, <1>7, <1>8, ReferOnce, SearchTierOnce, AssembleOnce DEF SolutionNext

\* Whatever pages the searches return, repeat and reject: the references differ among
\* each other and from what was found before, and the kinds of the state are kept.
THEOREM SearchInvariant == SolutionSpec => [](SearchInv /\ SolutionTypeOK)
<1>1. SearchInv => SolutionTypeOK
  <2> SUFFICES ASSUME SearchInv PROVE SolutionTypeOK
    OBVIOUS
  <2>1. /\ request \in Requests /\ stage \in {"refs", "web", "summary", "done"} /\ tier \in 0 .. 3
        /\ ToSet(kb) \subseteq DOMAIN Articles /\ Len(results) <= ResultLimit
        /\ [web |-> web, seen |-> seen] \in Taking(ToSet(kb))
        /\ summary.by \in {"", "vendor", "curated", "knowledge", "model", "web"}
    BY DEF SearchInv
  <2>2. web \in Seq(Pages) /\ Len(web) <= WebLimit
    BY <2>1 DEF Taking
  <2>3. ToSet(web) \subseteq Pages
    BY <2>2 DEF ToSet
  <2>4. QED
    BY <2>1, <2>2, <2>3 DEF SolutionTypeOK
<1>2. QED
  BY <1>1, SearchInitInv, SearchStepOnce, PTL DEF SolutionSpec

-----------------------------------------------------------------------------
(* The inductive invariant of a request for solutions.                      *)

SolutionInv ==
    /\ request \in Requests /\ stage \in {"refs", "web", "summary", "done"}
    /\ ToSet(kb) \subseteq Cited(request) /\ summary.names \subseteq ToSet(kb)
    /\ stage # "refs" /\ HasEntry => ToSet(kb) = Cited(request)
    /\ stage # "done" => summary.names = {}
    /\ NeverEmptyHanded

\* It holds at first: nothing is cited.
LEMMA SolutionInitInv == SolutionInit => SolutionInv
<1> SUFFICES ASSUME SolutionInit PROVE SolutionInv
  OBVIOUS
<1>1. ToSet(kb) = {} /\ stage = "refs" /\ request \in Requests
  BY DEF SolutionInit, ToSet
<1>2. summary.names = {} /\ summary.by = ""
  BY DEF SolutionInit, NoSummary
<1>3. summary.by \notin {"vendor", "curated", "web"}
  BY <1>2
<1>4. NeverEmptyHanded
  BY <1>3, Zenon DEF NeverEmptyHanded
<1>5. QED
  BY <1>1, <1>2, <1>4 DEF SolutionInv

\* A step that leaves request, references and summary alone keeps it.
LEMMA SearchingKeeps ==
    ASSUME SolutionInv, UNCHANGED <<request, kb, summary>>, stage' \in {"refs", "web", "summary", "done"},
           stage = "refs" => stage' = "refs", stage' # "done" => stage # "done"
    PROVE  SolutionInv'
<1>1. NeverEmptyHanded' = NeverEmptyHanded /\ HasEntry' = HasEntry
  BY DEF NeverEmptyHanded, HasEntry
<1>2. Cited(request)' = Cited(request) /\ ToSet(kb)' = ToSet(kb)
  BY DEF Cited
<1>3. QED
  BY <1>1, <1>2 DEF SolutionInv

\* A summary that names references of the request keeps it.
LEMMA SummedKeeps ==
    ASSUME SolutionInv, stage = "summary", NEW a, Summed(a), a.names \subseteq ToSet(kb),
           a.by \in {"vendor", "curated", "web"} => a.causes >= 1 /\ a.steps >= 1
    PROVE  SolutionInv'
<1>1. summary' = a /\ stage' = "done" /\ request' = request /\ kb' = kb
  BY DEF Summed
<1>2. NeverEmptyHanded'
  BY <1>1, Zenon DEF NeverEmptyHanded
<1>3. HasEntry => ToSet(kb) = Cited(request)
  BY DEF SolutionInv
<1>4. HasEntry' = HasEntry /\ Cited(request)' = Cited(request) /\ ToSet(kb)' = ToSet(kb)
  BY <1>1 DEF HasEntry, Cited
<1>5. QED
  BY <1>1, <1>2, <1>3, <1>4 DEF SolutionInv

\* Only a text of a family that is searched for has a code with an entry.
LEMMA EntriesKnown == ASSUME NEW r \in Requests, r.code \in {CbtDelete, FileMissing, Chain} PROVE r.family # "unknown_text"
<1>1. r.family \in {"veeam_vbr", "vmware"}
  BY SolutionsAssumption
<1>2. QED
  BY <1>1

\* The references are found ...
LEMMA ReferringKeeps == SolutionInv /\ (NoSearch \/ Refer) => SolutionInv'
<1>1. ASSUME SolutionInv, NoSearch PROVE SolutionInv'
  <2>1. /\ stage = "refs" /\ request.family = "unknown_text" /\ stage' = "summary"
        /\ request' = request /\ kb' = kb /\ summary' = summary
    BY <1>1 DEF NoSearch
  <2>2. request \in Requests /\ ~HasEntry
    BY <1>1, <2>1, EntriesKnown DEF SolutionInv, HasEntry
  <2>3. HasEntry' = HasEntry /\ Cited(request)' = Cited(request) /\ ToSet(kb)' = ToSet(kb)
        /\ NeverEmptyHanded' = NeverEmptyHanded
    BY <2>1 DEF HasEntry, Cited, NeverEmptyHanded
  <2>4. QED
    BY <1>1, <2>1, <2>2, <2>3 DEF SolutionInv
<1>2. ASSUME SolutionInv, Refer PROVE SolutionInv'
  <2>1. /\ stage = "refs" /\ stage' = "web" /\ kb' = References(request)
        /\ request' = request /\ summary' = summary
    BY <1>2 DEF Refer
  <2>2. ToSet(kb)' = Cited(request) /\ Cited(request)' = Cited(request)
    <3>1. ToSet(kb)' = ToSet(References(request))
      BY <2>1
    <3>2. Cited(request)' = Cited(request)
      BY <2>1 DEF Cited
    <3>3. QED
      BY <3>1, <3>2, ReferencesCited
  <2>3. NeverEmptyHanded' = NeverEmptyHanded
    BY <2>1 DEF NeverEmptyHanded
  <2>4. summary.names = {}
    BY <1>2, <2>1 DEF SolutionInv
  <2>5. QED
    BY <1>2, <2>1, <2>2, <2>3, <2>4 DEF SolutionInv
<1>3. QED
  BY <1>1, <1>2

\* ... the web is searched ...
LEMMA SearchKeeps == SolutionInv /\ (SearchTier \/ SearchFails \/ Assemble) => SolutionInv'
<1>1. ASSUME SolutionInv, SearchTier PROVE SolutionInv'
  <2>1. stage = "web" /\ UNCHANGED <<stage, request, kb, summary>>
    BY <1>1 DEF SearchTier, Searching
  <2>2. QED
    BY <1>1, <2>1, SearchingKeeps
<1>2. ASSUME SolutionInv, SearchFails PROVE SolutionInv'
  <2>1. stage = "web" /\ UNCHANGED <<stage, request, kb, summary>>
    BY <1>2 DEF SearchFails, Searching
  <2>2. QED
    BY <1>2, <2>1, SearchingKeeps
<1>3. ASSUME SolutionInv, Assemble PROVE SolutionInv'
  <2>1. stage = "web" /\ stage' = "summary" /\ UNCHANGED <<request, kb, summary>>
    BY <1>3 DEF Assemble
  <2>2. QED
    BY <1>3, <2>1, SearchingKeeps
<1>4. QED
  BY <1>1, <1>2, <1>3

\* ... and a summary is taken from an entry for the code ...
LEMMA VendorKeeps == SolutionInv /\ FromVendor => SolutionInv'
<1> SUFFICES ASSUME SolutionInv, FromVendor PROVE SolutionInv'
  OBVIOUS
<1>1. ASSUME NEW code \in {CbtDelete, FileMissing, Chain}, NEW some, ByVendor(code, some),
             \A e \in some : Says(e, request)
      PROVE  SolutionInv'
  <2>1. stage = "summary" /\ HasEntry
    BY <1>1 DEF ByVendor, HasEntry
  <2>2. PICK e \in some : Summed([by |-> "vendor", family |-> request.family,
                                    causes |-> e.causes, steps |-> e.steps, names |-> e.names])
    BY <1>1 DEF ByVendor
  <2>3. e.causes >= 1 /\ e.steps >= 1 /\ e.names \subseteq Cited(request)
    BY <1>1 DEF Says
  <2>4. ToSet(kb) = Cited(request)
    BY <2>1 DEF SolutionInv
  <2> DEFINE a == [by |-> "vendor", family |-> request.family, causes |-> e.causes, steps |-> e.steps, names |-> e.names]
  <2>5. a.names \subseteq ToSet(kb) /\ a.causes >= 1 /\ a.steps >= 1 /\ Summed(a)
    BY <2>2, <2>3, <2>4
  <2> HIDE DEF a
  <2>6. QED
    BY <2>1, <2>5, SummedKeeps
<1>2. CASE ByVendor(CbtDelete, {CbtEntry(request)})
  BY <1>1, <1>2, EntriesSay
<1>3. CASE ByVendor(FileMissing, {MissingEntry(request)})
  BY <1>1, <1>3, EntriesSay
<1>4. CASE ByVendor(Chain, {ChainEntry(request, config) : config \in {c \in BOOLEAN : c => Shows(request, "invalid")}})
  <2>1. \A e \in {ChainEntry(request, config) : config \in {c \in BOOLEAN : c => Shows(request, "invalid")}} : Says(e, request)
    BY EntriesSay
  <2>2. QED
    BY <1>1, <1>4, <2>1
<1>5. QED
  BY <1>2, <1>3, <1>4 DEF FromVendor

\* ... or elsewhere, where it names no article.
LEMMA OthersKeep == SolutionInv /\ (FromCurated \/ FromKnowledge \/ FromModel \/ FromWeb) => SolutionInv'
<1> SUFFICES ASSUME SolutionInv PROVE FromCurated \/ FromKnowledge \/ FromModel \/ FromWeb => SolutionInv'
  OBVIOUS
<1>1. ASSUME NEW by, NEW family, NEW c, NEW s, stage = "summary",
             Summed([by |-> by, family |-> family, causes |-> c, steps |-> s, names |-> {}]),
             by \in {"vendor", "curated", "web"} => c >= 1 /\ s >= 1
      PROVE  SolutionInv'
  <2> DEFINE a == [by |-> by, family |-> family, causes |-> c, steps |-> s, names |-> {}]
  <2>1. a.names = {} /\ a.by = by /\ a.causes = c /\ a.steps = s /\ Summed(a)
    BY <1>1
  <2> HIDE DEF a
  <2>2. QED
    BY <1>1, <2>1, SummedKeeps
<1>2. CASE FromCurated
  <2>1. stage = "summary"
    BY <1>2 DEF FromCurated
  <2>2. PICK c \in 1 .. 3, s \in {1, 2, 3, 4, 6} :
          Summed([by |-> "curated", family |-> "windows_event", causes |-> c, steps |-> s, names |-> {}])
    BY <1>2 DEF FromCurated
  <2>3. c >= 1 /\ s >= 1
    OBVIOUS
  <2>4. QED
    BY <1>1, <2>1, <2>2, <2>3
<1>3. CASE FromKnowledge
  <2>1. stage = "summary"
    BY <1>3 DEF FromKnowledge
  <2>2. PICK c \in {0, 3}, s \in {0, 3} :
          Summed([by |-> "knowledge", family |-> request.family, causes |-> c, steps |-> s, names |-> {}])
    BY <1>3 DEF FromKnowledge
  <2>3. "knowledge" \notin {"vendor", "curated", "web"}
    OBVIOUS
  <2>4. QED
    BY <1>1, <2>1, <2>2, <2>3
<1>4. CASE FromModel
  <2>1. stage = "summary"
    BY <1>4 DEF FromModel
  <2>2. PICK c \in {0, 3}, s \in {0, 3} :
          Summed([by |-> "model", family |-> request.family, causes |-> c, steps |-> s, names |-> {}])
    BY <1>4 DEF FromModel
  <2>3. "model" \notin {"vendor", "curated", "web"}
    OBVIOUS
  <2>4. QED
    BY <1>1, <2>1, <2>2, <2>3
<1>5. CASE FromWeb
  <2>1. stage = "summary"
    BY <1>5 DEF FromWeb
  <2>2. PICK c \in 0 .. 3, s \in 0 .. 5, app \in BOOLEAN :
          Summed([by |-> "web", family |-> request.family, causes |-> Written(c, s, app).causes,
                  steps |-> Written(c, s, app).steps, names |-> {}])
    BY <1>5 DEF FromWeb
  <2>3. Written(c, s, app).causes >= 1 /\ Written(c, s, app).steps >= 1
    BY PagesSay
  <2>4. QED
    BY <1>1, <2>1, <2>2, <2>3
<1>6. QED
  BY <1>2, <1>3, <1>4, <1>5

\* Every step keeps it.
LEMMA SolutionStepKeeps == SolutionInv /\ [SolutionNext]_solution => SolutionInv'
<1>1. ASSUME SolutionInv, UNCHANGED solution PROVE SolutionInv'
  <2>1. UNCHANGED <<stage, request, kb, summary>>
    BY <1>1 DEF solution
  <2>2. stage' \in {"refs", "web", "summary", "done"}
    BY <1>1, <2>1 DEF SolutionInv
  <2>3. QED
    BY <1>1, <2>1, <2>2, SearchingKeeps
<1>2. QED
  BY <1>1, ReferringKeeps, SearchKeeps, VendorKeeps, OthersKeep DEF SolutionNext

\* What is cited is founded, by the invariant: a reference is allowed by a text of the
\* context, which one operation accounts for, and every window is one.
LEMMA CitationsFollow == SolutionInv /\ SearchInv => CitationsFounded
<1> SUFFICES ASSUME SolutionInv, SearchInv PROVE CitationsFounded
  OBVIOUS
<1>1. request \in Requests /\ ToSet(kb) \subseteq Cited(request) /\ summary.names \subseteq ToSet(kb) /\ NeverEmptyHanded
  BY DEF SolutionInv
<1>2. request.evidence \in Logs
  <2>1. \A r \in [family : STRING, code : STRING, curated : BOOLEAN, evidence : Logs] : r.evidence \in Logs
    OBVIOUS
  <2>2. Requests \subseteq [family : STRING, code : STRING, curated : BOOLEAN, evidence : Logs]
    BY SolutionsAssumption DEF Logs, LogFile
  <2>3. QED
    BY <1>1, <2>1, <2>2
<1>3. OneOperationMeetsGate
  <2> SUFFICES ASSUME NEW id \in ToSet(kb) \cup summary.names, Articles[id].operation
               PROVE  \E o \in Operations(request.evidence) : Gate(id, MarksOf(o))
    BY DEF OneOperationMeetsGate
  <2>1. id \in ToSet(ArticleOrder) /\ Allowed(request, id)
    BY <1>1 DEF Cited
  <2>2. PICK text \in Context(request.evidence, request.code) : Applies(id, request.code, text)
    BY <2>1 DEF Allowed
  <2>3. QED
    BY <1>2, <2>1, <2>2, AppliesToOperation
<1>4. WindowsStayWhole
  <2>1. ASSUME NEW o \in Operations(request.evidence), NEW w \in CutOut(o, Anchors[request.code]), Length(w) <= MaxChars
        PROVE  Len(Segments(Records(1, w))) = 1 /\ LinesOf(Segments(Records(1, w))[1]) = w
    BY <1>2, <2>1, WindowsWhole
  <2>2. QED
    BY <2>1, Zenon DEF WindowsStayWhole
<1>5. ReferencesApart
  BY DEF SearchInv, ReferencesApart
<1>6. QED
  BY <1>1, <1>3, <1>4, <1>5 DEF CitationsFounded, NamedAreReferred

\* Whatever the evidence, the anchors and the pages: an article about an operation is
\* cited only where one operation of the log meets its condition, a window cut out of an
\* operation is one still, what a summary names is a reference, no reference is given
\* twice, and no answer that is neither recalled nor a model's is without causes and steps.
THEOREM SolutionsFounded == SolutionSpec => []CitationsFounded
<1>1. SolutionInit => SolutionInv
  BY SolutionInitInv
<1>2. SolutionInv /\ [SolutionNext]_solution => SolutionInv'
  BY SolutionStepKeeps
<1>3. SolutionSpec => []SearchInv
  BY SearchInvariant, PTL
<1>4. SolutionInv /\ SearchInv => CitationsFounded
  BY CitationsFollow
<1>5. QED
  BY <1>1, <1>2, <1>3, <1>4, PTL DEF SolutionSpec

================================================================================
