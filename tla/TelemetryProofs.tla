-------------------------- MODULE TelemetryProofs --------------------------
(***************************************************************************)
(* For any agents, sources, batch size, threshold, stream length and       *)
(* number of failures: what reached the stream is stored or still there,   *)
(* in order, and copied no oftener than something failed; a quarantine is  *)
(* announced and comes with its evidence.  And for any number of visits,   *)
(* connections and alerts: a broadcast reaches every connection the list   *)
(* keeps in its place, and pages show alerts in order, once per attempt.   *)
(***************************************************************************)
EXTENDS TelemetryStream, AlertFeed, FiniteSetTheorems, WellFoundedInduction, TLAPS

\* Everything up to position k has been dealt with.
Covered(k) == \A n \in Ids : (n <= k /\ WellFormed(n)) => rows[n] > 0 \/ n \in lost

\* The bookmark covers what is behind it, and after the commit the batch
\* covers what it spans.
BookmarkCovers ==
    /\ Covered(lastId)
    /\ worker.step = "trim" => Covered(Newest)

\* The batch in hand is a gapless stretch of the stream after the bookmark.
BatchGapless ==
    worker.step # "idle" =>
        /\ \A n \in worker.batch : n > lastId
        /\ worker.step # "trim" =>
              \A n \in live : (lastId < n /\ n <= Newest) => n \in worker.batch

\* Only well-formed messages that were published have rows, and each failure
\* adds at most one copy.
CopiesAccounted ==
    /\ \A n \in DOMAIN rows : (n > Len(published) \/ ~WellFormed(n)) => rows[n] = 0
    /\ \A n \in Ids :
          rows[n] <= faults + (IF \/ n <= lastId
                                  \/ worker.step = "trim" /\ n \in worker.batch
                               THEN 1 ELSE 0)

\* An asset is due for quarantine because of a failed logon in the batch, and
\* is announced before the commit.
DueFounded ==
    /\ \A p \in worker.due :
          \E n \in worker.batch : published[n].kind = "logon" /\ published[n].print = p
    /\ worker.step = "commit" => worker.due \subseteq alerted

StreamInv ==
    /\ TypeOK
    /\ NoSilentLoss
    /\ StoredInOrder
    /\ QuarantineAnnounced
    /\ BookmarkCovers
    /\ BatchGapless
    /\ CopiesAccounted
    /\ DueFounded
-----------------------------------------------------------------------------
(* The least and the greatest element of a finite set of integers exist.    *)

\* Among the sets {y \in S : y <= x}, one contains no smaller one.
LEMMA LeastExists ==
    ASSUME NEW S \in SUBSET Int, IsFiniteSet(S), S # {}
    PROVE  \E x \in S : \A y \in S : x <= y
<1> DEFINE Down(x) == {y \in S : y <= x}
           D == {Down(x) : x \in S}
<1>1. IsWellFoundedOn(StrictSubsetOrdering(S), SUBSET S)
  BY FS_StrictSubsetOrderingWellFounded, FS_FiniteSubsetsOfFinite
<1>2. D \subseteq SUBSET S /\ D # {}
  OBVIOUS
<1>3. \E T \in D : \A U \in D : ~ (<<U, T>> \in StrictSubsetOrdering(S))
  <2> HIDE DEF D
  <2>1. QED
    BY <1>1, <1>2, WFMin
<1>4. PICK x \in S : \A y \in S : ~ (<<Down(y), Down(x)>> \in StrictSubsetOrdering(S))
  BY <1>3
<1>5. SUFFICES ASSUME NEW y \in S, y < x PROVE FALSE
  OBVIOUS
<1>6. x \in Int /\ y \in Int
  OBVIOUS
<1>7. \A z \in Down(y) : z \in Down(x)
  BY <1>5, <1>6
<1>8. x \in Down(x) /\ x \notin Down(y)
  BY <1>5, <1>6
<1>9. <<Down(y), Down(x)>> \in StrictSubsetOrdering(S)
  BY <1>7, <1>8 DEF StrictSubsetOrdering
<1>10. QED
  BY <1>4, <1>9

\* A finite set of whole numbers has a least element, and Min is it.
LEMMA MinIsLeast ==
    ASSUME NEW S \in SUBSET Int, IsFiniteSet(S), S # {}
    PROVE  Min(S) \in S /\ \A y \in S : Min(S) <= y
BY LeastExists DEF Min

\* Among the sets {y \in S : y >= x}, one contains no smaller one.
LEMMA GreatestExists ==
    ASSUME NEW S \in SUBSET Int, IsFiniteSet(S), S # {}
    PROVE  \E x \in S : \A y \in S : x >= y
<1> DEFINE Up(x) == {y \in S : y >= x}
           D == {Up(x) : x \in S}
<1>1. IsWellFoundedOn(StrictSubsetOrdering(S), SUBSET S)
  BY FS_StrictSubsetOrderingWellFounded, FS_FiniteSubsetsOfFinite
<1>2. D \subseteq SUBSET S /\ D # {}
  OBVIOUS
<1>3. \E T \in D : \A U \in D : ~ (<<U, T>> \in StrictSubsetOrdering(S))
  <2> HIDE DEF D
  <2>1. QED
    BY <1>1, <1>2, WFMin
<1>4. PICK x \in S : \A y \in S : ~ (<<Up(y), Up(x)>> \in StrictSubsetOrdering(S))
  BY <1>3
<1>5. SUFFICES ASSUME NEW y \in S, x < y PROVE FALSE
  OBVIOUS
<1>6. x \in Int /\ y \in Int
  OBVIOUS
<1>7. \A z \in Up(y) : z \in Up(x)
  BY <1>5, <1>6
<1>8. x \in Up(x) /\ x \notin Up(y)
  BY <1>5, <1>6
<1>9. <<Up(y), Up(x)>> \in StrictSubsetOrdering(S)
  BY <1>7, <1>8 DEF StrictSubsetOrdering
<1>10. QED
  BY <1>4, <1>9

\* The greatest, likewise, is Max.
LEMMA MaxIsGreatest ==
    ASSUME NEW S \in SUBSET Int, IsFiniteSet(S), S # {}
    PROVE  Max(S) \in S /\ \A y \in S : Max(S) >= y
BY GreatestExists DEF Max

-----------------------------------------------------------------------------
\* The newest message of a batch is one of it.
LEMMA NewestInBatch ==
    ASSUME TypeOK, worker.batch # {}
    PROVE  Newest \in worker.batch /\ \A n \in worker.batch : n <= Newest
<1>1. worker.batch \in SUBSET (1 .. Len(published)) /\ Len(published) \in Nat
  BY DEF TypeOK, Turn, Ids
<1>2. IsFiniteSet(1 .. Len(published))
  BY <1>1, FS_Interval
<1>3. IsFiniteSet(worker.batch) /\ worker.batch \in SUBSET Int
  BY <1>1, <1>2, FS_Subset
<1>4. QED
  BY <1>1, <1>3, MaxIsGreatest DEF Newest

\* A batch that is not done has a first entry.
LEMMA TodoHasLeast ==
    ASSUME TypeOK, worker.todo # {}
    PROVE  Min(worker.todo) \in worker.todo
<1>1. worker.todo \in SUBSET (1 .. Len(published)) /\ Len(published) \in Nat
  BY DEF TypeOK, Turn, Ids
<1>2. IsFiniteSet(1 .. Len(published))
  BY <1>1, FS_Interval
<1>3. IsFiniteSet(worker.todo) /\ worker.todo \in SUBSET Int
  BY <1>1, <1>2, FS_Subset
<1>4. QED
  BY <1>3, MinIsLeast

\* The stream starts empty.
LEMMA InvInit == Init => StreamInv
<1> SUFFICES ASSUME Init PROVE StreamInv
  OBVIOUS
<1>1. TypeOK
  BY SizesAssumption DEF Init, TypeOK, Ids, Turn, Idle, Step, InQuarantine
<1>2. Ids = {} /\ Len(published) = 0
  BY DEF Init, Ids
<1>3. QED
  BY <1>1, <1>2 DEF Init, StreamInv, NoSilentLoss, StoredInOrder, QuarantineAnnounced,
     BookmarkCovers, Covered, BatchGapless, CopiesAccounted, DueFounded, Idle

-----------------------------------------------------------------------------
\* The log grows by one message, in the stream or lost.
LEMMA PublishPreserves ==
    ASSUME StreamInv, NEW m \in Sendable, Publish(m) \/ PublishFallback(m)
    PROVE  StreamInv'
<1> DEFINE new == Len(published) + 1
<1>1. /\ published' = Append(published, m) /\ m \in Sendable
      /\ Len(published) \in Nat /\ new \in 1 .. MaxMessages
  <2>1. Len(published) \in Nat /\ MaxMessages \in Nat /\ m \in Sendable
    BY SizesAssumption DEF StreamInv, TypeOK
  <2>2. published' = Append(published, m) /\ new <= MaxMessages
    BY <2>1 DEF Publish, PublishFallback
  <2>3. QED
    BY <2>1, <2>2
<1>2. UNCHANGED <<enrolled, quarantined, isolated, rows, count, expiring, alerted,
                  lastId, worker>>
  BY DEF Publish, PublishFallback, assets, counters
<1>3. /\ Ids' = Ids \cup {new} /\ Len(published') = new
      /\ \A n \in Ids : published'[n] = published[n]
      /\ published' \in Seq(Sendable)
  <2>1. published \in Seq(Sendable)
    BY DEF StreamInv, TypeOK
  <2>2. /\ Len(published') = new /\ published' \in Seq(Sendable)
        /\ \A n \in 1 .. Len(published) : published'[n] = published[n]
    BY <1>1, <2>1
  <2>3. 1 .. new = (1 .. Len(published)) \cup {new}
    BY <1>1
  <2>4. QED
    BY <2>2, <2>3 DEF Ids
<1>4. /\ worker.batch \subseteq Ids /\ worker.todo \subseteq Ids
      /\ live \subseteq Ids /\ lost \subseteq Ids
      /\ Ids \subseteq 1 .. MaxMessages /\ new \notin Ids
      /\ lastId \in Nat /\ lastId < new /\ faults \in Nat
      /\ \A n \in 1 .. MaxMessages : rows[n] \in Nat
      /\ rows[new] = 0
  <2>1. TypeOK /\ CopiesAccounted
    BY DEF StreamInv
  <2>2. Ids \subseteq 1 .. MaxMessages /\ new \notin Ids
    BY <1>1, SizesAssumption DEF Ids
  <2>3. worker.batch \subseteq Ids /\ worker.todo \subseteq Ids
    BY <2>1 DEF TypeOK, Turn
  <2>4. /\ live \subseteq Ids /\ lost \subseteq Ids /\ faults \in Nat
        /\ lastId \in Nat /\ lastId < new
    BY <2>1, <1>1, SizesAssumption DEF TypeOK
  <2>5. /\ \A n \in 1 .. MaxMessages : rows[n] \in Nat
        /\ rows[new] = 0
    BY <2>1, <2>2, <1>1 DEF TypeOK, CopiesAccounted
  <2>6. QED
    BY <2>2, <2>3, <2>4, <2>5
<1>5. /\ live' \subseteq live \cup {new} /\ lost \subseteq lost' /\ lost' \subseteq Ids'
      /\ \A n \in (live \cup {new}) \ live' : rows[n] > 0 \/ n \in lost'
      /\ faults' \in {faults, faults + 1} /\ faults' \in 0 .. MaxFaults
  <2>1. CASE Publish(m)
    <3>1. PICK gone \in SUBSET (live \cup {new}) :
             /\ live' = (live \cup {new}) \ gone
             /\ lost' = lost \cup {i \in gone : rows[i] = 0}
      BY <2>1 DEF Publish
    <3>2. faults' = faults /\ faults \in 0 .. MaxFaults
      BY <2>1 DEF Publish, StreamInv, TypeOK
    <3>3. \A n \in (live \cup {new}) \ live' : rows[n] \in Nat /\ n \in gone
      BY <1>1, <1>4, <3>1
    <3>4. \A n \in (live \cup {new}) \ live' : rows[n] > 0 \/ n \in lost'
      BY <3>1, <3>3
    <3>5. live' \subseteq live \cup {new} /\ lost \subseteq lost' /\ lost' \subseteq Ids'
      BY <1>3, <1>4, <3>1
    <3>6. QED
      BY <3>2, <3>4, <3>5
  <2>2. CASE PublishFallback(m)
    <3>1. live' = live /\ lost' = lost \cup {new}
      BY <2>2 DEF PublishFallback
    <3>2. faults' = faults + 1 /\ faults < MaxFaults /\ faults \in Nat /\ MaxFaults \in Nat
      BY <1>4, <2>2, SizesAssumption DEF PublishFallback, Fault
    <3>3. faults' \in 0 .. MaxFaults
      BY <3>2
    <3>4. QED
      BY <1>3, <1>4, <3>1, <3>2, <3>3
  <2>3. QED
    BY <2>1, <2>2
<1>6. worker.batch # {} => Newest < new /\ Newest' = Newest /\ Newest \in Ids
  BY <1>1, <1>2, <1>4, NewestInBatch DEF StreamInv, Newest, Ids
<1>7. TypeOK'
  BY <1>1, <1>2, <1>3, <1>4, <1>5 DEF StreamInv, TypeOK, Turn, InQuarantine, Ids
<1>8. NoSilentLoss' /\ StoredInOrder'
  <2>1. /\ rows' = rows /\ rows[new] = 0
        /\ \A n \in Ids : (WellFormed(n)' <=> WellFormed(n)) /\ n < new
    BY <1>1, <1>2, <1>3, <1>4 DEF WellFormed, Ids
  <2>2. ASSUME NEW n \in Ids', WellFormed(n)' PROVE rows[n] > 0 \/ n \in live' \/ n \in lost'
    <3>1. CASE n = new
      BY <1>5, <3>1
    <3>2. CASE n \in Ids
      BY <1>5, <2>1, <2>2, <3>2 DEF StreamInv, NoSilentLoss
    <3>3. QED
      BY <1>3, <3>1, <3>2
  <2>3. ASSUME NEW i \in Ids', NEW j \in Ids', i < j, WellFormed(i)', rows[j] > 0
        PROVE  rows[i] > 0 \/ i \in lost'
    <3>1. j \in Ids /\ i \in Ids
      BY <1>1, <1>3, <2>1, <2>3 DEF Ids
    <3>2. QED
      BY <1>5, <2>1, <2>3, <3>1 DEF StreamInv, StoredInOrder
  <2>4. QED
    BY <2>1, <2>2, <2>3 DEF NoSilentLoss, StoredInOrder
<1>9. BookmarkCovers'
  <2>1. ASSUME NEW k \in Nat, k < new, Covered(k) PROVE Covered(k)'
    BY <1>2, <1>3, <1>5, <2>1 DEF Covered, WellFormed
  <2>2. worker.step = "trim" => Newest' = Newest /\ Newest \in Nat /\ Newest < new
    BY <1>6 DEF StreamInv, TypeOK, Ids
  <2>3. Covered(lastId)'
    BY <1>2, <1>4, <2>1 DEF StreamInv, BookmarkCovers, Covered
  <2>4. ASSUME worker.step = "trim" PROVE Covered(Newest)'
    <3>1. Covered(Newest)
      BY <2>4 DEF StreamInv, BookmarkCovers
    <3>2. QED
      BY <2>1, <2>2, <2>4, <3>1 DEF Covered
  <2>5. QED
    BY <1>2, <2>3, <2>4 DEF BookmarkCovers
<1>10. BatchGapless'
  <2>1. ASSUME worker.step # "idle"
        PROVE  /\ \A n \in worker.batch : n > lastId
               /\ worker.step # "trim" =>
                     \A n \in live' : (lastId < n /\ n <= Newest) => n \in worker.batch
    <3>1. worker.batch # {} /\ Newest < new /\ Newest \in Nat
      BY <1>6, <2>1 DEF StreamInv, TypeOK, Ids
    <3>2. \A n \in live' : n <= Newest => n \in live
      BY <1>1, <1>5, <3>1
    <3>3. QED
      BY <2>1, <3>2 DEF StreamInv, BatchGapless
  <2>2. worker' = worker /\ lastId' = lastId /\ (worker.step # "idle" => Newest' = Newest)
    BY <1>2, <1>6 DEF StreamInv, TypeOK
  <2>3. QED
    BY <2>1, <2>2 DEF BatchGapless
<1>11. CopiesAccounted'
  <2>1. \A n \in DOMAIN rows' : (n > Len(published') \/ ~WellFormed(n)') => rows'[n] = 0
    <3>1. /\ DOMAIN rows \subseteq Nat /\ rows' = rows
          /\ \A n \in DOMAIN rows : (n > Len(published) \/ ~WellFormed(n)) => rows[n] = 0
      BY <1>2, SizesAssumption DEF StreamInv, TypeOK, CopiesAccounted
    <3>2. ASSUME NEW n \in DOMAIN rows, n > new \/ ~WellFormed(n)'
          PROVE  n > Len(published) \/ ~WellFormed(n)
      <4>1. n \in Nat
        BY <3>1
      <4>2. CASE n \in Ids
        <5>1. WellFormed(n)' <=> WellFormed(n)
          BY <1>3, <4>2 DEF WellFormed
        <5>2. n <= Len(published) /\ ~(n > new)
          BY <1>1, <4>2 DEF Ids
        <5>3. QED
          BY <3>2, <5>1, <5>2
      <4>3. CASE n \notin Ids /\ n # 0
        BY <1>1, <4>1, <4>3 DEF Ids
      <4>4. n # 0
        BY SizesAssumption DEF StreamInv, TypeOK
      <4>5. QED
        BY <4>2, <4>3, <4>4
    <3>3. QED
      BY <1>3, <3>1, <3>2
  <2>2. \A n \in Ids' :
          rows'[n] <= faults' + (IF \/ n <= lastId'
                                    \/ worker'.step = "trim" /\ n \in worker'.batch
                                 THEN 1 ELSE 0)
    BY <1>2, <1>3, <1>4, <1>5 DEF StreamInv, CopiesAccounted
  <2>3. QED
    BY <2>1, <2>2 DEF CopiesAccounted
<1>12. DueFounded' /\ QuarantineAnnounced'
  BY <1>2, <1>3, <1>4 DEF StreamInv, DueFounded, QuarantineAnnounced
<1>13. QED
  BY <1>7, <1>8, <1>9, <1>10, <1>11, <1>12 DEF StreamInv

\* Agents, operators and time touch neither log nor consumer.
LEMMA SurroundingsPreserve ==
    ASSUME StreamInv,
           \/ \E p \in Prints : Enroll(p) \/ Isolate(p) \/ Release(p)
           \/ \E s \in Sources : ExpireCount(s)
           \/ EmptyTurn \/ UNCHANGED vars
    PROVE  StreamInv'
<1>1. UNCHANGED <<published, live, lost, rows, alerted, lastId, worker, faults>>
  BY DEF Enroll, Isolate, Release, ExpireCount, EmptyTurn, vars, stream, assets, counters
<1>2. /\ enrolled' \subseteq Prints /\ InQuarantine' \subseteq Prints
      /\ quarantined' \subseteq quarantined
  BY DEF Enroll, Isolate, Release, ExpireCount, EmptyTurn, vars, assets, InQuarantine,
         StreamInv, TypeOK
<1>3. count' \in [Sources -> 0 .. Threshold + 1] /\ expiring' \subseteq Sources
  <2>1. 0 \in 0 .. Threshold + 1 /\ count \in [Sources -> 0 .. Threshold + 1]
        /\ expiring \subseteq Sources
    BY SizesAssumption DEF StreamInv, TypeOK
  <2>2. CASE \E s \in Sources : ExpireCount(s)
    BY <2>1, <2>2 DEF ExpireCount
  <2>3. CASE ~ \E s \in Sources : ExpireCount(s)
    <3>1. UNCHANGED <<count, expiring>>
      BY <2>3 DEF Enroll, Isolate, Release, EmptyTurn, vars, counters
    <3>2. QED
      BY <2>1, <3>1
  <2>4. QED
    BY <2>2, <2>3
<1>4. TypeOK'
  BY <1>1, <1>2, <1>3 DEF StreamInv, TypeOK, Turn, Ids
<1>5. QED
  BY <1>1, <1>2, <1>4
  DEF StreamInv, NoSilentLoss, StoredInOrder, QuarantineAnnounced, BookmarkCovers,
      Covered, BatchGapless, CopiesAccounted, DueFounded, WellFormed, Ids, Newest

-----------------------------------------------------------------------------
(* The consumer.                                                           *)

\* What is known of the log and the rows stays while they do.
LEMMA LogKept ==
    ASSUME StreamInv, UNCHANGED <<published, live, lost, rows, lastId>>
    PROVE  /\ Ids' = Ids /\ NoSilentLoss' /\ StoredInOrder' /\ Covered(lastId)'
           /\ \A n \in DOMAIN rows' : (n > Len(published') \/ ~WellFormed(n)') => rows'[n] = 0
BY DEF StreamInv, NoSilentLoss, StoredInOrder, BookmarkCovers, Covered, CopiesAccounted,
       WellFormed, Ids

\* A turn that ends early leaves the log as it was.
LEMMA GiveUpPreserves ==
    ASSUME StreamInv, worker.step # "trim",
           UNCHANGED <<published, live, lost, rows, lastId, enrolled, quarantined,
                       isolated, expiring>>,
           GiveUp, faults' \in {faults, faults + 1}, faults' \in 0 .. MaxFaults,
           count' \in [Sources -> 0 .. Threshold + 1],
           alerted \subseteq alerted', alerted' \subseteq Prints
    PROVE  StreamInv'
<1>1. worker' = Idle
  BY DEF GiveUp
<1>2. /\ Ids' = Ids /\ NoSilentLoss' /\ StoredInOrder' /\ Covered(lastId)'
      /\ \A n \in DOMAIN rows' : (n > Len(published') \/ ~WellFormed(n)') => rows'[n] = 0
  BY LogKept
<1>3. TypeOK'
  BY <1>1, <1>2 DEF StreamInv, TypeOK, Idle, Turn, Step, InQuarantine
<1>4. BookmarkCovers' /\ BatchGapless'
  BY <1>1, <1>2 DEF BookmarkCovers, BatchGapless, Idle
<1>5. CopiesAccounted'
  <2>1. \A n \in Ids : rows[n] \in Nat /\ n \in Nat /\ lastId \in Nat /\ faults \in Nat
    BY SizesAssumption DEF StreamInv, TypeOK, Ids
  <2>2. \A n \in Ids : rows[n] <= faults + (IF n <= lastId THEN 1 ELSE 0)
    BY DEF StreamInv, CopiesAccounted
  <2>3. \A n \in Ids : rows[n] <= faults' + (IF n <= lastId THEN 1 ELSE 0)
    BY <2>1, <2>2
  <2>4. worker'.step = "idle"
    BY <1>1 DEF Idle
  <2>5. QED
    BY <1>2, <2>3, <2>4 DEF CopiesAccounted
<1>6. QuarantineAnnounced' /\ DueFounded'
  BY <1>1 DEF StreamInv, QuarantineAnnounced, DueFounded, Idle
<1>7. QED
  BY <1>2, <1>3, <1>4, <1>5, <1>6 DEF StreamInv

\* While the batch is worked on, only what is due changes.
LEMMA WorkPreserves ==
    ASSUME StreamInv,
           UNCHANGED <<published, live, lost, rows, lastId, enrolled, quarantined,
                       isolated, faults>>,
           worker.step = "scan", worker' \in Turn, worker'.step \in {"scan", "commit"},
           worker'.batch = worker.batch, worker'.todo \subseteq worker.todo,
           DueFounded',
           count' \in [Sources -> 0 .. Threshold + 1], expiring' \subseteq Sources,
           alerted \subseteq alerted', alerted' \subseteq Prints
    PROVE  StreamInv'
<1>1. /\ Ids' = Ids /\ NoSilentLoss' /\ StoredInOrder' /\ Covered(lastId)'
      /\ \A n \in DOMAIN rows' : (n > Len(published') \/ ~WellFormed(n)') => rows'[n] = 0
  BY LogKept
<1>2. TypeOK'
  BY <1>1 DEF StreamInv, TypeOK, Turn, Step, InQuarantine
<1>3. BookmarkCovers' /\ BatchGapless' /\ CopiesAccounted'
  BY <1>1 DEF StreamInv, BookmarkCovers, BatchGapless, CopiesAccounted, Newest
<1>4. QuarantineAnnounced'
  BY DEF StreamInv, QuarantineAnnounced
<1>5. QED
  BY <1>1, <1>2, <1>3, <1>4 DEF StreamInv

\* The invariant survives a batch that is fetched ...
LEMMA FetchPreserves ==
    ASSUME StreamInv, Fetch
    PROVE  StreamInv'
<1> DEFINE unread == {n \in live : n > lastId}
           upTo(n) == {i \in unread : i <= n}
           batch == {n \in unread : Cardinality(upTo(n)) <= BatchSize}
<1>1. /\ worker.step = "idle" /\ batch # {}
      /\ worker' = [Idle EXCEPT !.step = "scan", !.batch = batch, !.todo = batch]
      /\ UNCHANGED <<published, live, lost, enrolled, quarantined, isolated, rows, count,
                     expiring, alerted, lastId, faults>>
  BY DEF Fetch, stream, assets, counters
<1>2. /\ live \subseteq Ids /\ Len(published) \in Nat /\ lastId \in Nat
      /\ BatchSize \in Nat /\ batch \subseteq Ids
  BY SizesAssumption DEF StreamInv, TypeOK
<1>3. /\ worker'.step = "scan" /\ worker'.batch = batch /\ worker'.todo = batch
      /\ worker'.due = {} /\ worker' \in Turn
  <2> HIDE DEF batch
  <2>1. QED
    BY <1>1, <1>2 DEF Idle, Turn, Step
<1>4. /\ Ids' = Ids /\ NoSilentLoss' /\ StoredInOrder' /\ Covered(lastId)'
      /\ \A n \in DOMAIN rows' : (n > Len(published') \/ ~WellFormed(n)') => rows'[n] = 0
  BY <1>1, LogKept
<1>5. TypeOK'
  <2> HIDE DEF batch
  <2>1. QED
    BY <1>1, <1>3, <1>4 DEF StreamInv, TypeOK, Turn, InQuarantine
<1>6. BatchGapless'
  <2>1. Newest' \in batch
    <3> HIDE DEF batch
    <3>1. IsFiniteSet(1 .. Len(published))
      BY <1>2, FS_Interval
    <3>2. batch \in SUBSET (1 .. Len(published)) /\ batch \in SUBSET Int
      BY <1>2 DEF Ids
    <3>3. IsFiniteSet(batch)
      BY <3>1, <3>2, FS_Subset
    <3>4. Max(batch) \in batch
      BY <1>1, <3>2, <3>3, MaxIsGreatest
    <3>5. QED
      BY <1>3, <3>4 DEF Newest
  <2>2. ASSUME NEW n \in live, lastId < n, n <= Newest' PROVE n \in batch
    <3>1. n \in unread /\ Newest' \in unread
      BY <2>1, <2>2
    <3>2. upTo(n) \subseteq upTo(Newest') /\ upTo(Newest') \subseteq 1 .. Len(published)
      <4>1. n \in Int /\ Newest' \in Int /\ \A i \in unread : i \in Int
        BY <1>2, <3>1 DEF Ids
      <4>2. \A i \in upTo(n) : i \in upTo(Newest')
        BY <2>2, <4>1
      <4>3. QED
        BY <1>2, <4>2 DEF Ids
    <3>3. IsFiniteSet(upTo(Newest'))
      <4> HIDE DEF upTo
      <4>1. IsFiniteSet(1 .. Len(published))
        BY <1>2, FS_Interval
      <4>2. QED
        BY <3>2, <4>1, FS_Subset
    <3>4. Cardinality(upTo(n)) <= Cardinality(upTo(Newest'))
          /\ Cardinality(upTo(n)) \in Nat /\ Cardinality(upTo(Newest')) \in Nat
      <4> HIDE DEF upTo
      <4>1. IsFiniteSet(upTo(n)) /\ Cardinality(upTo(n)) <= Cardinality(upTo(Newest'))
        BY <3>2, <3>3, FS_Subset
      <4>2. QED
        BY <3>3, <4>1, FS_CardinalityType
    <3>5. Cardinality(upTo(Newest')) <= BatchSize
      BY <2>1
    <3>6. Cardinality(upTo(n)) <= BatchSize
      <4> HIDE DEF upTo
      <4>1. QED
        BY <1>2, <3>4, <3>5
    <3>7. QED
      BY <3>1, <3>6
  <2>3. \A n \in batch : n > lastId
    OBVIOUS
  <2>4. QED
    <3> HIDE DEF batch
    <3>1. QED
      BY <1>1, <1>3, <2>2, <2>3 DEF BatchGapless
<1>7. BookmarkCovers' /\ CopiesAccounted'
  <2> HIDE DEF batch
  <2>1. QED
    BY <1>1, <1>3, <1>4 DEF StreamInv, BookmarkCovers, CopiesAccounted
<1>8. QuarantineAnnounced' /\ DueFounded'
  <2> HIDE DEF batch
  <2>1. QED
    BY <1>1, <1>3 DEF StreamInv, QuarantineAnnounced, DueFounded
<1>9. QED
  BY <1>4, <1>5, <1>6, <1>7, <1>8 DEF StreamInv

\* Counting a failed logon keeps a counter in its range.
LEMMA CountTyped ==
    ASSUME StreamInv, NEW n \in Ids, published[n].kind = "logon"
    PROVE  /\ published[n].src \in Sources
           /\ [count EXCEPT ![published[n].src] = Counted(published[n].src)]
                  \in [Sources -> 0 .. Threshold + 1]
<1>1. published[n] \in Sendable
  BY DEF StreamInv, TypeOK, Ids
<1>2. published[n].src \in Sources
  BY <1>1 DEF Sendable, Message
<1>3. Counted(published[n].src) \in 0 .. Threshold + 1
  BY <1>2, SizesAssumption DEF Counted, StreamInv, TypeOK
<1>4. QED
  BY <1>2, <1>3 DEF StreamInv, TypeOK

\* ... an entry that is scanned ...
LEMMA ScanPreserves ==
    ASSUME StreamInv, Scan \/ ScanFails
    PROVE  StreamInv'
<1> DEFINE n == Min(worker.todo)
           m == published[n]
<1>1. /\ n \in worker.todo /\ n \in worker.batch /\ n \in Ids /\ m \in Sendable
      /\ worker.step = "scan" /\ worker \in Turn
  <2>1. worker.step = "scan" /\ worker.todo # {}
    BY DEF Scan, ScanFails
  <2>2. n \in worker.todo
    BY <2>1, TodoHasLeast DEF StreamInv
  <2>3. n \in worker.batch /\ n \in Ids
    BY <2>2 DEF StreamInv, TypeOK, Turn
  <2>4. m \in Sendable /\ worker \in Turn
    BY <2>3 DEF StreamInv, TypeOK, Ids
  <2>5. QED
    BY <2>1, <2>2, <2>3, <2>4
<1> HIDE DEF n
<1>2. m.kind = "logon" =>
         /\ m.src \in Sources
         /\ [count EXCEPT ![m.src] = Counted(m.src)] \in [Sources -> 0 .. Threshold + 1]
  BY <1>1, CountTyped
<1>3. CASE Scan
  <2> DEFINE known == m.print \in enrolled
             over == m.kind = "logon" /\ Counted(m.src) > Threshold
             due == IF over /\ known THEN worker.due \cup {m.print} ELSE worker.due
             stray == worker.stray \/ (WellFormed(n) /\ ~known)
  <2>1. /\ worker' = [worker EXCEPT !.todo = @ \ {n}, !.stray = stray, !.due = due]
        /\ UNCHANGED <<published, live, lost, rows, lastId, enrolled, quarantined,
                       isolated, alerted, faults>>
    BY <1>3 DEF Scan, stream, assets, n
  <2>2. m.print \in Prints /\ due \in SUBSET Prints /\ stray \in BOOLEAN
    BY <1>1 DEF Sendable, Message, Turn
  <2>3. \A p \in due :
           \E i \in worker.batch : published[i].kind = "logon" /\ published[i].print = p
    BY <1>1 DEF StreamInv, DueFounded
  <2>4. /\ count' \in [Sources -> 0 .. Threshold + 1] /\ expiring' \subseteq Sources
    <3>1. CASE m.kind = "logon"
      <4>1. /\ count' = [count EXCEPT ![m.src] = Counted(m.src)]
            /\ expiring' \subseteq expiring \cup {m.src}
        BY <1>3, <3>1 DEF Scan, n
      <4>2. QED
        BY <1>2, <3>1, <4>1 DEF StreamInv, TypeOK
    <3>2. CASE m.kind # "logon"
      <4>1. UNCHANGED <<count, expiring>>
        BY <1>3, <3>2 DEF Scan, counters, n
      <4>2. QED
        BY <4>1 DEF StreamInv, TypeOK
    <3>3. QED
      BY <3>1, <3>2
  <2> HIDE DEF due, stray
  <2>5. /\ worker' \in Turn /\ worker'.step = "scan" /\ worker'.batch = worker.batch
        /\ worker'.todo = worker.todo \ {n} /\ worker'.due = due
    BY <1>1, <2>1, <2>2 DEF Turn
  <2>6. Turn' = Turn /\ DueFounded'
    BY <2>1, <2>3, <2>5 DEF DueFounded, Turn, Ids
  <2>7. alerted' \subseteq Prints
    BY <2>1 DEF StreamInv, TypeOK
  <2>8. QED
    BY <1>1, <2>1, <2>4, <2>5, <2>6, <2>7, WorkPreserves
<1>4. CASE ScanFails
  <2>1. /\ UNCHANGED <<published, live, lost, rows, lastId, enrolled, quarantined,
                       isolated, expiring, alerted>>
        /\ GiveUp
    BY <1>4 DEF ScanFails, stream, assets
  <2>2. faults' = faults + 1 /\ faults' \in 0 .. MaxFaults
    BY <1>4, SizesAssumption DEF ScanFails, Fault, StreamInv, TypeOK
  <2>3. count' \in [Sources -> 0 .. Threshold + 1]
    BY <1>2, <1>4 DEF ScanFails, StreamInv, TypeOK, n
  <2>4. alerted' \subseteq Prints
    BY <2>1 DEF StreamInv, TypeOK
  <2>5. QED
    BY <1>1, <2>1, <2>2, <2>3, <2>4, GiveUpPreserves
<1>5. QED
  BY <1>3, <1>4

\* ... an alert that is announced ...
LEMMA AnnouncePreserves ==
    ASSUME StreamInv, Announce \/ AnnounceFails
    PROVE  StreamInv'
<1> DEFINE marked == worker.due \ InQuarantine
<1>1. worker.step = "scan" /\ worker \in Turn /\ marked \in SUBSET Prints
  BY DEF Announce, AnnounceFails, StreamInv, TypeOK, Turn
<1>2. /\ count \in [Sources -> 0 .. Threshold + 1] /\ expiring \subseteq Sources
      /\ alerted \subseteq Prints
  BY DEF StreamInv, TypeOK
<1>3. CASE Announce
  <2>1. /\ worker' = [worker EXCEPT !.step = "commit", !.due = marked]
        /\ alerted' = alerted \cup marked
        /\ UNCHANGED <<published, live, lost, rows, lastId, enrolled, quarantined,
                       isolated, count, expiring, faults>>
    BY <1>3 DEF Announce, stream, assets, counters
  <2>2. /\ worker' \in Turn /\ worker'.step = "commit" /\ worker'.batch = worker.batch
        /\ worker'.todo = worker.todo /\ worker'.due = marked
    BY <1>1, <2>1 DEF Turn, Step
  <2>3. DueFounded'
    BY <2>1, <2>2 DEF StreamInv, DueFounded
  <2>4. QED
    BY <1>1, <1>2, <2>1, <2>2, <2>3, WorkPreserves
<1>4. CASE AnnounceFails
  <2>1. /\ UNCHANGED <<published, live, lost, rows, lastId, enrolled, quarantined,
                       isolated, count, expiring>>
        /\ GiveUp /\ alerted \subseteq alerted' /\ alerted' \subseteq Prints
    BY <1>1, <1>2, <1>4 DEF AnnounceFails, stream, assets, counters
  <2>2. faults' = faults + 1 /\ faults' \in 0 .. MaxFaults
    BY <1>4, SizesAssumption DEF AnnounceFails, Fault, StreamInv, TypeOK
  <2>3. QED
    BY <1>1, <1>2, <2>1, <2>2, GiveUpPreserves
<1>5. QED
  BY <1>3, <1>4

-----------------------------------------------------------------------------
(* The commit and what follows it.                                         *)

\* The commit of a gapless batch leaves nothing behind, nothing out of order
\* and at most one copy more.
LEMMA CommitEffect ==
    ASSUME StreamInv, Committed
    PROVE  /\ rows' \in [1 .. MaxMessages -> Nat]
           /\ Covered(lastId)' /\ NoSilentLoss' /\ StoredInOrder'
           /\ \A n \in Ids : (n <= Newest /\ WellFormed(n)) => rows'[n] > 0 \/ n \in lost
           /\ \A n \in DOMAIN rows' : (n > Len(published') \/ ~WellFormed(n)') => rows'[n] = 0
           /\ \A n \in Ids : rows'[n] <= faults + (IF n <= lastId \/ n \in worker.batch
                                                   THEN 1 ELSE 0)
           /\ quarantined' \subseteq alerted' /\ InQuarantine' \subseteq Prints
<1>1. /\ worker.step = "commit" /\ worker.batch # {} /\ worker \in Turn
      /\ UNCHANGED <<published, live, lost, isolated, alerted, lastId>>
      /\ quarantined' = quarantined \cup worker.due
  BY DEF Committed, stream, counters, StreamInv, TypeOK
<1>2. rows' = [n \in DOMAIN rows |->
                  IF n \in worker.batch /\ WellFormed(n) THEN rows[n] + 1 ELSE rows[n]]
  BY DEF Committed
<1>3. /\ rows \in [1 .. MaxMessages -> Nat] /\ DOMAIN rows = 1 .. MaxMessages
      /\ Ids \subseteq DOMAIN rows /\ Ids \subseteq Nat
      /\ faults \in Nat /\ lastId \in Nat /\ Len(published) \in Nat
  BY SizesAssumption DEF StreamInv, TypeOK, Ids
<1>4. \A n \in DOMAIN rows : /\ rows[n] \in Nat /\ rows'[n] \in Nat
                             /\ rows'[n] >= rows[n]
                             /\ rows'[n] <= rows[n] + 1
                             /\ (n \in worker.batch /\ WellFormed(n)) => rows'[n] > 0
                             /\ ~(n \in worker.batch /\ WellFormed(n)) => rows'[n] = rows[n]
  BY <1>2, <1>3
<1>5. rows' \in [1 .. MaxMessages -> Nat]
  BY <1>2, <1>3, <1>4
<1>6. /\ Newest \in worker.batch /\ Newest \in Ids
      /\ \A n \in worker.batch : n <= Newest /\ n > lastId /\ n \in Ids
      /\ \A n \in live : (lastId < n /\ n <= Newest) => n \in worker.batch
  BY <1>1, NewestInBatch DEF StreamInv, BatchGapless, Turn
<1>7. \A n \in Ids : (n <= Newest /\ WellFormed(n)) => rows'[n] > 0 \/ n \in lost
  <2> SUFFICES ASSUME NEW n \in Ids, n <= Newest, WellFormed(n), n \notin lost
               PROVE  rows'[n] > 0
    OBVIOUS
  <2>1. CASE rows[n] > 0
    BY <1>3, <1>4, <2>1
  <2>2. CASE ~(rows[n] > 0)
    <3>1. n \in live
      BY <2>2 DEF StreamInv, NoSilentLoss
    <3>2. lastId < n
      BY <1>3, <2>2 DEF StreamInv, BookmarkCovers, Covered
    <3>3. n \in worker.batch
      BY <1>6, <3>1, <3>2
    <3>4. QED
      BY <1>3, <1>4, <3>3
  <2>3. QED
    BY <2>1, <2>2
<1>8. Ids' = Ids /\ \A n : WellFormed(n)' <=> WellFormed(n)
  BY <1>1 DEF Ids, WellFormed
<1>9. Covered(lastId)' /\ NoSilentLoss'
  BY <1>1, <1>3, <1>4, <1>8 DEF StreamInv, BookmarkCovers, Covered, NoSilentLoss
<1>10. StoredInOrder'
  <2> SUFFICES ASSUME NEW i \in Ids, NEW j \in Ids, i < j, WellFormed(i), rows'[j] > 0
               PROVE  rows'[i] > 0 \/ i \in lost
    BY <1>1, <1>8 DEF StoredInOrder
  <2>1. CASE rows[j] > 0
    BY <1>3, <1>4, <2>1 DEF StreamInv, StoredInOrder
  <2>2. CASE ~(rows[j] > 0)
    <3>1. j \in worker.batch /\ WellFormed(j)
      BY <1>3, <1>4, <2>2
    <3>2. i <= Newest
      <4>1. j \in Nat /\ i \in Nat /\ Newest \in Nat /\ j <= Newest
        BY <1>3, <1>6, <3>1
      <4>2. QED
        BY <4>1
    <3>3. QED
      BY <1>7, <3>2
  <2>3. QED
    BY <2>1, <2>2
<1>11. \A n \in DOMAIN rows' : (n > Len(published') \/ ~WellFormed(n)') => rows'[n] = 0
  <2>1. \A n \in DOMAIN rows :
           (n > Len(published) \/ ~WellFormed(n)) => ~(n \in worker.batch /\ WellFormed(n))
    BY <1>3, <1>6 DEF Ids
  <2>2. QED
    BY <1>1, <1>2, <1>4, <1>8, <2>1 DEF StreamInv, CopiesAccounted
<1>12. \A n \in Ids : rows'[n] <= faults + (IF n <= lastId \/ n \in worker.batch
                                            THEN 1 ELSE 0)
  <2>1. \A n \in Ids : rows[n] <= faults + (IF n <= lastId THEN 1 ELSE 0)
    BY <1>1 DEF StreamInv, CopiesAccounted
  <2>2. QED
    BY <1>3, <1>4, <1>6, <2>1
<1>13. quarantined' \subseteq alerted' /\ InQuarantine' \subseteq Prints
  BY <1>1 DEF StreamInv, QuarantineAnnounced, DueFounded, InQuarantine, TypeOK, Turn
<1>14. QED
  BY <1>5, <1>7, <1>9, <1>10, <1>11, <1>12, <1>13

\* ... a batch that is persisted ...
LEMMA PersistPreserves ==
    ASSUME StreamInv, Persist \/ PersistFails
    PROVE  StreamInv'
<1>1. /\ worker.step = "commit" /\ worker \in Turn /\ worker.batch # {}
      /\ count \in [Sources -> 0 .. Threshold + 1] /\ expiring \subseteq Sources
      /\ alerted \subseteq Prints
      /\ faults \in 0 .. MaxFaults /\ MaxFaults \in Nat
  BY SizesAssumption DEF Persist, PersistFails, Committed, StreamInv, TypeOK
<1>2. CASE /\ GiveUp
           /\ UNCHANGED <<stream, assets, rows, counters, alerted, lastId>>
           /\ faults' = faults \/ Fault
  <2>1. faults' \in {faults, faults + 1} /\ faults' \in 0 .. MaxFaults
    BY <1>1, <1>2 DEF Fault
  <2>2. UNCHANGED <<published, live, lost, rows, lastId, enrolled, quarantined,
                    isolated, count, expiring, alerted>>
    BY <1>2 DEF stream, assets, counters
  <2>3. QED
    BY <1>1, <1>2, <2>1, <2>2, GiveUpPreserves
<1>3. CASE /\ Committed
           /\ \/ worker' = [worker EXCEPT !.step = "trim"] /\ faults' = faults
              \/ GiveUp /\ Fault
  <2>1. UNCHANGED <<published, live, lost, enrolled, isolated, count, expiring, alerted,
                    lastId>>
    BY <1>3 DEF Committed, stream, counters
  <2>2. /\ rows' \in [1 .. MaxMessages -> Nat]
        /\ Covered(lastId)' /\ NoSilentLoss' /\ StoredInOrder'
        /\ \A n \in Ids : (n <= Newest /\ WellFormed(n)) => rows'[n] > 0 \/ n \in lost
        /\ \A n \in DOMAIN rows' : (n > Len(published') \/ ~WellFormed(n)') => rows'[n] = 0
        /\ \A n \in Ids : rows'[n] <= faults + (IF n <= lastId \/ n \in worker.batch
                                                THEN 1 ELSE 0)
        /\ quarantined' \subseteq alerted' /\ InQuarantine' \subseteq Prints
    BY <1>3, CommitEffect
  <2>3. Ids' = Ids /\ Turn' = Turn /\ \A n : WellFormed(n)' <=> WellFormed(n)
    BY <2>1 DEF Ids, Turn, WellFormed
  <2>4. \A n \in Ids : rows'[n] \in Nat /\ n \in Nat /\ lastId \in Nat
    BY <2>2, SizesAssumption DEF StreamInv, TypeOK, Ids
  <2>5. CASE worker' = [worker EXCEPT !.step = "trim"] /\ faults' = faults
    <3>1. /\ worker' \in Turn /\ worker'.step = "trim" /\ worker'.batch = worker.batch
          /\ worker'.todo = worker.todo /\ worker'.due = worker.due
      BY <1>1, <2>5 DEF Turn, Step
    <3>2. TypeOK'
      BY <1>1, <2>1, <2>2, <2>3, <2>5, <3>1 DEF StreamInv, TypeOK
    <3>3. BookmarkCovers' /\ CopiesAccounted'
      BY <2>1, <2>2, <2>3, <2>5, <3>1
      DEF BookmarkCovers, Covered, CopiesAccounted, Newest
    <3>4. BatchGapless' /\ DueFounded' /\ QuarantineAnnounced'
      BY <1>1, <2>1, <2>2, <3>1
      DEF StreamInv, BatchGapless, DueFounded, QuarantineAnnounced
    <3>5. QED
      BY <2>2, <3>2, <3>3, <3>4 DEF StreamInv
  <2>6. CASE GiveUp /\ Fault
    <3>1. /\ worker' = Idle /\ worker'.step = "idle" /\ worker'.due = {}
      BY <2>6 DEF GiveUp, Idle
    <3>2. faults' = faults + 1 /\ faults' \in 0 .. MaxFaults /\ faults \in Nat
      BY <1>1, <2>6 DEF Fault
    <3>3. TypeOK'
      BY <1>1, <2>1, <2>2, <2>3, <3>1, <3>2 DEF StreamInv, TypeOK, Idle, Turn, Step
    <3>4. BookmarkCovers' /\ BatchGapless' /\ DueFounded' /\ QuarantineAnnounced'
      BY <2>2, <3>1 DEF BookmarkCovers, BatchGapless, DueFounded, QuarantineAnnounced
    <3>5. CopiesAccounted'
      BY <2>2, <2>3, <2>4, <3>1, <3>2 DEF CopiesAccounted
    <3>6. QED
      BY <2>2, <3>3, <3>4, <3>5 DEF StreamInv
  <2>7. QED
    BY <1>3, <2>5, <2>6
<1>4. QED
  BY <1>2, <1>3 DEF Persist, PersistFails

\* ... and a stream that is trimmed.
LEMMA TrimPreserves ==
    ASSUME StreamInv, Trim
    PROVE  StreamInv'
<1>1. PICK cut \in 0 .. Newest - 1 : live' = {n \in live : n > cut}
  BY DEF Trim
<1>2. /\ worker.step = "trim" /\ worker.batch # {} /\ worker' = Idle
      /\ lastId' = (IF \E n \in worker.batch : WellFormed(n) THEN Newest ELSE lastId)
      /\ UNCHANGED <<published, lost, enrolled, quarantined, isolated, rows, count,
                     expiring, alerted, faults>>
  BY DEF Trim, GiveUp, assets, counters, StreamInv, TypeOK
<1>3. /\ Newest \in worker.batch /\ Newest \in Ids
      /\ \A n \in worker.batch : n <= Newest /\ n > lastId /\ n \in Ids
  BY <1>2, NewestInBatch DEF StreamInv, BatchGapless, TypeOK, Turn
<1>4. /\ Ids' = Ids /\ Turn' = Turn /\ (\A n : WellFormed(n)' <=> WellFormed(n))
      /\ Ids \subseteq Nat /\ Ids \subseteq DOMAIN rows
      /\ lastId \in Nat /\ Len(published) \in Nat /\ faults \in Nat
      /\ \A n \in Ids : rows[n] \in Nat
  BY <1>2, SizesAssumption DEF Ids, Turn, WellFormed, StreamInv, TypeOK
<1>5. /\ lastId' \in 0 .. Len(published) /\ lastId' >= lastId
      /\ Covered(lastId) /\ Covered(Newest) /\ Covered(lastId')
  BY <1>2, <1>3, <1>4 DEF Ids, StreamInv, BookmarkCovers, Covered
<1>6. TypeOK'
  BY <1>1, <1>2, <1>4, <1>5 DEF StreamInv, TypeOK, Idle, Turn, Step, InQuarantine
<1>7. NoSilentLoss'
  <2> SUFFICES ASSUME NEW n \in Ids, WellFormed(n), n \notin live'
               PROVE  rows[n] > 0 \/ n \in lost
    BY <1>2, <1>4 DEF NoSilentLoss
  <2>1. CASE n \notin live
    BY <2>1 DEF StreamInv, NoSilentLoss
  <2>2. CASE n \in live
    <3>1. n <= Newest
      BY <1>1, <1>3, <1>4, <2>2
    <3>2. QED
      BY <1>5, <3>1 DEF Covered
  <2>3. QED
    BY <2>1, <2>2
<1>8. StoredInOrder' /\ QuarantineAnnounced'
  BY <1>2, <1>4 DEF StreamInv, StoredInOrder, QuarantineAnnounced
<1>9. BookmarkCovers' /\ BatchGapless' /\ DueFounded'
  BY <1>2, <1>4, <1>5 DEF BookmarkCovers, BatchGapless, DueFounded, Covered, Idle
<1>10. CopiesAccounted'
  <2>1. \A n \in DOMAIN rows' : (n > Len(published') \/ ~WellFormed(n)') => rows'[n] = 0
    BY <1>2, <1>4 DEF StreamInv, CopiesAccounted
  <2>2. \A n \in Ids : rows[n] <= faults + (IF n <= lastId' THEN 1 ELSE 0)
    <3> SUFFICES ASSUME NEW n \in Ids
                 PROVE  rows[n] <= faults + (IF n <= lastId' THEN 1 ELSE 0)
      OBVIOUS
    <3>1. rows[n] <= faults + (IF n <= lastId \/ n \in worker.batch THEN 1 ELSE 0)
      BY <1>2 DEF StreamInv, CopiesAccounted
    <3>2. CASE n \in worker.batch /\ ~WellFormed(n)
      BY <1>4, <3>2 DEF StreamInv, CopiesAccounted
    <3>3. CASE n \in worker.batch /\ WellFormed(n)
      BY <1>2, <1>3, <1>4, <3>1, <3>3
    <3>4. CASE n \notin worker.batch
      BY <1>4, <1>5, <3>1, <3>4
    <3>5. QED
      BY <3>2, <3>3, <3>4
  <2>3. worker'.step = "idle"
    BY <1>2 DEF Idle
  <2>4. QED
    BY <1>2, <1>4, <2>1, <2>2, <2>3 DEF CopiesAccounted
<1>11. QED
  BY <1>6, <1>7, <1>8, <1>9, <1>10 DEF StreamInv

\* The next consumer starts over: each message may be stored once more.
LEMMA RestartPreserves ==
    ASSUME StreamInv, Restart
    PROVE  StreamInv'
<1>1. /\ worker' = Idle /\ worker'.step = "idle" /\ worker'.due = {} /\ lastId' = 0
      /\ UNCHANGED <<published, live, lost, enrolled, quarantined, isolated, rows, count,
                     expiring, alerted>>
  BY DEF Restart, GiveUp, stream, assets, counters, Idle
<1>2. faults' = faults + 1 /\ faults' \in 0 .. MaxFaults /\ faults \in Nat
  BY SizesAssumption DEF Restart, Fault, StreamInv, TypeOK
<1>3. /\ Ids' = Ids /\ Turn' = Turn /\ (\A n : WellFormed(n)' <=> WellFormed(n))
      /\ Len(published) \in Nat
      /\ \A n \in Ids : rows[n] \in Nat /\ n \in Nat /\ ~(n <= 0)
  BY <1>1, SizesAssumption DEF Ids, Turn, WellFormed, StreamInv, TypeOK
<1>4. TypeOK'
  BY <1>1, <1>2, <1>3 DEF StreamInv, TypeOK, Idle, Turn, Step, InQuarantine
<1>5. NoSilentLoss' /\ StoredInOrder' /\ QuarantineAnnounced'
  BY <1>1, <1>3 DEF StreamInv, NoSilentLoss, StoredInOrder, QuarantineAnnounced
<1>6. BookmarkCovers' /\ BatchGapless' /\ DueFounded'
  BY <1>1, <1>3 DEF BookmarkCovers, BatchGapless, DueFounded, Covered
<1>7. CopiesAccounted'
  BY <1>1, <1>2, <1>3 DEF StreamInv, CopiesAccounted
<1>8. QED
  BY <1>4, <1>5, <1>6, <1>7 DEF StreamInv

-----------------------------------------------------------------------------
(* The theorems.                                                           *)

\* The inductive invariant of ingestion.
THEOREM StreamSafe == Spec => []StreamInv
<1>1. ASSUME StreamInv, [Next]_vars PROVE StreamInv'
  <2>1. CASE \E m \in Sendable : Publish(m) \/ PublishFallback(m)
    BY <1>1, <2>1, PublishPreserves
  <2>2. CASE \/ \E p \in Prints : Enroll(p) \/ Isolate(p) \/ Release(p)
             \/ \E s \in Sources : ExpireCount(s)
             \/ EmptyTurn \/ UNCHANGED vars
    BY <1>1, <2>2, SurroundingsPreserve
  <2>3. CASE Fetch
    BY <1>1, <2>3, FetchPreserves
  <2>4. CASE Scan \/ ScanFails
    BY <1>1, <2>4, ScanPreserves
  <2>5. CASE Announce \/ AnnounceFails
    BY <1>1, <2>5, AnnouncePreserves
  <2>6. CASE Persist \/ PersistFails
    BY <1>1, <2>6, PersistPreserves
  <2>7. CASE Trim
    BY <1>1, <2>7, TrimPreserves
  <2>8. CASE Restart
    BY <1>1, <2>8, RestartPreserves
  <2>9. QED
    BY <1>1, <2>1, <2>2, <2>3, <2>4, <2>5, <2>6, <2>7, <2>8 DEF Next, Worker
<1>2. QED
  BY InvInit, <1>1, PTL DEF Spec

\* The consumer's state and the stream stay well-typed.
THEOREM StreamTyped == Spec => []TypeOK
<1>1. StreamInv => TypeOK
  BY DEF StreamInv
<1>2. QED
  BY <1>1, StreamSafe, PTL

\* Whatever fails, a message of the stream is stored or still in it.
THEOREM NothingDropped == Spec => []NoSilentLoss
<1>1. StreamInv => NoSilentLoss
  BY DEF StreamInv
<1>2. QED
  BY <1>1, StreamSafe, PTL

\* The database never runs ahead of the order of acceptance.
THEOREM OrderKept == Spec => []StoredInOrder
<1>1. StreamInv => StoredInOrder
  BY DEF StreamInv
<1>2. QED
  BY <1>1, StreamSafe, PTL

\* No message is stored more often than one plus the number of failures.
THEOREM CopiesLimited == Spec => []CopiesBounded
<1>1. StreamInv => CopiesBounded
  <2> SUFFICES ASSUME StreamInv, NEW n \in Ids PROVE rows[n] <= 1 + faults
    BY DEF CopiesBounded
  <2>1. rows[n] \in Nat /\ faults \in Nat
    BY SizesAssumption DEF StreamInv, TypeOK, Ids
  <2>2. QED
    BY <2>1 DEF StreamInv, CopiesAccounted
<1>2. QED
  BY <1>1, StreamSafe, PTL

\* No asset is quarantined by the consumer without an alert.
THEOREM Announced == Spec => []QuarantineAnnounced
<1>1. StreamInv => QuarantineAnnounced
  BY DEF StreamInv
<1>2. QED
  BY <1>1, StreamSafe, PTL

\* Every automated quarantine is committed with the row of a failed logon on
\* the same asset.
THEOREM Evidence == Spec => QuarantineHasEvidence
<1> DEFINE Witnessed(p) ==
        \E n \in Ids : /\ rows'[n] > rows[n]
                       /\ published[n].kind = "logon" /\ published[n].print = p
           Founded == \A p \in Prints :
                         (p \notin quarantined /\ p \in quarantined') => Witnessed(p)
<1>1. ASSUME StreamInv, [Next]_vars PROVE [Founded]_vars
  <2> SUFFICES ASSUME NEW p \in Prints, p \notin quarantined, p \in quarantined'
               PROVE  Witnessed(p)
    OBVIOUS
  <2>1. Committed
    BY <1>1
    DEF Next, Worker, vars, assets, Publish, PublishFallback, Enroll, Isolate, Release,
        ExpireCount, EmptyTurn, Fetch, Scan, ScanFails, Announce, AnnounceFails,
        Persist, PersistFails, Trim, Restart
  <2>2. p \in worker.due
    BY <2>1 DEF Committed
  <2>3. PICK n \in worker.batch : published[n].kind = "logon" /\ published[n].print = p
    BY <1>1, <2>2 DEF StreamInv, DueFounded
  <2>4. n \in Ids /\ n \in DOMAIN rows /\ rows[n] \in Nat
    BY <1>1, <2>3, SizesAssumption DEF StreamInv, TypeOK, Turn, Ids
  <2>5. WellFormed(n)
    BY <2>3 DEF WellFormed
  <2>6. rows'[n] = rows[n] + 1
    BY <2>1, <2>3, <2>4, <2>5 DEF Committed
  <2>7. QED
    BY <2>3, <2>4, <2>6
<1>2. Spec => [][Founded]_vars
  BY <1>1, StreamSafe, PTL DEF Spec
<1>3. QED
  BY <1>2 DEF QuarantineHasEvidence

-----------------------------------------------------------------------------
(* The feed of alerts.                                                      *)

Alerts == Nat \ {0}

Sockets == Visits \X Nat

WalkState == [alert : Nat, at : Nat, served : SUBSET Sockets, shifted : BOOLEAN]

Page == {"unseen", "mounted", "left"}

Link == {"none", "calling", "open", "broken", "retrying"}

\* The types of the feed; the walk has an alert and a place.
FeedTyped ==
    /\ announced \in Nat /\ failures \in Nat
    /\ listener \in {"waiting", "listening", "ended"}
    /\ inbox \in Seq(Alerts) /\ conns \in Seq(Sockets) /\ walk \in WalkState
    /\ page \in [Visits -> Page] /\ link \in [Visits -> Link] /\ attempt \in [Visits -> Nat]
    /\ wire \in [Visits -> Seq(Alerts)] /\ shown \in [Visits -> Seq(Nat)]
    /\ Walking => walk.alert # 0 /\ walk.at # 0

-----------------------------------------------------------------------------
\* The list with a new entry in front, cut.
Fronted(list, entry) ==
    SubSeq(<<entry>> \o list, 1, IF Len(list) < Kept THEN Len(list) + 1 ELSE Kept)

\* The new entry is first, the others follow one place later.
LEMMA FrontedList ==
    ASSUME NEW list \in Seq(Nat), NEW entry \in Nat
    PROVE  /\ Fronted(list, entry) \in Seq(Nat)
           /\ Len(Fronted(list, entry)) \in 1 .. Len(list) + 1
           /\ Fronted(list, entry)[1] = entry
           /\ \A i \in DOMAIN Fronted(list, entry) :
                 i # 1 => i - 1 \in DOMAIN list /\ Fronted(list, entry)[i] = list[i - 1]
<1> DEFINE whole == <<entry>> \o list
           n == IF Len(list) < Kept THEN Len(list) + 1 ELSE Kept
<1>1. whole \in Seq(Nat) /\ Len(whole) = Len(list) + 1
  OBVIOUS
<1>2. whole[1] = entry /\ \A i \in 2 .. Len(list) + 1 : whole[i] = list[i - 1]
  OBVIOUS
<1>3. n \in 1 .. Len(list) + 1
  BY FeedAssumption
<1> HIDE DEF whole, n
<1>4. SubSeq(whole, 1, n) \in Seq(Nat) /\ Len(SubSeq(whole, 1, n)) = n
  BY <1>1, <1>3
<1>5. \A i \in 1 .. n : SubSeq(whole, 1, n)[i] = whole[i]
  BY <1>1, <1>3
<1>6. Fronted(list, entry) = SubSeq(whole, 1, n)
  BY DEF Fronted, whole, n
<1>7. DOMAIN Fronted(list, entry) = 1 .. n
  BY <1>3, <1>4, <1>6
<1>8. ASSUME NEW i \in 1 .. n, i # 1
      PROVE  i - 1 \in DOMAIN list /\ Fronted(list, entry)[i] = list[i - 1]
  <2>1. i \in 2 .. Len(list) + 1 /\ i - 1 \in 1 .. Len(list)
    BY <1>3, <1>8
  <2>2. Fronted(list, entry)[i] = whole[i] /\ whole[i] = list[i - 1]
    BY <1>2, <1>5, <1>6, <1>8, <2>1
  <2>3. QED
    BY <2>1, <2>2
<1>9. Fronted(list, entry)[1] = entry
  BY <1>2, <1>3, <1>5, <1>6
<1>10. QED
  BY <1>3, <1>4, <1>6, <1>7, <1>8, <1>9

\* What Append returns, place by place.
LEMMA AppendedList ==
    ASSUME NEW S, NEW s \in Seq(S), NEW e \in S
    PROVE  /\ Append(s, e) \in Seq(S)
           /\ DOMAIN Append(s, e) = 1 .. Len(s) + 1 /\ Len(Append(s, e)) = Len(s) + 1
           /\ DOMAIN s = 1 .. Len(s) /\ Len(s) \in Nat
           /\ Append(s, e)[Len(s) + 1] = e
           /\ \A k \in 1 .. Len(s) : Append(s, e)[k] = s[k]
OBVIOUS

\* What Tail returns, place by place.
LEMMA TailList ==
    ASSUME NEW S, NEW s \in Seq(S), s # <<>>
    PROVE  /\ Tail(s) \in Seq(S) /\ Head(s) = s[1] /\ Head(s) \in S
           /\ Len(s) \in Nat \ {0} /\ DOMAIN s = 1 .. Len(s)
           /\ DOMAIN Tail(s) = 1 .. Len(s) - 1 /\ Len(Tail(s)) = Len(s) - 1
           /\ \A k \in 1 .. Len(s) - 1 : Tail(s)[k] = s[k + 1]
OBVIOUS

\* Removing an element moves those behind it one place to the front.
LEMMA RemovedAt ==
    ASSUME NEW S, NEW s \in Seq(S), NEW i \in DOMAIN s
    PROVE  /\ RemoveAt(s, i) \in Seq(S)
           /\ Len(RemoveAt(s, i)) = Len(s) - 1
           /\ \A k \in DOMAIN RemoveAt(s, i) :
                 k \in DOMAIN s /\ k + 1 \in DOMAIN s
                 /\ RemoveAt(s, i)[k] = IF k < i THEN s[k] ELSE s[k + 1]
<1> DEFINE before == SubSeq(s, 1, i - 1)
           after == SubSeq(s, i + 1, Len(s))
<1>1. before \in Seq(S) /\ Len(before) = i - 1 /\ \A k \in 1 .. i - 1 : before[k] = s[k]
  OBVIOUS
<1>2. after \in Seq(S) /\ Len(after) = Len(s) - i /\ \A k \in 1 .. Len(s) - i : after[k] = s[i + k]
  OBVIOUS
<1>3. RemoveAt(s, i) = before \o after
  BY DEF RemoveAt
<1> HIDE DEF before, after
<1>4. RemoveAt(s, i) \in Seq(S) /\ Len(RemoveAt(s, i)) = Len(s) - 1
  BY <1>1, <1>2, <1>3
<1>5. ASSUME NEW k \in DOMAIN RemoveAt(s, i)
      PROVE  k \in DOMAIN s /\ k + 1 \in DOMAIN s
             /\ RemoveAt(s, i)[k] = IF k < i THEN s[k] ELSE s[k + 1]
  <2>1. i \in 1 .. Len(s) /\ Len(s) \in Nat /\ k \in 1 .. Len(s) - 1
    BY <1>4, <1>5
  <2>2. CASE k < i
    <3>1. k \in 1 .. Len(before)
      BY <1>1, <2>1, <2>2
    <3>2. RemoveAt(s, i)[k] = before[k]
      BY <1>1, <1>2, <1>3, <3>1
    <3>3. QED
      BY <1>1, <2>1, <2>2, <3>1, <3>2
  <2>3. CASE ~(k < i)
    <3> DEFINE m == k - (i - 1)
    <3>1. m \in 1 .. Len(after) /\ k = Len(before) + m /\ i + m = k + 1 /\ k + 1 \in 1 .. Len(s)
      BY <1>1, <1>2, <2>1, <2>3
    <3> HIDE DEF m
    <3>2. (before \o after)[Len(before) + m] = after[m]
      <4>1. ASSUME NEW a \in Seq(S), NEW b \in Seq(S), NEW n \in 1 .. Len(b)
            PROVE  (a \o b)[Len(a) + n] = b[n]
        OBVIOUS
      <4>2. before \in Seq(S) /\ after \in Seq(S)
        BY <1>1, <1>2
      <4>3. QED
        BY <3>1, <4>1, <4>2
    <3>3. after[m] = s[k + 1]
      BY <1>2, <3>1
    <3>4. QED
      <4>1. RemoveAt(s, i)[k] = s[k + 1]
        BY <1>3, <3>1, <3>2, <3>3
      <4>2. k \in DOMAIN s /\ k + 1 \in DOMAIN s
        BY <2>1, <3>1
      <4>3. QED
        BY <2>3, <4>1, <4>2
  <2>4. QED
    BY <2>2, <2>3
<1>6. QED
  BY <1>4, <1>5

-----------------------------------------------------------------------------
\* Where an alert stands in a list, and how often.
Places(list, alert) == {i \in DOMAIN list : list[i] = alert}

Copies(list, alert) == Cardinality(Places(list, alert))

\* Copies are countable.
LEMMA PlacesFinite ==
    ASSUME NEW list \in Seq(Nat), NEW alert
    PROVE  IsFiniteSet(Places(list, alert)) /\ Copies(list, alert) \in Nat
<1>1. Places(list, alert) \in SUBSET (1 .. Len(list))
  BY DEF Places
<1>2. IsFiniteSet(1 .. Len(list))
  BY FS_Interval
<1>3. IsFiniteSet(Places(list, alert))
  BY <1>1, <1>2, FS_Subset
<1>4. QED
  BY <1>3, FS_CardinalityType DEF Copies

\* Places moved by one are no more than before.
LEMMA CopiesShifted ==
    ASSUME NEW S \in SUBSET Nat, NEW T, IsFiniteSet(T), NEW d \in {-1, 1},
           \A i \in S : i + d \in T
    PROVE  IsFiniteSet(S) /\ Cardinality(S) <= Cardinality(T)
<1> DEFINE f == [i \in S |-> i + d]
<1>1. f \in [S -> T]
  OBVIOUS
<1>2. \A i, j \in S : f[i] = f[j] => i = j
  OBVIOUS
<1>3. f \in Injection(S, T)
  BY <1>1, <1>2 DEF Injection, IsInjective
<1>4. QED
  BY <1>3, FS_Injection

\* Appending an alert adds one copy of it at most, and none of another.
LEMMA CopiesAppended ==
    ASSUME NEW list \in Seq(Nat), NEW entry \in Nat, NEW alert \in Nat
    PROVE  Copies(Append(list, entry), alert) <= Copies(list, alert) + (IF alert = entry THEN 1 ELSE 0)
<1> DEFINE new == Append(list, entry)
<1>1. new \in Seq(Nat) /\ Len(new) = Len(list) + 1 /\ new[Len(list) + 1] = entry
      /\ \A i \in 1 .. Len(list) : new[i] = list[i]
  OBVIOUS
<1> HIDE DEF new
<1>2. IsFiniteSet(Places(list, alert)) /\ Copies(list, alert) \in Nat
  BY PlacesFinite
<1>3. Copies(new, alert) \in Nat
  BY <1>1, PlacesFinite
<1>4. CASE alert = entry
  <2>1. Places(new, alert) \in SUBSET (Places(list, alert) \cup {Len(list) + 1})
    BY <1>1 DEF Places
  <2>2. /\ IsFiniteSet(Places(list, alert) \cup {Len(list) + 1})
        /\ Cardinality(Places(list, alert) \cup {Len(list) + 1}) <= Copies(list, alert) + 1
    <3> DEFINE P == Places(list, alert)
               p == Len(list) + 1
    <3>1. IsFiniteSet(P) /\ Cardinality(P) = Copies(list, alert)
      BY <1>2 DEF Copies
    <3> HIDE DEF P, p
    <3>2. /\ IsFiniteSet(P \cup {p})
          /\ Cardinality(P \cup {p}) = IF p \in P THEN Cardinality(P) ELSE Cardinality(P) + 1
      BY <3>1, FS_AddElement
    <3>3. IsFiniteSet(P \cup {p}) /\ Cardinality(P \cup {p}) <= Copies(list, alert) + 1
      BY <1>2, <3>1, <3>2
    <3>4. QED
      BY <3>3 DEF P, p
  <2>3. Copies(new, alert) <= Cardinality(Places(list, alert) \cup {Len(list) + 1})
    BY <2>1, <2>2, FS_Subset DEF Copies
  <2>4. Cardinality(Places(list, alert) \cup {Len(list) + 1}) \in Nat
    BY <2>2, FS_CardinalityType
  <2>5. QED
    BY <2>2, <2>3, <2>4, <1>2, <1>3, <1>4 DEF new
<1>5. CASE alert # entry
  <2>1. Places(new, alert) \in SUBSET Places(list, alert)
    BY <1>1, <1>5 DEF Places
  <2>2. Copies(new, alert) <= Copies(list, alert)
    BY <2>1, <1>2, FS_Subset DEF Copies
  <2>3. QED
    BY <2>2, <1>2, <1>3, <1>5 DEF new
<1>6. QED
  BY <1>4, <1>5

\* Taking the head off takes its copy off.
LEMMA CopiesTail ==
    ASSUME NEW list \in Seq(Nat), list # <<>>, NEW alert \in Nat
    PROVE  Copies(Tail(list), alert) + (IF Head(list) = alert THEN 1 ELSE 0) <= Copies(list, alert)
<1> DEFINE rest == Tail(list)
<1>1. rest \in Seq(Nat) /\ Len(rest) = Len(list) - 1 /\ Head(list) = list[1] /\ 1 \in DOMAIN list
      /\ \A i \in 1 .. Len(rest) : rest[i] = list[i + 1]
  OBVIOUS
<1> HIDE DEF rest
<1>2. IsFiniteSet(Places(list, alert)) /\ Copies(list, alert) \in Nat
  BY PlacesFinite
<1>3. Copies(rest, alert) \in Nat
  BY <1>1, PlacesFinite
<1>4. ASSUME NEW i \in Places(rest, alert)
      PROVE  i + 1 \in Places(list, alert) \ {1}
  <2>1. i \in 1 .. Len(list) - 1 /\ rest[i] = alert /\ Len(list) \in Nat
    BY <1>1 DEF Places
  <2>2. i + 1 \in 1 .. Len(list) /\ i + 1 # 1 /\ list[i + 1] = alert
    BY <1>1, <2>1
  <2>3. QED
    BY <2>2 DEF Places
<1>5. /\ IsFiniteSet(Places(list, alert) \ {1})
      /\ Cardinality(Places(list, alert) \ {1}) =
           IF 1 \in Places(list, alert) THEN Copies(list, alert) - 1 ELSE Copies(list, alert)
  BY <1>2, FS_RemoveElement DEF Copies
<1>6. Places(rest, alert) \in SUBSET Nat
  BY <1>1 DEF Places
<1>7. Copies(rest, alert) <= Cardinality(Places(list, alert) \ {1})
  <2> DEFINE S == Places(rest, alert)
             T == Places(list, alert) \ {1}
  <2>1. S \in SUBSET Nat /\ IsFiniteSet(T) /\ \A i \in S : i + 1 \in T
    BY <1>4, <1>5, <1>6
  <2> HIDE DEF S, T
  <2>2. Cardinality(S) <= Cardinality(T)
    BY <2>1, CopiesShifted
  <2>3. QED
    BY <2>2 DEF S, T, Copies
<1>8. Head(list) = alert => 1 \in Places(list, alert)
  BY <1>1 DEF Places
<1>9. QED
  BY <1>2, <1>3, <1>5, <1>7, <1>8 DEF rest

\* Showing an alert adds one copy of it at most, and none of another.
LEMMA CopiesFronted ==
    ASSUME NEW list \in Seq(Nat), NEW entry \in Nat, NEW alert \in Nat
    PROVE  Copies(Fronted(list, entry), alert) <= Copies(list, alert) + (IF alert = entry THEN 1 ELSE 0)
<1> DEFINE new == Fronted(list, entry)
<1>1. new \in Seq(Nat) /\ Len(new) \in 1 .. Len(list) + 1 /\ new[1] = entry
      /\ \A i \in DOMAIN new : i # 1 => i - 1 \in DOMAIN list /\ new[i] = list[i - 1]
  BY FrontedList
<1> HIDE DEF new
<1>2. IsFiniteSet(Places(list, alert)) /\ Copies(list, alert) \in Nat
  BY PlacesFinite
<1>3. IsFiniteSet(Places(new, alert)) /\ Copies(new, alert) \in Nat
  BY <1>1, PlacesFinite
<1>4. Cardinality(Places(new, alert) \ {1}) <= Copies(list, alert)
  <2> DEFINE S == Places(new, alert) \ {1}
             T == Places(list, alert)
  <2>1. S \in SUBSET Nat /\ IsFiniteSet(T) /\ \A i \in S : i + (-1) \in T
    BY <1>1, <1>2 DEF Places
  <2> HIDE DEF S, T
  <2>2. Cardinality(S) <= Cardinality(T)
    BY <2>1, CopiesShifted
  <2>3. QED
    BY <2>2 DEF S, T, Copies
<1>5. Cardinality(Places(new, alert) \ {1}) =
        IF 1 \in Places(new, alert) THEN Copies(new, alert) - 1 ELSE Copies(new, alert)
  BY <1>3, FS_RemoveElement DEF Copies
<1>6. 1 \in Places(new, alert) => alert = entry
  BY <1>1 DEF Places
<1>7. QED
  BY <1>2, <1>3, <1>4, <1>5, <1>6 DEF new

\* A walk that has not been shifted has tried what stands before its place.
WalkServes ==
    Walking /\ ~walk.shifted =>
        /\ walk.at <= Len(conns) + 1
        /\ \A k \in DOMAIN conns : k < walk.at => conns[k] \in walk.served

\* The inbox holds published alerts in order, all newer than that of the walk.
InOrder ==
    /\ \A i \in DOMAIN inbox :
          /\ inbox[i] <= announced /\ (Walking => walk.alert < inbox[i])
          /\ \A j \in DOMAIN inbox : i < j => inbox[i] < inbox[j]
    /\ Walking => walk.alert <= announced

\* Every step keeps the types.
LEMMA FeedTypedStep ==
    ASSUME FeedTyped, [FeedNext]_feed
    PROVE  FeedTyped'
<1> USE DEF FeedTyped
<1>1. CASE Subscribe
  BY <1>1 DEF Subscribe, client, Walking, NoWalk
<1>2. CASE TakeAlert
  <2>1. Head(inbox) \in Alerts /\ Tail(inbox) \in Seq(Alerts)
    BY <1>2, TailList DEF TakeAlert
  <2>2. walk' = [alert |-> Head(inbox), at |-> 1, served |-> {}, shifted |-> FALSE]
    BY <1>2 DEF TakeAlert, NoWalk
  <2>3. walk' \in WalkState /\ walk'.alert # 0 /\ walk'.at # 0
    BY <2>1, <2>2 DEF WalkState, Alerts
  <2>4. QED
    BY <1>2, <2>1, <2>3 DEF TakeAlert, client
<1>3. CASE Send
  <2>1. walk.at \in DOMAIN conns /\ conns[walk.at] \in Sockets
    BY <1>3 DEF Send, WalkState
  <2>2. PICK s \in Sockets : s = conns[walk.at]
    BY <2>1
  <2>3. walk' = [walk EXCEPT !.at = @ + 1, !.served = @ \cup {s}] /\ Walking
    BY <1>3, <2>2 DEF Send
  <2>4. walk' \in WalkState /\ walk'.alert = walk.alert /\ walk'.at # 0
    <3>1. walk.at + 1 \in Nat /\ walk.at + 1 # 0 /\ walk.served \cup {s} \in SUBSET Sockets
      BY DEF WalkState
    <3>2. QED
      BY <2>3, <3>1 DEF WalkState
  <2>5. wire' = IF Open(s) THEN [wire EXCEPT ![s[1]] = Append(@, walk.alert)] ELSE wire
    BY <1>3, <2>2 DEF Send
  <2>6. wire' \in [Visits -> Seq(Alerts)]
    BY <2>3, <2>5 DEF WalkState, Sockets, Alerts
  <2>7. QED
    BY <1>3, <2>3, <2>4, <2>6 DEF Send
<1>4. CASE EndBroadcast
  BY <1>4 DEF EndBroadcast, client, Walking, NoWalk, WalkState
<1>5. CASE Disconnect
  <2>1. PICK i \in DOMAIN conns :
           /\ conns' = RemoveAt(conns, i)
           /\ walk' = IF Walking /\ i < walk.at THEN [walk EXCEPT !.shifted = TRUE] ELSE walk
           /\ UNCHANGED <<announced, listener, inbox, client, failures>>
    BY <1>5 DEF Disconnect
  <2>2. conns' \in Seq(Sockets)
    BY <2>1, RemovedAt
  <2>3. walk' \in WalkState /\ (Walking' => walk'.alert # 0 /\ walk'.at # 0)
    BY <2>1 DEF WalkState, Walking
  <2>4. QED
    BY <2>1, <2>2, <2>3 DEF client
<1>6. CASE PublishAlert
  <2>1. announced' \in Alerts /\ inbox' \in Seq(Alerts)
    <3>1. announced' = announced + 1 /\ announced' \in Alerts
      BY <1>6 DEF PublishAlert, Alerts
    <3>2. PICK a \in Alerts : a = announced'
      BY <3>1
    <3>3. inbox' = inbox \/ inbox' = Append(inbox, a)
      BY <1>6, <3>2 DEF PublishAlert
    <3>4. Append(inbox, a) \in Seq(Alerts)
      BY AppendedList
    <3>5. QED
      BY <3>1, <3>3, <3>4
  <2>2. QED
    BY <1>6, <2>1 DEF PublishAlert, client, Walking, NoWalk
<1>7. CASE ListenerFails
  BY <1>7 DEF ListenerFails, client, Walking, NoWalk
<1>8. CASE ServerRestarts
  <2>1. walk' \in WalkState /\ ~Walking'
    BY <1>8 DEF ServerRestarts, WalkState, NoWalk, Walking
  <2>2. inbox' \in Seq(Alerts) /\ conns' \in Seq(Sockets) /\ wire' \in [Visits -> Seq(Alerts)]
    BY <1>8 DEF ServerRestarts
  <2>3. link' \in [Visits -> Link]
    BY <1>8 DEF ServerRestarts, Link
  <2>4. QED
    BY <1>8, <2>1, <2>2, <2>3 DEF ServerRestarts
<1>9. ASSUME NEW v \in Visits, Connect(v)
      PROVE  FeedTyped'
  <2>1. Socket(v) \in Sockets
    BY DEF Socket, Sockets
  <2>2. link' \in [Visits -> Link]
    BY <1>9 DEF Connect, Link
  <2>3. QED
    BY <1>9, <2>1, <2>2 DEF Connect, Walking, NoWalk
<1>10. ASSUME NEW v \in Visits, Closes(v)
       PROVE  link' \in [Visits -> Link] /\ wire' \in [Visits -> Seq(Alerts)]
  BY <1>10 DEF Closes, Link
<1>11. ASSUME NEW v \in Visits, OnClose(v)
       PROVE  FeedTyped'
  BY <1>10, <1>11 DEF OnClose, server, Walking, NoWalk
<1>12. ASSUME NEW v \in Visits, Retry(v)
       PROVE  FeedTyped'
  BY <1>12 DEF Retry, server, Walking, NoWalk, Link
<1>13. ASSUME NEW v \in Visits, OnMessage(v)
       PROVE  FeedTyped'
  <2>1. Head(wire[v]) \in Alerts /\ Tail(wire[v]) \in Seq(Alerts)
    BY <1>13, TailList DEF OnMessage
  <2>2. wire' \in [Visits -> Seq(Alerts)]
    BY <1>13, <2>1 DEF OnMessage
  <2>3. Fronted(shown[v], Head(wire[v])) \in Seq(Nat)
    BY <2>1, FrontedList DEF Alerts
  <2>4. shown' \in [Visits -> Seq(Nat)]
    BY <1>13, <2>3 DEF OnMessage, Shows, Fronted
  <2>5. QED
    BY <1>13, <2>2, <2>4 DEF OnMessage, server, Walking, NoWalk
<1>14. ASSUME NEW v \in Visits, Visit(v)
       PROVE  FeedTyped'
  BY <1>14 DEF Visit, server, Walking, NoWalk, Link, Page
<1>15. ASSUME NEW v \in Visits, Break(v)
       PROVE  FeedTyped'
  BY <1>15 DEF Break, server, Walking, NoWalk, Link
<1>16. ASSUME NEW v \in Visits, PollDegraded(v)
       PROVE  FeedTyped'
  <2>1. Fronted(shown[v], Degraded) \in Seq(Nat)
    BY FrontedList DEF Degraded
  <2>2. shown' \in [Visits -> Seq(Nat)]
    BY <1>16, <2>1 DEF PollDegraded, Shows, Fronted
  <2>3. QED
    BY <1>16, <2>2 DEF PollDegraded, server, Walking, NoWalk
<1>17. ASSUME NEW v \in Visits, Leave(v)
       PROVE  FeedTyped'
  <2>1. link' \in [Visits -> Link] /\ wire' \in [Visits -> Seq(Alerts)]
    BY <1>10, <1>17 DEF Leave
  <2>2. page' \in [Visits -> Page] /\ shown' \in [Visits -> Seq(Nat)]
    BY <1>17 DEF Leave, Page
  <2>3. QED
    BY <1>17, <2>1, <2>2 DEF Leave, server, Walking, NoWalk
<1>18. CASE UNCHANGED feed
  BY <1>18 DEF feed, server, client, Walking, NoWalk
<1>19. QED
  BY <1>1, <1>2, <1>3, <1>4, <1>5, <1>6, <1>7, <1>8, <1>9, <1>11, <1>12, <1>13, <1>14, <1>15,
     <1>16, <1>17, <1>18 DEF FeedNext, Served, Browses

\* A step keeps what the walk has tried: an element removed before its place
\* shifts the walk, and others are removed or appended behind it.
LEMMA WalkServesStep ==
    ASSUME FeedTyped, WalkServes, [FeedNext]_feed
    PROVE  WalkServes'
<1> USE DEF FeedTyped
<1>0. Walking => walk.at \in Nat \ {0}
  BY DEF WalkState
<1>1. CASE TakeAlert
  <2>1. walk'.at = 1 /\ conns' = conns /\ Len(conns) \in Nat
    BY <1>1 DEF TakeAlert, NoWalk
  <2>2. QED
    BY <2>1 DEF WalkServes
<1>2. CASE Send
  <2>1. walk'.at = walk.at + 1 /\ walk'.served = walk.served \cup {conns[walk.at]}
        /\ walk'.shifted = walk.shifted /\ conns' = conns /\ Walking /\ walk.at <= Len(conns)
    BY <1>2 DEF Send, WalkState
  <2>2. ASSUME ~walk.shifted
        PROVE  /\ walk'.at <= Len(conns) + 1
               /\ \A k \in DOMAIN conns : k < walk'.at => conns[k] \in walk'.served
    BY <1>0, <2>1, <2>2 DEF WalkServes
  <2>3. QED
    BY <2>1, <2>2 DEF WalkServes
<1>3. CASE Disconnect
  <2>1. PICK i \in DOMAIN conns :
           /\ conns' = RemoveAt(conns, i)
           /\ walk' = IF Walking /\ i < walk.at THEN [walk EXCEPT !.shifted = TRUE] ELSE walk
    BY <1>3 DEF Disconnect
  <2>2. /\ Len(conns') = Len(conns) - 1
        /\ \A k \in DOMAIN conns' : k \in DOMAIN conns /\ (k < i => conns'[k] = conns[k])
    BY <2>1, RemovedAt
  <2>3. CASE Walking /\ i < walk.at
    BY <2>1, <2>3 DEF WalkServes, WalkState
  <2>4. CASE ~(Walking /\ i < walk.at)
    <3>1. walk' = walk
      BY <2>1, <2>4
    <3>2. ASSUME Walking, ~walk.shifted
          PROVE  /\ walk.at <= Len(conns') + 1
                 /\ \A k \in DOMAIN conns' : k < walk.at => conns'[k] \in walk.served
      <4>1. walk.at <= i /\ walk.at \in Nat /\ i <= Len(conns) /\ i \in Nat /\ Len(conns) \in Nat
        BY <1>0, <2>1, <2>4, <3>2
      <4>2. \A k \in DOMAIN conns' : k \in Nat /\ (k < walk.at => k < i)
        BY <2>2, <4>1
      <4>3. \A k \in DOMAIN conns' : k < walk.at => conns'[k] \in walk.served
        BY <2>2, <3>2, <4>2 DEF WalkServes
      <4>4. QED
        BY <2>2, <4>1, <4>3
    <3>3. QED
      BY <3>1, <3>2 DEF WalkServes, Walking
  <2>5. QED
    BY <2>3, <2>4
<1>4. ASSUME NEW v \in Visits, Connect(v)
      PROVE  WalkServes'
  <2>1. walk' = walk /\ conns' = Append(conns, Socket(v))
    BY <1>4 DEF Connect
  <2>2. Len(conns') = Len(conns) + 1 /\ \A k \in DOMAIN conns : conns'[k] = conns[k]
    BY <2>1
  <2>3. ASSUME Walking, ~walk.shifted
        PROVE  /\ walk.at <= Len(conns') + 1
               /\ \A k \in DOMAIN conns' : k < walk.at => conns'[k] \in walk.served
    BY <1>0, <2>1, <2>2, <2>3 DEF WalkServes
  <2>4. QED
    BY <2>1, <2>3 DEF WalkServes, Walking
<1>5. CASE EndBroadcast \/ ServerRestarts
  BY <1>5 DEF EndBroadcast, ServerRestarts, WalkServes, Walking
<1>6. CASE UNCHANGED <<walk, conns>>
  BY <1>6 DEF WalkServes, Walking
<1>7. QED
  BY <1>1, <1>2, <1>3, <1>4, <1>5, <1>6
  DEF FeedNext, Served, Browses, Subscribe, PublishAlert, ListenerFails, OnClose, Retry, OnMessage,
      Visit, Break, PollDegraded, Leave, feed, server

\* A walk that ends and was not shifted stood behind the last connection.
LEMMA ServedStep ==
    ASSUME FeedTyped, WalkServes, [FeedNext]_feed,
           Walking, ~Walking', failures' = failures, ~walk.shifted
    PROVE  Connected \subseteq walk.served
<1> USE DEF FeedTyped
<1>0. walk.at \in Nat \ {0} /\ walk.alert # 0
  BY DEF WalkState
<1>1. CASE EndBroadcast
  <2>1. \A k \in DOMAIN conns : k < walk.at
    BY <1>0, <1>1 DEF EndBroadcast
  <2>2. QED
    BY <2>1 DEF WalkServes, Connected, ToSet
<1>2. walk'.alert # walk.alert \/ walk' = NoWalk
  BY <1>0 DEF Walking, NoWalk
<1>3. ~Send
  <2>1. Send => walk'.at = walk.at + 1 /\ walk'.alert = walk.alert
    BY DEF Send, WalkState
  <2>2. QED
    BY <1>0, <1>2, <2>1 DEF NoWalk
<1>4. ~Disconnect
  BY <1>2, <1>0 DEF Disconnect, WalkState, NoWalk
<1>5. ~TakeAlert
  BY DEF TakeAlert
<1>6. ~ServerRestarts
  BY DEF ServerRestarts
<1>7. ~UNCHANGED walk
  BY DEF Walking
<1>8. QED
  BY <1>1, <1>3, <1>4, <1>5, <1>6, <1>7
  DEF FeedNext, Served, Browses, Subscribe, PublishAlert, ListenerFails, Connect, OnClose, Retry, OnMessage,
      Visit, Break, PollDegraded, Leave, feed, server

\* Every step keeps the order of the inbox: alerts are numbered as published.
LEMMA InOrderStep ==
    ASSUME FeedTyped, InOrder, [FeedNext]_feed
    PROVE  InOrder'
<1> USE DEF FeedTyped
<1>1. CASE TakeAlert
  <2>0. inbox # <<>> /\ inbox' = Tail(inbox) /\ ~Walking
    BY <1>1 DEF TakeAlert
  <2>1. /\ \A i \in DOMAIN inbox' : i \in Nat /\ i + 1 \in DOMAIN inbox /\ 1 < i + 1 /\ inbox'[i] = inbox[i + 1]
        /\ 1 \in DOMAIN inbox /\ Head(inbox) = inbox[1]
    BY <2>0, TailList
  <2>2. walk'.alert = inbox[1] /\ announced' = announced
    BY <1>1, <2>1 DEF TakeAlert, NoWalk
  <2>3. ASSUME NEW i \in DOMAIN inbox'
        PROVE  /\ inbox'[i] <= announced' /\ walk'.alert < inbox'[i]
               /\ \A j \in DOMAIN inbox' : i < j => inbox'[i] < inbox'[j]
    <3>1. i \in Nat /\ i + 1 \in DOMAIN inbox /\ 1 < i + 1 /\ 1 \in DOMAIN inbox /\ inbox'[i] = inbox[i + 1]
      BY <2>1
    <3>2. inbox[i + 1] <= announced /\ inbox[1] < inbox[i + 1]
      BY <3>1 DEF InOrder
    <3>3. ASSUME NEW j \in DOMAIN inbox', i < j
          PROVE  inbox'[i] < inbox'[j]
      <4>1. j \in Nat /\ j + 1 \in DOMAIN inbox /\ inbox'[j] = inbox[j + 1] /\ i + 1 < j + 1
        BY <2>1, <3>1, <3>3
      <4>2. QED
        BY <3>1, <4>1 DEF InOrder
    <3>4. QED
      BY <2>2, <3>1, <3>2, <3>3
  <2>4. walk'.alert <= announced'
    BY <2>1, <2>2 DEF InOrder
  <2>5. QED
    BY <2>3, <2>4 DEF InOrder
<1>2. CASE PublishAlert
  <2>1. announced' = announced + 1 /\ walk' = walk
    BY <1>2 DEF PublishAlert
  <2>2. inbox' = inbox \/ inbox' = Append(inbox, announced + 1)
    BY <1>2, <2>1 DEF PublishAlert
  <2>3. \A i \in DOMAIN inbox : i \in Nat /\ i < Len(inbox) + 1 /\ inbox[i] \in Nat
    BY DEF Alerts
  <2>4. announced + 1 \in Alerts
    BY DEF Alerts
  <2>5. /\ \A i \in DOMAIN inbox' : i \in DOMAIN inbox \/ (i = Len(inbox) + 1 /\ inbox'[i] = announced + 1)
        /\ \A i \in DOMAIN inbox : inbox'[i] = inbox[i]
    <3>1. PICK a \in Alerts : a = announced + 1
      BY <2>4
    <3>2. /\ DOMAIN Append(inbox, a) = 1 .. Len(inbox) + 1 /\ DOMAIN inbox = 1 .. Len(inbox)
          /\ Append(inbox, a)[Len(inbox) + 1] = a /\ Len(inbox) \in Nat
          /\ \A k \in 1 .. Len(inbox) : Append(inbox, a)[k] = inbox[k]
      BY AppendedList
    <3>3. CASE inbox' = Append(inbox, a)
      BY <3>1, <3>2, <3>3
    <3>4. QED
      BY <2>2, <3>1, <3>3
  <2>6. Walking => walk.alert \in Nat /\ walk.alert <= announced
    BY DEF WalkState, InOrder
  <2>7. ASSUME NEW i \in DOMAIN inbox'
        PROVE  /\ inbox'[i] <= announced + 1 /\ (Walking => walk.alert < inbox'[i])
               /\ \A j \in DOMAIN inbox' : i < j => inbox'[i] < inbox'[j]
    <3>1. CASE i \in DOMAIN inbox
      <4>1. inbox'[i] = inbox[i] /\ inbox[i] \in Nat /\ inbox[i] <= announced /\ (Walking => walk.alert < inbox[i])
        BY <2>3, <2>5, <3>1 DEF InOrder
      <4>2. ASSUME NEW j \in DOMAIN inbox', i < j
            PROVE  inbox'[i] < inbox'[j]
        <5>1. CASE j \in DOMAIN inbox
          BY <2>5, <3>1, <4>2, <5>1 DEF InOrder
        <5>2. CASE j \notin DOMAIN inbox
          BY <2>5, <4>1, <5>2
        <5>3. QED
          BY <5>1, <5>2
      <4>3. QED
        BY <4>1, <4>2
    <3>2. CASE i \notin DOMAIN inbox
      <4>1. i = Len(inbox) + 1 /\ inbox'[i] = announced + 1
        BY <2>5, <3>2
      <4>2. \A j \in DOMAIN inbox' : ~(i < j)
        <5>1. Len(inbox) \in Nat
          OBVIOUS
        <5>2. ASSUME NEW j \in DOMAIN inbox'
              PROVE  j \in Nat /\ j <= Len(inbox) + 1
          <6>1. j \in DOMAIN inbox \/ j = Len(inbox) + 1
            BY <2>5
          <6>2. CASE j \in DOMAIN inbox
            BY <2>3, <5>1, <6>2
          <6>3. QED
            BY <5>1, <6>1, <6>2
        <5>3. QED
          BY <4>1, <5>1, <5>2
      <4>3. QED
        BY <2>6, <4>1, <4>2
    <3>3. QED
      BY <3>1, <3>2
  <2>8. QED
    BY <2>1, <2>6, <2>7 DEF InOrder, Walking
<1>3. CASE ListenerFails \/ ServerRestarts
  BY <1>3 DEF ListenerFails, ServerRestarts, InOrder, Walking
<1>4. CASE EndBroadcast
  BY <1>4 DEF EndBroadcast, InOrder, Walking
<1>5. CASE UNCHANGED <<inbox, announced>> /\ walk'.alert = walk.alert /\ (Walking' => Walking)
  BY <1>5 DEF InOrder
<1>6. CASE Send
  BY <1>5, <1>6 DEF Send, WalkState
<1>7. CASE Disconnect
  <2>1. walk'.alert = walk.alert /\ (Walking' => Walking)
    BY <1>7 DEF Disconnect, WalkState, Walking
  <2>2. QED
    BY <1>5, <1>7, <2>1 DEF Disconnect
<1>8. CASE UNCHANGED <<inbox, announced, walk>>
  BY <1>5, <1>8 DEF Walking
<1>9. QED
  BY <1>1, <1>2, <1>3, <1>4, <1>6, <1>7, <1>8
  DEF FeedNext, Served, Browses, Subscribe, Connect, OnClose, Retry, OnMessage,
      Visit, Break, PollDegraded, Leave, feed, server

\* The entries no newer than the alert of the walk, and older than the inbox.
Past ==
    {e \in Nat : /\ e <= announced
                 /\ Walking => e <= walk.alert
                 /\ \A i \in DOMAIN inbox : e < inbox[i]}

\* What is on its way or shown is no newer than the broadcast.
NotAhead ==
    \A v \in Visits :
        /\ \A i \in DOMAIN wire[v] : wire[v][i] \in Past
        /\ \A i \in DOMAIN shown[v] : shown[v][i] \in Past

\* What is past stays past.
LEMMA PastStep ==
    ASSUME FeedTyped, InOrder, [FeedNext]_feed
    PROVE  Past \subseteq Past'
<1> SUFFICES ASSUME NEW e \in Past
             PROVE  e \in Past'
  OBVIOUS
<1> e \in Nat
  BY DEF Past
<1> USE DEF FeedTyped
<1>1. CASE TakeAlert
  <2>0. inbox # <<>> /\ inbox' = Tail(inbox) /\ announced' = announced
    BY <1>1 DEF TakeAlert
  <2>1. /\ \A i \in DOMAIN inbox' : i + 1 \in DOMAIN inbox /\ inbox'[i] = inbox[i + 1]
        /\ 1 \in DOMAIN inbox /\ Head(inbox) = inbox[1] /\ inbox[1] \in Nat
    BY <2>0, TailList DEF Alerts
  <2>2. walk'.alert = inbox[1]
    BY <1>1, <2>1 DEF TakeAlert, NoWalk
  <2>3. e <= inbox[1]
    BY <2>1 DEF Past
  <2>4. QED
    BY <2>0, <2>1, <2>2, <2>3 DEF Past
<1>2. CASE PublishAlert
  <2>1. announced' = announced + 1 /\ walk' = walk
    BY <1>2 DEF PublishAlert
  <2>2. inbox' = inbox \/ inbox' = Append(inbox, announced + 1)
    BY <1>2, <2>1 DEF PublishAlert
  <2>3. PICK a \in Alerts : a = announced + 1
    BY DEF Alerts
  <2>4. /\ DOMAIN Append(inbox, a) = 1 .. Len(inbox) + 1 /\ DOMAIN inbox = 1 .. Len(inbox)
        /\ Append(inbox, a)[Len(inbox) + 1] = a /\ Len(inbox) \in Nat
        /\ \A k \in 1 .. Len(inbox) : Append(inbox, a)[k] = inbox[k]
    BY AppendedList
  <2>5. e <= announced + 1 /\ e < a
    BY <2>3 DEF Past
  <2>6. ASSUME NEW i \in DOMAIN inbox'
        PROVE  e < inbox'[i]
    <3>1. CASE i \in DOMAIN inbox
      BY <2>2, <2>3, <2>4, <3>1 DEF Past
    <3>2. CASE i \notin DOMAIN inbox
      BY <2>2, <2>3, <2>4, <2>5, <3>2
    <3>3. QED
      BY <3>1, <3>2
  <2>7. QED
    BY <2>1, <2>5, <2>6 DEF Past, Walking
<1>3. CASE ListenerFails \/ ServerRestarts
  BY <1>3 DEF ListenerFails, ServerRestarts, Past, Walking
<1>4. CASE EndBroadcast
  BY <1>4 DEF EndBroadcast, Past, Walking
<1>5. CASE UNCHANGED <<inbox, announced>> /\ walk'.alert = walk.alert /\ (Walking' => Walking)
  BY <1>5 DEF Past
<1>6. CASE Send
  BY <1>5, <1>6 DEF Send, WalkState
<1>7. CASE Disconnect
  <2>1. walk'.alert = walk.alert /\ (Walking' => Walking)
    BY <1>7 DEF Disconnect, WalkState, Walking
  <2>2. QED
    BY <1>5, <1>7, <2>1 DEF Disconnect
<1>8. CASE UNCHANGED <<inbox, announced, walk>>
  BY <1>5, <1>8 DEF Walking
<1>9. QED
  BY <1>1, <1>2, <1>3, <1>4, <1>6, <1>7, <1>8
  DEF FeedNext, Served, Browses, Subscribe, Connect, OnClose, Retry, OnMessage,
      Visit, Break, PollDegraded, Leave, feed, server

-----------------------------------------------------------------------------
\* A visit loses what is on its way, or what it shows, or keeps both.
Emptied(v) == wire'[v] \in {wire[v], <<>>} /\ shown'[v] \in {shown[v], <<>>}

\* The walk stands on its connection and the send succeeds.
Sent(v) ==
    /\ Walking /\ walk.at <= Len(conns) /\ conns[walk.at] = Socket(v) /\ link[v] = "open"
    /\ wire'[v] = Append(wire[v], walk.alert) /\ shown'[v] = shown[v]

\* The page takes an alert, and shows it if it is still there.
Received(v) ==
    /\ wire[v] # <<>> /\ wire'[v] = Tail(wire[v])
    /\ shown'[v] \in {shown[v], Fronted(shown[v], Head(wire[v]))}

\* The page shows a notice of degradation.
Noticed(v) ==
    /\ ~InFront(v, Degraded)
    /\ wire'[v] = wire[v] /\ shown'[v] = Fronted(shown[v], Degraded)

\* What a step does to the lists of one visit.
LEMMA ListsStep ==
    ASSUME FeedTyped, [FeedNext]_feed, NEW v \in Visits
    PROVE  \/ Emptied(v) \/ Received(v) \/ Noticed(v)
           \/ Sent(v) /\ Send
<1> USE DEF FeedTyped
<1>1. CASE Send
  <2>1. walk.at \in DOMAIN conns /\ conns[walk.at] \in Sockets
    BY <1>1 DEF Send, WalkState
  <2>2. PICK s \in Sockets : s = conns[walk.at]
    BY <2>1
  <2>3. wire' = (IF Open(s) THEN [wire EXCEPT ![s[1]] = Append(@, walk.alert)] ELSE wire) /\ shown' = shown
        /\ Walking /\ walk.at <= Len(conns)
    BY <1>1, <2>2 DEF Send
  <2>4. CASE Open(s) /\ s[1] = v
    BY <1>1, <2>2, <2>3, <2>4 DEF Open, Sent
  <2>5. CASE ~(Open(s) /\ s[1] = v)
    BY <2>2, <2>3, <2>5 DEF Sockets, Emptied
  <2>6. QED
    BY <2>4, <2>5
<1>2. CASE ServerRestarts
  BY <1>2 DEF ServerRestarts, Emptied
<1>3. ASSUME NEW w \in Visits, Closes(w), UNCHANGED shown
      PROVE  Emptied(v)
  BY <1>3 DEF Closes, Emptied
<1>4. ASSUME NEW w \in Visits, OnClose(w)
      PROVE  Emptied(v)
  BY <1>3, <1>4 DEF OnClose
<1>5. ASSUME NEW w \in Visits, Break(w)
      PROVE  Emptied(v)
  BY <1>5 DEF Break, Emptied
<1>6. ASSUME NEW w \in Visits, Leave(w)
      PROVE  Emptied(v)
  <2>1. shown'[v] \in {shown[v], <<>>}
    BY <1>6 DEF Leave
  <2>2. wire'[v] \in {wire[v], <<>>}
    BY <1>6 DEF Leave, Closes
  <2>3. QED
    BY <2>1, <2>2 DEF Emptied
<1>7. ASSUME NEW w \in Visits, OnMessage(w)
      PROVE  Emptied(v) \/ Received(v)
  <2>1. CASE w = v
    <3>1. wire[v] # <<>> /\ wire'[v] = Tail(wire[v])
      BY <1>7, <2>1 DEF OnMessage
    <3>2. shown'[v] \in {shown[v], Fronted(shown[v], Head(wire[v]))}
      BY <1>7, <2>1 DEF OnMessage, Shows, Fronted
    <3>3. QED
      BY <3>1, <3>2 DEF Received
  <2>2. CASE w # v
    BY <1>7, <2>2 DEF OnMessage, Shows, Emptied
  <2>3. QED
    BY <2>1, <2>2
<1>8. ASSUME NEW w \in Visits, PollDegraded(w)
      PROVE  Emptied(v) \/ Noticed(v)
  <2>1. CASE w = v
    BY <1>8, <2>1 DEF PollDegraded, Shows, Fronted, Noticed
  <2>2. CASE w # v
    BY <1>8, <2>2 DEF PollDegraded, Shows, Emptied
  <2>3. QED
    BY <2>1, <2>2
<1>9. CASE UNCHANGED <<wire, shown>>
  BY <1>9 DEF Emptied
<1>10. QED
  BY <1>1, <1>2, <1>4, <1>5, <1>6, <1>7, <1>8, <1>9
  DEF FeedNext, Served, Browses, Subscribe, TakeAlert, EndBroadcast, Disconnect, PublishAlert, ListenerFails,
      Connect, Retry, Visit, feed, server, client

\* Every step keeps what a page gets behind the broadcast.
LEMMA NotAheadStep ==
    ASSUME FeedTyped, InOrder, NotAhead, [FeedNext]_feed
    PROVE  NotAhead'
<1> USE DEF FeedTyped
<1> SUFFICES ASSUME NEW v \in Visits
             PROVE  /\ \A i \in DOMAIN wire'[v] : wire'[v][i] \in Past'
                    /\ \A i \in DOMAIN shown'[v] : shown'[v][i] \in Past'
  BY DEF NotAhead
<1>0. wire[v] \in Seq(Nat) /\ shown[v] \in Seq(Nat) /\ wire[v] \in Seq(Alerts) /\ Degraded \in Nat
  BY DEF Alerts, Degraded
<1>1. Past \subseteq Past'
  BY PastStep
<1>2. /\ \A i \in DOMAIN wire[v] : wire[v][i] \in Past'
      /\ \A i \in DOMAIN shown[v] : shown[v][i] \in Past'
  BY <1>1 DEF NotAhead
<1>3. Degraded \in Past'
  <2>1. 0 <= announced /\ (Walking => 0 <= walk.alert) /\ \A i \in DOMAIN inbox : 0 < inbox[i]
    BY DEF WalkState, Alerts
  <2>2. Degraded \in Past
    BY <2>1 DEF Past, Degraded
  <2>3. QED
    BY <1>1, <2>2
<1>4. CASE Emptied(v)
  BY <1>0, <1>2, <1>4 DEF Emptied
<1>5. CASE Received(v)
  <2>1. /\ \A i \in DOMAIN wire'[v] : i + 1 \in DOMAIN wire[v] /\ wire'[v][i] = wire[v][i + 1]
        /\ 1 \in DOMAIN wire[v] /\ Head(wire[v]) = wire[v][1]
    BY <1>0, <1>5, TailList DEF Received
  <2>2. wire[v][1] \in Past' /\ wire[v][1] \in Nat
    BY <1>0, <1>2, <2>1
  <2>3. \A i \in DOMAIN wire'[v] : wire'[v][i] \in Past'
    BY <1>0, <1>2, <2>1
  <2>4. CASE shown'[v] = Fronted(shown[v], wire[v][1])
    <3>1. /\ Fronted(shown[v], wire[v][1])[1] = wire[v][1]
          /\ \A i \in DOMAIN Fronted(shown[v], wire[v][1]) :
               i # 1 => i - 1 \in DOMAIN shown[v] /\ Fronted(shown[v], wire[v][1])[i] = shown[v][i - 1]
      BY <1>0, <2>2, FrontedList
    <3>2. \A i \in DOMAIN shown[v] : shown[v][i] \in Past'
      BY <1>0, <1>2
    <3>3. \A i \in DOMAIN shown'[v] : shown'[v][i] \in Past'
      BY <2>2, <2>4, <3>1, <3>2
    <3>4. QED
      BY <2>3, <3>3
  <2>5. CASE shown'[v] = shown[v]
    BY <1>0, <1>2, <2>3, <2>5
  <2>6. QED
    BY <1>5, <2>1, <2>4, <2>5 DEF Received
<1>6. CASE Noticed(v)
  <2>1. /\ Fronted(shown[v], Degraded)[1] = Degraded
        /\ \A i \in DOMAIN Fronted(shown[v], Degraded) :
             i # 1 => i - 1 \in DOMAIN shown[v] /\ Fronted(shown[v], Degraded)[i] = shown[v][i - 1]
    BY <1>0, FrontedList
  <2>2. \A i \in DOMAIN shown[v] : shown[v][i] \in Past'
    BY <1>0, <1>2
  <2>3. \A i \in DOMAIN shown'[v] : shown'[v][i] \in Past'
    BY <1>3, <1>6, <2>1, <2>2 DEF Noticed
  <2>4. QED
    BY <1>0, <1>2, <1>6, <2>3 DEF Noticed
<1>7. CASE Sent(v)
  <2>1. walk.alert \in Nat /\ walk.alert \in Alerts
    BY <1>7 DEF Sent, WalkState, Alerts
  <2>2. walk.alert \in Past
    BY <1>7, <2>1 DEF Sent, Past, InOrder
  <2>3. /\ DOMAIN wire'[v] = 1 .. Len(wire[v]) + 1 /\ DOMAIN wire[v] = 1 .. Len(wire[v]) /\ Len(wire[v]) \in Nat
        /\ wire'[v][Len(wire[v]) + 1] = walk.alert
        /\ \A k \in 1 .. Len(wire[v]) : wire'[v][k] = wire[v][k]
    BY <1>0, <1>7, <2>1, AppendedList DEF Sent
  <2>4. walk.alert \in Past'
    BY <1>1, <2>2
  <2>5. \A i \in DOMAIN wire[v] : wire[v][i] \in Past'
    BY <1>0, <1>2
  <2>6. ASSUME NEW i \in DOMAIN wire'[v]
        PROVE  wire'[v][i] \in Past'
    <3>1. i \in 1 .. Len(wire[v]) \/ i = Len(wire[v]) + 1
      BY <2>3
    <3>2. QED
      BY <2>3, <2>4, <2>5, <3>1
  <2>7. QED
    BY <1>0, <1>2, <1>7, <2>6 DEF Sent
<1>8. QED
  BY <1>4, <1>5, <1>6, <1>7, ListsStep

-----------------------------------------------------------------------------
\* Alerts travel in order, none shown is newer than one on its way, and the page
\* shows them newest first, with no notice behind another.
Arranged(v) ==
    /\ \A i, j \in DOMAIN wire[v] : i < j => wire[v][i] <= wire[v][j]
    /\ \A i \in DOMAIN shown[v], j \in DOMAIN wire[v] : shown[v][i] <= wire[v][j]
    /\ \A i, j \in DOMAIN shown[v] : i < j /\ shown[v][i] # Degraded => shown[v][j] <= shown[v][i]
    /\ \A i \in DOMAIN shown[v] \ {1} : shown[v][i] = Degraded => shown[v][i - 1] # Degraded

\* An entry in front of the list that none in it exceeds, or a notice, keeps it.
LEMMA ArrangedFronted ==
    ASSUME NEW list \in Seq(Nat), NEW entry \in Nat,
           \A i, j \in DOMAIN list : i < j /\ list[i] # Degraded => list[j] <= list[i],
           \A i \in DOMAIN list \ {1} : list[i] = Degraded => list[i - 1] # Degraded,
           entry # Degraded => \A i \in DOMAIN list : list[i] <= entry,
           entry = Degraded => list = <<>> \/ list[1] # Degraded,
           NEW new, new = Fronted(list, entry)
    PROVE  /\ \A i, j \in DOMAIN new : i < j /\ new[i] # Degraded => new[j] <= new[i]
           /\ \A i \in DOMAIN new \ {1} : new[i] = Degraded => new[i - 1] # Degraded
<1>1. /\ new \in Seq(Nat) /\ new[1] = entry
      /\ \A i \in DOMAIN new : i # 1 => i - 1 \in DOMAIN list /\ new[i] = list[i - 1]
  BY FrontedList
<1>2. \A i \in DOMAIN new : i \in Nat /\ 1 <= i
  BY <1>1
<1>3. ASSUME NEW i \in DOMAIN new, NEW j \in DOMAIN new, i < j, new[i] # Degraded
      PROVE  new[j] <= new[i]
  <2>1. j # 1 /\ j - 1 \in DOMAIN list /\ new[j] = list[j - 1]
    BY <1>1, <1>2, <1>3
  <2>2. CASE i = 1
    BY <1>1, <1>3, <2>1, <2>2
  <2>3. CASE i # 1
    <3>1. i - 1 \in DOMAIN list /\ new[i] = list[i - 1] /\ i - 1 < j - 1
      BY <1>1, <1>2, <1>3, <2>3
    <3>2. QED
      BY <1>3, <2>1, <3>1
  <2>4. QED
    BY <2>2, <2>3
<1>4. ASSUME NEW i \in DOMAIN new \ {1}, new[i] = Degraded
      PROVE  new[i - 1] # Degraded
  <2>1. i - 1 \in DOMAIN list /\ list[i - 1] = Degraded /\ list # <<>> /\ i - 1 \in Nat /\ 1 <= i - 1
    BY <1>1, <1>4
  <2>2. CASE i - 1 = 1
    BY <1>1, <2>1, <2>2
  <2>3. CASE i - 1 # 1
    <3>1. list[(i - 1) - 1] # Degraded
      BY <2>1, <2>3
    <3>2. i - 1 \in DOMAIN new /\ i - 1 # 1
      BY <1>1, <1>2, <1>4, <2>1, <2>3
    <3>3. QED
      BY <1>1, <3>1, <3>2
  <2>4. QED
    BY <2>2, <2>3
<1>5. QED
  BY <1>3, <1>4

\* Every step keeps the lists of a visit arranged.
LEMMA ArrangedStep ==
    ASSUME FeedTyped, NotAhead, [FeedNext]_feed, NEW v \in Visits, Arranged(v)
    PROVE  Arranged(v)'
<1> USE DEF FeedTyped
<1>0. wire[v] \in Seq(Nat) /\ shown[v] \in Seq(Nat) /\ wire[v] \in Seq(Alerts) /\ Degraded \in Nat
  BY DEF Alerts, Degraded
<1>1. CASE Emptied(v)
  <2>1. wire'[v] = wire[v] \/ wire'[v] = <<>>
    BY <1>1 DEF Emptied
  <2>2. shown'[v] = shown[v] \/ shown'[v] = <<>>
    BY <1>1 DEF Emptied
  <2>3. CASE wire'[v] = <<>>
    BY <2>2, <2>3 DEF Arranged
  <2>4. CASE wire'[v] = wire[v]
    BY <2>2, <2>4 DEF Arranged
  <2>5. QED
    BY <2>1, <2>3, <2>4
<1>2. CASE Received(v)
  <2>1. /\ \A i \in DOMAIN wire'[v] :
             i \in Nat /\ i + 1 \in DOMAIN wire[v] /\ 1 < i + 1 /\ wire'[v][i] = wire[v][i + 1]
        /\ 1 \in DOMAIN wire[v] /\ Head(wire[v]) = wire[v][1] /\ wire[v][1] \in Alerts
    BY <1>0, <1>2, TailList DEF Received
  <2>2. wire[v][1] \in Nat /\ wire[v][1] # Degraded
    BY <2>1 DEF Alerts, Degraded
  <2>3. \A i, j \in DOMAIN wire'[v] : i < j => wire'[v][i] <= wire'[v][j]
    BY <2>1 DEF Arranged
  <2>4. CASE shown'[v] = shown[v]
    BY <2>1, <2>3, <2>4 DEF Arranged
  <2>5. CASE shown'[v] = Fronted(shown[v], wire[v][1])
    <3>1. \A i \in DOMAIN shown[v] : shown[v][i] <= wire[v][1]
      BY <2>1 DEF Arranged
    <3>2. /\ \A i, j \in DOMAIN shown'[v] : i < j /\ shown'[v][i] # Degraded => shown'[v][j] <= shown'[v][i]
          /\ \A i \in DOMAIN shown'[v] \ {1} : shown'[v][i] = Degraded => shown'[v][i - 1] # Degraded
      BY <1>0, <2>2, <2>5, <3>1, ArrangedFronted DEF Arranged
    <3>3. /\ shown'[v][1] = wire[v][1]
          /\ \A i \in DOMAIN shown'[v] : i # 1 => i - 1 \in DOMAIN shown[v] /\ shown'[v][i] = shown[v][i - 1]
      BY <1>0, <2>2, <2>5, FrontedList
    <3>4. ASSUME NEW i \in DOMAIN shown'[v], NEW j \in DOMAIN wire'[v]
          PROVE  shown'[v][i] <= wire'[v][j]
      <4>1. CASE i = 1
        BY <2>1, <3>3, <4>1 DEF Arranged
      <4>2. CASE i # 1
        BY <2>1, <3>3, <4>2 DEF Arranged
      <4>3. QED
        BY <4>1, <4>2
    <3>5. QED
      BY <2>3, <3>2, <3>4 DEF Arranged
  <2>6. QED
    BY <1>2, <2>1, <2>4, <2>5 DEF Received
<1>3. CASE Noticed(v)
  <2>1. shown[v] = <<>> \/ shown[v][1] # Degraded
    BY <1>0, <1>3 DEF Noticed, InFront
  <2>2. /\ \A i, j \in DOMAIN shown'[v] : i < j /\ shown'[v][i] # Degraded => shown'[v][j] <= shown'[v][i]
        /\ \A i \in DOMAIN shown'[v] \ {1} : shown'[v][i] = Degraded => shown'[v][i - 1] # Degraded
    BY <1>0, <1>3, <2>1, ArrangedFronted DEF Arranged, Noticed
  <2>3. /\ shown'[v][1] = Degraded
        /\ \A i \in DOMAIN shown'[v] : i # 1 => i - 1 \in DOMAIN shown[v] /\ shown'[v][i] = shown[v][i - 1]
    <3>1. shown'[v] = Fronted(shown[v], Degraded)
      BY <1>3 DEF Noticed
    <3>2. /\ Fronted(shown[v], Degraded)[1] = Degraded
          /\ \A i \in DOMAIN Fronted(shown[v], Degraded) :
               i # 1 => i - 1 \in DOMAIN shown[v] /\ Fronted(shown[v], Degraded)[i] = shown[v][i - 1]
      BY <1>0, FrontedList
    <3>3. QED
      BY <3>1, <3>2
  <2>4. ASSUME NEW i \in DOMAIN shown'[v], NEW j \in DOMAIN wire[v]
        PROVE  shown'[v][i] <= wire[v][j]
    <3>1. CASE i = 1
      <4>1. wire[v][j] \in Nat /\ shown'[v][i] = 0
        BY <1>0, <2>3, <3>1 DEF Degraded
      <4>2. QED
        BY <4>1
    <3>2. CASE i # 1
      BY <2>3, <3>2 DEF Arranged
    <3>3. QED
      BY <3>1, <3>2
  <2>5. QED
    BY <1>3, <2>2, <2>4 DEF Arranged, Noticed
<1>4. CASE Sent(v)
  <2>1. walk.alert \in Alerts
    BY <1>4 DEF Sent, WalkState, Alerts
  <2>2. /\ DOMAIN wire'[v] = 1 .. Len(wire[v]) + 1 /\ DOMAIN wire[v] = 1 .. Len(wire[v]) /\ Len(wire[v]) \in Nat
        /\ wire'[v][Len(wire[v]) + 1] = walk.alert
        /\ \A k \in 1 .. Len(wire[v]) : wire'[v][k] = wire[v][k]
    BY <1>0, <1>4, <2>1, AppendedList DEF Sent
  <2>3. /\ \A i \in DOMAIN wire[v] : wire[v][i] <= walk.alert
        /\ \A i \in DOMAIN shown[v] : shown[v][i] <= walk.alert
    BY <1>4 DEF Sent, NotAhead, Past
  <2>4. ASSUME NEW i \in DOMAIN wire'[v], NEW j \in DOMAIN wire'[v], i < j
        PROVE  wire'[v][i] <= wire'[v][j]
    <3>1. i \in 1 .. Len(wire[v])
      BY <2>2, <2>4
    <3>2. CASE j \in 1 .. Len(wire[v])
      BY <2>2, <2>4, <3>1, <3>2 DEF Arranged
    <3>3. CASE j = Len(wire[v]) + 1
      BY <2>2, <2>3, <3>1, <3>3
    <3>4. QED
      BY <2>2, <3>2, <3>3
  <2>5. ASSUME NEW i \in DOMAIN shown[v], NEW j \in DOMAIN wire'[v]
        PROVE  shown[v][i] <= wire'[v][j]
    <3>2. CASE j \in 1 .. Len(wire[v])
      BY <2>2, <3>2 DEF Arranged
    <3>3. CASE j = Len(wire[v]) + 1
      BY <2>2, <2>3, <3>3
    <3>4. QED
      BY <2>2, <3>2, <3>3
  <2>6. QED
    BY <1>4, <2>4, <2>5 DEF Arranged, Sent
<1>5. QED
  BY <1>1, <1>2, <1>3, <1>4, ListsStep

\* No connection stands twice in the list, none belongs to an attempt to come,
\* and that of an attempt whose handshake is under way is not in it yet.
Distinct ==
    /\ \A i, j \in DOMAIN conns : conns[i] = conns[j] => i = j
    /\ \A i \in DOMAIN conns, v \in Visits :
          conns[i][1] = v =>
              /\ conns[i][2] \in 1 .. attempt[v]
              /\ conns[i][2] = attempt[v] => link[v] # "calling"
    /\ \A v \in Visits :
          /\ page[v] = "unseen" => attempt[v] = 0
          /\ attempt[v] = 0 => page[v] = "unseen" /\ link[v] = "none"

\* Every step keeps the connections distinct: each attempt connects once.
LEMMA DistinctStep ==
    ASSUME FeedTyped, Distinct, [FeedNext]_feed
    PROVE  Distinct'
<1> USE DEF FeedTyped
<1>0. \A i \in DOMAIN conns : conns[i] \in Sockets /\ conns[i] = <<conns[i][1], conns[i][2]>> /\ conns[i][2] \in Nat
  BY DEF Sockets
<1>1. ASSUME NEW v \in Visits, Connect(v)
      PROVE  Distinct'
  <2>1. /\ conns' = Append(conns, Socket(v)) /\ UNCHANGED <<attempt, page>>
        /\ link[v] = "calling" /\ link' = [link EXCEPT ![v] = "open"]
    BY <1>1 DEF Connect
  <2>2. Socket(v) \in Sockets
    BY DEF Sockets, Socket
  <2>3. /\ DOMAIN conns' = 1 .. Len(conns) + 1 /\ DOMAIN conns = 1 .. Len(conns) /\ Len(conns) \in Nat
        /\ conns'[Len(conns) + 1] = Socket(v)
        /\ \A k \in 1 .. Len(conns) : conns'[k] = conns[k]
    BY <2>1, <2>2, AppendedList
  <2>4. \A i \in DOMAIN conns : conns[i] # Socket(v)
    <3>1. \A i \in DOMAIN conns : conns[i][1] = v => conns[i][2] # attempt[v]
      BY <2>1 DEF Distinct
    <3>2. ASSUME NEW i \in DOMAIN conns, conns[i] = Socket(v)
          PROVE  FALSE
      <4>1. conns[i][1] = v /\ conns[i][2] = attempt[v]
        BY <3>2 DEF Socket
      <4>2. QED
        BY <3>1, <4>1
    <3>3. QED
      BY <3>2
  <2>5. attempt[v] \in Nat /\ attempt[v] # 0
    BY <2>1 DEF Distinct
  <2>6. ASSUME NEW i \in DOMAIN conns', NEW j \in DOMAIN conns', conns'[i] = conns'[j]
        PROVE  i = j
    <3>1. CASE i \in DOMAIN conns /\ j \in DOMAIN conns
      BY <2>3, <2>6, <3>1 DEF Distinct
    <3>2. CASE i \in DOMAIN conns /\ j = Len(conns) + 1
      BY <2>3, <2>4, <2>6, <3>2
    <3>3. CASE i = Len(conns) + 1 /\ j \in DOMAIN conns
      BY <2>3, <2>4, <2>6, <3>3
    <3>4. QED
      BY <2>3, <3>1, <3>2, <3>3
  <2>7. ASSUME NEW i \in DOMAIN conns', NEW w \in Visits, conns'[i][1] = w
        PROVE  /\ conns'[i][2] \in 1 .. attempt[w]
               /\ conns'[i][2] = attempt[w] => link'[w] # "calling"
    <3>1. CASE i \in DOMAIN conns
      BY <2>1, <2>3, <2>7, <3>1 DEF Distinct
    <3>2. CASE i = Len(conns) + 1
      BY <2>1, <2>3, <2>5, <2>7, <3>2 DEF Socket
    <3>3. QED
      BY <2>3, <3>1, <3>2
  <2>8. QED
    BY <2>1, <2>5, <2>6, <2>7 DEF Distinct
<1>2. CASE Disconnect
  <2>1. PICK i \in DOMAIN conns :
           /\ conns' = RemoveAt(conns, i)
           /\ UNCHANGED <<attempt, link, page>>
    BY <1>2 DEF Disconnect, client
  <2>2. /\ \A k \in DOMAIN conns' :
             k \in DOMAIN conns /\ k + 1 \in DOMAIN conns /\ k \in Nat
             /\ conns'[k] = IF k < i THEN conns[k] ELSE conns[k + 1]
    <3>1. conns' \in Seq(Sockets)
      BY <2>1, RemovedAt
    <3>2. \A k \in DOMAIN conns' : k \in Nat
      BY <3>1
    <3>3. \A k \in DOMAIN RemoveAt(conns, i) :
             k \in DOMAIN conns /\ k + 1 \in DOMAIN conns
             /\ RemoveAt(conns, i)[k] = IF k < i THEN conns[k] ELSE conns[k + 1]
      BY RemovedAt
    <3>4. QED
      BY <2>1, <3>2, <3>3
  <2>3. ASSUME NEW k \in DOMAIN conns', NEW l \in DOMAIN conns', conns'[k] = conns'[l]
        PROVE  k = l
    <3>1. (IF k < i THEN k ELSE k + 1) = (IF l < i THEN l ELSE l + 1)
      BY <2>2, <2>3 DEF Distinct
    <3>2. QED
      BY <2>2, <3>1
  <2>4. ASSUME NEW k \in DOMAIN conns', NEW v \in Visits, conns'[k][1] = v
        PROVE  /\ conns'[k][2] \in 1 .. attempt[v]
               /\ conns'[k][2] = attempt[v] => link[v] # "calling"
    <3>1. PICK l \in DOMAIN conns : conns'[k] = conns[l]
      BY <2>2
    <3>2. conns[l][1] = v
      BY <2>4, <3>1
    <3>3. conns[l][2] \in 1 .. attempt[v] /\ (conns[l][2] = attempt[v] => link[v] # "calling")
      BY <3>2 DEF Distinct
    <3>4. QED
      BY <3>1, <3>3
  <2>5. QED
    BY <2>1, <2>3, <2>4 DEF Distinct
<1>3. CASE ServerRestarts
  BY <1>3 DEF ServerRestarts, Distinct
<1>4. ASSUME UNCHANGED conns, NEW v \in Visits, attempt[v] # 0, link'[v] # "calling",
             \A w \in Visits \ {v} : link'[w] = link[w],
             attempt' = attempt, page'[v] # "unseen", \A w \in Visits \ {v} : page'[w] = page[w]
      PROVE  Distinct'
  BY <1>4 DEF Distinct
<1>5. ASSUME NEW v \in Visits, Closes(v)
      PROVE  attempt[v] # 0 /\ page[v] # "unseen" /\ link'[v] # "calling" /\ \A w \in Visits \ {v} : link'[w] = link[w]
  BY <1>5 DEF Closes, Distinct
<1>6. ASSUME NEW v \in Visits, OnClose(v)
      PROVE  Distinct'
  BY <1>4, <1>5, <1>6 DEF OnClose, server
<1>7. ASSUME NEW v \in Visits, Break(v)
      PROVE  Distinct'
  <2>1. attempt[v] # 0 /\ page'[v] # "unseen" /\ link'[v] = "broken" /\ (\A w \in Visits \ {v} : link'[w] = link[w]) /\ UNCHANGED <<conns, attempt, page>>
    BY <1>7 DEF Break, server, Distinct
  <2>2. QED
    BY <1>4, <2>1
<1>8. ASSUME NEW v \in Visits, Leave(v)
      PROVE  Distinct'
  <2>1. attempt[v] # 0 /\ link'[v] # "calling" /\ (\A w \in Visits \ {v} : link'[w] = link[w])
    BY <1>5, <1>8 DEF Leave, Distinct
  <2>2. UNCHANGED <<conns, attempt>> /\ page'[v] # "unseen" /\ \A w \in Visits \ {v} : page'[w] = page[w]
    BY <1>8 DEF Leave, server
  <2>3. QED
    BY <1>4, <2>1, <2>2
<1>9. ASSUME NEW v \in Visits, UNCHANGED conns, attempt' = [attempt EXCEPT ![v] = attempt[v] + 1],
             \A w \in Visits \ {v} : link'[w] = link[w], page'[v] # "unseen",
             \A w \in Visits \ {v} : page'[w] = page[w]
      PROVE  Distinct'
  <2>1. \A i \in DOMAIN conns : conns[i][1] = v =>
            conns[i][2] \in 1 .. attempt'[v] /\ conns[i][2] # attempt'[v]
    <3>1. attempt'[v] = attempt[v] + 1 /\ attempt[v] \in Nat
      BY <1>9
    <3>2. \A i \in DOMAIN conns : conns[i][1] = v => conns[i][2] \in 1 .. attempt[v]
      BY DEF Distinct
    <3>3. QED
      BY <3>1, <3>2
  <2>2. \A w \in Visits \ {v} : attempt'[w] = attempt[w]
    BY <1>9
  <2>3. attempt'[v] # 0 /\ conns' = conns
    BY <1>9
  <2>4. /\ \A i, j \in DOMAIN conns' : conns'[i] = conns'[j] => i = j
        /\ \A w \in Visits :
             /\ page'[w] = "unseen" => attempt'[w] = 0
             /\ attempt'[w] = 0 => page'[w] = "unseen" /\ link'[w] = "none"
    BY <1>9, <2>2, <2>3 DEF Distinct
  <2>5. ASSUME NEW i \in DOMAIN conns', NEW w \in Visits, conns'[i][1] = w
        PROVE  /\ conns'[i][2] \in 1 .. attempt'[w]
               /\ conns'[i][2] = attempt'[w] => link'[w] # "calling"
    <3>1. CASE w = v
      BY <2>1, <2>3, <2>5, <3>1
    <3>2. CASE w # v
      <4>1. i \in DOMAIN conns /\ conns[i][1] = w /\ conns'[i] = conns[i]
        BY <2>3, <2>5
      <4>2. conns[i][2] \in 1 .. attempt[w] /\ (conns[i][2] = attempt[w] => link[w] # "calling")
        BY <4>1 DEF Distinct
      <4>3. link'[w] = link[w] /\ attempt'[w] = attempt[w]
        BY <1>9, <2>2, <3>2
      <4>4. QED
        BY <4>1, <4>2, <4>3
    <3>3. QED
      BY <3>1, <3>2
  <2>6. QED
    BY <2>4, <2>5 DEF Distinct
<1>10. ASSUME NEW v \in Visits, Visit(v)
       PROVE  Distinct'
  <2>1. attempt' = [attempt EXCEPT ![v] = attempt[v] + 1]
    <3>1. attempt[v] + 1 = 1
      BY <1>10 DEF Visit, Distinct
    <3>2. QED
      BY <1>10, <3>1 DEF Visit
  <2>2. /\ \A w \in Visits \ {v} : link'[w] = link[w]
        /\ UNCHANGED conns /\ page'[v] # "unseen"
        /\ \A w \in Visits \ {v} : page'[w] = page[w]
    BY <1>10 DEF Visit, server
  <2>3. QED
    BY <1>9, <2>1, <2>2
<1>11. ASSUME NEW v \in Visits, Retry(v)
       PROVE  Distinct'
  <2>1. attempt' = [attempt EXCEPT ![v] = attempt[v] + 1]
    BY <1>11 DEF Retry
  <2>2. /\ \A w \in Visits \ {v} : link'[w] = link[w]
        /\ UNCHANGED <<conns, page>> /\ page[v] # "unseen"
    BY <1>11 DEF Retry, server, Distinct
  <2>3. QED
    BY <1>9, <2>1, <2>2
<1>12. CASE UNCHANGED <<conns, attempt, link, page>>
  BY <1>12 DEF Distinct
<1>13. QED
  BY <1>1, <1>2, <1>3, <1>6, <1>7, <1>8, <1>10, <1>11, <1>12
  DEF FeedNext, Served, Browses, Subscribe, TakeAlert, Send, EndBroadcast, PublishAlert, ListenerFails,
      OnMessage, PollDegraded, feed, server, client

\* The walk may still come to the visit's connection.
ToCome(v) == Walking /\ \E k \in DOMAIN conns : walk.at <= k /\ conns[k] = Socket(v)

\* Copies of an alert shown by a visit or on their way to it.
Total(v, a) == Copies(wire[v], a) + Copies(shown[v], a)

\* Each attempt of a visit brings an alert once at most, and none while its
\* handshake is under way or the walk has still to come to its connection.
CopiesCounted(v) ==
    /\ \A a \in Alerts :
          /\ Total(v, a) <= attempt[v]
          /\ link[v] = "calling" => Total(v, a) < attempt[v]
    /\ ToCome(v) => Total(v, walk.alert) < attempt[v]

\* What has not been taken from the inbox has not come.
LEMMA NotYetSent ==
    ASSUME FeedTyped, NotAhead, NEW v \in Visits, NEW i \in DOMAIN inbox
    PROVE  Total(v, inbox[i]) = 0
<1> USE DEF FeedTyped
<1>1. inbox[i] \in Nat
  BY DEF Alerts
<1>2. Places(wire[v], inbox[i]) = {}
  <2>1. \A k \in DOMAIN wire[v] : wire[v][k] \in Nat /\ wire[v][k] < inbox[i]
    BY DEF NotAhead, Past
  <2>2. QED
    BY <1>1, <2>1 DEF Places
<1>3. Places(shown[v], inbox[i]) = {}
  <2>1. \A k \in DOMAIN shown[v] : shown[v][k] \in Nat /\ shown[v][k] < inbox[i]
    BY DEF NotAhead, Past
  <2>2. QED
    BY <1>1, <2>1 DEF Places
<1>4. QED
  BY <1>2, <1>3, FS_EmptySet DEF Total, Copies

\* Copies come by sending only, one at a time.
LEMMA TotalStep ==
    ASSUME FeedTyped, [FeedNext]_feed, NEW v \in Visits, NEW a \in Alerts
    PROVE  /\ Total(v, a) \in Nat /\ Total(v, a)' \in Nat
           /\ \/ Total(v, a)' <= Total(v, a)
              \/ Send /\ Sent(v) /\ a = walk.alert /\ Total(v, a)' <= Total(v, a) + 1
<1> USE DEF FeedTyped
<1>0. wire[v] \in Seq(Nat) /\ shown[v] \in Seq(Nat) /\ Degraded \in Nat /\ a \in Nat /\ a # Degraded
  BY DEF Alerts, Degraded
<1>1. FeedTyped'
  BY FeedTypedStep
<1>2. wire'[v] \in Seq(Nat) /\ shown'[v] \in Seq(Nat)
  BY <1>1 DEF Alerts
<1>3. /\ Copies(wire[v], a) \in Nat /\ Copies(shown[v], a) \in Nat
      /\ Copies(wire'[v], a) \in Nat /\ Copies(shown'[v], a) \in Nat
  BY <1>0, <1>2, PlacesFinite
<1>4. Total(v, a)' = Copies(wire'[v], a) + Copies(shown'[v], a)
  BY DEF Total
<1>5. Total(v, a) \in Nat /\ Total(v, a)' \in Nat
  BY <1>3, <1>4 DEF Total
<1>6. Copies(<<>>, a) = 0
  <2>1. Places(<<>>, a) = {}
    BY DEF Places
  <2>2. QED
    BY <2>1, FS_EmptySet DEF Copies
<1>7. CASE Emptied(v)
  <2>1. Copies(wire'[v], a) <= Copies(wire[v], a)
    <3>1. CASE wire'[v] = wire[v]
      BY <1>3, <3>1
    <3>2. CASE wire'[v] = <<>>
      BY <1>3, <1>6, <3>2
    <3>3. QED
      BY <1>7, <3>1, <3>2 DEF Emptied
  <2>2. Copies(shown'[v], a) <= Copies(shown[v], a)
    <3>1. CASE shown'[v] = shown[v]
      BY <1>3, <3>1
    <3>2. CASE shown'[v] = <<>>
      BY <1>3, <1>6, <3>2
    <3>3. QED
      BY <1>7, <3>1, <3>2 DEF Emptied
  <2>3. QED
    BY <1>3, <1>4, <1>5, <2>1, <2>2 DEF Total
<1>8. CASE Received(v)
  <2>1. wire[v] # <<>> /\ wire'[v] = Tail(wire[v])
    BY <1>8 DEF Received
  <2>2. Copies(wire'[v], a) + (IF Head(wire[v]) = a THEN 1 ELSE 0) <= Copies(wire[v], a)
    BY <1>0, <2>1, CopiesTail
  <2>3. Head(wire[v]) \in Nat
    BY <1>0, <2>1, TailList
  <2>4. Copies(Fronted(shown[v], Head(wire[v])), a)
          <= Copies(shown[v], a) + (IF a = Head(wire[v]) THEN 1 ELSE 0)
    BY <1>0, <2>3, CopiesFronted
  <2>5. Copies(shown'[v], a) <= Copies(shown[v], a) + (IF a = Head(wire[v]) THEN 1 ELSE 0)
    <3>1. CASE shown'[v] = shown[v]
      BY <1>3, <3>1
    <3>2. CASE shown'[v] = Fronted(shown[v], Head(wire[v]))
      BY <2>4, <3>2
    <3>3. QED
      BY <1>8, <3>1, <3>2 DEF Received
  <2>6. CASE a = Head(wire[v])
    BY <1>3, <1>4, <1>5, <2>2, <2>5, <2>6 DEF Total
  <2>7. CASE a # Head(wire[v])
    BY <1>3, <1>4, <1>5, <2>2, <2>5, <2>7 DEF Total
  <2>8. QED
    BY <2>6, <2>7
<1>9. CASE Noticed(v)
  <2>1. Copies(Fronted(shown[v], Degraded), a) <= Copies(shown[v], a) + (IF a = Degraded THEN 1 ELSE 0)
    BY <1>0, CopiesFronted
  <2>2. wire'[v] = wire[v] /\ shown'[v] = Fronted(shown[v], Degraded)
    BY <1>9 DEF Noticed
  <2>3. QED
    BY <1>0, <1>3, <1>4, <1>5, <2>1, <2>2 DEF Total
<1>10. CASE Sent(v) /\ Send
  <2>1. wire'[v] = Append(wire[v], walk.alert) /\ shown'[v] = shown[v] /\ walk.alert \in Nat
    BY <1>10 DEF Sent, WalkState
  <2>2. Copies(wire'[v], a) <= Copies(wire[v], a) + (IF a = walk.alert THEN 1 ELSE 0)
    BY <1>0, <2>1, CopiesAppended
  <2>3. QED
    BY <1>3, <1>4, <1>5, <1>10, <2>1, <2>2 DEF Total
<1>11. QED
  BY <1>5, <1>7, <1>8, <1>9, <1>10, ListsStep

\* Every step keeps the count of copies: the walk comes to a connection once.
LEMMA CopiesCountedStep ==
    ASSUME FeedTyped, NotAhead, Distinct, [FeedNext]_feed, NEW v \in Visits, CopiesCounted(v)
    PROVE  CopiesCounted(v)'
<1> USE DEF FeedTyped
<1>0. /\ attempt[v] \in Nat /\ FeedTyped'
      /\ \A k \in DOMAIN conns : conns[k] = Socket(v) => attempt[v] \in 1 .. attempt[v]
  <2>1. ASSUME NEW k \in DOMAIN conns, conns[k] = Socket(v)
        PROVE  attempt[v] \in 1 .. attempt[v]
    <3>1. conns[k][1] = v /\ conns[k][2] = attempt[v]
      BY <2>1 DEF Socket
    <3>2. QED
      BY <3>1 DEF Distinct
  <2>2. QED
    BY <2>1, FeedTypedStep
<1>1. ASSUME NEW a \in Alerts
      PROVE  /\ Total(v, a) \in Nat /\ Total(v, a)' \in Nat
             /\ ~(Send /\ Sent(v)) => Total(v, a)' <= Total(v, a)
             /\ Total(v, a)' <= Total(v, a) + 1
             /\ a # walk.alert => Total(v, a)' <= Total(v, a)
  BY TotalStep
<1>2. Walking => walk.alert \in Alerts
  BY DEF WalkState, Alerts
<1>3. ASSUME attempt'[v] = attempt[v], link'[v] = "calling" => link[v] = "calling",
             ToCome(v)' => walk'.alert = walk.alert /\ (ToCome(v) \/ (Walking /\ link[v] = "calling")),
             ~(Send /\ Sent(v))
      PROVE  CopiesCounted(v)'
  <2>1. ASSUME NEW a \in Alerts
        PROVE  /\ Total(v, a)' <= attempt'[v]
               /\ link'[v] = "calling" => Total(v, a)' < attempt'[v]
    BY <1>0, <1>1, <1>3 DEF CopiesCounted
  <2>2. ASSUME ToCome(v)'
        PROVE  Total(v, walk.alert)' < attempt'[v]
    <3>1. PICK a \in Alerts : a = walk.alert /\ a = walk'.alert
      BY <1>2, <1>3, <2>2 DEF ToCome
    <3>2. Total(v, a) < attempt[v]
      BY <1>3, <2>2, <3>1 DEF CopiesCounted
    <3>3. Total(v, a)' < attempt'[v]
      BY <1>0, <1>1, <1>3, <3>2
    <3>4. QED
      BY <3>1, <3>3
  <2>3. QED
    BY <2>1, <2>2 DEF CopiesCounted
<1>4. CASE TakeAlert
  <2>1. /\ inbox # <<>> /\ walk'.alert = Head(inbox) /\ walk'.at = 1
        /\ UNCHANGED <<conns, attempt, link, wire, shown>>
    BY <1>4 DEF TakeAlert, NoWalk, client
  <2>2. 1 \in DOMAIN inbox /\ Head(inbox) = inbox[1] /\ inbox[1] \in Alerts
    BY <2>1, TailList
  <2>3. Total(v, inbox[1]) = 0
    BY <2>2, NotYetSent
  <2>4. ASSUME ToCome(v)'
        PROVE  Total(v, walk'.alert) < attempt[v]
    <3>1. attempt[v] \in 1 .. attempt[v]
      BY <1>0, <2>1, <2>4 DEF ToCome, Socket
    <3>2. QED
      BY <1>0, <2>1, <2>2, <2>3, <3>1
  <2>5. QED
    BY <2>1, <2>4 DEF CopiesCounted, Total
<1>5. CASE Send
  <2>1. /\ walk'.alert = walk.alert /\ walk'.at = walk.at + 1 /\ UNCHANGED <<conns, attempt, link>>
        /\ walk.at \in Nat /\ Walking
    BY <1>5 DEF Send, WalkState
  <2>2. ASSUME ToCome(v)'
        PROVE  \E k \in DOMAIN conns : walk.at + 1 <= k /\ conns[k] = Socket(v)
    BY <2>1, <2>2 DEF ToCome, Socket
  <2>3. CASE Sent(v)
    <3>1. walk.at \in DOMAIN conns /\ conns[walk.at] = Socket(v) /\ link[v] = "open"
      BY <1>5, <2>3 DEF Sent, WalkState
    <3>2. Total(v, walk.alert) < attempt[v]
      BY <2>1, <3>1 DEF CopiesCounted, ToCome
    <3>3. ~ToCome(v)'
      <4>1. ASSUME NEW k \in DOMAIN conns, walk.at + 1 <= k, conns[k] = Socket(v)
            PROVE  FALSE
        <5>1. k = walk.at
          BY <3>1, <4>1 DEF Distinct
        <5>2. QED
          BY <2>1, <4>1, <5>1
      <4>2. QED
        BY <2>2, <4>1
    <3>4. ASSUME NEW a \in Alerts
          PROVE  Total(v, a)' <= attempt'[v]
      <4>1. CASE a = walk.alert
        BY <1>0, <1>1, <2>1, <3>2, <4>1
      <4>2. CASE a # walk.alert
        BY <1>0, <1>1, <2>1, <4>2 DEF CopiesCounted
      <4>3. QED
        BY <4>1, <4>2
    <3>5. link'[v] # "calling"
      BY <2>1, <3>1
    <3>6. QED
      BY <3>3, <3>4, <3>5 DEF CopiesCounted
  <2>4. CASE ~Sent(v)
    <3>1. ToCome(v)' => ToCome(v)
      <4>1. ASSUME NEW k \in DOMAIN conns, walk.at + 1 <= k
            PROVE  walk.at <= k
        BY <2>1, <4>1
      <4>2. QED
        BY <2>1, <2>2, <4>1 DEF ToCome
    <3>2. QED
      BY <1>3, <2>1, <2>4, <3>1
  <2>5. QED
    BY <2>3, <2>4
<1>6. CASE EndBroadcast \/ ServerRestarts
  <2>1. ~ToCome(v)'
    BY <1>6 DEF EndBroadcast, ServerRestarts, ToCome, Walking
  <2>2. attempt'[v] = attempt[v] /\ (link'[v] = "calling" => link[v] = "calling")
    BY <1>6 DEF EndBroadcast, ServerRestarts, client
  <2>3. ~Send
    <3>1. CASE EndBroadcast
      BY <3>1 DEF EndBroadcast, Send, WalkState
    <3>2. CASE ServerRestarts
      BY <3>2 DEF ServerRestarts, Send
    <3>3. QED
      BY <1>6, <3>1, <3>2
  <2>4. QED
    BY <1>3, <2>1, <2>2, <2>3
<1>7. CASE Disconnect
  <2>1. PICK i \in DOMAIN conns :
           /\ conns' = RemoveAt(conns, i)
           /\ walk' = IF Walking /\ i < walk.at THEN [walk EXCEPT !.shifted = TRUE] ELSE walk
           /\ UNCHANGED <<attempt, link, wire>>
    BY <1>7 DEF Disconnect, client
  <2>2. walk'.alert = walk.alert /\ walk'.at = walk.at /\ (Walking' => Walking)
    BY <2>1 DEF WalkState, Walking
  <2>3. ToCome(v)' => ToCome(v)
    <3>1. ASSUME NEW k \in DOMAIN conns', Walking, walk.at <= k, conns'[k] = Socket(v)
          PROVE  ToCome(v)
      <4>1. /\ k \in DOMAIN conns /\ k + 1 \in DOMAIN conns /\ conns'[k] = IF k < i THEN conns[k] ELSE conns[k + 1]
        BY <2>1, RemovedAt
      <4>2. walk.at <= k + 1
        BY <3>1, <4>1 DEF WalkState
      <4>3. QED
        BY <3>1, <4>1, <4>2 DEF ToCome
    <3>2. ToCome(v)' => Walking' /\ \E k \in DOMAIN conns' : walk'.at <= k /\ conns'[k] = Socket(v)
      BY <2>1 DEF ToCome, Socket
    <3>3. QED
      BY <2>2, <3>1, <3>2
  <2>4. ~Send
    <3>1. Send => UNCHANGED conns
      BY DEF Send
    <3>2. conns' # conns
      BY <2>1, RemovedAt
    <3>3. QED
      BY <3>1, <3>2
  <2>5. QED
    BY <1>3, <2>1, <2>2, <2>3, <2>4
<1>8. ASSUME NEW w \in Visits, Connect(w)
      PROVE  CopiesCounted(v)'
  <2>1. /\ link[w] = "calling" /\ link' = [link EXCEPT ![w] = "open"]
        /\ conns' = Append(conns, Socket(w)) /\ UNCHANGED <<walk, attempt>>
    BY <1>8 DEF Connect
  <2>2. Socket(w) \in Sockets
    BY DEF Socket, Sockets
  <2>3. /\ DOMAIN conns' = 1 .. Len(conns) + 1 /\ DOMAIN conns = 1 .. Len(conns) /\ Len(conns) \in Nat
        /\ conns'[Len(conns) + 1] = Socket(w)
        /\ \A k \in 1 .. Len(conns) : conns'[k] = conns[k]
    BY <2>1, <2>2, AppendedList
  <2>4. ASSUME ToCome(v)'
        PROVE  ToCome(v) \/ (Walking /\ link[v] = "calling")
    <3>1. Walking /\ \E k \in DOMAIN conns' : walk.at <= k /\ conns'[k] = Socket(v)
      BY <2>1, <2>4 DEF ToCome, Socket, Walking
    <3>2. PICK k \in DOMAIN conns' : walk.at <= k /\ conns'[k] = Socket(v)
      BY <3>1
    <3>3. CASE k \in DOMAIN conns
      BY <2>3, <3>1, <3>2, <3>3 DEF ToCome
    <3>4. CASE k = Len(conns) + 1
      <4>1. Socket(v) = Socket(w)
        BY <2>3, <3>2, <3>4
      <4>2. v = w
        BY <4>1 DEF Socket
      <4>3. QED
        BY <2>1, <3>1, <4>2
    <3>5. QED
      BY <2>3, <3>3, <3>4
  <2>5. ~Send
    <3>1. Send => UNCHANGED conns
      BY DEF Send
    <3>2. conns' # conns
      BY <2>3
    <3>3. QED
      BY <3>1, <3>2
  <2>6. QED
    BY <1>3, <2>1, <2>4, <2>5
<1>9. ASSUME UNCHANGED <<walk, conns, attempt>>, link'[v] = "calling" => link[v] = "calling"
      PROVE  CopiesCounted(v)'
  <2>1. ~Send
    <3>1. walk.at \in Nat /\ (Send => walk'.at = walk.at + 1)
      BY DEF Send, WalkState
    <3>2. QED
      BY <1>9, <3>1
  <2>2. ToCome(v)' => ToCome(v)
    BY <1>9 DEF ToCome, Socket, Walking
  <2>3. QED
    BY <1>3, <1>9, <2>1, <2>2
<1>10. ASSUME NEW w \in Visits, UNCHANGED <<walk, conns>>, attempt' = [attempt EXCEPT ![w] = attempt[w] + 1],
              \A u \in Visits \ {w} : link'[u] = link[u]
       PROVE  CopiesCounted(v)'
  <2>1. ~Send
    BY <1>10 DEF Send, WalkState
  <2>2. CASE w = v
    <3>1. attempt'[v] = attempt[v] + 1
      BY <1>10, <2>2
    <3>2. ~ToCome(v)'
      <4>1. ASSUME NEW k \in DOMAIN conns, conns[k] = <<v, attempt[v] + 1>>
            PROVE  FALSE
        <5>1. conns[k][1] = v /\ conns[k][2] = attempt[v] + 1
          BY <4>1
        <5>2. conns[k][2] \in 1 .. attempt[v]
          BY <5>1 DEF Distinct
        <5>3. QED
          BY <1>0, <5>1, <5>2
      <4>2. QED
        BY <1>10, <3>1, <4>1 DEF ToCome, Socket
    <3>3. ASSUME NEW a \in Alerts
          PROVE  Total(v, a)' < attempt'[v]
      <4>1. Total(v, a) <= attempt[v]
        BY DEF CopiesCounted
      <4>2. Total(v, a) \in Nat /\ Total(v, a)' \in Nat /\ Total(v, a)' <= Total(v, a)
        BY <1>1, <2>1
      <4>3. ASSUME NEW m \in Nat, NEW n \in Nat, NEW k \in Nat, m <= n, n <= k
            PROVE  m < k + 1
        BY <4>3
      <4>4. QED
        BY <1>0, <3>1, <4>1, <4>2, <4>3
    <3>4. ASSUME NEW a \in Alerts
          PROVE  Total(v, a)' <= attempt'[v]
      <4>1. Total(v, a)' \in Nat /\ attempt'[v] \in Nat
        BY <1>0, <1>1, <3>1
      <4>2. QED
        BY <3>3, <4>1
    <3>5. QED
      BY <3>2, <3>3, <3>4 DEF CopiesCounted
  <2>3. CASE w # v
    <3>1. attempt'[v] = attempt[v] /\ link'[v] = link[v]
      BY <1>10, <2>3
    <3>2. ToCome(v)' => ToCome(v)
      BY <1>10, <3>1 DEF ToCome, Socket, Walking
    <3>3. QED
      BY <1>3, <1>10, <2>1, <3>1, <3>2
  <2>4. QED
    BY <2>2, <2>3
<1>11. ASSUME NEW w \in Visits, Visit(w)
       PROVE  CopiesCounted(v)'
  <2>1. attempt[w] + 1 = 1
    BY <1>11 DEF Visit, Distinct
  <2>2. attempt' = [attempt EXCEPT ![w] = attempt[w] + 1]
    BY <1>11, <2>1 DEF Visit
  <2>3. QED
    BY <1>10, <1>11, <2>2 DEF Visit, server
<1>12. ASSUME NEW w \in Visits, Retry(w)
       PROVE  CopiesCounted(v)'
  <2>1. attempt' = [attempt EXCEPT ![w] = attempt[w] + 1]
    BY <1>12 DEF Retry
  <2>2. QED
    BY <1>10, <1>12, <2>1 DEF Retry, server
<1>13. ASSUME NEW w \in Visits, Closes(w), UNCHANGED <<walk, conns, attempt>>
       PROVE  CopiesCounted(v)'
  BY <1>9, <1>13 DEF Closes
<1>14. ASSUME NEW w \in Visits, OnClose(w) \/ Leave(w) \/ Break(w)
       PROVE  CopiesCounted(v)'
  BY <1>9, <1>13, <1>14 DEF OnClose, Leave, Break, server
<1>15. CASE UNCHANGED <<walk, conns, attempt, link>>
  BY <1>9, <1>15
<1>16. QED
  BY <1>4, <1>5, <1>6, <1>7, <1>8, <1>11, <1>12, <1>14, <1>15
  DEF FeedNext, Served, Browses, Subscribe, PublishAlert, ListenerFails,
      OnMessage, PollDegraded, feed, server, client

-----------------------------------------------------------------------------
\* What holds in every state of the feed.
FeedInv ==
    /\ FeedTyped /\ WalkServes /\ InOrder /\ NotAhead /\ Distinct
    /\ \A v \in Visits : Arranged(v) /\ CopiesCounted(v)

\* It holds at the start.
LEMMA FeedInvInit == FeedInit => FeedInv
<1> SUFFICES ASSUME FeedInit
             PROVE  FeedInv
  OBVIOUS
<1> USE DEF FeedInit
<1>1. FeedTyped
  BY DEF FeedTyped, WalkState, NoWalk, Page, Link, Walking
<1>2. WalkServes /\ InOrder /\ NotAhead
  BY DEF WalkServes, InOrder, NotAhead, Walking
<1>3. Distinct
  BY DEF Distinct
<1>4. ASSUME NEW v \in Visits
      PROVE  Arranged(v) /\ CopiesCounted(v)
  <2>1. \A a : Places(<<>>, a) = {}
    BY DEF Places
  <2>2. ASSUME NEW a
        PROVE  Total(v, a) = 0
    <3>1. Copies(<<>>, a) = 0
      BY <2>1, FS_EmptySet DEF Copies
    <3>2. wire[v] = <<>> /\ shown[v] = <<>>
      OBVIOUS
    <3>3. QED
      BY <3>1, <3>2 DEF Total
  <2>3. QED
    BY <2>2 DEF Arranged, CopiesCounted, ToCome, Walking
<1>5. QED
  BY <1>1, <1>2, <1>3, <1>4 DEF FeedInv

\* Every step keeps it.
LEMMA FeedInvStep == FeedInv /\ [FeedNext]_feed => FeedInv'
<1> SUFFICES ASSUME FeedInv, [FeedNext]_feed
             PROVE  FeedInv'
  OBVIOUS
<1> USE DEF FeedInv
<1>1. FeedTyped' /\ WalkServes' /\ InOrder'
  BY FeedTypedStep, WalkServesStep, InOrderStep
<1>2. NotAhead' /\ Distinct'
  BY NotAheadStep, DistinctStep
<1>3. \A v \in Visits : Arranged(v)' /\ CopiesCounted(v)'
  BY ArrangedStep, CopiesCountedStep
<1>4. QED
  BY <1>1, <1>2, <1>3

\* It holds always.
LEMMA FeedInvariant == FeedSpec => []FeedInv
BY FeedInvInit, FeedInvStep, PTL DEF FeedSpec

\* For any number of visits and alerts and however connections are lost and
\* replaced, the page shows alerts newest first, each once per connection at most,
\* and at most one notice before the newest (onmessage, the health poll).
THEOREM FeedNewestInFront == FeedSpec => []NewestInFront
<1>1. ASSUME FeedInv
      PROVE  NewestInFront
  <2> SUFFICES ASSUME NEW v \in Visits
               PROVE  LET list == shown[v]
                          alerts == {i \in DOMAIN list : list[i] # Degraded}
                      IN /\ \A i, j \in alerts : i < j => list[i] >= list[j]
                         /\ \A i \in alerts : Cardinality({j \in alerts : list[j] = list[i]}) <= attempt[v]
                         /\ \A i \in DOMAIN list \ {1} : list[i] = Degraded => list[i - 1] # Degraded
    BY DEF NewestInFront
  <2> DEFINE list == shown[v]
             alerts == {i \in DOMAIN list : list[i] # Degraded}
  <2>1. /\ list \in Seq(Nat) /\ wire[v] \in Seq(Nat) /\ attempt[v] \in Nat
        /\ \A i \in DOMAIN list : list[i] \in Nat
    BY <1>1 DEF FeedInv, FeedTyped, Alerts
  <2>2. Arranged(v) /\ CopiesCounted(v)
    BY <1>1 DEF FeedInv
  <2>3. ASSUME NEW i \in alerts
        PROVE  Cardinality({j \in alerts : list[j] = list[i]}) <= attempt[v]
    <3>1. {j \in alerts : list[j] = list[i]} = Places(list, list[i])
      BY DEF Places
    <3>2. list[i] \in Alerts
      BY <2>1 DEF Alerts, Degraded
    <3>3. Copies(list, list[i]) \in Nat /\ Copies(wire[v], list[i]) \in Nat
      BY <2>1, PlacesFinite
    <3>4. Copies(wire[v], list[i]) + Copies(list, list[i]) <= attempt[v]
      BY <2>2, <3>2 DEF CopiesCounted, Total
    <3>5. Cardinality({j \in alerts : list[j] = list[i]}) = Copies(list, list[i])
      BY <3>1 DEF Copies
    <3>6. QED
      BY <2>1, <3>3, <3>4, <3>5
  <2>4. \A i, j \in alerts : i < j => list[i] >= list[j]
    BY <2>1, <2>2 DEF Arranged
  <2>5. QED
    BY <2>2, <2>3, <2>4 DEF Arranged
<1>2. QED
  BY <1>1, FeedInvariant, PTL

\* For any number of connections that come and go, a broadcast that ends has tried
\* every one, unless a disconnection shifted the list (ConnectionManager.broadcast).
THEOREM FeedServed == FeedSpec => ServedUnlessShifted
<1>1. FeedInv /\ [FeedNext]_feed =>
        [(Walking /\ ~Walking' /\ failures' = failures /\ ~walk.shifted) => Connected \subseteq walk.served]_feed
  BY ServedStep DEF FeedInv
<1>2. QED
  BY <1>1, FeedInvariant, PTL DEF FeedSpec, ServedUnlessShifted

=============================================================================
