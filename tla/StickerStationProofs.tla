--------------------------- MODULE StickerStationProofs ---------------------------
(***************************************************************************)
(* For any number of photos, drives, restarts and failed moves: a photo    *)
(* gets at most one outcome for each time it is put into the folder, it is *)
(* filed as processed only when its folder exists, and the client loses    *)
(* sight of a photo only in the two ways the code leaves open.             *)
(***************************************************************************)
EXTENDS StickerStation, SequenceTheorems, FiniteSetTheorems, TLAPS

Steps == {"get", "taken", "look", "ask", "asked", "wait", "folder", "log", "move", "moving", "moved", "end"}

Outcomes == {"", "error", "skipped", "usb missing", "duplicate", "success"}

\* The job, from the look at its photo to the attempt to move it.
Busy == {"ask", "asked", "wait", "folder", "log", "move", "moving"}

HandedTo(t, p) == handing[t] # <<>> /\ handing[t][1] = p

Waiting(p) == p \in ToSet(queue) \/ \E t \in Threads : HandedTo(t, p)

TypeOK ==
    /\ place \in [Photos -> {"camera", "sticker", "processed", "failed"}]
    /\ stays \in [Photos -> Nat] /\ faults \in Nat
    /\ seen \subseteq Photos /\ listing \subseteq Photos /\ overlooked \subseteq Photos
    /\ events \in Seq({"created", "deleted"} \X Photos)
    /\ handing \in [Threads -> {<<>>} \cup (Photos \X {"seen", "checked"})]
    /\ queue \in Seq(Photos)
    /\ worker \in [at : Steps, photo : Photos \cup {None}, status : Outcomes]
    /\ drives \subseteq Drives /\ folders \subseteq Drives \X Labels
    /\ log \in [Photos -> Seq(Outcomes)]

WorkerInStep ==
    /\ worker.at \in {"get", "taken"} => current = None
    /\ worker.at \notin {"get", "taken", "end"} => current = worker.photo
    /\ current \in {None, worker.photo}
    /\ worker.photo \in Photos <=> worker.at # "get"
    /\ worker.at \in Busy => place[worker.photo] = "sticker"

OutcomeOwed ==
    \A p \in Photos :
        /\ Len(log[p]) <= stays[p] + faults
        /\ (place[p] = "sticker" /\ ~(worker.photo = p /\ worker.at \in {"move", "moving"}))
              => Len(log[p]) < stays[p] + faults

FolderOf(p) == \E d \in Drives : <<d, Label[p]>> \in folders

Filed ==
    /\ \A p \in Photos : place[p] = "processed" => FolderOf(p)
    /\ worker.at \in {"log", "move", "moving"} /\ Done(worker.status) => FolderOf(worker.photo)

Sighted ==
    /\ NoPhotoLostFromSight
    /\ \A p \in seen : place[p] # "sticker" => p \in overlooked
    /\ worker.at = "moving" /\ worker.photo \in seen => worker.photo \in overlooked
    /\ worker.at \in {"moved", "end"} /\ worker.photo \in seen
          => worker.photo \in overlooked \/ Waiting(worker.photo)

StationInv == TypeOK /\ WorkerInStep /\ OutcomeOwed /\ Filed /\ Sighted

-----------------------------------------------------------------------------
\* Putting a job at the end of the queue, and taking the first one.
LEMMA QueueGrows ==
    ASSUME NEW q \in Seq(Photos), NEW p \in Photos
    PROVE  Append(q, p) \in Seq(Photos) /\ ToSet(Append(q, p)) = ToSet(q) \cup {p}
<1> DEFINE r == Append(q, p)
<1>1. /\ r \in Seq(Photos) /\ Len(r) = Len(q) + 1 /\ Len(q) \in Nat
      /\ \A i \in 1 .. Len(q) : r[i] = q[i]
      /\ r[Len(q) + 1] = p
  OBVIOUS
<1>2. DOMAIN r = DOMAIN q \cup {Len(q) + 1} /\ DOMAIN q = 1 .. Len(q)
  BY <1>1
<1>3. ToSet(r) = ToSet(q) \cup {p}
  <2> HIDE DEF r
  <2> QED
    BY <1>1, <1>2 DEF ToSet
<1>4. QED
  BY <1>1, <1>3

\* A queue from which the first photo is taken.
LEMMA QueueShrinks ==
    ASSUME NEW q \in Seq(Photos), q # <<>>
    PROVE  /\ Head(q) \in Photos /\ Tail(q) \in Seq(Photos)
           /\ ToSet(q) = ToSet(Tail(q)) \cup {Head(q)}
<1> DEFINE t == Tail(q)
<1>1. /\ Len(q) \in Nat \ {0} /\ DOMAIN q = 1 .. Len(q)
      /\ \A i \in 1 .. Len(q) : q[i] \in Photos
      /\ Head(q) = q[1]
  OBVIOUS
<1>2. /\ t \in Seq(Photos) /\ Len(t) = Len(q) - 1 /\ DOMAIN t = 1 .. Len(t)
      /\ \A i \in 1 .. Len(t) : t[i] = q[i + 1]
  OBVIOUS
<1>3. ToSet(q) = ToSet(t) \cup {q[1]}
  <2> HIDE DEF t
  <2>1. \A i \in 1 .. Len(q) : i = 1 \/ (i - 1 \in 1 .. Len(t) /\ q[i] = t[i - 1])
    BY <1>1, <1>2
  <2>2. \A i \in 1 .. Len(t) : i + 1 \in 1 .. Len(q) /\ t[i] = q[i + 1]
    BY <1>1, <1>2
  <2>3. ASSUME NEW x \in ToSet(q) PROVE x \in ToSet(t) \cup {q[1]}
    <3>1. PICK i \in 1 .. Len(q) : x = q[i]
      BY <1>1 DEF ToSet
    <3>2. \A j \in 1 .. Len(t) : t[j] \in ToSet(t)
      BY <1>2 DEF ToSet
    <3>3. QED
      BY <2>1, <3>1, <3>2
  <2>4. \A x \in ToSet(t) \cup {q[1]} : x \in ToSet(q)
    <3>1. \A i \in 1 .. Len(q) : q[i] \in ToSet(q)
      BY <1>1 DEF ToSet
    <3>2. ASSUME NEW x \in ToSet(t) PROVE x \in ToSet(q)
      <4>1. PICK i \in 1 .. Len(t) : x = t[i]
        BY <1>2 DEF ToSet
      <4>2. QED
        BY <2>2, <3>1, <4>1
    <3>3. 1 \in 1 .. Len(q)
      BY <1>1
    <3>4. QED
      BY <3>1, <3>2, <3>3
  <2>5. QED
    BY <2>3, <2>4
<1>4. QED
  BY <1>1, <1>2, <1>3

\* A log with one entry more.
LEMMA LogGrows ==
    ASSUME NEW s \in Seq(Outcomes), NEW x \in Outcomes
    PROVE  Append(s, x) \in Seq(Outcomes) /\ Len(Append(s, x)) = Len(s) + 1
OBVIOUS

\* What the three ways to move the worker on make of it.
LEMMA WorkerMoves ==
    ASSUME TypeOK
    PROVE  /\ \A at \in Steps : Goes(at) =>
                 /\ worker' \in [at : Steps, photo : Photos \cup {None}, status : Outcomes]
                 /\ worker'.at = at /\ worker'.photo = worker.photo /\ worker'.status = worker.status
           /\ \A s \in Outcomes : Fails(s) =>
                 /\ worker' \in [at : Steps, photo : Photos \cup {None}, status : Outcomes]
                 /\ worker'.at = "log" /\ worker'.photo = worker.photo /\ worker'.status = s
           /\ Ends =>
                 /\ worker' \in [at : Steps, photo : Photos \cup {None}, status : Outcomes]
                 /\ worker'.at = "end" /\ worker'.photo = worker.photo /\ worker'.status = ""
BY DEF TypeOK, Goes, Fails, Ends, Steps, Outcomes

\* Nothing is seen at first.
LEMMA InvInit == Init => StationInv
<1> SUFFICES ASSUME Init PROVE StationInv
  OBVIOUS
<1>1. TypeOK
  <2>1. Idle \in [at : Steps, photo : Photos \cup {None}, status : Outcomes]
    BY DEF Idle, Steps, Outcomes
  <2>2. <<>> \in Seq(Photos) /\ <<>> \in Seq({"created", "deleted"} \X Photos) /\ <<>> \in Seq(Outcomes)
    OBVIOUS
  <2>3. QED
    BY <2>1, <2>2 DEF Init, TypeOK
<1>2. WorkerInStep
  BY StationAssumption DEF Init, WorkerInStep, Idle, Busy
<1>3. OutcomeOwed
  BY DEF Init, OutcomeOwed
<1>4. Filed
  BY DEF Init, Filed, Idle
<1>5. Sighted
  BY DEF Init, Sighted, NoPhotoLostFromSight, InSticker, Idle
<1>6. QED
  BY <1>1, <1>2, <1>3, <1>4, <1>5 DEF StationInv

-----------------------------------------------------------------------------
\* Nothing the invariant speaks of changes.
Quiet ==
    UNCHANGED <<place, stays, seen, listing, events, handing, queue, current, worker, folders, log,
                overlooked, faults>> /\ drives' \subseteq Drives

\* What leaves the photos alone keeps the invariant ...
LEMMA QuietPreserves ==
    ASSUME StationInv, Quiet
    PROVE  StationInv'
BY DEF StationInv, Quiet, TypeOK, WorkerInStep, OutcomeOwed, Filed, FolderOf, Sighted,
       NoPhotoLostFromSight, InSticker, Handled, Waiting, HandedTo

\* ... and so do these steps.
LEMMA QuietSteps ==
    ASSUME StationInv, Answer \/ Plug \/ Monitor \/ UNCHANGED vars
    PROVE  Quiet
BY DEF StationInv, Quiet, TypeOK, Answer, Plug, Monitor, vars, client, others, noticing, usb, shown

\* The worker goes on with a job whose photo it holds on to, short of an end.
GoesOn ==
    /\ UNCHANGED others
    /\ worker' \in [at : Steps, photo : Photos \cup {None}, status : Outcomes]
    /\ worker.at \in Steps \ {"get", "move", "moving", "moved", "end"}
    /\ worker'.at \in Busy \cup {"look"} /\ worker'.at \notin {"move", "moving"}
    /\ worker'.photo = worker.photo /\ current' = worker.photo
    /\ worker'.at # "look" => place[worker.photo] = "sticker"
    /\ ~Done(worker'.status) \/ worker'.at # "log"

\* The worker goes on with a photo in hand: the invariant survives.
LEMMA GoesOnPreserves ==
    ASSUME StationInv, GoesOn
    PROVE  StationInv'
<1>1. TypeOK'
  BY DEF StationInv, GoesOn, TypeOK, others, noticing, usb
<1>2. WorkerInStep'
  BY DEF StationInv, GoesOn, TypeOK, WorkerInStep, others, noticing, usb, Busy, Steps
<1>3. OutcomeOwed'
  BY DEF StationInv, GoesOn, OutcomeOwed, others, noticing, usb, Steps
<1>4. Filed'
  BY DEF StationInv, GoesOn, Filed, FolderOf, others, noticing, usb
<1>5. Sighted'
  BY DEF StationInv, GoesOn, Sighted, NoPhotoLostFromSight, InSticker, Handled, Waiting, HandedTo,
         others, noticing, usb, Busy
<1>6. QED
  BY <1>1, <1>2, <1>3, <1>4, <1>5 DEF StationInv

\* Begin, the reading of the image, the dialog and the wait for a drive.
LEMMA GoingOn ==
    ASSUME StationInv,
           Begin \/ (Look /\ place[worker.photo] = "sticker") \/ Ask \/ Answered \/ WaitForUsb
    PROVE  GoesOn
<1>1. TypeOK /\ WorkerInStep
  BY DEF StationInv
<1>2. CASE Begin
  BY <1>1, <1>2, WorkerMoves DEF GoesOn, Begin, WorkerInStep, Steps, Busy
<1>3. CASE Look /\ place[worker.photo] = "sticker"
  BY <1>1, <1>3, WorkerMoves DEF GoesOn, Look, WorkerInStep, Steps, Busy, Outcomes, Done
<1>4. CASE Ask
  BY <1>1, <1>4, WorkerMoves DEF GoesOn, Ask, WorkerInStep, Steps, Busy
<1>5. CASE Answered
  BY <1>1, <1>5, WorkerMoves DEF GoesOn, Answered, WorkerInStep, Steps, Busy, Outcomes, Done
<1>6. CASE WaitForUsb
  BY <1>1, <1>6, WorkerMoves DEF GoesOn, WaitForUsb, WorkerInStep, Steps, Busy, Outcomes, Done
<1>7. QED
  BY <1>2, <1>3, <1>4, <1>5, <1>6

\* A job that ends without its photo, or that gives it up for want of a drive.
LEMMA EndPreserves ==
    ASSUME StationInv, (Look /\ place[worker.photo] # "sticker") \/ Drop
    PROVE  StationInv'
<1>1. TypeOK /\ WorkerInStep
  BY DEF StationInv
<1>2. /\ worker' \in [at : Steps, photo : Photos \cup {None}, status : Outcomes]
      /\ worker'.at = "end" /\ worker'.photo = worker.photo /\ worker'.status = ""
      /\ worker.at \in {"look", "folder"} /\ worker.photo \in Photos
      /\ current' = current
      /\ UNCHANGED <<place, stays, noticing, queue, usb, folders, log, faults>>
      /\ \/ overlooked' = overlooked /\ place[worker.photo] # "sticker"
         \/ overlooked' = overlooked \cup {worker.photo}
  BY <1>1, WorkerMoves DEF Look, Drop, WorkerInStep, others, shown
<1>3. TypeOK'
  BY <1>1, <1>2 DEF TypeOK, noticing, usb
<1>4. WorkerInStep'
  BY <1>1, <1>2 DEF WorkerInStep, Busy, noticing, usb
<1>5. OutcomeOwed'
  BY <1>2 DEF StationInv, OutcomeOwed
<1>6. Filed'
  BY <1>2 DEF StationInv, Filed, FolderOf
<1>7. Sighted'
  BY <1>2 DEF StationInv, Sighted, NoPhotoLostFromSight, InSticker, Handled, Waiting, HandedTo,
         noticing, usb
<1>8. QED
  BY <1>3, <1>4, <1>5, <1>6, <1>7 DEF StationInv

-----------------------------------------------------------------------------
\* A job is taken from the queue.
LEMMA TakePreserves ==
    ASSUME StationInv, Take
    PROVE  StationInv'
<1>1. TypeOK /\ WorkerInStep
  BY DEF StationInv
<1>2. /\ Head(queue) \in Photos /\ Tail(queue) \in Seq(Photos)
      /\ ToSet(queue) = ToSet(Tail(queue)) \cup {Head(queue)}
  BY <1>1, QueueShrinks DEF TypeOK, Take
<1>3. /\ worker' \in [at : Steps, photo : Photos \cup {None}, status : Outcomes]
      /\ worker'.at = "taken" /\ worker'.photo = Head(queue)
  BY <1>2 DEF Take, Idle, Steps, Outcomes
<1>4. /\ worker.at = "get" /\ worker.photo \notin Photos /\ queue' = Tail(queue) /\ current' = current
      /\ UNCHANGED <<place, stays, noticing, usb, folders, log, overlooked, faults>>
  BY <1>1 DEF WorkerInStep, Take
<1>5. TypeOK'
  BY <1>1, <1>2, <1>3, <1>4 DEF TypeOK, noticing, usb
<1>6. WorkerInStep'
  BY <1>1, <1>2, <1>3, <1>4 DEF WorkerInStep, Busy
<1>7. OutcomeOwed'
  BY <1>3, <1>4 DEF StationInv, OutcomeOwed
<1>8. Filed'
  BY <1>3, <1>4 DEF StationInv, Filed, FolderOf
<1>9. Sighted'
  BY <1>2, <1>3, <1>4 DEF StationInv, Sighted, NoPhotoLostFromSight, InSticker, Handled, noticing
<1>10. QED
  BY <1>5, <1>6, <1>7, <1>8, <1>9 DEF StationInv

\* The folder is made, or was there, or the drive refuses.
LEMMA CreateFolderPreserves ==
    ASSUME StationInv, CreateFolder
    PROVE  StationInv'
<1>1. TypeOK /\ WorkerInStep
  BY DEF StationInv
<1>2. worker.at = "folder" /\ worker.photo \in Photos /\ place[worker.photo] = "sticker"
  BY <1>1 DEF WorkerInStep, CreateFolder, Busy
<1>3. /\ worker' \in [at : Steps, photo : Photos \cup {None}, status : Outcomes]
      /\ worker'.at = "log" /\ worker'.photo = worker.photo
  BY <1>1, WorkerMoves DEF CreateFolder, Outcomes
<1>4. /\ folders \subseteq folders' /\ folders' \subseteq Drives \X Labels
      /\ Done(worker'.status) => FolderOf(worker.photo)'
  <2>1. CASE usbPath \in drives /\ folders' = folders \cup {<<usbPath, Label[worker.photo]>>}
             /\ Fails(IF <<usbPath, Label[worker.photo]>> \in folders THEN "duplicate" ELSE "success")
    <3>1. Label[worker.photo] \in Labels /\ usbPath \in Drives
      BY <2>1, <1>1, <1>2, StationAssumption DEF TypeOK
    <3>2. <<usbPath, Label[worker.photo]>> \in Drives \X Labels
      BY <3>1
    <3>3. <<usbPath, Label[worker.photo]>> \in folders'
      BY <2>1
    <3>4. \E d \in Drives : <<d, Label[worker.photo]>> \in folders'
      BY <3>1, <3>3
    <3>5. FolderOf(worker.photo)'
      BY <3>4, <1>3 DEF FolderOf
    <3>6. folders \subseteq folders' /\ folders' \subseteq Drives \X Labels
      BY <2>1, <3>2, <1>1 DEF TypeOK
    <3>7. QED
      BY <3>5, <3>6
  <2>2. CASE Fails("error") /\ UNCHANGED folders
    BY <2>2, <1>1, WorkerMoves DEF TypeOK, Outcomes, Done
  <2>3. QED
    BY <2>1, <2>2 DEF CreateFolder
<1>5. UNCHANGED <<place, stays, noticing, queue, current, usb, log, overlooked, faults>>
  BY DEF CreateFolder
<1>6. TypeOK'
  BY <1>1, <1>3, <1>4, <1>5 DEF TypeOK, noticing, usb
<1>7. WorkerInStep'
  BY <1>1, <1>2, <1>3, <1>5 DEF WorkerInStep, Busy
<1>8. OutcomeOwed'
  BY <1>2, <1>3, <1>5 DEF StationInv, OutcomeOwed
<1>9. Filed'
  BY <1>3, <1>4, <1>5 DEF StationInv, Filed, FolderOf
<1>10. Sighted'
  BY <1>2, <1>3, <1>5 DEF StationInv, Sighted, NoPhotoLostFromSight, InSticker, Handled, noticing
<1>11. QED
  BY <1>6, <1>7, <1>8, <1>9, <1>10 DEF StationInv

\* The outcome is logged while the photo is still in the folder.
LEMMA LogJobPreserves ==
    ASSUME StationInv, LogJob
    PROVE  StationInv'
<1>1. TypeOK /\ WorkerInStep
  BY DEF StationInv
<1> DEFINE p == worker.photo
           entry == Append(log[p], worker.status)
<1>2. worker.at = "log" /\ p \in Photos /\ place[p] = "sticker"
  BY <1>1 DEF WorkerInStep, LogJob, Busy
<1>3. /\ worker' \in [at : Steps, photo : Photos \cup {None}, status : Outcomes]
      /\ worker'.at = "move" /\ worker'.photo = p /\ worker'.status = worker.status
  BY <1>1, WorkerMoves DEF LogJob, Steps
<1>4. /\ UNCHANGED <<place, stays, noticing, queue, current, usb, folders, overlooked, faults>>
      /\ log' = [log EXCEPT ![p] = entry]
  BY DEF LogJob
<1>5. entry \in Seq(Outcomes) /\ Len(entry) = Len(log[p]) + 1
  BY <1>1, <1>2, LogGrows DEF TypeOK
<1>6. /\ log' \in [Photos -> Seq(Outcomes)]
      /\ Len(log'[p]) = Len(log[p]) + 1
      /\ \A x \in Photos \ {p} : log'[x] = log[x]
      /\ \A x \in Photos : Len(log[x]) \in Nat
  BY <1>1, <1>2, <1>4, <1>5 DEF TypeOK
<1>7. TypeOK'
  BY <1>1, <1>3, <1>4, <1>6 DEF TypeOK, noticing, usb
<1>8. WorkerInStep'
  BY <1>1, <1>2, <1>3, <1>4 DEF WorkerInStep, Busy
<1>9. OutcomeOwed'
  <2>1. Len(log[p]) < stays[p] + faults
    BY <1>2 DEF StationInv, OutcomeOwed
  <2> SUFFICES ASSUME NEW x \in Photos
               PROVE  /\ Len(log'[x]) <= stays[x] + faults
                      /\ place[x] = "sticker" /\ x # p => Len(log'[x]) < stays[x] + faults
    BY <1>3, <1>4 DEF OutcomeOwed
  <2>2. CASE x = p
    BY <2>1, <2>2, <1>1, <1>2, <1>6 DEF TypeOK
  <2>3. CASE x # p
    BY <2>3, <1>6 DEF StationInv, OutcomeOwed
  <2>4. QED
    BY <2>2, <2>3
<1>10. Filed'
  BY <1>2, <1>3, <1>4 DEF StationInv, Filed, FolderOf
<1>11. Sighted'
  BY <1>2, <1>3, <1>4 DEF StationInv, Sighted, NoPhotoLostFromSight, InSticker, Handled, noticing
<1>12. QED
  BY <1>7, <1>8, <1>9, <1>10, <1>11 DEF StationInv

\* The photo is forgotten before it is moved; only the worker takes photos out
\* of the folder, so it is still there.
LEMMA ForgetPreserves ==
    ASSUME StationInv, Forget
    PROVE  StationInv'
<1>1. TypeOK /\ WorkerInStep
  BY DEF StationInv
<1> DEFINE p == worker.photo
<1>2. worker.at = "move" /\ p \in Photos /\ place[p] = "sticker"
  BY <1>1 DEF WorkerInStep, Forget, Busy
<1>3. /\ worker' \in [at : Steps, photo : Photos \cup {None}, status : Outcomes]
      /\ worker'.at = "moving" /\ worker'.photo = p /\ worker'.status = worker.status
  BY <1>1, <1>2, WorkerMoves DEF Forget, Steps
<1>4. /\ UNCHANGED <<place, stays, listing, events, handing, queue, current, usb, folders, log, faults>>
      /\ seen' = seen \ {p} /\ overlooked' = overlooked \ {p}
  BY <1>2 DEF Forget
<1>5. TypeOK'
  BY <1>1, <1>3, <1>4 DEF TypeOK, usb
<1>6. WorkerInStep'
  BY <1>1, <1>2, <1>3, <1>4 DEF WorkerInStep, Busy
<1>7. OutcomeOwed'
  BY <1>2, <1>3, <1>4 DEF StationInv, OutcomeOwed
<1>8. Filed'
  BY <1>2, <1>3, <1>4 DEF StationInv, Filed, FolderOf
<1>9. Sighted'
  BY <1>2, <1>3, <1>4 DEF StationInv, Sighted, NoPhotoLostFromSight, InSticker, Handled
<1>10. QED
  BY <1>5, <1>6, <1>7, <1>8, <1>9 DEF StationInv

\* The photo is moved, or stays where it is after five attempts.
LEMMA MovePreserves ==
    ASSUME StationInv, MovePhoto \/ MoveFails
    PROVE  StationInv'
<1>1. TypeOK /\ WorkerInStep
  BY DEF StationInv
<1> DEFINE p == worker.photo
           there == IF Done(worker.status) THEN "processed" ELSE "failed"
<1>2. worker.at = "moving" /\ p \in Photos /\ place[p] = "sticker"
  BY <1>1 DEF WorkerInStep, MovePhoto, MoveFails, Busy
<1>3. /\ worker' \in [at : Steps, photo : Photos \cup {None}, status : Outcomes]
      /\ worker'.at \in {"moved", "end"} /\ worker'.photo = p
  BY <1>1, WorkerMoves DEF MovePhoto, MoveFails, Steps
<1>4. /\ UNCHANGED <<stays, seen, listing, handing, queue, current, usb, folders, log, overlooked>>
      /\ \/ place' = [place EXCEPT ![p] = there] /\ faults' = faults
         \/ place' = place /\ faults' = faults + 1
  BY DEF MovePhoto, MoveFails, noticing
<1>5. events' \in Seq({"created", "deleted"} \X Photos)
  <2>1. events' = events \/ events' = Append(events, <<"deleted", p>>)
    BY DEF MovePhoto, MoveFails, Reports, noticing
  <2>2. <<"deleted", p>> \in {"created", "deleted"} \X Photos
    BY <1>2
  <2>3. QED
    <3> DEFINE Notice == {"created", "deleted"} \X Photos
    <3>1. events \in Seq(Notice) /\ <<"deleted", p>> \in Notice
      BY <2>2, <1>1 DEF TypeOK
    <3> HIDE DEF Notice
    <3>2. Append(events, <<"deleted", p>>) \in Seq(Notice)
      BY <3>1
    <3>3. events' \in Seq(Notice)
      BY <2>1, <3>1, <3>2
    <3>4. QED
      BY <3>3 DEF Notice
<1>6. /\ place' \in [Photos -> {"camera", "sticker", "processed", "failed"}]
      /\ \A x \in Photos \ {p} : place'[x] = place[x]
      /\ place' # place => place'[p] = there /\ there # "sticker"
      /\ faults' \in Nat /\ faults <= faults'
      /\ place' = place => faults' = faults + 1
  <2>1. CASE place' = [place EXCEPT ![p] = there] /\ faults' = faults
    <3>1. there \in {"processed", "failed"}
      OBVIOUS
    <3> HIDE DEF there
    <3>2. place'[p] = there /\ place' # place
      BY <2>1, <3>1, <1>1, <1>2 DEF TypeOK
    <3>3. QED
      BY <2>1, <3>1, <3>2, <1>1, <1>2 DEF TypeOK
  <2>2. CASE place' = place /\ faults' = faults + 1
    BY <2>2, <1>1 DEF TypeOK
  <2>3. QED
    BY <2>1, <2>2, <1>4
<1>7. TypeOK'
  BY <1>1, <1>3, <1>4, <1>5, <1>6 DEF TypeOK, usb
<1>8. WorkerInStep'
  BY <1>1, <1>2, <1>3, <1>4 DEF WorkerInStep, Busy
<1>9. OutcomeOwed'
  <2> SUFFICES ASSUME NEW x \in Photos
               PROVE  /\ Len(log[x]) <= stays[x] + faults'
                      /\ place'[x] = "sticker" => Len(log[x]) < stays[x] + faults'
    BY <1>3, <1>4 DEF OutcomeOwed
  <2>1. /\ Len(log[x]) \in Nat /\ stays[x] \in Nat /\ faults \in Nat
        /\ Len(log[x]) <= stays[x] + faults
        /\ place[x] = "sticker" /\ x # p => Len(log[x]) < stays[x] + faults
    BY <1>1 DEF TypeOK, StationInv, OutcomeOwed
  <2>2. CASE place' = place
    BY <2>1, <2>2, <1>6
  <2>3. CASE place' # place
    BY <2>1, <2>3, <1>6
  <2>4. QED
    BY <2>2, <2>3
<1>10. Filed'
  BY <1>2, <1>3, <1>4, <1>6 DEF StationInv, Filed, FolderOf
<1>11. Sighted'
  <2>1. p \in seen => p \in overlooked
    BY <1>2 DEF StationInv, Sighted
  <2>2. \A x \in Photos : place'[x] = "sticker" => place[x] = "sticker"
    BY <1>2, <1>6
  <2>3. \A x \in Photos : place'[x] # "sticker" => x = p \/ place[x] # "sticker"
    BY <1>6
  <2>4. \A x \in Photos : Handled(x) => Handled(x)'
    BY <1>3, <1>4 DEF Handled
  <2>5. NoPhotoLostFromSight'
    BY <2>2, <2>4, <1>4 DEF StationInv, Sighted, NoPhotoLostFromSight, InSticker
  <2>6. \A x \in seen' : place'[x] # "sticker" => x \in overlooked'
    BY <2>1, <2>3, <1>1, <1>4 DEF StationInv, Sighted, TypeOK
  <2>7. QED
    BY <2>1, <2>5, <2>6, <1>3, <1>4 DEF Sighted
<1>12. QED
  BY <1>7, <1>8, <1>9, <1>10, <1>11 DEF StationInv

\* The job's path leaves the folder.
LEMMA RenamePreserves ==
    ASSUME StationInv, Rename
    PROVE  StationInv'
<1>1. TypeOK /\ WorkerInStep
  BY DEF StationInv
<1>2. /\ worker.at = "moved" /\ worker.photo \in Photos /\ UNCHANGED others /\ current' = None
      /\ worker' \in [at : Steps, photo : Photos \cup {None}, status : Outcomes]
      /\ worker'.at = "end" /\ worker'.photo = worker.photo
  BY <1>1, WorkerMoves DEF WorkerInStep, Rename
<1>3. TypeOK'
  BY <1>1, <1>2 DEF TypeOK, others, noticing, usb
<1>4. WorkerInStep'
  BY <1>2 DEF WorkerInStep, Busy
<1>5. OutcomeOwed'
  BY <1>2 DEF StationInv, OutcomeOwed, others
<1>6. Filed'
  BY <1>2 DEF StationInv, Filed, FolderOf, others
<1>7. Sighted'
  BY <1>2 DEF StationInv, Sighted, NoPhotoLostFromSight, InSticker, Handled, Waiting, HandedTo,
         others, noticing
<1>8. QED
  BY <1>3, <1>4, <1>5, <1>6, <1>7 DEF StationInv

\* The job is over.
LEMMA FinishPreserves ==
    ASSUME StationInv, Finish
    PROVE  StationInv'
<1>1. TypeOK /\ WorkerInStep
  BY DEF StationInv
<1>2. worker.at = "end" /\ worker.photo \in Photos /\ UNCHANGED others /\ current' = None
  BY <1>1 DEF WorkerInStep, Finish
<1>3. /\ worker' \in [at : Steps, photo : Photos \cup {None}, status : Outcomes]
      /\ worker'.at = "get" /\ worker'.photo = None /\ None \notin Photos
  BY StationAssumption DEF Finish, Idle, Steps, Outcomes
<1>4. TypeOK'
  BY <1>1, <1>2, <1>3 DEF TypeOK, others, noticing, usb
<1>5. WorkerInStep'
  BY <1>2, <1>3 DEF WorkerInStep, Busy
<1>6. OutcomeOwed'
  BY <1>2, <1>3 DEF StationInv, OutcomeOwed, others
<1>7. Filed'
  BY <1>2, <1>3 DEF StationInv, Filed, FolderOf, others
<1>8. Sighted'
  BY <1>2, <1>3 DEF StationInv, Sighted, NoPhotoLostFromSight, InSticker, Handled, Waiting, HandedTo,
         others, noticing
<1>9. QED
  BY <1>4, <1>5, <1>6, <1>7, <1>8 DEF StationInv

-----------------------------------------------------------------------------
\* What the observer or the poller has in hand.
Hands == {<<>>} \cup (Photos \X {"seen", "checked"})

\* An event more in the observer's queue, or not.
LEMMA EventsTyped ==
    ASSUME TypeOK, NEW p \in Photos, Reports("created", p)
    PROVE  events' \in Seq({"created", "deleted"} \X Photos)
<1> DEFINE Notice == {"created", "deleted"} \X Photos
<1>1. events \in Seq(Notice) /\ <<"created", p>> \in Notice
  BY DEF TypeOK
<1> HIDE DEF Notice
<1>2. Append(events, <<"created", p>>) \in Seq(Notice)
  BY <1>1
<1>3. events' \in Seq(Notice)
  BY <1>1, <1>2 DEF Reports
<1>4. QED
  BY <1>3 DEF Notice

\* A photo is put into the folder, for the first time or again.
LEMMA StayPreserves ==
    ASSUME StationInv, NEW p \in Photos, DropPhoto(p) \/ RetryFailed(p)
    PROVE  StationInv'
<1>1. TypeOK /\ WorkerInStep
  BY DEF StationInv
<1>2. /\ place[p] # "sticker" /\ (worker.at \in Busy => worker.photo # p)
      /\ stays' = [stays EXCEPT ![p] = @ + 1] /\ place' = [place EXCEPT ![p] = "sticker"]
      /\ UNCHANGED <<listing, handing, queue, current, worker, drives, folders, log, faults>>
      /\ \/ UNCHANGED <<seen, overlooked>>
         \/ seen' = seen \ {p} /\ overlooked' = overlooked \ {p}
  BY <1>1 DEF DropPhoto, RetryFailed, Stays, usb, WorkerInStep
<1>3. events' \in Seq({"created", "deleted"} \X Photos)
  BY <1>1, EventsTyped DEF DropPhoto, RetryFailed
<1>4. /\ place' \in [Photos -> {"camera", "sticker", "processed", "failed"}]
      /\ place'[p] = "sticker" /\ \A x \in Photos \ {p} : place'[x] = place[x]
      /\ stays' \in [Photos -> Nat] /\ stays'[p] = stays[p] + 1
      /\ \A x \in Photos \ {p} : stays'[x] = stays[x]
  BY <1>1, <1>2 DEF TypeOK
<1>5. TypeOK'
  BY <1>1, <1>2, <1>3, <1>4 DEF TypeOK
<1>6. WorkerInStep'
  BY <1>1, <1>2, <1>4 DEF WorkerInStep, Busy
<1>7. OutcomeOwed'
  <2> SUFFICES ASSUME NEW x \in Photos
               PROVE  /\ Len(log[x]) <= stays'[x] + faults
                      /\ (place'[x] = "sticker" /\ ~(worker.photo = x /\ worker.at \in {"move", "moving"}))
                            => Len(log[x]) < stays'[x] + faults
    BY <1>2 DEF OutcomeOwed
  <2>1. /\ Len(log[x]) \in Nat /\ stays[x] \in Nat /\ faults \in Nat
        /\ Len(log[x]) <= stays[x] + faults
    BY <1>1 DEF TypeOK, StationInv, OutcomeOwed
  <2>2. CASE x = p
    BY <2>1, <2>2, <1>4
  <2>3. CASE x # p
    BY <2>3, <1>4 DEF StationInv, OutcomeOwed
  <2>4. QED
    BY <2>2, <2>3
<1>8. Filed'
  BY <1>2, <1>4 DEF StationInv, Filed, FolderOf
<1>9. Sighted'
  <2>1. p \in seen => p \in overlooked
    BY <1>2 DEF StationInv, Sighted
  <2>2. \A x \in Photos : x \in seen' => x \in seen /\ (x \in overlooked => x \in overlooked')
    BY <1>2
  <2>3. \A x \in Photos : Handled(x) => Handled(x)'
    BY <1>2 DEF Handled
  <2>4. NoPhotoLostFromSight'
    BY <2>1, <2>2, <2>3, <1>4 DEF StationInv, Sighted, NoPhotoLostFromSight, InSticker
  <2>5. \A x \in seen' : place'[x] # "sticker" => x \in overlooked'
    BY <2>2, <1>1, <1>2, <1>4 DEF StationInv, Sighted, TypeOK
  <2>6. worker'.at = "moving" /\ worker'.photo \in seen' => worker'.photo \in overlooked'
    BY <2>2, <1>1, <1>2 DEF StationInv, Sighted, WorkerInStep
  <2>7. worker'.at \in {"moved", "end"} /\ worker'.photo \in seen'
           => worker'.photo \in overlooked' \/ Waiting(worker.photo)'
    BY <2>2, <1>1, <1>2 DEF StationInv, Sighted, WorkerInStep, Waiting, HandedTo
  <2>8. QED
    BY <2>4, <2>5, <2>6, <2>7 DEF Sighted
<1>10. QED
  BY <1>5, <1>6, <1>7, <1>8, <1>9 DEF StationInv

\* A thread with empty hands takes note of a photo it has not seen.
LEMMA DispatchSights ==
    ASSUME StationInv, NEW t \in Threads, NEW p \in Photos, handing[t] = <<>>, Dispatch(t, p),
           UNCHANGED <<place, queue, current, worker>>
    PROVE  /\ seen' \subseteq Photos /\ overlooked' \subseteq Photos /\ handing' \in [Threads -> Hands]
           /\ Sighted'
<1>1. TypeOK /\ WorkerInStep
  BY DEF StationInv
<1>2. CASE p \in seen
  BY <1>1, <1>2 DEF Dispatch, TypeOK, Hands, StationInv, Sighted, NoPhotoLostFromSight, InSticker,
         Handled, Waiting, HandedTo
<1>3. CASE p \notin seen
  <2>1. /\ seen' = seen \cup {p} /\ handing' = [handing EXCEPT ![t] = <<p, "seen">>]
        /\ overlooked' = IF place[p] = "sticker" /\ ~(worker.at = "moving" /\ worker.photo = p)
                            THEN overlooked ELSE overlooked \cup {p}
    BY <1>3 DEF Dispatch
  <2>2. /\ <<p, "seen">> # <<>> /\ <<p, "seen">>[1] = p /\ <<p, "seen">> \in Hands
    BY DEF Hands
  <2>3. /\ handing' \in [Threads -> Hands] /\ handing'[t] = <<p, "seen">>
        /\ \A u \in Threads \ {t} : handing'[u] = handing[u]
    BY <1>1, <2>1, <2>2 DEF TypeOK, Hands
  <2>4. HandedTo(t, p)' /\ \A u \in Threads, x \in Photos : HandedTo(u, x) => HandedTo(u, x)'
    BY <2>2, <2>3 DEF HandedTo
  <2>5. seen' \subseteq Photos /\ overlooked' \subseteq Photos
    BY <2>1, <1>1 DEF TypeOK
  <2>6. /\ \A x \in Photos : Handled(x) => Handled(x)'
        /\ Handled(p)'
    BY <2>4 DEF Handled, HandedTo
  <2>7. /\ \A x \in Photos : Waiting(x) => Waiting(x)'
        /\ Waiting(p)'
    BY <2>4 DEF Waiting
  <2>8. NoPhotoLostFromSight'
    BY <2>1, <2>6 DEF StationInv, Sighted, NoPhotoLostFromSight, InSticker
  <2>9. \A x \in seen' : place'[x] # "sticker" => x \in overlooked'
    BY <2>1 DEF StationInv, Sighted
  <2>10. worker'.at = "moving" /\ worker'.photo \in seen' => worker'.photo \in overlooked'
    BY <2>1 DEF StationInv, Sighted
  <2>11. worker'.at \in {"moved", "end"} /\ worker'.photo \in seen'
           => worker'.photo \in overlooked' \/ Waiting(worker.photo)'
    BY <2>1, <2>7, <1>1 DEF StationInv, Sighted, WorkerInStep
  <2>12. QED
    BY <2>3, <2>5, <2>8, <2>9, <2>10, <2>11 DEF Sighted
<1>4. QED
  BY <1>2, <1>3

\* Steps of the noticing threads leave outcomes, folders and the worker alone.
Notices == UNCHANGED <<place, stays, current, worker, drives, folders, log, faults>>

\* It survives a photo that is noticed, in the folder or by an event ...
LEMMA NoticesPreserves ==
    ASSUME StationInv, Notices, seen' \subseteq Photos, listing' \subseteq Photos,
           overlooked' \subseteq Photos, events' \in Seq({"created", "deleted"} \X Photos),
           handing' \in [Threads -> Hands], queue' \in Seq(Photos), Sighted'
    PROVE  StationInv'
<1>1. TypeOK'
  BY DEF StationInv, TypeOK, Notices, Hands
<1>2. WorkerInStep'
  BY DEF StationInv, WorkerInStep, Notices
<1>3. OutcomeOwed'
  BY DEF StationInv, OutcomeOwed, Notices
<1>4. Filed'
  BY DEF StationInv, Filed, FolderOf, Notices
<1>5. QED
  BY <1>1, <1>2, <1>3, <1>4 DEF StationInv

\* The observer handles one event.
LEMMA ObservePreserves ==
    ASSUME StationInv, Observe
    PROVE  StationInv'
<1> DEFINE Notice == {"created", "deleted"} \X Photos
           p == Head(events)[2]
<1>1. TypeOK
  BY DEF StationInv
<1>2. events \in Seq(Notice) /\ events # <<>> /\ events' = Tail(events)
  BY <1>1 DEF TypeOK, Observe
<1>3. Head(events) \in Notice /\ Tail(events) \in Seq(Notice)
  <2> HIDE DEF Notice
  <2>1. QED
    BY <1>2, HeadTailProperties
<1>4. p \in Photos
  BY <1>3
<1>5. Notices /\ UNCHANGED <<listing, queue>> /\ handing["observer"] = <<>> /\ "observer" \in Threads
  BY DEF Observe, Notices, usb, Threads
<1>6. CASE Dispatch("observer", p)
  <2>1. /\ seen' \subseteq Photos /\ overlooked' \subseteq Photos /\ handing' \in [Threads -> Hands]
        /\ Sighted'
    BY <1>4, <1>5, <1>6, DispatchSights DEF Notices
  <2>2. QED
    BY <1>1, <1>2, <1>3, <1>5, <2>1, NoticesPreserves DEF TypeOK
<1>7. CASE seen' = seen \ {p} /\ overlooked' = overlooked \ {p} /\ UNCHANGED handing
  <2>1. /\ seen' \subseteq Photos /\ overlooked' \subseteq Photos /\ handing' \in [Threads -> Hands]
    BY <1>1, <1>7 DEF TypeOK, Hands
  <2>2. Sighted'
    BY <1>5, <1>7 DEF StationInv, Sighted, NoPhotoLostFromSight, InSticker, Handled, Waiting, HandedTo,
           Notices
  <2>3. QED
    BY <1>1, <1>2, <1>3, <1>5, <2>1, <2>2, NoticesPreserves DEF TypeOK
<1>8. QED
  BY <1>6, <1>7 DEF Observe

\* The poller lists the folder and takes note of what it has not seen.
LEMMA PollPreserves ==
    ASSUME StationInv, List \/ Poll
    PROVE  StationInv'
<1>1. TypeOK /\ "poller" \in Threads
  BY DEF StationInv, Threads
<1>2. CASE List
  <2>1. Notices /\ UNCHANGED <<seen, events, handing, queue, overlooked>> /\ listing' \subseteq Photos
    BY <1>2 DEF List, Notices, usb, InSticker
  <2>2. Sighted'
    BY <2>1 DEF StationInv, Sighted, NoPhotoLostFromSight, InSticker, Handled, Waiting, HandedTo, Notices
  <2>3. QED
    BY <1>1, <2>1, <2>2, NoticesPreserves DEF TypeOK, Hands
<1>3. CASE Poll
  <2>1. PICK p \in listing : listing' = listing \ {p} /\ Dispatch("poller", p)
    BY <1>3 DEF Poll
  <2>2. Notices /\ UNCHANGED <<events, queue>> /\ handing["poller"] = <<>> /\ p \in Photos
        /\ listing' \subseteq Photos
    BY <1>1, <1>3, <2>1 DEF Poll, Notices, usb, TypeOK
  <2>3. /\ seen' \subseteq Photos /\ overlooked' \subseteq Photos /\ handing' \in [Threads -> Hands]
        /\ Sighted'
    BY <1>1, <2>1, <2>2, DispatchSights DEF Notices
  <2>4. QED
    BY <1>1, <2>2, <2>3, NoticesPreserves DEF TypeOK
<1>4. QED
  BY <1>2, <1>3

\* enqueue: the photo is found to be in hand, or it will be queued.
LEMMA CheckDuplicatePreserves ==
    ASSUME StationInv, NEW t \in Threads, CheckDuplicate(t)
    PROVE  StationInv'
<1>1. TypeOK /\ WorkerInStep
  BY DEF StationInv
<1> DEFINE p == handing[t][1]
<1>2. handing[t] \in Photos \X {"seen", "checked"}
  BY <1>1 DEF TypeOK, CheckDuplicate
<1>3. p \in Photos /\ HandedTo(t, p)
  BY <1>2 DEF HandedTo, CheckDuplicate
<1>4. Notices /\ UNCHANGED <<seen, listing, events, queue>>
  BY DEF CheckDuplicate, Notices, usb
<1>5. CASE p = current \/ p \in ToSet(queue)
  <2>1. /\ handing' = [handing EXCEPT ![t] = <<>>]
        /\ overlooked' = IF p = current /\ worker.at \in {"moving", "moved", "end"}
                            THEN overlooked \cup {p} ELSE overlooked
    BY <1>5 DEF CheckDuplicate
  <2>2. /\ handing' \in [Threads -> Hands] /\ handing'[t] = <<>>
        /\ \A u \in Threads \ {t} : handing'[u] = handing[u]
        /\ overlooked' \subseteq Photos
    BY <1>1, <1>3, <2>1 DEF TypeOK, Hands
  <2>3. /\ p \in ToSet(queue) \/ (worker.photo = p /\ worker.at \notin {"get", "taken"})
        /\ worker.photo = p /\ worker.at \in {"moving", "moved", "end"} => p \in overlooked' \/ p \in ToSet(queue)
    BY <1>1, <1>3, <1>5, <2>1, StationAssumption DEF WorkerInStep
  <2>4. \A x \in Photos \ {p} : \A u \in Threads : HandedTo(u, x) => HandedTo(u, x)'
    BY <2>2 DEF HandedTo
  <2>5. \A x \in Photos : Handled(x) => Handled(x)'
    BY <2>3, <2>4, <1>4 DEF Handled, HandedTo, Notices
  <2>6. \A x \in Photos : Waiting(x) => Waiting(x)' \/ (x = p /\ p \notin ToSet(queue))
    BY <2>4, <1>4 DEF Waiting, Notices
  <2>7. NoPhotoLostFromSight'
    BY <2>1, <2>5, <1>4 DEF StationInv, Sighted, NoPhotoLostFromSight, InSticker, Notices
  <2>8. worker'.at \in {"moved", "end"} /\ worker'.photo \in seen'
           => worker'.photo \in overlooked' \/ Waiting(worker.photo)'
    BY <2>1, <2>3, <2>6, <1>1, <1>4 DEF StationInv, Sighted, Notices, WorkerInStep
  <2>9. Sighted'
    BY <2>1, <2>7, <2>8, <1>4 DEF StationInv, Sighted, Notices
  <2>10. QED
    BY <1>1, <1>4, <2>2, <2>9, NoticesPreserves DEF TypeOK
<1>6. CASE ~(p = current \/ p \in ToSet(queue))
  <2>1. handing' = [handing EXCEPT ![t] = <<p, "checked">>] /\ overlooked' = overlooked
    BY <1>6 DEF CheckDuplicate
  <2>2. <<p, "checked">> # <<>> /\ <<p, "checked">>[1] = p /\ <<p, "checked">> \in Hands
    BY <1>3 DEF Hands
  <2>3. /\ handing' \in [Threads -> Hands] /\ handing'[t] = <<p, "checked">>
        /\ \A u \in Threads \ {t} : handing'[u] = handing[u]
    BY <1>1, <2>1, <2>2 DEF TypeOK, Hands
  <2>4. \A x \in Photos, u \in Threads : HandedTo(u, x) => HandedTo(u, x)'
    BY <2>2, <2>3 DEF HandedTo
  <2>5. /\ \A x \in Photos : Handled(x) => Handled(x)'
        /\ \A x \in Photos : Waiting(x) => Waiting(x)'
    BY <2>4, <1>4 DEF Handled, HandedTo, Waiting, Notices
  <2>6. Sighted'
    BY <2>1, <2>5, <1>1, <1>4 DEF StationInv, Sighted, NoPhotoLostFromSight, InSticker, Notices, WorkerInStep
  <2>7. QED
    BY <1>1, <1>4, <2>1, <2>3, <2>6, NoticesPreserves DEF TypeOK
<1>7. QED
  BY <1>5, <1>6

\* ... and one that is queued.
LEMMA EnqueuePreserves ==
    ASSUME StationInv, NEW t \in Threads, Enqueue(t)
    PROVE  StationInv'
<1>1. TypeOK /\ WorkerInStep
  BY DEF StationInv
<1> DEFINE p == handing[t][1]
<1>2. handing[t] \in Photos \X {"seen", "checked"}
  BY <1>1 DEF TypeOK, Enqueue
<1>3. p \in Photos
  BY <1>2
<1>4. /\ Notices /\ UNCHANGED <<seen, listing, events, overlooked>>
      /\ queue' = Append(queue, p) /\ handing' = [handing EXCEPT ![t] = <<>>]
  BY DEF Enqueue, Notices, usb
<1>5. queue' \in Seq(Photos) /\ ToSet(queue') = ToSet(queue) \cup {p}
  BY <1>1, <1>3, <1>4, QueueGrows DEF TypeOK
<1>6. /\ handing' \in [Threads -> Hands] /\ handing'[t] = <<>>
      /\ \A u \in Threads \ {t} : handing'[u] = handing[u]
  BY <1>1, <1>4 DEF TypeOK, Hands
<1>7. \A x \in Photos \ {p} : \A u \in Threads : HandedTo(u, x) => HandedTo(u, x)'
  BY <1>6 DEF HandedTo
<1>8. /\ \A x \in Photos : Handled(x) => Handled(x)'
      /\ \A x \in Photos : Waiting(x) => Waiting(x)'
  BY <1>4, <1>5, <1>7 DEF Handled, HandedTo, Waiting, Notices
<1>9. Sighted'
  BY <1>1, <1>4, <1>8 DEF StationInv, Sighted, NoPhotoLostFromSight, InSticker, Notices, WorkerInStep
<1>10. QED
  BY <1>1, <1>4, <1>5, <1>6, <1>9, NoticesPreserves DEF TypeOK

-----------------------------------------------------------------------------
\* The application starts again with what is in the folder.
LEMMA RestartPreserves ==
    ASSUME StationInv, Restart
    PROVE  StationInv'
<1>1. TypeOK
  BY DEF StationInv
<1>2. /\ worker' \in [at : Steps, photo : Photos \cup {None}, status : Outcomes]
      /\ worker'.at = "get" /\ worker'.photo = None /\ None \notin Photos
      /\ current' = None /\ seen' = {} /\ listing' = {} /\ overlooked' = {} /\ events' = <<>>
      /\ handing' = [t \in Threads |-> <<>>] /\ faults' = faults + 1
      /\ UNCHANGED <<place, stays, drives, folders, log>>
  BY StationAssumption DEF Restart, Idle, Steps, Outcomes
<1>3. queue' \in Seq(Photos)
  <2>1. InSticker \subseteq Photos /\ IsFiniteSet(InSticker)
    BY StationAssumption, FS_Subset DEF InSticker
  <2>2. Cardinality(InSticker) \in Nat
    BY <2>1, FS_CardinalityType
  <2>3. queue' \in [1 .. Cardinality(InSticker) -> InSticker]
    BY DEF Restart, SetToSeqs
  <2>4. QED
    BY <2>1, <2>2, <2>3
<1>4. TypeOK'
  <2>1. <<>> \in Seq({"created", "deleted"} \X Photos)
    OBVIOUS
  <2>2. QED
    BY <1>1, <1>2, <1>3, <2>1 DEF TypeOK
<1>5. WorkerInStep'
  BY <1>2 DEF WorkerInStep, Busy
<1>6. OutcomeOwed'
  <2>1. \A p \in Photos : /\ Len(log[p]) \in Nat /\ stays[p] \in Nat /\ faults \in Nat
                          /\ Len(log[p]) <= stays[p] + faults
    BY <1>1 DEF TypeOK, StationInv, OutcomeOwed
  <2>2. QED
    BY <1>2, <2>1 DEF OutcomeOwed
<1>7. Filed'
  BY <1>2 DEF StationInv, Filed, FolderOf
<1>8. Sighted'
  BY <1>2 DEF Sighted, NoPhotoLostFromSight
<1>9. QED
  BY <1>4, <1>5, <1>6, <1>7, <1>8 DEF StationInv

\* No step breaks the invariant.
LEMMA StepPreserves == StationInv /\ [Next]_vars => StationInv'
<1> SUFFICES ASSUME StationInv, [Next]_vars PROVE StationInv'
  OBVIOUS
<1>1. CASE \E p \in Photos : DropPhoto(p) \/ RetryFailed(p)
  BY <1>1, StayPreserves
<1>2. CASE Observe \/ List \/ Poll
  BY <1>2, ObservePreserves, PollPreserves
<1>3. CASE \E t \in Threads : CheckDuplicate(t) \/ Enqueue(t)
  BY <1>3, CheckDuplicatePreserves, EnqueuePreserves
<1>4. CASE Worker
  <2>1. CASE Begin \/ (Look /\ place[worker.photo] = "sticker") \/ Ask \/ Answered \/ WaitForUsb
    BY <2>1, GoingOn, GoesOnPreserves
  <2>2. CASE (Look /\ place[worker.photo] # "sticker") \/ Drop
    BY <2>2, EndPreserves
  <2>3. CASE Take \/ CreateFolder \/ LogJob \/ Forget
    BY <2>3, TakePreserves, CreateFolderPreserves, LogJobPreserves, ForgetPreserves
  <2>4. CASE MovePhoto \/ MoveFails \/ Rename \/ Finish
    BY <2>4, MovePreserves, RenamePreserves, FinishPreserves
  <2>5. QED
    BY <1>4, <2>1, <2>2, <2>3, <2>4 DEF Worker
<1>5. CASE Answer \/ Plug \/ Monitor \/ UNCHANGED vars
  BY <1>5, QuietSteps, QuietPreserves
<1>6. CASE Restart
  BY <1>6, RestartPreserves
<1>7. QED
  BY <1>1, <1>2, <1>3, <1>4, <1>5, <1>6 DEF Next

-----------------------------------------------------------------------------
\* Photos, jobs, outcomes, folders and what was noticed agree after every step
\* of any thread (watch_service.py, queue_service.py).
THEOREM StationSafe == Spec => []StationInv
BY InvInit, StepPreserves, PTL DEF Spec

\* A photo gets one outcome for each time it is put into the folder, and one
\* more only for a failed move or a restart; it is filed as processed only when
\* the folder of its sticker was made (_process_job, _finalise).
THEOREM OutcomesFounded == Spec => []OutcomesSound
<1>1. StationInv => OutcomesSound
  BY DEF StationInv, OutcomeOwed, Filed, FolderOf, OutcomesSound, OneOutcomePerStay, ProcessedHasFolder
<1>2. QED
  BY <1>1, StationSafe, PTL

\* A photo in the folder is in hand or will be found by the next poll, but for
\* a job that raised and a notice that came while the photo was moved away
\* (_dispatch, enqueue, _move_image).
THEOREM PhotosInSight == Spec => []NoPhotoLostFromSight
<1>1. StationInv => NoPhotoLostFromSight
  BY DEF StationInv, Sighted
<1>2. QED
  BY <1>1, StationSafe, PTL

===================================================================================
