------------------------- MODULE OcrWorkflowProofs -------------------------
(***************************************************************************)
(* For any number of uploads and serials, any pass size and any number of  *)
(* failures: rows always point to a stored image, Completed rows to an     *)
(* asset, verdicts are final, and only a pass that breaks off strands a    *)
(* row.                                                                    *)
(***************************************************************************)
EXTENDS OcrWorkflow, TLAPS

\* Handler and worker never hold the same row: the handler has ended before
\* the worker can select it, and the worker touches no other row.
HandedOver ==
    \A r \in Records :
        /\ upload[r].step # "new" => r \in objects
        /\ upload[r].step = "complete" => upload[r].serial \in assets
        /\ upload[r].step # "over" =>
              ~Exists(r) /\ r \notin worker.tasks /\ r # worker.task

\* What the worker still has to do is Pending, what it is doing Processing,
\* unless the row has been cleared.
InHand ==
    /\ \A r \in worker.tasks : status[r] \in {"Pending", "none"} /\ r # worker.task
    /\ worker.task # None => status[worker.task] \in {"Processing", "none"}
    /\ worker.step = "complete" => worker.serial \in assets

WorkflowInv ==
    /\ TypeOK
    /\ HandedOver
    /\ InHand
    /\ CompletedMeansLinked
    /\ StrandedOnlyByBreakingOff

-----------------------------------------------------------------------------
\* No photo is uploaded at first.
LEMMA InvInit == Init => WorkflowInv
BY NamesAssumption, SizesAssumption
DEF Init, WorkflowInv, TypeOK, HandedOver, InHand, CompletedMeansLinked,
    StrandedOnlyByBreakingOff, Idle, Pass, Handler, Exists, Prints, Status, UploadStep, WorkerStep

USE DEF Exists, Prints, Status, UploadStep, WorkerStep

\* The invariant survives an upload ...
LEMMA UploadPreserves ==
    ASSUME WorkflowInv, NEW r \in Records, Upload(r)
    PROVE  WorkflowInv'
<1> USE NamesAssumption, SizesAssumption
    DEF WorkflowInv, TypeOK, HandedOver, InHand, CompletedMeansLinked,
        StrandedOnlyByBreakingOff, UploadTo, Write, rows, failures, Handler
<1>1. CASE StoreImage(r)
  <2>1. /\ upload' \in [Records -> Handler]
        /\ \A q \in Records \ {r} : upload'[q] = upload[q]
        /\ upload'[r].step \in {"fail", "queue", "lookup"}
        /\ upload'[r].step = "lookup" => upload'[r].serial # None
    BY <1>1 DEF StoreImage
  <2>2. objects' = objects \cup {r} /\ UNCHANGED <<status, link, assets, worker, abandoned, faults>>
    BY <1>1 DEF StoreImage
  <2>3. upload[r].step = "new"
    BY <1>1 DEF StoreImage
  <2>4. TypeOK'
    <3>1. \A q \in Records :
             upload'[q].step \in {"lookup", "register", "complete"} => upload'[q].serial # None
      BY <2>1
    <3>2. objects' \subseteq Records
      BY <2>2
    <3>3. QED
      BY <2>1, <2>2, <3>1, <3>2
  <2>5. HandedOver'
    BY <2>1, <2>2, <2>3
  <2>6. QED
    BY <2>2, <2>4, <2>5
<1>2. CASE RecordFailed(r)
  BY <1>2 DEF RecordFailed
<1>3. CASE RecordPending(r)
  BY <1>3 DEF RecordPending
<1>4. CASE LookupUpload(r)
  BY <1>4 DEF LookupUpload
<1>5. CASE RegisterUpload(r)
  BY <1>5 DEF RegisterUpload
<1>6. CASE RecordCompleted(r)
  BY <1>6 DEF RecordCompleted
<1>7. CASE UploadBreaksOff(r)
  BY <1>7 DEF UploadBreaksOff, Fault
<1>8. QED
  BY <1>1, <1>2, <1>3, <1>4, <1>5, <1>6, <1>7 DEF Upload

\* ... a step of the worker, or a pass that breaks off ...
LEMMA WorkerPreserves ==
    ASSUME WorkflowInv, Worker \/ PassBreaksOff
    PROVE  WorkflowInv'
<1> USE NamesAssumption, SizesAssumption
<1>1. CASE Select
  <2>1. PICK ts \in SUBSET Pending : worker' = [Idle EXCEPT !.step = "next", !.tasks = ts]
    BY <1>1 DEF Select
  <2>2. worker' \in Pass /\ worker'.step = "next" /\ worker'.tasks = ts /\ worker'.task = None
    BY <2>1 DEF Idle, Pass, Pending
  <2>3. UNCHANGED <<objects, status, link, assets, upload, abandoned, faults>>
        /\ worker.step = "idle"
    BY <1>1 DEF Select, rows, failures
  <2>4. QED
    BY <2>2, <2>3 DEF WorkflowInv, TypeOK, HandedOver, InHand, CompletedMeansLinked,
                      StrandedOnlyByBreakingOff, Pending
<1>2. CASE Mark
  <2>1. PICK r \in worker.tasks :
           IF Exists(r)
           THEN /\ Write(r, "Processing", link[r])
                /\ worker' = [worker EXCEPT !.step = "extract", !.task = r,
                                            !.tasks = @ \ {r}]
                /\ UNCHANGED abandoned
           ELSE BreakOff /\ UNCHANGED rows
    BY <1>2 DEF Mark
  <2>2. UNCHANGED <<objects, assets, upload, faults>> /\ worker.step = "next"
    BY <1>2 DEF Mark
  <2>3. r \in Records /\ worker \in Pass /\ worker.task = None
    BY <2>2 DEF WorkflowInv, TypeOK, Pass
  <2>4. CASE Exists(r)
    <3>1. /\ worker' \in Pass /\ worker'.step = "extract" /\ worker'.task = r
          /\ worker'.tasks = worker.tasks \ {r} /\ abandoned' = abandoned
      <4>1. worker' = [worker EXCEPT !.step = "extract", !.task = r, !.tasks = @ \ {r}]
            /\ abandoned' = abandoned
        BY <2>1, <2>4
      <4>2. worker.tasks \ {r} \in SUBSET Records
        BY <2>3 DEF Pass
      <4>3. QED
        BY <4>1, <4>2, <2>3 DEF Pass
    <3>2. /\ status' = [status EXCEPT ![r] = "Processing"] /\ status[r] = "Pending"
          /\ link' = [link EXCEPT ![r] = link[r]]
      BY <2>1, <2>4 DEF Write, WorkflowInv, InHand
    <3>3. TypeOK' /\ HandedOver' /\ InHand'
      BY <2>2, <2>3, <3>1, <3>2 DEF WorkflowInv, TypeOK, HandedOver, InHand
    <3>4. CompletedMeansLinked' /\ StrandedOnlyByBreakingOff'
      BY <2>2, <2>3, <3>1, <3>2 DEF WorkflowInv, TypeOK, CompletedMeansLinked,
                                    StrandedOnlyByBreakingOff
    <3>5. QED
      BY <3>3, <3>4 DEF WorkflowInv
  <2>5. CASE ~Exists(r)
    BY <2>1, <2>2, <2>3, <2>5
    DEF WorkflowInv, TypeOK, HandedOver, InHand, CompletedMeansLinked,
        StrandedOnlyByBreakingOff, BreakOff, Idle, Pass, rows
  <2>6. QED
    BY <2>4, <2>5
<1>3. CASE Extract
  <2>1. PICK s \in Serials \cup {worker.task} :
           worker' = [worker EXCEPT !.step = "lookup", !.serial = s]
    BY <1>3 DEF Extract
  <2>2. UNCHANGED <<objects, status, link, assets, upload, abandoned, faults>>
        /\ worker.step = "extract"
    BY <1>3 DEF Extract, rows, failures
  <2>3. worker \in Pass /\ worker.task \in Records
    BY <2>2 DEF WorkflowInv, TypeOK, Pass
  <2>4. /\ worker' \in Pass /\ worker'.step = "lookup" /\ worker'.task = worker.task
        /\ worker'.tasks = worker.tasks /\ worker'.serial # None
    BY <2>1, <2>3 DEF Pass
  <2>5. QED
    BY <2>2, <2>3, <2>4 DEF WorkflowInv, TypeOK, HandedOver, InHand,
                            CompletedMeansLinked, StrandedOnlyByBreakingOff
<1>4. CASE DownloadFails
  BY <1>4 DEF DownloadFails, Fault, WorkflowInv, TypeOK, HandedOver, InHand,
              CompletedMeansLinked, StrandedOnlyByBreakingOff, rows, Pass
<1>5. CASE Lookup
  <2>1. UNCHANGED <<objects, status, link, assets, upload, abandoned, faults>>
        /\ worker.step = "lookup" /\ worker \in Pass
    BY <1>5 DEF Lookup, rows, failures, WorkflowInv, TypeOK
  <2>2. /\ worker' \in Pass /\ worker'.step \in {"complete", "register"}
        /\ worker'.task = worker.task /\ worker'.tasks = worker.tasks
        /\ worker'.serial = worker.serial
        /\ worker'.step = "complete" => worker.serial \in assets
    BY <1>5, <2>1 DEF Lookup, Pass
  <2>3. TypeOK'
    BY <2>1, <2>2 DEF WorkflowInv, TypeOK
  <2>4. HandedOver' /\ InHand'
    BY <2>1, <2>2 DEF WorkflowInv, HandedOver, InHand
  <2>5. CompletedMeansLinked' /\ StrandedOnlyByBreakingOff'
    BY <2>1, <2>2 DEF WorkflowInv, CompletedMeansLinked, StrandedOnlyByBreakingOff
  <2>6. QED
    BY <2>3, <2>4, <2>5 DEF WorkflowInv
<1>6. CASE Register
  BY <1>6 DEF Register, Fault, WorkflowInv, TypeOK, HandedOver, InHand, BreakOff, Idle,
              CompletedMeansLinked, StrandedOnlyByBreakingOff, rows, Pass
<1>7. ASSUME NEW s \in {"Completed", "Failed"}, NEW a \in assets \cup {None},
             (s = "Completed") <=> (a # None), Finish(s, a),
             worker.step \in {"complete", "fail"}
      PROVE  WorkflowInv'
  <2>1. worker \in Pass /\ worker.task \in Records /\ worker.tasks \subseteq Records
    BY <1>7 DEF WorkflowInv, TypeOK, Pass
  <2>2. UNCHANGED <<objects, assets, upload, faults>>
    BY <1>7 DEF Finish
  <2>3. CASE Exists(worker.task)
    <3>1. /\ worker' \in Pass /\ worker'.step = "next" /\ worker'.task = None
          /\ worker'.tasks = worker.tasks /\ abandoned' = abandoned
      BY <1>7, <2>1, <2>3 DEF Finish, Pass
    <3>2. /\ status' = [status EXCEPT ![worker.task] = s]
          /\ link' = [link EXCEPT ![worker.task] = a]
      BY <1>7, <2>3 DEF Finish, Write
    <3>3. TypeOK'
      <4>1. a \in Prints \cup {None} /\ s \in Status
        BY DEF WorkflowInv, TypeOK
      <4>2. status' \in [Records -> Status] /\ link' \in [Records -> Prints \cup {None}]
        BY <2>1, <3>2, <4>1 DEF WorkflowInv, TypeOK
      <4>3. QED
        BY <2>2, <3>1, <4>2 DEF WorkflowInv, TypeOK
    <3>4. HandedOver' /\ InHand'
      <4>1. /\ \A r \in Records \ {worker.task} : status'[r] = status[r]
            /\ status'[worker.task] # "none" /\ worker.task \notin worker.tasks
        BY <2>1, <3>2 DEF WorkflowInv, TypeOK, InHand
      <4>2. HandedOver'
        BY <2>1, <2>2, <2>3, <3>1, <4>1 DEF WorkflowInv, HandedOver
      <4>3. InHand'
        BY <2>1, <3>1, <4>1 DEF WorkflowInv, InHand
      <4>4. QED
        BY <4>2, <4>3
    <3>5. CompletedMeansLinked' /\ StrandedOnlyByBreakingOff'
      BY <1>7, <2>1, <2>2, <3>1, <3>2 DEF WorkflowInv, TypeOK, CompletedMeansLinked,
                                          StrandedOnlyByBreakingOff
    <3>6. QED
      BY <3>3, <3>4, <3>5 DEF WorkflowInv
  <2>4. CASE ~Exists(worker.task)
    BY <1>7, <2>1, <2>2, <2>4
    DEF Finish, WorkflowInv, TypeOK, HandedOver, InHand, CompletedMeansLinked,
        StrandedOnlyByBreakingOff, BreakOff, Idle, Pass, rows
  <2>5. QED
    BY <2>3, <2>4
<1>8. CASE Complete
  BY <1>7, <1>8 DEF Complete, WorkflowInv, TypeOK, InHand
<1>9. CASE Fail
  BY <1>7, <1>9 DEF Fail
<1>10. CASE EndPass
  BY <1>10 DEF EndPass, WorkflowInv, TypeOK, HandedOver, InHand, CompletedMeansLinked,
               StrandedOnlyByBreakingOff, rows, failures, Idle, Pass
<1>11. CASE PassBreaksOff
  BY <1>11 DEF PassBreaksOff, Fault, WorkflowInv, TypeOK, HandedOver, InHand, Pass, Idle,
               CompletedMeansLinked, StrandedOnlyByBreakingOff, rows, BreakOff
<1>12. QED
  BY <1>1, <1>2, <1>3, <1>4, <1>5, <1>6, <1>8, <1>9, <1>10, <1>11 DEF Worker

\* ... and whatever else happens to the records.
LEMMA OthersPreserve ==
    ASSUME WorkflowInv, (\E s \in Serials : Enroll(s)) \/ ClearHistory \/ EmptyPass \/ UNCHANGED vars
    PROVE  WorkflowInv'
<1> USE NamesAssumption, SizesAssumption
    DEF WorkflowInv, TypeOK, HandedOver, InHand, CompletedMeansLinked,
        StrandedOnlyByBreakingOff, rows, failures
<1>1. CASE \E s \in Serials : Enroll(s)
  BY <1>1 DEF Enroll
<1>2. CASE ClearHistory
  <2>1. /\ status' \in [Records -> Status] /\ link' \in [Records -> Prints \cup {None}]
        /\ \A r \in Records : status'[r] = "none" /\ link'[r] = None
        /\ UNCHANGED <<objects, assets, upload, worker, abandoned, faults>>
    BY <1>2 DEF ClearHistory
  <2>2. worker.tasks \subseteq Records /\ worker.task \in Records \cup {None}
    BY DEF Pass
  <2>3. QED
    BY <2>1, <2>2
<1>3. CASE EmptyPass \/ UNCHANGED vars
  BY <1>3 DEF EmptyPass, vars
<1>4. QED
  BY <1>1, <1>2, <1>3

\* The inductive invariant: rows and the hands that hold them agree.
THEOREM WorkflowSafe == Spec => []WorkflowInv
<1>1. WorkflowInv /\ [Next]_vars => WorkflowInv'
  BY UploadPreserves, WorkerPreserves, OthersPreserve DEF Next
<1>2. QED
  BY InvInit, <1>1, PTL DEF Spec

-----------------------------------------------------------------------------
\* A row's image is stored before the row is written, and stays.
THEOREM ImagesStay == Spec => []ImagesKept
<1>1. WorkflowInv => ImagesKept
  BY DEF WorkflowInv, HandedOver, ImagesKept
<1>2. QED
  BY <1>1, WorkflowSafe, PTL

\* Completed means linked to an asset that exists, whoever registered it.
THEOREM CompletedLinked == Spec => []CompletedMeansLinked
<1>1. WorkflowInv => CompletedMeansLinked
  BY DEF WorkflowInv
<1>2. QED
  BY <1>1, WorkflowSafe, PTL

\* Only a pass that broke off leaves a row in Processing behind.
THEOREM Stranding == Spec => []StrandedOnlyByBreakingOff
<1>1. WorkflowInv => StrandedOnlyByBreakingOff
  BY DEF WorkflowInv
<1>2. QED
  BY <1>1, WorkflowSafe, PTL

\* No step changes a verdict or sends a row back to Pending.
LEMMA VerdictStep ==
    ASSUME WorkflowInv, [Next]_vars, NEW r \in Records
    PROVE  /\ status[r] \in {"Completed", "Failed"} => status'[r] \in {status[r], "none"}
           /\ status[r] = "Processing" => status'[r] # "Pending"
<1> USE NamesAssumption
    DEF WorkflowInv, TypeOK, HandedOver, InHand, Write, rows
<1>1. CASE \E q \in Records : Upload(q)
  BY <1>1 DEF Upload, StoreImage, RecordFailed, RecordPending, LookupUpload,
              RegisterUpload, RecordCompleted, UploadBreaksOff
<1>2. CASE ClearHistory
  BY <1>2 DEF ClearHistory
<1>3. CASE Mark
  BY <1>3 DEF Mark, BreakOff
<1>4. CASE Complete \/ Fail
  BY <1>4 DEF Complete, Fail, Finish, BreakOff
<1>5. CASE UNCHANGED status
  BY <1>5
<1>6. QED
  BY <1>1, <1>2, <1>3, <1>4, <1>5
  DEF Next, Worker, Enroll, Select, Extract, DownloadFails, Lookup, Register, EndPass,
      EmptyPass, PassBreaksOff, vars

\* Verdicts stand, for any number of uploads and whatever fails.
THEOREM VerdictsFinal == Spec => VerdictsStand
<1>1. WorkflowInv /\ [Next]_vars =>
        [\A r \in Records :
            /\ status[r] \in {"Completed", "Failed"} => status'[r] \in {status[r], "none"}
            /\ status[r] = "Processing" => status'[r] # "Pending"]_vars
  BY VerdictStep
<1>2. QED
  BY <1>1, WorkflowSafe, PTL DEF Spec, VerdictsStand

=============================================================================
