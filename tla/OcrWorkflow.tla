---------------------------- MODULE OcrWorkflow ----------------------------
(***************************************************************************)
(* OCR registration: POST /assets/ocr-upload stores the image and writes a *)
(* row of ocr_registration_records, the one OCRBackgroundWorker takes the  *)
(* Pending rows in passes, and DELETE /assets/ocr-history may empty the    *)
(* table at any moment.  Handlers and worker interleave at every await.    *)
(*                                                                         *)
(* An asset is named by the serial its fingerprint is the hash of; clients *)
(* and worker both send it in upper case.  The row that upload r writes is *)
(* named r.                                                                *)
(***************************************************************************)
EXTENDS Naturals, FiniteSets

CONSTANTS Records,    \* uploads, and the row each writes
          Serials,    \* serial numbers a sticker may carry
          None,       \* no serial, no record
          PassSize,   \* rows selected in one pass
          MaxFaults   \* bound: failures of the stores, restarts, cancelled uploads

ASSUME NamesAssumption == Records \cap Serials = {} /\ None \notin Records \cup Serials
ASSUME SizesAssumption == PassSize \in Nat \ {0} /\ MaxFaults \in Nat

VARIABLES objects,    \* images in the MinIO bucket
          status,     \* extraction_status; "none" when there is no row
          link,       \* asset_id of the row
          assets,     \* serials registered in infrastructure_assets
          upload,     \* the upload handlers
          worker,     \* the pass under way
          abandoned,  \* history: rows the worker was on when a pass broke off
          faults

vars == <<objects, status, link, assets, upload, worker, abandoned, faults>>
rows == <<status, link>>
failures == <<abandoned, faults>>

-----------------------------------------------------------------------------
\* An unreadable image is registered under "UNKNOWN-" and eight random hex
\* digits: a serial of its own, named like the record.
Prints == Serials \cup Records

Status == {"none", "Pending", "Processing", "Completed", "Failed"}

UploadStep == {"new", "fail", "queue", "lookup", "register", "complete", "over"}

WorkerStep == {"idle", "next", "extract", "lookup", "register", "complete", "fail"}

Handler == [step : UploadStep, serial : Serials \cup {None}]

Pass == [step : WorkerStep, tasks : SUBSET Records, task : Records \cup {None},
         serial : Prints \cup {None}]

Idle == [step |-> "idle", tasks |-> {}, task |-> None, serial |-> None]

Exists(r) == status[r] # "none"

Pending == {r \in Records : status[r] = "Pending"}

Write(r, s, a) ==
    /\ status' = [status EXCEPT ![r] = s]
    /\ link' = [link EXCEPT ![r] = a]

Fault == faults < MaxFaults /\ faults' = faults + 1

Init ==
    /\ objects = {} /\ assets = {}
    /\ status = [r \in Records |-> "none"] /\ link = [r \in Records |-> None]
    /\ upload = [r \in Records |-> [step |-> "new", serial |-> None]]
    /\ worker = Idle /\ abandoned = {} /\ faults = 0

-----------------------------------------------------------------------------
(* upload_ocr_image.                                                       *)

UploadTo(r, step) == upload' = [upload EXCEPT ![r].step = step]

\* Mutant: the row is written first and the image sent after it.
StoreImageLast(r) ==
    /\ upload[r].step = "new"
    /\ UNCHANGED objects
    /\ \/ UploadTo(r, "fail")
       \/ UploadTo(r, "queue")
       \/ \E s \in Serials : upload' = [upload EXCEPT ![r] = [step |-> "lookup", serial |-> s]]
    /\ UNCHANGED <<rows, assets, worker, failures>>

\* The image goes to MinIO; what the form carries decides the rest: an
\* error message, a serial number, or nothing.
StoreImage(r) ==
    /\ upload[r].step = "new"
    /\ objects' = objects \cup {r}
    /\ \/ UploadTo(r, "fail")
       \/ UploadTo(r, "queue")
       \/ \E s \in Serials : upload' = [upload EXCEPT ![r] = [step |-> "lookup", serial |-> s]]
    /\ UNCHANGED <<rows, assets, worker, failures>>

RecordFailed(r) ==
    /\ upload[r].step = "fail"
    /\ Write(r, "Failed", None)
    /\ UploadTo(r, "over")
    /\ UNCHANGED <<objects, assets, worker, failures>>

RecordPending(r) ==
    /\ upload[r].step = "queue"
    /\ Write(r, "Pending", None)
    /\ UploadTo(r, "over")
    /\ UNCHANGED <<objects, assets, worker, failures>>

LookupUpload(r) ==
    /\ upload[r].step = "lookup"
    /\ UploadTo(r, IF upload[r].serial \in assets THEN "complete" ELSE "register")
    /\ UNCHANGED <<objects, rows, assets, worker, failures>>

\* create_asset commits before the row is written; when the serial has been
\* registered meanwhile the unique index ends the request in a 500.
RegisterUpload(r) ==
    /\ upload[r].step = "register"
    /\ assets' = assets \cup {upload[r].serial}
    /\ UploadTo(r, IF upload[r].serial \in assets THEN "over" ELSE "complete")
    /\ UNCHANGED <<objects, rows, worker, failures>>

RecordCompleted(r) ==
    /\ upload[r].step = "complete"
    /\ Write(r, "Completed", upload[r].serial)
    /\ UploadTo(r, "over")
    /\ UNCHANGED <<objects, assets, worker, failures>>

\* A store fails or the server stops: what was committed stays.
UploadBreaksOff(r) ==
    /\ upload[r].step \notin {"new", "over"}
    /\ Fault
    /\ UploadTo(r, "over")
    /\ UNCHANGED <<objects, rows, assets, worker, abandoned>>

Upload(r) ==
    \/ StoreImage(r) \/ RecordFailed(r) \/ RecordPending(r) \/ LookupUpload(r)
    \/ RegisterUpload(r) \/ RecordCompleted(r) \/ UploadBreaksOff(r)

(* The rest of the server: another route enrolls an asset, the history is  *)
(* cleared (the images stay).                                              *)
Enroll(s) ==
    /\ s \notin assets
    /\ assets' = assets \cup {s}
    /\ UNCHANGED <<objects, rows, upload, worker, failures>>

ClearHistory ==
    /\ \E r \in Records : Exists(r)
    /\ status' = [r \in Records |-> "none"]
    /\ link' = [r \in Records |-> None]
    /\ UNCHANGED <<objects, assets, upload, worker, failures>>

-----------------------------------------------------------------------------
(* _process_pending_tasks.                                                 *)

\* Mutant: the exception ends the worker's loop, not just the pass.
BreakOffForGood ==
    /\ worker' = [Idle EXCEPT !.step = "over"]
    /\ abandoned' = abandoned \cup ({worker.task} \ {None})

\* The exception handler's own commit raises after a failed flush: the pass
\* ends there, with no row rolled back to Pending.
BreakOff ==
    /\ worker' = Idle
    /\ abandoned' = abandoned \cup ({worker.task} \ {None})

\* Mutant: rows are selected whatever their status.
SelectAny ==
    /\ worker.step = "idle"
    /\ \E tasks \in SUBSET {r \in Records : Exists(r)} :
          /\ tasks # {}
          /\ Cardinality(tasks) <= PassSize
          /\ worker' = [Idle EXCEPT !.step = "next", !.tasks = tasks]
    /\ UNCHANGED <<objects, rows, assets, upload, failures>>

\* SELECT ... WHERE extraction_status = 'Pending' LIMIT PassSize, in no
\* particular order.
Select ==
    /\ worker.step = "idle"
    /\ \E tasks \in SUBSET Pending :
          /\ tasks # {}
          /\ Cardinality(tasks) <= PassSize
          /\ Cardinality(tasks) = PassSize \/ tasks = Pending
          /\ worker' = [Idle EXCEPT !.step = "next", !.tasks = tasks]
    /\ UNCHANGED <<objects, rows, assets, upload, failures>>

\* Nothing is pending: the worker sleeps and looks again.
EmptyPass == worker.step = "idle" /\ Pending = {} /\ UNCHANGED vars

\* Mutant: the whole selection is marked at once.
MarkAll ==
    /\ worker.step = "next"
    /\ \E r \in worker.tasks :
          /\ status' = [q \in Records |->
                IF q \in worker.tasks /\ Exists(q) THEN "Processing" ELSE status[q]]
          /\ worker' = [worker EXCEPT !.step = "extract", !.task = r, !.tasks = @ \ {r}]
    /\ UNCHANGED <<objects, link, assets, upload, failures>>

\* The status is committed before the work.  A row that was cleared matches
\* no UPDATE: the flush fails.
Mark ==
    /\ worker.step = "next"
    /\ \E r \in worker.tasks :
          IF Exists(r)
          THEN /\ Write(r, "Processing", link[r])
               /\ worker' = [worker EXCEPT !.step = "extract", !.task = r,
                                           !.tasks = @ \ {r}]
               /\ UNCHANGED abandoned
          ELSE BreakOff /\ UNCHANGED rows
    /\ UNCHANGED <<objects, assets, upload, faults>>

\* Download, OCR and the two patterns, without an await in between.
Extract ==
    /\ worker.step = "extract"
    /\ \E s \in Serials \cup {worker.task} :
          worker' = [worker EXCEPT !.step = "lookup", !.serial = s]
    /\ UNCHANGED <<objects, rows, assets, upload, failures>>

DownloadFails ==
    /\ worker.step = "extract"
    /\ Fault
    /\ worker' = [worker EXCEPT !.step = "fail"]
    /\ UNCHANGED <<objects, rows, assets, upload, abandoned>>

Lookup ==
    /\ worker.step = "lookup"
    /\ worker' = [worker EXCEPT
          !.step = IF worker.serial \in assets THEN "complete" ELSE "register"]
    /\ UNCHANGED <<objects, rows, assets, upload, failures>>

\* Mutant: losing the race to register is taken for success.
RegisterOrGoOn ==
    /\ worker.step = "register"
    /\ worker' = [worker EXCEPT !.step = "complete"]
    /\ UNCHANGED <<objects, rows, assets, upload, failures>>

\* One flush inserts the asset and updates the row: it fails when the serial
\* has been registered since the lookup or the row has been cleared.  After
\* the commit the cache may still fail.
Register ==
    /\ worker.step = "register"
    /\ IF Exists(worker.task) /\ worker.serial \notin assets
       THEN /\ assets' = assets \cup {worker.serial}
            /\ \/ worker' = [worker EXCEPT !.step = "complete"] /\ UNCHANGED faults
               \/ Fault /\ worker' = [worker EXCEPT !.step = "fail"]
            /\ UNCHANGED abandoned
       ELSE BreakOff /\ UNCHANGED <<assets, faults>>
    /\ UNCHANGED <<objects, rows, upload>>

Finish(s, a) ==
    /\ IF Exists(worker.task)
       THEN /\ Write(worker.task, s, a)
            /\ worker' = [worker EXCEPT !.step = "next", !.task = None, !.serial = None]
            /\ UNCHANGED abandoned
       ELSE BreakOff /\ UNCHANGED rows
    /\ UNCHANGED <<objects, assets, upload, faults>>

Complete == worker.step = "complete" /\ Finish("Completed", worker.serial)

\* The exception handler, when its commit goes through.
Fail == worker.step = "fail" /\ Finish("Failed", None)

EndPass ==
    /\ worker.step = "next" /\ worker.tasks = {}
    /\ worker' = Idle
    /\ UNCHANGED <<objects, rows, assets, upload, failures>>

\* The database fails, stop() cancels the task, or the server dies.
PassBreaksOff ==
    /\ worker.step # "idle"
    /\ Fault
    /\ BreakOff
    /\ UNCHANGED <<objects, rows, assets, upload>>

Worker == Select \/ Mark \/ Extract \/ DownloadFails \/ Lookup \/ Register
          \/ Complete \/ Fail \/ EndPass

Next ==
    \/ \E r \in Records : Upload(r)
    \/ \E s \in Serials : Enroll(s)
    \/ ClearHistory
    \/ Worker \/ EmptyPass \/ PassBreaksOff

\* The worker's loop runs for as long as the server does, and starts again
\* with it.
Spec == Init /\ [][Next]_vars /\ WF_vars(Worker)

-----------------------------------------------------------------------------
TypeOK ==
    /\ objects \subseteq Records /\ assets \subseteq Prints
    /\ status \in [Records -> Status] /\ link \in [Records -> Prints \cup {None}]
    /\ upload \in [Records -> Handler]
    /\ worker \in Pass
    /\ (worker.task = None) <=> (worker.step \in {"idle", "next"})
    /\ worker.step \in {"lookup", "register", "complete"} => worker.serial # None
    /\ \A r \in Records :
          upload[r].step \in {"lookup", "register", "complete"} => upload[r].serial # None
    /\ abandoned \subseteq Records /\ faults \in 0 .. MaxFaults

\* A row's image can always be fetched: no failure, cancelled upload or
\* clearing leaves a row that points to nothing.
ImagesKept == \A r \in Records : Exists(r) => r \in objects

\* A row says Completed exactly when it is linked to an asset, and that asset
\* exists, whoever won the race to register the serial.
CompletedMeansLinked ==
    \A r \in Records :
        /\ (status[r] = "Completed") <=> (link[r] # None)
        /\ link[r] # None => link[r] \in assets

\* A pass that breaks off strands at most the row it was on: a row that says
\* Processing is in the worker's hand, or some pass broke off on it.
StrandedOnlyByBreakingOff ==
    \A r \in Records :
        status[r] = "Processing" => r = worker.task \/ r \in abandoned

\* A verdict is final, and no row goes back to Pending: a stale selection
\* never makes the worker repeat what was decided.
VerdictsStand ==
    [][\A r \in Records :
          /\ status[r] \in {"Completed", "Failed"} => status'[r] \in {status[r], "none"}
          /\ status[r] = "Processing" => status'[r] # "Pending"]_vars

\* Every upload that waits is picked up, or cleared, whatever broke off
\* before.
PickedUp == \A r \in Records : (status[r] = "Pending") ~> (status[r] # "Pending")

-----------------------------------------------------------------------------
\* 03_SOFTWARE_ARCHITECTURE_DOCUMENT.md:364: work of an OCR worker that ends
\* before its commit is assigned again.  A row left in Processing is never
\* selected again.
CrashedWorkIsRedone ==
    \A r \in Records : (status[r] = "Processing") ~> (status[r] # "Processing")

=============================================================================
