----------------------------- MODULE StickerStation -----------------------------
(***************************************************************************)
(* The sticker desktop client.  Photos dropped in the Sticker folder are   *)
(* noticed by two threads (the observer's events and a poll every two      *)
(* seconds), queued, and worked off by a third, which asks the operator    *)
(* through a dialog, creates a folder on a USB drive and files the photo   *)
(* under Processed or Failed; a fourth thread watches the drives.  The     *)
(* application may be closed or killed at any step and started again.      *)
(***************************************************************************)
EXTENDS Integers, Sequences, FiniteSets, SequencesExt

CONSTANTS Photos,       \* file names
          Labels,       \* serial number and device id: names of folders
          Label,        \* what is written on each photo's sticker
          Drives,       \* drive letters
          Best(_),      \* the drive get_current prefers among some
          None,
          MaxStays,     \* bound on photos dropped or retried
          MaxPlugs,     \* bound on drives plugged in or out
          MaxFaults,    \* bound on failed moves and restarts
          MaxEvents     \* bound on pending file events

ASSUME StationAssumption ==
    /\ Label \in [Photos -> Labels]
    /\ IsFiniteSet(Photos)
    /\ \A ds \in (SUBSET Drives) \ {{}} : Best(ds) \in ds
    /\ None \notin Photos \cup Drives \cup Labels

VARIABLES place,     \* where each photo is
          stays,     \* how often it was put into Sticker
          seen,      \* _ImageHandler._seen
          listing,   \* the poll's listing, as far as not dispatched
          events,    \* the observer's queue
          handing,   \* what each noticing thread is handing over
          queue,     \* JobQueue._queue
          current,   \* JobQueue._current: the photo its path names in the folder
          worker,    \* the worker's step, photo and outcome
          dialog,    \* the photo whose dialog is open
          answer,    \* _preview_event, and _preview_result with the photo it is of
          drives,    \* drives plugged in
          known,     \* USBMonitor._known
          usbPath,   \* AppViewModel._usb_path
          folders,   \* folders on the drives
          log,       \* the outcomes of each photo in today's log
          overlooked,\* photos the client has lost sight of, and may
          plugs, faults

shown == <<dialog, answer>>
noticing == <<seen, listing, events, handing>>
usb == <<drives, known, usbPath, plugs>>
vars == <<place, stays, noticing, queue, current, worker, shown, usb, folders, log, overlooked, faults>>

Threads == {"observer", "poller"}

Idle == [at |-> "get", photo |-> None, status |-> ""]

NoAnswer == [set |-> FALSE, photo |-> None, label |-> None]

InSticker == {p \in Photos : place[p] = "sticker"}

\* get_current.
GetCurrent(ds) == IF ds = {} THEN None ELSE Best(ds)

Init ==
    /\ place = [p \in Photos |-> "camera"] /\ stays = [p \in Photos |-> 0]
    /\ seen = {} /\ listing = {} /\ events = <<>> /\ handing = [t \in Threads |-> <<>>]
    /\ queue = <<>> /\ current = None /\ worker = Idle /\ dialog = None /\ answer = NoAnswer
    /\ drives \in SUBSET Drives /\ known = drives /\ usbPath = GetCurrent(drives) /\ plugs = 0
    /\ folders = {} /\ log = [p \in Photos |-> <<>>] /\ overlooked = {} /\ faults = 0

-----------------------------------------------------------------------------
(* Noticing. *)

\* The operating system reports a change in the folder, or the event is missed.
Reports(kind, p) ==
    events' \in {events} \cup (IF Len(events) < MaxEvents THEN {Append(events, <<kind, p>>)} ELSE {})

Stays(p) ==
    /\ stays[p] < MaxStays /\ stays' = [stays EXCEPT ![p] = @ + 1]
    /\ place' = [place EXCEPT ![p] = "sticker"]

\* A photo, or another of that name, is put into the folder.
DropPhoto(p) ==
    /\ place[p] \in {"camera", "processed"} /\ Stays(p) /\ Reports("created", p)
    /\ UNCHANGED <<seen, listing, handing, queue, current, worker, shown, usb, folders, log, overlooked, faults>>

\* retry_failed, of one photo.
RetryFailed(p) ==
    /\ place[p] = "failed" /\ Stays(p) /\ Reports("created", p)
    /\ seen' = seen \ {p} /\ overlooked' = overlooked \ {p}
    /\ UNCHANGED <<listing, handing, queue, current, worker, shown, usb, folders, log, faults>>

\* _dispatch: once noticed, a photo is left alone.  One that is no longer there,
\* or is just being moved, is noticed all the same, and not when it is back.
Dispatch(t, p) ==
    IF p \in seen THEN UNCHANGED <<seen, handing, overlooked>>
    ELSE /\ seen' = seen \cup {p} /\ handing' = [handing EXCEPT ![t] = <<p, "seen">>]
         /\ overlooked' = IF place[p] = "sticker" /\ ~(worker.at = "moving" /\ worker.photo = p)
                             THEN overlooked ELSE overlooked \cup {p}

\* on_created and on_deleted.
Observe ==
    /\ events # <<>> /\ handing["observer"] = <<>> /\ events' = Tail(events)
    /\ LET p == Head(events)[2] IN
       IF Head(events)[1] = "created" THEN Dispatch("observer", p)
       ELSE seen' = seen \ {p} /\ overlooked' = overlooked \ {p} /\ UNCHANGED handing
    /\ UNCHANGED <<place, stays, listing, queue, current, worker, shown, usb, folders, log, faults>>

\* scan_existing, in _poll_loop.
List ==
    /\ listing = {} /\ handing["poller"] = <<>> /\ InSticker \ seen # {} /\ listing' = InSticker
    /\ UNCHANGED <<place, stays, seen, events, handing, queue, current, worker, shown, usb, folders, log, overlooked, faults>>

Poll ==
    /\ handing["poller"] = <<>>
    /\ \E p \in listing : listing' = listing \ {p} /\ Dispatch("poller", p)
    /\ UNCHANGED <<place, stays, events, queue, current, worker, shown, usb, folders, log, faults>>

\* enqueue looks the photo up under the lock; a job that was taken and is not
\* yet current is not found.  A photo that is found will not be handed over
\* again: too bad if its job is all but done with it.
CheckDuplicate(t) ==
    /\ handing[t] # <<>> /\ handing[t][2] = "seen"
    /\ LET p == handing[t][1] IN
       IF p = current \/ p \in ToSet(queue)
       THEN /\ handing' = [handing EXCEPT ![t] = <<>>]
            /\ overlooked' = IF p = current /\ worker.at \in {"moving", "moved", "end"}
                                THEN overlooked \cup {p} ELSE overlooked
       ELSE handing' = [handing EXCEPT ![t] = <<p, "checked">>] /\ UNCHANGED overlooked
    /\ UNCHANGED <<place, stays, seen, listing, events, queue, current, worker, shown, usb, folders, log, faults>>

\* The put is outside the lock.
Enqueue(t) ==
    /\ handing[t] # <<>> /\ handing[t][2] = "checked"
    /\ queue' = Append(queue, handing[t][1]) /\ handing' = [handing EXCEPT ![t] = <<>>]
    /\ UNCHANGED <<place, stays, seen, listing, events, current, worker, shown, usb, folders, log, overlooked, faults>>

-----------------------------------------------------------------------------
(* The worker. *)

others == <<place, stays, noticing, queue, usb, folders, log, overlooked, faults>>

Goes(at) == worker' = [worker EXCEPT !.at = at]

Ends == worker' = [worker EXCEPT !.at = "end", !.status = ""]

Fails(status) == worker' = [worker EXCEPT !.at = "log", !.status = status]

Take ==
    /\ worker.at = "get" /\ queue # <<>> /\ queue' = Tail(queue)
    /\ worker' = [Idle EXCEPT !.at = "taken", !.photo = Head(queue)]
    /\ UNCHANGED <<place, stays, noticing, current, shown, usb, folders, log, overlooked, faults>>

Begin ==
    /\ worker.at = "taken" /\ current' = worker.photo /\ Goes("look")
    /\ UNCHANGED <<others, shown>>

\* Mutant: the job is begun whether or not its photo is still there.
LookNot ==
    /\ worker.at = "look" /\ (Goes("ask") \/ Fails("error"))
    /\ UNCHANGED <<others, current, shown>>

\* _process_job, to the reading of the image.
Look ==
    /\ worker.at = "look"
    /\ IF place[worker.photo] # "sticker" THEN Ends ELSE Goes("ask") \/ Fails("error")
    /\ UNCHANGED <<others, current, shown>>

\* _await_preview: clear, forget the last answer, open the dialog, wait.
Ask ==
    /\ worker.at = "ask" /\ Goes("asked") /\ answer' = NoAnswer /\ dialog' = worker.photo
    /\ UNCHANGED <<others, current>>

\* Mutant: closing the dialog does not wake the worker.
AnswerConfirmOnly ==
    /\ dialog # None /\ dialog' = None
    /\ \E l \in {Label[dialog], None} : answer' = [set |-> l # None, photo |-> dialog, label |-> l]
    /\ UNCHANGED <<others, current, worker>>

\* submit_preview with the sticker's values, or cancel_preview; the dialog is
\* closed first, so that it answers once.
Answer ==
    /\ dialog # None /\ dialog' = None
    /\ \E l \in {Label[dialog], None} : answer' = [set |-> TRUE, photo |-> dialog, label |-> l]
    /\ UNCHANGED <<others, current, worker>>

\* What the dialog let pass is valid, so that the worker's own check passes.
Answered ==
    /\ worker.at = "asked" /\ answer.set /\ answer' = [answer EXCEPT !.label = None]
    /\ IF answer.label = None THEN Fails("skipped") ELSE Goes("wait")
    /\ UNCHANGED <<others, current, dialog>>

Ready == usbPath # None /\ usbPath \in drives

\* _wait_for_usb: the event it sleeps on is still set, so that the 300 rounds of
\* a second each pass at once.
WaitForUsb ==
    /\ worker.at = "wait"
    /\ IF Ready THEN Goes("folder") ELSE Fails("usb missing")
    /\ UNCHANGED <<others, current, shown>>

\* The path is read again; without one the service raises, and the job ends
\* without being logged or its photo moved.
Drop ==
    /\ worker.at = "folder" /\ usbPath = None /\ Ends
    /\ overlooked' = overlooked \cup {worker.photo}
    /\ UNCHANGED <<place, stays, noticing, queue, current, shown, usb, folders, log, faults>>

\* create_job_folder, on a drive that is there, has been pulled, or refuses.
CreateFolder ==
    /\ worker.at = "folder" /\ usbPath # None
    /\ LET folder == <<usbPath, Label[worker.photo]>> IN
       \/ /\ usbPath \in drives /\ folders' = folders \cup {folder}
          /\ Fails(IF folder \in folders THEN "duplicate" ELSE "success")
       \/ Fails("error") /\ UNCHANGED folders
    /\ UNCHANGED <<place, stays, noticing, queue, current, shown, usb, log, overlooked, faults>>

\* _finalise: the row first, then the photo.
LogJob ==
    /\ worker.at = "log" /\ Goes("move")
    /\ log' = [log EXCEPT ![worker.photo] = Append(@, worker.status)]
    /\ UNCHANGED <<place, stays, noticing, queue, current, shown, usb, folders, overlooked, faults>>

Done(status) == status \in {"success", "duplicate"}

\* Mutant: the photo is not forgotten.
ForgetNot ==
    /\ worker.at = "move"
    /\ IF place[worker.photo] = "sticker" THEN Goes("moving") ELSE Ends
    /\ UNCHANGED <<others, current, shown>>

\* _move_image forgets the photo and then moves it.
Forget ==
    /\ worker.at = "move"
    /\ IF place[worker.photo] = "sticker"
       THEN Goes("moving") /\ seen' = seen \ {worker.photo} /\ overlooked' = overlooked \ {worker.photo}
       ELSE Ends /\ UNCHANGED <<seen, overlooked>>
    /\ UNCHANGED <<place, stays, listing, events, handing, queue, current, shown, usb, folders, log, faults>>

MovePhoto ==
    /\ worker.at = "moving" /\ Goes("moved") /\ Reports("deleted", worker.photo)
    /\ place' = [place EXCEPT ![worker.photo] = IF Done(worker.status) THEN "processed" ELSE "failed"]
    /\ UNCHANGED <<stays, seen, listing, handing, queue, current, shown, usb, folders, log, overlooked, faults>>

\* The job's path is the photo's new place: from here on its name is free for
\* another photo, while the job is being reported and uploaded.
Rename ==
    /\ worker.at = "moved" /\ Ends /\ current' = None
    /\ UNCHANGED <<others, shown>>

\* Five attempts, and the photo stays where it is.
MoveFails ==
    /\ worker.at = "moving" /\ faults < MaxFaults /\ faults' = faults + 1 /\ Ends
    /\ UNCHANGED <<place, stays, noticing, queue, current, shown, usb, folders, log, overlooked>>

Finish ==
    /\ worker.at = "end" /\ worker' = Idle /\ current' = None
    /\ UNCHANGED <<others, shown>>

Worker ==
    Take \/ Begin \/ Look \/ Ask \/ Answered \/ WaitForUsb \/ Drop \/ CreateFolder
      \/ LogJob \/ Forget \/ MovePhoto \/ Rename \/ MoveFails \/ Finish

-----------------------------------------------------------------------------
(* Drives, and the application itself. *)

client == <<place, stays, noticing, queue, current, worker, shown, folders, log, overlooked, faults>>

Plug ==
    /\ plugs < MaxPlugs /\ plugs' = plugs + 1
    /\ \E d \in Drives : drives' = IF d \in drives THEN drives \ {d} ELSE drives \cup {d}
    /\ UNCHANGED <<client, known, usbPath>>

\* One round of USBMonitor._loop: what was inserted, then what was removed.
Monitor ==
    /\ known # drives /\ known' = drives
    /\ usbPath' = IF drives \ known # {} \/ usbPath \in known \ drives THEN GetCurrent(drives) ELSE usbPath
    /\ UNCHANGED <<client, drives, plugs>>

\* Closed or killed, and started again: the worker is a daemon thread, and what
\* is in the folder is queued, without being marked as seen.
Restart ==
    /\ faults < MaxFaults /\ faults' = faults + 1
    /\ seen' = {} /\ listing' = {} /\ events' = <<>> /\ handing' = [t \in Threads |-> <<>>]
    /\ current' = None /\ worker' = Idle /\ dialog' = None /\ answer' = NoAnswer /\ overlooked' = {}
    /\ queue' \in SetToSeqs(InSticker)
    /\ known' = drives /\ usbPath' = GetCurrent(drives)
    /\ UNCHANGED <<place, stays, drives, plugs, folders, log>>

Next ==
    \/ \E p \in Photos : DropPhoto(p) \/ RetryFailed(p)
    \/ Observe \/ List \/ Poll
    \/ \E t \in Threads : CheckDuplicate(t) \/ Enqueue(t)
    \/ Worker \/ Answer \/ Plug \/ Monitor \/ Restart

\* The threads run; the operator answers a dialog that is open.
Spec == Init /\ [][Next]_vars /\ WF_vars(Worker) /\ WF_vars(Answer)

-----------------------------------------------------------------------------
\* However often a photo is noticed, by whichever thread, it gets one outcome
\* each time it is put into the folder, and one more only for a move that
\* failed or a restart.
OneOutcomePerStay == \A p \in Photos : Len(log[p]) <= stays[p] + faults

\* A photo is filed as processed only if the folder of its sticker is on some
\* drive, whatever was pulled while it was worked on.
ProcessedHasFolder == \A p \in Photos : place[p] = "processed" => \E d \in Drives : <<d, Label[p]>> \in folders

\* Every photo put into the folder is dealt with once, and filed only when its
\* sticker's folder was made.
OutcomesSound == OneOutcomePerStay /\ ProcessedHasFolder

Handled(p) ==
    \/ p \in ToSet(queue) \/ worker.photo = p
    \/ \E t \in Threads : handing[t] # <<>> /\ handing[t][1] = p

\* A photo in the folder is in hand, or will be found by the next poll; it is
\* lost sight of only when its job raised for want of a drive, or when it was
\* noticed in the moment its last job was moving it away.
NoPhotoLostFromSight == \A p \in InSticker : Handled(p) \/ p \notin seen \/ p \in overlooked

\* No job waits in the queue for ever, whatever the operator answers and
\* whichever drives are plugged in.
QueueMoves == \A p \in Photos : p \in ToSet(queue) ~> p \notin ToSet(queue)
=================================================================================
