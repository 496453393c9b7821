------------------------------ MODULE Evaluations ------------------------------
(***************************************************************************)
(* Service sessions and the customers' evaluations: the routes of          *)
(* evaluations.py as coroutines of a look-up, a commit and a refresh, the  *)
(* operators' pages and other clients that call them, and the customer's   *)
(* form.  A call may fail at the caller while the server goes on with it.  *)
(***************************************************************************)
EXTENDS Accounts, FiniteSetsExt

CONSTANTS Sessions, Evals,  \* primary keys, each used once
          Forms,            \* openings of a customer's form
          Requests,         \* calls in flight
          MaxFaults         \* bound on failed calls and restarts

ASSUME EvaluationAssumption == MaxFaults \in Nat /\ None \notin Forms

VARIABLES sess,    \* the service_sessions table
          evals,   \* the service_evaluations table, and the form of each row
          form,    \* each form's state
          req,     \* calls in flight
          hitch,   \* how often a form was not told what became of its call
          faults

vars == <<accounts, sess, evals, form, req, hitch, faults>>

Free == [kind |-> "none", by |-> None, bearer |-> None, on |-> None, step |-> "free", ok |-> FALSE, heard |-> TRUE]

NoRow == [state |-> "none", session |-> None, by |-> None]

Closed == [at |-> "closed", session |-> None]

Init ==
    /\ AccountsInit
    /\ sess = [s \in Sessions |-> "none"]
    /\ evals = [e \in Evals |-> NoRow]
    /\ form = [f \in Forms |-> Closed]
    /\ req = [r \in Requests |-> Free]
    /\ hitch = [f \in Forms |-> 0]
    /\ faults = 0

\* What a page may list or link to: it was there when the page was loaded.
Listed == {s \in Sessions : sess[s] # "none"}

ListedRows == {e \in Evals : evals[e].state # "none"}

Unused(table, none) == {k \in DOMAIN table : table[k] = none}

-----------------------------------------------------------------------------
(* The callers.                                                             *)

Calls(r, kind, by, b, on) ==
    /\ req[r] = Free
    /\ req' = [req EXCEPT ![r] = [Free EXCEPT !.kind = kind, !.by = by, !.bearer = b, !.on = on, !.step = "sent"]]

\* The page saves, edits or deletes a session, sending no credentials;
\* another client sends what it has.
EditSessions(r, b) ==
    \/ Calls(r, "create", None, b, None)
    \/ \E s \in Listed, kind \in {"update", "delete"} : Calls(r, kind, None, b, s)

DeleteResponse(r, b) == \E e \in ListedRows : Calls(r, "withdraw", None, b, e)

\* In demo mode nobody looks at the credentials.
Operate(r, b) ==
    /\ mode = "demo" => b = None
    /\ EditSessions(r, b) \/ DeleteResponse(r, b)
    /\ UNCHANGED <<accounts, sess, evals, form, hitch, faults>>

\* The customer follows a link.
OpenForm(f) ==
    /\ form[f] = Closed
    /\ \E s \in Listed :
        form' = [form EXCEPT ![f] = [at |-> IF sess[s] = "live" THEN "filling" ELSE "invalid", session |-> s]]
    /\ UNCHANGED <<accounts, sess, evals, req, hitch, faults>>

\* Mutant: the button stays enabled.
SubmitAgain(f, r) ==
    /\ form[f].at = "filling"
    /\ Calls(r, "submit", f, None, form[f].session)
    /\ UNCHANGED <<accounts, sess, evals, form, hitch, faults>>

\* handleSubmit, with every question rated; the button is disabled meanwhile.
Submit(f, r) ==
    /\ form[f].at = "filling"
    /\ form' = [form EXCEPT ![f].at = "submitting"]
    /\ Calls(r, "submit", f, None, form[f].session)
    /\ UNCHANGED <<accounts, sess, evals, hitch, faults>>

\* An answer arrives: thanks, or an alert and another try.
Deliver(r) ==
    /\ req[r].step = "answered"
    /\ req' = [req EXCEPT ![r] = Free]
    /\ form' = IF req[r].kind = "submit" /\ req[r].heard
               THEN [form EXCEPT ![req[r].by].at = IF req[r].ok THEN "thanks" ELSE "filling"]
               ELSE form
    /\ UNCHANGED <<accounts, sess, evals, hitch, faults>>

\* fetch throws at the form, wherever the call is.
CallFails(r) ==
    /\ req[r].kind = "submit" /\ req[r].heard
    /\ faults < MaxFaults /\ faults' = faults + 1
    /\ req' = [req EXCEPT ![r].heard = FALSE]
    /\ form' = [form EXCEPT ![req[r].by].at = "filling"]
    /\ hitch' = [hitch EXCEPT ![req[r].by] = @ + 1]
    /\ UNCHANGED <<accounts, sess, evals>>

-----------------------------------------------------------------------------
(* The routes.                                                              *)

Answers(r, ok) == req' = [req EXCEPT ![r].step = "answered", ![r].ok = ok, ![r].bearer = None]

\* The gate of the four writes; customers need none.
Admitted(r) == req[r].kind = "submit" \/ AdminForWrite(req[r].bearer) # None

Found(r) ==
    CASE req[r].kind = "create"                          -> TRUE
      [] req[r].kind \in {"submit", "update", "delete"}  -> sess[req[r].on] = "live"
      [] req[r].kind = "withdraw"                        -> evals[req[r].on].state = "stored"

\* The gate (401, 403) and the look-up (404); the row is held by the session.
Arrive(r) ==
    /\ req[r].step = "sent"
    /\ IF Admitted(r) /\ Found(r)
       THEN req' = [req EXCEPT ![r].step = "held"]
       ELSE Answers(r, FALSE)
    /\ UNCHANGED <<accounts, sess, evals, form, hitch, faults>>

\* A new session; its key is kept in the request.
Create(r) ==
    /\ req[r].kind = "create"
    /\ \E s \in Unused(sess, "none") :
        /\ sess' = [sess EXCEPT ![s] = "live"]
        /\ req' = [req EXCEPT ![r].step = "refresh", ![r].on = s, ![r].bearer = None]
    /\ UNCHANGED evals

\* Mutant: the evaluation is stored whether or not its session is still there.
StoreUnreferenced(r) ==
    /\ req[r].kind = "submit"
    /\ \E e \in Unused(evals, NoRow) :
        /\ evals' = [evals EXCEPT ![e] = [state |-> "stored", session |-> req[r].on, by |-> req[r].by]]
        /\ req' = [req EXCEPT ![r].step = "refresh", ![r].on = e]
    /\ UNCHANGED sess

\* A new evaluation, if the foreign key still finds its session.
Store(r) ==
    /\ req[r].kind = "submit"
    /\ IF sess[req[r].on] = "live"
       THEN \E e \in Unused(evals, NoRow) :
                /\ evals' = [evals EXCEPT ![e] = [state |-> "stored", session |-> req[r].on, by |-> req[r].by]]
                /\ req' = [req EXCEPT ![r].step = "refresh", ![r].on = e]
       ELSE Answers(r, FALSE) /\ UNCHANGED evals
    /\ UNCHANGED sess

\* The changed columns; an UPDATE that meets no row is a StaleDataError.
Update(r) ==
    /\ req[r].kind = "update"
    /\ IF sess[req[r].on] = "live" THEN req' = [req EXCEPT ![r].step = "refresh", ![r].bearer = None] ELSE Answers(r, FALSE)
    /\ UNCHANGED <<sess, evals>>

\* The session and, by the cascade, whatever evaluations it has by then.
Delete(r) ==
    /\ req[r].kind = "delete"
    /\ sess' = [sess EXCEPT ![req[r].on] = "gone"]
    /\ evals' = [e \in Evals |-> IF evals[e].session = req[r].on THEN [evals[e] EXCEPT !.state = "gone"] ELSE evals[e]]
    /\ Answers(r, TRUE)

\* One evaluation.
Withdraw(r) ==
    /\ req[r].kind = "withdraw"
    /\ evals' = [evals EXCEPT ![req[r].on].state = "gone"]
    /\ Answers(r, TRUE)
    /\ UNCHANGED sess

Commit(r) ==
    /\ req[r].step = "held"
    /\ Create(r) \/ Store(r) \/ Update(r) \/ Delete(r) \/ Withdraw(r)
    /\ UNCHANGED <<accounts, form, hitch, faults>>

\* The row is read back for the answer; gone meanwhile, that is an error.
Refresh(r) ==
    /\ req[r].step = "refresh"
    /\ LET present == IF req[r].kind = "submit" THEN evals[req[r].on].state = "stored"
                      ELSE sess[req[r].on] = "live"
       IN /\ Answers(r, present)
          /\ hitch' = IF req[r].kind = "submit" /\ req[r].heard /\ ~present
                      THEN [hitch EXCEPT ![req[r].by] = @ + 1] ELSE hitch
    /\ UNCHANGED <<accounts, sess, evals, form, faults>>

\* The server stops in the middle of everything and starts again.
Restart ==
    /\ faults < MaxFaults /\ faults' = faults + 1
    /\ Reseed
    /\ req' = [r \in Requests |-> Free]
    /\ form' = [f \in Forms |-> [form[f] EXCEPT !.at = IF @ = "submitting" THEN "filling" ELSE @]]
    /\ hitch' = [f \in Forms |-> hitch[f] + IF form[f].at = "submitting" THEN 1 ELSE 0]
    /\ UNCHANGED <<sess, evals>>

Next ==
    \/ AccountsNext /\ UNCHANGED <<sess, evals, form, req, hitch, faults>>
    \/ Restart
    \/ \E f \in Forms : OpenForm(f)
    \/ \E f \in Forms, r \in Requests : Submit(f, r)
    \/ \E r \in Requests, b \in Bearers : Operate(r, b)
    \/ \E r \in Requests : Arrive(r) \/ Commit(r) \/ Refresh(r) \/ Deliver(r) \/ CallFails(r)

Spec == Init /\ [][Next]_vars

-----------------------------------------------------------------------------
(* Properties.                                                              *)

RowsOf(f) == Cardinality({e \in Evals : evals[e].by = f})

\* The call whose row is stored and whose answer the form still waits for.
Pending(f) ==
    \E r \in Requests :
        /\ req[r].kind = "submit" /\ req[r].by = f /\ req[r].heard
        /\ req[r].step = "refresh" \/ (req[r].step = "answered" /\ req[r].ok)

\* Thanks mean that the evaluation was stored; and a form leaves no row more
\* than it is being told of and than it was left in doubt.
EveryRowAccountedFor ==
    \A f \in Forms :
        /\ form[f].at = "thanks" => RowsOf(f) > 0
        /\ RowsOf(f) <= hitch[f] + (IF form[f].at = "thanks" \/ Pending(f) THEN 1 ELSE 0)

\* However submissions and deletions interleave, no evaluation is left
\* without its session.
EvaluationsHaveSession ==
    \A e \in Evals : evals[e].state = "stored" => sess[evals[e].session] = "live"

\* Came with the configured token, or from who is an administrator now.
Entitled(b) == b = Static \/ (b \notin {None, Junk} /\ RoleOf(b.sub) = "admin")

\* In secure mode, whatever holds a session for writing or is about to
\* insert an account came with the configured token or from an account that
\* is an administrator's in the table now.
AdminsOnly ==
    mode = "secure" =>
        /\ \A r \in Requests : (req[r].step = "held" /\ req[r].kind # "submit") => Entitled(req[r].bearer)
        /\ \A c \in Clients : duty[c].at = "insert" => Entitled(duty[c].bearer)

=============================================================================
