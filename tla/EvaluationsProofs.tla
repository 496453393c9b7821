--------------------------- MODULE EvaluationsProofs ---------------------------
(***************************************************************************)
(* For any accounts, clients, sessions, evaluations, forms and calls: only *)
(* administrators change sessions and accounts in secure mode, no          *)
(* evaluation is left without its session, and a form leaves no more rows  *)
(* than it is told of or left in doubt about.                              *)
(***************************************************************************)
EXTENDS Evaluations, FiniteSetTheorems, TLAPS

Credentials == Token \cup {None, Static, Junk}

Duty == [at : {"rest", "issue", "insert"}, name : Names \cup {None}, role : Roles,
         bearer : Credentials]

\* Who is about to get a token has an account; who is about to insert one in
\* secure mode had the right to.
DutySound(d) ==
    /\ d \in Duty
    /\ d.at = "issue" => d.name \in Names /\ Exists(d.name)
    /\ d.at = "insert" => d.name \in Names
    /\ mode = "secure" /\ d.at = "insert" => Entitled(d.bearer)

\* Tokens tell what the table says: nobody's role ever changes, and nobody
\* goes (delete_user).
AccountsSound ==
    /\ mode \in {"demo", "secure"}
    /\ users \in [Names -> Roles \cup {"none"}]
    /\ tokens \subseteq Token
    /\ \A t \in tokens : users[t.sub] = t.role
    /\ duty \in [Clients -> Duty]
    /\ \A c \in Clients : DutySound(duty[c])

Evaluation == [state : {"none", "stored", "gone"}, session : Sessions \cup {None},
               by : Forms \cup {None}]

TablesSound ==
    /\ sess \in [Sessions -> {"none", "live", "gone"}]
    /\ evals \in [Evals -> Evaluation]
    /\ \A e \in Evals : evals[e].state = "stored" => evals[e].session \in Sessions
    /\ EvaluationsHaveSession

Call == [kind : {"none", "create", "update", "delete", "withdraw", "submit"},
         by : Forms \cup {None}, bearer : Credentials, on : Sessions \cup Evals \cup {None},
         step : {"free", "sent", "held", "refresh", "answered"},
         ok : BOOLEAN, heard : BOOLEAN]

\* A submission that has stored its row, and says so when it is answered.
Made(q) == q.step = "refresh" \/ (q.step = "answered" /\ q.ok)

\* A call that got past the gate for writing had the right to; a submission
\* is about a session until it has stored a row, and then about that row.
CallSound(q) ==
    /\ q \in Call
    /\ mode = "secure" /\ q.step = "held" /\ q.kind # "submit" => Entitled(q.bearer)
    /\ q.kind = "submit" =>
          /\ q.by \in Forms
          /\ q.step \in {"sent", "held"} => q.on \in Sessions
          /\ Made(q) => q.on \in Evals /\ evals[q.on].by = q.by

CallsSound == req \in [Requests -> Call] /\ \A r \in Requests : CallSound(req[r])

RowSet(f) == {e \in Evals : evals[e].by = f}

\* The calls whose answer the form waits for, and those it gave up that may
\* store a row yet.
Awaited(f) == {r \in Requests : req[r].kind = "submit" /\ req[r].by = f /\ req[r].heard}

Doubtful(f) == {r \in Requests : /\ req[r].kind = "submit" /\ req[r].by = f /\ ~req[r].heard
                                 /\ req[r].step \in {"sent", "held"}}

\* What the form was told or is going to be told of its rows.
Told(f) == IF form[f].at = "thanks" \/ Pending(f) THEN 1 ELSE 0

FormState == [at : {"closed", "invalid", "filling", "submitting", "thanks"},
              session : Sessions \cup {None}]

\* A form waits for one call at most, and only while it is submitting.  Every
\* row of a form, and every call that may still make one, is one it was told of
\* or one it was left in doubt about.
FormSound(f) ==
    /\ form[f].at \in {"filling", "submitting"} => form[f].session \in Sessions
    /\ IsFiniteSet(RowSet(f)) /\ IsFiniteSet(Doubtful(f))
    /\ \A r, s \in Awaited(f) : r = s
    /\ form[f].at # "submitting" => Awaited(f) = {}
    /\ form[f].at = "thanks" => RowSet(f) # {}
    /\ Cardinality(RowSet(f)) + Cardinality(Doubtful(f)) <= hitch[f] + Told(f)

FormsSound ==
    /\ form \in [Forms -> FormState]
    /\ hitch \in [Forms -> Nat]
    /\ \A f \in Forms : FormSound(f)

EvaluationInv == AccountsSound /\ TablesSound /\ CallsSound /\ FormsSound

-----------------------------------------------------------------------------
(* Accounts and gates.                                                      *)

\* Who got a token is in the table with that role, and whoever was an
\* administrator stays one.
LEMMA EntitledStays ==
    ASSUME \A n \in Names : Exists(n) => users'[n] = users[n], NEW b, Entitled(b)
    PROVE  Entitled(b)'
BY DEF Entitled, RoleOf, Exists

\* A duty stays sound while the accounts there are do not change.
LEMMA DutyStays ==
    ASSUME \A n \in Names : Exists(n) => users'[n] = users[n], mode' = mode,
           NEW d, DutySound(d)
    PROVE  DutySound(d)'
BY EntitledStays DEF DutySound, Exists

\* The gate of the writes lets nobody through who is not entitled.
LEMMA WriteGate ==
    ASSUME AccountsSound, mode = "secure", NEW b \in Credentials, AdminForWrite(b) # None
    PROVE  Entitled(b)
<1>1. AdminOrToken(b) # None
  BY DEF AdminForWrite
<1>2. CASE b = Static
  BY <1>2 DEF Entitled
<1>3. CASE b \in tokens /\ b # Static
  <2>1. b \in Token /\ users[b.sub] = b.role /\ b \notin {None, Static, Junk}
    BY <1>3, AccountAssumption DEF AccountsSound
  <2>2. AdminOrToken(b) = IF b.role = "admin" \/ RoleOf(b.sub) = "admin" THEN b.sub ELSE None
    BY <1>3, <2>1 DEF AdminOrToken
  <2>3. b.role = "admin" => RoleOf(b.sub) = "admin"
    BY <2>1 DEF RoleOf, Exists, Token
  <2>4. QED
    BY <1>1, <2>1, <2>2, <2>3 DEF Entitled
<1>4. CASE b \notin tokens /\ b # Static
  BY <1>1, <1>4 DEF AdminOrToken
<1>5. QED
  BY <1>2, <1>3, <1>4

\* In secure mode only an administrator passes the gate of the account routes.
LEMMA AccountGate ==
    ASSUME AccountsSound, mode = "secure", NEW b \in Credentials, RequireAdmin(b) # None
    PROVE  Entitled(b)
<1>1. CurrentUser(b) \notin {None, Demo} /\ RoleOf(CurrentUser(b)) = "admin"
  BY DEF RequireAdmin
<1>2. CASE b = Static
  BY <1>2 DEF Entitled
<1>3. CASE b \in tokens /\ b # Static
  <2>1. b \notin {None, Static, Junk}
    BY <1>3, AccountAssumption DEF AccountsSound
  <2>2. CurrentUser(b) = b.sub
    BY <1>3 DEF CurrentUser
  <2>3. QED
    BY <1>1, <2>1, <2>2 DEF Entitled
<1>4. CASE b \notin tokens /\ b # Static
  BY <1>1, <1>4 DEF CurrentUser
<1>5. QED
  BY <1>2, <1>3, <1>4

\* What a step on accounts keeps, and that it takes no account away.
LEMMA AccountsPreserved ==
    ASSUME AccountsSound, AccountsNext
    PROVE  /\ AccountsSound' /\ mode' = mode
           /\ \A n \in Names : Exists(n) => users'[n] = users[n]
<1>1. CASE Expire
  BY <1>1 DEF Expire, AccountsSound, DutySound, Exists, Entitled, RoleOf
<1>2. ASSUME NEW c \in Clients, Issue(c)
      PROVE  /\ AccountsSound' /\ mode' = mode
             /\ \A n \in Names : Exists(n) => users'[n] = users[n]
  <2> PICK t : t = [sub |-> duty[c].name, role |-> RoleOf(duty[c].name)]
    OBVIOUS
  <2>1. duty[c].name \in Names /\ Exists(duty[c].name)
    BY <1>2 DEF AccountsSound, DutySound, Issue
  <2>2. users[duty[c].name] \in Roles /\ RoleOf(duty[c].name) = users[duty[c].name]
    BY <2>1 DEF AccountsSound, Exists, RoleOf
  <2>3. t \in Token /\ users[t.sub] = t.role
    BY <2>1, <2>2 DEF Token
  <2>4. tokens' = tokens \cup {t} /\ UNCHANGED <<mode, users>> /\ duty' = [duty EXCEPT ![c] = Resting]
    BY <1>2 DEF Issue
  <2>5. Resting \in Duty /\ Resting.at = "rest"
    BY DEF Resting, Duty, Roles, Credentials
  <2>6. QED
    BY <2>3, <2>4, <2>5 DEF AccountsSound, DutySound, Exists, Entitled, RoleOf
<1>3. ASSUME NEW c \in Clients, InsertAccount(c)
      PROVE  /\ AccountsSound' /\ mode' = mode
             /\ \A n \in Names : Exists(n) => users'[n] = users[n]
  <2>1. /\ UNCHANGED <<mode, tokens>> /\ duty' = [duty EXCEPT ![c] = Resting]
        /\ users' = IF Exists(duty[c].name) THEN users
                    ELSE [users EXCEPT ![duty[c].name] = duty[c].role]
    BY <1>3 DEF InsertAccount
  <2>2. Resting \in Duty /\ Resting.at = "rest"
    BY DEF Resting, Duty, Roles, Credentials
  <2>3. duty[c].name \in Names /\ duty[c].role \in Roles
    BY <1>3 DEF InsertAccount, AccountsSound, DutySound, Duty
  <2>4. users' \in [Names -> Roles \cup {"none"}]
    BY <2>1, <2>3 DEF AccountsSound
  <2>5. \A n \in Names : Exists(n) => users'[n] = users[n]
    BY <2>1 DEF AccountsSound, Exists
  <2>6. ASSUME NEW t \in tokens' PROVE users'[t.sub] = t.role
    BY <2>1, <2>5 DEF AccountsSound, Token, Exists, Roles
  <2>7. DutySound(Resting)'
    BY <2>2 DEF DutySound
  <2>8. \A d : DutySound(d) => DutySound(d)'
    BY <2>1, <2>5, DutyStays
  <2>9. /\ duty' \in [Clients -> Duty] /\ duty'[c] = Resting
        /\ \A d \in Clients \ {c} : duty'[d] = duty[d]
    BY <2>1, <2>2 DEF AccountsSound
  <2>10. \A d \in Clients : DutySound(duty[d])'
    <3> TAKE d \in Clients
    <3>1. CASE d = c
      BY <2>7, <2>9, <3>1 DEF DutySound
    <3>2. CASE d # c
      <4> PICK x : x = duty[d]
        OBVIOUS
      <4>1. DutySound(x)'
        BY <2>8 DEF AccountsSound
      <4>2. QED
        BY <2>9, <3>2, <4>1 DEF DutySound
    <3>3. QED
      BY <3>1, <3>2
  <2>11. QED
    BY <2>1, <2>4, <2>5, <2>6, <2>9, <2>10 DEF AccountsSound
<1>4. ASSUME NEW c \in Clients, NEW n \in Names, Verify(c, n)
      PROVE  /\ AccountsSound' /\ mode' = mode
             /\ \A m \in Names : Exists(m) => users'[m] = users[m]
  <2> PICK d : d = [Resting EXCEPT !.at = "issue", !.name = n]
    OBVIOUS
  <2>1. d \in Duty /\ d.at = "issue" /\ d.name = n
    BY DEF Resting, Duty, Roles, Credentials
  <2>2. duty' = [duty EXCEPT ![c] = d] /\ UNCHANGED <<mode, users, tokens>> /\ Exists(n)
    BY <1>4 DEF Verify
  <2>3. QED
    BY <2>1, <2>2 DEF AccountsSound, DutySound, Exists, Entitled, RoleOf
<1>5. ASSUME NEW c \in Clients, NEW b \in Bearers, NEW n \in Names, NEW role \in Roles,
             AskAccount(c, b, n, role)
      PROVE  /\ AccountsSound' /\ mode' = mode
             /\ \A m \in Names : Exists(m) => users'[m] = users[m]
  <2> PICK d : d = [at |-> "insert", name |-> n, role |-> role, bearer |-> b]
    OBVIOUS
  <2>1. b \in Credentials
    BY DEF Bearers, Credentials, AccountsSound
  <2>2. d \in Duty /\ d.at = "insert" /\ d.name = n /\ d.bearer = b
    BY <2>1 DEF Duty
  <2>3. duty' = [duty EXCEPT ![c] = d] /\ UNCHANGED <<mode, users, tokens>> /\ RequireAdmin(b) # None
    BY <1>5 DEF AskAccount
  <2>4. mode = "secure" => Entitled(b)
    BY <2>1, <2>3, AccountGate
  <2>5. QED
    BY <2>2, <2>3, <2>4 DEF AccountsSound, DutySound, Exists, Entitled, RoleOf
<1>6. ASSUME NEW b \in Bearers, NEW n \in Names, DeleteAccount(b, n)
      PROVE  /\ AccountsSound' /\ mode' = mode
             /\ \A m \in Names : Exists(m) => users'[m] = users[m]
  BY <1>6 DEF DeleteAccount, accounts, AccountsSound, DutySound, Exists, Entitled, RoleOf
<1>7. QED
  BY <1>1, <1>2, <1>3, <1>4, <1>5, <1>6 DEF AccountsNext

-----------------------------------------------------------------------------
(* Calls and forms.                                                         *)

\* So does a call, while accounts and the authors of evaluations do not change.
LEMMA CallStays ==
    ASSUME \A n \in Names : Exists(n) => users'[n] = users[n], mode' = mode,
           \A e \in Evals : evals[e].by # None => evals'[e].by = evals[e].by,
           NEW q, CallSound(q)
    PROVE  CallSound(q)'
BY EntitledStays, EvaluationAssumption DEF CallSound, Made

\* The same of all calls a step leaves alone.
LEMMA OthersStay ==
    ASSUME CallsSound, NEW r \in Requests, NEW q, CallSound(q)', req' = [req EXCEPT ![r] = q],
           \A n \in Names : Exists(n) => users'[n] = users[n], mode' = mode,
           \A e \in Evals : evals[e].by # None => evals'[e].by = evals[e].by
    PROVE  /\ CallsSound' /\ req'[r] = q
           /\ \A s \in Requests \ {r} : req'[s] = req[s]
<1>1. q \in Call
  BY DEF CallSound
<1>2. /\ req' \in [Requests -> Call] /\ req'[r] = q
      /\ \A s \in Requests \ {r} : req'[s] = req[s]
  BY <1>1 DEF CallsSound
<1>3. \A s \in Requests : CallSound(req[s])'
  <2> TAKE s \in Requests
  <2>1. CASE s = r
    BY <1>2, <2>1 DEF CallSound
  <2>2. CASE s # r
    <3> PICK x : x = req[s]
      OBVIOUS
    <3>1. CallSound(x)'
      BY CallStays DEF CallsSound
    <3>2. QED
      BY <1>2, <2>2, <3>1 DEF CallSound
  <2>3. QED
    BY <2>1, <2>2
<1>4. QED
  BY <1>2, <1>3 DEF CallsSound

\* The counts of a form's requests and rows are numbers.
LEMMA Counts ==
    ASSUME NEW f \in Forms, FormSound(f), hitch \in [Forms -> Nat]
    PROVE  /\ Cardinality(RowSet(f)) \in Nat /\ Cardinality(Doubtful(f)) \in Nat
           /\ hitch[f] \in Nat /\ Told(f) \in {0, 1}
BY FS_CardinalityType DEF FormSound, Told

\* A new element makes a finite set larger by one.
LEMMA OneMore ==
    ASSUME NEW S, IsFiniteSet(S), NEW x, x \notin S, NEW T, T = S \cup {x}
    PROVE  IsFiniteSet(T) /\ Cardinality(T) = Cardinality(S) + 1
BY FS_AddElement

\* A form stays sound when no call of it starts, ends or stores a row.
LEMMA FormEased ==
    ASSUME NEW f \in Forms, FormSound(f), hitch \in [Forms -> Nat],
           form'[f] = form[f], hitch'[f] = hitch[f],
           RowSet(f)' = RowSet(f), Awaited(f)' \subseteq Awaited(f),
           Doubtful(f)' \subseteq Doubtful(f), Pending(f)' <=> Pending(f)
    PROVE  FormSound(f)'
<1>1. IsFiniteSet(Doubtful(f)') /\ Cardinality(Doubtful(f)') <= Cardinality(Doubtful(f))
  BY FS_Subset DEF FormSound
<1>2. Told(f)' = Told(f)
  BY DEF Told
<1>3. Cardinality(Doubtful(f)') \in Nat
  BY <1>1, FS_CardinalityType
<1>4. Cardinality(RowSet(f)') + Cardinality(Doubtful(f)') <= hitch'[f] + Told(f)'
  <2>1. Cardinality(RowSet(f)) + Cardinality(Doubtful(f)) <= hitch[f] + Told(f)
    BY DEF FormSound
  <2>2. QED
    BY <1>1, <1>2, <1>3, <2>1, Counts
<1>5. QED
  BY <1>1, <1>4 DEF FormSound

\* Whether a call is one of a form's, and how it counts there.
Waits(q, f) == q.kind = "submit" /\ q.by = f /\ q.heard

MayStore(q, f) == q.kind = "submit" /\ q.by = f /\ ~q.heard /\ q.step \in {"sent", "held"}

\* What is known of a form's calls is known call by call.
LEMMA FormCalls ==
    ASSUME NEW f
    PROVE  /\ Awaited(f) = {r \in Requests : Waits(req[r], f)}
           /\ Doubtful(f) = {r \in Requests : MayStore(req[r], f)}
           /\ Pending(f) <=> \E r \in Requests : Waits(req[r], f) /\ Made(req[r])
           /\ Awaited(f)' = {r \in Requests : Waits(req'[r], f)}
           /\ Doubtful(f)' = {r \in Requests : MayStore(req'[r], f)}
           /\ Pending(f)' <=> \E r \in Requests : Waits(req'[r], f) /\ Made(req'[r])
BY DEF Awaited, Doubtful, Pending, Waits, MayStore, Made

\* One call changes to what counts no more, and as made no less, for the form.
LEMMA CallEased ==
    ASSUME NEW f \in Forms, FormSound(f), hitch \in [Forms -> Nat],
           form'[f] = form[f], hitch'[f] = hitch[f], RowSet(f)' = RowSet(f),
           NEW r \in Requests, \A s \in Requests \ {r} : req'[s] = req[s],
           Waits(req'[r], f) => Waits(req[r], f),
           MayStore(req'[r], f) => MayStore(req[r], f),
           Waits(req'[r], f) /\ Made(req'[r]) <=> Waits(req[r], f) /\ Made(req[r])
    PROVE  FormSound(f)'
BY FormCalls, FormEased

\* Nothing a form depends on changes.
LEMMA FormUntouched ==
    ASSUME NEW f \in Forms, FormSound(f), hitch \in [Forms -> Nat],
           UNCHANGED req, form'[f] = form[f], hitch'[f] = hitch[f], RowSet(f)' = RowSet(f)
    PROVE  FormSound(f)'
BY FormEased, FormCalls

-----------------------------------------------------------------------------
(* The invariant, step by step.                                             *)

\* Nothing is evaluated at first.
LEMMA InvInit == Init => EvaluationInv
<1> SUFFICES ASSUME Init PROVE EvaluationInv
  OBVIOUS
<1>1. Resting \in Duty /\ Resting.at = "rest"
  BY DEF Resting, Duty, Roles, Credentials
<1>2. AccountsSound
  <2>1. users \in [Names -> Roles \cup {"none"}]
    BY DEF Init, AccountsInit, Roles
  <2>2. duty \in [Clients -> Duty] /\ \A c \in Clients : DutySound(duty[c])
    BY <1>1 DEF Init, AccountsInit, DutySound
  <2>3. QED
    BY <2>1, <2>2 DEF Init, AccountsInit, AccountsSound
<1>3. NoRow \in Evaluation /\ NoRow.state = "none" /\ NoRow.by = None
  BY DEF NoRow, Evaluation
<1>4. TablesSound
  BY <1>3 DEF Init, TablesSound, EvaluationsHaveSession
<1>5. Free \in Call /\ Free.kind = "none" /\ Free.step = "free"
  BY DEF Free, Call, Credentials
<1>6. CallsSound
  BY <1>5 DEF Init, CallsSound, CallSound
<1>7. Closed \in FormState /\ Closed.at = "closed"
  BY DEF Closed, FormState
<1>8. FormsSound
  <2>1. form \in [Forms -> FormState] /\ hitch \in [Forms -> Nat]
    BY <1>7 DEF Init
  <2>2. ASSUME NEW f \in Forms PROVE FormSound(f)
    <3>1. RowSet(f) = {} /\ Awaited(f) = {} /\ Doubtful(f) = {} /\ ~Pending(f)
      BY <1>3, <1>5, EvaluationAssumption DEF Init, RowSet, Awaited, Doubtful, Pending
    <3>2. form[f].at = "closed" /\ hitch[f] = 0 /\ Told(f) = 0
      BY <1>7, <3>1 DEF Init, Told
    <3>3. IsFiniteSet({}) /\ Cardinality({}) = 0
      BY FS_EmptySet
    <3>4. QED
      BY <3>1, <3>2, <3>3 DEF FormSound
  <2>3. QED
    BY <2>1, <2>2 DEF FormsSound
<1>9. QED
  BY <1>2, <1>4, <1>6, <1>8 DEF EvaluationInv

\* The invariant survives a step of the accounts ...
LEMMA AccountStepPreserves ==
    ASSUME EvaluationInv, AccountsNext, UNCHANGED <<sess, evals, form, req, hitch, faults>>
    PROVE  EvaluationInv'
<1>1. /\ AccountsSound' /\ mode' = mode
      /\ \A n \in Names : Exists(n) => users'[n] = users[n]
  BY AccountsPreserved DEF EvaluationInv
<1>2. TablesSound'
  BY DEF EvaluationInv, TablesSound, EvaluationsHaveSession
<1>3. CallsSound'
  <2>1. \A q : CallSound(q) => CallSound(q)'
    BY <1>1, CallStays
  <2>2. ASSUME NEW r \in Requests PROVE CallSound(req[r])'
    <3> PICK q : q = req[r]
      OBVIOUS
    <3>1. CallSound(q)'
      BY <2>1 DEF EvaluationInv, CallsSound
    <3>2. QED
      BY <3>1 DEF CallSound
  <2>3. QED
    BY <2>2 DEF EvaluationInv, CallsSound
<1>4. FormsSound'
  <2>1. ASSUME NEW f \in Forms PROVE FormSound(f)'
    BY FormUntouched DEF EvaluationInv, FormsSound, RowSet
  <2>2. QED
    BY <2>1 DEF EvaluationInv, FormsSound
<1>5. QED
  BY <1>1, <1>2, <1>3, <1>4 DEF EvaluationInv

\* What is left to show of a step that touches neither accounts nor tables.
LEMMA QuietPreserves ==
    ASSUME EvaluationInv, UNCHANGED <<accounts, sess, evals>>, CallsSound', FormsSound'
    PROVE  EvaluationInv'
<1>1. AccountsSound'
  BY DEF EvaluationInv, accounts, AccountsSound, DutySound, Exists, Entitled, RoleOf
<1>2. TablesSound'
  BY DEF EvaluationInv, TablesSound, EvaluationsHaveSession
<1>3. QED
  BY <1>1, <1>2 DEF EvaluationInv

\* ... a form that is opened ...
LEMMA OpenFormPreserves ==
    ASSUME EvaluationInv, NEW f \in Forms, OpenForm(f)
    PROVE  EvaluationInv'
<1>1. PICK s \in Listed :
         form' = [form EXCEPT ![f] = [at |-> IF sess[s] = "live" THEN "filling" ELSE "invalid", session |-> s]]
  BY DEF OpenForm
<1> PICK new : new = [at |-> IF sess[s] = "live" THEN "filling" ELSE "invalid", session |-> s]
  OBVIOUS
<1>2. form[f].at = "closed" /\ UNCHANGED <<accounts, sess, evals, req, hitch, faults>>
  BY DEF OpenForm, Closed
<1>3. new \in FormState /\ new.at \in {"filling", "invalid"} /\ new.session \in Sessions
  BY DEF FormState, Listed
<1>4. /\ form' \in [Forms -> FormState] /\ form'[f] = new /\ hitch \in [Forms -> Nat]
      /\ \A g \in Forms \ {f} : form'[g] = form[g]
  BY <1>1, <1>3 DEF EvaluationInv, FormsSound
<1>5. ASSUME NEW g \in Forms PROVE FormSound(g)'
  <2>1. FormSound(g) /\ RowSet(g)' = RowSet(g)
    BY <1>2 DEF EvaluationInv, FormsSound, RowSet
  <2>2. CASE g # f
    BY <1>2, <1>4, <2>1, <2>2, FormUntouched
  <2>3. CASE g = f
    <3>1. /\ Awaited(f)' = Awaited(f) /\ Doubtful(f)' = Doubtful(f) /\ Pending(f)' = Pending(f)
          /\ RowSet(f)' = RowSet(f) /\ hitch' = hitch
      BY <1>2, <2>1, <2>3 DEF Awaited, Doubtful, Pending
    <3>2. Told(f)' = Told(f)
      BY <1>2, <1>3, <1>4, <3>1 DEF Told
    <3>3. Awaited(f) = {}
      BY <1>2, <2>1, <2>3 DEF FormSound
    <3>4. QED
      BY <1>3, <1>4, <2>1, <2>3, <3>1, <3>2, <3>3 DEF FormSound
  <2>4. QED
    BY <2>2, <2>3
<1>6. FormsSound'
  BY <1>2, <1>4, <1>5 DEF FormsSound
<1>7. CallsSound'
  BY <1>2 DEF EvaluationInv, CallsSound, CallSound, Made, Entitled, RoleOf, Exists, accounts
<1>8. QED
  BY <1>2, <1>6, <1>7, QuietPreserves

\* A step of one call that leaves forms alone and stores no evaluation.
LEMMA TableCallPreserves ==
    ASSUME EvaluationInv, NEW r \in Requests, NEW q, CallSound(q),
           req' = [req EXCEPT ![r] = q], UNCHANGED <<accounts, form, hitch>>,
           TablesSound', \A e \in Evals : evals'[e].by = evals[e].by,
           \A f \in Forms : /\ Waits(q, f) => Waits(req[r], f)
                            /\ MayStore(q, f) => MayStore(req[r], f)
                            /\ Waits(q, f) /\ Made(q) <=> Waits(req[r], f) /\ Made(req[r])
    PROVE  EvaluationInv'
<1>1. /\ mode' = mode /\ \A n \in Names : Exists(n) => users'[n] = users[n]
  BY DEF accounts
<1>2. CallSound(q)'
  BY <1>1, CallStays
<1>3. /\ CallsSound' /\ req'[r] = q
      /\ \A s \in Requests \ {r} : req'[s] = req[s]
  BY <1>1, <1>2, OthersStay DEF EvaluationInv
<1>4. ASSUME NEW f \in Forms PROVE FormSound(f)'
  <2>1. FormSound(f) /\ hitch \in [Forms -> Nat] /\ RowSet(f)' = RowSet(f)
    BY DEF EvaluationInv, FormsSound, RowSet
  <2>2. QED
    BY <1>3, <2>1, CallEased
<1>5. FormsSound'
  BY <1>4 DEF EvaluationInv, FormsSound
<1>6. AccountsSound'
  BY DEF EvaluationInv, accounts, AccountsSound, DutySound, Exists, Entitled, RoleOf
<1>7. QED
  BY <1>3, <1>5, <1>6 DEF EvaluationInv

\* A step of one call that leaves forms and tables alone.
LEMMA CallPreserves ==
    ASSUME EvaluationInv, NEW r \in Requests, NEW q, CallSound(q),
           req' = [req EXCEPT ![r] = q],
           UNCHANGED <<accounts, sess, evals, form, hitch>>,
           \A f \in Forms : /\ Waits(q, f) => Waits(req[r], f)
                            /\ MayStore(q, f) => MayStore(req[r], f)
                            /\ Waits(q, f) /\ Made(q) <=> Waits(req[r], f) /\ Made(req[r])
    PROVE  EvaluationInv'
<1>1. TablesSound'
  BY DEF EvaluationInv, TablesSound, EvaluationsHaveSession
<1>2. QED
  BY <1>1, TableCallPreserves

\* A new call of an operator's page or of another client.
LEMMA OperatePreserves ==
    ASSUME EvaluationInv, NEW r \in Requests, NEW b \in Bearers, Operate(r, b)
    PROVE  EvaluationInv'
<1>1. UNCHANGED <<accounts, sess, evals, form, hitch>>
  BY DEF Operate
<1>2. PICK kind \in {"create", "update", "delete", "withdraw"}, on \in Sessions \cup Evals \cup {None} :
         Calls(r, kind, None, b, on)
  BY DEF Operate, EditSessions, DeleteResponse, Listed, ListedRows
<1> PICK q : q = [Free EXCEPT !.kind = kind, !.by = None, !.bearer = b, !.on = on, !.step = "sent"]
  OBVIOUS
<1>3. req[r] = Free /\ req' = [req EXCEPT ![r] = q]
  BY <1>2 DEF Calls
<1>4. b \in Credentials
  BY DEF Bearers, Credentials, EvaluationInv, AccountsSound
<1>5. q \in Call /\ q.kind = kind /\ q.step = "sent"
  BY <1>4 DEF Free, Call, Credentials
<1>6. CallSound(q)
  BY <1>5 DEF CallSound
<1>7. \A f \in Forms : ~Waits(q, f) /\ ~MayStore(q, f) /\ ~Waits(req[r], f)
  BY <1>3, <1>5 DEF Waits, MayStore, Free
<1>8. QED
  BY <1>1, <1>3, <1>6, <1>7, CallPreserves

\* A call is refused, or past its gate.
LEMMA ArrivePreserves ==
    ASSUME EvaluationInv, NEW r \in Requests, Arrive(r)
    PROVE  EvaluationInv'
<1> PICK x : x = req[r]
  OBVIOUS
<1>1. CallSound(x) /\ x \in Call /\ x.step = "sent" /\ req \in [Requests -> Call]
      /\ UNCHANGED <<accounts, sess, evals, form, hitch>>
  BY DEF Arrive, EvaluationInv, CallsSound, CallSound
<1>2. CASE Admitted(r) /\ Found(r)
  <2> PICK q : q = [x EXCEPT !.step = "held"]
    OBVIOUS
  <2>1. req' = [req EXCEPT ![r] = q]
    BY <1>1, <1>2 DEF Arrive
  <2>2. /\ q \in Call /\ q.step = "held" /\ q.kind = x.kind /\ q.by = x.by /\ q.on = x.on
        /\ q.bearer = x.bearer /\ q.heard = x.heard
    BY <1>1 DEF Call
  <2>3. mode = "secure" /\ q.kind # "submit" => Entitled(q.bearer)
    <3>1. q.kind # "submit" => AdminForWrite(q.bearer) # None
      BY <1>2, <2>2 DEF Admitted
    <3>2. q.bearer \in Credentials
      BY <2>2 DEF Call
    <3>3. QED
      BY <3>1, <3>2, WriteGate DEF EvaluationInv
  <2>4. CallSound(q)
    BY <1>1, <2>2, <2>3 DEF CallSound, Made
  <2>5. \A f \in Forms : /\ Waits(q, f) <=> Waits(x, f)
                         /\ MayStore(q, f) <=> MayStore(x, f)
                         /\ ~Made(q) /\ ~Made(x)
    BY <1>1, <2>2 DEF Waits, MayStore, Made
  <2>6. QED
    BY <1>1, <2>1, <2>4, <2>5, CallPreserves
<1>3. CASE ~(Admitted(r) /\ Found(r))
  <2> PICK q : q = [x EXCEPT !.step = "answered", !.ok = FALSE, !.bearer = None]
    OBVIOUS
  <2>1. req' = [req EXCEPT ![r] = q]
    BY <1>1, <1>3 DEF Arrive, Answers, Call
  <2>2. /\ q \in Call /\ q.step = "answered" /\ q.kind = x.kind /\ q.by = x.by /\ q.on = x.on
        /\ ~q.ok /\ q.heard = x.heard
    BY <1>1 DEF Call, Credentials
  <2>3. CallSound(q)
    BY <1>1, <2>2 DEF CallSound, Made
  <2>4. \A f \in Forms : /\ Waits(q, f) <=> Waits(x, f)
                         /\ ~MayStore(q, f) /\ ~Made(q) /\ ~Made(x)
    BY <1>1, <2>2 DEF Waits, MayStore, Made
  <2>5. QED
    BY <1>1, <2>1, <2>3, <2>4, CallPreserves
<1>4. QED
  BY <1>2, <1>3

\* What answering does to a call.
LEMMA Answered ==
    ASSUME EvaluationInv, NEW r \in Requests, NEW ok \in BOOLEAN, Answers(r, ok)
    PROVE  \E q \in Call :
              /\ req' = [req EXCEPT ![r] = q]
              /\ q.step = "answered" /\ q.kind = req[r].kind /\ q.by = req[r].by
              /\ q.on = req[r].on /\ q.ok = ok /\ q.heard = req[r].heard
<1> PICK q : q = [req[r] EXCEPT !.step = "answered", !.ok = ok, !.bearer = None]
  OBVIOUS
<1>1. req[r] \in Call /\ req \in [Requests -> Call]
  BY DEF EvaluationInv, CallsSound
<1>2. /\ req' = [req EXCEPT ![r] = q]
      /\ q \in Call /\ q.step = "answered" /\ q.kind = req[r].kind /\ q.by = req[r].by
      /\ q.on = req[r].on /\ q.ok = ok /\ q.heard = req[r].heard
  BY <1>1 DEF Answers, Call, Credentials
<1>3. QED
  BY <1>2

\* ... a session that is created ...
LEMMA CreatePreserves ==
    ASSUME EvaluationInv, NEW r \in Requests, req[r].step = "held", Create(r),
           UNCHANGED <<accounts, form, hitch, faults>>
    PROVE  EvaluationInv'
<1> PICK x : x = req[r]
  OBVIOUS
<1>1. x \in Call /\ x.kind = "create" /\ req \in [Requests -> Call] /\ UNCHANGED evals
  BY DEF Create, EvaluationInv, CallsSound
<1>2. PICK s \in Sessions :
         /\ sess[s] = "none" /\ sess' = [sess EXCEPT ![s] = "live"]
         /\ req' = [req EXCEPT ![r].step = "refresh", ![r].on = s, ![r].bearer = None]
  BY DEF Create, Unused, EvaluationInv, TablesSound
<1> PICK q : q = [x EXCEPT !.step = "refresh", !.on = s, !.bearer = None]
  OBVIOUS
<1>3. req' = [req EXCEPT ![r] = q]
  BY <1>1, <1>2 DEF Call
<1>4. q \in Call /\ q.step = "refresh" /\ q.kind = "create"
  BY <1>1 DEF Call, Credentials
<1>5. CallSound(q) /\ \A f \in Forms : ~Waits(q, f) /\ ~MayStore(q, f) /\ ~Waits(x, f)
  BY <1>1, <1>4 DEF CallSound, Waits, MayStore
<1>6. TablesSound'
  BY <1>1, <1>2 DEF EvaluationInv, TablesSound, EvaluationsHaveSession
<1>7. QED
  BY <1>1, <1>3, <1>5, <1>6, TableCallPreserves

\* ... a row whose columns are changed ...
LEMMA UpdatePreserves ==
    ASSUME EvaluationInv, NEW r \in Requests, req[r].step = "held", Update(r),
           UNCHANGED <<accounts, form, hitch, faults>>
    PROVE  EvaluationInv'
<1> PICK x : x = req[r]
  OBVIOUS
<1>1. x \in Call /\ x.kind = "update" /\ req \in [Requests -> Call] /\ UNCHANGED <<sess, evals>>
  BY DEF Update, EvaluationInv, CallsSound
<1>2. PICK q \in Call : q.kind = "update" /\ q.step # "held" /\ req' = [req EXCEPT ![r] = q]
  <2>1. CASE sess[x.on] = "live"
    <3> PICK q : q = [x EXCEPT !.step = "refresh", !.bearer = None]
      OBVIOUS
    <3>1. req' = [req EXCEPT ![r] = q]
      BY <1>1, <2>1 DEF Update, Call
    <3>2. q \in Call /\ q.kind = "update" /\ q.step # "held"
      BY <1>1 DEF Call, Credentials
    <3>3. QED
      BY <3>1, <3>2
  <2>2. CASE sess[x.on] # "live"
    <3>1. Answers(r, FALSE)
      BY <2>2 DEF Update
    <3>2. PICK q \in Call : /\ req' = [req EXCEPT ![r] = q] /\ q.kind = req[r].kind
                           /\ q.step = "answered"
      BY <3>1, Answered
    <3>3. QED
      BY <1>1, <3>2
  <2>3. QED
    BY <2>1, <2>2
<1>3. CallSound(q) /\ \A f \in Forms : ~Waits(q, f) /\ ~MayStore(q, f) /\ ~Waits(x, f)
  BY <1>1, <1>2 DEF CallSound, Waits, MayStore
<1>4. QED
  BY <1>1, <1>2, <1>3, CallPreserves

\* The cascade takes exactly the evaluations of the session that goes.
LEMMA DeletePreserves ==
    ASSUME EvaluationInv, NEW r \in Requests, req[r].step = "held", Delete(r) \/ Withdraw(r),
           UNCHANGED <<accounts, form, hitch, faults>>
    PROVE  EvaluationInv'
<1> PICK x : x = req[r]
  OBVIOUS
<1>1. Answers(r, TRUE) /\ x.kind # "submit"
  BY DEF Delete, Withdraw
<1>2. PICK q \in Call : req' = [req EXCEPT ![r] = q] /\ q.kind = x.kind /\ q.step = "answered"
  BY <1>1, Answered
<1>3. CallSound(q) /\ \A f \in Forms : ~Waits(q, f) /\ ~MayStore(q, f) /\ ~Waits(x, f)
  BY <1>1, <1>2 DEF CallSound, Waits, MayStore
<1>4. TablesSound' /\ \A e \in Evals : evals'[e].by = evals[e].by
  <2>1. /\ sess \in [Sessions -> {"none", "live", "gone"}] /\ evals \in [Evals -> Evaluation]
        /\ \A e \in Evals : evals[e].state = "stored" =>
              evals[e].session \in Sessions /\ sess[evals[e].session] = "live"
    BY DEF EvaluationInv, TablesSound, EvaluationsHaveSession
  <2>2. \A e \in Evals :
           /\ evals'[e] = evals[e] \/ evals'[e] = [evals[e] EXCEPT !.state = "gone"]
           /\ evals[e].session = x.on /\ Delete(r) => evals'[e] = [evals[e] EXCEPT !.state = "gone"]
    <3>1. CASE Delete(r)
      BY <2>1, <3>1 DEF Delete
    <3>2. CASE Withdraw(r)
      <4>1. evals' = [evals EXCEPT ![x.on].state = "gone"] /\ ~Delete(r)
        BY <3>2 DEF Delete, Withdraw
      <4>2. QED
        BY <2>1, <4>1
    <3>3. QED
      BY <3>1, <3>2
  <2>3. \A e \in Evals :
           /\ evals'[e] \in Evaluation /\ evals'[e].by = evals[e].by
           /\ evals'[e].session = evals[e].session
           /\ evals'[e].state = "stored" => evals[e].state = "stored"
           /\ evals[e].session = x.on /\ Delete(r) => evals'[e].state = "gone"
    <3> TAKE e \in Evals
    <3> PICK row, new : row = evals[e] /\ new = evals'[e]
      OBVIOUS
    <3>1. row \in Evaluation /\ (new = row \/ new = [row EXCEPT !.state = "gone"])
      BY <2>1, <2>2
    <3>2. /\ new \in Evaluation /\ new.by = row.by /\ new.session = row.session
          /\ new.state = "stored" => row.state = "stored"
      BY <3>1 DEF Evaluation
    <3>3. row.session = x.on /\ Delete(r) => new.state = "gone"
      BY <2>2, <3>1 DEF Evaluation
    <3>4. QED
      BY <3>2, <3>3
  <2>4. evals' \in [Evals -> Evaluation] /\ sess' \in [Sessions -> {"none", "live", "gone"}]
    BY <2>1, <2>3 DEF Delete, Withdraw
  <2>5. ASSUME NEW e \in Evals, evals'[e].state = "stored"
        PROVE  evals'[e].session \in Sessions /\ sess'[evals'[e].session] = "live"
    <3>1. /\ evals[e].session \in Sessions /\ sess[evals[e].session] = "live"
          /\ evals'[e].session = evals[e].session
          /\ Delete(r) => evals[e].session # x.on
      BY <2>1, <2>3, <2>5
    <3>2. sess' = sess \/ (Delete(r) /\ sess' = [sess EXCEPT ![x.on] = "gone"])
      BY DEF Delete, Withdraw
    <3>3. QED
      BY <2>1, <3>1, <3>2
  <2>6. QED
    BY <2>3, <2>4, <2>5 DEF TablesSound, EvaluationsHaveSession
<1>5. QED
  BY <1>2, <1>3, <1>4, TableCallPreserves DEF Delete, Withdraw

\* The foreign key holds: the session of a row that is stored is there.
LEMMA StoreTables ==
    ASSUME EvaluationInv, NEW f \in Forms, NEW s \in Sessions, sess[s] = "live",
           NEW e \in Evals, evals[e] = NoRow, UNCHANGED sess, NEW row \in Evaluation,
           row.session = s, row.by = f, row.state = "stored",
           evals' = [evals EXCEPT ![e] = row]
    PROVE  /\ TablesSound' /\ e \notin RowSet(f) /\ RowSet(f)' = RowSet(f) \cup {e}
           /\ evals'[e].by = f
           /\ \A x \in Evals : evals[x].by # None => evals'[x].by = evals[x].by
           /\ \A g \in Forms \ {f} : RowSet(g)' = RowSet(g)
<1>1. /\ evals' \in [Evals -> Evaluation] /\ evals'[e] = row
      /\ \A x \in Evals \ {e} : evals'[x] = evals[x]
  BY DEF EvaluationInv, TablesSound
<1>2. evals[e].by = None /\ None \notin Forms
  BY EvaluationAssumption DEF NoRow
<1>3. TablesSound'
  BY <1>1 DEF EvaluationInv, TablesSound, EvaluationsHaveSession
<1>4. QED
  BY <1>1, <1>2, <1>3 DEF RowSet

\* ... and an evaluation that is stored.
LEMMA StorePreserves ==
    ASSUME EvaluationInv, NEW r \in Requests, req[r].step = "held", Store(r),
           UNCHANGED <<accounts, form, hitch, faults>>
    PROVE  EvaluationInv'
<1> PICK x : x = req[r]
  OBVIOUS
<1>1. x \in Call /\ CallSound(x) /\ x.kind = "submit" /\ x.step = "held" /\ req \in [Requests -> Call]
      /\ x.by \in Forms /\ x.on \in Sessions
  BY DEF Store, EvaluationInv, CallsSound, CallSound
<1>2. CASE sess[x.on] # "live"
  <2>1. Answers(r, FALSE) /\ UNCHANGED <<sess, evals>>
    BY <1>2 DEF Store
  <2>2. PICK q \in Call :
           /\ req' = [req EXCEPT ![r] = q] /\ q.step = "answered" /\ q.kind = x.kind /\ q.by = x.by
           /\ q.on = x.on /\ ~q.ok /\ q.heard = x.heard
    BY <2>1, Answered
  <2>3. CallSound(q)
    BY <1>1, <2>2 DEF CallSound, Made
  <2>4. \A f \in Forms : /\ Waits(q, f) <=> Waits(x, f)
                         /\ ~MayStore(q, f) /\ ~Made(q) /\ ~Made(x)
    BY <1>1, <2>2 DEF Waits, MayStore, Made
  <2>5. QED
    BY <1>1, <2>1, <2>2, <2>3, <2>4, CallPreserves
<1>3. CASE sess[x.on] = "live"
  <2>1. PICK e \in Evals :
           /\ evals[e] = NoRow
           /\ evals' = [evals EXCEPT ![e] = [state |-> "stored", session |-> x.on, by |-> x.by]]
           /\ req' = [req EXCEPT ![r].step = "refresh", ![r].on = e]
    BY <1>3 DEF Store, Unused, EvaluationInv, TablesSound
  <2> PICK q : q = [x EXCEPT !.step = "refresh", !.on = e]
    OBVIOUS
  <2> PICK f \in Forms : f = x.by
    BY <1>1
  <2>2. req' = [req EXCEPT ![r] = q] /\ UNCHANGED sess
    BY <1>1, <2>1 DEF Call, Store
  <2>3. /\ q \in Call /\ q.step = "refresh" /\ q.kind = "submit" /\ q.by = f /\ q.on = e
        /\ q.heard = x.heard
    BY <1>1 DEF Call
  <2>4. /\ TablesSound' /\ e \notin RowSet(f) /\ RowSet(f)' = RowSet(f) \cup {e}
        /\ evals'[e].by = f
        /\ \A y \in Evals : evals[y].by # None => evals'[y].by = evals[y].by
        /\ \A g \in Forms \ {f} : RowSet(g)' = RowSet(g)
    <3> PICK s \in Sessions : s = x.on
      BY <1>1
    <3>1. sess[s] = "live" /\ evals[e] = NoRow /\ UNCHANGED sess
      BY <1>3, <2>1, <2>2
    <3> PICK row : row = [state |-> "stored", session |-> s, by |-> f]
      OBVIOUS
    <3>2. row \in Evaluation /\ row.session = s /\ row.by = f /\ row.state = "stored"
      BY DEF Evaluation
    <3>3. evals' = [evals EXCEPT ![e] = row]
      BY <2>1
    <3>4. QED
      BY <3>1, <3>2, <3>3, StoreTables
  <2>5. CallSound(q)'
    BY <2>3, <2>4 DEF CallSound, Made
  <2>6. mode' = mode /\ \A n \in Names : Exists(n) => users'[n] = users[n]
    BY DEF accounts
  <2>7. CallsSound' /\ req'[r] = q /\ \A s \in Requests \ {r} : req'[s] = req[s]
    BY <2>2, <2>4, <2>5, <2>6, OthersStay DEF EvaluationInv
  <2>8. ASSUME NEW g \in Forms \ {f} PROVE FormSound(g)'
    <3>1. ~Waits(q, g) /\ ~MayStore(q, g) /\ ~Waits(x, g)
      BY <1>1, <2>3 DEF Waits, MayStore
    <3>2. FormSound(g) /\ hitch \in [Forms -> Nat]
      BY DEF EvaluationInv, FormsSound
    <3>3. QED
      BY <2>4, <2>7, <3>1, <3>2, CallEased
  <2>9. FormSound(f)'
    <3>1. FormSound(f) /\ hitch \in [Forms -> Nat]
      BY DEF EvaluationInv, FormsSound
    <3>2. IsFiniteSet(RowSet(f)') /\ Cardinality(RowSet(f)') = Cardinality(RowSet(f)) + 1
      <4> PICK S, T : S = RowSet(f) /\ T = RowSet(f)'
        OBVIOUS
      <4>1. IsFiniteSet(S)
        BY <3>1 DEF FormSound
      <4>2. e \notin S /\ T = S \cup {e}
        BY <2>4
      <4>3. IsFiniteSet(T) /\ Cardinality(T) = Cardinality(S) + 1
        BY <4>1, <4>2, OneMore
      <4>4. QED
        BY <4>3
    <3>3. CASE x.heard
      <4>1. Waits(x, f) /\ Waits(q, f) /\ ~MayStore(x, f) /\ ~MayStore(q, f) /\ ~Made(x) /\ Made(q)
        BY <1>1, <2>3, <3>3 DEF Waits, MayStore, Made
      <4>2. Awaited(f)' = Awaited(f) /\ Doubtful(f)' = Doubtful(f) /\ r \in Awaited(f)
        <5>1. ASSUME NEW s \in Requests
              PROVE  /\ Waits(req'[s], f) <=> Waits(req[s], f)
                     /\ MayStore(req'[s], f) <=> MayStore(req[s], f)
          <6>1. CASE s = r
            BY <2>7, <4>1, <6>1
          <6>2. CASE s # r
            BY <2>7, <6>2
          <6>3. QED
            BY <6>1, <6>2
        <5>2. Awaited(f)' = Awaited(f)
          BY <5>1, FormCalls
        <5>3. Doubtful(f)' = Doubtful(f)
          BY <5>1, FormCalls
        <5>4. r \in Awaited(f)
          BY <4>1, FormCalls
        <5>5. QED
          BY <5>2, <5>3, <5>4
      <4>3. Pending(f)'
        BY <2>7, <4>1, FormCalls
      <4>4. ~Pending(f)
        BY <3>1, <4>1, <4>2, FormCalls DEF FormSound
      <4>5. form[f].at = "submitting" /\ form' = form /\ hitch' = hitch
        BY <3>1, <4>2 DEF FormSound
      <4>6. Told(f) = 0 /\ Told(f)' = 1
        BY <4>3, <4>4, <4>5 DEF Told
      <4>7. Cardinality(RowSet(f)') + Cardinality(Doubtful(f)') <= hitch'[f] + Told(f)'
        <5>1. Cardinality(RowSet(f)) + Cardinality(Doubtful(f)) <= hitch[f]
          BY <3>1, <4>6, Counts DEF FormSound
        <5>2. QED
          BY <3>1, <3>2, <4>2, <4>5, <4>6, <5>1, Counts
      <4>8. QED
        BY <3>1, <3>2, <4>2, <4>5, <4>7 DEF FormSound
    <3>4. CASE ~x.heard
      <4>1. ~Waits(x, f) /\ ~Waits(q, f) /\ MayStore(x, f) /\ ~MayStore(q, f)
        BY <1>1, <2>3, <3>4 DEF Waits, MayStore
      <4>2. Awaited(f)' = Awaited(f) /\ Doubtful(f)' = Doubtful(f) \ {r} /\ r \in Doubtful(f)
            /\ (Pending(f)' <=> Pending(f))
        <5>1. \A s \in Requests :
                 /\ Waits(req'[s], f) <=> Waits(req[s], f)
                 /\ MayStore(req'[s], f) <=> MayStore(req[s], f) /\ s # r
                 /\ Waits(req[s], f) => req'[s] = req[s]
          BY <2>7, <4>1
        <5>2. Awaited(f)' = Awaited(f)
          BY <5>1, FormCalls
        <5>3. Doubtful(f)' = Doubtful(f) \ {r}
          BY <5>1, FormCalls
        <5>4. r \in Doubtful(f)
          BY <4>1, FormCalls
        <5>5. Pending(f)' <=> Pending(f)
          BY <5>1, FormCalls
        <5>6. QED
          BY <5>2, <5>3, <5>4, <5>5
      <4>3. IsFiniteSet(Doubtful(f)') /\ Cardinality(Doubtful(f)') = Cardinality(Doubtful(f)) - 1
        BY <3>1, <4>2, FS_RemoveElement DEF FormSound
      <4>4. form' = form /\ hitch' = hitch /\ Told(f)' = Told(f)
        BY <4>2 DEF Told
      <4>5. Cardinality(RowSet(f)') + Cardinality(Doubtful(f)') <= hitch'[f] + Told(f)'
        <5>1. Cardinality(RowSet(f)) + Cardinality(Doubtful(f)) <= hitch[f] + Told(f)
          BY <3>1 DEF FormSound
        <5>2. QED
          BY <3>1, <3>2, <4>3, <4>4, <5>1, Counts
      <4>6. QED
        BY <3>1, <3>2, <4>2, <4>3, <4>4, <4>5, <2>4 DEF FormSound
    <3>5. QED
      BY <3>3, <3>4
  <2>10. FormsSound'
    BY <2>8, <2>9 DEF EvaluationInv, FormsSound
  <2>11. AccountsSound'
    BY DEF EvaluationInv, accounts, AccountsSound, DutySound, Exists, Entitled, RoleOf
  <2>12. QED
    BY <2>4, <2>7, <2>10, <2>11 DEF EvaluationInv
<1>4. QED
  BY <1>2, <1>3

\* A call of one form leaves the other forms sound.
LEMMA OtherForms ==
    ASSUME EvaluationInv, NEW r \in Requests, NEW f, UNCHANGED evals,
           \A s \in Requests \ {r} : req'[s] = req[s],
           \A g \in Forms \ {f} :
              /\ form'[g] = form[g] /\ hitch'[g] = hitch[g]
              /\ ~Waits(req[r], g) /\ ~Waits(req'[r], g) /\ ~MayStore(req'[r], g)
    PROVE  \A g \in Forms \ {f} : FormSound(g)'
<1> SUFFICES ASSUME NEW g \in Forms \ {f} PROVE FormSound(g)'
  OBVIOUS
<1>1. FormSound(g) /\ hitch \in [Forms -> Nat] /\ RowSet(g)' = RowSet(g)
  BY DEF EvaluationInv, FormsSound, RowSet
<1>2. QED
  BY <1>1, CallEased

\* When a call of a form changes, with the form's state and its doubts, only
\* that form is left to look at.
LEMMA FormCallChanges ==
    ASSUME EvaluationInv, NEW r \in Requests, NEW q, CallSound(q), NEW f \in Forms,
           req' = [req EXCEPT ![r] = q], UNCHANGED <<accounts, sess, evals>>,
           \A g \in Forms \ {f} : ~Waits(req[r], g) /\ ~Waits(q, g) /\ ~MayStore(q, g),
           NEW new \in FormState, form' = [form EXCEPT ![f] = new],
           NEW doubts \in Nat, hitch' = [hitch EXCEPT ![f] = doubts]
    PROVE  FormSound(f)' => EvaluationInv'
<1>1. /\ mode' = mode /\ \A n \in Names : Exists(n) => users'[n] = users[n]
      /\ \A e \in Evals : evals[e].by # None => evals'[e].by = evals[e].by
  BY DEF accounts
<1>2. CallSound(q)'
  BY <1>1, CallStays
<1>3. /\ CallsSound' /\ req'[r] = q
      /\ \A s \in Requests \ {r} : req'[s] = req[s]
  BY <1>1, <1>2, OthersStay DEF EvaluationInv
<1>4. /\ form' \in [Forms -> FormState] /\ hitch' \in [Forms -> Nat]
      /\ form'[f] = new /\ hitch'[f] = doubts
      /\ \A g \in Forms \ {f} : form'[g] = form[g] /\ hitch'[g] = hitch[g]
  BY DEF EvaluationInv, FormsSound
<1>5. \A g \in Forms \ {f} : FormSound(g)'
  BY <1>3, <1>4, OtherForms
<1>6. FormSound(f)' => FormsSound'
  BY <1>4, <1>5 DEF FormsSound
<1>7. QED
  BY <1>3, <1>4, <1>6, QuietPreserves

\* The only call a form waits for, and what it has made.
LEMMA TheCall ==
    ASSUME EvaluationInv, NEW r \in Requests, NEW f \in Forms, Waits(req[r], f)
    PROVE  /\ FormSound(f) /\ form[f].at = "submitting" /\ form[f].session \in Sessions
           /\ Awaited(f) = {r} /\ (Pending(f) <=> Made(req[r]))
           /\ Told(f) = IF Made(req[r]) THEN 1 ELSE 0
           /\ Cardinality(RowSet(f)) + Cardinality(Doubtful(f)) <= hitch[f] + Told(f)
           /\ Cardinality(RowSet(f)) \in Nat /\ Cardinality(Doubtful(f)) \in Nat /\ hitch[f] \in Nat
<1>1. FormSound(f) /\ hitch \in [Forms -> Nat]
  BY DEF EvaluationInv, FormsSound
<1>2. r \in Awaited(f)
  BY FormCalls
<1>3. form[f].at = "submitting" /\ Awaited(f) = {r} /\ form[f].session \in Sessions
  BY <1>1, <1>2 DEF FormSound
<1>4. Pending(f) <=> Made(req[r])
  <2>1. \A s \in Requests : Waits(req[s], f) => s = r
    BY <1>3, FormCalls
  <2>2. QED
    BY <2>1, FormCalls
<1>5. Told(f) = IF Made(req[r]) THEN 1 ELSE 0
  BY <1>3, <1>4 DEF Told
<1>6. QED
  BY <1>1, <1>3, <1>4, <1>5, Counts DEF FormSound

\* It survives a row that is read back for the answer ...
LEMMA RefreshPreserves ==
    ASSUME EvaluationInv, NEW r \in Requests, Refresh(r)
    PROVE  EvaluationInv'
<1> PICK x : x = req[r]
  OBVIOUS
<1>1. x \in Call /\ CallSound(x) /\ x.step = "refresh" /\ req \in [Requests -> Call]
      /\ UNCHANGED <<accounts, sess, evals, form, faults>>
  BY DEF Refresh, EvaluationInv, CallsSound, CallSound
<1>2. PICK present \in BOOLEAN :
         /\ Answers(r, present)
         /\ hitch' = IF x.kind = "submit" /\ x.heard /\ ~present
                     THEN [hitch EXCEPT ![x.by] = @ + 1] ELSE hitch
  <2> PICK present : present = IF x.kind = "submit" THEN evals[x.on].state = "stored"
                               ELSE sess[x.on] = "live"
    OBVIOUS
  <2>1. present \in BOOLEAN
    OBVIOUS
  <2>2. QED
    BY <2>1 DEF Refresh
<1>3. PICK q \in Call :
         /\ req' = [req EXCEPT ![r] = q] /\ q.step = "answered" /\ q.kind = x.kind /\ q.by = x.by
         /\ q.on = x.on /\ q.ok = present /\ q.heard = x.heard
  BY <1>2, Answered
<1>4. Made(x) /\ (Made(q) <=> present)
  BY <1>1, <1>3 DEF Made
<1>5. CallSound(q)
  BY <1>1, <1>3, <1>4 DEF CallSound
<1>6. \A f \in Forms : (Waits(q, f) <=> Waits(x, f)) /\ ~MayStore(q, f)
  BY <1>3 DEF Waits, MayStore
<1>7. CASE ~(x.kind = "submit" /\ x.heard /\ ~present)
  <2>1. \A f \in Forms : Waits(q, f) /\ Made(q) <=> Waits(x, f) /\ Made(x)
    BY <1>4, <1>6, <1>7 DEF Waits
  <2>2. UNCHANGED hitch
    BY <1>2, <1>7
  <2>3. QED
    BY <1>1, <1>3, <1>5, <1>6, <2>1, <2>2, CallPreserves
<1>8. CASE x.kind = "submit" /\ x.heard /\ ~present
  <2> PICK f : f = x.by
    OBVIOUS
  <2> PICK doubts : doubts = hitch[f] + 1
    OBVIOUS
  <2>1. f \in Forms /\ Waits(x, f) /\ Waits(q, f) /\ ~MayStore(x, f) /\ ~Made(q)
    BY <1>1, <1>3, <1>4, <1>8 DEF CallSound, Waits, MayStore
  <2>2. hitch' = [hitch EXCEPT ![f] = doubts] /\ doubts \in Nat
    BY <1>2, <1>8, <2>1 DEF EvaluationInv, FormsSound
  <2> PICK new : new = form[f]
    OBVIOUS
  <2>3. form' = [form EXCEPT ![f] = new] /\ new \in FormState
    BY <1>1, <2>1 DEF EvaluationInv, FormsSound
  <2>4. \A g \in Forms \ {f} : ~Waits(x, g) /\ ~Waits(q, g) /\ ~MayStore(q, g)
    BY <1>3 DEF Waits, MayStore
  <2>5. /\ req'[r] = q /\ \A s \in Requests \ {r} : req'[s] = req[s]
        /\ form'[f] = new /\ hitch'[f] = doubts
        /\ FormSound(f)' => EvaluationInv'
    <3>1. f \in Forms /\ new \in FormState /\ doubts \in Nat /\ CallSound(q)
      BY <1>5, <2>1, <2>2, <2>3
    <3>2. UNCHANGED <<accounts, sess, evals>>
      BY <1>1
    <3>3. /\ req' = [req EXCEPT ![r] = q] /\ form' = [form EXCEPT ![f] = new]
          /\ hitch' = [hitch EXCEPT ![f] = doubts]
      BY <1>3, <2>2, <2>3
    <3>4. \A g \in Forms \ {f} : ~Waits(req[r], g) /\ ~Waits(q, g) /\ ~MayStore(q, g)
      BY <2>4
    <3>5. req'[r] = q /\ \A s \in Requests \ {r} : req'[s] = req[s]
      BY <1>1, <3>3
    <3>6. form'[f] = new /\ hitch'[f] = doubts
      BY <3>1, <3>3 DEF EvaluationInv, FormsSound
    <3>7. FormSound(f)' => EvaluationInv'
      BY <3>1, <3>2, <3>3, <3>4, FormCallChanges
    <3>8. QED
      BY <3>5, <3>6, <3>7
  <2>6. FormSound(f)'
    <3>0. RowSet(f)' = RowSet(f)
      BY <1>1 DEF RowSet
    <3>1. /\ FormSound(f) /\ form[f].at = "submitting" /\ form[f].session \in Sessions
          /\ Awaited(f) = {r} /\ Told(f) = 1
          /\ Cardinality(RowSet(f)) + Cardinality(Doubtful(f)) <= hitch[f] + 1
      BY <1>4, <2>1, TheCall
    <3>2. \A s \in Requests : /\ Waits(req'[s], f) <=> Waits(req[s], f)
                              /\ MayStore(req'[s], f) <=> MayStore(req[s], f)
      BY <1>6, <2>1, <2>5
    <3>3. Awaited(f)' = {r} /\ Doubtful(f)' = Doubtful(f)
      BY <3>1, <3>2, FormCalls
    <3>4. Told(f)' \in {0, 1}
      BY DEF Told
    <3>5. Cardinality(RowSet(f)') + Cardinality(Doubtful(f)') <= hitch'[f] + Told(f)'
      <4>1. Cardinality(RowSet(f)') + Cardinality(Doubtful(f)') <= hitch'[f]
        BY <2>5, <3>0, <3>1, <3>3
      <4>2. hitch'[f] \in Nat
        BY <2>2, <2>5
      <4>3. Cardinality(RowSet(f)') \in Nat /\ Cardinality(Doubtful(f)') \in Nat
        BY <2>1, <3>0, <3>3, TheCall
      <4>4. QED
        BY <3>4, <4>1, <4>2, <4>3
    <3>6. QED
      BY <2>5, <3>0, <3>1, <3>3, <3>5 DEF FormSound
  <2>7. QED
    BY <2>5, <2>6
<1>9. QED
  BY <1>7, <1>8

\* ... a form that is submitted ...
LEMMA SubmitPreserves ==
    ASSUME EvaluationInv, NEW f \in Forms, NEW r \in Requests, Submit(f, r)
    PROVE  EvaluationInv'
<1> PICK q : q = [Free EXCEPT !.kind = "submit", !.by = f, !.bearer = None,
                              !.on = form[f].session, !.step = "sent"]
  OBVIOUS
<1> PICK old, new : old = form[f] /\ new = [old EXCEPT !.at = "submitting"]
  OBVIOUS
<1> PICK doubts : doubts = hitch[f]
  OBVIOUS
<1>1. /\ FormSound(f) /\ old \in FormState /\ old.at = "filling" /\ old.session \in Sessions
      /\ req \in [Requests -> Call] /\ req[r] = Free
      /\ form \in [Forms -> FormState] /\ hitch \in [Forms -> Nat]
      /\ UNCHANGED <<accounts, sess, evals, hitch>>
  BY DEF Submit, Calls, EvaluationInv, FormsSound, CallsSound, FormSound
<1>2. /\ new \in FormState /\ new.at = "submitting" /\ new.session \in Sessions
  BY <1>1 DEF FormState
<1>3. /\ q \in Call /\ q.kind = "submit" /\ q.by = f /\ q.on \in Sessions /\ q.step = "sent"
      /\ q.heard
  BY <1>1 DEF Free, Call, Credentials
<1>4. /\ req' = [req EXCEPT ![r] = q] /\ form' = [form EXCEPT ![f] = new]
      /\ hitch' = [hitch EXCEPT ![f] = doubts] /\ doubts \in Nat
  BY <1>1 DEF Submit, Calls
<1>5. CallSound(q) /\ ~Made(q) /\ ~Waits(Free, f) /\ Waits(q, f) /\ ~MayStore(Free, f) /\ ~MayStore(q, f)
  BY <1>3 DEF CallSound, Made, Waits, MayStore, Free
<1>6. \A g \in Forms \ {f} : ~Waits(req[r], g) /\ ~Waits(q, g) /\ ~MayStore(q, g)
  BY <1>1, <1>3 DEF Waits, MayStore, Free
<1>7. req'[r] = q /\ \A s \in Requests \ {r} : req'[s] = req[s]
  BY <1>1, <1>4
<1>8. form'[f] = new /\ hitch'[f] = hitch[f]
  BY <1>1, <1>4
<1>9. FormSound(f)'
  <2>1. RowSet(f)' = RowSet(f)
    BY <1>1 DEF RowSet
  <2>2. Awaited(f) = {} /\ ~Pending(f)
    <3>1. Awaited(f) = {}
      BY <1>1 DEF FormSound
    <3>2. QED
      BY <3>1, FormCalls
  <2>3. \A s \in Requests : ~Waits(req[s], f)
    BY <2>2, FormCalls
  <2>4. Awaited(f)' = {r}
    BY <1>5, <1>7, <2>3, FormCalls
  <2>5. Doubtful(f)' = Doubtful(f)
    <3>1. \A s \in Requests : MayStore(req'[s], f) <=> MayStore(req[s], f)
      BY <1>1, <1>5, <1>7
    <3>2. QED
      BY <3>1, FormCalls
  <2>6. ~Pending(f)'
    BY <1>5, <1>7, <2>3, FormCalls
  <2>7. Told(f) = 0 /\ Told(f)' = 0
    BY <1>1, <1>2, <1>8, <2>2, <2>6 DEF Told
  <2>8. QED
    BY <1>1, <1>2, <1>8, <2>1, <2>4, <2>5, <2>7 DEF FormSound
<1>10. UNCHANGED <<accounts, sess, evals>>
  BY <1>1
<1>11. QED
  BY <1>2, <1>4, <1>5, <1>6, <1>9, <1>10, FormCallChanges

\* ... an answer that arrives ...
LEMMA DeliverPreserves ==
    ASSUME EvaluationInv, NEW r \in Requests, Deliver(r)
    PROVE  EvaluationInv'
<1> PICK x : x = req[r]
  OBVIOUS
<1>1. /\ x \in Call /\ CallSound(x) /\ x.step = "answered" /\ req \in [Requests -> Call]
      /\ UNCHANGED <<accounts, sess, evals, hitch>> /\ req' = [req EXCEPT ![r] = Free]
  BY DEF Deliver, EvaluationInv, CallsSound, CallSound
<1>2. Free \in Call /\ Free.kind = "none" /\ Free.step = "free"
  BY DEF Free, Call, Credentials
<1>3. CallSound(Free) /\ ~Made(Free) /\ \A f : ~Waits(Free, f) /\ ~MayStore(Free, f)
  BY <1>2 DEF CallSound, Made, Waits, MayStore
<1>4. CASE ~(x.kind = "submit" /\ x.heard)
  <2>1. UNCHANGED form /\ \A f \in Forms : ~Waits(x, f)
    BY <1>4 DEF Deliver, Waits
  <2>2. QED
    BY <1>1, <1>3, <2>1, CallPreserves
<1>5. CASE x.kind = "submit" /\ x.heard
  <2> PICK f : f = x.by
    OBVIOUS
  <2> PICK at : at = IF x.ok THEN "thanks" ELSE "filling"
    OBVIOUS
  <2> PICK old, new : old = form[f] /\ new = [old EXCEPT !.at = at]
    OBVIOUS
  <2> PICK doubts : doubts = hitch[f]
    OBVIOUS
  <2>1. f \in Forms /\ Waits(x, f) /\ ~MayStore(x, f) /\ (Made(x) <=> x.ok)
    BY <1>1, <1>5 DEF CallSound, Waits, MayStore, Made
  <2>2. form \in [Forms -> FormState] /\ hitch \in [Forms -> Nat]
    BY DEF EvaluationInv, FormsSound
  <2>3. /\ FormSound(f) /\ form[f].at = "submitting" /\ form[f].session \in Sessions
        /\ Awaited(f) = {r} /\ Told(f) = IF x.ok THEN 1 ELSE 0
        /\ Cardinality(RowSet(f)) + Cardinality(Doubtful(f)) <= hitch[f] + Told(f)
    BY <2>1, TheCall
  <2>4. new \in FormState /\ new.at = at /\ new.session \in Sessions
    BY <2>1, <2>2, <2>3 DEF FormState
  <2>5. form' = [form EXCEPT ![f] = new] /\ hitch' = [hitch EXCEPT ![f] = doubts] /\ doubts \in Nat
    BY <1>1, <1>5, <2>1, <2>2 DEF Deliver, FormState
  <2>6. \A g \in Forms \ {f} : ~Waits(req[r], g) /\ ~Waits(Free, g) /\ ~MayStore(Free, g)
    BY <1>3 DEF Waits
  <2>7. req'[r] = Free /\ \A s \in Requests \ {r} : req'[s] = req[s]
    BY <1>1, <1>2
  <2>8. form'[f] = new /\ hitch'[f] = hitch[f]
    BY <2>1, <2>2, <2>5
  <2>9. FormSound(f)'
    <3>1. RowSet(f)' = RowSet(f)
      BY <1>1 DEF RowSet
    <3>2. \A s \in Requests : Waits(req[s], f) => s = r
      BY <2>3, FormCalls
    <3>3. \A s \in Requests : ~Waits(req'[s], f)
      BY <1>3, <2>7, <3>2
    <3>4. Awaited(f)' = {} /\ ~Pending(f)'
      BY <3>3, FormCalls
    <3>5. \A s \in Requests : MayStore(req'[s], f) <=> MayStore(req[s], f)
      BY <1>3, <2>1, <2>7
    <3>6. Doubtful(f)' = Doubtful(f)
      BY <3>5, FormCalls
    <3>7. Told(f)' = Told(f)
      BY <2>3, <2>4, <2>8, <3>4 DEF Told
    <3>8. x.ok => RowSet(f) # {}
      BY <1>1, <1>5, <2>1 DEF CallSound, RowSet
    <3>9. at \in {"thanks", "filling"} /\ (at = "thanks" => x.ok)
      OBVIOUS
    <3>10. QED
      BY <2>3, <2>4, <2>8, <3>1, <3>4, <3>6, <3>7, <3>8, <3>9 DEF FormSound
  <2>10. UNCHANGED <<accounts, sess, evals>>
    BY <1>1
  <2>11. QED
    BY <1>1, <1>3, <2>1, <2>4, <2>5, <2>6, <2>9, <2>10, FormCallChanges
<1>6. QED
  BY <1>4, <1>5

\* ... and one that is lost or late.
LEMMA CallFailsPreserves ==
    ASSUME EvaluationInv, NEW r \in Requests, CallFails(r)
    PROVE  EvaluationInv'
<1> PICK x : x = req[r]
  OBVIOUS
<1> PICK f : f = x.by
  OBVIOUS
<1> PICK q : q = [x EXCEPT !.heard = FALSE]
  OBVIOUS
<1> PICK old, new : old = form[f] /\ new = [old EXCEPT !.at = "filling"]
  OBVIOUS
<1> PICK doubts : doubts = hitch[f] + 1
  OBVIOUS
<1>1. /\ x \in Call /\ CallSound(x) /\ x.kind = "submit" /\ x.heard /\ req \in [Requests -> Call]
      /\ UNCHANGED <<accounts, sess, evals>>
  BY DEF CallFails, EvaluationInv, CallsSound, CallSound
<1>2. f \in Forms /\ Waits(x, f) /\ ~MayStore(x, f)
  BY <1>1 DEF CallSound, Waits, MayStore
<1>3. form \in [Forms -> FormState] /\ hitch \in [Forms -> Nat]
  BY DEF EvaluationInv, FormsSound
<1>4. /\ FormSound(f) /\ form[f].at = "submitting" /\ form[f].session \in Sessions
      /\ Awaited(f) = {r} /\ Told(f) = IF Made(x) THEN 1 ELSE 0
      /\ Cardinality(RowSet(f)) + Cardinality(Doubtful(f)) <= hitch[f] + Told(f)
      /\ Cardinality(RowSet(f)) \in Nat /\ Cardinality(Doubtful(f)) \in Nat /\ hitch[f] \in Nat
  BY <1>2, TheCall
<1>5. /\ q \in Call /\ q.kind = "submit" /\ q.by = f /\ q.on = x.on /\ q.step = x.step
      /\ q.ok = x.ok /\ ~q.heard /\ q.bearer = x.bearer
  BY <1>1 DEF Call
<1>6. CallSound(q) /\ ~Waits(q, f) /\ (MayStore(q, f) <=> x.step \in {"sent", "held"})
  BY <1>1, <1>2, <1>5 DEF CallSound, Made, Waits, MayStore
<1>7. new \in FormState /\ new.at = "filling" /\ new.session \in Sessions
  BY <1>2, <1>3, <1>4 DEF FormState
<1>8. /\ req' = [req EXCEPT ![r] = q] /\ form' = [form EXCEPT ![f] = new]
      /\ hitch' = [hitch EXCEPT ![f] = doubts] /\ doubts \in Nat
  BY <1>1, <1>2, <1>3, <1>4 DEF CallFails, FormState, Call
<1>9. \A g \in Forms \ {f} : ~Waits(req[r], g) /\ ~Waits(q, g) /\ ~MayStore(q, g)
  BY <1>5 DEF Waits, MayStore
<1>10. req'[r] = q /\ \A s \in Requests \ {r} : req'[s] = req[s]
  BY <1>1, <1>8
<1>11. form'[f] = new /\ hitch'[f] = hitch[f] + 1
  BY <1>2, <1>3, <1>8
<1>12. FormSound(f)'
  <2>1. RowSet(f)' = RowSet(f)
    BY <1>1 DEF RowSet
  <2>2. \A s \in Requests : ~Waits(req'[s], f)
    <3>1. \A s \in Requests : Waits(req[s], f) => s = r
      BY <1>4, FormCalls
    <3>2. QED
      BY <1>6, <1>10, <3>1
  <2>3. Awaited(f)' = {} /\ ~Pending(f)'
    BY <2>2, FormCalls
  <2>4. Told(f)' = 0
    BY <1>7, <1>11, <2>3 DEF Told
  <2>5. IsFiniteSet(Doubtful(f)')
        /\ Cardinality(Doubtful(f)') = Cardinality(Doubtful(f)) + (IF x.step \in {"sent", "held"} THEN 1 ELSE 0)
    <3>1. IsFiniteSet(Doubtful(f)) /\ r \notin Doubtful(f)
      BY <1>2, <1>4, FormCalls DEF FormSound
    <3>2. CASE x.step \in {"sent", "held"}
      <4>1. Doubtful(f)' = Doubtful(f) \cup {r}
        <5>1. \A s \in Requests : MayStore(req'[s], f) <=> MayStore(req[s], f) \/ s = r
          BY <1>6, <1>10, <3>2
        <5>2. QED
          BY <5>1, FormCalls
      <4>2. QED
        BY <3>1, <3>2, <4>1, OneMore
    <3>3. CASE x.step \notin {"sent", "held"}
      <4>1. Doubtful(f)' = Doubtful(f)
        <5>1. \A s \in Requests : MayStore(req'[s], f) <=> MayStore(req[s], f)
          BY <1>2, <1>6, <1>10, <3>3
        <5>2. QED
          BY <5>1, FormCalls
      <4>2. QED
        BY <1>4, <3>1, <3>3, <4>1
    <3>4. QED
      BY <3>2, <3>3
  <2>6. x.step \in {"sent", "held"} => Told(f) = 0
    BY <1>4 DEF Made
  <2>7. Cardinality(RowSet(f)') + Cardinality(Doubtful(f)') <= hitch'[f] + Told(f)'
    <3>1. Cardinality(RowSet(f)) + Cardinality(Doubtful(f)) <= hitch[f] + 1
      BY <1>4
    <3>2. QED
      BY <1>4, <1>11, <2>1, <2>4, <2>5, <2>6, <3>1
  <2>8. QED
    BY <1>4, <1>7, <1>11, <2>1, <2>3, <2>5, <2>7 DEF FormSound
<1>13. QED
  BY <1>1, <1>2, <1>6, <1>7, <1>8, <1>9, <1>12, FormCallChanges

\* Nothing of a call survives a restart; a form that was submitting is left in
\* doubt.
LEMMA RestartPreserves ==
    ASSUME EvaluationInv, Restart
    PROVE  EvaluationInv'
<1>1. /\ Reseed /\ req' = [r \in Requests |-> Free] /\ UNCHANGED <<sess, evals>>
      /\ form' = [f \in Forms |-> [form[f] EXCEPT !.at = IF @ = "submitting" THEN "filling" ELSE @]]
      /\ hitch' = [f \in Forms |-> hitch[f] + IF form[f].at = "submitting" THEN 1 ELSE 0]
  BY DEF Restart
<1>2. \A n \in Names : Exists(n) => users'[n] = users[n]
  BY <1>1 DEF Reseed, EvaluationInv, AccountsSound, Exists
<1>3. AccountsSound'
  <2>1. Resting \in Duty /\ Resting.at = "rest"
    BY DEF Resting, Duty, Roles, Credentials
  <2>2. users' \in [Names -> Roles \cup {"none"}]
    BY <1>1 DEF Reseed, EvaluationInv, AccountsSound, Roles
  <2>3. ASSUME NEW t \in tokens' PROVE users'[t.sub] = t.role
    BY <1>1, <1>2 DEF Reseed, EvaluationInv, AccountsSound, Token, Exists, Roles
  <2>4. /\ duty' = [c \in Clients |-> Resting] /\ UNCHANGED <<mode, tokens>>
    BY <1>1 DEF Reseed
  <2>5. QED
    BY <2>1, <2>2, <2>3, <2>4 DEF EvaluationInv, AccountsSound, DutySound
<1>4. TablesSound'
  BY <1>1 DEF EvaluationInv, TablesSound, EvaluationsHaveSession
<1>5. Free \in Call /\ Free.kind = "none" /\ Free.step = "free"
  BY DEF Free, Call, Credentials
<1>6. CallsSound'
  BY <1>1, <1>5 DEF CallsSound, CallSound
<1>7. ASSUME NEW f \in Forms
      PROVE  form'[f] \in FormState /\ hitch'[f] \in Nat /\ FormSound(f)'
  <2> PICK old, new : old = form[f] /\ new = [old EXCEPT !.at = IF @ = "submitting" THEN "filling" ELSE @]
    OBVIOUS
  <2>1. FormSound(f) /\ old \in FormState /\ hitch[f] \in Nat /\ hitch \in [Forms -> Nat]
    BY DEF EvaluationInv, FormsSound
  <2>2. /\ form'[f] = new /\ new \in FormState /\ new.session = old.session
        /\ new.at = IF old.at = "submitting" THEN "filling" ELSE old.at
    BY <1>1, <2>1 DEF FormState
  <2>3. hitch'[f] = hitch[f] + (IF old.at = "submitting" THEN 1 ELSE 0) /\ hitch'[f] \in Nat
    BY <1>1, <2>1
  <2>4. \A s \in Requests : ~Waits(req'[s], f) /\ ~MayStore(req'[s], f)
    BY <1>1, <1>5 DEF Waits, MayStore
  <2>5. Awaited(f)' = {} /\ Doubtful(f)' = {} /\ ~Pending(f)' /\ RowSet(f)' = RowSet(f)
    BY <1>1, <2>4, FormCalls DEF RowSet
  <2>6. IsFiniteSet(Doubtful(f)') /\ Cardinality(Doubtful(f)') = 0
    BY <2>5, FS_EmptySet
  <2>7. Cardinality(RowSet(f)) <= hitch[f] + Told(f)
    BY <2>1, Counts DEF FormSound
  <2>8. Cardinality(RowSet(f)) <= hitch'[f] + Told(f)'
    <3>1. CASE old.at = "submitting"
      <4>1. Told(f)' \in {0, 1} /\ hitch'[f] = hitch[f] + 1
        BY <2>3, <3>1 DEF Told
      <4>2. QED
        BY <2>1, <2>7, <4>1, Counts
    <3>2. CASE old.at # "submitting"
      <4>1. Awaited(f) = {}
        BY <2>1, <3>2 DEF FormSound
      <4>2. ~Pending(f)
        BY <4>1, FormCalls
      <4>3. Told(f)' = Told(f) /\ hitch'[f] = hitch[f]
        BY <2>1, <2>2, <2>3, <2>5, <3>2, <4>2 DEF Told
      <4>4. QED
        BY <2>7, <4>3
    <3>3. QED
      BY <3>1, <3>2
  <2>9. Cardinality(RowSet(f)') + Cardinality(Doubtful(f)') <= hitch'[f] + Told(f)'
    BY <2>1, <2>5, <2>6, <2>8, Counts
  <2>10. QED
    BY <2>1, <2>2, <2>3, <2>5, <2>6, <2>9 DEF FormSound
<1>8. FormsSound'
  <2>1. form' \in [Forms -> FormState] /\ hitch' \in [Forms -> Nat]
    BY <1>1, <1>7
  <2>2. QED
    BY <1>7, <2>1 DEF FormsSound
<1>9. QED
  BY <1>3, <1>4, <1>6, <1>8 DEF EvaluationInv

\* No step breaks the invariant.
LEMMA StepPreserves == EvaluationInv /\ [Next]_vars => EvaluationInv'
<1> SUFFICES ASSUME EvaluationInv, [Next]_vars PROVE EvaluationInv'
  OBVIOUS
<1>1. CASE Next
  <2>1. ASSUME NEW r \in Requests, Commit(r) PROVE EvaluationInv'
    BY <2>1, CreatePreserves, StorePreserves, UpdatePreserves, DeletePreserves DEF Commit
  <2>2. ASSUME NEW r \in Requests, Arrive(r) \/ Refresh(r) \/ Deliver(r) \/ CallFails(r)
        PROVE  EvaluationInv'
    BY <2>2, ArrivePreserves, RefreshPreserves, DeliverPreserves, CallFailsPreserves
  <2>3. QED
    BY <1>1, <2>1, <2>2, AccountStepPreserves, RestartPreserves, OpenFormPreserves,
       SubmitPreserves, OperatePreserves DEF Next
<1>2. CASE UNCHANGED vars
  <2>1. CallsSound'
    BY <1>2 DEF vars, accounts, EvaluationInv, CallsSound, CallSound, Entitled, RoleOf, Exists
  <2>2. FormsSound'
    <3>1. ASSUME NEW f \in Forms PROVE FormSound(f)'
      BY <1>2, FormUntouched DEF vars, EvaluationInv, FormsSound, RowSet
    <3>2. QED
      BY <1>2, <3>1 DEF vars, EvaluationInv, FormsSound
  <2>3. UNCHANGED <<accounts, sess, evals>>
    BY <1>2 DEF vars
  <2>4. QED
    BY <2>1, <2>2, <2>3, QuietPreserves
<1>3. QED
  BY <1>1, <1>2

-----------------------------------------------------------------------------
\* Accounts, tables, calls and forms agree after every step of any of them
\* (auth.py, evaluations.py).
THEOREM EvaluationsSafe == Spec => []EvaluationInv
BY InvInit, StepPreserves, PTL DEF Spec

\* In secure mode nobody but an administrator gets a call past the gate of the
\* sessions or an account inserted (require_admin_for_write, require_admin).
THEOREM OnlyAdmins == Spec => []AdminsOnly
<1>1. EvaluationInv => AdminsOnly
  BY DEF EvaluationInv, AccountsSound, DutySound, CallsSound, CallSound, AdminsOnly
<1>2. QED
  BY <1>1, EvaluationsSafe, PTL

\* No evaluation that is stored lacks its session, however many submissions and
\* deletions overlap (submit_evaluation, delete_session).
THEOREM SessionsOutlive == Spec => []EvaluationsHaveSession
<1>1. EvaluationInv => EvaluationsHaveSession
  BY DEF EvaluationInv, TablesSound
<1>2. QED
  BY <1>1, EvaluationsSafe, PTL

\* A customer who is thanked has a row, and has more rows than that only if a
\* call or an answer of his was lost (handleSubmit, submit_evaluation).
THEOREM RowsAccountedFor == Spec => []EveryRowAccountedFor
<1>1. EvaluationInv => EveryRowAccountedFor
  <2> SUFFICES ASSUME EvaluationInv, NEW f \in Forms
               PROVE  /\ form[f].at = "thanks" => RowsOf(f) > 0
                      /\ RowsOf(f) <= hitch[f] + Told(f)
    BY DEF EveryRowAccountedFor, Told
  <2>1. FormSound(f) /\ hitch \in [Forms -> Nat]
    BY DEF EvaluationInv, FormsSound
  <2>2. RowsOf(f) = Cardinality(RowSet(f))
    BY DEF RowsOf, RowSet
  <2>3. form[f].at = "thanks" => Cardinality(RowSet(f)) # 0
    BY <2>1, FS_EmptySet DEF FormSound
  <2>4. QED
    BY <2>1, <2>2, <2>3, Counts DEF FormSound
<1>2. QED
  BY <1>1, EvaluationsSafe, PTL

=============================================================================
