-------------------------------- MODULE Accounts --------------------------------
(***************************************************************************)
(* Accounts, access tokens and the gates of the API (auth.py), with the    *)
(* routes that change them.  A password is right or wrong; a token carries *)
(* the role its owner had when it was issued and lives on its own until it *)
(* expires.  Account management and sign-in are coroutines of two steps.   *)
(***************************************************************************)
EXTENDS Integers, FiniteSets

CONSTANTS Names,             \* user names
          Admin,             \* the name of the bootstrap account
          Demo,              \* the identity of demo mode
          None, Static, Junk,\* no credentials, the configured token, anything else
          Clients,           \* coroutines that sign in or manage accounts
          MaxTokens          \* bound on tokens valid at once

Roles == {"admin", "user"}

Token == [sub : Names, role : Roles]

\* No token is issued that reads like the configured one, or like nothing.
ASSUME AccountAssumption ==
    /\ Admin \in Names /\ Demo \notin Names /\ MaxTokens \in Nat
    /\ \A b \in {None, Static, Junk} : b \notin Token

VARIABLES mode,    \* settings.AUTH_MODE
          users,   \* the users table
          tokens,  \* tokens issued and not expired
          duty     \* what each client's coroutine is about to do

accounts == <<mode, users, tokens, duty>>

Exists(n) == users[n] # "none"

Bearers == tokens \cup {None, Static, Junk}

Resting == [at |-> "rest", name |-> None, role |-> "user", bearer |-> None]

\* The bootstrap account is missing when seeding it failed.
AccountsInit ==
    /\ mode \in {"demo", "secure"}
    /\ \E role \in {"none", "admin"} : users = [n \in Names |-> IF n = Admin THEN role ELSE "none"]
    /\ tokens = {}
    /\ duty = [c \in Clients |-> Resting]

-----------------------------------------------------------------------------
(* The gates: the identity they yield, None when they refuse.               *)

\* get_user_role.
RoleOf(n) == IF n \in Names /\ Exists(n) THEN users[n] ELSE "user"

\* get_current_user.
CurrentUser(b) ==
    CASE b \in tokens                     -> b.sub
      [] b \notin tokens /\ mode = "demo" -> Demo
      [] b = Static /\ mode = "secure"    -> Admin
      [] OTHER                            -> None

\* require_admin, by the table.
RequireAdmin(b) ==
    LET u == CurrentUser(b)
    IN IF u \notin {None, Demo} /\ RoleOf(u) = "admin" THEN u ELSE None

\* Mutant: any valid token will do.
AdminOrAnyToken(b) ==
    CASE b = None     -> IF mode = "demo" THEN Demo ELSE None
      [] b = Static   -> Admin
      [] b \in tokens -> b.sub
      [] OTHER        -> None

\* require_admin_or_token, by the token's claim and then by the table.
AdminOrToken(b) ==
    CASE b = None     -> IF mode = "demo" THEN Demo ELSE None
      [] b = Static   -> Admin
      [] b \in tokens -> IF b.role = "admin" \/ RoleOf(b.sub) = "admin" THEN b.sub ELSE None
      [] OTHER        -> None

\* require_admin_for_write.
AdminForWrite(b) == IF mode = "demo" THEN Demo ELSE AdminOrToken(b)

-----------------------------------------------------------------------------
(* The routes.  A refusal changes nothing.                                  *)

\* verify_credentials finds the row and the right password (and hashes one
\* of before the hardening, which changes nothing but its form).
Verify(c, n) ==
    /\ duty[c] = Resting /\ Exists(n)
    /\ duty' = [duty EXCEPT ![c] = [Resting EXCEPT !.at = "issue", !.name = n]]
    /\ UNCHANGED <<mode, users, tokens>>

\* The role is looked up and sealed into the token.
Issue(c) ==
    /\ duty[c].at = "issue" /\ Cardinality(tokens) < MaxTokens
    /\ tokens' = tokens \cup {[sub |-> duty[c].name, role |-> RoleOf(duty[c].name)]}
    /\ duty' = [duty EXCEPT ![c] = Resting]
    /\ UNCHANGED <<mode, users>>

Expire == \E t \in tokens : tokens' = tokens \ {t} /\ UNCHANGED <<mode, users, duty>>

\* create_user finds the name free.
AskAccount(c, b, n, role) ==
    /\ duty[c] = Resting /\ RequireAdmin(b) # None /\ ~Exists(n)
    /\ duty' = [duty EXCEPT ![c] = [at |-> "insert", name |-> n, role |-> role, bearer |-> b]]
    /\ UNCHANGED <<mode, users, tokens>>

\* The commit; the unique index refuses a name taken meanwhile.
InsertAccount(c) ==
    /\ duty[c].at = "insert"
    /\ users' = IF Exists(duty[c].name) THEN users
                ELSE [users EXCEPT ![duty[c].name] = duty[c].role]
    /\ duty' = [duty EXCEPT ![c] = Resting]
    /\ UNCHANGED <<mode, tokens>>

\* delete_user answers "User deleted", but nobody awaits the coroutine that
\* db.delete returns: the commit finds nothing to do.
DeleteAccount(b, n) ==
    /\ RequireAdmin(b) \notin {None, n}
    /\ Exists(n) /\ n # Admin
    /\ UNCHANGED accounts

\* seed_users when the server starts; it may fail, and the server starts.
Reseed ==
    /\ users' \in {users, [users EXCEPT ![Admin] = IF Exists(Admin) THEN @ ELSE "admin"]}
    /\ duty' = [c \in Clients |-> Resting]
    /\ UNCHANGED <<mode, tokens>>

AccountsNext ==
    \/ Expire
    \/ \E c \in Clients : Issue(c) \/ InsertAccount(c)
    \/ \E c \in Clients, n \in Names : Verify(c, n)
    \/ \E c \in Clients, b \in Bearers, n \in Names, role \in Roles : AskAccount(c, b, n, role)
    \/ \E b \in Bearers, n \in Names : DeleteAccount(b, n)

=============================================================================
