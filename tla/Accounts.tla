------------------------------- MODULE Accounts -------------------------------
(***************************************************************************)
(* Accounts: registration and login (backend/app/routers/auth.py), the     *)
(* admin's user management (routers/users.py), who may call an endpoint    *)
(* (dependencies.py) and the demo seed (scripts/seed_demo_users.py).       *)
(*                                                                         *)
(* A handler reads, decides on what it read, and commits later; another    *)
(* handler or process may commit in between.  Departments of accounts are  *)
(* left out (TicketDesk has them), hashing and signing are libraries'.     *)
(***************************************************************************)
EXTENDS Absent, Naturals, Sequences

CONSTANTS
    Emails,         \* addresses people sign up with
    DemoUsers,      \* accounts the seed script wants, [email, role], in its order
    InitialUsers,   \* the accounts at the start
    GivenRoles,     \* roles an admin gives to a new account
    Bodies,         \* what an admin's PATCH may set: [role, active], None where it says nothing
    Requests,       \* requests and scripts in flight
    MaxRequests     \* bound: requests and scripts started

VARIABLES
    users,      \* the users table, in the order of insertion
    req,        \* requests in flight, of this module and of those that extend it
    started     \* requests and scripts so far

accountVars == <<users, req, started>>

Roles == {"end_user", "department_engineer", "admin", "annotator", "participant"}

Idle == [pc |-> "idle"]

IsAccount(u) == u.email \in Emails /\ u.role \in Roles /\ u.active \in BOOLEAN

AccountTypeOK ==
    /\ \A u \in DOMAIN users : IsAccount(users[u])
    /\ started \in 0 .. MaxRequests

AccountInit ==
    /\ users = InitialUsers
    /\ req = [r \in Requests |-> Idle]
    /\ started = 0

Taken(email) == \E u \in DOMAIN users : users[u].email = email

\* login, get_current_user, require_role: whoever has signed in is let in as the account is
\* now, not as the token has it.  That a token may be missing or expired only forbids more.
MayCall(u, roles) == users[u].active /\ users[u].role \in roles

End(r) == req' = [req EXCEPT ![r] = Idle]

----------------------------------------------------------------------------

Create(r, rows, by) ==
    /\ req[r] = Idle
    /\ started < MaxRequests
    /\ started' = started + 1
    /\ req' = [req EXCEPT ![r] = [pc |-> "creating", rows |-> rows, by |-> by]]
    /\ UNCHANGED users

\* register, up to the insert; by: nobody.
Register(r, email) ==
    /\ ~ Taken(email)
    /\ Create(r, <<[email |-> email, role |-> "end_user"]>>, 0)

\* create_user, up to the insert.
CreateUser(r, admin, email, role) ==
    /\ MayCall(admin, {"admin"})
    /\ ~ Taken(email)
    /\ Create(r, <<[email |-> email, role |-> role]>>, admin)

\* seed_demo_users, run by an operator (by: 0): one account of the list after another.
Seed(r) ==
    /\ req[r] = Idle
    /\ started < MaxRequests
    /\ started' = started + 1
    /\ req' = [req EXCEPT ![r] = [pc |-> "seeding", next |-> 1, rows |-> <<>>]]
    /\ UNCHANGED users

\* The look-up sees the table and, flushed before it, the script's own rows.
IsFound(email, rows) == Taken(email) \/ \E i \in DOMAIN rows : rows[i].email = email

\* An account that exists is skipped.
WithNext(rows, row) == IF IsFound(row.email, rows) THEN rows ELSE Append(rows, row)

SeedNext(r) ==
    /\ req[r].pc = "seeding"
    /\ req' = [req EXCEPT ![r] =
          IF req[r].next > Len(DemoUsers) THEN [pc |-> "creating", rows |-> req[r].rows, by |-> 0]
          ELSE [pc |-> "seeding", next |-> req[r].next + 1,
                rows |-> WithNext(req[r].rows, DemoUsers[req[r].next])]]
    /\ UNCHANGED <<users, started>>

\* The unique constraint on users.email.
Refused(rows) == \E i \in DOMAIN rows : Taken(rows[i].email)

\* All rows or none.
Created(r) ==
    /\ req[r].pc = "creating"
    /\ users' = IF Refused(req[r].rows) THEN users
                ELSE users \o [i \in DOMAIN req[r].rows |->
                                  [email |-> req[r].rows[i].email, role |-> req[r].rows[i].role, active |-> TRUE]]
    /\ End(r)
    /\ UNCHANGED started

\* Mutant: every column of the copy is written back.
Write_WholeRow(copy, asked) ==
    [role |-> IF asked.role = None THEN copy.role ELSE asked.role,
     active |-> IF asked.active = None THEN copy.active ELSE asked.active]

\* The columns an UPDATE names: those whose value differs from the copy that was read.
Write(copy, asked) ==
    [role |-> IF asked.role = copy.role THEN None ELSE asked.role,
     active |-> IF asked.active = copy.active THEN None ELSE asked.active]

\* update_user, up to the commit.
UpdateUser(r, admin, u, asked) ==
    /\ req[r] = Idle
    /\ started < MaxRequests
    /\ MayCall(admin, {"admin"})
    /\ started' = started + 1
    /\ req' = [req EXCEPT ![r] = [pc |-> "updating", user |-> u, asked |-> asked,
                                  write |-> Write(users[u], asked)]]
    /\ UNCHANGED users

\* The row u after an UPDATE of the columns w names.
Written(u, w) ==
    [email |-> u.email,
     role |-> IF w.role = None THEN u.role ELSE w.role,
     active |-> IF w.active = None THEN u.active ELSE w.active]

Updated(r) ==
    /\ req[r].pc = "updating"
    /\ users' = [users EXCEPT ![req[r].user] = Written(@, req[r].write)]
    /\ End(r)
    /\ UNCHANGED started

\* The process stops or the database refuses the commit; nothing of the request stays.
Lost(r) ==
    /\ req[r] # Idle
    /\ End(r)
    /\ UNCHANGED <<users, started>>

AccountNext ==
    \E r \in Requests :
       \/ \E email \in Emails : Register(r, email)
       \/ \E admin \in DOMAIN users :
             \/ \E email \in Emails, role \in GivenRoles : CreateUser(r, admin, email, role)
             \/ \E u \in DOMAIN users, asked \in Bodies : UpdateUser(r, admin, u, asked)
       \/ Seed(r)
       \/ SeedNext(r)
       \/ Created(r)
       \/ Updated(r)
       \/ Lost(r)

----------------------------------------------------------------------------
(* Properties *)

Asked(r, u, field, value) == req[r].pc = "updating" /\ req[r].user = u /\ req[r].asked[field] = value

IsDemo(u) == \E i \in DOMAIN DemoUsers : DemoUsers[i] = [email |-> u.email, role |-> u.role]

\* Request r is about to insert the row of account u.
Inserts(r, u) ==
    /\ req[r].pc = "creating"
    /\ \E i \in DOMAIN req[r].rows : req[r].rows[i] = [email |-> u.email, role |-> u.role]

\* What a step may do to the accounts.
KeepsAccounts ==
    /\ \A u \in DOMAIN users :
          /\ u \in DOMAIN users'
          /\ users'[u].email = users[u].email
          /\ users'[u].role # users[u].role => \E r \in Requests : Asked(r, u, "role", users'[u].role)
          /\ users'[u].active # users[u].active =>
                \E r \in Requests : Asked(r, u, "active", users'[u].active)
    /\ \A u \in DOMAIN users' \ DOMAIN users :
          /\ \A v \in DOMAIN users' : users'[v].email = users'[u].email => v = u
          /\ \E r \in Requests :
                /\ Inserts(r, users'[u])
                /\ users'[u].role = "end_user" \/ IsDemo(users'[u]) \/ req[r].by \in DOMAIN users

\* Whatever requests and scripts overlap: an address has one account; an account's role
\* and state change only to what some admin's request asked for, so that two overlapping
\* updates never undo each other; and a new account is the row that a request asked to
\* insert: a customer's, one of the demo list, or, with any other role, one that an existing
\* account (CreateUser lets only an active admin's through) asked for.
AccountsAreKept == [][KeepsAccounts]_users
=============================================================================
