------------------------------- MODULE WebProofs -------------------------------
(***************************************************************************)
(* Proofs about three services of the web application.  Of Messages, and   *)
(* through it of Accounts: types, one account per address whatever         *)
(* requests overlap, and badges.  Of Dashboard: the numbers of its pages,  *)
(* over a desk that goes on working.  Of UserStudy: the two ticket sets (a *)
(* fold, unfolded into its intermediate results), the participants' plans, *)
(* and what requests in flight may still do to them.                       *)
(***************************************************************************)
EXTENDS Messages, Dashboard, UserStudy, FiniteSetTheorems, FunctionTheorems, SequenceTheorems, TLAPS

----------------------------------------------------------------------------
(* Accounts and messages *)

NewRow == [email : Emails, role : Roles]

AccountRow == [email : Emails, role : Roles, active : BOOLEAN]

Mail == [from : Nat, to : Nat, sent : 0 .. MaxTime, read : 0 .. MaxTime \cup {None}]

OneEach(rows) == \A i, j \in DOMAIN rows : rows[i].email = rows[j].email => i = j

\* The constants are such as the program starts with.
SaneConstants ==
    /\ MaxRequests \in Nat /\ MaxTime \in Nat
    /\ None \notin Nat
    /\ InitialUsers \in Seq(AccountRow) /\ OneEach(InitialUsers)
    /\ DemoUsers \in Seq(NewRow)
    /\ GivenRoles \subseteq Roles
    /\ Bodies \subseteq [role : Roles \cup {None}, active : BOOLEAN \cup {None}]

IsDemoRow(row) == \E k \in DOMAIN DemoUsers : DemoUsers[k] = row

RowsOK(rows) == rows \in Seq(NewRow) /\ OneEach(rows)

Justified(rows, by, us) ==
    by \in DOMAIN us \/ \A i \in DOMAIN rows : rows[i].role = "end_user" \/ IsDemoRow(rows[i])

\* What a request holds is right for the tables us and ms, also when these have grown.
RequestOK(q, us, ms) ==
    /\ q.pc \in {"idle", "seeding", "creating", "updating", "sending", "opening"}
    /\ q.pc = "idle" => q = Idle
    /\ q.pc = "seeding" => /\ q.next \in Nat \ {0} /\ RowsOK(q.rows)
                           /\ \A i \in DOMAIN q.rows : IsDemoRow(q.rows[i])
    /\ q.pc = "creating" => RowsOK(q.rows) /\ Justified(q.rows, q.by, us)
    /\ q.pc = "updating" => /\ q.user \in DOMAIN us /\ q.asked \in Bodies
                            /\ q.write.role \in {None, q.asked.role}
                            /\ q.write.active \in {None, q.asked.active}
    /\ q.pc = "sending" => q.from \in DOMAIN us /\ q.to \in DOMAIN us /\ q.sent \in 0 .. MaxTime
    /\ q.pc = "opening" => /\ q.unread \subseteq DOMAIN ms /\ q.read \in 0 .. MaxTime
                           /\ \A m \in q.unread : ms[m].sent <= q.read

UsersOK == users \in Seq(AccountRow) /\ OneEach(users) /\ started \in 0 .. MaxRequests

RequestsOK ==
    /\ DOMAIN req = Requests
    /\ \A r \in Requests : RequestOK(req[r], users, messages)

Marks(m) == {o \in opened : o[1] = m}

MailOK ==
    /\ clock \in 0 .. MaxTime
    /\ messages \in Seq(Mail)
    /\ \A r \in Requests : req[r].pc = "sending" => req[r].sent <= clock
    /\ opened \subseteq (DOMAIN messages) \X (0 .. MaxTime)
    /\ \A m \in DOMAIN messages :
          /\ messages[m].from \in DOMAIN users /\ messages[m].to \in DOMAIN users
          /\ messages[m].sent <= clock
          /\ messages[m].read = None <=> Marks(m) = {}
          /\ messages[m].read # None => /\ <<m, messages[m].read>> \in opened
                                        /\ messages[m].read >= messages[m].sent

Inv == UsersOK /\ RequestsOK /\ MailOK

----------------------------------------------------------------------------
(* Requests stay right while the tables grow *)

Grown(us, us2) == DOMAIN us \subseteq DOMAIN us2

SameMail(ms, ms2) == DOMAIN ms \subseteq DOMAIN ms2 /\ \A m \in DOMAIN ms : ms2[m].sent = ms[m].sent

\* What a request holds is not spoilt by rows that others add.
LEMMA StaysOK ==
    ASSUME NEW q, NEW us, NEW ms, NEW us2, NEW ms2,
           RequestOK(q, us, ms), Grown(us, us2), SameMail(ms, ms2)
    PROVE  RequestOK(q, us2, ms2)
BY DEF RequestOK, Grown, SameMail, Justified

\* A step that changes one request and lets the tables grow.
LEMMA OneRequest ==
    ASSUME RequestsOK, NEW r \in Requests, NEW q, req' = [req EXCEPT ![r] = q],
           RequestOK(q, users', messages'), Grown(users, users'), SameMail(messages, messages')
    PROVE  RequestsOK'
<1>1. DOMAIN req' = Requests
  BY DEF RequestsOK
<1>2. ASSUME NEW s \in Requests PROVE RequestOK(req'[s], users', messages')
  <2>1. RequestOK(req[s], users', messages')
    BY StaysOK DEF RequestsOK
  <2>2. req'[s] = IF s = r THEN q ELSE req[s]
    BY DEF RequestsOK
  <2> QED BY <2>1, <2>2
<1> QED BY <1>1, <1>2 DEF RequestsOK

LEMMA Ended ==
    ASSUME RequestsOK, NEW r \in Requests, End(r), Grown(users, users'), SameMail(messages, messages')
    PROVE  RequestsOK'
<1>1. RequestOK(Idle, users', messages')
  BY DEF RequestOK, Idle
<1> QED BY <1>1, OneRequest DEF End

\* A step that leaves the mail alone, forgets no account and sends nothing new keeps the
\* mail right.
LEMMA MailStays ==
    ASSUME MailOK, RequestsOK, NEW r \in Requests, NEW q, req' = [req EXCEPT ![r] = q],
           q.pc # "sending", UNCHANGED <<messages, clock, opened>>, Grown(users, users')
    PROVE  MailOK'
<1>1. \A s \in Requests : req'[s].pc = "sending" => req'[s].sent <= clock
  BY DEF RequestsOK, MailOK
<1>2. \A m : Marks(m)' = Marks(m)
  BY DEF Marks
<1> QED BY <1>1, <1>2 DEF MailOK, Grown

\* A step that takes up one request and touches no table keeps everything.
LEMMA OneTakenUp ==
    ASSUME Inv, NEW r \in Requests, NEW q, req' = [req EXCEPT ![r] = q],
           RequestOK(q, users, messages), q.pc # "sending",
           UNCHANGED <<users, messages, clock, opened>>, started' \in 0 .. MaxRequests
    PROVE  Inv'
<1>1. Grown(users, users') /\ SameMail(messages, messages')
  BY DEF Grown, SameMail
<1>2. RequestsOK'
  BY <1>1, OneRequest DEF Inv
<1>3. MailOK'
  BY <1>1, MailStays DEF Inv
<1>4. UsersOK'
  BY DEF Inv, UsersOK, OneEach
<1> QED BY <1>2, <1>3, <1>4 DEF Inv

----------------------------------------------------------------------------
(* Every step of the accounts *)

LEMMA StartedNext ==
    ASSUME SaneConstants, Inv, started < MaxRequests
    PROVE  started + 1 \in 0 .. MaxRequests
BY DEF SaneConstants, Inv, UsersOK

LEMMA OneRow ==
    ASSUME NEW email \in Emails, NEW role \in Roles
    PROVE  RowsOK(<<[email |-> email, role |-> role]>>)
<1> DEFINE rows == <<[email |-> email, role |-> role]>>
<1>1. rows \in Seq(NewRow) /\ Len(rows) = 1 /\ rows[1] = [email |-> email, role |-> role]
  BY DEF NewRow
<1>2. DOMAIN rows = {1}
  BY <1>1
<1> QED BY <1>1, <1>2 DEF RowsOK, OneEach

LEMMA RegisterKeeps ==
    ASSUME SaneConstants, Inv, NEW r \in Requests, NEW email \in Emails, Register(r, email),
           UNCHANGED <<messages, clock, opened>>
    PROVE  Inv'
<1> DEFINE rows == <<[email |-> email, role |-> "end_user"]>>
           q == [pc |-> "creating", rows |-> rows, by |-> 0]
<1>1. RowsOK(rows)
  BY OneRow DEF Roles
<1>2. \A i \in DOMAIN rows : rows[i].role = "end_user"
  OBVIOUS
<1>3. RequestOK(q, users, messages)
  <2> HIDE DEF rows
  <2> QED BY <1>1, <1>2 DEF RequestOK, Justified
<1>4. /\ req' = [req EXCEPT ![r] = q]
      /\ UNCHANGED users
      /\ started' \in 0 .. MaxRequests
  BY StartedNext DEF Register, Create
<1>5. q.pc # "sending"
  OBVIOUS
<1> QED BY <1>3, <1>4, <1>5, OneTakenUp

LEMMA CreateUserKeeps ==
    ASSUME SaneConstants, Inv, NEW r \in Requests, NEW admin \in DOMAIN users,
           NEW email \in Emails, NEW role \in GivenRoles, CreateUser(r, admin, email, role),
           UNCHANGED <<messages, clock, opened>>
    PROVE  Inv'
<1> DEFINE rows == <<[email |-> email, role |-> role]>>
           q == [pc |-> "creating", rows |-> rows, by |-> admin]
<1>1. RowsOK(rows)
  BY OneRow DEF SaneConstants
<1>2. RequestOK(q, users, messages)
  <2> HIDE DEF rows
  <2> QED BY <1>1 DEF RequestOK, Justified
<1>3. /\ req' = [req EXCEPT ![r] = q]
      /\ UNCHANGED users
      /\ started' \in 0 .. MaxRequests
  BY StartedNext DEF CreateUser, Create
<1>4. q.pc # "sending"
  OBVIOUS
<1> QED BY <1>2, <1>3, <1>4, OneTakenUp

LEMMA SeedKeeps ==
    ASSUME SaneConstants, Inv, NEW r \in Requests, Seed(r), UNCHANGED <<messages, clock, opened>>
    PROVE  Inv'
<1> DEFINE q == [pc |-> "seeding", next |-> 1, rows |-> <<>>]
<1>1. RowsOK(<<>>) /\ DOMAIN <<>> = {}
  BY DEF RowsOK, OneEach
<1>2. RequestOK(q, users, messages)
  BY <1>1 DEF RequestOK
<1>3. /\ req' = [req EXCEPT ![r] = q]
      /\ UNCHANGED users
      /\ started' \in 0 .. MaxRequests
  BY StartedNext DEF Seed
<1>4. q.pc # "sending"
  OBVIOUS
<1> QED BY <1>2, <1>3, <1>4, OneTakenUp

LEMMA UpdateUserKeeps ==
    ASSUME SaneConstants, Inv, NEW r \in Requests, NEW admin \in DOMAIN users,
           NEW u \in DOMAIN users, NEW asked \in Bodies, UpdateUser(r, admin, u, asked),
           UNCHANGED <<messages, clock, opened>>
    PROVE  Inv'
<1> DEFINE w == Write(users[u], asked)
           q == [pc |-> "updating", user |-> u, asked |-> asked, write |-> w]
<1>1. w.role \in {None, asked.role} /\ w.active \in {None, asked.active}
  BY DEF Write
<1>2. RequestOK(q, users, messages)
  <2> HIDE DEF w
  <2> QED BY <1>1 DEF RequestOK
<1>3. /\ req' = [req EXCEPT ![r] = q]
      /\ UNCHANGED users
      /\ started' \in 0 .. MaxRequests
  BY StartedNext DEF UpdateUser
<1>4. q.pc # "sending"
  OBVIOUS
<1> QED BY <1>2, <1>3, <1>4, OneTakenUp

LEMMA LostKeeps ==
    ASSUME Inv, NEW r \in Requests, Lost(r), UNCHANGED <<messages, clock, opened>>
    PROVE  Inv'
<1>1. RequestOK(Idle, users, messages) /\ Idle.pc # "sending"
  BY DEF RequestOK, Idle
<1>2. req' = [req EXCEPT ![r] = Idle] /\ UNCHANGED users /\ started' \in 0 .. MaxRequests
  BY DEF Lost, End, Inv, UsersOK
<1> QED BY <1>1, <1>2, OneTakenUp

\* Each account a script collects is of its list, and no address is collected twice.
LEMMA WithNextOK ==
    ASSUME NEW rows, RowsOK(rows), \A i \in DOMAIN rows : IsDemoRow(rows[i]),
           NEW k \in DOMAIN DemoUsers, DemoUsers \in Seq(NewRow)
    PROVE  /\ RowsOK(WithNext(rows, DemoUsers[k]))
           /\ \A i \in DOMAIN WithNext(rows, DemoUsers[k]) : IsDemoRow(WithNext(rows, DemoUsers[k])[i])
<1> DEFINE row == DemoUsers[k]
           more == Append(rows, row)
<1>1. row \in NewRow /\ IsDemoRow(row)
  BY DEF IsDemoRow
<1>2. CASE IsFound(row.email, rows)
  BY <1>2 DEF WithNext
<1>3. CASE ~ IsFound(row.email, rows)
  <2>1. \A i \in DOMAIN rows : rows[i].email # row.email
    BY <1>3 DEF IsFound
  <2>2. rows \in Seq(NewRow)
    BY DEF RowsOK
  <2> HIDE DEF row
  <2>3. /\ more \in Seq(NewRow)
        /\ DOMAIN more = 1 .. Len(rows) + 1
        /\ DOMAIN rows = 1 .. Len(rows)
        /\ Len(rows) \in Nat
        /\ \A i \in DOMAIN rows : more[i] = rows[i]
        /\ more[Len(rows) + 1] = row
    BY <1>1, <2>2
  <2>4. \A i \in DOMAIN more : i \in DOMAIN rows \/ i = Len(rows) + 1
    BY <2>3
  <2>5. OneEach(more)
    <3>1. OneEach(rows)
      BY DEF RowsOK
    <3> HIDE DEF more
    <3> QED BY <2>1, <2>3, <2>4, <3>1 DEF OneEach
  <2>6. \A i \in DOMAIN more : IsDemoRow(more[i])
    <3> HIDE DEF more
    <3> QED BY <1>1, <2>3, <2>4
  <2>7. WithNext(rows, row) = more
    BY <1>3 DEF WithNext
  <2>8. RowsOK(more)
    BY <2>3, <2>5 DEF RowsOK
  <2> QED BY <2>6, <2>7, <2>8 DEF row
<1> QED BY <1>2, <1>3

LEMMA SeedNextKeeps ==
    ASSUME SaneConstants, Inv, NEW r \in Requests, SeedNext(r), UNCHANGED <<messages, clock, opened>>
    PROVE  Inv'
<1>1. RequestOK(req[r], users, messages) /\ req[r].pc = "seeding"
  BY DEF Inv, RequestsOK, SeedNext
<1>2. /\ req[r].next \in Nat \ {0}
      /\ RowsOK(req[r].rows)
      /\ \A i \in DOMAIN req[r].rows : IsDemoRow(req[r].rows[i])
  BY <1>1 DEF RequestOK
<1>3. UNCHANGED users /\ started' \in 0 .. MaxRequests
  BY DEF SeedNext, Inv, UsersOK
<1>4. CASE req[r].next > Len(DemoUsers)
  <2> DEFINE q == [pc |-> "creating", rows |-> req[r].rows, by |-> 0]
  <2>1. req' = [req EXCEPT ![r] = q] /\ q.pc # "sending"
    BY <1>4 DEF SeedNext
  <2>2. RequestOK(q, users, messages)
    BY <1>2 DEF RequestOK, Justified
  <2> QED BY <1>3, <2>1, <2>2, OneTakenUp
<1>5. CASE ~ (req[r].next > Len(DemoUsers))
  <2> DEFINE rows == WithNext(req[r].rows, DemoUsers[req[r].next])
             q == [pc |-> "seeding", next |-> req[r].next + 1, rows |-> rows]
  <2>1. DemoUsers \in Seq(NewRow) /\ req[r].next \in DOMAIN DemoUsers
    BY <1>2, <1>5 DEF SaneConstants
  <2>2. RowsOK(rows) /\ \A i \in DOMAIN rows : IsDemoRow(rows[i])
    BY <1>2, <2>1, WithNextOK
  <2>3. req' = [req EXCEPT ![r] = q] /\ q.pc # "sending"
    BY <1>5 DEF SeedNext
  <2>4. RequestOK(q, users, messages)
    <3> HIDE DEF rows
    <3> QED BY <1>2, <2>2 DEF RequestOK
  <2> QED BY <1>3, <2>3, <2>4, OneTakenUp
<1> QED BY <1>4, <1>5

\* A request that ends, with or without rows in the accounts, keeps requests and mail.
LEMMA EndKeeps ==
    ASSUME Inv, NEW r \in Requests, End(r), UNCHANGED <<messages, clock, opened>>, Grown(users, users')
    PROVE  RequestsOK' /\ MailOK'
<1>1. SameMail(messages, messages')
  BY DEF SameMail
<1>2. RequestsOK'
  BY <1>1, Ended DEF Inv
<1>3. MailOK'
  <2>1. Idle.pc # "sending"
    BY DEF Idle
  <2> QED BY <2>1, MailStays DEF Inv, End
<1> QED BY <1>2, <1>3

\* The table after the rows of a request are inserted.
LEMMA Inserted ==
    ASSUME Inv, NEW r \in Requests, Created(r), ~ Refused(req[r].rows)
    PROVE  LET rows == req[r].rows IN
           /\ RowsOK(rows)
           /\ Len(users) \in Nat /\ Len(rows) \in Nat
           /\ DOMAIN users = 1 .. Len(users) /\ DOMAIN rows = 1 .. Len(rows)
           /\ users' \in Seq(AccountRow)
           /\ DOMAIN users' = 1 .. Len(users) + Len(rows)
           /\ \A u \in DOMAIN users : users'[u] = users[u]
           /\ \A u \in DOMAIN users' \ DOMAIN users :
                 /\ u - Len(users) \in DOMAIN rows
                 /\ users'[u].email = rows[u - Len(users)].email
                 /\ users'[u].role = rows[u - Len(users)].role
<1> DEFINE rows == req[r].rows
           added == [i \in DOMAIN rows |-> [email |-> rows[i].email, role |-> rows[i].role, active |-> TRUE]]
<1>1. RowsOK(rows)
  BY DEF Inv, RequestsOK, RequestOK, Created
<1>2. rows \in Seq(NewRow) /\ users \in Seq(AccountRow)
  BY <1>1 DEF RowsOK, Inv, UsersOK
<1>3. users' = users \o added
  BY DEF Created
<1> HIDE DEF rows
<1>4. /\ Len(users) \in Nat /\ Len(rows) \in Nat
      /\ DOMAIN users = 1 .. Len(users) /\ DOMAIN rows = 1 .. Len(rows)
  BY <1>2
<1>5. \A i \in DOMAIN rows : rows[i].email \in Emails /\ rows[i].role \in Roles
  <2>1. \A i \in DOMAIN rows : rows[i] \in NewRow
    BY <1>2, <1>4
  <2> QED BY <2>1 DEF NewRow
<1>6. added \in Seq(AccountRow) /\ Len(added) = Len(rows)
  <2>1. \A i \in 1 .. Len(rows) : added[i] \in AccountRow
    BY <1>4, <1>5 DEF AccountRow
  <2>2. DOMAIN added = 1 .. Len(rows)
    BY <1>4
  <2> HIDE DEF added
  <2>3. added = [i \in 1 .. Len(rows) |-> added[i]]
    BY <2>2, Zenon DEF added
  <2>4. added \in [1 .. Len(rows) -> AccountRow]
    BY <2>1, <2>3
  <2> QED BY <1>4, <2>4
<1>7. \A i \in DOMAIN rows : added[i].email = rows[i].email /\ added[i].role = rows[i].role
  OBVIOUS
<1> HIDE DEF added
<1>8. /\ users' \in Seq(AccountRow)
      /\ DOMAIN users' = 1 .. Len(users) + Len(rows)
      /\ \A u \in DOMAIN users : users'[u] = users[u]
      /\ \A u \in DOMAIN users' \ DOMAIN users :
            u - Len(users) \in DOMAIN rows /\ users'[u] = added[u - Len(users)]
  BY <1>2, <1>3, <1>4, <1>6
<1> QED BY <1>1, <1>4, <1>7, <1>8 DEF rows

LEMMA CreatedKeeps ==
    ASSUME Inv, NEW r \in Requests, Created(r), UNCHANGED <<messages, clock, opened>>
    PROVE  Inv'
<1>1. CASE Refused(req[r].rows)
  <2>1. UNCHANGED <<users, started>>
    BY <1>1 DEF Created
  <2>2. UsersOK' /\ Grown(users, users')
    BY <2>1 DEF Inv, UsersOK, OneEach, Grown
  <2> QED BY <2>2, EndKeeps DEF Created, Inv
<1>2. CASE ~ Refused(req[r].rows)
  <2> DEFINE rows == req[r].rows
  <2>1. OneEach(users')
    <3> SUFFICES ASSUME NEW u \in DOMAIN users', NEW v \in DOMAIN users', users'[u].email = users'[v].email
                 PROVE  u = v
      BY DEF OneEach
    <3>1. OneEach(users) /\ OneEach(rows)
      BY <1>2, Inserted DEF Inv, UsersOK, RowsOK
    <3>7. /\ \A w \in DOMAIN users : users'[w] = users[w]
          /\ \A w \in DOMAIN users' \ DOMAIN users :
                w - Len(users) \in DOMAIN rows /\ users'[w].email = rows[w - Len(users)].email
      BY <1>2, Inserted
    <3>2. \A w \in DOMAIN users, i \in DOMAIN rows : users[w].email # rows[i].email
      BY <1>2 DEF Refused, Taken
    <3>3. CASE u \in DOMAIN users /\ v \in DOMAIN users
      BY <3>1, <3>3, <3>7 DEF OneEach
    <3>4. CASE u \in DOMAIN users /\ v \notin DOMAIN users
      BY <3>2, <3>4, <3>7
    <3>5. CASE u \notin DOMAIN users /\ v \in DOMAIN users
      BY <3>2, <3>5, <3>7
    <3>6. CASE u \notin DOMAIN users /\ v \notin DOMAIN users
      <4>1. u - Len(users) = v - Len(users)
        <5>1. u - Len(users) \in DOMAIN rows /\ v - Len(users) \in DOMAIN rows
          BY <3>6, <3>7
        <5>2. rows[u - Len(users)].email = rows[v - Len(users)].email
          BY <3>6, <3>7
        <5> HIDE DEF rows
        <5> QED BY <3>1, <5>1, <5>2 DEF OneEach
      <4>2. u \in Nat /\ v \in Nat /\ Len(users) \in Nat
        BY <1>2, Inserted
      <4> QED BY <4>1, <4>2
    <3> QED BY <3>3, <3>4, <3>5, <3>6
  <2>2. Grown(users, users') /\ users' \in Seq(AccountRow)
    BY <1>2, Inserted DEF Grown
  <2>3. UsersOK'
    BY <2>1, <2>2 DEF Created, Inv, UsersOK
  <2> QED BY <2>2, <2>3, EndKeeps DEF Created, Inv
<1> QED BY <1>1, <1>2

LEMMA WrittenOK ==
    ASSUME NEW row \in AccountRow,
           NEW asked \in [role : Roles \cup {None}, active : BOOLEAN \cup {None}],
           NEW w, w.role \in {None, asked.role}, w.active \in {None, asked.active}
    PROVE  LET new == Written(row, w) IN
           /\ new \in AccountRow
           /\ new.email = row.email
           /\ new.role # row.role => new.role = asked.role
           /\ new.active # row.active => new.active = asked.active
<1>1. row.email \in Emails /\ row.role \in Roles /\ row.active \in BOOLEAN
  BY DEF AccountRow
<1>2. asked.role \in Roles \cup {None} /\ asked.active \in BOOLEAN \cup {None}
  OBVIOUS
<1> DEFINE role == IF w.role = None THEN row.role ELSE w.role
           enabled == IF w.active = None THEN row.active ELSE w.active
<1>3. role \in Roles /\ (role # row.role => role = asked.role)
  BY <1>1, <1>2
<1>4. enabled \in BOOLEAN /\ (enabled # row.active => enabled = asked.active)
  BY <1>1, <1>2
<1>5. Written(row, w) = [email |-> row.email, role |-> role, active |-> enabled]
  BY DEF Written
<1> HIDE DEF role, enabled
<1> QED BY <1>1, <1>3, <1>4, <1>5 DEF AccountRow

\* What an update does to the table.
LEMMA Rewritten ==
    ASSUME SaneConstants, Inv, NEW r \in Requests, Updated(r)
    PROVE  /\ users' \in Seq(AccountRow)
           /\ DOMAIN users' = DOMAIN users
           /\ \A u \in DOMAIN users :
                 /\ users'[u].email = users[u].email
                 /\ users'[u].role # users[u].role => Asked(r, u, "role", users'[u].role)
                 /\ users'[u].active # users[u].active => Asked(r, u, "active", users'[u].active)
<1> DEFINE q == req[r]
           w == q.write
<1>1. RequestOK(q, users, messages) /\ q.pc = "updating"
  BY DEF Inv, RequestsOK, Updated
<1>2. /\ q.user \in DOMAIN users
      /\ q.asked \in [role : Roles \cup {None}, active : BOOLEAN \cup {None}]
      /\ w.role \in {None, q.asked.role}
      /\ w.active \in {None, q.asked.active}
  BY <1>1 DEF RequestOK, SaneConstants
<1>3. users \in Seq(AccountRow)
  BY DEF Inv, UsersOK
<1>4. users' = [users EXCEPT ![q.user] = Written(users[q.user], w)]
  BY DEF Updated
<1> HIDE DEF q
<1>5. \A u \in DOMAIN users : users[u] \in AccountRow
  BY <1>3
<1> DEFINE old == users[q.user]
           new == Written(old, w)
<1>6. /\ new \in AccountRow
      /\ new.email = old.email
      /\ new.role # old.role => new.role = q.asked.role
      /\ new.active # old.active => new.active = q.asked.active
  <2>1. old \in AccountRow
    BY <1>2, <1>5
  <2> HIDE DEF w, old
  <2> QED BY <1>2, <2>1, WrittenOK
<1>7. users' = [users EXCEPT ![q.user] = new]
  BY <1>4
<1> HIDE DEF new
<1>8. /\ users' \in Seq(AccountRow)
      /\ DOMAIN users' = DOMAIN users
      /\ \A u \in DOMAIN users : users'[u] = IF u = q.user THEN new ELSE users[u]
  BY <1>2, <1>3, <1>6, <1>7
<1>9. ASSUME NEW u \in DOMAIN users
      PROVE  /\ users'[u].email = users[u].email
             /\ users'[u].role # users[u].role => Asked(r, u, "role", users'[u].role)
             /\ users'[u].active # users[u].active => Asked(r, u, "active", users'[u].active)
  <2>1. CASE u = q.user
    <3>1. q.asked["role"] = q.asked.role /\ q.asked["active"] = q.asked.active
      OBVIOUS
    <3> QED BY <1>1, <1>6, <1>8, <2>1, <3>1 DEF Asked, q
  <2>2. CASE u # q.user
    BY <1>8, <2>2
  <2> QED BY <2>1, <2>2
<1> QED BY <1>8, <1>9

LEMMA UpdatedKeeps ==
    ASSUME SaneConstants, Inv, NEW r \in Requests, Updated(r), UNCHANGED <<messages, clock, opened>>
    PROVE  Inv'
<1>1. Grown(users, users')
  BY Rewritten DEF Grown
<1>2. OneEach(users')
  BY Rewritten DEF Inv, UsersOK, OneEach
<1>3. UsersOK'
  BY <1>2, Rewritten DEF Updated, Inv, UsersOK
<1> QED BY <1>1, <1>3, EndKeeps DEF Updated, Inv

----------------------------------------------------------------------------
(* Every step of the messages *)

LEMMA SendKeeps ==
    ASSUME SaneConstants, Inv, NEW r \in Requests, NEW u \in DOMAIN users, NEW c \in DOMAIN users,
           Send(r, u, c)
    PROVE  Inv'
<1> DEFINE q == [pc |-> "sending", from |-> u, to |-> c, sent |-> clock]
<1>1. /\ req' = [req EXCEPT ![r] = q]
      /\ started' \in 0 .. MaxRequests
      /\ UNCHANGED <<users, messages, clock, opened>>
  BY StartedNext DEF Send
<1>2. clock \in 0 .. MaxTime
  BY DEF Inv, MailOK
<1>3. RequestOK(q, users, messages)
  BY <1>2 DEF RequestOK
<1>4. RequestsOK'
  BY <1>1, <1>3, OneRequest DEF Inv, Grown, SameMail
<1>5. UsersOK'
  BY <1>1 DEF Inv, UsersOK, OneEach
<1>6. \A s \in Requests : req'[s].pc = "sending" => req'[s].sent <= clock'
  <2>1. \A s \in Requests : req'[s] = IF s = r THEN q ELSE req[s]
    BY <1>1 DEF Inv, RequestsOK
  <2> QED BY <1>1, <1>2, <2>1 DEF Inv, MailOK
<1>7. \A m : Marks(m)' = Marks(m)
  BY <1>1 DEF Marks
<1>8. MailOK'
  BY <1>1, <1>6, <1>7 DEF Inv, MailOK
<1> QED BY <1>4, <1>5, <1>8 DEF Inv

LEMMA SentKeeps ==
    ASSUME SaneConstants, Inv, NEW r \in Requests, Sent(r)
    PROVE  Inv'
<1> DEFINE new == [from |-> req[r].from, to |-> req[r].to, sent |-> req[r].sent, read |-> None]
           n == Len(messages) + 1
<1>1. /\ UNCHANGED <<users, started, clock, opened>>
      /\ End(r)
      /\ messages' = Append(messages, new)
  BY DEF Sent
<1>2. RequestOK(req[r], users, messages) /\ req[r].pc = "sending" /\ req[r].sent <= clock
  BY DEF Inv, RequestsOK, MailOK, Sent
<1>3. /\ req[r].from \in DOMAIN users /\ req[r].to \in DOMAIN users
      /\ req[r].sent \in 0 .. MaxTime
  BY <1>2 DEF RequestOK
<1>4. DOMAIN users \subseteq Nat
  BY DEF Inv, UsersOK
<1>5. new \in Mail
  BY <1>3, <1>4 DEF Mail
<1>6. /\ messages \in Seq(Mail) /\ Len(messages) \in Nat
      /\ DOMAIN messages = 1 .. Len(messages)
  BY DEF Inv, MailOK
<1>7. new.read = None /\ new.sent = req[r].sent /\ new.from = req[r].from /\ new.to = req[r].to
  OBVIOUS
<1> HIDE DEF new
<1>8. /\ messages' \in Seq(Mail)
      /\ DOMAIN messages' = 1 .. n
      /\ \A m \in DOMAIN messages : messages'[m] = messages[m]
      /\ messages'[n] = new
  BY <1>1, <1>5, <1>6
<1>9. \A m \in DOMAIN messages' : m \in DOMAIN messages \/ m = n
  BY <1>6, <1>8
<1>10. n \notin DOMAIN messages
  BY <1>6
<1>11. Grown(users, users') /\ SameMail(messages, messages')
  BY <1>1, <1>6, <1>8 DEF Grown, SameMail
<1>12. RequestsOK'
  BY <1>1, <1>11, Ended DEF Inv
<1>13. UsersOK'
  BY <1>1 DEF Inv, UsersOK, OneEach
<1>14. \A m : Marks(m)' = Marks(m)
  BY <1>1 DEF Marks
<1>15. Marks(n) = {}
  BY <1>10 DEF Inv, MailOK, Marks
<1>16. \A s \in Requests : req'[s].pc = "sending" => req'[s].sent <= clock'
  <2>1. \A s \in Requests : req'[s] = IF s = r THEN Idle ELSE req[s]
    BY <1>1 DEF Inv, RequestsOK, End
  <2> QED BY <1>1, <2>1 DEF Inv, MailOK, Idle
<1>17. opened' \subseteq (DOMAIN messages') \X (0 .. MaxTime)
  BY <1>1, <1>6, <1>8 DEF Inv, MailOK
<1>18. ASSUME NEW m \in DOMAIN messages'
       PROVE  /\ messages'[m].from \in DOMAIN users' /\ messages'[m].to \in DOMAIN users'
              /\ messages'[m].sent <= clock'
              /\ messages'[m].read = None <=> Marks(m)' = {}
              /\ messages'[m].read # None => /\ <<m, messages'[m].read>> \in opened'
                                             /\ messages'[m].read >= messages'[m].sent
  <2>1. CASE m \in DOMAIN messages
    BY <1>1, <1>8, <1>14, <2>1 DEF Inv, MailOK
  <2>2. CASE m = n
    BY <1>1, <1>2, <1>3, <1>7, <1>8, <1>14, <1>15, <2>2
  <2> QED BY <1>9, <2>1, <2>2
<1>19. MailOK'
  BY <1>1, <1>8, <1>16, <1>17, <1>18 DEF Inv, MailOK
<1> QED BY <1>12, <1>13, <1>19 DEF Inv

LEMMA OpenThreadKeeps ==
    ASSUME SaneConstants, Inv, NEW r \in Requests, NEW u \in DOMAIN users, NEW c \in DOMAIN users,
           OpenThread(r, u, c)
    PROVE  Inv'
<1> DEFINE q == [pc |-> "opening", user |-> u, other |-> c, unread |-> Unread(u, c), read |-> clock]
<1>1. /\ req' = [req EXCEPT ![r] = q]
      /\ started' \in 0 .. MaxRequests
      /\ UNCHANGED <<users, messages, clock, opened>>
  BY StartedNext DEF OpenThread
<1>2. Unread(u, c) \subseteq DOMAIN messages
  BY DEF Unread, Between
<1>3. \A m \in Unread(u, c) : messages[m].sent <= clock
  BY <1>2 DEF Inv, MailOK
<1>4. clock \in 0 .. MaxTime
  BY DEF Inv, MailOK
<1>5. RequestOK(q, users, messages)
  BY <1>2, <1>3, <1>4 DEF RequestOK
<1>6. q.pc # "sending"
  OBVIOUS
<1> QED BY <1>1, <1>5, <1>6, OneTakenUp

LEMMA OpenedKeeps ==
    ASSUME SaneConstants, Inv, NEW r \in Requests, Opened(r)
    PROVE  Inv'
<1> DEFINE q == req[r]
           marked == Marked(q)
<1>1. /\ messages' = [m \in DOMAIN messages |->
                         IF m \in marked THEN [messages[m] EXCEPT !.read = q.read] ELSE messages[m]]
      /\ opened' = opened \cup {<<m, q.read>> : m \in marked}
      /\ UNCHANGED <<users, started, clock>>
      /\ End(r)
  BY DEF Opened, Marked
<1>2. RequestOK(q, users, messages) /\ q.pc = "opening"
  BY DEF Inv, RequestsOK, Opened
<1>3. /\ marked \subseteq DOMAIN messages
      /\ q.read \in 0 .. MaxTime
      /\ \A m \in marked : messages[m].sent <= q.read
  BY <1>2 DEF RequestOK, Marked
<1> HIDE DEF q, marked
<1>4. messages \in Seq(Mail) /\ Len(messages) \in Nat /\ DOMAIN messages = 1 .. Len(messages)
  BY DEF Inv, MailOK
<1>5. ASSUME NEW m \in DOMAIN messages
      PROVE  /\ messages'[m] \in Mail
             /\ messages'[m].from = messages[m].from
             /\ messages'[m].to = messages[m].to
             /\ messages'[m].sent = messages[m].sent
             /\ messages'[m].read = IF m \in marked THEN q.read ELSE messages[m].read
  <2>1. messages[m] \in Mail
    BY <1>4
  <2>2. CASE m \in marked
    <3>1. messages'[m] = [messages[m] EXCEPT !.read = q.read]
      BY <1>1, <2>2
    <3> QED BY <1>3, <2>1, <2>2, <3>1 DEF Mail
  <2>3. CASE m \notin marked
    BY <1>1, <2>1, <2>3
  <2> QED BY <2>2, <2>3
<1>6. DOMAIN messages' = 1 .. Len(messages)
  BY <1>1, <1>4
<1>7. messages' \in Seq(Mail)
  <2>1. messages' = [m \in 1 .. Len(messages) |-> messages'[m]]
    BY <1>1, <1>4
  <2>2. messages' \in [1 .. Len(messages) -> Mail]
    BY <1>4, <1>5, <2>1
  <2> QED BY <1>4, <2>2
<1>8. Grown(users, users') /\ SameMail(messages, messages')
  BY <1>1, <1>4, <1>5, <1>6 DEF Grown, SameMail
<1>9. RequestsOK'
  BY <1>1, <1>8, Ended DEF Inv
<1>10. UsersOK'
  BY <1>1 DEF Inv, UsersOK, OneEach
<1>11. \A s \in Requests : req'[s].pc = "sending" => req'[s].sent <= clock'
  <2>1. \A s \in Requests : req'[s] = IF s = r THEN Idle ELSE req[s]
    BY <1>1 DEF Inv, RequestsOK, End
  <2> QED BY <1>1, <2>1 DEF Inv, MailOK, Idle
<1>12. opened' \subseteq (DOMAIN messages') \X (0 .. MaxTime)
  <2>1. opened \subseteq (DOMAIN messages) \X (0 .. MaxTime)
    BY DEF Inv, MailOK
  <2>2. \A m \in marked : <<m, q.read>> \in (DOMAIN messages) \X (0 .. MaxTime)
    BY <1>3
  <2> QED BY <1>1, <1>4, <1>6, <2>1, <2>2
<1>13. ASSUME NEW m \in DOMAIN messages'
       PROVE  /\ messages'[m].from \in DOMAIN users' /\ messages'[m].to \in DOMAIN users'
              /\ messages'[m].sent <= clock'
              /\ messages'[m].read = None <=> Marks(m)' = {}
              /\ messages'[m].read # None => /\ <<m, messages'[m].read>> \in opened'
                                             /\ messages'[m].read >= messages'[m].sent
  <2>1. m \in DOMAIN messages
    BY <1>4, <1>6
  <2>2. /\ messages[m].from \in DOMAIN users /\ messages[m].to \in DOMAIN users
        /\ messages[m].sent <= clock
        /\ messages[m].read = None <=> Marks(m) = {}
        /\ messages[m].read # None => /\ <<m, messages[m].read>> \in opened
                                      /\ messages[m].read >= messages[m].sent
    BY <2>1 DEF Inv, MailOK
  <2>3. messages'[m].from \in DOMAIN users' /\ messages'[m].to \in DOMAIN users'
    BY <1>1, <1>5, <2>1, <2>2
  <2>4. messages'[m].sent <= clock'
    BY <1>1, <1>5, <2>1, <2>2
  <2>5. CASE m \in marked
    <3>1. messages'[m].read = q.read /\ messages'[m].sent = messages[m].sent
      BY <1>5, <2>1, <2>5
    <3>2. <<m, q.read>> \in opened'
      BY <1>1, <2>5
    <3>3. <<m, q.read>> \in Marks(m)'
      BY <3>2 DEF Marks
    <3>4. q.read # None
      BY <1>3 DEF SaneConstants
    <3>5. q.read >= messages[m].sent
      BY <1>3, <2>5
    <3> QED BY <2>3, <2>4, <3>1, <3>2, <3>3, <3>4, <3>5
  <2>6. CASE m \notin marked
    <3>1. messages'[m].read = messages[m].read /\ messages'[m].sent = messages[m].sent
      BY <1>5, <2>1, <2>6
    <3>2. Marks(m)' = Marks(m)
      BY <1>1, <2>6 DEF Marks
    <3> QED BY <1>1, <2>2, <2>3, <2>4, <3>1, <3>2
  <2> QED BY <2>5, <2>6
<1>14. MailOK'
  BY <1>1, <1>7, <1>11, <1>12, <1>13 DEF Inv, MailOK
<1> QED BY <1>9, <1>10, <1>14 DEF Inv

LEMMA TickKeeps ==
    ASSUME SaneConstants, Inv, Tick
    PROVE  Inv'
<1>1. /\ clock' = clock + 1 /\ clock < MaxTime /\ UNCHANGED <<users, req, started, messages, opened>>
      /\ clock \in 0 .. MaxTime
  BY DEF Tick, Inv, MailOK
<1>2. RequestsOK' /\ UsersOK'
  BY <1>1 DEF Inv, RequestsOK, UsersOK, OneEach, RequestOK, RowsOK, Justified, IsDemoRow
<1>3. clock' \in 0 .. MaxTime
  BY <1>1 DEF SaneConstants
<1>4. messages \in Seq(Mail)
  BY DEF Inv, MailOK
<1>5. \A m \in DOMAIN messages : messages[m].sent <= clock'
  <2>1. \A m \in DOMAIN messages : messages[m].sent \in 0 .. MaxTime /\ messages[m].sent <= clock
    <3>1. \A m \in DOMAIN messages : messages[m] \in Mail
      BY <1>4
    <3>2. \A m \in DOMAIN messages : messages[m].sent \in 0 .. MaxTime
      BY <3>1 DEF Mail
    <3> QED BY <3>2 DEF Inv, MailOK
  <2> QED BY <1>1, <2>1
<1>6. \A s \in Requests : req'[s].pc = "sending" => req'[s].sent <= clock'
  <2>1. \A s \in Requests : req[s].pc = "sending" => req[s].sent \in 0 .. MaxTime /\ req[s].sent <= clock
    BY DEF Inv, RequestsOK, RequestOK, MailOK
  <2> QED BY <1>1, <2>1
<1>7. \A m : Marks(m)' = Marks(m)
  BY <1>1 DEF Marks
<1>8. MailOK'
  BY <1>1, <1>3, <1>5, <1>6, <1>7 DEF Inv, MailOK
<1> QED BY <1>2, <1>8 DEF Inv

----------------------------------------------------------------------------
(* The theorems *)

LEMMA InitOK ==
    ASSUME SaneConstants, Init
    PROVE  Inv
<1>1. UsersOK
  BY DEF SaneConstants, Init, AccountInit, UsersOK
<1>2. RequestsOK
  <2>1. \A r \in Requests : req[r] = Idle
    BY DEF Init, AccountInit
  <2>2. RequestOK(Idle, users, messages)
    BY DEF RequestOK, Idle
  <2> QED BY <2>1, <2>2 DEF RequestsOK, Init, AccountInit
<1>3. MailOK
  <2>1. messages \in Seq(Mail) /\ DOMAIN messages = {} /\ opened = {}
    BY DEF Init
  <2>2. \A r \in Requests : req[r].pc # "sending"
    BY DEF Init, AccountInit, Idle
  <2> QED BY <2>1, <2>2 DEF SaneConstants, Init, MailOK, Marks
<1> QED BY <1>1, <1>2, <1>3 DEF Inv

LEMMA StepKeeps ==
    ASSUME SaneConstants, Inv, [Next]_vars
    PROVE  Inv'
<1>1. CASE UNCHANGED vars
  BY <1>1 DEF vars, Inv, UsersOK, OneEach, RequestsOK, RequestOK, RowsOK, Justified, IsDemoRow, MailOK, Marks
<1>2. CASE AccountNext /\ UNCHANGED <<messages, clock, opened>>
  <2>1. PICK r \in Requests :
           \/ \E email \in Emails : Register(r, email)
           \/ \E admin \in DOMAIN users :
                 \/ \E email \in Emails, role \in GivenRoles : CreateUser(r, admin, email, role)
                 \/ \E u \in DOMAIN users, asked \in Bodies : UpdateUser(r, admin, u, asked)
           \/ Seed(r)
           \/ SeedNext(r)
           \/ Created(r)
           \/ Updated(r)
           \/ Lost(r)
    BY <1>2 DEF AccountNext
  <2> QED BY <1>2, <2>1, RegisterKeeps, CreateUserKeeps, UpdateUserKeeps, SeedKeeps, SeedNextKeeps,
             CreatedKeeps, UpdatedKeeps, LostKeeps
<1>3. CASE \E r \in Requests :
              \/ \E u, c \in DOMAIN users : Send(r, u, c) \/ OpenThread(r, u, c)
              \/ Sent(r)
              \/ Opened(r)
  BY <1>3, SendKeeps, OpenThreadKeeps, SentKeeps, OpenedKeeps
<1>4. CASE Tick
  BY <1>4, TickKeeps
<1> QED BY <1>1, <1>2, <1>3, <1>4 DEF Next

\* The three tables fit each other and what is in flight: an address has one account, and a
\* message is unread exactly while no opening has been recorded for it.
THEOREM Invariance == ASSUME SaneConstants PROVE Spec => []Inv
<1>1. Init => Inv
  BY InitOK
<1>2. Inv /\ [Next]_vars => Inv'
  BY StepKeeps
<1> QED BY <1>1, <1>2, PTL DEF Spec

LEMMA WellTyped == ASSUME SaneConstants, Inv PROVE TypeOK
<1>1. users \in Seq(AccountRow) /\ messages \in Seq(Mail)
  BY DEF Inv, UsersOK, MailOK
<1>2. AccountTypeOK
  <2>1. \A u \in DOMAIN users : users[u] \in AccountRow
    BY <1>1
  <2>2. \A u \in DOMAIN users : IsAccount(users[u])
    BY <2>1 DEF IsAccount, AccountRow
  <2> QED BY <2>2 DEF Inv, UsersOK, AccountTypeOK
<1>3. \A m \in DOMAIN messages : IsMessage(messages[m])
  <2>1. \A m \in DOMAIN messages : messages[m] \in Mail
    BY <1>1
  <2>2. \A m \in DOMAIN messages :
           messages[m].sent \in 0 .. MaxTime /\ messages[m].read \in 0 .. MaxTime \cup {None}
    BY <2>1 DEF Mail
  <2> QED BY <2>2 DEF Inv, MailOK, IsMessage
<1>4. ASSUME NEW r \in Requests PROVE IsRequest(req[r])
  <2> DEFINE q == req[r]
  <2>1. RequestOK(q, users, messages)
    BY DEF Inv, RequestsOK
  <2> HIDE DEF q
  <2>2. ASSUME RowsOK(q.rows)
        PROVE  \A i \in DOMAIN q.rows : q.rows[i].email \in Emails /\ q.rows[i].role \in Roles
    <3>1. \A i \in DOMAIN q.rows : q.rows[i] \in NewRow
      BY <2>2 DEF RowsOK
    <3> QED BY <3>1 DEF NewRow
  <2>3. IsRequest(q)
    BY <2>1, <2>2 DEF RequestOK, IsRequest, IsMessageRequest
  <2> QED BY <2>3 DEF q
<1>5. clock \in 0 .. MaxTime /\ \A o \in opened : o[1] \in DOMAIN messages /\ o[2] \in 0 .. MaxTime
  BY DEF Inv, MailOK
<1> QED BY <1>2, <1>3, <1>4, <1>5 DEF TypeOK

\* Types: every row names accounts that exist, and every request in flight holds what the
\* code has read so far, whatever overlaps and whatever is lost.
THEOREM TypeCorrect == ASSUME SaneConstants PROVE Spec => []TypeOK
<1>1. Inv => TypeOK
  BY WellTyped
<1> QED BY <1>1, Invariance, PTL

\* An address has one account, though registration checks for it and inserts later, and
\* the seed script inserts several at once (routers/auth.py, routers/users.py,
\* scripts/seed_demo_users.py).
THEOREM OneAccountPerAddress == ASSUME SaneConstants PROVE Spec => []OneEach(users)
<1>1. Inv => OneEach(users)
  BY DEF Inv, UsersOK
<1> QED BY <1>1, Invariance, PTL

\* Unread messages are those that no opening brought.
LEMMA BadgesFollow == ASSUME Inv PROVE BadgesAreTrue
<1>1. \A m \in DOMAIN messages : messages[m].read = None <=> \A o \in opened : o[1] # m
  BY DEF Inv, MailOK, Marks
<1>2. \A m \in DOMAIN messages :
         messages[m].read # None => <<m, messages[m].read>> \in opened /\ messages[m].read >= messages[m].sent
  BY DEF Inv, MailOK
<1>3. \A u, c \in DOMAIN users :
         Unread(u, c) = {m \in Between(u, c) : messages[m].to = u /\ \A o \in opened : o[1] # m}
  BY <1>1 DEF Unread, Between
<1> QED BY <1>2, <1>3 DEF BadgesAreTrue

\* A badge counts exactly what no opening has brought to its recipient: opening a thread
\* marks what it loaded, never what arrived since (routers/messages.py get_thread).
THEOREM BadgesTrue == ASSUME SaneConstants PROVE Spec => []BadgesAreTrue
<1>1. Inv => BadgesAreTrue
  BY BadgesFollow
<1> QED BY <1>1, Invariance, PTL

LEMMA CreatedIsKept ==
    ASSUME Inv, Inv', NEW r \in Requests, Created(r), ~ Refused(req[r].rows)
    PROVE  KeepsAccounts
<1> DEFINE rows == req[r].rows
<1>1. /\ \A u \in DOMAIN users : users'[u] = users[u]
      /\ DOMAIN users \subseteq DOMAIN users'
      /\ \A u \in DOMAIN users' \ DOMAIN users :
            /\ u - Len(users) \in DOMAIN rows
            /\ users'[u].email = rows[u - Len(users)].email
            /\ users'[u].role = rows[u - Len(users)].role
  BY Inserted
<1>2. OneEach(users')
  BY DEF Inv, UsersOK
<1>3. req[r].pc = "creating" /\ RowsOK(rows) /\ Justified(rows, req[r].by, users)
  BY DEF Inv, RequestsOK, RequestOK, Created
<1>4. \A i \in DOMAIN rows : rows[i] \in NewRow
  BY <1>3 DEF RowsOK
<1> HIDE DEF rows
<1>5. ASSUME NEW u \in DOMAIN users' \ DOMAIN users
      PROVE  /\ Inserts(r, users'[u])
             /\ users'[u].role = "end_user" \/ IsDemo(users'[u]) \/ req[r].by \in DOMAIN users
  <2> DEFINE i == u - Len(users)
  <2>1. i \in DOMAIN rows /\ users'[u].email = rows[i].email /\ users'[u].role = rows[i].role
    BY <1>1
  <2> HIDE DEF i
  <2>2. rows[i] = [email |-> users'[u].email, role |-> users'[u].role]
    BY <1>4, <2>1 DEF NewRow
  <2>3. Inserts(r, users'[u])
    BY <1>3, <2>1, <2>2 DEF Inserts, rows
  <2>4. CASE \A j \in DOMAIN rows : rows[j].role = "end_user" \/ IsDemoRow(rows[j])
    <3>1. IsDemoRow(rows[i]) => IsDemo(users'[u])
      BY <2>2 DEF IsDemoRow, IsDemo
    <3> QED BY <2>1, <2>3, <2>4, <3>1
  <2> QED BY <1>3, <2>3, <2>4 DEF Justified
<1> QED BY <1>1, <1>2, <1>5 DEF KeepsAccounts, OneEach

LEMMA StepIsKept ==
    ASSUME SaneConstants, Inv, Inv', [Next]_vars
    PROVE  [KeepsAccounts]_users
<1> SUFFICES ASSUME users' # users PROVE KeepsAccounts
  OBVIOUS
<1>1. ~ UNCHANGED vars
  BY DEF vars
<1>2. AccountNext
  BY <1>1 DEF Next, Send, Sent, OpenThread, Opened, Tick
<1>3. PICK r \in Requests : Created(r) \/ Updated(r)
  BY <1>2 DEF AccountNext, Register, CreateUser, Create, UpdateUser, Seed, SeedNext, Lost
<1>4. CASE Created(r)
  <2>1. ~ Refused(req[r].rows)
    BY <1>4 DEF Created
  <2> QED BY <1>4, <2>1, CreatedIsKept
<1>5. CASE Updated(r)
  BY <1>5, Rewritten DEF KeepsAccounts
<1> QED BY <1>3, <1>4, <1>5

\* Whatever requests and scripts overlap: an account's role and state change only to what
\* some admin's request asked for, and a new account is what some request asked to insert:
\* a customer's, one of the demo list, or one an existing account asked for as an admin.
THEOREM AccountsKept == ASSUME SaneConstants PROVE Spec => AccountsAreKept
<1>1. Inv /\ Inv' /\ [Next]_vars => [KeepsAccounts]_users
  BY StepIsKept
<1> QED BY <1>1, Invariance, PTL DEF Spec, AccountsAreKept

----------------------------------------------------------------------------
(* Counting *)

\* The pairs that SumOver counts.
PairsOf(n) == UNION {{i} \X (1 .. n[i]) : i \in DOMAIN n}

\* They are the numbers up to n[i], for every i (what SumOver adds up).
LEMMA PairsAre ==
    ASSUME NEW n
    PROVE  \A s : s \in PairsOf(n) <=> \E i \in DOMAIN n : \E a \in 1 .. n[i] : s = <<i, a>>
<1>1. \A i, s, R : s \in {i} \X R <=> \E a \in R : s = <<i, a>>
    OBVIOUS
<1>2. \A s : s \in UNION {{i} \X (1 .. n[i]) : i \in DOMAIN n}
            <=> \E i \in DOMAIN n : s \in {i} \X (1 .. n[i])
    OBVIOUS
<1> QED
    BY <1>1, <1>2 DEF PairsOf

\* A set shared out by a property of its elements: the sizes of the parts add up to its size
\* (every count of a dashboard by status, bucket, action, day or lane).
LEMMA SharedOut ==
    ASSUME NEW X, IsFiniteSet(X), NEW I, NEW of \in [X -> I]
    PROVE  SumOver([i \in I |-> Cardinality({x \in X : of[x] = i})]) = Cardinality(X)
<1> DEFINE Part(i) == {x \in X : of[x] = i}
           n == [i \in I |-> Cardinality(Part(i))]
           slots == PairsOf(n)
<1>0. DOMAIN n = I /\ \A i \in I : n[i] = Cardinality(Part(i))
    OBVIOUS
<1> HIDE DEF n
<1>1. \A i \in I : IsFiniteSet(Part(i)) /\ n[i] = Cardinality(Part(i)) /\ n[i] \in Nat
    BY <1>0, FS_Subset, FS_CardinalityType
<1>2. \A i \in I : Bijection(1 .. n[i], Part(i)) # {}
    BY <1>1, FS_CardinalityType, Fun_ExistsBij
<1> DEFINE nth == [i \in I |-> CHOOSE e : e \in Bijection(1 .. n[i], Part(i))]
<1>3. \A i \in I : nth[i] \in Bijection(1 .. n[i], Part(i))
    BY <1>2
<1> HIDE DEF nth
<1>4. ASSUME NEW i \in I
      PROVE  /\ nth[i] \in [1 .. n[i] -> Part(i)]
             /\ (\A a, b \in 1 .. n[i] : nth[i][a] = nth[i][b] => a = b)
             /\ \A x \in Part(i) : \E a \in 1 .. n[i] : nth[i][a] = x
    <2> HIDE DEF Part
    <2>1. nth[i] \in Bijection(1 .. n[i], Part(i))
        BY <1>3
    <2> DEFINE m == n[i]
               e == nth[i]
               P == Part(i)
    <2> HIDE DEF m, e, P
    <2>2. e \in Bijection(1 .. m, P)
        BY <2>1 DEF m, e, P
    <2>3. /\ e \in [1 .. m -> P]
          /\ (\A a, b \in 1 .. m : e[a] = e[b] => a = b)
          /\ \A x \in P : \E a \in 1 .. m : e[a] = x
        BY <2>2 DEF Bijection, Injection, Surjection, IsInjective
    <2> QED
        BY <2>3 DEF m, e, P
<1>5. \A s : s \in slots <=> \E i \in I : \E a \in 1 .. n[i] : s = <<i, a>>
    <2>2. \A s : s \in PairsOf(n) <=> \E i \in DOMAIN n : \E a \in 1 .. n[i] : s = <<i, a>>
        BY PairsAre
    <2> QED
        BY <1>0, <2>2
<1> DEFINE F == [s \in slots |-> nth[s[1]][s[2]]]
<1> HIDE DEF slots
<1>6. F \in [slots -> X]
    <2> SUFFICES ASSUME NEW s \in slots PROVE nth[s[1]][s[2]] \in X
        OBVIOUS
    <2>1. PICK i \in I : \E a \in 1 .. n[i] : s = <<i, a>>
        BY <1>5
    <2>2. PICK a \in 1 .. n[i] : s = <<i, a>>
        BY <2>1
    <2>3. nth[i][a] \in Part(i)
        BY <1>4
    <2> QED
        BY <2>2, <2>3
<1>7. \A s, r \in slots : F[s] = F[r] => s = r
    <2> SUFFICES ASSUME NEW s \in slots, NEW r \in slots, F[s] = F[r] PROVE s = r
        OBVIOUS
    <2>1. PICK i \in I : \E a \in 1 .. n[i] : s = <<i, a>>
        BY <1>5
    <2>2. PICK a \in 1 .. n[i] : s = <<i, a>>
        BY <2>1
    <2>3. PICK j \in I : \E b \in 1 .. n[j] : r = <<j, b>>
        BY <1>5
    <2>4. PICK b \in 1 .. n[j] : r = <<j, b>>
        BY <2>3
    <2>5. nth[i][a] = nth[j][b]
        BY <2>2, <2>4
    <2>8. nth[i] \in [1 .. n[i] -> Part(i)] /\ nth[j] \in [1 .. n[j] -> Part(j)]
        BY <1>4
    <2>9. of[nth[i][a]] = i /\ of[nth[j][b]] = j
        <3>1. nth[i][a] \in Part(i) /\ nth[j][b] \in Part(j)
            BY <2>8
        <3> QED
            BY <3>1
    <2>6. i = j
        BY <2>5, <2>9
    <2> QED
        BY <2>2, <2>4, <2>5, <2>6, <1>4
<1>8. \A x \in X : \E s \in slots : F[s] = x
    <2> SUFFICES ASSUME NEW x \in X PROVE \E s \in slots : F[s] = x
        OBVIOUS
    <2>1. of[x] \in I /\ x \in Part(of[x])
        OBVIOUS
    <2>2. PICK a \in 1 .. n[of[x]] : nth[of[x]][a] = x
        BY <2>1, <1>4
    <2>3. <<of[x], a>> \in slots
        BY <2>1, <1>5
    <2> QED
        BY <2>2, <2>3
<1>9. F \in Bijection(slots, X)
    BY <1>6, <1>7, <1>8, Fun_IsBij
<1>10. Inverse(F, slots, X) \in Bijection(X, slots)
    BY <1>9, Fun_BijInverse
<1>11. Cardinality(slots) = Cardinality(X)
    BY <1>10, Fun_ExistsBij, FS_Bijection
<1>12. SumOver(n) = Cardinality(X)
    BY <1>11 DEF SumOver, PairsOf, slots
<1> QED
    BY <1>12 DEF n

\* At most one element of X for every element of Y: X is no larger.
LEMMA NoMoreThan ==
    ASSUME NEW X, NEW Y, IsFiniteSet(Y), NEW to,
           \A x \in X : to[x] \in Y,
           \A x, y \in X : to[x] = to[y] => x = y
    PROVE  IsFiniteSet(X) /\ Cardinality(X) <= Cardinality(Y)
<1> DEFINE F == [x \in X |-> to[x]]
<1>1. F \in Injection(X, Y)
    BY Fun_IsInj
<1> QED
    BY <1>1, FS_Injection

----------------------------------------------------------------------------
(* The desk behind the dashboards *)

\* Every score has a bucket, and a higher score none before it (_bucket_label).
LEMMA BinIs ==
    /\ \A s \in Nat : Bin(s) \in Bins
    /\ \A s, r \in Nat : s <= r => Bin(s) <= Bin(r)
<1>1. \A a, b \in Nat : Min({a, b}) = IF a <= b THEN a ELSE b
    <2> SUFFICES ASSUME NEW a \in Nat, NEW b \in Nat PROVE Min({a, b}) = IF a <= b THEN a ELSE b
        OBVIOUS
    <2> DEFINE m == IF a <= b THEN a ELSE b
    <2>1. m \in {a, b} /\ \A y \in {a, b} : m <= y
        OBVIOUS
    <2>2. Min({a, b}) \in {a, b} /\ \A y \in {a, b} : Min({a, b}) <= y
        BY <2>1 DEF Min
    <2> QED
        BY <2>1, <2>2
<1>2. \A s \in Nat : Bin(s) = IF s \div 10000 <= 9 THEN s \div 10000 ELSE 9
    BY <1>1 DEF Bin, BinCount
<1> QED
    BY <1>2 DEF Bins, BinCount

\* The four places the log keeps cannot carry a score across a threshold (round(score, 4)).
LEMMA LoggedIs ==
    ASSUME NEW s \in Nat, NEW a \in Nat, a % 10 = 0
    PROVE  /\ Logged(s) \in Nat
           /\ s >= a => Logged(s) >= a
           /\ s < a => Logged(s) <= a
BY DEF Logged, RoundedTo, Nearest

\* What a person says about a draft: a resolution answers an escalation instead.
IsVerdict(f) == f.reviewer # SyntheticReviewer /\ f.action # "resolve"

\* A verdict that was not overtaken.
Standing(f) == IsVerdict(f) /\ ~ f.overtaken

FeedbackActions == {"accept", "edit", "reject", "escalate", "doubt", "resolve"}

ShownLanes == {"fast", "assisted"}

TicketRows ==
    [status : TicketStatuses, dept : Departments \cup {None}, lane : LaneNames \cup {None},
     score : Nat \cup {None}, draft : BOOLEAN]

\* A ticket waiting for a verdict has a draft; a draft has a lane and a score.
RowIsSound(r) ==
    /\ r.status = "drafted" => r.draft
    /\ r.draft => r.lane \in ShownLanes /\ r.score \in Nat
    /\ r.draft \/ r.lane # None => r.status \notin {"absent", "submitted"}

\* A logged score lies where its lane says.
FitsLane(d) ==
    d.score # None =>
        /\ d.score \in Nat
        /\ d.lane = "fast" => Bin(d.score) >= Bin(FastScore)
        /\ d.lane = "assisted" => Bin(d.score) >= Bin(AssistedScore) /\ Bin(d.score) <= Bin(FastScore)

FeedbackIsSound ==
    /\ IsFiniteSet(feedback)
    /\ \A f \in feedback : f.reviewer = SyntheticReviewer => ~ f.overtaken
    /\ \A f, g \in feedback :
          f.reviewer = SyntheticReviewer /\ g.reviewer = SyntheticReviewer /\ f.ticket = g.ticket => f = g
    /\ \A f \in feedback :
          /\ f.ticket \in Tickets /\ f.action \in FeedbackActions
          /\ f.reviewer \in Engineers \cup Admins \cup {SyntheticReviewer}
          /\ f.overtaken \in BOOLEAN
          /\ IsVerdict(f) => tickets[f.ticket].draft /\ tickets[f.ticket].status # "drafted"
    /\ \A f, g \in feedback : Standing(f) /\ Standing(g) /\ f.ticket = g.ticket => f = g

DecisionsAreSound ==
    /\ IsFiniteSet(decisions)
    /\ \A d \in decisions :
          /\ d.ticket \in Tickets /\ d.lane \in LaneNames
          /\ tickets[d.ticket].status \notin {"absent", "submitted"}
          /\ d.lane = tickets[d.ticket].lane
          /\ FitsLane(d)
    /\ \A d, e \in decisions : d.ticket = e.ticket => d = e

\* What a request may say.
SayingIsSound(said) ==
    /\ said.reviewer \in Engineers \cup Admins
    /\ said.action \in FeedbackActions

\* A request under way is about a ticket that is taken; a verdict was begun on a waiting draft.
RequestIsSound(w, row) ==
    /\ w.status \in {"escalated", "reviewed", "closed"}
    /\ row.status \notin {"absent", "submitted"}
    /\ w.said # None =>
          /\ SayingIsSound(w.said)
          /\ w.said.action # "resolve" => w.read = "drafted" /\ row.draft

UnderwayIsSound ==
    /\ DOMAIN underway = DeskCalls
    /\ \A c \in DeskCalls : underway[c] # None =>
          underway[c].ticket \in Tickets /\ RequestIsSound(underway[c], tickets[underway[c].ticket])

\* A draft's ticket shows the score that was logged for it, until the seed script has been there.
ScoresAreLogged ==
    \A t \in Tickets : tickets[t].draft /\ ~ IsSeeded(feedback, t) =>
        \E d \in decisions : d.ticket = t /\ d.score = tickets[t].score

\* The desk, whatever the pages do: one decision and one standing verdict per ticket, on its draft.
DeskInv ==
    /\ tickets \in [Tickets -> TicketRows]
    /\ \A t \in Tickets : RowIsSound(tickets[t])
    /\ FeedbackIsSound
    /\ DecisionsAreSound
    /\ UnderwayIsSound
    /\ ScoresAreLogged

ViewFields == {"kind", "pc", "tickets", "session", "feedback", "shown"}

\* A page under way: the tickets it has loaded keep the lane they were loaded with.
ViewInv ==
    /\ DOMAIN view = ViewFields
    /\ view.kind \in {"none", "summary", "report", "lanes"}
    /\ view.pc \in {"idle", "feedback", "actions", "decisions", "shown"}
    /\ view.pc = "feedback" =>
          /\ view.kind = "summary"
          /\ view.tickets \subseteq Tickets
          /\ view.session \in [Tickets -> TicketRows]
    /\ view.pc \in {"actions", "decisions"} =>
          /\ view.kind = "lanes"
          /\ view.tickets \subseteq Tickets
          /\ \A t \in view.tickets : /\ view.session[t].lane # None
                                     /\ view.session[t].lane = tickets[t].lane
    /\ view.pc = "decisions" => view.feedback \subseteq feedback

DashInv == DeskInv /\ ViewInv /\ DashboardsAddUp

\* The desk at its start (an empty database with tickets of the first version).
LEMMA DeskInvInit ==
    ASSUME DashAssumption, DashInit
    PROVE  DeskInv
<1>1. tickets \in [Tickets -> TicketRows]
    BY DEF DashAssumption, DashInit, NoTicket, TicketRows, TicketStatuses, LaneNames
<1>2. \A t \in Tickets : RowIsSound(tickets[t])
    BY DEF DashAssumption, DashInit, NoTicket, RowIsSound
<1>3. UnderwayIsSound
    BY DEF DashInit, UnderwayIsSound
<1>4. ScoresAreLogged
    BY DEF DashInit, NoTicket, ScoresAreLogged
<1> QED
    BY <1>1, <1>2, <1>3, <1>4, FS_EmptySet DEF DashInit, DeskInv, FeedbackIsSound, DecisionsAreSound

\* What an action may do to a ticket: once it is taken it keeps its lane and its draft, and
\* a changed one waits for no verdict.
RowStep(r, s) ==
    s = r \/ (r.status \notin {"absent", "submitted"} =>
                /\ s.status \notin {"absent", "submitted", "drafted"}
                /\ s.lane = r.lane /\ s.draft = r.draft)

\* A draft that was there before keeps its score.
ScoreStep(r, s) == s.draft => r.draft /\ s.score = r.score

\* A step of the desk, as the pages see it.
DeskMoves ==
    /\ \A t \in Tickets : RowStep(tickets[t], tickets'[t])
    /\ feedback \subseteq feedback'
    /\ decisions \subseteq decisions'
    /\ UNCHANGED view

\* Verdicts and logged decisions stay true of their tickets (every action of the desk).
LEMMA RowsMove ==
    ASSUME DeskInv, tickets' \in [Tickets -> TicketRows],
           \A t \in Tickets : RowIsSound(tickets'[t]) /\ RowStep(tickets[t], tickets'[t])
    PROVE  /\ \A f \in feedback :
                 IsVerdict(f) => tickets'[f.ticket].draft /\ tickets'[f.ticket].status # "drafted"
           /\ \A d \in decisions : /\ tickets'[d.ticket].status \notin {"absent", "submitted"}
                                   /\ d.lane = tickets'[d.ticket].lane
           /\ \A c \in DeskCalls : underway[c] # None =>
                 RequestIsSound(underway[c], tickets'[underway[c].ticket])
<1>1. ASSUME NEW f \in feedback, IsVerdict(f)
      PROVE  tickets'[f.ticket].draft /\ tickets'[f.ticket].status # "drafted"
    <2> DEFINE r == tickets[f.ticket]
               s == tickets'[f.ticket]
    <2>1. f.ticket \in Tickets /\ r.draft /\ r.status # "drafted"
        BY <1>1 DEF DeskInv, FeedbackIsSound
    <2>2. RowIsSound(r) /\ RowStep(r, s)
        BY <2>1 DEF DeskInv
    <2>3. r.status \notin {"absent", "submitted"}
        BY <2>1, <2>2 DEF RowIsSound
    <2> QED
        BY <2>1, <2>2, <2>3 DEF RowStep
<1>2. ASSUME NEW d \in decisions
      PROVE  tickets'[d.ticket].status \notin {"absent", "submitted"} /\ d.lane = tickets'[d.ticket].lane
    <2> DEFINE r == tickets[d.ticket]
               s == tickets'[d.ticket]
    <2>1. d.ticket \in Tickets /\ r.status \notin {"absent", "submitted"} /\ d.lane = r.lane
        BY DEF DeskInv, DecisionsAreSound
    <2>2. RowStep(r, s)
        BY <2>1
    <2> QED
        BY <2>1, <2>2 DEF RowStep
<1>3. ASSUME NEW c \in DeskCalls, underway[c] # None
      PROVE  RequestIsSound(underway[c], tickets'[underway[c].ticket])
    <2> PICK w : w = underway[c]
        OBVIOUS
    <2>1. w.ticket \in Tickets /\ RequestIsSound(w, tickets[w.ticket])
        BY <1>3 DEF DeskInv, UnderwayIsSound
    <2> PICK r, s : r = tickets[w.ticket] /\ s = tickets'[w.ticket]
        OBVIOUS
    <2>2. RowStep(r, s) /\ RequestIsSound(w, r)
        BY <2>1
    <2>3. RequestIsSound(w, s)
        BY <2>2 DEF RowStep, RequestIsSound
    <2> QED
        BY <2>3
<1> QED
    BY <1>1, <1>2, <1>3

\* A draft's ticket goes on showing what was logged (every action but decisions and seeds).
LEMMA ScoresStay ==
    ASSUME DeskInv, feedback \subseteq feedback', decisions \subseteq decisions',
           \A t \in Tickets : ScoreStep(tickets[t], tickets'[t])
    PROVE  ScoresAreLogged'
BY DEF DeskInv, ScoresAreLogged, ScoreStep, IsSeeded

\* Nothing but tickets move (a ticket is filed, given up or routed).
LEMMA TicketsMoveKeepsDesk ==
    ASSUME DeskInv, tickets' \in [Tickets -> TicketRows], UNCHANGED <<feedback, underway, decisions>>,
           \A t \in Tickets : RowIsSound(tickets'[t]) /\ RowStep(tickets[t], tickets'[t]),
           ScoresAreLogged'
    PROVE  DeskInv'
<1>1. FeedbackIsSound'
    BY RowsMove DEF DeskInv, FeedbackIsSound
<1>2. DecisionsAreSound'
    BY RowsMove DEF DeskInv, DecisionsAreSound
<1>3. UnderwayIsSound'
    BY RowsMove DEF DeskInv, UnderwayIsSound
<1> QED
    BY <1>1, <1>2, <1>3 DEF DeskInv

\* One row of the tickets changes.
LEMMA OneRowMoves ==
    ASSUME DeskInv, NEW t \in Tickets, NEW r \in TicketRows, RowIsSound(r), RowStep(tickets[t], r),
           tickets' = [tickets EXCEPT ![t] = r]
    PROVE  /\ tickets' \in [Tickets -> TicketRows]
           /\ \A u \in Tickets : RowIsSound(tickets'[u]) /\ RowStep(tickets[u], tickets'[u])
           /\ ScoreStep(tickets[t], r) => \A u \in Tickets : ScoreStep(tickets[u], tickets'[u])
BY DEF DeskInv, RowStep, ScoreStep

\* Feedback is given on a ticket that waits for a verdict, or that none is given on any more; a
\* verdict that is overtaken may be the second one.
LEMMA FeedbackStays ==
    ASSUME DashAssumption, DeskInv, tickets' \in [Tickets -> TicketRows],
           \A t \in Tickets : RowIsSound(tickets'[t]) /\ RowStep(tickets[t], tickets'[t]),
           NEW f, feedback' = feedback \cup {f},
           f.ticket \in Tickets, f.action \in FeedbackActions, f.reviewer \in Engineers \cup Admins,
           f.overtaken \in BOOLEAN,
           IsVerdict(f) => tickets'[f.ticket].draft /\ tickets'[f.ticket].status # "drafted",
           Standing(f) => tickets[f.ticket].status = "drafted"
    PROVE  FeedbackIsSound'
<1>1. IsFiniteSet(feedback')
    BY FS_AddElement DEF DeskInv, FeedbackIsSound
<1>2. \A g \in feedback : Standing(g) /\ Standing(f) => f.ticket # g.ticket
    BY DEF DeskInv, FeedbackIsSound, Standing
<1>3. f.reviewer # SyntheticReviewer
    BY DEF DashAssumption
<1> QED
    BY <1>1, <1>2, <1>3, RowsMove DEF DeskInv, FeedbackIsSound

\* Filing a ticket (create_ticket) keeps the desk sound.
LEMMA SubmitKeepsDesk ==
    ASSUME DeskInv, NEW t \in Tickets, SubmitTicket(t)
    PROVE  DeskInv' /\ DeskMoves
<1> DEFINE r == [tickets[t] EXCEPT !.status = "submitted"]
<1>1. tickets[t] \in TicketRows /\ RowIsSound(tickets[t]) /\ tickets[t].status = "absent"
    BY DEF DeskInv, SubmitTicket
<1>2. r \in TicketRows /\ RowIsSound(r) /\ RowStep(tickets[t], r) /\ ScoreStep(tickets[t], r)
    BY <1>1 DEF TicketRows, TicketStatuses, RowIsSound, RowStep, ScoreStep
<1>3. tickets' = [tickets EXCEPT ![t] = r] /\ UNCHANGED <<feedback, underway, decisions>>
    BY DEF SubmitTicket
<1> QED
    BY <1>2, <1>3, OneRowMoves, ScoresStay, TicketsMoveKeepsDesk DEF SubmitTicket, DeskMoves, DeskStep

\* So does a pipeline that fails.
LEMMA GiveUpKeepsDesk ==
    ASSUME DeskInv, NEW t \in Tickets, GiveUp(t)
    PROVE  DeskInv' /\ DeskMoves
<1> DEFINE r == [tickets[t] EXCEPT !.status = "escalated", !.lane = "escalate"]
<1>1. tickets[t] \in TicketRows /\ RowIsSound(tickets[t]) /\ tickets[t].status = "submitted"
    BY DEF DeskInv, GiveUp
<1>2. r \in TicketRows /\ RowIsSound(r) /\ RowStep(tickets[t], r) /\ ScoreStep(tickets[t], r)
    BY <1>1 DEF TicketRows, TicketStatuses, LaneNames, RowIsSound, RowStep, ScoreStep
<1>3. tickets' = [tickets EXCEPT ![t] = r] /\ UNCHANGED <<feedback, underway, decisions>>
    BY DEF GiveUp
<1> QED
    BY <1>2, <1>3, OneRowMoves, ScoresStay, TicketsMoveKeepsDesk DEF GiveUp, DeskMoves, DeskStep

\* So does routing a ticket to the engineer an admin chose (approve_escalation).
LEMMA RouteKeepsDesk ==
    ASSUME DeskInv, NEW t \in Tickets, NEW d \in Departments, Route(t, d)
    PROVE  DeskInv' /\ DeskMoves
<1> DEFINE r == [tickets[t] EXCEPT !.dept = d]
<1>1. tickets[t] \in TicketRows /\ RowIsSound(tickets[t]) /\ tickets[t].status = "escalated"
    BY DEF DeskInv, Route
<1>2. r \in TicketRows /\ RowIsSound(r) /\ RowStep(tickets[t], r) /\ ScoreStep(tickets[t], r)
    BY <1>1 DEF TicketRows, TicketStatuses, RowIsSound, RowStep, ScoreStep
<1>3. tickets' = [tickets EXCEPT ![t] = r] /\ UNCHANGED <<feedback, underway, decisions>>
    BY DEF Route
<1> QED
    BY <1>2, <1>3, OneRowMoves, ScoresStay, TicketsMoveKeepsDesk DEF Route, DeskMoves, DeskStep

\* A request that passes its checks changes nothing yet.
LEMMA BeginKeepsDesk ==
    ASSUME DeskInv, NEW c \in DeskCalls, NEW t \in Tickets, NEW status, NEW said, Begin(c, t, status, said),
           RequestIsSound([ticket |-> t, read |-> tickets[t].status, status |-> status, said |-> said],
                          tickets[t])
    PROVE  DeskInv' /\ DeskMoves
<1> DEFINE w == [ticket |-> t, read |-> tickets[t].status, status |-> status, said |-> said]
<1>1. underway' = [underway EXCEPT ![c] = w] /\ UNCHANGED <<tickets, feedback, decisions, view>>
    BY DEF Begin, DeskStep
<1>2. w.ticket = t /\ RequestIsSound(w, tickets[t])
    OBVIOUS
<1> HIDE DEF w
<1>3. UnderwayIsSound'
    BY <1>1, <1>2 DEF DeskInv, UnderwayIsSound
<1>4. FeedbackIsSound' /\ DecisionsAreSound' /\ ScoresAreLogged'
    BY <1>1 DEF DeskInv, FeedbackIsSound, DecisionsAreSound, ScoresAreLogged
<1> QED
    BY <1>1, <1>3, <1>4 DEF DeskInv, DeskMoves, RowStep

\* Reviews (submit_ticket_feedback), answers to escalations (resolve_escalation) and rejections
\* (reject_escalation) begin on a ticket that is taken, a verdict on a waiting draft.
LEMMA RequestsBegin ==
    ASSUME DashAssumption, DeskInv, NEW c \in DeskCalls, NEW t \in Tickets
    PROVE  /\ \A v \in Engineers \cup Admins, a \in Workbench, b \in BOOLEAN :
                 Review(c, t, v, a, b) => DeskInv' /\ DeskMoves
           /\ \A v \in Engineers : Resolve(c, t, v) => DeskInv' /\ DeskMoves
           /\ Close(c, t) => DeskInv' /\ DeskMoves
<1> DEFINE Request(status, said) ==
               [ticket |-> t, read |-> tickets[t].status, status |-> status, said |-> said]
<1>1. RowIsSound(tickets[t])
    BY DEF DeskInv
<1>2. ASSUME NEW v \in Engineers \cup Admins, NEW a \in Workbench, NEW b \in BOOLEAN, Review(c, t, v, a, b)
      PROVE  DeskInv' /\ DeskMoves
    <2> DEFINE status == IF a \in {"escalate", "doubt"} THEN "escalated" ELSE "reviewed"
    <2>1. tickets[t].status = "drafted" /\ Begin(c, t, status, Said(v, a, b))
        BY <1>2 DEF Review
    <2>2. a \in FeedbackActions /\ a # "resolve"
        BY DEF DashAssumption, FeedbackActions
    <2>3. SayingIsSound(Said(v, a, b))
        BY <2>2 DEF SayingIsSound, Said
    <2>4. RequestIsSound(Request(status, Said(v, a, b)), tickets[t])
        BY <1>1, <2>1, <2>3 DEF RequestIsSound, RowIsSound
    <2> HIDE DEF status
    <2> QED
        BY <2>1, <2>4, BeginKeepsDesk
<1>3. ASSUME NEW v \in Engineers, Resolve(c, t, v) PROVE DeskInv' /\ DeskMoves
    <2>1. tickets[t].status = "escalated" /\ Begin(c, t, "reviewed", Said(v, "resolve", FALSE))
        BY <1>3 DEF Resolve
    <2>2. RequestIsSound(Request("reviewed", Said(v, "resolve", FALSE)), tickets[t])
        BY <2>1 DEF RequestIsSound, SayingIsSound, Said, FeedbackActions
    <2> QED
        BY <2>1, <2>2, BeginKeepsDesk
<1>4. ASSUME Close(c, t) PROVE DeskInv' /\ DeskMoves
    <2>1. tickets[t].status = "escalated" /\ Begin(c, t, "closed", None)
        BY <1>4 DEF Close
    <2>2. RequestIsSound(Request("closed", None), tickets[t])
        BY <2>1 DEF RequestIsSound
    <2> QED
        BY <2>1, <2>2, BeginKeepsDesk
<1> QED
    BY <1>2, <1>3, <1>4

\* A request commits, whatever has become of its ticket: its verdict stands only if the draft
\* still waited.
LEMMA CommitKeepsDesk ==
    ASSUME DashAssumption, DeskInv, NEW c \in DeskCalls, CommitRequest(c)
    PROVE  DeskInv' /\ DeskMoves
<1> PICK w : w = underway[c]
    OBVIOUS
<1>1. w # None /\ w.ticket \in Tickets /\ RequestIsSound(w, tickets[w.ticket])
    BY DEF CommitRequest, DeskInv, UnderwayIsSound
<1> PICK t \in Tickets : t = w.ticket
    BY <1>1
<1> PICK row : row = tickets[t]
    OBVIOUS
<1> DEFINE r == [row EXCEPT !.status = w.status]
           f == FeedbackRow(t, w.said, Cardinality(SaidAlready(t, w.said)) + 1, row.status # w.read)
<1>2. /\ tickets' = [tickets EXCEPT ![t] = r]
      /\ feedback' = feedback \cup IF w.said = None THEN {} ELSE {f}
      /\ underway' = [underway EXCEPT ![c] = None]
      /\ UNCHANGED <<decisions, view>>
    BY DEF CommitRequest, DeskStep
<1>3. row \in TicketRows /\ RowIsSound(row) /\ RequestIsSound(w, row)
    BY <1>1 DEF DeskInv
<1>4. /\ r \in TicketRows /\ RowIsSound(r) /\ RowStep(row, r) /\ ScoreStep(row, r)
      /\ r.draft = row.draft /\ r.status # "drafted"
    BY <1>3 DEF TicketRows, TicketStatuses, RowIsSound, RowStep, ScoreStep, RequestIsSound
<1>5. /\ f.ticket = t /\ f.reviewer = w.said.reviewer /\ f.action = w.said.action
      /\ f.overtaken = (row.status # w.read)
    BY DEF FeedbackRow
<1> HIDE DEF r, f
<1>6. /\ tickets' \in [Tickets -> TicketRows]
      /\ \A u \in Tickets : RowIsSound(tickets'[u]) /\ RowStep(tickets[u], tickets'[u])
      /\ \A u \in Tickets : ScoreStep(tickets[u], tickets'[u])
      /\ tickets'[t] = r
    BY <1>2, <1>4, OneRowMoves DEF DeskInv
<1>7. FeedbackIsSound'
    <2>1. CASE w.said = None
        BY <1>2, <1>6, <2>1, RowsMove DEF DeskInv, FeedbackIsSound
    <2>2. CASE w.said # None
        <3>1. feedback' = feedback \cup {f}
            BY <1>2, <2>2
        <3>2. f.action \in FeedbackActions /\ f.reviewer \in Engineers \cup Admins /\ f.overtaken \in BOOLEAN
            BY <1>3, <1>5, <2>2 DEF RequestIsSound, SayingIsSound
        <3>3. IsVerdict(f) => w.read = "drafted" /\ row.draft
            BY <1>3, <1>5, <2>2 DEF RequestIsSound, IsVerdict
        <3>4. IsVerdict(f) => tickets'[f.ticket].draft /\ tickets'[f.ticket].status # "drafted"
            BY <1>4, <1>5, <1>6, <3>3
        <3>5. Standing(f) => tickets[f.ticket].status = "drafted"
            BY <1>5, <3>3 DEF Standing
        <3> QED
            BY <1>5, <1>6, <3>1, <3>2, <3>4, <3>5, FeedbackStays
    <2> QED
        BY <2>1, <2>2
<1>8. DecisionsAreSound'
    BY <1>2, <1>6, RowsMove DEF DeskInv, DecisionsAreSound
<1>9. UnderwayIsSound'
    BY <1>2, <1>6, RowsMove DEF DeskInv, UnderwayIsSound
<1>10. ScoresAreLogged'
    BY <1>2, <1>6, ScoresStay
<1> QED
    BY <1>2, <1>6, <1>7, <1>8, <1>9, <1>10 DEF DeskInv, DeskMoves

\* The simulated reviews are no verdicts either (seed_synthetic_confidence_data).
LEMMA SeedKeepsDesk ==
    ASSUME DashAssumption, DeskInv, NEW a \in Simulated, SeedSynthetic(a)
    PROVE  DeskInv' /\ DeskMoves
<1> DEFINE closed == {t \in Tickets : tickets[t].status = "closed" /\ tickets[t].dept # None}
           fresh == {t \in closed : ~ HasSeed(t)}
           row(t) == FeedbackRow(t, Said(SyntheticReviewer, a, FALSE), 1, FALSE)
           given == {row(t) : t \in fresh}
<1>1. /\ tickets' = [t \in Tickets |-> IF t \in closed THEN [tickets[t] EXCEPT !.score = SeedScore] ELSE tickets[t]]
      /\ feedback' = feedback \cup given /\ UNCHANGED <<underway, decisions>>
    BY DEF SeedSynthetic
<1>2. ASSUME NEW t \in Tickets
      PROVE  tickets'[t] \in TicketRows /\ RowIsSound(tickets'[t]) /\ RowStep(tickets[t], tickets'[t])
    <2>1. tickets[t] \in TicketRows /\ RowIsSound(tickets[t])
        BY DEF DeskInv
    <2>2. CASE t \in closed
        <3> DEFINE r == [tickets[t] EXCEPT !.score = SeedScore]
        <3>1. tickets[t].status = "closed" /\ tickets'[t] = r
            BY <1>1, <2>2
        <3>2. r \in TicketRows /\ RowIsSound(r) /\ RowStep(tickets[t], r)
            BY <2>1, <3>1 DEF DashAssumption, TicketRows, TicketStatuses, RowIsSound, RowStep
        <3> QED
            BY <3>1, <3>2
    <2>3. CASE t \notin closed
        BY <1>1, <2>1, <2>3 DEF RowStep
    <2> QED
        BY <2>2, <2>3
<1>3. tickets' \in [Tickets -> TicketRows]
    BY <1>1, <1>2
<1>4. \A f \in given : /\ f.ticket \in fresh /\ f.action \in FeedbackActions
                       /\ f.reviewer = SyntheticReviewer /\ f.overtaken = FALSE /\ f = row(f.ticket)
    BY DEF DashAssumption, FeedbackActions, FeedbackRow, Said
<1>5. IsFiniteSet(given)
    <2>1. IsFiniteSet(Tickets)
        BY DEF DashAssumption
    <2>2. \A f, g \in given : f.ticket = g.ticket => f = g
        BY <1>4
    <2> DEFINE to == [f \in given |-> f.ticket]
    <2>3. \A f \in given : to[f] \in Tickets
        BY <1>4
    <2>4. \A f, g \in given : to[f] = to[g] => f = g
        BY <2>2
    <2> HIDE DEF to, given
    <2> QED
        BY <2>1, <2>3, <2>4, NoMoreThan
<1>6. IsFiniteSet(feedback')
    BY <1>1, <1>5, FS_Union DEF DeskInv, FeedbackIsSound
<1>7. \A f \in given : ~ IsVerdict(f)
    BY <1>4 DEF IsVerdict
<1>11. fresh \subseteq Tickets /\ \A t \in fresh : row(t) \in given /\ ~ HasSeed(t)
    OBVIOUS
<1>12. ASSUME NEW f \in feedback', NEW g \in feedback', f.ticket = g.ticket,
              f.reviewer = SyntheticReviewer, g.reviewer = SyntheticReviewer
       PROVE  f = g
    <2>1. \A h \in feedback : h.reviewer = SyntheticReviewer => h.ticket \notin fresh
        BY <1>11 DEF HasSeed
    <2> HIDE DEF given, fresh, row
    <2> QED
        BY <1>1, <1>4, <1>12, <2>1 DEF DeskInv, FeedbackIsSound
<1>13. ScoresAreLogged'
    <2> SUFFICES ASSUME NEW t \in Tickets, tickets'[t].draft, ~ IsSeeded(feedback', t)
                 PROVE  \E d \in decisions : d.ticket = t /\ d.score = tickets'[t].score
        BY <1>1 DEF ScoresAreLogged
    <2>1. ~ HasSeed(t)
        BY <1>1 DEF HasSeed, IsSeeded
    <2>2. t \notin fresh
        BY <1>1, <1>4, <1>11 DEF IsSeeded, FeedbackRow, Said
    <2>3. tickets'[t] = tickets[t]
        BY <1>1, <2>1, <2>2
    <2> QED
        BY <2>1, <2>3 DEF DeskInv, ScoresAreLogged, HasSeed, IsSeeded
<1>14. UnderwayIsSound'
    BY <1>1, <1>2, <1>3, RowsMove DEF DeskInv, UnderwayIsSound
<1> HIDE DEF given, fresh, row
<1>8. FeedbackIsSound'
    BY <1>1, <1>2, <1>3, <1>4, <1>6, <1>7, <1>11, <1>12, RowsMove DEF DeskInv, FeedbackIsSound, Standing
<1>9. DecisionsAreSound'
    BY <1>1, <1>2, <1>3, RowsMove DEF DeskInv, DecisionsAreSound
<1>10. DeskMoves
    BY <1>1, <1>2 DEF DeskMoves, SeedSynthetic, DeskStep
<1> QED
    BY <1>2, <1>3, <1>8, <1>9, <1>10, <1>13, <1>14 DEF DeskInv

\* The lane follows from the whole score, and the rounded one fits it (decide, log_decision).
LEMMA ChosenLaneFits ==
    ASSUME DashAssumption, NEW s \in Scores \cup {None}, NEW lane \in {LaneOf(s), "escalate"}, NEW t
    PROVE  /\ lane \in LaneNames
           /\ lane # "escalate" => s # None /\ lane \in ShownLanes
           /\ s # None => Logged(s) \in Nat
           /\ FitsLane([ticket |-> t, lane |-> lane, score |-> IF s = None THEN None ELSE Logged(s)])
<1>1. lane \in LaneNames /\ (lane # "escalate" => s # None /\ lane \in ShownLanes)
    BY DEF LaneOf, LaneNames, ShownLanes
<1>2. CASE s = None
    BY <1>1, <1>2 DEF FitsLane
<1>3. CASE s # None
    <2>1. s \in Nat /\ FastScore \in Nat /\ AssistedScore \in Nat
        BY <1>3 DEF DashAssumption
    <2>2. /\ Logged(s) \in Nat
          /\ s >= FastScore => Logged(s) >= FastScore
          /\ s < FastScore => Logged(s) <= FastScore
          /\ s >= AssistedScore => Logged(s) >= AssistedScore
        BY <2>1, LoggedIs DEF DashAssumption
    <2> PICK l \in Nat : l = Logged(s)
        BY <2>2
    <2>3. /\ s >= FastScore => Bin(FastScore) <= Bin(l)
          /\ s < FastScore => Bin(l) <= Bin(FastScore)
          /\ s >= AssistedScore => Bin(AssistedScore) <= Bin(l)
          /\ Bin(l) \in Nat /\ Bin(FastScore) \in Nat /\ Bin(AssistedScore) \in Nat
        BY <2>1, <2>2, BinIs DEF Bins, BinCount
    <2>4. /\ lane = "fast" => s >= FastScore
          /\ lane = "assisted" => s < FastScore /\ s >= AssistedScore
        BY <1>3, <2>1 DEF LaneOf
    <2>5. FitsLane([ticket |-> t, lane |-> lane, score |-> l])
        BY <2>3, <2>4 DEF FitsLane
    <2> QED
        BY <1>1, <1>3, <2>2, <2>5
<1> QED
    BY <1>2, <1>3

\* The pipeline's commit: the ticket and its log row agree (run_ticket_pipeline).
LEMMA DecideKeepsDesk ==
    ASSUME DashAssumption, DeskInv, NEW t \in Tickets, NEW d \in Departments,
           NEW s \in Scores \cup {None}, NEW lane \in LaneNames, NEW logged \in BOOLEAN,
           Decide(t, d, s, lane, logged)
    PROVE  DeskInv' /\ DeskMoves
<1> DEFINE r == [status |-> IF lane = "escalate" THEN "escalated" ELSE "drafted", dept |-> d, lane |-> lane,
                 score |-> IF logged /\ s # None THEN Logged(s) ELSE None, draft |-> lane # "escalate"]
           e == [ticket |-> t, lane |-> lane, score |-> IF s = None THEN None ELSE Logged(s)]
<1>1. tickets[t].status = "submitted" /\ lane \in {LaneOf(s), "escalate"} /\ (lane # "escalate" => logged)
    BY DEF Decide
<1>2. /\ lane # "escalate" => s # None /\ lane \in ShownLanes
      /\ s # None => Logged(s) \in Nat
      /\ FitsLane(e)
    BY <1>1, ChosenLaneFits
<1>3. tickets' = [tickets EXCEPT ![t] = r] /\ UNCHANGED <<feedback, underway>>
    BY DEF Decide
<1>4. \/ ~ logged /\ decisions' = decisions
      \/ logged /\ decisions' = decisions \cup {e}
    BY DEF Decide
<1>5. r \in TicketRows
    <2>1. r.score \in Nat \cup {None}
        BY <1>2
    <2>2. r.status \in TicketStatuses /\ r.lane \in LaneNames \cup {None} /\ r.draft \in BOOLEAN
        BY DEF TicketStatuses
    <2> HIDE DEF r
    <2>3. r = [status |-> r.status, dept |-> d, lane |-> r.lane, score |-> r.score, draft |-> r.draft]
        BY DEF r
    <2> QED
        BY <2>1, <2>2, <2>3 DEF TicketRows
<1>6. RowIsSound(r) /\ RowStep(tickets[t], r)
    BY <1>1, <1>2 DEF RowIsSound, RowStep
<1>7. /\ tickets' \in [Tickets -> TicketRows]
      /\ \A u \in Tickets : RowIsSound(tickets'[u]) /\ RowStep(tickets[u], tickets'[u])
    BY <1>3, <1>5, <1>6, OneRowMoves
<1>11. r.draft => logged /\ e.ticket = t /\ e.score = r.score
    BY <1>1, <1>2
<1>12. ScoresAreLogged'
    <2> SUFFICES ASSUME NEW u \in Tickets, tickets'[u].draft, ~ IsSeeded(feedback', u)
                 PROVE  \E d2 \in decisions' : d2.ticket = u /\ d2.score = tickets'[u].score
        BY DEF ScoresAreLogged
    <2>1. tickets'[u] = IF u = t THEN r ELSE tickets[u]
        BY <1>3 DEF DeskInv
    <2>2. CASE u = t
        <3> HIDE DEF r, e
        <3> QED
            BY <1>4, <1>11, <2>1, <2>2
    <2>3. CASE u # t
        <3> HIDE DEF r, e
        <3> QED
            BY <1>3, <1>4, <2>1, <2>3 DEF DeskInv, ScoresAreLogged
    <2> QED
        BY <2>2, <2>3
<1>8. ASSUME decisions' = decisions PROVE DeskInv'
    BY <1>3, <1>7, <1>8, <1>12, TicketsMoveKeepsDesk
<1>9. ASSUME decisions' = decisions \cup {e} PROVE DeskInv'
    <2>1. FeedbackIsSound'
        BY <1>3, <1>7, RowsMove DEF DeskInv, FeedbackIsSound
    <2>2. IsFiniteSet(decisions')
        BY <1>9, FS_AddElement DEF DeskInv, DecisionsAreSound
    <2>3. \A c \in decisions : c.ticket # t
        BY <1>1 DEF DeskInv, DecisionsAreSound
    <2>4. e.ticket = t /\ e.lane = lane /\ tickets'[t] = r
        BY <1>3 DEF DeskInv
    <2>5. r.status \notin {"absent", "submitted"} /\ r.lane = lane
        OBVIOUS
    <2> HIDE DEF e, r
    <2>6. DecisionsAreSound'
        BY <1>2, <1>7, <1>9, <2>2, <2>3, <2>4, <2>5, RowsMove DEF DeskInv, DecisionsAreSound, FitsLane
    <2>7. UnderwayIsSound'
        BY <1>3, <1>7, RowsMove DEF DeskInv, UnderwayIsSound
    <2> QED
        BY <1>7, <1>12, <2>1, <2>6, <2>7 DEF DeskInv
<1>10. DeskMoves
    BY <1>3, <1>4, <1>7 DEF DeskMoves, Decide, DeskStep
<1> QED
    BY <1>4, <1>8, <1>9, <1>10

----------------------------------------------------------------------------
(* The pages *)

\* A page under way keeps what it has loaded while the desk moves.
LEMMA DeskKeepsView ==
    ASSUME DeskInv, ViewInv, DeskMoves
    PROVE  ViewInv'
<1>1. view' = view /\ feedback \subseteq feedback'
    BY DEF DeskMoves
<1>2. ASSUME view.pc \in {"actions", "decisions"}, NEW t \in view.tickets
      PROVE  view.session[t].lane # None /\ view.session[t].lane = tickets'[t].lane
    <2>1. t \in Tickets /\ view.session[t].lane # None /\ view.session[t].lane = tickets[t].lane
        BY <1>2 DEF ViewInv
    <2>2. RowIsSound(tickets[t]) /\ RowStep(tickets[t], tickets'[t])
        BY <2>1 DEF DeskInv, DeskMoves
    <2> QED
        BY <2>1, <2>2 DEF RowIsSound, RowStep
<1> QED
    BY <1>1, <1>2 DEF ViewInv

\* What a page shows stays as it was computed.
LEMMA DeskKeepsPages ==
    ASSUME DashboardsAddUp, DeskMoves
    PROVE  DashboardsAddUp'
BY DEF DashboardsAddUp, DeskMoves, SummaryAddsUp, ReportIsAboutDrafts, LanesAreComparable, Shown

\* No page is shown while one is computed.
LEMMA NothingShown ==
    ASSUME view'.pc # "shown"
    PROVE  DashboardsAddUp'
BY DEF DashboardsAddUp, SummaryAddsUp, ReportIsAboutDrafts, LanesAreComparable, Shown

\* The parts of a finite set that its elements' values name.
LEMMA Parts ==
    ASSUME NEW X, IsFiniteSet(X), NEW S \in SUBSET X
    PROVE  IsFiniteSet(S) /\ Cardinality(S) \in Nat /\ Cardinality(S) <= Cardinality(X)
BY FS_Subset, FS_CardinalityType

\* Two sets have together no more elements than the one and the other.
LEMMA UnionSize ==
    ASSUME NEW X, NEW Y, IsFiniteSet(X), IsFiniteSet(Y)
    PROVE  IsFiniteSet(X \cup Y) /\ Cardinality(X \cup Y) <= Cardinality(X) + Cardinality(Y)
<1>1. Cardinality(X) \in Nat /\ Cardinality(Y) \in Nat
    BY FS_CardinalityType
<1>2. IsFiniteSet(X \cap Y) /\ Cardinality(X \cap Y) \in Nat
    BY FS_Intersection, FS_CardinalityType
<1> QED
    BY <1>1, <1>2, FS_Union

\* The lanes page (get_lane_analytics) is right when its last SELECT has answered.
LEMMA LanesPageIsRight ==
    ASSUME DashAssumption, DeskInv, ViewInv, ReadLaneDecisions
    PROVE  DashboardsAddUp'
<1> DEFINE ts == view.tickets
           lane(t) == view.session[t].lane
<1>1. /\ view.pc = "decisions" /\ view.kind = "lanes"
      /\ ts \subseteq Tickets /\ view.feedback \subseteq feedback
      /\ \A t \in ts : lane(t) # None /\ lane(t) = tickets[t].lane
    BY DEF ReadLaneDecisions, ViewInv
<1>2. /\ view' = [view EXCEPT !.pc = "shown", !.shown = LanesPage]
      /\ view'.kind = "lanes" /\ view'.shown = LanesPage
    BY <1>1 DEF ReadLaneDecisions, ViewInv, ViewFields
<1>3. IsFiniteSet(ts)
    BY <1>1, FS_Subset DEF DashAssumption
<1>4. ASSUME NEW l \in LaneNames
      PROVE  LET row == LanesPage.lane[l]
                 seeded == {f \in row.actions : f.reviewer = SyntheticReviewer}
             IN  /\ Cardinality(row.actions) <=
                       row.mix + Cardinality(Overtaken(row.actions)) + Cardinality(seeded)
                 /\ Cardinality(seeded) <= row.mix
                 /\ SumOver(row.bins) <= row.mix
                 /\ l = "escalate" => row.actions = seeded
                 /\ \A b \in Bins : row.bins[b] > 0 =>
                       /\ l = "fast" => b >= Bin(FastScore)
                       /\ l = "assisted" => b >= Bin(AssistedScore) /\ b <= Bin(FastScore)
    <2> DEFINE mine == {t \in ts : lane(t) = l}
               done == LaneActions(l)
               seeded == {f \in done : f.reviewer = SyntheticReviewer}
               standing == {f \in done : Standing(f)}
               scored == {d \in decisions : d.ticket \in ts /\ lane(d.ticket) = l /\ d.score # None}
    <2>1. /\ LanesPage.lane[l].mix = Cardinality(mine)
          /\ LanesPage.lane[l].actions = done
          /\ LanesPage.lane[l].bins = LaneBins(l)
        BY DEF LanesPage
    <2>2. IsFiniteSet(mine)
        BY <1>3, FS_Subset
    <2>3. \A f \in done : f \in feedback /\ f.ticket \in mine /\ f.action # "resolve"
        BY <1>1 DEF LaneActions
    <2>12. IsFiniteSet(done)
        BY <2>3, FS_Subset DEF DeskInv, FeedbackIsSound
    <2>13. IsFiniteSet(standing) /\ Cardinality(standing) <= Cardinality(mine)
        <3> DEFINE to == [f \in standing |-> f.ticket]
        <3>1. \A f \in standing : to[f] \in mine
            BY <2>3
        <3>2. \A f, g \in standing : to[f] = to[g] => f = g
            BY <2>3 DEF DeskInv, FeedbackIsSound
        <3> HIDE DEF standing, to, mine
        <3> QED
            BY <2>2, <3>1, <3>2, NoMoreThan
    <2>14. IsFiniteSet(seeded) /\ Cardinality(seeded) <= Cardinality(mine)
        <3> DEFINE to == [f \in seeded |-> f.ticket]
        <3>1. \A f \in seeded : to[f] \in mine
            BY <2>3
        <3>2. \A f, g \in seeded : to[f] = to[g] => f = g
            BY <2>3 DEF DeskInv, FeedbackIsSound
        <3> HIDE DEF seeded, to, mine
        <3> QED
            BY <2>2, <3>1, <3>2, NoMoreThan
    <2>15. IsFiniteSet(Overtaken(done))
        BY <2>12, FS_Subset DEF Overtaken
    <2>16. done = (standing \cup Overtaken(done)) \cup seeded
        BY <2>3 DEF Overtaken, Standing, IsVerdict
    <2>4. Cardinality(done) <= Cardinality(mine) + Cardinality(Overtaken(done)) + Cardinality(seeded)
        <3> HIDE DEF done, standing, seeded, mine
        <3>1. /\ IsFiniteSet(standing \cup Overtaken(done))
              /\ Cardinality(standing \cup Overtaken(done)) <= Cardinality(standing) + Cardinality(Overtaken(done))
            BY <2>13, <2>15, UnionSize
        <3>2. Cardinality(done) <= Cardinality(standing \cup Overtaken(done)) + Cardinality(seeded)
            BY <2>14, <2>16, <3>1, UnionSize
        <3> QED
            BY <2>2, <2>12, <2>13, <2>14, <2>15, <3>1, <3>2, FS_CardinalityType
    <2>5. l = "escalate" => done = seeded
        <3> SUFFICES ASSUME NEW f \in done, f.reviewer # SyntheticReviewer PROVE l # "escalate"
            OBVIOUS
        <3>1. f.ticket \in Tickets /\ tickets[f.ticket].draft /\ tickets[f.ticket].lane = l
            BY <1>1, <2>3 DEF DeskInv, FeedbackIsSound, IsVerdict
        <3> QED
            BY <3>1 DEF DeskInv, RowIsSound, ShownLanes
    <2>6. \A d \in scored : /\ d \in decisions /\ d.ticket \in mine /\ d.lane = l /\ d.score \in Nat
                            /\ FitsLane(d)
        BY <1>1 DEF DeskInv, DecisionsAreSound, FitsLane
    <2>7. IsFiniteSet(scored) /\ Cardinality(scored) <= Cardinality(mine)
        <3> DEFINE to == [d \in scored |-> d.ticket]
        <3>1. \A d \in scored : to[d] \in mine
            BY <2>6
        <3>2. \A d, e \in scored : to[d] = to[e] => d = e
            BY <2>6 DEF DeskInv, DecisionsAreSound
        <3> HIDE DEF scored, to, mine
        <3> QED
            BY <2>2, <3>1, <3>2, NoMoreThan
    <2> DEFINE of == [d \in scored |-> Bin(d.score)]
    <2>8. of \in [scored -> Bins]
        BY <2>6, BinIs
    <2>9. LaneBins(l) = [b \in Bins |-> Cardinality({d \in scored : of[d] = b})]
        <3>1. \A b \in Bins : {d \in scored : of[d] = b} = {d \in scored : Bin(d.score) = b}
            OBVIOUS
        <3>2. LaneBins(l) = [b \in Bins |-> Cardinality({d \in scored : Bin(d.score) = b})]
            BY DEF LaneBins
        <3> HIDE DEF scored, of
        <3> QED
            BY <3>1, <3>2
    <2>10. SumOver(LaneBins(l)) = Cardinality(scored)
        <3> HIDE DEF scored, of
        <3> QED
            BY <2>7, <2>8, <2>9, SharedOut
    <2>11. ASSUME NEW b \in Bins, LaneBins(l)[b] > 0
           PROVE  /\ l = "fast" => b >= Bin(FastScore)
                  /\ l = "assisted" => b >= Bin(AssistedScore) /\ b <= Bin(FastScore)
        <3> DEFINE some == {d \in scored : of[d] = b}
        <3>1. Cardinality(some) > 0
            BY <2>9, <2>11
        <3>2. some # {}
            <4> HIDE DEF some
            <4> QED
                BY <3>1, FS_EmptySet
        <3>3. PICK d \in scored : Bin(d.score) = b
            BY <3>2
        <3>4. FitsLane(d) /\ d.lane = l /\ d.score \in Nat
            BY <2>6
        <3>5. None \notin Nat
            BY DEF DashAssumption
        <3> HIDE DEF scored, some, of
        <3> QED
            BY <3>3, <3>4, <3>5 DEF FitsLane
    <2> HIDE DEF mine, scored, done, of
    <2> QED
        BY <2>1, <2>4, <2>5, <2>7, <2>10, <2>11, <2>14 DEF seeded
<1>5. LanesAreComparable'
    BY <1>2, <1>4 DEF LanesAreComparable
<1> QED
    BY <1>2, <1>5 DEF DashboardsAddUp, SummaryAddsUp, ReportIsAboutDrafts, Shown

\* The label of a verdict is never left out, that of an answer to an escalation always is.
LEMMA LabelIs ==
    ASSUME NEW d \in BOOLEAN, NEW f, f.action \in FeedbackActions
    PROVE  /\ LabelOf(d, f) \in {"good", "bad", "none"}
           /\ d => (LabelOf(d, f) # "none" <=> f.action # "resolve")
           /\ f.action = "resolve" => LabelOf(d, f) = "none"
BY DEF LabelOf, FeedbackActions

\* The rows of the report are the verdicts on drafts (get_confidence_model_report's WHERE).
LEMMA ReportRowsAre ==
    ASSUME DashAssumption, DeskInv
    PROVE  ReportRows = {f \in feedback : /\ tickets[f.ticket].draft
                                         /\ f.reviewer # SyntheticReviewer
                                         /\ f.action # "resolve"}
<1> SUFFICES ASSUME NEW f \in feedback, f.reviewer # SyntheticReviewer
             PROVE  (/\ tickets[f.ticket].score # None
                     /\ tickets[f.ticket].lane # None
                     /\ LabelOf(tickets[f.ticket].draft, f) # "none")
                    <=> tickets[f.ticket].draft /\ f.action # "resolve"
    BY DEF ReportRows
<1> DEFINE r == tickets[f.ticket]
<1>1. /\ f.ticket \in Tickets /\ f.action \in FeedbackActions
      /\ f.action # "resolve" => r.draft
    BY DEF DeskInv, FeedbackIsSound, IsVerdict
<1>2. r \in TicketRows /\ RowIsSound(r)
    BY <1>1 DEF DeskInv
<1>3. r.draft \in BOOLEAN
    BY <1>2 DEF TicketRows
<1>4. r.draft => r.score # None /\ r.lane # None
    BY <1>2 DEF RowIsSound, ShownLanes, DashAssumption
<1> HIDE DEF r
<1>5. (/\ r.score # None /\ r.lane # None /\ LabelOf(r.draft, f) # "none")
          <=> r.draft /\ f.action # "resolve"
    BY <1>1, <1>3, <1>4, LabelIs
<1> QED
    BY <1>5 DEF r

\* The report (get_confidence_model_report) is right when it is shown.
LEMMA ReportIsRight ==
    ASSUME DashAssumption, DeskInv, ViewInv, ShowReport
    PROVE  DashboardsAddUp'
<1> DEFINE fs == ReportRows
           r == ReportPage(fs)
<1>1. /\ view'.kind = "report" /\ view'.shown = r
      /\ view'.feedback = feedback /\ view'.session = tickets
    BY DEF ShowReport, NoPage
<1>2. fs = {f \in feedback : /\ tickets[f.ticket].draft
                            /\ f.reviewer # SyntheticReviewer
                            /\ f.action # "resolve"}
    BY ReportRowsAre
<1>3. IsFiniteSet(fs)
    BY <1>2, FS_Subset DEF DeskInv, FeedbackIsSound
<1>4. \A f \in fs : /\ f \in feedback /\ IsVerdict(f) /\ f.ticket \in Tickets
                    /\ tickets[f.ticket].draft /\ tickets[f.ticket].score \in Nat
    BY <1>2 DEF IsVerdict, DeskInv, FeedbackIsSound, RowIsSound
<1> DEFINE drafted == {t \in Tickets : tickets[t].draft}
<1> HIDE DEF fs
<1>5. Cardinality(fs) <= Cardinality(drafted) + Cardinality(Overtaken(fs))
    <2> DEFINE standing == fs \ Overtaken(fs)
               to == [f \in standing |-> f.ticket]
    <2>1. \A f \in standing : to[f] \in drafted
        BY <1>4
    <2>2. \A f, g \in standing : to[f] = to[g] => f = g
        BY <1>4 DEF DeskInv, FeedbackIsSound, Standing, Overtaken
    <2>3. IsFiniteSet(drafted)
        BY FS_Subset DEF DashAssumption
    <2>4. IsFiniteSet(standing) /\ Cardinality(standing) <= Cardinality(drafted)
        <3> HIDE DEF to, drafted, standing
        <3> QED
            BY <2>1, <2>2, <2>3, NoMoreThan
    <2>5. fs = standing \cup Overtaken(fs) /\ IsFiniteSet(Overtaken(fs))
        BY <1>3, FS_Subset DEF Overtaken
    <2>6. Cardinality(fs) <= Cardinality(standing) + Cardinality(Overtaken(fs))
        <3> HIDE DEF standing
        <3> QED
            BY <2>4, <2>5, UnionSize
    <2> HIDE DEF to, drafted, standing
    <2> QED
        BY <1>3, <2>3, <2>4, <2>5, <2>6, FS_CardinalityType
<1>6. SumOver([b \in Bins |-> r.calibration[b].count]) = Cardinality(fs)
    <2> DEFINE of == [f \in fs |-> Bin(tickets[f.ticket].score)]
    <2>1. of \in [fs -> Bins]
        BY <1>4, BinIs
    <2>2. \A b \in Bins : {f \in fs : of[f] = b} = {f \in fs : Bin(tickets[f.ticket].score) = b}
        OBVIOUS
    <2>3. [b \in Bins |-> r.calibration[b].count]
              = [b \in Bins |-> Cardinality({f \in fs : Bin(tickets[f.ticket].score) = b})]
        BY DEF ReportPage
    <2> HIDE DEF of
    <2>4. [b \in Bins |-> r.calibration[b].count] = [b \in Bins |-> Cardinality({f \in fs : of[f] = b})]
        BY <2>2, <2>3
    <2> QED
        BY <1>3, <2>1, <2>4, SharedOut
<1>7. SumOver([d \in DOMAIN r.trend |-> r.trend[d][2]]) = Cardinality(fs)
    <2> DEFINE days == {DayOf[f.ticket] : f \in fs}
               of == [f \in fs |-> DayOf[f.ticket]]
               onDay(d) == {f \in fs : DayOf[f.ticket] = d}
    <2>1. of \in [fs -> days]
        OBVIOUS
    <2>2. \A d \in days : {f \in fs : of[f] = d} = onDay(d)
        OBVIOUS
    <2>3. ASSUME NEW d \in days PROVE Cardinality(onDay(d)) # 0
        <3>1. onDay(d) # {} /\ IsFiniteSet(onDay(d))
            BY <1>3, FS_Subset
        <3> HIDE DEF onDay
        <3> QED
            BY <3>1, FS_EmptySet
    <2>4. DOMAIN r.trend = days /\ \A d \in days : r.trend[d][2] = Cardinality(onDay(d))
        <3>1. \E part : r.trend = [d \in days |-> Share(part[d], onDay(d))]
            <4> DEFINE good(d) == {f \in onDay(d) : LabelOf(tickets[f.ticket].draft, f) = "good"}
            <4>1. r.trend = [d \in days |-> Share(good(d), onDay(d))]
                BY DEF ReportPage
            <4> DEFINE part == [d \in days |-> good(d)]
            <4>2. r.trend = [d \in days |-> Share(part[d], onDay(d))]
                BY <4>1
            <4> QED
                BY <4>2
        <3> HIDE DEF onDay, r
        <3>2. PICK part : r.trend = [d \in days |-> Share(part[d], onDay(d))]
            BY <3>1
        <3>3. \A d \in days : r.trend[d] = <<Cardinality(part[d]), Cardinality(onDay(d))>>
            BY <3>2, <2>3 DEF Share
        <3> HIDE DEF days
        <3>4. DOMAIN r.trend = days
            BY <3>2
        <3>5. \A d \in days : r.trend[d][2] = Cardinality(onDay(d))
            BY <3>3
        <3> QED
            BY <3>4, <3>5
    <2>5. [d \in DOMAIN r.trend |-> r.trend[d][2]] = [d \in days |-> Cardinality(onDay(d))]
        BY <2>4
    <2> HIDE DEF of
    <2>6. [d \in DOMAIN r.trend |-> r.trend[d][2]] = [d \in days |-> Cardinality({f \in fs : of[f] = d})]
        BY <2>2, <2>5
    <2> DEFINE n == [d \in DOMAIN r.trend |-> r.trend[d][2]]
    <2> HIDE DEF days
    <2>7. SumOver([d \in days |-> Cardinality({f \in fs : of[f] = d})]) = Cardinality(fs)
        BY <1>3, <2>1, SharedOut
    <2>8. n = [d \in days |-> Cardinality({f \in fs : of[f] = d})]
        BY <2>6
    <2> HIDE DEF n
    <2>9. SumOver(n) = Cardinality(fs)
        BY <2>7, <2>8
    <2> QED
        BY <2>9 DEF n
<1>8. r.labeled = Cardinality(fs)
    BY DEF ReportPage
<1>9. r.synthetic = 0
    <2>1. {f \in fs : f.reviewer = SyntheticReviewer} = {}
        BY <1>4 DEF IsVerdict
    <2>2. r.synthetic = Cardinality({f \in fs : f.reviewer = SyntheticReviewer})
        BY DEF ReportPage
    <2> QED
        BY <2>1, <2>2, FS_EmptySet
<1> HIDE DEF r
<1>11. \A f \in fs : ~ IsSeeded(feedback, f.ticket) =>
          \E d \in decisions' : d.ticket = f.ticket /\ d.score = tickets[f.ticket].score
    BY <1>4 DEF ShowReport, DeskInv, ScoresAreLogged
<1>10. ReportIsAboutDrafts'
    BY <1>1, <1>2, <1>5, <1>6, <1>7, <1>8, <1>9, <1>11 DEF ReportIsAboutDrafts
<1> QED
    BY <1>1, <1>10 DEF DashboardsAddUp, SummaryAddsUp, LanesAreComparable, Shown

\* Two disjoint finite sets.
LEMMA DisjointSizes ==
    ASSUME NEW X, NEW Y, IsFiniteSet(X), IsFiniteSet(Y), X \cap Y = {}
    PROVE  IsFiniteSet(X \cup Y) /\ Cardinality(X \cup Y) = Cardinality(X) + Cardinality(Y)
<1>1. Cardinality(X) \in Nat /\ Cardinality(Y) \in Nat
    BY FS_CardinalityType
<1> QED
    BY <1>1, FS_Union, FS_EmptySet

\* Every action of some feedback is counted once (_feedback_summary).
LEMMA ActionsAddUp ==
    ASSUME NEW fs, IsFiniteSet(fs), \A f \in fs : f.action \in FeedbackActions, NEW session
    PROVE  SumOver(FeedbackSummary(fs, session).actions) = Cardinality(fs)
<1> DEFINE of == [f \in fs |-> f.action]
<1>1. of \in [fs -> FeedbackActions]
    OBVIOUS
<1>2. \A a \in FeedbackActions : {f \in fs : of[f] = a} = {f \in fs : f.action = a}
    OBVIOUS
<1>3. FeedbackSummary(fs, session).actions = [a \in FeedbackActions |-> Cardinality({f \in fs : f.action = a})]
    BY DEF FeedbackSummary, FeedbackActions
<1> HIDE DEF of
<1>4. FeedbackSummary(fs, session).actions = [a \in FeedbackActions |-> Cardinality({f \in fs : of[f] = a})]
    BY <1>2, <1>3
<1> QED
    BY <1>1, <1>4, SharedOut

\* No engineer's row counts an action twice (by_reviewer).
LEMMA RowsCountOnce ==
    ASSUME NEW fs, IsFiniteSet(fs), NEW ts, NEW row
    PROVE  SumOver([v \in Engineers |-> LET r == ReviewerRow(v, fs, ts, row)
                                        IN  r.resolved + r.rejected + r.escalated]) <= Cardinality(fs)
<1> DEFINE done == {f \in fs : f.reviewer \in Engineers /\ f.action \in FeedbackActions}
           did(v, as) == {f \in fs : f.reviewer = v /\ f.action \in as}
           of == [f \in done |-> f.reviewer]
           n == [v \in Engineers |-> LET r == ReviewerRow(v, fs, ts, row)
                                     IN  r.resolved + r.rejected + r.escalated]
<1>1. IsFiniteSet(done) /\ Cardinality(done) <= Cardinality(fs)
    BY FS_Subset
<1>2. of \in [done -> Engineers]
    OBVIOUS
<1>3. ASSUME NEW v \in Engineers
      PROVE  n[v] = Cardinality({f \in done : of[f] = v})
    <2> DEFINE a == did(v, {"accept", "edit", "resolve"})
               b == did(v, {"reject"})
               c == did(v, {"escalate", "doubt"})
    <2>1. n[v] = Cardinality(a) + Cardinality(b) + Cardinality(c)
        BY DEF ReviewerRow
    <2>2. IsFiniteSet(a) /\ IsFiniteSet(b) /\ IsFiniteSet(c)
        BY FS_Subset
    <2>3. a \cap b = {} /\ (a \cup b) \cap c = {}
        OBVIOUS
    <2>4. {f \in done : of[f] = v} = (a \cup b) \cup c
        BY DEF FeedbackActions
    <2> HIDE DEF a, b, c
    <2>5. IsFiniteSet(a \cup b) /\ Cardinality(a \cup b) = Cardinality(a) + Cardinality(b)
        BY <2>2, <2>3, DisjointSizes
    <2>6. Cardinality((a \cup b) \cup c) = Cardinality(a \cup b) + Cardinality(c)
        BY <2>2, <2>3, <2>5, DisjointSizes
    <2> HIDE DEF n, of, done
    <2> QED
        BY <2>1, <2>4, <2>5, <2>6
<1>4. n = [v \in Engineers |-> Cardinality({f \in done : of[f] = v})]
    <2>1. n = [v \in Engineers |-> n[v]]
        OBVIOUS
    <2> HIDE DEF n, of, done
    <2> QED
        BY <2>1, <1>3
<1>5. SumOver(n) = Cardinality(done)
    <2> HIDE DEF n, of, done
    <2> QED
        BY <1>1, <1>2, <1>4, SharedOut
<1> HIDE DEF done
<1> QED
    BY <1>1, <1>5

\* The tickets of a breakdown by a column are shared out (by_status, confidence_buckets,
\* by_department).
LEMMA SummaryTicketsAddUp ==
    ASSUME DashAssumption, NEW ts \in SUBSET Tickets, NEW row \in [Tickets -> TicketRows], NEW fs
    PROVE  LET s == SummaryPage(ts, row, fs)
           IN  /\ SumOver(s.status) = s.all.total
               /\ SumOver(s.buckets) = s.all.scored
               /\ SumOver([d \in Departments |-> s.dept[d].total]) <= s.all.total
<1> DEFINE s == SummaryPage(ts, row, fs)
           scored == {t \in ts : row[t].score # None}
           placed == {t \in ts : row[t].dept \in Departments}
<1>1. IsFiniteSet(ts) /\ IsFiniteSet(scored) /\ IsFiniteSet(placed) /\ Cardinality(placed) <= Cardinality(ts)
    BY FS_Subset DEF DashAssumption
<1>2. \A t \in ts : row[t].status \in TicketStatuses /\ row[t].score \in Nat \cup {None}
    BY DEF TicketRows
<1>3. s.all.total = Cardinality(ts) /\ s.all.scored = Cardinality(scored)
    BY DEF SummaryPage, Breakdown
<1>4. SumOver(s.status) = Cardinality(ts)
    <2> DEFINE of == [t \in ts |-> row[t].status]
    <2>1. of \in [ts -> TicketStatuses]
        BY <1>2
    <2>2. \A x \in TicketStatuses : {t \in ts : of[t] = x} = {t \in ts : row[t].status = x}
        OBVIOUS
    <2>3. s.status = [x \in TicketStatuses |-> Cardinality({t \in ts : row[t].status = x})]
        BY DEF SummaryPage
    <2> HIDE DEF of, s
    <2>4. s.status = [x \in TicketStatuses |-> Cardinality({t \in ts : of[t] = x})]
        BY <2>2, <2>3
    <2> QED
        BY <1>1, <2>1, <2>4, SharedOut
<1>5. SumOver(s.buckets) = Cardinality(scored)
    <2> DEFINE of == [t \in scored |-> Bin(row[t].score)]
    <2>1. of \in [scored -> Bins]
        BY <1>2, BinIs
    <2>2. \A x \in Bins : {t \in scored : of[t] = x} = {t \in scored : Bin(row[t].score) = x}
        OBVIOUS
    <2>3. s.buckets = [x \in Bins |-> Cardinality({t \in scored : Bin(row[t].score) = x})]
        BY DEF SummaryPage
    <2> HIDE DEF of, s, scored
    <2>4. s.buckets = [x \in Bins |-> Cardinality({t \in scored : of[t] = x})]
        BY <2>2, <2>3
    <2> QED
        BY <1>1, <2>1, <2>4, SharedOut
<1>6. SumOver([d \in Departments |-> s.dept[d].total]) = Cardinality(placed)
    <2> DEFINE of == [t \in placed |-> row[t].dept]
               n == [d \in Departments |-> s.dept[d].total]
    <2>1. of \in [placed -> Departments]
        OBVIOUS
    <2>2. \A d \in Departments : {t \in placed : of[t] = d} = {t \in ts : row[t].dept = d}
        OBVIOUS
    <2>3. n = [d \in Departments |-> Cardinality({t \in ts : row[t].dept = d})]
        BY DEF SummaryPage, Breakdown
    <2> HIDE DEF of, n, placed
    <2>4. n = [d \in Departments |-> Cardinality({t \in placed : of[t] = d})]
        BY <2>2, <2>3
    <2>5. SumOver(n) = Cardinality(placed)
        BY <1>1, <2>1, <2>4, SharedOut
    <2> QED
        BY <2>5 DEF n
<1> HIDE DEF s, scored, placed
<1>7. /\ SumOver(s.status) = s.all.total
      /\ SumOver(s.buckets) = s.all.scored
      /\ SumOver([d \in Departments |-> s.dept[d].total]) <= s.all.total
    BY <1>1, <1>3, <1>4, <1>5, <1>6
<1> QED
    BY <1>7 DEF s

\* The summary (get_analytics_summary) is right when its second SELECT has answered.
LEMMA SummaryIsRight ==
    ASSUME DashAssumption, DeskInv, ViewInv, ReadSummaryFeedback
    PROVE  DashboardsAddUp'
<1> DEFINE row == [t \in Tickets |-> IF t \in view.tickets THEN view.session[t] ELSE tickets[t]]
           ts == view.tickets
           s == SummaryPage(ts, row, feedback)
           real == {f \in feedback : f.reviewer # SyntheticReviewer}
           rest == feedback \ real
<1>1. ts \in SUBSET Tickets /\ row \in [Tickets -> TicketRows] /\ view.kind = "summary"
    BY DEF ReadSummaryFeedback, ViewInv, DeskInv
<1>2. view'.kind = "summary" /\ view'.shown = s /\ view'.feedback = feedback
    BY DEF ReadSummaryFeedback, ViewInv, ViewFields
<1> HIDE DEF row, ts
<1>3. /\ SumOver(s.status) = s.all.total
      /\ SumOver(s.buckets) = s.all.scored
      /\ SumOver([d \in Departments |-> s.dept[d].total]) <= s.all.total
    BY <1>1, SummaryTicketsAddUp
<1>4. IsFiniteSet(feedback) /\ \A f \in feedback : f.action \in FeedbackActions
    BY DEF DeskInv, FeedbackIsSound
<1>5. /\ IsFiniteSet(real) /\ IsFiniteSet(rest)
      /\ Cardinality(feedback) = Cardinality(real) + Cardinality(rest)
    <2>1. IsFiniteSet(real) /\ IsFiniteSet(rest)
        BY <1>4, FS_Subset
    <2>2. real \cap rest = {} /\ feedback = real \cup rest
        OBVIOUS
    <2> HIDE DEF real, rest
    <2> QED
        BY <2>1, <2>2, DisjointSizes
<1>6. /\ SumOver(s.real.actions) = Cardinality(real)
      /\ SumOver(s.synthetic.actions) = Cardinality(rest)
      /\ s.real.total = Cardinality(real)
    <2>1. /\ s.real = FeedbackSummary(real, row)
          /\ s.synthetic = FeedbackSummary(rest, row)
        BY DEF SummaryPage
    <2>2. /\ \A f \in real : f.action \in FeedbackActions
          /\ \A f \in rest : f.action \in FeedbackActions
        BY <1>4
    <2> HIDE DEF real, rest, s
    <2>3. /\ SumOver(FeedbackSummary(real, row).actions) = Cardinality(real)
          /\ SumOver(FeedbackSummary(rest, row).actions) = Cardinality(rest)
        BY <1>5, <2>2, ActionsAddUp
    <2>4. FeedbackSummary(real, row).total = Cardinality(real)
        BY DEF FeedbackSummary
    <2> QED
        BY <2>1, <2>3, <2>4
<1>7. SumOver([v \in Engineers |-> s.reviewer[v].resolved + s.reviewer[v].rejected +
                                   s.reviewer[v].escalated]) <= s.real.total
    <2> DEFINE n == [v \in Engineers |-> s.reviewer[v].resolved + s.reviewer[v].rejected +
                                        s.reviewer[v].escalated]
               m == [v \in Engineers |-> LET r == ReviewerRow(v, real, ts, row)
                                         IN  r.resolved + r.rejected + r.escalated]
    <2>1. \A v \in Engineers : s.reviewer[v] = ReviewerRow(v, real, ts, row)
        BY DEF SummaryPage
    <2>2. n = m
        <3> HIDE DEF s, real
        <3> QED
            BY <2>1
    <2> HIDE DEF real
    <2>3. SumOver(m) <= Cardinality(real)
        BY <1>5, RowsCountOnce
    <2> HIDE DEF n, m
    <2>4. SumOver(n) <= s.real.total
        BY <1>6, <2>2, <2>3
    <2> QED
        BY <2>4 DEF n
<1> HIDE DEF s, real, rest
<1>8. SummaryAddsUp'
    BY <1>2, <1>3, <1>5, <1>6, <1>7 DEF SummaryAddsUp
<1> QED
    BY <1>2, <1>8 DEF DashboardsAddUp, ReportIsAboutDrafts, LanesAreComparable, Shown

\* Opening and reading the pages keeps their own invariant.
LEMMA PageStepsKeepView ==
    ASSUME DashAssumption, DeskInv, ViewInv,
           \/ OpenSummary \/ ReadSummaryFeedback \/ ShowReport
           \/ OpenLanes \/ ReadLaneFeedback \/ ReadLaneDecisions
    PROVE  ViewInv' /\ UNCHANGED <<tickets, feedback, underway, decisions>>
<1>1. CASE OpenSummary
    BY <1>1 DEF OpenSummary, NoPage, ViewInv, ViewFields, Existing, DeskInv
<1>2. CASE ReadSummaryFeedback
    BY <1>2 DEF ReadSummaryFeedback, ViewInv, ViewFields
<1>3. CASE ShowReport
    BY <1>3 DEF ShowReport, NoPage, ViewInv, ViewFields
<1>4. CASE OpenLanes
    BY <1>4 DEF OpenLanes, NoPage, ViewInv, ViewFields, Existing
<1>5. CASE ReadLaneFeedback
    BY <1>5 DEF ReadLaneFeedback, ViewInv, ViewFields
<1>6. CASE ReadLaneDecisions
    BY <1>6 DEF ReadLaneDecisions, ViewInv, ViewFields
<1> QED
    BY <1>1, <1>2, <1>3, <1>4, <1>5, <1>6

\* Every step keeps the desk, the page under way and the page shown.
LEMMA DashInvNext ==
    ASSUME DashAssumption, DashInv, [DashNext]_dashVars
    PROVE  DashInv'
<1> USE DEF DashInv
<1>1. ASSUME DeskInv', DeskMoves PROVE DashInv'
    BY <1>1, DeskKeepsView, DeskKeepsPages
<1>2. ASSUME UNCHANGED <<tickets, feedback, underway, decisions>> PROVE DeskInv'
    BY <1>2 DEF DeskInv, FeedbackIsSound, DecisionsAreSound, UnderwayIsSound, ScoresAreLogged
<1>3. ASSUME NEW t \in Tickets,
             SubmitTicket(t) \/ GiveUp(t) \/ (\E d \in Departments : Route(t, d))
      PROVE  DashInv'
    BY <1>1, <1>3, SubmitKeepsDesk, GiveUpKeepsDesk, RouteKeepsDesk
<1>4. ASSUME NEW t \in Tickets, NEW d \in Departments, NEW s \in Scores \cup {None}, NEW l \in LaneNames,
             NEW b \in BOOLEAN, Decide(t, d, s, l, b)
      PROVE  DashInv'
    BY <1>1, <1>4, DecideKeepsDesk
<1>5. ASSUME NEW c \in DeskCalls, NEW t \in Tickets,
             \/ \E v \in Engineers \cup Admins, a \in Workbench, b \in BOOLEAN : Review(c, t, v, a, b)
             \/ \E v \in Engineers : Resolve(c, t, v)
             \/ Close(c, t)
      PROVE  DashInv'
    BY <1>1, <1>5, RequestsBegin
<1>6. ASSUME NEW c \in DeskCalls, CommitRequest(c) PROVE DashInv'
    BY <1>1, <1>6, CommitKeepsDesk
<1>7. ASSUME NEW a \in Simulated, SeedSynthetic(a) PROVE DashInv'
    BY <1>1, <1>7, SeedKeepsDesk
<1>8. ASSUME OpenSummary \/ OpenLanes \/ ReadLaneFeedback PROVE DashInv'
    <2>1. view'.pc # "shown"
        BY <1>8 DEF OpenSummary, OpenLanes, ReadLaneFeedback, NoPage, ViewInv, ViewFields
    <2> QED
        BY <1>2, <1>8, <2>1, PageStepsKeepView, NothingShown
<1>9. ASSUME ReadSummaryFeedback PROVE DashInv'
    BY <1>2, <1>9, PageStepsKeepView, SummaryIsRight
<1>10. ASSUME ShowReport PROVE DashInv'
    BY <1>2, <1>10, PageStepsKeepView, ReportIsRight
<1>11. ASSUME ReadLaneDecisions PROVE DashInv'
    BY <1>2, <1>11, PageStepsKeepView, LanesPageIsRight
<1>12. ASSUME UNCHANGED dashVars PROVE DashInv'
    BY <1>1, <1>2, <1>12 DEF dashVars, DeskMoves, RowStep
<1> QED
    BY <1>3, <1>4, <1>5, <1>6, <1>7, <1>8, <1>9, <1>10, <1>11, <1>12 DEF DashNext

\* The invariant holds throughout.
LEMMA DashInvHolds ==
    ASSUME DashAssumption
    PROVE  DashSpec => []DashInv
<1>1. DashInit => DashInv
    <2> SUFFICES ASSUME DashInit PROVE DashInv
        OBVIOUS
    <2>1. ViewInv
        BY DEF DashInit, NoPage, ViewInv, ViewFields
    <2>2. DashboardsAddUp
        BY DEF DashInit, NoPage, DashboardsAddUp, SummaryAddsUp, ReportIsAboutDrafts,
               LanesAreComparable, Shown
    <2> QED
        BY <2>1, <2>2, DeskInvInit DEF DashInv
<1>2. DashInv /\ [DashNext]_dashVars => DashInv'
    BY DashInvNext
<1> QED
    BY <1>1, <1>2, PTL DEF DashSpec

\* The three pages add up and are about the gate that runs, however the desk moves between
\* their SELECTs: every ticket has one status and every scored one a bucket, every label is
\* a person's verdict on a draft that was shown, against the score logged for it unless the seed
\* script has been there; a ticket has one score in its lane, none beyond the lane's threshold, and
\* one action but for reviews that were overtaken and for the seed script's (routers/analytics.py).
\* For all tickets, accounts, scores, thresholds and overlapping requests.
THEOREM PagesAddUp ==
    ASSUME DashAssumption
    PROVE  DashSpec => []DashboardsAddUp
<1>1. DashInv => DashboardsAddUp
    BY DEF DashInv
<1> QED
    BY <1>1, DashInvHolds, PTL

\* The pages shown stay within their bound.
LEMMA ViewsStayBounded ==
    ASSUME DashAssumption, views \in 0 .. MaxPages, [DashNext]_dashVars
    PROVE  views' \in 0 .. MaxPages
<1>1. CASE UNCHANGED views
    BY <1>1
<1>2. CASE views < MaxPages /\ views' = views + 1
    BY <1>2 DEF DashAssumption
<1>3. CASE OpenSummary \/ ShowReport \/ OpenLanes
    BY <1>2, <1>3 DEF OpenSummary, ShowReport, OpenLanes
<1>4. CASE ReadSummaryFeedback \/ ReadLaneFeedback \/ ReadLaneDecisions
    BY <1>1, <1>4 DEF ReadSummaryFeedback, ReadLaneFeedback, ReadLaneDecisions
<1>5. ASSUME NEW t \in Tickets, SubmitTicket(t) \/ GiveUp(t) PROVE UNCHANGED views
    BY <1>5 DEF SubmitTicket, GiveUp, DeskStep
<1>6. ASSUME NEW t \in Tickets, NEW d, NEW s, NEW l, NEW b, Decide(t, d, s, l, b) PROVE UNCHANGED views
    BY <1>6 DEF Decide, DeskStep
<1>7. ASSUME NEW c, NEW t, NEW v, NEW a, NEW b, Review(c, t, v, a, b) \/ Resolve(c, t, v) \/ Close(c, t)
      PROVE  UNCHANGED views
    BY <1>7 DEF Review, Resolve, Close, Begin, DeskStep
<1>8. ASSUME NEW c, NEW t, NEW d, Route(t, d) \/ CommitRequest(c) PROVE UNCHANGED views
    BY <1>8 DEF Route, CommitRequest, DeskStep
<1>9. ASSUME NEW a, SeedSynthetic(a) PROVE UNCHANGED views
    BY <1>9 DEF SeedSynthetic, DeskStep
<1>10. CASE UNCHANGED dashVars
    BY <1>1, <1>10 DEF dashVars
<1> QED
    BY <1>1, <1>3, <1>4, <1>5, <1>6, <1>7, <1>8, <1>9, <1>10 DEF DashNext

\* The rows of tickets, feedback and decisions that the pages count have the values they may,
\* whatever is submitted, decided, reviewed and seeded.
THEOREM DashTypes ==
    ASSUME DashAssumption
    PROVE  DashSpec => []DashTypeOK
<1> DEFINE Bounded == views \in 0 .. MaxPages
<1>1. DashInit => Bounded
    <2>1. MaxPages \in Nat
        BY DEF DashAssumption
    <2>2. DashInit => views = 0
        BY DEF DashInit
    <2> QED BY <2>1, <2>2
<1>2. Bounded /\ [DashNext]_dashVars => Bounded'
    BY ViewsStayBounded
<1>3. DashInv /\ Bounded => DashTypeOK
    <2> SUFFICES ASSUME DashInv, Bounded PROVE DashTypeOK
        OBVIOUS
    <2>1. \A t \in Tickets : tickets[t] \in TicketRows
        BY DEF DashInv, DeskInv
    <2>2. \A f \in feedback : /\ f.ticket \in Tickets /\ f.action \in FeedbackActions
                              /\ f.reviewer \in Engineers \cup Admins \cup {SyntheticReviewer}
                              /\ f.overtaken \in BOOLEAN
        BY DEF DashInv, DeskInv, FeedbackIsSound
    <2>5. \A c \in DeskCalls : underway[c] # None => underway[c].ticket \in Tickets
        BY DEF DashInv, DeskInv, UnderwayIsSound
    <2>3. \A d \in decisions : d.ticket \in Tickets /\ d.lane \in LaneNames
        BY DEF DashInv, DeskInv, DecisionsAreSound
    <2>4. view.kind \in {"none", "summary", "report", "lanes"}
        BY DEF DashInv, ViewInv
    <2> QED BY <2>1, <2>2, <2>3, <2>4, <2>5 DEF DashTypeOK, TicketRows, FeedbackActions
<1>4. DashSpec => []DashInv
    BY DashInvHolds
<1> HIDE DEF Bounded
<1> QED BY <1>1, <1>2, <1>3, <1>4, PTL DEF DashSpec

----------------------------------------------------------------------------
(* The user study: folds *)

\* A set of numbers has a least one.
LEMMA HasLeast ==
    ASSUME NEW S \in SUBSET Nat, S # {}
    PROVE  \E n \in S : \A m \in S : n <= m
<1> DEFINE T == {1 .. n : n \in S}
<1>1. ASSUME NEW n \in S
      PROVE  1 .. n \in FiniteSubsetsOf(Nat)
    <2>1. n \in Int /\ 1 .. n \in SUBSET Nat
        OBVIOUS
    <2>2. IsFiniteSet(1 .. n)
        BY <2>1, FS_Interval
    <2> QED BY <2>1, <2>2 DEF FiniteSubsetsOf
<1>2. PICK x \in T : \A y \in T : ~ (<<y, x>> \in StrictSubsetOrdering(Nat))
    <2>1. T # {}
        OBVIOUS
    <2>2. T \subseteq FiniteSubsetsOf(Nat)
        BY <1>1
    <2> HIDE DEF T
    <2> QED BY <2>1, <2>2, FS_StrictSubsetOrderingWellFounded, WFMin
<1>3. PICK n \in S : x = 1 .. n
    OBVIOUS
<1>4. ASSUME NEW m \in S, ~ (n <= m)
      PROVE  FALSE
    <2>1. 1 .. m \in T /\ 1 .. m \in SUBSET Nat /\ 1 .. n \in SUBSET Nat
        OBVIOUS
    <2>2. 1 .. m \subseteq 1 .. n /\ n \in 1 .. n /\ n \notin 1 .. m
        BY <1>4
    <2> QED BY <1>2, <1>3, <2>1, <2>2 DEF StrictSubsetOrdering
<1> QED BY <1>4

\* Induction up to n.
LEMMA CountingOn ==
    ASSUME NEW n \in Nat, NEW S, 0 \in S, \A k \in 1 .. n : k - 1 \in S => k \in S
    PROVE  \A k \in 0 .. n : k \in S
<1> DEFINE Missed == {k \in 0 .. n : k \notin S}
<1>1. Missed \in SUBSET Nat
    OBVIOUS
<1>2. SUFFICES ASSUME Missed # {} PROVE FALSE
    OBVIOUS
<1>3. PICK k \in Missed : \A m \in Missed : k <= m
    <2> HIDE DEF Missed
    <2> QED BY <1>1, <1>2, HasLeast
<1>4. k \in 1 .. n /\ k - 1 \in 0 .. n /\ k - 1 \notin Missed
    BY <1>3
<1> QED BY <1>3, <1>4

LEMMA MaxIs ==
    ASSUME NEW k \in Nat, NEW s \in SUBSET (1 .. k), s # {}
    PROVE  Max(s) \in s /\ \A x \in s : x <= Max(s)
<1>1. \E y \in s : \A x \in s : x <= y
    <2> DEFINE T == {k - x : x \in s}
    <2>1. T \in SUBSET Nat /\ T # {}
        <3>1. \A x \in s : k - x \in Nat
            OBVIOUS
        <3> QED BY <3>1
    <2>2. PICK t \in T : \A u \in T : t <= u
        <3> HIDE DEF T
        <3> QED BY <2>1, HasLeast
    <2>3. PICK y \in s : t = k - y
        OBVIOUS
    <2>4. ASSUME NEW x \in s PROVE x <= y
        <3>1. k - y <= k - x /\ x \in Int /\ y \in Int
            BY <2>2, <2>3
        <3> QED BY <3>1
    <2> QED BY <2>4
<1>2. \E y \in s : \A x \in s : y >= x
    BY <1>1
<1>3. Max(s) \in s /\ \A x \in s : Max(s) >= x
    BY <1>2 DEF Max
<1> QED BY <1>3

LEMMA DropMax ==
    ASSUME NEW k \in Nat, NEW s \in SUBSET (1 .. k), s # {}
    PROVE  Max(s) \in 1 .. k /\ s \ {Max(s)} \in SUBSET (1 .. k - 1)
<1>1. Max(s) \in s /\ \A x \in s : x <= Max(s)
    BY MaxIs
<1>2. Max(s) \in 1 .. k
    BY <1>1
<1>3. ASSUME NEW x \in s, x # Max(s) PROVE x \in 1 .. k - 1
    <2>1. x \in 1 .. k /\ x <= Max(s)
        BY <1>1
    <2> QED BY <1>2, <1>3, <2>1
<1> QED BY <1>2, <1>3

\* What the elements of a sequence do to an accumulator, one after another.
Folded(g, D, base, step, seq) ==
    \A s \in D : g[s] = IF s = {} THEN base ELSE step[<<g[s \ {Max(s)}], seq[Max(s)]>>]

\* The recursion in which folds are defined has a solution, whatever the step.
LEMMA FoldExists ==
    ASSUME NEW A, NEW E, NEW step \in [A \X E -> A], NEW base \in A,
           NEW n \in Nat, NEW seq \in [1 .. n -> E]
    PROVE  \E g \in [SUBSET (1 .. n) -> A] : Folded(g, SUBSET (1 .. n), base, step, seq)
<1> DEFINE Good == {k \in 0 .. n : \E g \in [SUBSET (1 .. k) -> A] : Folded(g, SUBSET (1 .. k), base, step, seq)}
<1>1. 0 \in Good
    <2>1. SUBSET (1 .. 0) = {{}}
        OBVIOUS
    <2> DEFINE g == [s \in SUBSET (1 .. 0) |-> base]
    <2>2. g \in [SUBSET (1 .. 0) -> A] /\ Folded(g, SUBSET (1 .. 0), base, step, seq)
        BY <2>1 DEF Folded
    <2> QED BY <2>2
<1>2. ASSUME NEW k \in 1 .. n, k - 1 \in Good PROVE k \in Good
    <2> DEFINE below == SUBSET (1 .. k - 1)
    <2>1. PICK g \in [below -> A] : Folded(g, below, base, step, seq)
        BY <1>2
    <2> DEFINE next(s) == IF s = {} THEN base ELSE step[<<g[s \ {Max(s)}], seq[Max(s)]>>]
               h == [s \in SUBSET (1 .. k) |-> next(s)]
    <2>2. ASSUME NEW s \in SUBSET (1 .. k), s # {}
          PROVE  s \ {Max(s)} \in below /\ Max(s) \in 1 .. n
        <3>1. k \in Nat /\ 1 .. k \subseteq 1 .. n
            OBVIOUS
        <3>2. Max(s) \in 1 .. k /\ s \ {Max(s)} \in below
            BY ONLY <2>2, <3>1, DropMax
        <3> QED BY <3>1, <3>2
    <2>3. ASSUME NEW s \in below PROVE next(s) = g[s] /\ s \in SUBSET (1 .. k)
        <3>1. next(s) = g[s]
            BY <2>1 DEF Folded
        <3>2. 1 .. k - 1 \subseteq 1 .. k
            OBVIOUS
        <3> QED BY <3>1, <3>2
    <2>4. ASSUME NEW s \in SUBSET (1 .. k) PROVE next(s) \in A
        <3>1. CASE s = {}
            BY <3>1
        <3>2. CASE s # {}
            <4>1. g[s \ {Max(s)}] \in A /\ seq[Max(s)] \in E
                BY <2>2, <3>2
            <4> QED BY <3>2, <4>1
        <3> QED BY <3>1, <3>2
    <2>5. ASSUME NEW s \in SUBSET (1 .. k)
          PROVE  h[s] = IF s = {} THEN base ELSE step[<<h[s \ {Max(s)}], seq[Max(s)]>>]
        <3>1. h[s] = next(s)
            OBVIOUS
        <3>2. CASE s = {}
            BY <3>1, <3>2
        <3>3. CASE s # {}
            <4>1. s \ {Max(s)} \in below
                BY <2>2, <3>3
            <4>2. h[s \ {Max(s)}] = g[s \ {Max(s)}]
                BY <2>3, <4>1
            <4> QED BY <3>1, <3>3, <4>2
        <3> QED BY <3>2, <3>3
    <2>6. h \in [SUBSET (1 .. k) -> A]
        BY <2>4
    <2>7. Folded(h, SUBSET (1 .. k), base, step, seq)
        BY <2>5 DEF Folded
    <2> HIDE DEF h
    <2>8. \E f \in [SUBSET (1 .. k) -> A] : Folded(f, SUBSET (1 .. k), base, step, seq)
        BY <2>6, <2>7
    <2> QED BY <2>8
<1>3. \A k \in 0 .. n : k \in Good
    <2> HIDE DEF Good
    <2> QED BY <1>1, <1>2, CountingOn
<1>4. n \in Good
    <2> HIDE DEF Good
    <2> QED BY <1>3
<1> QED BY <1>4

LEMMA LastOfInterval ==
    ASSUME NEW k \in Nat, k # 0
    PROVE  1 .. k # {} /\ Max(1 .. k) = k /\ (1 .. k) \ {k} = 1 .. k - 1
<1>1. k \in 1 .. k
    OBVIOUS
<1>2. Max(1 .. k) \in 1 .. k /\ k <= Max(1 .. k)
    BY <1>1, MaxIs
<1>3. (1 .. k) \ {k} = 1 .. k - 1
    OBVIOUS
<1> QED BY <1>1, <1>2, <1>3

----------------------------------------------------------------------------
(* The ticket sets of the study *)

StudyIds == {t.id : t \in StudyTickets}

StudyGroups == {t.group : t \in StudyTickets}

Acc == [a : Seq(StudyIds), b : Seq(StudyIds), groups : SUBSET StudyGroups, ok : BOOLEAN]

\* One slot for both sets.
Filled(acc, pool, cell) == Pick(Pick(acc, pool, cell, "a"), pool, cell, "b")

LEMMA TicketIs ==
    ASSUME StudyAssumption, NEW t \in StudyTickets
    PROVE  CellOf(t.id) = t.cell /\ GroupOf(t.id) = t.group
<1>1. (CHOOSE u \in StudyTickets : u.id = t.id) = t
    BY DEF StudyAssumption
<1> QED BY <1>1 DEF CellOf, GroupOf

LEMMA LeastIs ==
    ASSUME NEW s \in SUBSET Nat, s # {}
    PROVE  Min(s) \in s /\ \A x \in s : Min(s) <= x
<1>1. \E x \in s : \A y \in s : x <= y
    BY HasLeast
<1> QED BY <1>1 DEF Min

\* What filling a place of set A, or of set B, may come to: t is the ticket chosen.
PickedA(acc, cell, next) ==
    \/ next = [acc EXCEPT !.ok = FALSE]
    \/ acc.ok /\ \E t \in StudyTickets :
          /\ t.cell = cell /\ t.group \notin acc.groups
          /\ next = [a |-> Append(acc.a, t.id), b |-> acc.b, groups |-> acc.groups \cup {t.group}, ok |-> TRUE]

PickedB(acc, cell, next) ==
    \/ next = [acc EXCEPT !.ok = FALSE]
    \/ acc.ok /\ \E t \in StudyTickets :
          /\ t.cell = cell /\ t.group \notin acc.groups
          /\ next = [a |-> acc.a, b |-> Append(acc.b, t.id), groups |-> acc.groups \cup {t.group}, ok |-> TRUE]

LEMMA PickIs ==
    ASSUME NEW pool \in Seq(StudyTickets), NEW acc \in Acc, NEW cell
    PROVE  /\ PickedA(acc, cell, Pick(acc, pool, cell, "a"))
           /\ PickedB(acc, cell, Pick(acc, pool, cell, "b"))
<1> DEFINE left == Unused(pool, cell, acc.groups)
           t == pool[Min(left)]
<1>1. CASE ~ acc.ok \/ left = {}
    BY <1>1 DEF Pick, PickedA, PickedB
<1>2. CASE acc.ok /\ left # {}
    <2>1. left \in SUBSET Nat
        BY DEF Unused
    <2>2. Min(left) \in left
        BY <1>2, <2>1, LeastIs
    <2>3. t \in StudyTickets /\ t.cell = cell /\ t.group \notin acc.groups
        BY <2>2 DEF Unused
    <2>4. acc = [a |-> acc.a, b |-> acc.b, groups |-> acc.groups, ok |-> TRUE]
        BY <1>2 DEF Acc
    <2>5. Pick(acc, pool, cell, "a") = [acc EXCEPT !.a = Append(acc.a, t.id), !.groups = acc.groups \cup {t.group}]
        BY <1>2 DEF Pick
    <2>6. Pick(acc, pool, cell, "b") = [acc EXCEPT !.b = Append(acc.b, t.id), !.groups = acc.groups \cup {t.group}]
        BY <1>2 DEF Pick
    <2> HIDE DEF t
    <2> QED BY <1>2, <2>3, <2>4, <2>5, <2>6 DEF PickedA, PickedB
<1> QED BY <1>1, <1>2

LEMMA PickTyped ==
    ASSUME NEW pool \in Seq(StudyTickets), NEW acc \in Acc, NEW cell, NEW target \in {"a", "b"}
    PROVE  Pick(acc, pool, cell, target) \in Acc
<1>1. [acc EXCEPT !.ok = FALSE] \in Acc
    BY DEF Acc
<1>2. ASSUME NEW t \in StudyTickets
      PROVE  /\ [a |-> Append(acc.a, t.id), b |-> acc.b, groups |-> acc.groups \cup {t.group}, ok |-> TRUE] \in Acc
             /\ [a |-> acc.a, b |-> Append(acc.b, t.id), groups |-> acc.groups \cup {t.group}, ok |-> TRUE] \in Acc
    <2>1. t.id \in StudyIds /\ t.group \in StudyGroups
        BY DEF StudyIds, StudyGroups
    <2>2. acc.a \in Seq(StudyIds) /\ acc.b \in Seq(StudyIds) /\ acc.groups \in SUBSET StudyGroups
        BY DEF Acc
    <2>3. Append(acc.a, t.id) \in Seq(StudyIds) /\ Append(acc.b, t.id) \in Seq(StudyIds)
        BY <2>1, <2>2
    <2>4. acc.groups \cup {t.group} \in SUBSET StudyGroups
        BY <2>1, <2>2
    <2> QED BY <2>2, <2>3, <2>4 DEF Acc
<1>3. CASE target = "a"
    <2>1. CASE Pick(acc, pool, cell, "a") = [acc EXCEPT !.ok = FALSE]
        BY <1>1, <1>3, <2>1
    <2>2. CASE Pick(acc, pool, cell, "a") # [acc EXCEPT !.ok = FALSE]
        <3>1. PICK t \in StudyTickets :
                  Pick(acc, pool, cell, "a") = [a |-> Append(acc.a, t.id), b |-> acc.b, groups |-> acc.groups \cup {t.group}, ok |-> TRUE]
            BY <2>2, PickIs DEF PickedA
        <3>2. Pick(acc, pool, cell, "a") \in Acc
            BY <1>2, <3>1
        <3> QED BY <1>3, <3>2
    <2> QED BY <2>1, <2>2
<1>4. CASE target = "b"
    <2>1. CASE Pick(acc, pool, cell, "b") = [acc EXCEPT !.ok = FALSE]
        BY <1>1, <1>4, <2>1
    <2>2. CASE Pick(acc, pool, cell, "b") # [acc EXCEPT !.ok = FALSE]
        <3>1. PICK t \in StudyTickets :
                  Pick(acc, pool, cell, "b") = [a |-> acc.a, b |-> Append(acc.b, t.id), groups |-> acc.groups \cup {t.group}, ok |-> TRUE]
            BY <2>2, PickIs DEF PickedB
        <3>2. Pick(acc, pool, cell, "b") \in Acc
            BY <1>2, <3>1
        <3> QED BY <1>4, <3>2
    <2> QED BY <2>1, <2>2
<1> QED BY <1>3, <1>4

LEMMA FilledTyped ==
    ASSUME NEW pool \in Seq(StudyTickets), NEW acc \in Acc, NEW cell
    PROVE  Filled(acc, pool, cell) \in Acc
BY PickTyped DEF Filled

\* The intermediate results of filling the slots.
BuildSteps(h, pool) ==
    /\ h \in [0 .. Len(Slots) -> Acc]
    /\ h[0] = [a |-> <<>>, b |-> <<>>, groups |-> {}, ok |-> TRUE]
    /\ \A k \in 1 .. Len(Slots) : h[k] = Filled(h[k - 1], pool, Slots[k])

LEMMA BuildIsIterated ==
    ASSUME StudyAssumption, NEW pool \in Seq(StudyTickets)
    PROVE  \E h : BuildSteps(h, pool) /\ Build(pool) = h[Len(Slots)]
<1> DEFINE Cells == ToSet(Slots)
           n == Len(Slots)
           base == [a |-> <<>>, b |-> <<>>, groups |-> {}, ok |-> TRUE]
           Result(g, s) == IF s = {} THEN base ELSE Filled(g[s \ {Max(s)}], pool, Slots[Max(s)])
           it == CHOOSE g : g = [s \in SUBSET DOMAIN Slots |-> Result(g, s)]
           step == [x \in Acc \X Cells |-> Filled(x[1], pool, x[2])]
<1>1. /\ n \in Nat /\ DOMAIN Slots = 1 .. n /\ Slots \in [1 .. n -> Cells]
      /\ base \in Acc
    <2>1. Slots \in Seq(Cells)
        BY DEF StudyAssumption
    <2>2. <<>> \in Seq(StudyIds) /\ {} \in SUBSET StudyGroups
        OBVIOUS
    <2>3. base \in Acc
        BY <2>2 DEF Acc
    <2> HIDE DEF Cells, base
    <2> QED BY <2>1, <2>3
<1>2. step \in [Acc \X Cells -> Acc]
    BY FilledTyped
<1>3. Build(pool) = it[DOMAIN Slots]
    BY DEF Build, FoldLeft, MapThenFoldSet, Filled
<1>4. \E g : g = [s \in SUBSET DOMAIN Slots |-> Result(g, s)]
    <2> HIDE DEF n, base, step
    <2>1. PICK g \in [SUBSET (1 .. n) -> Acc] : Folded(g, SUBSET (1 .. n), base, step, Slots)
        BY <1>1, <1>2, FoldExists
    <2>2. ASSUME NEW s \in SUBSET (1 .. n) PROVE g[s] = Result(g, s)
        <3>1. CASE s = {}
            BY <2>1, <3>1 DEF Folded
        <3>2. CASE s # {}
            <4>1. Max(s) \in 1 .. n /\ s \ {Max(s)} \in SUBSET (1 .. n)
                BY <1>1, <3>2, DropMax
            <4>2. g[s \ {Max(s)}] \in Acc /\ Slots[Max(s)] \in Cells
                BY <1>1, <2>1, <4>1
            <4>3. g[s] = step[<<g[s \ {Max(s)}], Slots[Max(s)]>>]
                BY <2>1, <3>2 DEF Folded
            <4> QED BY <3>2, <4>2, <4>3 DEF step
        <3> QED BY <3>1, <3>2
    <2>3. g = [s \in SUBSET DOMAIN Slots |-> Result(g, s)]
        <3> HIDE DEF Result
        <3> QED BY <1>1, <2>1, <2>2
    <2> HIDE DEF Result
    <2> QED BY <2>3
<1>5. it = [s \in SUBSET DOMAIN Slots |-> Result(it, s)]
    <2> HIDE DEF Result
    <2> QED BY <1>4
<1>6. ASSUME NEW s \in SUBSET (1 .. n) PROVE it[s] = Result(it, s)
    <2> HIDE DEF it, Result, n
    <2> QED BY <1>1, <1>5
<1>7. it[{}] = base
    BY <1>6
<1> HIDE DEF it
<1>8. ASSUME NEW k \in 1 .. n PROVE it[1 .. k] = Filled(it[1 .. k - 1], pool, Slots[k])
    <2>1. k \in Nat /\ k # 0 /\ 1 .. k \in SUBSET (1 .. n)
        BY <1>1
    <2>2. 1 .. k # {} /\ Max(1 .. k) = k /\ (1 .. k) \ {k} = 1 .. k - 1
        BY <2>1, LastOfInterval
    <2>3. it[1 .. k] = Result(it, 1 .. k)
        BY <1>6, <2>1
    <2> HIDE DEF n, base
    <2> QED BY <2>2, <2>3
<1> DEFINE S == {k \in 0 .. n : it[1 .. k] \in Acc}
<1> HIDE DEF n, base
<1>9. 0 \in S
    <2>1. 1 .. 0 = {}
        OBVIOUS
    <2> QED BY <1>1, <1>7, <2>1
<1>10. ASSUME NEW k \in 1 .. n, k - 1 \in S PROVE k \in S
    <2>1. Slots[k] \in Cells /\ k \in 0 .. n
        BY <1>1
    <2>2. it[1 .. k] \in Acc
        BY <1>8, <1>10, <2>1, FilledTyped
    <2> QED BY <2>1, <2>2
<1>11. \A k \in 0 .. n : k \in S
    <2> HIDE DEF S
    <2> QED BY <1>1, <1>9, <1>10, CountingOn
<1> DEFINE h == [k \in 0 .. n |-> it[1 .. k]]
<1>12. h \in [0 .. n -> Acc]
    BY <1>11
<1>13. h[0] = base
    <2>1. 1 .. 0 = {} /\ 0 \in 0 .. n
        BY <1>1
    <2> QED BY <1>7, <2>1
<1>14. ASSUME NEW k \in 1 .. n PROVE h[k] = Filled(h[k - 1], pool, Slots[k])
    <2>1. k \in 0 .. n /\ k - 1 \in 0 .. n
        BY <1>1
    <2> QED BY <1>8, <2>1
<1>15. h[n] = it[DOMAIN Slots]
    <2>1. n \in 0 .. n
        BY <1>1
    <2> QED BY <1>1, <2>1
<1> HIDE DEF h
<1>16. BuildSteps(h, pool)
    BY <1>12, <1>13, <1>14 DEF BuildSteps, n, base
<1> QED BY <1>3, <1>15, <1>16 DEF n

\* m tickets of set A and n of set B are as the slots ask, and no scenario occurs twice.
Fits(a, b, m, n) ==
    /\ Len(a) = m /\ Len(b) = n
    /\ \A i \in 1 .. m : CellOf(a[i]) = Slots[i]
    /\ \A i \in 1 .. n : CellOf(b[i]) = Slots[i]
    /\ \A i, j \in 1 .. m : GroupOf(a[i]) = GroupOf(a[j]) => i = j
    /\ \A i, j \in 1 .. n : GroupOf(b[i]) = GroupOf(b[j]) => i = j
    /\ \A i \in 1 .. m, j \in 1 .. n : GroupOf(a[i]) # GroupOf(b[j])

\* And the scenarios used are on record.
Recorded(acc, m, n) ==
    acc.ok => /\ Fits(acc.a, acc.b, m, n)
              /\ \A i \in 1 .. m : GroupOf(acc.a[i]) \in acc.groups
              /\ \A i \in 1 .. n : GroupOf(acc.b[i]) \in acc.groups

LEMMA PickAFits ==
    ASSUME StudyAssumption, NEW pool \in Seq(StudyTickets), NEW acc \in Acc, NEW m \in Nat, NEW n \in Nat,
           Recorded(acc, m, n)
    PROVE  Recorded(Pick(acc, pool, Slots[m + 1], "a"), m + 1, n)
<1> DEFINE next == Pick(acc, pool, Slots[m + 1], "a")
<1> SUFFICES Recorded(next, m + 1, n)
    OBVIOUS
<1>3. PickedA(acc, Slots[m + 1], next)
    BY PickIs
<1> HIDE DEF next
<1>1. CASE next = [acc EXCEPT !.ok = FALSE]
    <2>1. ~ next.ok
        BY <1>1 DEF Acc
    <2> QED BY <2>1 DEF Recorded
<1>2. CASE next # [acc EXCEPT !.ok = FALSE]
    <2>2. PICK t \in StudyTickets :
              /\ t.cell = Slots[m + 1] /\ t.group \notin acc.groups
              /\ next = [a |-> Append(acc.a, t.id), b |-> acc.b, groups |-> acc.groups \cup {t.group}, ok |-> TRUE]
        BY <1>2, <1>3 DEF PickedA
    <2> DEFINE s == Append(acc.a, t.id)
    <2>3. CellOf(t.id) = Slots[m + 1] /\ GroupOf(t.id) = t.group
        BY <2>2, TicketIs
    <2>4. /\ acc.a \in Seq(StudyIds) /\ acc.b \in Seq(StudyIds) /\ t.id \in StudyIds
          /\ Fits(acc.a, acc.b, m, n)
          /\ \A i \in 1 .. m : GroupOf(acc.a[i]) \in acc.groups
          /\ \A i \in 1 .. n : GroupOf(acc.b[i]) \in acc.groups
        BY <1>2, <1>3 DEF Acc, StudyIds, Recorded, PickedA
    <2>5. /\ Len(s) = m + 1 /\ s[m + 1] = t.id
          /\ \A i \in 1 .. m : s[i] = acc.a[i]
        BY <2>4 DEF Fits
    <2>6. 1 .. m + 1 = 1 .. m \cup {m + 1} /\ m + 1 \notin 1 .. m
        OBVIOUS
    <2>7. /\ next.a = s /\ next.b = acc.b /\ next.groups = acc.groups \cup {t.group}
        BY <2>2
    <2> HIDE DEF s
    <2>8. \A i \in 1 .. m + 1 : CellOf(s[i]) = Slots[i] /\ GroupOf(s[i]) \in next.groups
        BY <2>3, <2>4, <2>5, <2>6, <2>7 DEF Fits
    <2>9. \A i, j \in 1 .. m + 1 : GroupOf(s[i]) = GroupOf(s[j]) => i = j
        BY <2>2, <2>3, <2>4, <2>5, <2>6 DEF Fits
    <2>10. \A i \in 1 .. m + 1, j \in 1 .. n : GroupOf(s[i]) # GroupOf(acc.b[j])
        BY <2>2, <2>3, <2>4, <2>5, <2>6 DEF Fits
    <2> QED BY <2>4, <2>5, <2>7, <2>8, <2>9, <2>10 DEF Fits, Recorded
<1> QED BY <1>1, <1>2

LEMMA PickBFits ==
    ASSUME StudyAssumption, NEW pool \in Seq(StudyTickets), NEW acc \in Acc, NEW m \in Nat, NEW n \in Nat,
           Recorded(acc, m, n)
    PROVE  Recorded(Pick(acc, pool, Slots[n + 1], "b"), m, n + 1)
<1> DEFINE next == Pick(acc, pool, Slots[n + 1], "b")
<1> SUFFICES Recorded(next, m, n + 1)
    OBVIOUS
<1>3. PickedB(acc, Slots[n + 1], next)
    BY PickIs
<1> HIDE DEF next
<1>1. CASE next = [acc EXCEPT !.ok = FALSE]
    <2>1. ~ next.ok
        BY <1>1 DEF Acc
    <2> QED BY <2>1 DEF Recorded
<1>2. CASE next # [acc EXCEPT !.ok = FALSE]
    <2>2. PICK t \in StudyTickets :
              /\ t.cell = Slots[n + 1] /\ t.group \notin acc.groups
              /\ next = [a |-> acc.a, b |-> Append(acc.b, t.id), groups |-> acc.groups \cup {t.group}, ok |-> TRUE]
        BY <1>2, <1>3 DEF PickedB
    <2> DEFINE s == Append(acc.b, t.id)
    <2>3. CellOf(t.id) = Slots[n + 1] /\ GroupOf(t.id) = t.group
        BY <2>2, TicketIs
    <2>4. /\ acc.a \in Seq(StudyIds) /\ acc.b \in Seq(StudyIds) /\ t.id \in StudyIds
          /\ Fits(acc.a, acc.b, m, n)
          /\ \A i \in 1 .. m : GroupOf(acc.a[i]) \in acc.groups
          /\ \A i \in 1 .. n : GroupOf(acc.b[i]) \in acc.groups
        BY <1>2, <1>3 DEF Acc, StudyIds, Recorded, PickedB
    <2>5. /\ Len(s) = n + 1 /\ s[n + 1] = t.id
          /\ \A i \in 1 .. n : s[i] = acc.b[i]
        BY <2>4 DEF Fits
    <2>6. 1 .. n + 1 = 1 .. n \cup {n + 1} /\ n + 1 \notin 1 .. n
        OBVIOUS
    <2>7. /\ next.a = acc.a /\ next.b = s /\ next.groups = acc.groups \cup {t.group}
        BY <2>2
    <2> HIDE DEF s
    <2>8. \A i \in 1 .. n + 1 : CellOf(s[i]) = Slots[i] /\ GroupOf(s[i]) \in next.groups
        BY <2>3, <2>4, <2>5, <2>6, <2>7 DEF Fits
    <2>9. \A i, j \in 1 .. n + 1 : GroupOf(s[i]) = GroupOf(s[j]) => i = j
        BY <2>2, <2>3, <2>4, <2>5, <2>6 DEF Fits
    <2>10. \A i \in 1 .. n + 1, j \in 1 .. m : GroupOf(s[i]) # GroupOf(acc.a[j])
        BY <2>2, <2>3, <2>4, <2>5, <2>6 DEF Fits
    <2> QED BY <2>4, <2>5, <2>7, <2>8, <2>9, <2>10 DEF Fits, Recorded
<1> QED BY <1>1, <1>2

\* What build finds is as the slots ask.
LEMMA BuildFits ==
    ASSUME StudyAssumption, NEW pool \in Seq(StudyTickets)
    PROVE  /\ Build(pool) \in Acc
           /\ Build(pool).ok => Fits(Build(pool).a, Build(pool).b, Len(Slots), Len(Slots))
<1>1. PICK h : BuildSteps(h, pool) /\ Build(pool) = h[Len(Slots)]
    BY BuildIsIterated
<1>2. Len(Slots) \in Nat
    BY DEF StudyAssumption
<1> DEFINE S == {k \in 0 .. Len(Slots) : Recorded(h[k], k, k)}
<1>3. 0 \in S
    BY <1>1, <1>2 DEF BuildSteps, Recorded, Fits
<1>4. ASSUME NEW k \in 1 .. Len(Slots), k - 1 \in S PROVE k \in S
    <2> DEFINE half == Pick(h[k - 1], pool, Slots[k], "a")
    <2>1. h[k - 1] \in Acc /\ h[k] = Pick(half, pool, Slots[k], "b") /\ k - 1 \in Nat /\ k - 1 + 1 = k
        BY <1>1, <1>2 DEF BuildSteps, Filled
    <2>2. half \in Acc
        BY <2>1, PickTyped
    <2>3. Recorded(half, k, k - 1)
        BY <1>4, <2>1, PickAFits
    <2> HIDE DEF half
    <2>4. Recorded(h[k], k, k)
        BY <1>2, <2>1, <2>2, <2>3, PickBFits
    <2> QED BY <1>2, <2>4
<1>5. \A k \in 0 .. Len(Slots) : k \in S
    <2> HIDE DEF S
    <2> QED BY <1>2, <1>3, <1>4, CountingOn
<1>6. Len(Slots) \in 0 .. Len(Slots)
    BY <1>2
<1> QED BY <1>1, <1>5, <1>6 DEF BuildSteps, Recorded

----------------------------------------------------------------------------
(* The invariant of the study *)

Times == 0 .. StudyTime \cup {None}

TaskRow ==
    [ticket : StudyIds, set : {"A", "B"}, condition : Conditions, lane : Lanes, served : Times,
     submitted : Times, action : {None, "accept", "edit", "write", "escalate"}, reply : BOOLEAN,
     time : Int \cup {None}]

Participant == [order : {"manual_first", "workbench_first"}, tasks : Seq(TaskRow)]

SetSize == Len(Slots)

\* The tasks of a participant are those of a plan: set A in the first condition, then set B.
Planned(tasks, order, a, b) ==
    /\ tasks \in Seq(TaskRow) /\ Len(tasks) = 2 * SetSize
    /\ \A i \in 1 .. SetSize :
          /\ tasks[i].set = "A" /\ tasks[i].condition = FirstCondition(order)
          /\ tasks[i].ticket \in ToSet(a)
          /\ tasks[SetSize + i].set = "B" /\ tasks[SetSize + i].condition = SecondCondition(order)
          /\ tasks[SetSize + i].ticket \in ToSet(b)
    /\ \A id \in ToSet(a) : \E i \in 1 .. SetSize : tasks[i].ticket = id
    /\ \A id \in ToSet(b) : \E i \in 1 .. SetSize : tasks[SetSize + i].ticket = id

\* What an answer must be, whoever else answers.
IsAnswer(t, action, reply) ==
    /\ action \in Actions[t.condition]
    /\ action \in {"accept", "edit"} => t.lane # "escalate"
    /\ action # "escalate" => reply

\* Tasks are shown in their order, and answered as the form allows.
InOrder(tasks) ==
    /\ \A i, j \in DOMAIN tasks : i < j /\ tasks[j].served # None => tasks[i].submitted # None
    /\ \A i \in DOMAIN tasks :
          /\ tasks[i].submitted # None <=> tasks[i].action # None
          /\ tasks[i].submitted # None => IsAnswer(tasks[i], tasks[i].action, tasks[i].reply)

\* A request in flight has shown or answers a task that may be shown or answered.
InFlight(q, ps, now) ==
    /\ q.p \in DOMAIN ps /\ q.i \in DOMAIN ps[q.p].tasks
    /\ q.pc = "serving" =>
          /\ q.time \in 0 .. now
          /\ \A j \in DOMAIN ps[q.p].tasks : j < q.i => ps[q.p].tasks[j].submitted # None
    /\ q.pc = "submitting" =>
          /\ q.time.submitted \in 0 .. now /\ q.time.served \in 0 .. StudyTime
          /\ IsAnswer(ps[q.p].tasks[q.i], q.action, q.reply)
          /\ q.reply \in BOOLEAN

SetsInv ==
    sets # None =>
        /\ sets.a \in Seq(StudyIds) /\ sets.b \in Seq(StudyIds)
        /\ Fits(sets.a, sets.b, SetSize, SetSize)

PeopleOK(ps, a, b) ==
    /\ ps \in Seq(Participant)
    /\ \A p \in DOMAIN ps :
          /\ ps[p].order = OrderFor(p - 1)
          /\ Planned(ps[p].tasks, ps[p].order, a, b)
          /\ InOrder(ps[p].tasks)

PeopleInv == PeopleOK(people, sets.a, sets.b)

\* A run of the set-up starts where it counted.
SetupsInv ==
    /\ \A s \in setups : s.existing \in Nat /\ s.n \in Nat /\ s.existing < s.n /\ s.thresholds \in ThresholdSets
    /\ setups # {} \/ people # <<>> => sets # None

RequestsInv ==
    /\ DOMAIN call = Calls
    /\ \A r \in Calls : call[r].pc \in {"idle", "serving", "submitting"}
    /\ \A r \in Calls : call[r].pc # "idle" => InFlight(call[r], people, studyClock)

StudyInv ==
    /\ SetsInv /\ PeopleInv /\ SetupsInv /\ RequestsInv
    /\ active \in ThresholdSets /\ studyClock \in 0 .. StudyTime

\* The times of a participant whose requests come one at a time.
OnTime(tasks, now) ==
    /\ \A i \in DOMAIN tasks :
          /\ tasks[i].served # None => tasks[i].served <= now
          /\ tasks[i].submitted # None =>
                /\ tasks[i].served # None /\ tasks[i].served <= tasks[i].submitted
                /\ tasks[i].submitted <= now
                /\ tasks[i].time = tasks[i].submitted - tasks[i].served
    /\ \A i, j \in DOMAIN tasks : i < j /\ tasks[j].served # None => tasks[i].submitted <= tasks[j].served

\* What such a request read is what is stored.
IsCurrent(q, ps) ==
    LET t == ps[q.p].tasks[q.i]
    IN  /\ t.submitted = None
        /\ q.pc = "serving" =>
              /\ t.served = None
              /\ \A j \in DOMAIN ps[q.p].tasks : j < q.i => ps[q.p].tasks[j].submitted <= q.time
        /\ q.pc = "submitting" => t.served = q.time.served /\ q.time.served <= q.time.submitted

OneAtATime ==
    ~ overlap =>
        /\ \A p \in DOMAIN people : OnTime(people[p].tasks, studyClock)
        /\ \A r \in Calls : call[r].pc # "idle" => IsCurrent(call[r], people)
        /\ \A r, q \in Calls : call[r].pc # "idle" /\ call[q].pc # "idle" /\ r # q => call[r].p # call[q].p

----------------------------------------------------------------------------
(* Plans *)

LEMMA SlotsAre ==
    ASSUME StudyAssumption
    PROVE  SetSize \in Nat /\ DOMAIN Slots = 1 .. SetSize
BY DEF StudyAssumption, SetSize

\* A shuffle of a sequence without repetitions holds the same elements.
LEMMA ShuffleIs ==
    ASSUME NEW s \in Seq(StudyIds), \A i, j \in 1 .. Len(s) : s[i] = s[j] => i = j,
           NEW f \in SetToSeqs(ToSet(s))
    PROVE  /\ f \in Seq(StudyIds) /\ Len(f) = Len(s)
           /\ \A i \in 1 .. Len(s) : f[i] \in ToSet(s)
           /\ \A id \in ToSet(s) : \E i \in 1 .. Len(s) : f[i] = id
<1> DEFINE D == 1 .. Len(s)
           S == ToSet(s)
<1>1. Len(s) \in Nat /\ DOMAIN s = D /\ s \in [D -> StudyIds]
    OBVIOUS
<1>2. S = {s[i] : i \in D} /\ S \subseteq StudyIds
    BY <1>1 DEF ToSet
<1>3. IsFiniteSet(D) /\ Cardinality(D) = Len(s)
    BY <1>1, FS_Interval
<1>4. s \in Bijection(D, S)
    BY <1>1, <1>2 DEF Bijection, Injection, Surjection, IsInjective
<1>5. IsFiniteSet(S) /\ Cardinality(S) = Len(s)
    BY <1>3, <1>4, FS_Bijection DEF ExistsBijection
<1>6. f \in [1 .. Cardinality(S) -> S] /\ \A i, j \in 1 .. Cardinality(S) : i # j => f[i] # f[j]
    BY DEF SetToSeqs
<1>7. f \in Injection(D, S)
    <2> HIDE DEF S
    <2> QED BY <1>5, <1>6 DEF Injection, IsInjective
<1>8. f \in Surjection(D, S)
    BY <1>3, <1>5, <1>7, FS_Injection
<1>9. \A id \in S : \E i \in D : f[i] = id
    BY <1>8 DEF Surjection
<1>10. f \in Seq(StudyIds) /\ Len(f) = Len(s)
    <2> HIDE DEF S
    <2>1. f \in [1 .. Len(s) -> StudyIds]
        BY <1>2, <1>5, <1>6
    <2> QED BY <1>1, <2>1
<1> QED BY <1>5, <1>6, <1>9, <1>10

LEMMA JoinedLists ==
    ASSUME NEW S, NEW s \in Seq(S), NEW t \in Seq(S)
    PROVE  /\ s \o t \in Seq(S) /\ Len(s \o t) = Len(s) + Len(t)
           /\ \A i \in 1 .. Len(s) : (s \o t)[i] = s[i]
           /\ \A i \in 1 .. Len(t) : (s \o t)[Len(s) + i] = t[i]
OBVIOUS

\* Nobody has seen any of them.
Untouched(tasks) ==
    \A i \in DOMAIN tasks : tasks[i].served = None /\ tasks[i].submitted = None /\ tasks[i].action = None

LEMMA NewTaskIs ==
    ASSUME StudyAssumption, NEW id \in StudyIds, NEW set \in {"A", "B"}, NEW condition \in Conditions,
           NEW v \in ThresholdSets
    PROVE  NewTask(id, set, condition, v) \in TaskRow
<1>1. LaneUnder[v][id] \in Lanes
    BY DEF StudyAssumption, StudyIds, Lanes
<1> QED BY <1>1 DEF NewTask, TaskRow, Times

LEMMA PlanIs ==
    ASSUME StudyAssumption, SetsInv, sets # None, NEW order \in {"manual_first", "workbench_first"},
           NEW v \in ThresholdSets, NEW tasks \in Plans(order, v)
    PROVE  Planned(tasks, order, sets.a, sets.b) /\ Untouched(tasks)
<1> DEFINE first == FirstCondition(order)
           second == SecondCondition(order)
           As(s) == Half(s, "A", first, v)
           Bs(s) == Half(s, "B", second, v)
<1>2. PICK a \in SetToSeqs(ToSet(sets.a)), b \in SetToSeqs(ToSet(sets.b)) : tasks = As(a) \o Bs(b)
    BY DEF Plans
<1>3. /\ sets.a \in Seq(StudyIds) /\ sets.b \in Seq(StudyIds) /\ Len(sets.a) = SetSize /\ Len(sets.b) = SetSize
      /\ \A i, j \in 1 .. SetSize : sets.a[i] = sets.a[j] => i = j
      /\ \A i, j \in 1 .. SetSize : sets.b[i] = sets.b[j] => i = j
    BY DEF SetsInv, Fits
<1>4. /\ a \in Seq(StudyIds) /\ Len(a) = SetSize
      /\ \A i \in 1 .. SetSize : a[i] \in ToSet(sets.a)
      /\ \A id \in ToSet(sets.a) : \E i \in 1 .. SetSize : a[i] = id
    <2> HIDE DEF first, second, As, Bs
    <2>1. \A i, j \in 1 .. Len(sets.a) : sets.a[i] = sets.a[j] => i = j
        BY <1>3
    <2>2. /\ a \in Seq(StudyIds) /\ Len(a) = Len(sets.a)
          /\ \A i \in 1 .. Len(sets.a) : a[i] \in ToSet(sets.a)
          /\ \A id \in ToSet(sets.a) : \E i \in 1 .. Len(sets.a) : a[i] = id
        BY <1>2, <1>3, <2>1, ShuffleIs, Zenon
    <2> QED BY <1>3, <2>2
<1>5. /\ b \in Seq(StudyIds) /\ Len(b) = SetSize
      /\ \A i \in 1 .. SetSize : b[i] \in ToSet(sets.b)
      /\ \A id \in ToSet(sets.b) : \E i \in 1 .. SetSize : b[i] = id
    <2> HIDE DEF first, second, As, Bs
    <2>1. \A i, j \in 1 .. Len(sets.b) : sets.b[i] = sets.b[j] => i = j
        BY <1>3
    <2>2. /\ b \in Seq(StudyIds) /\ Len(b) = Len(sets.b)
          /\ \A i \in 1 .. Len(sets.b) : b[i] \in ToSet(sets.b)
          /\ \A id \in ToSet(sets.b) : \E i \in 1 .. Len(sets.b) : b[i] = id
        BY <1>2, <1>3, <2>1, ShuffleIs, Zenon
    <2> QED BY <1>3, <2>2
<1>6. SetSize \in Nat /\ DOMAIN a = 1 .. SetSize /\ DOMAIN b = 1 .. SetSize
    BY <1>4, <1>5, SlotsAre
<1>7. first \in Conditions /\ second \in Conditions
    BY DEF FirstCondition, SecondCondition, Conditions
<1> HIDE DEF first, second
<1>8. As(a) \in Seq(TaskRow) /\ Len(As(a)) = SetSize /\ \A i \in 1 .. SetSize : As(a)[i] = NewTask(a[i], "A", first, v)
    <2>1. \A i \in 1 .. SetSize : NewTask(a[i], "A", first, v) \in TaskRow
        BY <1>4, <1>6, <1>7, NewTaskIs
    <2> QED BY <1>6, <2>1 DEF Half
<1>9. Bs(b) \in Seq(TaskRow) /\ Len(Bs(b)) = SetSize /\ \A i \in 1 .. SetSize : Bs(b)[i] = NewTask(b[i], "B", second, v)
    <2>1. \A i \in 1 .. SetSize : NewTask(b[i], "B", second, v) \in TaskRow
        BY <1>5, <1>6, <1>7, NewTaskIs
    <2> QED BY <1>6, <2>1 DEF Half
<1> HIDE DEF As, Bs
<1>10. /\ tasks \in Seq(TaskRow) /\ Len(tasks) = 2 * SetSize
       /\ \A i \in 1 .. SetSize : tasks[i] = As(a)[i] /\ tasks[SetSize + i] = Bs(b)[i]
    <2>1. tasks = As(a) \o Bs(b) /\ Len(As(a)) + Len(Bs(b)) = 2 * SetSize
        BY <1>2, <1>6, <1>8, <1>9
    <2>2. PICK s \in Seq(TaskRow) : s = As(a)
        BY <1>8
    <2>3. PICK t \in Seq(TaskRow) : t = Bs(b)
        BY <1>9
    <2>4. Len(s) = SetSize /\ Len(t) = SetSize /\ tasks = s \o t
        BY <1>8, <1>9, <2>1, <2>2, <2>3
    <2>5. /\ tasks \in Seq(TaskRow) /\ Len(tasks) = SetSize + SetSize
          /\ \A i \in 1 .. SetSize : tasks[i] = s[i] /\ tasks[SetSize + i] = t[i]
        <3>1. /\ tasks \in Seq(TaskRow) /\ Len(tasks) = Len(s) + Len(t)
              /\ \A i \in 1 .. Len(s) : tasks[i] = s[i]
              /\ \A i \in 1 .. Len(t) : tasks[Len(s) + i] = t[i]
            <4> DEFINE st == s \o t
            <4>1. /\ st \in Seq(TaskRow) /\ Len(st) = Len(s) + Len(t)
                  /\ \A i \in 1 .. Len(s) : st[i] = s[i]
                  /\ \A i \in 1 .. Len(t) : st[Len(s) + i] = t[i]
                BY JoinedLists
            <4> HIDE DEF st
            <4> QED BY <2>4, <4>1 DEF st
        <3> QED BY <2>4, <3>1
    <2> QED BY <1>6, <2>2, <2>3, <2>5
<1>11. \A i \in 1 .. SetSize : tasks[i] = NewTask(a[i], "A", first, v) /\ tasks[SetSize + i] = NewTask(b[i], "B", second, v)
    BY <1>8, <1>9, <1>10
<1>12. \A id, set, c :
          LET t == NewTask(id, set, c, v)
          IN  /\ t.ticket = id /\ t.set = set /\ t.condition = c
              /\ t.served = None /\ t.submitted = None /\ t.action = None
    BY DEF NewTask
<1>13. Planned(tasks, order, sets.a, sets.b)
    <2>1. ASSUME NEW i \in 1 .. SetSize
          PROVE  /\ tasks[i].set = "A" /\ tasks[i].condition = FirstCondition(order) /\ tasks[i].ticket = a[i]
                 /\ tasks[SetSize + i].set = "B" /\ tasks[SetSize + i].condition = SecondCondition(order)
                 /\ tasks[SetSize + i].ticket = b[i]
        BY <1>11, <1>12 DEF first, second
    <2>2. \A id \in ToSet(sets.a) : \E i \in 1 .. SetSize : tasks[i].ticket = id
        BY <1>4, <2>1
    <2>3. \A id \in ToSet(sets.b) : \E i \in 1 .. SetSize : tasks[SetSize + i].ticket = id
        BY <1>5, <2>1
    <2>4. ASSUME NEW i \in 1 .. SetSize
          PROVE  tasks[i].ticket \in ToSet(sets.a) /\ tasks[SetSize + i].ticket \in ToSet(sets.b)
        BY <1>4, <1>5, <2>1
    <2> HIDE DEF As, Bs
    <2> QED BY <1>10, <2>1, <2>2, <2>3, <2>4 DEF Planned
<1>14. Untouched(tasks)
    <2>1. ASSUME NEW i \in 1 .. 2 * SetSize PROVE i \in 1 .. SetSize \/ (i - SetSize \in 1 .. SetSize /\ SetSize + (i - SetSize) = i)
        BY <1>6
    <2>2. DOMAIN tasks = 1 .. 2 * SetSize
        BY <1>6, <1>10
    <2>3. ASSUME NEW i \in 1 .. SetSize
          PROVE  /\ tasks[i].served = None /\ tasks[i].submitted = None /\ tasks[i].action = None
                 /\ tasks[SetSize + i].served = None /\ tasks[SetSize + i].submitted = None /\ tasks[SetSize + i].action = None
        BY <1>11, <1>12
    <2> QED BY <2>1, <2>2, <2>3 DEF Untouched
<1> QED BY <1>13, <1>14

LEMMA UntouchedIs ==
    ASSUME NEW tasks, Untouched(tasks), NEW now
    PROVE  InOrder(tasks) /\ OnTime(tasks, now)
BY DEF Untouched, InOrder, OnTime

LEMMA SetsFound ==
    ASSUME StudyAssumption, StudyInit
    PROVE  SetsInv
<1>1. PICK pool \in SetToSeqs(StudyTickets) :
          sets = IF Build(pool).ok THEN [a |-> Build(pool).a, b |-> Build(pool).b] ELSE None
    BY DEF StudyInit
<1>2. pool \in Seq(StudyTickets)
    <2>1. Cardinality(StudyTickets) \in Nat
        BY FS_CardinalityType DEF StudyAssumption
    <2>2. pool \in [1 .. Cardinality(StudyTickets) -> StudyTickets]
        BY DEF SetToSeqs
    <2> QED BY <2>1, <2>2
<1>3. /\ Build(pool) \in Acc
      /\ Build(pool).ok => Fits(Build(pool).a, Build(pool).b, SetSize, SetSize)
    BY <1>2, BuildFits DEF SetSize
<1>4. CASE Build(pool).ok
    <2>1. sets.a = Build(pool).a /\ sets.b = Build(pool).b
        BY <1>1, <1>4
    <2> QED BY <1>3, <1>4, <2>1 DEF SetsInv, Acc
<1>5. CASE ~ Build(pool).ok
    BY <1>1, <1>5 DEF SetsInv
<1> QED BY <1>4, <1>5

LEMMA StudyInvInit ==
    ASSUME StudyAssumption, StudyInit
    PROVE  StudyInv /\ OneAtATime
<1>1. SetsInv
    BY SetsFound
<1>2. PeopleInv /\ SetupsInv
    BY DEF StudyInit, PeopleInv, PeopleOK, SetupsInv
<1>3. RequestsInv /\ OneAtATime
    BY DEF StudyInit, RequestsInv, OneAtATime, NoCall
<1> QED BY <1>1, <1>2, <1>3 DEF StudyInv, StudyInit, StudyAssumption

----------------------------------------------------------------------------
(* One task is written *)

\* new is tasks with t at position i.
PutAt(tasks, new, i, t) ==
    /\ DOMAIN new = DOMAIN tasks /\ i \in DOMAIN tasks
    /\ \A j \in DOMAIN tasks : new[j] = IF j = i THEN t ELSE tasks[j]

LEMMA UpdatedIs ==
    ASSUME NEW q, NEW t \in TaskRow, people \in Seq(Participant),
           q.p \in DOMAIN people, q.i \in DOMAIN people[q.p].tasks
    PROVE  LET new == WithTask(q, t)
           IN  /\ new \in Seq(Participant) /\ DOMAIN new = DOMAIN people
               /\ \A p \in DOMAIN people : p # q.p => new[p] = people[p]
               /\ new[q.p].order = people[q.p].order
               /\ new[q.p].tasks \in Seq(TaskRow)
               /\ Len(new[q.p].tasks) = Len(people[q.p].tasks)
               /\ PutAt(people[q.p].tasks, new[q.p].tasks, q.i, t)
<1> DEFINE person == people[q.p]
           tasks == person.tasks
           put == [tasks EXCEPT ![q.i] = t]
           newp == [person EXCEPT !.tasks = put]
           new == [people EXCEPT ![q.p] = newp]
<1>1. WithTask(q, t) = new
    BY DEF WithTask
<1>2. person \in Participant
    OBVIOUS
<1>3. tasks \in Seq(TaskRow) /\ person = [order |-> person.order, tasks |-> tasks]
      /\ person.order \in {"manual_first", "workbench_first"}
    BY <1>2 DEF Participant
<1> HIDE DEF person
<1>4. put \in Seq(TaskRow) /\ Len(put) = Len(tasks) /\ PutAt(tasks, put, q.i, t)
    <2> HIDE DEF tasks
    <2>1. q.i \in DOMAIN tasks
        BY DEF tasks, person
    <2> QED BY <1>3, <2>1 DEF PutAt
<1> HIDE DEF put
<1>5. newp = [order |-> person.order, tasks |-> put]
    BY <1>3
<1>6. newp \in Participant /\ newp.order = person.order /\ newp.tasks = put
    BY <1>3, <1>4, <1>5 DEF Participant
<1> HIDE DEF newp
<1>7. /\ new \in Seq(Participant) /\ DOMAIN new = DOMAIN people /\ new[q.p] = newp
      /\ \A p \in DOMAIN people : p # q.p => new[p] = people[p]
    BY <1>6
<1> HIDE DEF new
<1> QED BY <1>1, <1>4, <1>6, <1>7 DEF person

\* The columns a request never writes.
SameTask(t, u) == t.ticket = u.ticket /\ t.set = u.set /\ t.condition = u.condition /\ t.lane = u.lane

LEMMA PutPlanned ==
    ASSUME StudyAssumption, NEW tasks, NEW new \in Seq(TaskRow), NEW i, NEW t, NEW order, NEW a, NEW b,
           Planned(tasks, order, a, b), Len(new) = Len(tasks), PutAt(tasks, new, i, t), SameTask(t, tasks[i])
    PROVE  Planned(new, order, a, b)
<1>1. SetSize \in Nat /\ DOMAIN tasks = 1 .. 2 * SetSize
    BY SlotsAre DEF Planned
<1>2. ASSUME NEW j \in 1 .. SetSize PROVE j \in DOMAIN tasks /\ SetSize + j \in DOMAIN tasks
    BY <1>1
<1>3. \A j \in DOMAIN tasks : SameTask(new[j], tasks[j])
    BY DEF PutAt, SameTask
<1>4. \A j \in 1 .. SetSize :
         /\ new[j].ticket = tasks[j].ticket /\ new[j].set = tasks[j].set
         /\ new[j].condition = tasks[j].condition
         /\ new[SetSize + j].ticket = tasks[SetSize + j].ticket
         /\ new[SetSize + j].set = tasks[SetSize + j].set
         /\ new[SetSize + j].condition = tasks[SetSize + j].condition
    BY <1>2, <1>3 DEF SameTask
<1> QED BY <1>4 DEF Planned

LEMMA PutInOrder ==
    ASSUME NEW tasks, DOMAIN tasks \subseteq Nat, NEW new, NEW i, NEW t, InOrder(tasks), PutAt(tasks, new, i, t),
           t.served # None => \A j \in DOMAIN tasks : j < i => tasks[j].submitted # None,
           tasks[i].submitted # None => t.submitted # None,
           t.submitted # None <=> t.action # None,
           t.submitted # None => IsAnswer(t, t.action, t.reply)
    PROVE  InOrder(new)
<1>1. ASSUME NEW k \in DOMAIN tasks, NEW j \in DOMAIN tasks, k < j, new[j].served # None
      PROVE  new[k].submitted # None
    <2>1. ~ (k < k)
        OBVIOUS
    <2> QED BY <1>1, <2>1 DEF InOrder, PutAt
<1>2. ASSUME NEW j \in DOMAIN tasks
      PROVE  /\ new[j].submitted # None <=> new[j].action # None
             /\ new[j].submitted # None => IsAnswer(new[j], new[j].action, new[j].reply)
    BY <1>2 DEF InOrder, PutAt
<1> QED BY <1>1, <1>2 DEF InOrder, PutAt

LEMMA PutOnTime ==
    ASSUME NEW tasks, DOMAIN tasks \subseteq Nat, NEW new, NEW i, NEW t, NEW now,
           OnTime(tasks, now), PutAt(tasks, new, i, t),
           t.served # None => t.served <= now /\ \A j \in DOMAIN tasks : j < i => tasks[j].submitted <= t.served,
           t.submitted # None =>
               /\ t.served # None /\ t.served <= t.submitted /\ t.submitted <= now
               /\ t.time = t.submitted - t.served,
           \A j \in DOMAIN tasks : i < j => tasks[j].served = None
    PROVE  OnTime(new, now)
<1>1. ASSUME NEW j \in DOMAIN tasks
      PROVE  /\ new[j].served # None => new[j].served <= now
             /\ new[j].submitted # None =>
                   /\ new[j].served # None /\ new[j].served <= new[j].submitted
                   /\ new[j].submitted <= now
                   /\ new[j].time = new[j].submitted - new[j].served
    <2>1. CASE j = i
        BY <2>1 DEF PutAt
    <2>2. CASE j # i
        BY <2>2 DEF PutAt, OnTime
    <2> QED BY <2>1, <2>2
<1>2. ASSUME NEW k \in DOMAIN tasks, NEW j \in DOMAIN tasks, k < j, new[j].served # None
      PROVE  new[k].submitted <= new[j].served
    <2>1. k # j
        BY <1>2
    <2>2. CASE j = i
        BY <1>2, <2>1, <2>2 DEF PutAt
    <2>3. CASE k = i
        BY <1>2, <2>1, <2>3 DEF PutAt
    <2>4. CASE j # i /\ k # i
        BY <1>2, <2>4 DEF PutAt, OnTime
    <2> QED BY <2>2, <2>3, <2>4
<1> QED BY <1>1, <1>2 DEF OnTime, PutAt

\* What is left for a request in flight to rely on.
KeepsTasks(ps, qs) ==
    /\ DOMAIN ps \subseteq DOMAIN qs
    /\ \A p \in DOMAIN ps :
          /\ DOMAIN qs[p].tasks = DOMAIN ps[p].tasks
          /\ \A i \in DOMAIN ps[p].tasks :
                /\ SameTask(qs[p].tasks[i], ps[p].tasks[i])
                /\ ps[p].tasks[i].submitted # None => qs[p].tasks[i].submitted # None

LEMMA InFlightStays ==
    ASSUME NEW q, NEW ps, NEW qs, NEW now \in Nat, NEW later \in Nat,
           InFlight(q, ps, now), KeepsTasks(ps, qs), now <= later
    PROVE  InFlight(q, qs, later)
<1>1. q.p \in DOMAIN qs /\ q.i \in DOMAIN qs[q.p].tasks
    BY DEF InFlight, KeepsTasks
<1>2. ASSUME q.pc = "serving"
      PROVE  /\ q.time \in 0 .. later
             /\ \A j \in DOMAIN qs[q.p].tasks : j < q.i => qs[q.p].tasks[j].submitted # None
    <2>1. q.time \in 0 .. now
        BY <1>2 DEF InFlight
    <2> QED BY <1>2, <2>1 DEF InFlight, KeepsTasks
<1>3. ASSUME q.pc = "submitting"
      PROVE  /\ q.time.submitted \in 0 .. later /\ q.time.served \in 0 .. StudyTime
             /\ IsAnswer(qs[q.p].tasks[q.i], q.action, q.reply)
             /\ q.reply \in BOOLEAN
    <2>1. q.time.submitted \in 0 .. now
        BY <1>3 DEF InFlight
    <2>2. SameTask(qs[q.p].tasks[q.i], ps[q.p].tasks[q.i])
        BY DEF InFlight, KeepsTasks
    <2> QED BY <1>3, <2>1, <2>2 DEF InFlight, IsAnswer, SameTask
<1> QED BY <1>1, <1>2, <1>3 DEF InFlight

LEMMA Rests ==
    ASSUME NEW ps
    PROVE  KeepsTasks(ps, ps)
BY DEF KeepsTasks, SameTask

----------------------------------------------------------------------------
(* Steps of the study *)

\* New participants come with new tasks and leave the others alone.
LEMMA SetupAdds ==
    ASSUME StudyAssumption, StudyInv, NEW s \in setups, EndSetup(s)
    PROVE  /\ PeopleOK(people', sets.a, sets.b)
           /\ DOMAIN people \subseteq DOMAIN people' /\ \A p \in DOMAIN people : people'[p] = people[p]
           /\ \A p \in DOMAIN people' : p \in DOMAIN people \/ Untouched(people'[p].tasks)
<1>1. CASE s.existing # Len(people)
    BY <1>1 DEF EndSetup, StudyInv, PeopleInv
<1>2. CASE s.existing = Len(people)
    <2> DEFINE D == 1 .. s.n - s.existing
    <2>1. PICK tasks \in [D -> Plans("manual_first", s.thresholds) \cup Plans("workbench_first", s.thresholds)] :
              /\ \A k \in DOMAIN tasks : tasks[k] \in Plans(OrderFor(s.existing + k - 1), s.thresholds)
              /\ people' = people \o [k \in DOMAIN tasks |-> [order |-> OrderFor(s.existing + k - 1),
                                                              tasks |-> tasks[k]]]
        BY <1>2 DEF EndSetup
    <2> DEFINE Person(k) == [order |-> OrderFor(s.existing + k - 1), tasks |-> tasks[k]]
               new == [k \in D |-> Person(k)]
    <2>2. /\ s.existing \in Nat /\ s.n \in Nat /\ s.existing < s.n /\ s.thresholds \in ThresholdSets
          /\ sets # None /\ SetsInv /\ people \in Seq(Participant)
        BY DEF StudyInv, SetupsInv, PeopleInv, PeopleOK
    <2>3. DOMAIN tasks = D /\ people' = people \o new
        BY <2>1
    <2>4. ASSUME NEW k \in D
          PROVE  /\ OrderFor(s.existing + k - 1) \in {"manual_first", "workbench_first"}
                 /\ Planned(tasks[k], OrderFor(s.existing + k - 1), sets.a, sets.b)
                 /\ Untouched(tasks[k]) /\ InOrder(tasks[k])
        <3>1. OrderFor(s.existing + k - 1) \in {"manual_first", "workbench_first"}
            BY DEF OrderFor
        <3>2. tasks[k] \in Plans(OrderFor(s.existing + k - 1), s.thresholds)
            BY <2>1, <2>3
        <3>3. Planned(tasks[k], OrderFor(s.existing + k - 1), sets.a, sets.b) /\ Untouched(tasks[k])
            BY <2>2, <3>1, <3>2, PlanIs
        <3> QED BY <3>1, <3>3, UntouchedIs
    <2>5. \A k \in D : Person(k) \in Participant
        BY <2>4 DEF Participant, Planned
    <2>6. new \in Seq(Participant) /\ Len(new) = s.n - s.existing /\ \A k \in D : new[k] = Person(k)
        <3> HIDE DEF Person
        <3>1. s.n - s.existing \in Nat /\ new \in [D -> Participant]
            BY <2>2, <2>5
        <3> QED BY <3>1
    <2>7. /\ people' \in Seq(Participant) /\ Len(people') = s.n
          /\ \A p \in DOMAIN people : people'[p] = people[p]
          /\ \A k \in D : people'[Len(people) + k] = new[k]
        <3> DEFINE more == people \o new
        <3>1. /\ more \in Seq(Participant) /\ Len(more) = Len(people) + Len(new)
              /\ \A i \in 1 .. Len(people) : more[i] = people[i]
              /\ \A i \in 1 .. Len(new) : more[Len(people) + i] = new[i]
            <4> HIDE DEF new
            <4> QED BY <2>2, <2>6, JoinedLists
        <3>2. people' = more
            BY <2>3
        <3>3. DOMAIN people = 1 .. Len(people) /\ Len(people) + (s.n - s.existing) = s.n
            BY <1>2, <2>2
        <3> HIDE DEF more, new
        <3> QED BY <2>6, <3>1, <3>2, <3>3
    <2> HIDE DEF new
    <2>8. ASSUME NEW p \in DOMAIN people', p \notin DOMAIN people
          PROVE  /\ people'[p].order = OrderFor(p - 1)
                 /\ Planned(people'[p].tasks, people'[p].order, sets.a, sets.b)
                 /\ InOrder(people'[p].tasks) /\ Untouched(people'[p].tasks)
        <3>1. DOMAIN people' = 1 .. s.n /\ DOMAIN people = 1 .. s.existing
            BY <1>2, <2>2, <2>7
        <3>2. p - s.existing \in D /\ Len(people) + (p - s.existing) = p /\ s.existing + (p - s.existing) - 1 = p - 1
            <4> DEFINE e == s.existing
                       n == s.n
            <4>1. e \in Nat /\ n \in Nat /\ p \in 1 .. n /\ p \notin 1 .. e /\ Len(people) = e
                BY <1>2, <2>2, <2>8, <3>1
            <4> HIDE DEF e, n
            <4>2. p - e \in 1 .. n - e /\ e + (p - e) = p /\ e + (p - e) - 1 = p - 1
                BY <4>1
            <4> QED BY <4>1, <4>2 DEF e, n
        <3>3. people'[p] = Person(p - s.existing)
            <4> HIDE DEF Person
            <4> QED BY <2>6, <2>7, <3>2
        <3>4. people'[p].order = OrderFor(p - 1) /\ people'[p].tasks = tasks[p - s.existing]
            BY <3>2, <3>3
        <3> QED BY <2>4, <3>2, <3>4
    <2>9. DOMAIN people \subseteq DOMAIN people'
        <3>1. DOMAIN people' = 1 .. s.n /\ DOMAIN people = 1 .. s.existing
            BY <1>2, <2>2, <2>7
        <3> QED BY <2>2, <3>1
    <2>10. ASSUME NEW p \in DOMAIN people'
           PROVE  /\ people'[p].order = OrderFor(p - 1)
                  /\ Planned(people'[p].tasks, people'[p].order, sets.a, sets.b)
                  /\ InOrder(people'[p].tasks)
        <3>1. CASE p \in DOMAIN people
            BY <2>7, <3>1 DEF StudyInv, PeopleInv, PeopleOK
        <3> QED BY <2>8, <3>1
    <2> QED BY <2>7, <2>8, <2>9, <2>10 DEF PeopleOK
<1> QED BY <1>1, <1>2

\* Writing one task, of the plan as before, in order.
LEMMA WriteKeeps ==
    ASSUME StudyAssumption, StudyInv, NEW q, NEW t \in TaskRow,
           q.p \in DOMAIN people, q.i \in DOMAIN people[q.p].tasks, people' = WithTask(q, t),
           SameTask(t, people[q.p].tasks[q.i]),
           t.served # None => \A j \in DOMAIN people[q.p].tasks : j < q.i => people[q.p].tasks[j].submitted # None,
           people[q.p].tasks[q.i].submitted # None => t.submitted # None,
           t.submitted # None <=> t.action # None,
           t.submitted # None => IsAnswer(t, t.action, t.reply)
    PROVE  /\ PeopleOK(people', sets.a, sets.b) /\ KeepsTasks(people, people')
           /\ DOMAIN people' = DOMAIN people /\ \A p \in DOMAIN people : p # q.p => people'[p] = people[p]
           /\ PutAt(people[q.p].tasks, people'[q.p].tasks, q.i, t)
<1>1. /\ people \in Seq(Participant)
      /\ \A p \in DOMAIN people :
            /\ people[p].order = OrderFor(p - 1)
            /\ Planned(people[p].tasks, people[p].order, sets.a, sets.b) /\ InOrder(people[p].tasks)
    BY DEF StudyInv, PeopleInv, PeopleOK
<1>2. /\ people' \in Seq(Participant) /\ DOMAIN people' = DOMAIN people
      /\ \A p \in DOMAIN people : p # q.p => people'[p] = people[p]
      /\ people'[q.p].order = people[q.p].order
      /\ people'[q.p].tasks \in Seq(TaskRow)
      /\ Len(people'[q.p].tasks) = Len(people[q.p].tasks)
      /\ PutAt(people[q.p].tasks, people'[q.p].tasks, q.i, t)
    <2> DEFINE new == WithTask(q, t)
    <2>1. /\ new \in Seq(Participant) /\ DOMAIN new = DOMAIN people
          /\ \A p \in DOMAIN people : p # q.p => new[p] = people[p]
          /\ new[q.p].order = people[q.p].order
          /\ new[q.p].tasks \in Seq(TaskRow)
          /\ Len(new[q.p].tasks) = Len(people[q.p].tasks)
          /\ PutAt(people[q.p].tasks, new[q.p].tasks, q.i, t)
        BY <1>1, UpdatedIs
    <2>2. people' = new
        OBVIOUS
    <2> HIDE DEF new
    <2> QED BY <2>1, <2>2
<1>3. Planned(people'[q.p].tasks, people[q.p].order, sets.a, sets.b)
    BY <1>1, <1>2, PutPlanned
<1>4. DOMAIN people[q.p].tasks \subseteq Nat
    BY <1>1 DEF Planned
<1>5. InOrder(people'[q.p].tasks)
    <2> DEFINE tasks == people[q.p].tasks
               new == people'[q.p].tasks
    <2>1. /\ DOMAIN tasks \subseteq Nat /\ InOrder(tasks) /\ PutAt(tasks, new, q.i, t)
          /\ t.served # None => \A j \in DOMAIN tasks : j < q.i => tasks[j].submitted # None
          /\ tasks[q.i].submitted # None => t.submitted # None
        BY <1>1, <1>2, <1>4
    <2> HIDE DEF tasks, new
    <2>2. InOrder(new)
        BY <2>1, PutInOrder
    <2> QED BY <2>2 DEF new
<1>6. PeopleOK(people', sets.a, sets.b)
    BY <1>1, <1>2, <1>3, <1>5 DEF PeopleOK
<1>7. KeepsTasks(people, people')
    BY <1>2 DEF KeepsTasks, PutAt, SameTask
<1> QED BY <1>2, <1>6, <1>7

LEMMA RequestsKept ==
    ASSUME StudyInv, KeepsTasks(people, people'), studyClock' \in Nat, studyClock <= studyClock', UNCHANGED call
    PROVE  RequestsInv'
<1>1. \A r \in Calls : call[r].pc # "idle" => InFlight(call[r], people', studyClock')
    BY InFlightStays DEF StudyInv, RequestsInv
<1> QED BY <1>1 DEF StudyInv, RequestsInv

LEMMA RequestMoved ==
    ASSUME StudyInv, NEW r \in Calls, NEW q, call' = [call EXCEPT ![r] = q],
           q.pc \in {"idle", "serving", "submitting"}, q.pc # "idle" => InFlight(q, people', studyClock'),
           KeepsTasks(people, people'), UNCHANGED studyClock
    PROVE  RequestsInv'
<1>1. \A p \in Calls : call[p].pc # "idle" => InFlight(call[p], people', studyClock')
    BY InFlightStays DEF StudyInv, RequestsInv
<1>2. /\ DOMAIN call' = Calls
      /\ \A p \in Calls : call'[p] = IF p = r THEN q ELSE call[p]
    BY DEF StudyInv, RequestsInv
<1> QED BY <1>1, <1>2 DEF StudyInv, RequestsInv

LEMMA TasksTyped ==
    ASSUME StudyInv, NEW p \in DOMAIN people, NEW i \in DOMAIN people[p].tasks
    PROVE  /\ people[p].tasks[i] \in TaskRow /\ DOMAIN people[p].tasks \in SUBSET Nat
           /\ InOrder(people[p].tasks)
<1>1. people[p].tasks \in Seq(TaskRow) /\ InOrder(people[p].tasks)
    BY DEF StudyInv, PeopleInv, PeopleOK, Planned
<1> DEFINE tasks == people[p].tasks
<1>2. tasks \in Seq(TaskRow) /\ i \in DOMAIN tasks
    BY <1>1
<1> HIDE DEF tasks
<1>3. tasks[i] \in TaskRow /\ DOMAIN tasks \in SUBSET Nat
    BY <1>2
<1> QED BY <1>1, <1>3 DEF tasks

\* What Served and Submitted write.
LEMMA ServedWrites ==
    ASSUME StudyAssumption, StudyInv, NEW r \in Calls, Served(r)
    PROVE  LET q == call[r]
               t == [people[q.p].tasks[q.i] EXCEPT !.served = q.time]
           IN  /\ PeopleOK(people', sets.a, sets.b) /\ KeepsTasks(people, people')
               /\ DOMAIN people' = DOMAIN people /\ \A p \in DOMAIN people : p # q.p => people'[p] = people[p]
               /\ PutAt(people[q.p].tasks, people'[q.p].tasks, q.i, t)
<1> DEFINE q == call[r]
           old == people[q.p].tasks[q.i]
           t == [old EXCEPT !.served = q.time]
<1>1. /\ q.pc = "serving" /\ q.p \in DOMAIN people /\ q.i \in DOMAIN people[q.p].tasks
      /\ q.time \in 0 .. studyClock /\ studyClock \in 0 .. StudyTime
      /\ \A j \in DOMAIN people[q.p].tasks : j < q.i => people[q.p].tasks[j].submitted # None
    BY DEF Served, StudyInv, RequestsInv, InFlight
<1>2. old \in TaskRow /\ InOrder(people[q.p].tasks)
    BY <1>1, TasksTyped
<1>3. q.time \in Times
    BY <1>1 DEF StudyAssumption, Times
<1>4. people' = WithTask(q, t)
    BY DEF Served
<1>5. /\ old.submitted # None <=> old.action # None
      /\ old.submitted # None => IsAnswer(old, old.action, old.reply)
    BY <1>1, <1>2 DEF InOrder
<1> HIDE DEF q
<1>6. t \in TaskRow /\ SameTask(t, old) /\ t.submitted = old.submitted /\ t.action = old.action /\ t.reply = old.reply
    <2> HIDE DEF old
    <2> QED BY <1>2, <1>3 DEF TaskRow, SameTask
<1>7. t.submitted # None => IsAnswer(t, t.action, t.reply)
    BY <1>5, <1>6 DEF IsAnswer, SameTask
<1> HIDE DEF t
<1>8. /\ PeopleOK(people', sets.a, sets.b) /\ KeepsTasks(people, people')
      /\ DOMAIN people' = DOMAIN people /\ \A p \in DOMAIN people : p # q.p => people'[p] = people[p]
      /\ PutAt(people[q.p].tasks, people'[q.p].tasks, q.i, t)
    BY <1>1, <1>4, <1>5, <1>6, <1>7, WriteKeeps
<1> QED BY <1>8 DEF t, q, old

LEMMA SubmittedWrites ==
    ASSUME StudyAssumption, StudyInv, NEW r \in Calls, Submitted(r)
    PROVE  LET q == call[r]
               t == Stored(people[q.p].tasks[q.i], q)
           IN  /\ PeopleOK(people', sets.a, sets.b) /\ KeepsTasks(people, people')
               /\ DOMAIN people' = DOMAIN people /\ \A p \in DOMAIN people : p # q.p => people'[p] = people[p]
               /\ PutAt(people[q.p].tasks, people'[q.p].tasks, q.i, t)
<1> DEFINE q == call[r]
           old == people[q.p].tasks[q.i]
           t == Stored(old, q)
<1>1. /\ q.pc = "submitting" /\ q.p \in DOMAIN people /\ q.i \in DOMAIN people[q.p].tasks
      /\ q.time.submitted \in 0 .. studyClock /\ q.time.served \in 0 .. StudyTime /\ studyClock \in 0 .. StudyTime
      /\ IsAnswer(old, q.action, q.reply) /\ q.reply \in BOOLEAN
    BY DEF Submitted, StudyInv, RequestsInv, InFlight
<1>2. old \in TaskRow /\ InOrder(people[q.p].tasks) /\ DOMAIN people[q.p].tasks \in SUBSET Nat
    BY <1>1, TasksTyped
<1>3. /\ q.time.submitted \in Times /\ q.time.submitted # None
      /\ q.time.submitted - q.time.served \in Int
    BY <1>1 DEF StudyAssumption, Times
<1>4. people' = WithTask(q, t)
    BY DEF Submitted
<1>5. q.action \in {"accept", "edit", "write", "escalate"}
    BY <1>1, <1>2 DEF IsAnswer, Actions, TaskRow, Conditions
<1>6. old.served # None => \A j \in DOMAIN people[q.p].tasks : j < q.i => people[q.p].tasks[j].submitted # None
    BY <1>1, <1>2 DEF InOrder
<1> HIDE DEF q
<1>7. /\ t \in TaskRow /\ SameTask(t, old) /\ t.served = old.served
      /\ t.submitted = q.time.submitted /\ t.action = q.action /\ t.reply = q.reply
      /\ t.time = q.time.submitted - q.time.served
    <2> DEFINE d == q.time.submitted - q.time.served
    <2>1. q.time.served # None
        BY <1>1 DEF StudyAssumption
    <2>2. t = [old EXCEPT !.submitted = q.time.submitted, !.action = q.action, !.reply = q.reply, !.time = d]
        <3> HIDE DEF d, old
        <3>1. d = IF q.time.served = None THEN 0 ELSE q.time.submitted - q.time.served
            BY <2>1 DEF d
        <3> QED BY <3>1 DEF Stored
    <2>3. d \in Int
        BY <1>3
    <2> HIDE DEF old, d, t
    <2>4. t = [ticket |-> old.ticket, set |-> old.set, condition |-> old.condition, lane |-> old.lane,
               served |-> old.served, submitted |-> q.time.submitted, action |-> q.action, reply |-> q.reply,
               time |-> d]
        BY <1>2, <2>2 DEF TaskRow
    <2>5. /\ SameTask(t, old) /\ t.served = old.served /\ t.submitted = q.time.submitted
          /\ t.action = q.action /\ t.reply = q.reply /\ t.time = d
        BY <2>4 DEF SameTask
    <2>6. t \in TaskRow
        BY <1>1, <1>2, <1>3, <1>5, <2>3, <2>4 DEF TaskRow
    <2> QED BY <2>5, <2>6 DEF d
<1>8. IsAnswer(t, t.action, t.reply)
    BY <1>1, <1>7 DEF IsAnswer, SameTask
<1>9. q.action # None
    BY <1>5 DEF StudyAssumption
<1> HIDE DEF t
<1>10. /\ PeopleOK(people', sets.a, sets.b) /\ KeepsTasks(people, people')
       /\ DOMAIN people' = DOMAIN people /\ \A p \in DOMAIN people : p # q.p => people'[p] = people[p]
       /\ PutAt(people[q.p].tasks, people'[q.p].tasks, q.i, t)
    BY <1>1, <1>3, <1>4, <1>6, <1>7, <1>8, <1>9, WriteKeeps
<1> QED BY <1>10 DEF t, q, old

LEMMA SetupsKept ==
    ASSUME StudyInv, UNCHANGED <<sets, people, setups>>
    PROVE  SetsInv' /\ PeopleInv' /\ SetupsInv'
BY DEF StudyInv, SetsInv, PeopleInv, SetupsInv

LEMMA FetchMayShow ==
    ASSUME StudyAssumption, StudyInv, NEW r \in Calls, NEW p \in DOMAIN people, Fetch(r, p)
    PROVE  LET tasks == people[p].tasks
               q == call'[r]
           IN  /\ q.i \in DOMAIN tasks /\ tasks[q.i].submitted = None /\ tasks[q.i].served = None
               /\ \A j \in DOMAIN tasks : j < q.i => tasks[j].submitted # None
               /\ q.pc = "serving" /\ q.p = p /\ q.time = studyClock
               /\ call' = [call EXCEPT ![r] = q]
<1> DEFINE tasks == people[p].tasks
           i == Min(Open(tasks))
           q == [NoCall EXCEPT !.pc = "serving", !.p = p, !.i = i, !.time = studyClock]
<1>1. DOMAIN tasks \in SUBSET Nat
    BY DEF StudyInv, PeopleInv, PeopleOK, Planned
<1>2. Open(tasks) \in SUBSET Nat /\ Open(tasks) # {}
    BY <1>1 DEF Open, Fetch
<1>3. i \in Open(tasks) /\ \A j \in Open(tasks) : i <= j
    BY <1>2, LeastIs
<1>4. \A j \in DOMAIN tasks : j < i => tasks[j].submitted # None
    <2> HIDE DEF i, tasks
    <2> QED BY <1>1, <1>3 DEF Open
<1>5. call' = [call EXCEPT ![r] = q]
    BY DEF Fetch
<1>6. q.pc = "serving" /\ q.p = p /\ q.i = i /\ q.time = studyClock
    <2> HIDE DEF i
    <2> QED BY DEF NoCall
<1>7. tasks[i].served = None
    BY DEF Fetch
<1>8. DOMAIN call = Calls
    BY DEF StudyInv, RequestsInv
<1> HIDE DEF i, q, tasks
<1>9. call'[r] = q
    BY <1>5, <1>8
<1>10. i \in DOMAIN tasks /\ tasks[i].submitted = None
    BY <1>3 DEF Open
<1> QED BY <1>4, <1>5, <1>6, <1>7, <1>9, <1>10 DEF tasks

LEMMA FetchKeeps ==
    ASSUME StudyAssumption, StudyInv, NEW r \in Calls, NEW p \in DOMAIN people, Fetch(r, p)
    PROVE  StudyInv'
<1> DEFINE tasks == people[p].tasks
           q == call'[r]
<1>1. /\ q.i \in DOMAIN tasks /\ \A j \in DOMAIN tasks : j < q.i => tasks[j].submitted # None
      /\ q.pc = "serving" /\ q.p = p /\ q.time = studyClock
      /\ call' = [call EXCEPT ![r] = q]
    BY FetchMayShow
<1>2. UNCHANGED <<sets, active, people, setups, studyClock>> /\ studyClock \in 0 .. StudyTime
    BY DEF Fetch, StudyInv
<1> HIDE DEF q
<1>4. InFlight(q, people, studyClock)
    BY <1>1, <1>2 DEF InFlight
<1>5. KeepsTasks(people, people') /\ InFlight(q, people', studyClock')
    BY <1>2, <1>4, Rests
<1>6. RequestsInv'
    BY <1>1, <1>2, <1>5, RequestMoved
<1>7. SetsInv' /\ PeopleInv' /\ SetupsInv'
    BY <1>2, SetupsKept
<1> QED BY <1>2, <1>6, <1>7 DEF StudyInv

\* An accepted answer: what the request holds.
LEMMA SubmitHolds ==
    ASSUME StudyAssumption, StudyInv, NEW r \in Calls, NEW p \in DOMAIN people, NEW i, NEW action, NEW reply \in BOOLEAN,
           Submit(r, p, i, action, reply)
    PROVE  LET t == people[p].tasks[i]
               q == call'[r]
           IN  /\ i \in DOMAIN people[p].tasks /\ t.submitted = None /\ t.served \in 0 .. StudyTime
               /\ IsAnswer(t, action, reply)
               /\ q.pc = "submitting" /\ q.p = p /\ q.i = i /\ q.action = action /\ q.reply = reply
               /\ q.time.submitted = studyClock /\ q.time.served = t.served
               /\ call' = [call EXCEPT ![r] = q]
<1> DEFINE t == people[p].tasks[i]
           q == [pc |-> "submitting", p |-> p, i |-> i, action |-> action, reply |-> reply,
                 time |-> [submitted |-> studyClock, served |-> t.served]]
<1>1. i \in DOMAIN people[p].tasks /\ MayAnswer(t, action, reply) /\ call' = [call EXCEPT ![r] = q]
    BY DEF Submit
<1>2. t \in TaskRow
    BY <1>1, TasksTyped
<1>3. DOMAIN call = Calls
    BY DEF StudyInv, RequestsInv
<1>4. /\ q.pc = "submitting" /\ q.p = p /\ q.i = i /\ q.action = action /\ q.reply = reply
      /\ q.time.submitted = studyClock /\ q.time.served = t.served
    OBVIOUS
<1> HIDE DEF q, t
<1>5. call'[r] = q
    BY <1>1, <1>3
<1>6. t.submitted = None /\ t.served \in 0 .. StudyTime /\ IsAnswer(t, action, reply)
    BY <1>1, <1>2 DEF MayAnswer, IsAnswer, TaskRow, Times
<1> QED BY <1>1, <1>4, <1>5, <1>6 DEF t

LEMMA SubmitKeeps ==
    ASSUME StudyAssumption, StudyInv, NEW r \in Calls, NEW p \in DOMAIN people, NEW i, NEW action, NEW reply \in BOOLEAN,
           Submit(r, p, i, action, reply)
    PROVE  StudyInv'
<1> DEFINE t == people[p].tasks[i]
           q == call'[r]
<1>1. /\ i \in DOMAIN people[p].tasks /\ t.submitted = None /\ t.served \in 0 .. StudyTime
      /\ IsAnswer(t, action, reply)
      /\ q.pc = "submitting" /\ q.p = p /\ q.i = i /\ q.action = action /\ q.reply = reply
      /\ q.time.submitted = studyClock /\ q.time.served = t.served
      /\ call' = [call EXCEPT ![r] = q]
    BY SubmitHolds
<1>2. UNCHANGED <<sets, active, people, setups, studyClock>> /\ studyClock \in 0 .. StudyTime
    BY DEF Submit, StudyInv
<1> HIDE DEF q
<1>4. InFlight(q, people, studyClock)
    BY <1>1, <1>2 DEF InFlight
<1>5. KeepsTasks(people, people') /\ InFlight(q, people', studyClock')
    BY <1>2, <1>4, Rests
<1>6. RequestsInv'
    BY <1>1, <1>2, <1>5, RequestMoved
<1>7. SetsInv' /\ PeopleInv' /\ SetupsInv'
    BY <1>2, SetupsKept
<1> QED BY <1>2, <1>6, <1>7 DEF StudyInv

\* A commit ends the request.
LEMMA CommitKeeps ==
    ASSUME StudyInv, NEW r \in Calls, call' = [call EXCEPT ![r] = NoCall],
           PeopleOK(people', sets.a, sets.b), KeepsTasks(people, people'), DOMAIN people' = DOMAIN people,
           UNCHANGED <<sets, active, setups, studyClock>>
    PROVE  StudyInv'
<1>1. NoCall.pc = "idle"
    BY DEF NoCall
<1>2. RequestsInv'
    BY <1>1, RequestMoved
<1>3. people' # <<>> => people # <<>>
    BY DEF StudyInv, PeopleInv, PeopleOK
<1>4. SetsInv' /\ SetupsInv' /\ PeopleInv'
    BY <1>3 DEF StudyInv, SetsInv, SetupsInv, PeopleInv
<1> QED BY <1>2, <1>4 DEF StudyInv

LEMMA StudyInvNext ==
    ASSUME StudyAssumption, StudyInv, [StudyNext]_studyVars
    PROVE  StudyInv'
<1>0. studyClock \in 0 .. StudyTime /\ StudyTime \in Nat /\ active \in ThresholdSets
    BY DEF StudyInv, StudyAssumption
<1>1. CASE UNCHANGED studyVars
    BY <1>1 DEF studyVars, StudyInv, SetsInv, PeopleInv, SetupsInv, RequestsInv
<1>2. ASSUME NEW n \in 1 .. MaxParticipants, StartSetup(n)
      PROVE  StudyInv'
    <2>1. UNCHANGED <<sets, active, people, call, studyClock>>
        BY <1>2 DEF StartSetup
    <2>2. SetsInv' /\ PeopleInv'
        BY <2>1 DEF StudyInv, SetsInv, PeopleInv
    <2>3. SetupsInv'
        <3>1. Len(people) \in Nat /\ n \in Nat /\ Len(people) < n /\ active \in ThresholdSets /\ sets # None
            BY <1>0, <1>2 DEF StartSetup, StudyInv, PeopleInv, PeopleOK, StudyAssumption
        <3>2. setups' = setups \cup {[existing |-> Len(people), n |-> n, thresholds |-> active]}
            BY <1>2 DEF StartSetup
        <3> QED BY <2>1, <3>1, <3>2 DEF StudyInv, SetupsInv
    <2>4. RequestsInv'
        BY <2>1, <1>0, Rests, RequestsKept
    <2> QED BY <1>0, <2>1, <2>2, <2>3, <2>4 DEF StudyInv
<1>3. ASSUME NEW s \in setups, EndSetup(s)
      PROVE  StudyInv'
    <2>1. UNCHANGED <<sets, active, call, studyClock>> /\ setups' = setups \ {s}
        BY <1>3 DEF EndSetup
    <2>2. /\ PeopleOK(people', sets.a, sets.b)
          /\ DOMAIN people \subseteq DOMAIN people' /\ \A p \in DOMAIN people : people'[p] = people[p]
        BY <1>3, SetupAdds
    <2>3. KeepsTasks(people, people')
        BY <2>2 DEF KeepsTasks, SameTask
    <2>4. RequestsInv'
        BY <1>0, <2>1, <2>3, RequestsKept
    <2>5. SetsInv' /\ PeopleInv' /\ SetupsInv'
        BY <2>1, <2>2 DEF StudyInv, SetsInv, PeopleInv, SetupsInv
    <2> QED BY <1>0, <2>1, <2>4, <2>5 DEF StudyInv
<1>4. ASSUME NEW t \in ThresholdSets, Activate(t)
      PROVE  StudyInv'
    <2>1. UNCHANGED <<sets, people, setups, call, studyClock>> /\ active' = t
        BY <1>4 DEF Activate
    <2>2. SetsInv' /\ PeopleInv' /\ SetupsInv'
        BY <2>1, SetupsKept
    <2>3. RequestsInv'
        BY <1>0, <2>1, Rests, RequestsKept
    <2> QED BY <1>0, <2>1, <2>2, <2>3 DEF StudyInv
<1>5. ASSUME NEW r \in Calls, NEW p \in DOMAIN people, Fetch(r, p)
      PROVE  StudyInv'
    BY <1>5, FetchKeeps
<1>6. ASSUME NEW r \in Calls, NEW p \in DOMAIN people, NEW i, NEW action, NEW reply \in BOOLEAN,
             Submit(r, p, i, action, reply)
      PROVE  StudyInv'
    BY <1>6, SubmitKeeps
<1>7. ASSUME NEW r \in Calls, Served(r)
      PROVE  StudyInv'
    <2>1. PeopleOK(people', sets.a, sets.b) /\ KeepsTasks(people, people') /\ DOMAIN people' = DOMAIN people
        BY <1>7, ServedWrites
    <2>2. call' = [call EXCEPT ![r] = NoCall] /\ UNCHANGED <<sets, active, setups, studyClock>>
        BY <1>7 DEF Served
    <2> QED BY <2>1, <2>2, CommitKeeps
<1>8. ASSUME NEW r \in Calls, Submitted(r)
      PROVE  StudyInv'
    <2>1. PeopleOK(people', sets.a, sets.b) /\ KeepsTasks(people, people') /\ DOMAIN people' = DOMAIN people
        BY <1>8, SubmittedWrites
    <2>2. call' = [call EXCEPT ![r] = NoCall] /\ UNCHANGED <<sets, active, setups, studyClock>>
        BY <1>8 DEF Submitted
    <2> QED BY <2>1, <2>2, CommitKeeps
<1>9. ASSUME NEW r \in Calls, CallLost(r)
      PROVE  StudyInv'
    <2>1. call' = [call EXCEPT ![r] = NoCall] /\ UNCHANGED <<sets, active, people, setups, studyClock>>
        BY <1>9 DEF CallLost
    <2>2. PeopleOK(people', sets.a, sets.b) /\ KeepsTasks(people, people')
        BY <2>1, Rests DEF StudyInv, PeopleInv
    <2> QED BY <2>1, <2>2, CommitKeeps
<1>10. CASE StudyTick
    <2>1. UNCHANGED <<sets, active, people, setups, call>> /\ studyClock' = studyClock + 1 /\ studyClock < StudyTime
        BY <1>10 DEF StudyTick
    <2>2. SetsInv' /\ PeopleInv' /\ SetupsInv'
        BY <2>1, SetupsKept
    <2>3. studyClock' \in 0 .. StudyTime /\ studyClock' \in Nat /\ studyClock <= studyClock'
        BY <1>0, <2>1
    <2>4. RequestsInv'
        BY <2>1, <2>3, Rests, RequestsKept
    <2> QED BY <1>0, <2>1, <2>2, <2>3, <2>4 DEF StudyInv
<1> QED BY <1>1, <1>2, <1>3, <1>4, <1>5, <1>6, <1>7, <1>8, <1>9, <1>10 DEF StudyNext

----------------------------------------------------------------------------
(* One request at a time *)

\* Others of the same participant are not in flight: what the rest read is untouched.
LEMMA OthersStayCurrent ==
    ASSUME NEW q, NEW ps, NEW qs, qs[q.p] = ps[q.p], IsCurrent(q, ps)
    PROVE  IsCurrent(q, qs)
BY DEF IsCurrent

LEMMA NothingMoves ==
    ASSUME OneAtATime, UNCHANGED <<people, call, studyClock, overlap>>
    PROVE  OneAtATime'
BY DEF OneAtATime

LEMMA LaterIsOnTime ==
    ASSUME NEW tasks \in Seq(TaskRow), NEW now \in Nat, NEW later \in Nat, now <= later, StudyAssumption,
           OnTime(tasks, now)
    PROVE  OnTime(tasks, later)
<1>1. ASSUME NEW i \in DOMAIN tasks
      PROVE  tasks[i].served \in Times /\ tasks[i].submitted \in Times
    <2>1. tasks[i] \in TaskRow
        OBVIOUS
    <2> QED BY <2>1 DEF TaskRow
<1> QED BY <1>1 DEF OnTime, Times, StudyAssumption

\* A new request of a participant who had none.
LEMMA RequestStarts ==
    ASSUME StudyInv, OneAtATime, NEW r \in Calls, NEW p, MayStart(r, p), NEW q,
           call' = [call EXCEPT ![r] = q], q.p = p, IsCurrent(q, people), UNCHANGED <<people, studyClock, overlap>>
    PROVE  OneAtATime'
<1> SUFFICES ASSUME ~ overlap
             PROVE  OneAtATime'
    BY DEF OneAtATime
<1>1. \A x \in Calls : call'[x] = IF x = r THEN q ELSE call[x]
    BY DEF StudyInv, RequestsInv
<1>2. \A x \in Calls : call[x].pc = "idle" \/ call[x].p # p
    BY DEF MayStart
<1>3. \A x \in Calls : call'[x].pc # "idle" => IsCurrent(call'[x], people)
    BY <1>1 DEF OneAtATime
<1>4. \A x, y \in Calls : call'[x].pc # "idle" /\ call'[y].pc # "idle" /\ x # y => call'[x].p # call'[y].p
    BY <1>1, <1>2 DEF OneAtATime
<1>5. IsCurrent(q, people)' <=> IsCurrent(q, people)
    OBVIOUS
<1>6. \A x \in Calls : call'[x].pc # "idle" => IsCurrent(call'[x], people')
    BY <1>3
<1> QED BY <1>4, <1>6 DEF OneAtATime

LEMMA FetchInTime ==
    ASSUME StudyAssumption, StudyInv, OneAtATime, NEW r \in Calls, NEW p \in DOMAIN people, Fetch(r, p)
    PROVE  OneAtATime'
<1> SUFFICES ASSUME ~ overlap
             PROVE  OneAtATime'
    BY DEF OneAtATime, Fetch
<1> DEFINE tasks == people[p].tasks
           q == call'[r]
<1>1. /\ q.i \in DOMAIN tasks /\ tasks[q.i].submitted = None /\ tasks[q.i].served = None
      /\ \A j \in DOMAIN tasks : j < q.i => tasks[j].submitted # None
      /\ q.pc = "serving" /\ q.p = p /\ q.time = studyClock
      /\ call' = [call EXCEPT ![r] = q]
    BY FetchMayShow
<1>2. MayStart(r, p) /\ UNCHANGED <<people, studyClock, overlap>>
    BY DEF Fetch
<1>3. OnTime(tasks, studyClock)
    BY DEF OneAtATime
<1> HIDE DEF q
<1>4. \A j \in DOMAIN tasks : j < q.i => tasks[j].submitted <= q.time
    BY <1>1, <1>3 DEF OnTime
<1>5. IsCurrent(q, people)
    BY <1>1, <1>4 DEF IsCurrent
<1> QED BY <1>1, <1>2, <1>5, RequestStarts

LEMMA SubmitInTime ==
    ASSUME StudyAssumption, StudyInv, OneAtATime, NEW r \in Calls, NEW p \in DOMAIN people, NEW i, NEW action,
           NEW reply \in BOOLEAN, Submit(r, p, i, action, reply)
    PROVE  OneAtATime'
<1> SUFFICES ASSUME ~ overlap
             PROVE  OneAtATime'
    BY DEF OneAtATime, Submit
<1> DEFINE tasks == people[p].tasks
           q == call'[r]
<1>1. /\ i \in DOMAIN tasks /\ tasks[i].submitted = None /\ tasks[i].served \in 0 .. StudyTime
      /\ q.pc = "submitting" /\ q.p = p /\ q.i = i
      /\ q.time.submitted = studyClock /\ q.time.served = tasks[i].served
      /\ call' = [call EXCEPT ![r] = q]
    BY SubmitHolds
<1>2. MayStart(r, p) /\ UNCHANGED <<people, studyClock, overlap>>
    BY DEF Submit
<1>3. OnTime(tasks, studyClock)
    BY DEF OneAtATime
<1>4. tasks[i].served <= studyClock
    BY <1>1, <1>3 DEF OnTime, StudyAssumption
<1> HIDE DEF q
<1>5. IsCurrent(q, people)
    BY <1>1, <1>4 DEF IsCurrent
<1> QED BY <1>1, <1>2, <1>5, RequestStarts

\* A request ends and may have written a task of its own participant.
LEMMA RequestEnds ==
    ASSUME StudyInv, OneAtATime, ~ overlap, NEW r \in Calls, call[r].pc # "idle", call' = [call EXCEPT ![r] = NoCall],
           DOMAIN people' = DOMAIN people, \A p \in DOMAIN people : p # call[r].p => people'[p] = people[p],
           OnTime(people'[call[r].p].tasks, studyClock), UNCHANGED <<studyClock, overlap>>
    PROVE  OneAtATime'
<1>1. \A x \in Calls : call'[x] = IF x = r THEN NoCall ELSE call[x]
    BY DEF StudyInv, RequestsInv
<1>2. ASSUME NEW x \in Calls, call'[x].pc # "idle"
      PROVE  /\ x # r /\ call'[x] = call[x] /\ call[x].pc # "idle" /\ IsCurrent(call[x], people)
             /\ call[x].p \in DOMAIN people /\ call[x].p # call[r].p
    <2>1. x # r /\ call'[x] = call[x]
        BY <1>1, <1>2 DEF NoCall
    <2> QED BY <1>2, <2>1 DEF OneAtATime, StudyInv, RequestsInv, InFlight
<1>3. \A x \in Calls : call'[x].pc # "idle" => IsCurrent(call'[x], people')
    BY <1>2, OthersStayCurrent
<1>4. \A x, y \in Calls : call'[x].pc # "idle" /\ call'[y].pc # "idle" /\ x # y => call'[x].p # call'[y].p
    BY <1>2 DEF OneAtATime
<1>5. \A p \in DOMAIN people' : OnTime(people'[p].tasks, studyClock')
    BY DEF OneAtATime
<1> QED BY <1>3, <1>4, <1>5 DEF OneAtATime

\* Nothing that comes after an open task has been shown.
LEMMA LaterUnseen ==
    ASSUME NEW tasks, NEW i \in DOMAIN tasks, InOrder(tasks), tasks[i].submitted = None
    PROVE  \A j \in DOMAIN tasks : i < j => tasks[j].served = None
BY DEF InOrder

LEMMA ServedInTime ==
    ASSUME StudyAssumption, StudyInv, OneAtATime, NEW r \in Calls, Served(r)
    PROVE  OneAtATime'
<1> SUFFICES ASSUME ~ overlap
             PROVE  OneAtATime'
    BY DEF OneAtATime, Served
<1> DEFINE q == call[r]
           tasks == people[q.p].tasks
           t == [tasks[q.i] EXCEPT !.served = q.time]
           new == people'[q.p].tasks
<1>1. /\ q.pc = "serving" /\ q.p \in DOMAIN people /\ q.i \in DOMAIN tasks /\ q.time \in 0 .. studyClock
      /\ studyClock \in 0 .. StudyTime /\ StudyTime \in Nat
    BY DEF Served, StudyInv, RequestsInv, InFlight, StudyAssumption
<1>2. /\ IsCurrent(q, people) /\ OnTime(tasks, studyClock)
    BY <1>1 DEF OneAtATime
<1>3. tasks[q.i] \in TaskRow /\ DOMAIN tasks \in SUBSET Nat /\ InOrder(tasks)
    BY <1>1, TasksTyped
<1>4. t.served = q.time /\ t.submitted = None
    <2>1. tasks[q.i].submitted = None
        BY <1>2 DEF IsCurrent
    <2>2. PICK old \in TaskRow : old = tasks[q.i]
        BY <1>3
    <2> HIDE DEF tasks, q
    <2>3. [old EXCEPT !.served = q.time].served = q.time
          /\ [old EXCEPT !.served = q.time].submitted = old.submitted
        BY DEF TaskRow
    <2> QED BY <2>1, <2>2, <2>3
<1>5. \A j \in DOMAIN tasks : j < q.i => tasks[j].submitted <= q.time
    BY <1>1, <1>2 DEF IsCurrent
<1>6. \A j \in DOMAIN tasks : q.i < j => tasks[j].served = None
    <2>1. tasks[q.i].submitted = None
        BY <1>2 DEF IsCurrent
    <2> HIDE DEF tasks, q
    <2> QED BY <1>1, <1>3, <2>1, LaterUnseen
<1>7. /\ DOMAIN people' = DOMAIN people /\ \A p \in DOMAIN people : p # q.p => people'[p] = people[p]
      /\ PutAt(tasks, new, q.i, t)
    BY ServedWrites
<1>8. OnTime(new, studyClock)
    <2>1. q.time <= studyClock
        BY <1>1
    <2> HIDE DEF tasks, new, q, t
    <2> QED BY <1>2, <1>3, <1>4, <1>5, <1>6, <1>7, <2>1, PutOnTime
<1>9. call' = [call EXCEPT ![r] = NoCall] /\ UNCHANGED <<studyClock, overlap>> /\ q.pc # "idle"
    BY <1>1 DEF Served
<1> QED BY <1>7, <1>8, <1>9, RequestEnds

LEMMA StoredIs ==
    ASSUME NEW t \in TaskRow, NEW q, q.time.served # None
    PROVE  LET u == Stored(t, q)
           IN  /\ u.served = t.served /\ u.submitted = q.time.submitted
               /\ u.time = q.time.submitted - q.time.served
<1> DEFINE d == IF q.time.served = None THEN 0 ELSE q.time.submitted - q.time.served
           u == [t EXCEPT !.submitted = q.time.submitted, !.action = q.action, !.reply = q.reply, !.time = d]
<1>1. Stored(t, q) = u
    BY DEF Stored
<1>2. u.served = t.served /\ u.submitted = q.time.submitted /\ u.time = d
    <2> HIDE DEF d
    <2> QED BY DEF TaskRow
<1> QED BY <1>1, <1>2

LEMMA SubmittedInTime ==
    ASSUME StudyAssumption, StudyInv, OneAtATime, NEW r \in Calls, Submitted(r)
    PROVE  OneAtATime'
<1> SUFFICES ASSUME ~ overlap
             PROVE  OneAtATime'
    BY DEF OneAtATime, Submitted
<1> DEFINE q == call[r]
           tasks == people[q.p].tasks
           t == Stored(tasks[q.i], q)
           new == people'[q.p].tasks
<1>1. /\ q.pc = "submitting" /\ q.p \in DOMAIN people /\ q.i \in DOMAIN tasks
      /\ q.time.submitted \in 0 .. studyClock /\ q.time.served \in 0 .. StudyTime /\ q.time.served # None
      /\ studyClock \in 0 .. StudyTime /\ StudyTime \in Nat
    BY DEF Submitted, StudyInv, RequestsInv, InFlight, StudyAssumption
<1>2. /\ IsCurrent(q, people) /\ OnTime(tasks, studyClock)
    BY <1>1 DEF OneAtATime
<1>3. tasks[q.i] \in TaskRow /\ DOMAIN tasks \in SUBSET Nat /\ InOrder(tasks)
    BY <1>1, TasksTyped
<1>4. tasks[q.i].submitted = None /\ tasks[q.i].served = q.time.served /\ q.time.served <= q.time.submitted
    BY <1>1, <1>2 DEF IsCurrent
<1>5. t.served = q.time.served /\ t.submitted = q.time.submitted /\ t.time = q.time.submitted - q.time.served
    <2> HIDE DEF tasks, q
    <2> QED BY <1>1, <1>3, <1>4, StoredIs
<1>6. \A j \in DOMAIN tasks : q.i < j => tasks[j].served = None
    <2> HIDE DEF tasks, q
    <2> QED BY <1>1, <1>3, <1>4, LaterUnseen
<1>7. /\ DOMAIN people' = DOMAIN people /\ \A p \in DOMAIN people : p # q.p => people'[p] = people[p]
      /\ PutAt(tasks, new, q.i, t)
    BY SubmittedWrites
<1>8. OnTime(new, studyClock)
    <2> HIDE DEF tasks, new, q, t
    <2>1. t.served <= studyClock /\ t.served <= t.submitted /\ t.submitted <= studyClock /\ t.served # None
          /\ t.time = t.submitted - t.served
        BY <1>1, <1>4, <1>5
    <2>2. \A j \in DOMAIN tasks : j < q.i => tasks[j].submitted <= t.served
        BY <1>1, <1>2, <1>4, <1>5 DEF OnTime
    <2> QED BY <1>2, <1>3, <1>6, <1>7, <2>1, <2>2, PutOnTime
<1>9. call' = [call EXCEPT ![r] = NoCall] /\ UNCHANGED <<studyClock, overlap>> /\ q.pc # "idle"
    BY <1>1 DEF Submitted
<1> QED BY <1>7, <1>8, <1>9, RequestEnds

LEMMA InTimeNext ==
    ASSUME StudyAssumption, StudyInv, OneAtATime, [StudyNext]_studyVars
    PROVE  OneAtATime'
<1>1. CASE UNCHANGED studyVars
    BY <1>1, NothingMoves DEF studyVars
<1>2. ASSUME NEW n \in 1 .. MaxParticipants, StartSetup(n)
      PROVE  OneAtATime'
    BY <1>2, NothingMoves DEF StartSetup
<1>3. ASSUME NEW s \in setups, EndSetup(s)
      PROVE  OneAtATime'
    <2> SUFFICES ASSUME ~ overlap
                 PROVE  OneAtATime'
        BY <1>3 DEF OneAtATime, EndSetup
    <2>1. UNCHANGED <<call, studyClock, overlap>>
        BY <1>3 DEF EndSetup
    <2>2. /\ DOMAIN people \subseteq DOMAIN people' /\ \A p \in DOMAIN people : people'[p] = people[p]
          /\ \A p \in DOMAIN people' : p \in DOMAIN people \/ Untouched(people'[p].tasks)
        BY <1>3, SetupAdds
    <2>3. \A p \in DOMAIN people' : OnTime(people'[p].tasks, studyClock)
        BY <2>2, UntouchedIs DEF OneAtATime
    <2>4. \A r \in Calls : call[r].pc # "idle" => IsCurrent(call[r], people')
        BY <2>2, OthersStayCurrent DEF OneAtATime, StudyInv, RequestsInv, InFlight
    <2> QED BY <2>1, <2>3, <2>4 DEF OneAtATime
<1>4. ASSUME NEW t \in ThresholdSets, Activate(t)
      PROVE  OneAtATime'
    BY <1>4, NothingMoves DEF Activate
<1>5. ASSUME NEW r \in Calls, NEW p \in DOMAIN people, Fetch(r, p)
      PROVE  OneAtATime'
    BY <1>5, FetchInTime
<1>6. ASSUME NEW r \in Calls, NEW p \in DOMAIN people, NEW i, NEW action, NEW reply \in BOOLEAN,
             Submit(r, p, i, action, reply)
      PROVE  OneAtATime'
    BY <1>6, SubmitInTime
<1>7. ASSUME NEW r \in Calls, Served(r)
      PROVE  OneAtATime'
    BY <1>7, ServedInTime
<1>8. ASSUME NEW r \in Calls, Submitted(r)
      PROVE  OneAtATime'
    BY <1>8, SubmittedInTime
<1>9. ASSUME NEW r \in Calls, CallLost(r)
      PROVE  OneAtATime'
    <2> SUFFICES ASSUME ~ overlap
                 PROVE  OneAtATime'
        BY <1>9 DEF OneAtATime, CallLost
    <2>1. /\ call[r].pc # "idle" /\ call' = [call EXCEPT ![r] = NoCall] /\ UNCHANGED <<people, studyClock, overlap>>
        BY <1>9 DEF CallLost
    <2>2. call[r].p \in DOMAIN people
        BY <2>1 DEF StudyInv, RequestsInv, InFlight
    <2>3. OnTime(people'[call[r].p].tasks, studyClock)
        BY <2>1, <2>2 DEF OneAtATime
    <2> QED BY <2>1, <2>3, RequestEnds
<1>10. CASE StudyTick
    <2> SUFFICES ASSUME ~ overlap
                 PROVE  OneAtATime'
        BY <1>10 DEF OneAtATime, StudyTick
    <2>1. UNCHANGED <<people, call, overlap>> /\ studyClock' = studyClock + 1 /\ studyClock \in Nat /\ studyClock' \in Nat /\ studyClock <= studyClock'
        BY <1>10 DEF StudyTick, StudyInv
    <2>2. \A p \in DOMAIN people : people[p].tasks \in Seq(TaskRow)
        BY DEF StudyInv, PeopleInv, PeopleOK, Planned
    <2>3. \A p \in DOMAIN people : OnTime(people[p].tasks, studyClock')
        BY <2>1, <2>2, LaterIsOnTime DEF OneAtATime
    <2> QED BY <2>1, <2>3 DEF OneAtATime
<1> QED BY <1>1, <1>2, <1>3, <1>4, <1>5, <1>6, <1>7, <1>8, <1>9, <1>10 DEF StudyNext

----------------------------------------------------------------------------
(* Any number of requests at a time *)

\* Times of a participant: in the order of the tasks, as shown, as answered and as counted.
Timely(tasks, now) ==
    /\ \A i \in DOMAIN tasks :
          /\ tasks[i].served # None => tasks[i].served \in Nat /\ tasks[i].served <= now
          /\ tasks[i].submitted # None =>
                /\ tasks[i].submitted \in Nat /\ tasks[i].time \in Int /\ tasks[i].time >= 0
                /\ tasks[i].served # None /\ tasks[i].served <= tasks[i].submitted
                /\ tasks[i].submitted <= now
    /\ \A i, j \in DOMAIN tasks : i < j =>
          /\ tasks[j].served # None => tasks[i].submitted # None /\ tasks[i].submitted <= tasks[j].served
          /\ tasks[j].submitted # None => tasks[i].submitted <= tasks[j].submitted - tasks[j].time

\* What a request writes keeps them so.
MayServe(q, tasks) ==
    /\ \A j \in DOMAIN tasks : j < q.i => tasks[j].submitted # None /\ tasks[j].submitted <= q.time
    /\ tasks[q.i].submitted # None => q.time <= tasks[q.i].submitted

MayStore(q, tasks) ==
    /\ tasks[q.i].served # None /\ tasks[q.i].served <= q.time.submitted /\ q.time.served <= q.time.submitted
    /\ \A j \in DOMAIN tasks : j < q.i => tasks[j].submitted # None /\ tasks[j].submitted <= q.time.served
    /\ \A k \in DOMAIN tasks : q.i < k =>
          /\ tasks[k].served # None => q.time.submitted <= tasks[k].served
          /\ tasks[k].submitted # None => q.time.submitted <= tasks[k].submitted - tasks[k].time

MayWrite(q, tasks) ==
    /\ q.pc = "serving" => MayServe(q, tasks)
    /\ q.pc = "submitting" => MayStore(q, tasks)

\* Two requests of one participant, whichever commits first.
Agree(q, s) ==
    /\ q.pc = "serving" /\ s.pc = "submitting" /\ s.i < q.i => s.time.submitted <= q.time
    /\ q.pc = "serving" /\ s.pc = "submitting" /\ s.i = q.i => q.time <= s.time.submitted
    /\ q.pc = "submitting" /\ s.pc = "submitting" /\ q.i < s.i => q.time.submitted <= s.time.served

InTurn ==
    /\ \A p \in DOMAIN people : Timely(people[p].tasks, studyClock)
    /\ \A r \in Calls : call[r].pc # "idle" => MayWrite(call[r], people[call[r].p].tasks)
    /\ \A r, s \in Calls :
          call[r].pc # "idle" /\ call[s].pc # "idle" /\ call[r].p = call[s].p => Agree(call[r], call[s])

\* The times a request in flight holds are numbers.
LEMMA TimesHeld ==
    ASSUME StudyAssumption, StudyInv, NEW r \in Calls, call[r].pc # "idle"
    PROVE  /\ call[r].p \in DOMAIN people /\ call[r].i \in DOMAIN people[call[r].p].tasks
           /\ DOMAIN people[call[r].p].tasks \in SUBSET Nat /\ studyClock \in Nat /\ None \notin 0 .. studyClock
           /\ call[r].pc = "serving" => call[r].time \in 0 .. studyClock
           /\ call[r].pc = "submitting" => call[r].time.submitted \in 0 .. studyClock /\ call[r].time.served \in Nat
                                           /\ call[r].time.served # None
<1>1. InFlight(call[r], people, studyClock) /\ studyClock \in 0 .. StudyTime /\ StudyTime \in Nat
    BY DEF StudyInv, RequestsInv, StudyAssumption
<1>2. call[r].p \in DOMAIN people /\ call[r].i \in DOMAIN people[call[r].p].tasks
    BY <1>1 DEF InFlight
<1>3. DOMAIN people[call[r].p].tasks \in SUBSET Nat
    BY <1>2, TasksTyped
<1> QED BY <1>1, <1>2, <1>3 DEF InFlight, StudyAssumption

LEMMA UntouchedTimely ==
    ASSUME NEW tasks, Untouched(tasks), NEW now
    PROVE  Timely(tasks, now)
BY DEF Untouched, Timely

LEMMA LaterTimely ==
    ASSUME NEW tasks, NEW now \in Nat, NEW later \in Nat, now <= later, Timely(tasks, now)
    PROVE  Timely(tasks, later)
BY DEF Timely

\* A task shown, again or for the first time.
LEMMA ServedTimely ==
    ASSUME NEW tasks, DOMAIN tasks \in SUBSET Nat, NEW new, NEW i, NEW t, PutAt(tasks, new, i, t),
           NEW now \in Nat, None \notin 0 .. now, Timely(tasks, now), NEW q, q.i = i, q.time \in 0 .. now,
           MayServe(q, tasks), t.served = q.time, t.submitted = tasks[i].submitted, t.time = tasks[i].time
    PROVE  Timely(new, now)
<1>1. /\ DOMAIN new = DOMAIN tasks /\ i \in DOMAIN tasks
      /\ \A j \in DOMAIN tasks : new[j].submitted = tasks[j].submitted /\ new[j].time = tasks[j].time
      /\ \A j \in DOMAIN tasks : new[j].served = IF j = i THEN q.time ELSE tasks[j].served
    BY DEF PutAt
<1>2. q.time \in Nat /\ q.time <= now /\ q.time # None
    OBVIOUS
<1>3. ASSUME NEW j \in DOMAIN new
      PROVE  /\ new[j].served # None => new[j].served \in Nat /\ new[j].served <= now
             /\ new[j].submitted # None =>
                   /\ new[j].submitted \in Nat /\ new[j].time \in Int /\ new[j].time >= 0
                   /\ new[j].served # None /\ new[j].served <= new[j].submitted
                   /\ new[j].submitted <= now
    BY <1>1, <1>2 DEF Timely, MayServe
<1>4. ASSUME NEW j \in DOMAIN new, NEW k \in DOMAIN new, j < k
      PROVE  /\ new[k].served # None => new[j].submitted # None /\ new[j].submitted <= new[k].served
             /\ new[k].submitted # None => new[j].submitted <= new[k].submitted - new[k].time
    BY <1>1, <1>2, <1>4 DEF Timely, MayServe
<1> QED BY <1>3, <1>4 DEF Timely

LEMMA ServedAgrees ==
    ASSUME NEW tasks, DOMAIN tasks \in SUBSET Nat, NEW new, NEW i, NEW t, PutAt(tasks, new, i, t),
           NEW q, q.i = i, q.pc = "serving", q.time # None, NEW s, s.i \in DOMAIN tasks, MayWrite(s, tasks), Agree(q, s),
           t.served = q.time, t.submitted = tasks[i].submitted, t.time = tasks[i].time
    PROVE  MayWrite(s, new)
<1>1. /\ DOMAIN new = DOMAIN tasks /\ i \in DOMAIN tasks
      /\ \A j \in DOMAIN tasks : new[j].submitted = tasks[j].submitted /\ new[j].time = tasks[j].time
      /\ \A j \in DOMAIN tasks : new[j].served = IF j = i THEN q.time ELSE tasks[j].served
    BY DEF PutAt
<1>2. s.pc = "serving" => MayServe(s, new)
    BY <1>1 DEF MayWrite, MayServe
<1>3. s.pc = "submitting" => MayStore(s, new)
    BY <1>1 DEF MayWrite, MayStore, Agree
<1> QED BY <1>2, <1>3 DEF MayWrite

\* An answer stored, again or for the first time.
LEMMA SubmittedTimely ==
    ASSUME NEW tasks, DOMAIN tasks \in SUBSET Nat, NEW new, NEW i, NEW t, PutAt(tasks, new, i, t),
           NEW now \in Nat, None \notin 0 .. now, Timely(tasks, now), NEW q, q.i = i, q.time.submitted \in 0 .. now,
           q.time.served \in Nat, MayStore(q, tasks), t.served = tasks[i].served,
           t.submitted = q.time.submitted, t.time = q.time.submitted - q.time.served
    PROVE  Timely(new, now)
<1> DEFINE a == q.time.served
           b == q.time.submitted
<1>1. /\ DOMAIN new = DOMAIN tasks /\ i \in DOMAIN tasks
      /\ \A j \in DOMAIN tasks : new[j].served = tasks[j].served
      /\ \A j \in DOMAIN tasks : j # i => new[j].submitted = tasks[j].submitted /\ new[j].time = tasks[j].time
      /\ new[i].submitted = b /\ new[i].time = b - a
    BY DEF PutAt
<1>2. /\ b \in Nat /\ b <= now /\ b # None /\ a \in Nat /\ a <= b
      /\ tasks[i].served # None /\ tasks[i].served <= b
      /\ \A j \in DOMAIN tasks : j < i => tasks[j].submitted # None /\ tasks[j].submitted <= a
      /\ \A k \in DOMAIN tasks : i < k =>
            /\ tasks[k].served # None => b <= tasks[k].served
            /\ tasks[k].submitted # None => b <= tasks[k].submitted - tasks[k].time
    BY DEF MayStore
<1> HIDE DEF a, b
<1>3. ASSUME NEW j \in DOMAIN new
      PROVE  /\ new[j].served # None => new[j].served \in Nat /\ new[j].served <= now
             /\ new[j].submitted # None =>
                   /\ new[j].submitted \in Nat /\ new[j].time \in Int /\ new[j].time >= 0
                   /\ new[j].served # None /\ new[j].served <= new[j].submitted
                   /\ new[j].submitted <= now
    BY <1>1, <1>2 DEF Timely
<1>4. ASSUME NEW j \in DOMAIN new, NEW k \in DOMAIN new, j < k
      PROVE  /\ new[k].served # None => new[j].submitted # None /\ new[j].submitted <= new[k].served
             /\ new[k].submitted # None => new[j].submitted <= new[k].submitted - new[k].time
    <2>1. CASE j # i /\ k # i
        BY <1>1, <1>4, <2>1 DEF Timely
    <2>2. CASE j = i
        <3>1. k # i
            BY <1>1, <1>4, <2>2
        <3> QED BY <1>1, <1>2, <1>4, <2>2, <3>1
    <2>3. CASE k = i
        <3>1. j # i /\ new[j].submitted = tasks[j].submitted /\ tasks[j].submitted # None /\ tasks[j].submitted <= a
            BY <1>1, <1>2, <1>4, <2>3
        <3>2. tasks[j].submitted \in Nat /\ b - (b - a) = a
            BY <1>1, <1>2, <3>1 DEF Timely
        <3>3. tasks[i].served # None => tasks[j].submitted <= tasks[i].served
            BY <1>1, <1>4, <2>3 DEF Timely
        <3> QED BY <1>1, <2>3, <3>1, <3>2, <3>3
    <2> QED BY <2>1, <2>2, <2>3
<1> QED BY <1>3, <1>4 DEF Timely

LEMMA SubmittedAgrees ==
    ASSUME NEW tasks, DOMAIN tasks \in SUBSET Nat, NEW new, NEW i, NEW t, PutAt(tasks, new, i, t),
           NEW q, q.i = i, q.pc = "submitting", q.time.submitted \in Nat, q.time.submitted # None, q.time.served \in Nat,
           NEW s, s.i \in DOMAIN tasks, MayWrite(s, tasks), Agree(q, s), Agree(s, q),
           t.served = tasks[i].served, t.submitted = q.time.submitted, t.time = q.time.submitted - q.time.served
    PROVE  MayWrite(s, new)
<1> DEFINE a == q.time.served
           b == q.time.submitted
<1>1. /\ DOMAIN new = DOMAIN tasks /\ i \in DOMAIN tasks
      /\ \A j \in DOMAIN tasks : new[j].served = tasks[j].served
      /\ \A j \in DOMAIN tasks : j # i => new[j].submitted = tasks[j].submitted /\ new[j].time = tasks[j].time
      /\ new[i].submitted = b /\ new[i].submitted - new[i].time = a /\ b # None
    BY DEF PutAt
<1>2. /\ s.pc = "serving" /\ i < s.i => b <= s.time
      /\ s.pc = "serving" /\ i = s.i => s.time <= b
      /\ s.pc = "submitting" /\ i < s.i => b <= s.time.served
      /\ s.pc = "submitting" /\ s.i < i => s.time.submitted <= a
    BY DEF Agree
<1> HIDE DEF a, b
<1>3. s.pc = "serving" => MayServe(s, new)
    BY <1>1, <1>2 DEF MayWrite, MayServe
<1>4. s.pc = "submitting" => MayStore(s, new)
    BY <1>1, <1>2 DEF MayWrite, MayStore
<1> QED BY <1>3, <1>4 DEF MayWrite

\* A request that starts agrees with the tasks and with every other of its participant.
LEMMA StartsInTurn ==
    ASSUME StudyInv, InTurn, NEW r \in Calls, NEW q, call' = [call EXCEPT ![r] = q], q.pc # "idle",
           MayWrite(q, people[q.p].tasks), Agree(q, q),
           \A s \in Calls : call[s].pc # "idle" /\ call[s].p = q.p => Agree(q, call[s]) /\ Agree(call[s], q),
           UNCHANGED <<people, studyClock>>
    PROVE  InTurn'
<1>1. \A x \in Calls : call'[x] = IF x = r THEN q ELSE call[x]
    BY DEF StudyInv, RequestsInv
<1>2. \A p \in DOMAIN people' : Timely(people'[p].tasks, studyClock')
    BY DEF InTurn
<1>3. \A x \in Calls : call'[x].pc # "idle" => MayWrite(call'[x], people'[call'[x].p].tasks)
    BY <1>1 DEF InTurn
<1>4. \A x, y \in Calls : call'[x].pc # "idle" /\ call'[y].pc # "idle" /\ call'[x].p = call'[y].p
                           => Agree(call'[x], call'[y])
    BY <1>1 DEF InTurn
<1> QED BY <1>2, <1>3, <1>4 DEF InTurn

\* A request that ends leaves the others agreeing.
LEMMA EndsInTurn ==
    ASSUME StudyInv, InTurn, NEW r \in Calls, call' = [call EXCEPT ![r] = NoCall], UNCHANGED studyClock,
           DOMAIN people' = DOMAIN people,
           \A p \in DOMAIN people : Timely(people'[p].tasks, studyClock),
           \A s \in Calls : s # r /\ call[s].pc # "idle" => MayWrite(call[s], people'[call[s].p].tasks)
    PROVE  InTurn'
<1>1. \A x \in Calls : call'[x] = IF x = r THEN NoCall ELSE call[x]
    BY DEF StudyInv, RequestsInv
<1>2. NoCall.pc = "idle"
    BY DEF NoCall
<1>3. \A x \in Calls : call'[x].pc # "idle" => MayWrite(call'[x], people'[call'[x].p].tasks)
    BY <1>1, <1>2
<1>4. \A x, y \in Calls : call'[x].pc # "idle" /\ call'[y].pc # "idle" /\ call'[x].p = call'[y].p
                           => Agree(call'[x], call'[y])
    BY <1>1, <1>2 DEF InTurn
<1>5. \A p \in DOMAIN people' : Timely(people'[p].tasks, studyClock')
    OBVIOUS
<1> QED BY <1>3, <1>4, <1>5 DEF InTurn

LEMMA FetchInTurn ==
    ASSUME StudyAssumption, StudyInv, InTurn, NEW r \in Calls, NEW p \in DOMAIN people, Fetch(r, p)
    PROVE  InTurn'
<1> DEFINE tasks == people[p].tasks
           q == call'[r]
<1>1. /\ q.i \in DOMAIN tasks /\ tasks[q.i].submitted = None /\ tasks[q.i].served = None
      /\ \A j \in DOMAIN tasks : j < q.i => tasks[j].submitted # None
      /\ q.pc = "serving" /\ q.p = p /\ q.time = studyClock
      /\ call' = [call EXCEPT ![r] = q]
    BY FetchMayShow
<1>2. UNCHANGED <<people, studyClock>> /\ Timely(tasks, studyClock)
    BY DEF Fetch, InTurn
<1> HIDE DEF q
<1>3. MayWrite(q, people[q.p].tasks)
    BY <1>1, <1>2 DEF MayWrite, MayServe, Timely
<1>4. Agree(q, q)
    BY <1>1 DEF Agree
<1>5. ASSUME NEW s \in Calls, call[s].pc # "idle", call[s].p = q.p
      PROVE  Agree(q, call[s]) /\ Agree(call[s], q)
    <2>1. call[s].pc = "submitting" => call[s].time.submitted <= studyClock
        BY <1>5, TimesHeld
    <2>2. call[s].pc = "submitting" => MayStore(call[s], tasks)
        BY <1>1, <1>5 DEF InTurn, MayWrite
    <2>3. call[s].pc = "submitting" => call[s].i # q.i
        BY <1>1, <2>2 DEF MayStore
    <2> QED BY <1>1, <2>1, <2>3 DEF Agree
<1> QED BY <1>1, <1>2, <1>3, <1>4, <1>5, StartsInTurn

LEMMA SubmitInTurn ==
    ASSUME StudyAssumption, StudyInv, InTurn, NEW r \in Calls, NEW p \in DOMAIN people, NEW i, NEW action,
           NEW reply \in BOOLEAN, Submit(r, p, i, action, reply)
    PROVE  InTurn'
<1> DEFINE tasks == people[p].tasks
           q == call'[r]
<1>1. /\ i \in DOMAIN tasks /\ tasks[i].submitted = None /\ tasks[i].served \in 0 .. StudyTime
      /\ q.pc = "submitting" /\ q.p = p /\ q.i = i
      /\ q.time.submitted = studyClock /\ q.time.served = tasks[i].served
      /\ call' = [call EXCEPT ![r] = q]
    BY SubmitHolds
<1>2. UNCHANGED <<people, studyClock>> /\ Timely(tasks, studyClock)
    BY DEF Submit, InTurn
<1>3. InOrder(tasks) /\ DOMAIN tasks \in SUBSET Nat /\ tasks[i].served # None /\ tasks[i].served <= studyClock
    BY <1>1, <1>2, TasksTyped DEF Timely, StudyAssumption
<1>4. \A k \in DOMAIN tasks : i < k => tasks[k].served = None /\ tasks[k].submitted = None
    BY <1>1, <1>2, <1>3, LaterUnseen DEF Timely
<1> HIDE DEF q, tasks
<1>5. MayWrite(q, tasks)
    BY <1>1, <1>2, <1>3, <1>4 DEF MayWrite, MayStore, Timely
<1>6. Agree(q, q)
    BY <1>1, <1>3 DEF Agree
<1>7. ASSUME NEW s \in Calls, call[s].pc # "idle", call[s].p = q.p
      PROVE  Agree(q, call[s]) /\ Agree(call[s], q)
    <2>1. MayWrite(call[s], tasks) /\ call[s].i \in DOMAIN tasks /\ call[s].i \in Nat /\ i \in Nat
        BY <1>1, <1>3, <1>7, TimesHeld DEF InTurn, tasks
    <2>2. call[s].pc = "serving" => call[s].time <= studyClock /\ ~ (i < call[s].i)
        BY <1>1, <1>7, <2>1, TimesHeld DEF MayWrite, MayServe
    <2>3. call[s].pc = "submitting" => ~ (i < call[s].i)
        BY <1>4, <2>1 DEF MayWrite, MayStore
    <2>4. call[s].pc = "submitting" /\ call[s].i < i => call[s].time.submitted <= tasks[i].served
        BY <1>1, <1>3, <2>1 DEF MayWrite, MayStore
    <2> QED BY <1>1, <2>1, <2>2, <2>3, <2>4 DEF Agree
<1>8. MayWrite(q, people[q.p].tasks)
    BY <1>1, <1>5 DEF tasks
<1> QED BY <1>1, <1>2, <1>6, <1>7, <1>8, StartsInTurn

LEMMA ServedInTurn ==
    ASSUME StudyAssumption, StudyInv, InTurn, NEW r \in Calls, Served(r)
    PROVE  InTurn'
<1> DEFINE q == call[r]
           tasks == people[q.p].tasks
           t == [tasks[q.i] EXCEPT !.served = q.time]
           new == people'[q.p].tasks
<1>1. /\ q.pc = "serving" /\ call' = [call EXCEPT ![r] = NoCall] /\ UNCHANGED studyClock
    BY DEF Served
<1>2. /\ q.p \in DOMAIN people /\ q.i \in DOMAIN tasks /\ q.time \in 0 .. studyClock
      /\ DOMAIN tasks \in SUBSET Nat /\ studyClock \in Nat /\ None \notin 0 .. studyClock
    BY <1>1, TimesHeld
<1>3. tasks[q.i] \in TaskRow
    BY <1>2, TasksTyped
<1>4. t.served = q.time /\ t.submitted = tasks[q.i].submitted /\ t.time = tasks[q.i].time
    <2>1. PICK old \in TaskRow : old = tasks[q.i]
        BY <1>3
    <2> HIDE DEF tasks, q
    <2>2. LET u == [old EXCEPT !.served = q.time]
          IN  u.served = q.time /\ u.submitted = old.submitted /\ u.time = old.time
        BY DEF TaskRow
    <2> QED BY <2>1, <2>2
<1>5. /\ DOMAIN people' = DOMAIN people /\ \A p \in DOMAIN people : p # q.p => people'[p] = people[p]
      /\ PutAt(tasks, new, q.i, t)
    BY ServedWrites
<1>6. MayServe(q, tasks) /\ Timely(tasks, studyClock)
    BY <1>1, <1>2 DEF InTurn, MayWrite
<1>7. ASSUME NEW s \in Calls, s # r, call[s].pc # "idle"
      PROVE  MayWrite(call[s], people'[call[s].p].tasks)
    <2>1. call[s].p \in DOMAIN people /\ call[s].i \in DOMAIN people[call[s].p].tasks
          /\ MayWrite(call[s], people[call[s].p].tasks)
        BY <1>7, TimesHeld DEF InTurn
    <2>2. CASE call[s].p # q.p
        BY <1>5, <2>1, <2>2
    <2>3. CASE call[s].p = q.p
        <3>1. Agree(q, call[s]) /\ MayWrite(call[s], tasks) /\ call[s].i \in DOMAIN tasks
            BY <1>1, <1>7, <2>1, <2>3 DEF InTurn
        <3>2. q.time # None
            BY <1>2
        <3>3. MayWrite(call[s], new)
            <4> HIDE DEF tasks, new, t, q
            <4> QED BY <1>1, <1>2, <1>4, <1>5, <3>1, <3>2, ServedAgrees
        <3> QED BY <2>3, <3>3
    <2> QED BY <2>2, <2>3
<1>8. Timely(new, studyClock)
    <2> HIDE DEF tasks, new, t, q
    <2> QED BY <1>2, <1>4, <1>5, <1>6, ServedTimely
<1>9. \A p \in DOMAIN people : Timely(people'[p].tasks, studyClock)
    BY <1>5, <1>8 DEF InTurn
<1> QED BY <1>1, <1>5, <1>7, <1>9, EndsInTurn

LEMMA SubmittedInTurn ==
    ASSUME StudyAssumption, StudyInv, InTurn, NEW r \in Calls, Submitted(r)
    PROVE  InTurn'
<1> DEFINE q == call[r]
           tasks == people[q.p].tasks
           t == Stored(tasks[q.i], q)
           new == people'[q.p].tasks
<1>1. /\ q.pc = "submitting" /\ call' = [call EXCEPT ![r] = NoCall] /\ UNCHANGED studyClock
    BY DEF Submitted
<1>2. /\ q.p \in DOMAIN people /\ q.i \in DOMAIN tasks /\ q.time.submitted \in 0 .. studyClock
      /\ q.time.served \in Nat /\ q.time.served # None
      /\ DOMAIN tasks \in SUBSET Nat /\ studyClock \in Nat /\ None \notin 0 .. studyClock
    BY <1>1, TimesHeld
<1>3. tasks[q.i] \in TaskRow
    BY <1>2, TasksTyped
<1>4. t.served = tasks[q.i].served /\ t.submitted = q.time.submitted /\ t.time = q.time.submitted - q.time.served
    <2> HIDE DEF tasks, q
    <2> QED BY <1>2, <1>3, StoredIs
<1>5. /\ DOMAIN people' = DOMAIN people /\ \A p \in DOMAIN people : p # q.p => people'[p] = people[p]
      /\ PutAt(tasks, new, q.i, t)
    BY SubmittedWrites
<1>6. MayStore(q, tasks) /\ Timely(tasks, studyClock)
    BY <1>1, <1>2 DEF InTurn, MayWrite
<1>7. ASSUME NEW s \in Calls, s # r, call[s].pc # "idle"
      PROVE  MayWrite(call[s], people'[call[s].p].tasks)
    <2>1. call[s].p \in DOMAIN people /\ call[s].i \in DOMAIN people[call[s].p].tasks
          /\ MayWrite(call[s], people[call[s].p].tasks)
        BY <1>7, TimesHeld DEF InTurn
    <2>2. CASE call[s].p # q.p
        BY <1>5, <2>1, <2>2
    <2>3. CASE call[s].p = q.p
        <3>1. Agree(q, call[s]) /\ Agree(call[s], q) /\ MayWrite(call[s], tasks) /\ call[s].i \in DOMAIN tasks
            BY <1>1, <1>7, <2>1, <2>3 DEF InTurn
        <3>2. q.time.submitted \in Nat /\ q.time.submitted # None
            BY <1>2
        <3>3. MayWrite(call[s], new)
            <4> HIDE DEF tasks, new, t, q
            <4> QED BY <1>1, <1>2, <1>4, <1>5, <3>1, <3>2, SubmittedAgrees
        <3> QED BY <2>3, <3>3
    <2> QED BY <2>2, <2>3
<1>8. Timely(new, studyClock)
    <2> HIDE DEF tasks, new, t, q
    <2> QED BY <1>2, <1>4, <1>5, <1>6, SubmittedTimely
<1>9. \A p \in DOMAIN people : Timely(people'[p].tasks, studyClock)
    BY <1>5, <1>8 DEF InTurn
<1> QED BY <1>1, <1>5, <1>7, <1>9, EndsInTurn

LEMMA InTurnNext ==
    ASSUME StudyAssumption, StudyInv, InTurn, [StudyNext]_studyVars
    PROVE  InTurn'
<1>1. CASE UNCHANGED studyVars
    BY <1>1 DEF studyVars, InTurn
<1>2. ASSUME NEW n \in 1 .. MaxParticipants, StartSetup(n)
      PROVE  InTurn'
    BY <1>2 DEF StartSetup, InTurn
<1>3. ASSUME NEW s \in setups, EndSetup(s)
      PROVE  InTurn'
    <2>1. UNCHANGED <<call, studyClock>>
        BY <1>3 DEF EndSetup
    <2>2. /\ DOMAIN people \subseteq DOMAIN people' /\ \A p \in DOMAIN people : people'[p] = people[p]
          /\ \A p \in DOMAIN people' : p \in DOMAIN people \/ Untouched(people'[p].tasks)
        BY <1>3, SetupAdds
    <2>3. \A p \in DOMAIN people' : Timely(people'[p].tasks, studyClock)
        BY <2>2, UntouchedTimely DEF InTurn
    <2>4. \A r \in Calls : call[r].pc # "idle" => MayWrite(call[r], people'[call[r].p].tasks)
        BY <2>2, TimesHeld DEF InTurn
    <2> QED BY <2>1, <2>3, <2>4 DEF InTurn
<1>4. ASSUME NEW t \in ThresholdSets, Activate(t)
      PROVE  InTurn'
    BY <1>4 DEF Activate, InTurn
<1>5. ASSUME NEW r \in Calls, NEW p \in DOMAIN people, Fetch(r, p)
      PROVE  InTurn'
    BY <1>5, FetchInTurn
<1>6. ASSUME NEW r \in Calls, NEW p \in DOMAIN people, NEW i, NEW action, NEW reply \in BOOLEAN,
             Submit(r, p, i, action, reply)
      PROVE  InTurn'
    BY <1>6, SubmitInTurn
<1>7. ASSUME NEW r \in Calls, Served(r)
      PROVE  InTurn'
    BY <1>7, ServedInTurn
<1>8. ASSUME NEW r \in Calls, Submitted(r)
      PROVE  InTurn'
    BY <1>8, SubmittedInTurn
<1>9. ASSUME NEW r \in Calls, CallLost(r)
      PROVE  InTurn'
    <2>1. call' = [call EXCEPT ![r] = NoCall] /\ UNCHANGED <<people, studyClock>>
        BY <1>9 DEF CallLost
    <2>2. /\ \A p \in DOMAIN people : Timely(people'[p].tasks, studyClock)
          /\ \A s \in Calls : call[s].pc # "idle" => MayWrite(call[s], people'[call[s].p].tasks)
        BY <2>1 DEF InTurn
    <2> QED BY <2>1, <2>2, EndsInTurn
<1>10. CASE StudyTick
    <2>1. UNCHANGED <<people, call>> /\ studyClock \in Nat /\ studyClock' \in Nat /\ studyClock <= studyClock'
        BY <1>10 DEF StudyTick, StudyInv
    <2>2. \A p \in DOMAIN people : Timely(people[p].tasks, studyClock')
        BY <2>1, LaterTimely DEF InTurn
    <2> QED BY <2>1, <2>2 DEF InTurn
<1> QED BY <1>1, <1>2, <1>3, <1>4, <1>5, <1>6, <1>7, <1>8, <1>9, <1>10 DEF StudyNext

----------------------------------------------------------------------------
(* The properties of the study *)

\* Participants in either order: every second one.
Evens(n) == {p \in 1 .. n : (p - 1) % 2 = 0}

Odds(n) == {p \in 1 .. n : (p - 1) % 2 # 0}

LEMMA HalvesAreFinite ==
    ASSUME NEW n \in Int
    PROVE  /\ IsFiniteSet(Evens(n)) /\ IsFiniteSet(Odds(n))
           /\ Cardinality(Evens(n)) \in Nat /\ Cardinality(Odds(n)) \in Nat
<1>1. IsFiniteSet(1 .. n)
    BY FS_Interval
<1>2. IsFiniteSet(Evens(n)) /\ IsFiniteSet(Odds(n))
    BY <1>1, FS_Subset DEF Evens, Odds
<1> QED BY <1>2, FS_CardinalityType

LEMMA OneTurnMore ==
    ASSUME NEW k \in Nat, k # 0
    PROVE  LET more == Cardinality(Evens(k)) - Cardinality(Odds(k))
               less == Cardinality(Evens(k - 1)) - Cardinality(Odds(k - 1))
           IN  more = IF (k - 1) % 2 = 0 THEN less + 1 ELSE less - 1
<1>1. k - 1 \in Int /\ k \notin Evens(k - 1) /\ k \notin Odds(k - 1)
    BY DEF Evens, Odds
<1>2. /\ IsFiniteSet(Evens(k - 1)) /\ IsFiniteSet(Odds(k - 1))
      /\ Cardinality(Evens(k - 1)) \in Nat /\ Cardinality(Odds(k - 1)) \in Nat
    BY <1>1, HalvesAreFinite
<1>3. CASE (k - 1) % 2 = 0
    <2>1. Evens(k) = Evens(k - 1) \cup {k} /\ Odds(k) = Odds(k - 1)
        BY <1>3 DEF Evens, Odds
    <2>2. Cardinality(Evens(k - 1) \cup {k}) = Cardinality(Evens(k - 1)) + 1
        BY <1>1, <1>2, FS_AddElement
    <2> QED BY <1>2, <1>3, <2>1, <2>2
<1>4. CASE (k - 1) % 2 # 0
    <2>1. Odds(k) = Odds(k - 1) \cup {k} /\ Evens(k) = Evens(k - 1)
        BY <1>4 DEF Evens, Odds
    <2>2. Cardinality(Odds(k - 1) \cup {k}) = Cardinality(Odds(k - 1)) + 1
        BY <1>1, <1>2, FS_AddElement
    <2> QED BY <1>2, <1>4, <2>1, <2>2
<1> QED BY <1>3, <1>4

LEMMA HalfAndHalf ==
    ASSUME NEW n \in Nat
    PROVE  Cardinality(Evens(n)) - Cardinality(Odds(n)) \in 0 .. 1
<1> DEFINE Lead(k) == Cardinality(Evens(k)) - Cardinality(Odds(k))
           S == {k \in 0 .. n : Lead(k) = k % 2}
<1>1. 0 \in S
    <2>1. Evens(0) = {} /\ Odds(0) = {}
        BY DEF Evens, Odds
    <2>2. Cardinality(Evens(0)) = 0 /\ Cardinality(Odds(0)) = 0
        BY <2>1, FS_EmptySet
    <2> QED BY <2>2
<1>2. ASSUME NEW k \in 1 .. n, k - 1 \in S
      PROVE  k \in S
    <2>1. Lead(k - 1) = (k - 1) % 2 /\ k \in Nat /\ k # 0
        BY <1>2
    <2>2. Lead(k) = IF (k - 1) % 2 = 0 THEN Lead(k - 1) + 1 ELSE Lead(k - 1) - 1
        BY <2>1, OneTurnMore
    <2> HIDE DEF Lead
    <2>3. Lead(k) = k % 2
        BY <2>1, <2>2
    <2> QED BY <1>2, <2>3
<1>3. n \in S
    <2> HIDE DEF S
    <2> QED BY <1>1, <1>2, CountingOn
<1> HIDE DEF Lead
<1>4. Lead(n) \in 0 .. 1
    BY <1>3
<1> QED BY <1>4 DEF Lead

\* The set a ticket is in, and the order of the participant, decide where it is met.
LEMMA WhereMet ==
    ASSUME StudyAssumption, StudyInv, sets # None, NEW t \in StudyTickets, NEW c \in Conditions
    PROVE  Met(t.id, c) = {p \in DOMAIN people :
                              \/ t.id \in ToSet(sets.a) /\ c = FirstCondition(OrderFor(p - 1))
                              \/ t.id \in ToSet(sets.b) /\ c = SecondCondition(OrderFor(p - 1))}
<1>1. SetSize \in Nat
    BY SlotsAre
<1>2. ASSUME NEW p \in DOMAIN people
      PROVE  p \in Met(t.id, c) <=> \/ t.id \in ToSet(sets.a) /\ c = FirstCondition(OrderFor(p - 1))
                                    \/ t.id \in ToSet(sets.b) /\ c = SecondCondition(OrderFor(p - 1))
    <2> DEFINE tasks == people[p].tasks
               order == OrderFor(p - 1)
    <2>1. Planned(tasks, order, sets.a, sets.b)
        BY DEF StudyInv, PeopleInv, PeopleOK
    <2>2. DOMAIN tasks = 1 .. 2 * SetSize
        BY <1>1, <2>1 DEF Planned
    <2>3. \A i \in 1 .. 2 * SetSize : i \in 1 .. SetSize \/ (i - SetSize \in 1 .. SetSize /\ i = SetSize + (i - SetSize))
        BY <1>1
    <2>4. \A i \in 1 .. SetSize : i \in 1 .. 2 * SetSize /\ SetSize + i \in 1 .. 2 * SetSize
        BY <1>1
    <2>5. p \in Met(t.id, c) <=> \E i \in 1 .. 2 * SetSize : tasks[i].ticket = t.id /\ tasks[i].condition = c
        BY <2>2 DEF Met
    <2> HIDE DEF tasks, order
    <2>6. ASSUME NEW i \in 1 .. 2 * SetSize, tasks[i].ticket = t.id, tasks[i].condition = c
          PROVE  \/ t.id \in ToSet(sets.a) /\ c = FirstCondition(order)
                 \/ t.id \in ToSet(sets.b) /\ c = SecondCondition(order)
        <3>1. CASE i \in 1 .. SetSize
            BY <2>1, <2>6, <3>1 DEF Planned
        <3>2. ASSUME NEW j \in 1 .. SetSize, i = SetSize + j
              PROVE  t.id \in ToSet(sets.b) /\ c = SecondCondition(order)
            BY <2>1, <2>6, <3>2 DEF Planned
        <3> QED BY <2>3, <3>1, <3>2
    <2>7. ASSUME t.id \in ToSet(sets.a), c = FirstCondition(order)
          PROVE  \E i \in 1 .. 2 * SetSize : tasks[i].ticket = t.id /\ tasks[i].condition = c
        <3>1. PICK i \in 1 .. SetSize : tasks[i].ticket = t.id
            BY <2>1, <2>7 DEF Planned
        <3> QED BY <2>1, <2>4, <2>7, <3>1 DEF Planned
    <2>8. ASSUME t.id \in ToSet(sets.b), c = SecondCondition(order)
          PROVE  \E i \in 1 .. 2 * SetSize : tasks[i].ticket = t.id /\ tasks[i].condition = c
        <3>1. PICK i \in 1 .. SetSize : tasks[SetSize + i].ticket = t.id
            BY <2>1, <2>8 DEF Planned
        <3> QED BY <2>1, <2>4, <2>8, <3>1 DEF Planned
    <2> QED BY <2>5, <2>6, <2>7, <2>8 DEF order
<1>3. Met(t.id, c) \subseteq DOMAIN people
    BY DEF Met
<1> QED BY <1>2, <1>3

LEMMA NotInBoth ==
    ASSUME SetsInv, sets # None, NEW id \in ToSet(sets.a)
    PROVE  id \notin ToSet(sets.b)
<1>1. \A i \in DOMAIN sets.a, j \in DOMAIN sets.b : GroupOf(sets.a[i]) # GroupOf(sets.b[j])
    BY DEF SetsInv, Fits
<1> QED BY <1>1 DEF ToSet

LEMMA MetEquallyOften ==
    ASSUME StudyAssumption, StudyInv, NEW t \in StudyTickets
    PROVE  Cardinality(Met(t.id, "manual")) - Cardinality(Met(t.id, "workbench")) \in -1 .. 1
<1> DEFINE n == Len(people)
<1>1. n \in Nat /\ DOMAIN people = 1 .. n
    BY DEF StudyInv, PeopleInv, PeopleOK
<1>3. Cardinality(Evens(n)) \in Nat /\ Cardinality(Odds(n)) \in Nat
    BY <1>1, HalvesAreFinite
<1>4. Cardinality(Evens(n)) - Cardinality(Odds(n)) \in 0 .. 1
    BY <1>1, HalfAndHalf
<1>5. ASSUME NEW p \in 1 .. n
      PROVE  /\ "manual" = FirstCondition(OrderFor(p - 1)) <=> (p - 1) % 2 = 0
             /\ "workbench" = FirstCondition(OrderFor(p - 1)) <=> (p - 1) % 2 # 0
             /\ "manual" = SecondCondition(OrderFor(p - 1)) <=> (p - 1) % 2 # 0
             /\ "workbench" = SecondCondition(OrderFor(p - 1)) <=> (p - 1) % 2 = 0
    BY DEF FirstCondition, SecondCondition, OrderFor
<1>6. CASE sets = None
    <2>1. Met(t.id, "manual") = {} /\ Met(t.id, "workbench") = {}
        BY <1>6 DEF StudyInv, SetupsInv, Met
    <2>2. Cardinality(Met(t.id, "manual")) = 0 /\ Cardinality(Met(t.id, "workbench")) = 0
        BY <2>1, FS_EmptySet
    <2> QED BY <2>2
<1>7. ASSUME sets # None, t.id \in ToSet(sets.a)
      PROVE  Met(t.id, "manual") = Evens(n) /\ Met(t.id, "workbench") = Odds(n)
    <2>1. t.id \notin ToSet(sets.b)
        BY <1>7, NotInBoth DEF StudyInv
    <2>2. \A c \in Conditions : Met(t.id, c) = {p \in 1 .. n : c = FirstCondition(OrderFor(p - 1))}
        BY <1>1, <1>7, <2>1, WhereMet
    <2> QED BY <1>5, <2>2 DEF Conditions, Evens, Odds
<1>8. ASSUME sets # None, t.id \in ToSet(sets.b), t.id \notin ToSet(sets.a)
      PROVE  Met(t.id, "manual") = Odds(n) /\ Met(t.id, "workbench") = Evens(n)
    <2>2. \A c \in Conditions : Met(t.id, c) = {p \in 1 .. n : c = SecondCondition(OrderFor(p - 1))}
        BY <1>1, <1>8, WhereMet
    <2> QED BY <1>5, <2>2 DEF Conditions, Evens, Odds
<1>9. ASSUME sets # None, t.id \notin ToSet(sets.b), t.id \notin ToSet(sets.a)
      PROVE  Cardinality(Met(t.id, "manual")) = 0 /\ Cardinality(Met(t.id, "workbench")) = 0
    <2>1. \A c \in Conditions : Met(t.id, c) = {}
        BY <1>9, WhereMet
    <2>2. Met(t.id, "manual") = {} /\ Met(t.id, "workbench") = {}
        BY <2>1 DEF Conditions
    <2> QED BY <2>2, FS_EmptySet
<1> HIDE DEF n
<1> QED BY <1>3, <1>4, <1>6, <1>7, <1>8, <1>9

LEMMA SetsMatch ==
    ASSUME StudyAssumption, SetsInv, sets # None
    PROVE  LET all == sets.a \o sets.b
           IN  /\ \A i \in DOMAIN Slots : CellOf(sets.a[i]) = Slots[i] /\ CellOf(sets.b[i]) = Slots[i]
               /\ \A i, j \in DOMAIN all : GroupOf(all[i]) = GroupOf(all[j]) => i = j
<1> DEFINE a == sets.a
           b == sets.b
           all == a \o b
<1>1. /\ a \in Seq(StudyIds) /\ b \in Seq(StudyIds) /\ Fits(a, b, SetSize, SetSize)
      /\ SetSize \in Nat /\ DOMAIN Slots = 1 .. SetSize /\ Len(a) = SetSize /\ Len(b) = SetSize
    BY SlotsAre DEF SetsInv, Fits
<1> HIDE DEF a, b
<1>2. /\ DOMAIN all = 1 .. 2 * SetSize
      /\ \A i \in 1 .. SetSize : all[i] = a[i] /\ all[SetSize + i] = b[i]
    <2>1. /\ all \in Seq(StudyIds) /\ Len(all) = Len(a) + Len(b)
          /\ \A i \in 1 .. Len(a) : all[i] = a[i]
          /\ \A i \in 1 .. Len(b) : all[Len(a) + i] = b[i]
        BY <1>1, JoinedLists
    <2> HIDE DEF all
    <2> QED BY <1>1, <2>1
<1> HIDE DEF all
<1>3. ASSUME NEW i \in DOMAIN all, NEW j \in DOMAIN all, GroupOf(all[i]) = GroupOf(all[j])
      PROVE  i = j
    <2>1. \A k \in 1 .. 2 * SetSize : k \in 1 .. SetSize \/ (k - SetSize \in 1 .. SetSize /\ k = SetSize + (k - SetSize))
        BY <1>1
    <2>2. CASE i \in 1 .. SetSize /\ j \in 1 .. SetSize
        BY <1>1, <1>2, <1>3, <2>2 DEF Fits
    <2>3. ASSUME NEW k \in 1 .. SetSize, i = SetSize + k, j \in 1 .. SetSize
          PROVE  FALSE
        BY <1>1, <1>2, <1>3, <2>3 DEF Fits
    <2>4. ASSUME NEW k \in 1 .. SetSize, j = SetSize + k, i \in 1 .. SetSize
          PROVE  FALSE
        <3>1. GroupOf(a[i]) # GroupOf(b[k])
            BY <1>1, <2>4 DEF Fits
        <3>2. all[i] = a[i] /\ all[j] = b[k]
            BY <1>2, <2>4
        <3> QED BY <1>3, <3>1, <3>2
    <2>5. ASSUME NEW k \in 1 .. SetSize, NEW l \in 1 .. SetSize, i = SetSize + k, j = SetSize + l
          PROVE  i = j
        BY <1>1, <1>2, <1>3, <2>5 DEF Fits
    <2> QED BY <1>2, <2>1, <2>2, <2>3, <2>4, <2>5
<1>4. \A i \in DOMAIN Slots : CellOf(a[i]) = Slots[i] /\ CellOf(b[i]) = Slots[i]
    BY <1>1 DEF Fits
<1> QED BY <1>3, <1>4 DEF a, b, all

LEMMA FairnessFollows ==
    ASSUME StudyAssumption, StudyInv
    PROVE  StudyIsCounterbalanced
<1>1. SetsInv
    BY DEF StudyInv
<1>2. \A t \in StudyTickets : Cardinality(Met(t.id, "manual")) - Cardinality(Met(t.id, "workbench")) \in -1 .. 1
    BY MetEquallyOften
<1>3. ASSUME NEW p \in DOMAIN people, NEW i \in DOMAIN people[p].tasks, NEW j \in DOMAIN people[p].tasks, i < j
      PROVE  LET t == people[p].tasks[i]
                 u == people[p].tasks[j]
             IN  /\ ~ (t.set = "B" /\ u.set = "A")
                 /\ (t.condition = u.condition) = (t.set = u.set)
                 /\ u.served # None => t.submitted # None
    <2> DEFINE tasks == people[p].tasks
               order == people[p].order
               first == FirstCondition(order)
               second == SecondCondition(order)
    <2>1. Planned(tasks, order, sets.a, sets.b) /\ InOrder(tasks) /\ SetSize \in Nat
        BY SlotsAre DEF StudyInv, PeopleInv, PeopleOK
    <2>2. DOMAIN tasks = 1 .. 2 * SetSize
        BY <2>1 DEF Planned
    <2>3. first # second
        BY DEF FirstCondition, SecondCondition
    <2>4. tasks[j].served # None => tasks[i].submitted # None
        BY <1>3, <2>1 DEF InOrder
    <2> DEFINE IsA(k) == tasks[k].set = "A" /\ tasks[k].condition = first
               IsB(k) == tasks[k].set = "B" /\ tasks[k].condition = second
    <2>5. ASSUME NEW k \in 1 .. 2 * SetSize
          PROVE  (k \in 1 .. SetSize /\ IsA(k)) \/ (k \notin 1 .. SetSize /\ IsB(k))
        <3>1. k \in 1 .. SetSize \/ (k \notin 1 .. SetSize /\ k - SetSize \in 1 .. SetSize /\ k = SetSize + (k - SetSize))
            BY <2>1
        <3>2. CASE k \in 1 .. SetSize
            BY <2>1, <3>2 DEF Planned
        <3>3. ASSUME NEW l \in 1 .. SetSize, k = SetSize + l
              PROVE  IsB(k)
            BY <2>1, <3>3 DEF Planned
        <3> HIDE DEF IsA, IsB
        <3> QED BY <3>1, <3>2, <3>3
    <2>6. i \in 1 .. 2 * SetSize /\ j \in 1 .. 2 * SetSize /\ (j \in 1 .. SetSize => i \in 1 .. SetSize)
        BY <1>3, <2>1, <2>2
    <2> HIDE DEF tasks, first, second
    <2>7. ~ (tasks[i].set = "B" /\ tasks[j].set = "A")
        BY <2>5, <2>6
    <2>8. (tasks[i].condition = tasks[j].condition) <=> (tasks[i].set = tasks[j].set)
        BY <2>3, <2>5, <2>6
    <2> QED BY <2>4, <2>7, <2>8 DEF tasks
<1> QED BY <1>1, <1>2, <1>3, SetsMatch DEF StudyIsCounterbalanced

LEMMA ExportedIs ==
    ASSUME StudyAssumption, StudyInv, NEW x \in Exported
    PROVE  /\ x[1] \in DOMAIN people /\ x[2] \in DOMAIN people[x[1]].tasks
           /\ Task(x) \in TaskRow /\ Task(x).submitted # None
           /\ IsAnswer(Task(x), Task(x).action, Task(x).reply)
<1>1. x[1] \in DOMAIN people /\ x[2] \in 1 .. 2 * SetSize /\ Task(x).submitted # None
    BY DEF Exported, SetSize
<1>2. Planned(people[x[1]].tasks, people[x[1]].order, sets.a, sets.b) /\ SetSize \in Nat
    BY <1>1, SlotsAre DEF StudyInv, PeopleInv, PeopleOK
<1>3. x[2] \in DOMAIN people[x[1]].tasks
    BY <1>1, <1>2 DEF Planned
<1>4. Task(x) \in TaskRow /\ InOrder(people[x[1]].tasks)
    BY <1>1, <1>3, TasksTyped DEF Task
<1>5. IsAnswer(Task(x), Task(x).action, Task(x).reply)
    BY <1>1, <1>3, <1>4 DEF InOrder, Task
<1> QED BY <1>1, <1>3, <1>4, <1>5

LEMMA TimesFollow ==
    ASSUME StudyAssumption, StudyInv, OneAtATime, InTurn
    PROVE  HandlingTimesAreTrue
<1>1. ASSUME NEW x \in Exported
      PROVE  LET t == Task(x)
             IN  /\ t.served # None /\ t.served <= t.submitted /\ t.time >= 0
                 /\ ~ overlap => t.time = t.submitted - t.served
                 /\ \A y \in Exported : x[1] = y[1] /\ x[2] < y[2] =>
                       t.submitted <= Task(y).served /\ t.submitted <= Task(y).submitted - Task(y).time
    <2> DEFINE tasks == people[x[1]].tasks
    <2>1. x[1] \in DOMAIN people /\ x[2] \in DOMAIN tasks /\ Task(x) = tasks[x[2]] /\ Task(x).submitted # None
        BY ExportedIs DEF Task
    <2>2. Timely(tasks, studyClock)
        BY <2>1 DEF InTurn
    <2>3. ~ overlap => OnTime(tasks, studyClock)
        BY <2>1 DEF OneAtATime
    <2>4. ASSUME NEW y \in Exported, x[1] = y[1], x[2] < y[2]
          PROVE  Task(x).submitted <= Task(y).served /\ Task(x).submitted <= Task(y).submitted - Task(y).time
        <3>1. y[2] \in DOMAIN tasks /\ Task(y) = tasks[y[2]] /\ Task(y).submitted # None
            BY <2>4, ExportedIs DEF Task
        <3> QED BY <2>1, <2>2, <2>4, <3>1 DEF Timely
    <2>5. ~ overlap => Task(x).time = Task(x).submitted - Task(x).served
        BY <2>1, <2>3 DEF OnTime
    <2> QED BY <2>1, <2>2, <2>4, <2>5 DEF Timely
<1>2. ASSUME NEW x \in Exported, Task(x).action \in {"accept", "edit"}
      PROVE  ShowsDraft(Task(x))
    <2>1. IsAnswer(Task(x), Task(x).action, Task(x).reply) /\ Task(x) \in TaskRow
        BY ExportedIs
    <2>2. Task(x).condition \in {"manual", "workbench"}
        BY <2>1 DEF TaskRow, Conditions
    <2> QED BY <1>2, <2>1, <2>2 DEF IsAnswer, ShowsDraft, Actions
<1>3. ASSUME NEW p \in Analysed, NEW c \in Conditions
      PROVE  Graded(p, c) = InCondition(p, c) \ Escalated(p, c)
    <2>1. ASSUME NEW x \in InCondition(p, c) \ Escalated(p, c)
          PROVE  x \in Sheet
        <3>1. x \in Exported /\ Task(x).action # "escalate"
            BY DEF InCondition, Escalated
        <3> QED BY <3>1, ExportedIs DEF IsAnswer, Sheet
    <2> QED BY <2>1 DEF Graded
<1> QED BY <1>1, <1>2, <1>3 DEF HandlingTimesAreTrue

LEMMA TypesFollow ==
    ASSUME StudyAssumption, StudyInv
    PROVE  StudyTypeOK
<1>1. ASSUME NEW p \in DOMAIN people, NEW i \in DOMAIN people[p].tasks
      PROVE  IsTask(people[p].tasks[i])
    <2>1. people[p].tasks[i] \in TaskRow /\ InOrder(people[p].tasks)
        BY TasksTyped
    <2> QED BY <2>1 DEF TaskRow, Times, InOrder, IsTask
<1> QED BY <1>1 DEF StudyTypeOK, StudyInv, RequestsInv

LEMMA StudyInvHolds ==
    ASSUME StudyAssumption
    PROVE  StudySpec => [](StudyInv /\ OneAtATime /\ InTurn)
<1>1. StudyInit => StudyInv /\ OneAtATime /\ InTurn
    BY StudyInvInit DEF StudyInit, InTurn, NoCall
<1>2. StudyInv /\ OneAtATime /\ InTurn /\ [StudyNext]_studyVars => (StudyInv /\ OneAtATime /\ InTurn)'
    BY StudyInvNext, InTimeNext, InTurnNext
<1> QED BY <1>1, <1>2, PTL DEF StudySpec

\* The columns of the tasks hold what they may, whatever is in flight
\* (backend/app/models/study.py).
THEOREM StudyTypes ==
    ASSUME StudyAssumption
    PROVE  StudySpec => []StudyTypeOK
<1>1. StudyInv /\ OneAtATime /\ InTurn => StudyTypeOK
    BY TypesFollow
<1> QED BY <1>1, StudyInvHolds, PTL

\* For any tickets, slots and lanes, any number of participants and any runs of the set-up:
\* the two sets match and share no scenario, every ticket is met in each condition equally
\* often, give or take the last participant, and tasks are shown in their order
\* (ai/study/study_sets.py, setup_study.py, routers/study.py).
THEOREM StudyIsFair ==
    ASSUME StudyAssumption
    PROVE  StudySpec => []StudyIsCounterbalanced
<1>1. StudyInv /\ OneAtATime /\ InTurn => StudyIsCounterbalanced
    BY FairnessFollows
<1> QED BY <1>1, StudyInvHolds, PTL

\* Whatever requests of a participant overlap, the time counted for a task lies between the answer
\* to the task before and its own, and it is the time since the showing if none do; what is graded
\* is what was sent, and no withheld draft is accepted (routers/study.py, analyse.py).
THEOREM TimesAreTrue ==
    ASSUME StudyAssumption
    PROVE  StudySpec => []HandlingTimesAreTrue
<1>1. StudyInv /\ OneAtATime /\ InTurn => HandlingTimesAreTrue
    BY TimesFollow
<1> QED BY <1>1, StudyInvHolds, PTL

=============================================================================
