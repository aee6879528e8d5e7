------------------------------- MODULE Messages -------------------------------
(***************************************************************************)
(* Messages between admins and engineers (backend/app/routers/messages.py) *)
(* on top of the accounts, whose roles and state may change while a        *)
(* request is in flight.                                                   *)
(*                                                                         *)
(* Sending reads both accounts and inserts later; opening a thread loads   *)
(* it, and later marks as read what it found unread.                       *)
(***************************************************************************)
EXTENDS Accounts

CONSTANTS
    Synthetic,     \* the e-mail of the placeholder engineer
    MaxTime        \* bound on the clock

VARIABLES
    messages,   \* in the order of insertion
    clock,
    opened      \* history: <<message, time>> for every commit of an opening that found it unread

vars == <<users, req, started, messages, clock, opened>>

\* _COUNTERPART_ROLE
Counterpart == [admin |-> "department_engineer", department_engineer |-> "admin"]

Staff == DOMAIN Counterpart

IsMessage(m) ==
    /\ {m.from, m.to} \subseteq DOMAIN users
    /\ m.sent \in 0 .. MaxTime
    /\ m.read \in 0 .. MaxTime \cup {None}

IsMessageRequest(q) ==
    \/ q.pc = "sending" /\ {q.from, q.to} \subseteq DOMAIN users /\ q.sent \in 0 .. MaxTime
    \/ q.pc = "opening" /\ q.unread \subseteq DOMAIN messages /\ q.read \in 0 .. MaxTime

IsRequest(q) ==
    \/ q = Idle
    \/ q.pc \in {"seeding", "creating"} /\ \A i \in DOMAIN q.rows : q.rows[i].email \in Emails /\ q.rows[i].role \in Roles
    \/ q.pc = "updating" /\ q.user \in DOMAIN users /\ q.asked \in Bodies
    \/ IsMessageRequest(q)

TypeOK ==
    /\ AccountTypeOK
    /\ \A m \in DOMAIN messages : IsMessage(messages[m])
    /\ \A r \in Requests : IsRequest(req[r])
    /\ clock \in 0 .. MaxTime
    /\ \A o \in opened : o[1] \in DOMAIN messages /\ o[2] \in 0 .. MaxTime

Init ==
    /\ AccountInit
    /\ messages = <<>>
    /\ clock = 0
    /\ opened = {}

\* The caller may correspond with c.
IsContact(u, c) == users[c].role = Counterpart[users[u].role] /\ users[c].email # Synthetic

\* list_contacts: who is listed, and each one's badge.
Contacts(u) == {c \in DOMAIN users : IsContact(u, c)}

Between(u, c) == {m \in DOMAIN messages : {messages[m].from, messages[m].to} = {u, c}}

Unread(u, c) == {m \in Between(u, c) : messages[m].to = u /\ messages[m].read = None}

----------------------------------------------------------------------------

\* send_message, up to the insert; created_at is the start of the transaction.
Send(r, u, c) ==
    /\ req[r] = Idle
    /\ started < MaxRequests
    /\ MayCall(u, Staff)
    /\ IsContact(u, c)
    /\ req' = [req EXCEPT ![r] = [pc |-> "sending", from |-> u, to |-> c, sent |-> clock]]
    /\ started' = started + 1
    /\ UNCHANGED <<users, messages, clock, opened>>

Sent(r) ==
    /\ req[r].pc = "sending"
    /\ messages' = Append(messages, [from |-> req[r].from, to |-> req[r].to, sent |-> req[r].sent, read |-> None])
    /\ End(r)
    /\ UNCHANGED <<users, started, clock, opened>>

\* get_thread, up to the commit; without an unread message it started nothing.
OpenThread(r, u, c) ==
    /\ req[r] = Idle
    /\ MayCall(u, Staff)
    /\ IsContact(u, c)
    /\ Unread(u, c) # {}
    /\ started < MaxRequests
    /\ started' = started + 1
    /\ req' = [req EXCEPT ![r] = [pc |-> "opening", user |-> u, other |-> c, unread |-> Unread(u, c), read |-> clock]]
    /\ UNCHANGED <<users, messages, clock, opened>>

\* Mutant: one UPDATE for whatever is unread by then.
Marked_Everything(q) == Unread(q.user, q.other)

\* The rows the commit updates: those this request loaded as unread.
Marked(q) == q.unread

Opened(r) ==
    /\ req[r].pc = "opening"
    /\ messages' = [m \in DOMAIN messages |->
                       IF m \in Marked(req[r]) THEN [messages[m] EXCEPT !.read = req[r].read] ELSE messages[m]]
    /\ opened' = opened \cup {<<m, req[r].read>> : m \in req[r].unread}
    /\ End(r)
    /\ UNCHANGED <<users, started, clock>>

Tick ==
    /\ clock < MaxTime
    /\ clock' = clock + 1
    /\ UNCHANGED <<users, req, started, messages, opened>>

Next ==
    \/ AccountNext /\ UNCHANGED <<messages, clock, opened>>
    \/ \E r \in Requests :
          \/ \E u, c \in DOMAIN users : Send(r, u, c) \/ OpenThread(r, u, c)
          \/ Sent(r)
          \/ Opened(r)
    \/ Tick

Spec == Init /\ [][Next]_vars

----------------------------------------------------------------------------
(* Properties *)

\* A badge counts exactly the messages no opening has brought to their recipient yet: a
\* message that arrives while its thread is being opened, by one request or two, is not
\* lost; and a message is read since when some opening that loaded it began, not before
\* it was sent.
BadgesAreTrue ==
    /\ \A u, c \in DOMAIN users :
          Unread(u, c) = {m \in Between(u, c) : messages[m].to = u /\ \A o \in opened : o[1] # m}
    /\ \A m \in DOMAIN messages :
          messages[m].read # None => <<m, messages[m].read>> \in opened /\ messages[m].read >= messages[m].sent
=============================================================================
