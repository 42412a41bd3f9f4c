------------------------------- MODULE Accounts -------------------------------
(***************************************************************************)
(* The accounts of the site and the sessions that act for them.  The table *)
(* users has no key but its id: that a name or an email belongs to one     *)
(* account rests on lookups which precede the INSERT or UPDATE as          *)
(* statements of their own, while the requests of other browsers do the    *)
(* same.                                                                   *)
(*                                                                         *)
(* PHP runs the requests of one browser, which hold the lock of its        *)
(* session, one after the other, and those of different browsers at the    *)
(* same time.  A request that is refused changes nothing and is no step.   *)
(***************************************************************************)
EXTENDS Integers

CONSTANTS Browsers,
          Ids,      \* ids of accounts; generate_mysql_id gives each out once
          Names,    \* user names: without an @, signup.php:8
          Emails,   \* any text: that it has an @ is only asked for by the form,
                    \*   so that it may be the name of another account
          Passwords,
          None,
          MaxBegun, \* bound: how many requests begin
          MaxLost   \* bound: how often the database connection is lost

ASSUME AccountsAssumption ==
  None \notin Ids /\ MaxBegun \in Nat /\ MaxLost \in Nat

VARIABLES users,    \* table users: the row of each account
          ids,      \* the ids given out so far
          session,  \* session[b]: $_SESSION['user_id']
          req,      \* req[b]: the request of b that is running
          told,     \* history: the account that the last login of b was
                    \*   answered with, None after a logout
          cut,      \* history: browsers whose last login lost the connection
          doubtful, \* history: keys (names and emails) that were claimed by two
                    \*   requests at once, looked up over a connection that
                    \*   was lost, or taken over by change_email
          begun, lost

vars == <<users, ids, session, req, told, cut, doubtful, begun, lost>>
history == <<told, cut, doubtful>>

Accounts == DOMAIN users
Rows == [name : Names, email : Emails, password : Passwords]
Idle == [pc |-> "idle"]

At(b, pc) == req[b].pc = pc
Begin(b) == req[b] = Idle /\ begun < MaxBegun /\ begun' = begun + 1
GoOn(b, r) == req' = [req EXCEPT ![b] = r]

\* What no two accounts should share, and what of it a request has looked up
\* and not found.
NameKey(n) == <<"name", n>>
EmailKey(e) == <<"email", e>>
AllKeys == {NameKey(n) : n \in Names} \cup {EmailKey(e) : e \in Emails}

Keys(u) == {NameKey(users[u].name), EmailKey(users[u].email)}
Claimed(b) ==
  IF At(b, "signup") THEN {EmailKey(req[b].row.email)}
  ELSE IF At(b, "insert") THEN {NameKey(req[b].row.name), EmailKey(req[b].row.email)}
  ELSE IF At(b, "set") /\ req[b].column = "name" THEN {NameKey(req[b].value)}
  ELSE {}

Requests ==
  {Idle}
    \cup [pc : {"signup", "insert"}, row : Rows]
    \cup [pc : {"rename"}, id : ids, value : Names]
    \cup [pc : {"set"}, id : ids, column : {"name"}, value : Names]
    \cup [pc : {"set"}, id : ids, column : {"email"}, value : Emails]
    \cup [pc : {"set"}, id : ids, column : {"password"}, value : Passwords]
    \cup [pc : {"login"}, id : ids]

TypeOK ==
  /\ Accounts \subseteq ids /\ ids \subseteq Ids /\ users \in [Accounts -> Rows]
  /\ session \in [Browsers -> ids \cup {None}]
  /\ req \in [Browsers -> Requests]
  /\ told \in [Browsers -> ids \cup {None}]
  /\ cut \subseteq Browsers /\ doubtful \subseteq AllKeys
  /\ begun \in 0..MaxBegun /\ lost \in 0..MaxLost

\* A table in which everybody has a name and an email of his own.  The email of
\* one may be the name of another.
Init ==
  /\ \E A \in SUBSET Ids : users \in [A -> Rows]
  /\ \A u, v \in Accounts : u # v => Keys(u) \cap Keys(v) = {}
  /\ ids = Accounts
  /\ session = [b \in Browsers |-> None] /\ req = [b \in Browsers |-> Idle]
  /\ told = [b \in Browsers |-> None] /\ cut = {} /\ doubtful = {}
  /\ begun = 0 /\ lost = 0

\* The lookup of b for the key x came back empty, which others may
\* have seen as well.
Doubt(b, x) ==
  doubtful \cup {y \in {x} : \E a \in Browsers \ {b} : y \in Claimed(a)}

\* A lookup over a lost connection came back empty.
Missed(x) == {y \in {x} : \E u \in Accounts : y \in Keys(u)}

-----------------------------------------------------------------------------
(* Signing up                                                              *)

\* Mutant: the email is not looked up.
BugEmailFree(e) == TRUE

EmailFree(e) == \A u \in Accounts : users[u].email # e

\* Mutant: the name is not looked up.
BugNameFree(n) == TRUE

NameFree(n) == \A u \in Accounts : users[u].name # n

\* signup, up to the lookup of the email.
Signup(b, row) ==
  /\ Begin(b) /\ EmailFree(row.email)
  /\ GoOn(b, [pc |-> "signup", row |-> row])
  /\ doubtful' = Doubt(b, EmailKey(row.email))
  /\ UNCHANGED <<users, ids, session, told, cut, lost>>

\* The lookup of the name.
SignupName(b) ==
  /\ At(b, "signup")
  /\ IF NameFree(req[b].row.name)
     THEN /\ GoOn(b, [req[b] EXCEPT !.pc = "insert"])
          /\ doubtful' = Doubt(b, NameKey(req[b].row.name))
     ELSE GoOn(b, Idle) /\ UNCHANGED doubtful
  /\ UNCHANGED <<users, ids, session, told, cut, begun, lost>>

InsertUser(b, u) ==
  /\ At(b, "insert") /\ u \in Ids \ ids
  /\ users' = [v \in Accounts \cup {u} |-> IF v = u THEN req[b].row ELSE users[v]]
  /\ ids' = ids \cup {u} /\ GoOn(b, Idle)
  /\ UNCHANGED <<session, history, begun, lost>>

-----------------------------------------------------------------------------
(* Changing an account.  The form names the id that its page was made for, *)
(* which may be deleted by now.                                            *)

ChangeUsername(b, u, n) ==
  /\ Begin(b) /\ u \in Accounts
  /\ GoOn(b, [pc |-> "rename", id |-> u, value |-> n])
  /\ UNCHANGED <<users, ids, session, history, lost>>

Rename(b) ==
  /\ At(b, "rename")
  /\ LET n == req[b].value IN
       IF NameFree(n)
       THEN /\ GoOn(b, [pc |-> "set", id |-> req[b].id, column |-> "name", value |-> n])
            /\ doubtful' = Doubt(b, NameKey(n))
       ELSE GoOn(b, Idle) /\ UNCHANGED doubtful
  /\ UNCHANGED <<users, ids, session, told, cut, begun, lost>>

\* change_email and change_password look up the account and nothing else.
ChangeEmail(b, u, e) ==
  /\ Begin(b) /\ u \in Accounts
  /\ GoOn(b, [pc |-> "set", id |-> u, column |-> "email", value |-> e])
  /\ UNCHANGED <<users, ids, session, history, lost>>

ChangePassword(b, u, p) ==
  /\ Begin(b) /\ u \in Accounts
  /\ GoOn(b, [pc |-> "set", id |-> u, column |-> "password", value |-> p])
  /\ UNCHANGED <<users, ids, session, history, lost>>

\* An email that change_email takes from others.
TakenOver(r) ==
  {e \in {EmailKey(r.value)} :
     /\ r.column = "email" /\ r.id \in Accounts
     /\ \/ \E u \in Accounts \ {r.id} : e \in Keys(u)
        \/ \E a \in Browsers : e \in Claimed(a)}

\* Mutant: the row is inserted when the UPDATE finds none.
BugUpdated(r) ==
  [u \in Accounts \cup {r.id} |->
     IF u # r.id THEN users[u]
     ELSE [(IF u \in Accounts THEN users[u] ELSE CHOOSE row \in Rows : TRUE) EXCEPT ![r.column] = r.value]]

\* Mutant: the new email is stored as the name.
BugColumn(r) ==
  [u \in Accounts |->
     IF u = r.id THEN [users[u] EXCEPT ![IF r.column = "email" THEN "name" ELSE r.column] = r.value]
     ELSE users[u]]

\* UPDATE users SET column = value WHERE id: no row, no effect.
Updated(r) ==
  [u \in Accounts |-> IF u = r.id THEN [users[u] EXCEPT ![r.column] = r.value] ELSE users[u]]

UpdateUser(b) ==
  /\ At(b, "set")
  /\ users' = Updated(req[b]) /\ GoOn(b, Idle)
  /\ doubtful' = doubtful \cup TakenOver(req[b])
  /\ UNCHANGED <<ids, session, told, cut, begun, lost>>

\* elements/admin/users/delete.php: the sessions of the account stay.
DeleteUser(b, u) ==
  /\ Begin(b) /\ u \in Accounts
  /\ users' = [v \in Accounts \ {u} |-> users[v]]
  /\ UNCHANGED <<ids, session, req, history, lost>>

-----------------------------------------------------------------------------
(* Sessions                                                                *)

\* With a name or an email: the text may be the one of one account and the other
\* of another.
Login(b, key, password) ==
  /\ Begin(b)
  /\ \E u \in Accounts :
       /\ key \in {users[u].name, users[u].email} /\ users[u].password = password
       /\ GoOn(b, [pc |-> "login", id |-> u])
  /\ UNCHANGED <<users, ids, session, history, lost>>

\* Mutant: a browser that has a session keeps it.
BugOpened(b, u) == IF session[b] = None THEN u ELSE session[b]

\* session_login looks the account up again: the session stays as it is if it
\* is gone.
Opened(b, u) == IF u \in Accounts THEN u ELSE session[b]

\* login answers with success and the account whatever session_login returns.
OpenSession(b) ==
  /\ At(b, "login")
  /\ session' = [session EXCEPT ![b] = Opened(b, req[b].id)]
  /\ told' = [told EXCEPT ![b] = req[b].id] /\ cut' = cut \ {b}
  /\ GoOn(b, Idle)
  /\ UNCHANGED <<users, ids, doubtful, begun, lost>>

Logout(b) ==
  /\ Begin(b)
  /\ session' = [session EXCEPT ![b] = None] /\ told' = [told EXCEPT ![b] = None] /\ cut' = cut \ {b}
  /\ UNCHANGED <<users, ids, req, doubtful, lost>>

\* Whom the requests of b act for: get_user finds no row once it is deleted.
Acting(b) == IF session[b] \in Accounts THEN session[b] ELSE None

-----------------------------------------------------------------------------
(* Failures.  When the connection is gone, query() opens a new one and     *)
(* returns true: a lookup then finds no row, and an INSERT or UPDATE is    *)
(* not repeated, but reported as done.                                     *)

Lose == lost < MaxLost /\ lost' = lost + 1

LoseEmailLookup(b, row) ==
  /\ Begin(b) /\ Lose
  /\ GoOn(b, [pc |-> "signup", row |-> row])
  /\ doubtful' = Doubt(b, EmailKey(row.email)) \cup Missed(EmailKey(row.email))
  /\ UNCHANGED <<users, ids, session, told, cut>>

LoseSignupName(b) ==
  /\ At(b, "signup") /\ Lose
  /\ GoOn(b, [req[b] EXCEPT !.pc = "insert"])
  /\ LET key == NameKey(req[b].row.name) IN doubtful' = Doubt(b, key) \cup Missed(key)
  /\ UNCHANGED <<users, ids, session, told, cut, begun>>

LoseRename(b) ==
  /\ At(b, "rename") /\ Lose
  /\ GoOn(b, [pc |-> "set", id |-> req[b].id, column |-> "name", value |-> req[b].value])
  /\ LET key == NameKey(req[b].value) IN doubtful' = Doubt(b, key) \cup Missed(key)
  /\ UNCHANGED <<users, ids, session, told, cut, begun>>

LoseWrite(b) ==
  /\ (At(b, "insert") \/ At(b, "set")) /\ Lose
  /\ GoOn(b, Idle)
  /\ UNCHANGED <<users, ids, session, history, begun>>

LoseSession(b) ==
  /\ At(b, "login") /\ Lose
  /\ told' = [told EXCEPT ![b] = req[b].id] /\ cut' = cut \cup {b}
  /\ GoOn(b, Idle)
  /\ UNCHANGED <<users, ids, session, doubtful, begun>>

\* A request ends between two statements.
Die(b) ==
  /\ req[b] # Idle /\ GoOn(b, Idle)
  /\ UNCHANGED <<users, ids, session, history, begun, lost>>

-----------------------------------------------------------------------------

Step(b) ==
  \/ \E row \in Rows : Signup(b, row) \/ LoseEmailLookup(b, row)
  \/ SignupName(b) \/ LoseSignupName(b)
  \/ \E u \in Ids : InsertUser(b, u) \/ DeleteUser(b, u)
  \/ \E u \in Ids, n \in Names : ChangeUsername(b, u, n)
  \/ Rename(b) \/ LoseRename(b)
  \/ \E u \in Ids, e \in Emails : ChangeEmail(b, u, e)
  \/ \E u \in Ids, p \in Passwords : ChangePassword(b, u, p)
  \/ UpdateUser(b) \/ LoseWrite(b)
  \/ \E key \in Names \cup Emails, p \in Passwords : Login(b, key, p)
  \/ OpenSession(b) \/ LoseSession(b) \/ Logout(b) \/ Die(b)

Next == \E b \in Browsers : Step(b)

Spec == Init /\ [][Next]_vars

-----------------------------------------------------------------------------
(* Properties                                                              *)

\* Two accounts have the same name only if two requests looked it up at once,
\* or a lookup lost the connection: signup.php:38 and change_username.php:19
\* look before they write, and the table has no unique index.
NamesAreUnique ==
  \A u, v \in Accounts :
    u # v /\ users[u].name = users[v].name => NameKey(users[u].name) \in doubtful

\* The same for emails, with one more exception: change_email.php:33 stores an
\* email that another account has, or that somebody is signing up with.
EmailsAreUnique ==
  \A u, v \in Accounts :
    u # v /\ users[u].email = users[v].email => EmailKey(users[u].email) \in doubtful

\* Whoever is told that he is logged in acts for the account that the answer
\* named, until he logs out: unless the account was deleted, even between the
\* two lookups of login.php, or the connection was lost in session_login,
\* whose result login.php:31 does not read.  PHP ending an idle session, and a
\* later get_user that loses its connection and acts for nobody in that one
\* request, are not modelled.
LoginActs ==
  \A b \in Browsers : told[b] # None => Acting(b) = told[b] \/ told[b] \notin Accounts \/ b \in cut

\* A deleted account never comes back, although requests that found its row
\* before the deletion write it afterwards.
DeletedStaysDeleted == [][\A u \in ids : u \in DOMAIN users' => u \in Accounts]_vars
===============================================================================
