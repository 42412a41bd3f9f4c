---------------------------- MODULE AccountsProofs ----------------------------
(***************************************************************************)
(* Proofs about Accounts, for every number of browsers, accounts, names,   *)
(* emails, requests and lost connections.                                  *)
(***************************************************************************)
EXTENDS Accounts, TLAPS

\* Nobody else has what an account can be logged in with, nobody has what a
\* request has looked up and not found, and no two requests have looked up the
\* same: but for doubtful keys.  It is the claims between a lookup and its
\* write that make the invariant inductive.
RowsApart == \A u, v \in Accounts : u # v => Keys(u) \cap Keys(v) \subseteq doubtful
ClaimsFree == \A b \in Browsers, u \in Accounts : Claimed(b) \cap Keys(u) \subseteq doubtful
ClaimsApart == \A a, b \in Browsers : a # b => Claimed(a) \cap Claimed(b) \subseteq doubtful

\* A browser that was told to be logged in has the session.
SessionTold ==
  \A b \in Browsers :
    told[b] # None => session[b] = told[b] \/ told[b] \notin Accounts \/ b \in cut

Apart == RowsApart /\ ClaimsFree /\ ClaimsApart
IInv == TypeOK /\ Apart /\ SessionTold

-----------------------------------------------------------------------------
(* Requests                                                                *)

\* A request stays well formed while ids grow, and another may take its place.
LEMMA RequestsKept ==
  ASSUME TypeOK, NEW b \in Browsers, NEW r, GoOn(b, r), ids \subseteq ids', r \in Requests'
  PROVE  req' \in [Browsers -> Requests']
<1>1. Requests \subseteq Requests'
  BY DEF Requests
<1> QED BY <1>1 DEF TypeOK, GoOn

\* Only the claims of the request that goes on change.
LEMMA ClaimsOfOthers ==
  ASSUME TypeOK, NEW b \in Browsers, NEW r, GoOn(b, r)
  PROVE  /\ req'[b] = r
         /\ \A a \in Browsers \ {b} : Claimed(a)' = Claimed(a)
BY DEF TypeOK, GoOn, Claimed, At

\* A request that is idle, or only knows an account, claims nothing.
LEMMA NothingClaimed ==
  ASSUME NEW b \in Browsers, req[b].pc \in {"idle", "rename", "login"}
  PROVE  Claimed(b) = {}
BY DEF Claimed, At

LEMMA NothingClaimedNext ==
  ASSUME NEW b \in Browsers, req'[b].pc \in {"idle", "rename", "login"}
  PROVE  Claimed(b)' = {}
BY DEF Claimed, At

\* Accounts may go and claims be given up.
LEMMA LessApart ==
  ASSUME Apart,
         Accounts' \subseteq Accounts, \A u \in Accounts' : Keys(u)' = Keys(u),
         \A b \in Browsers : Claimed(b)' \subseteq Claimed(b),
         doubtful \subseteq doubtful'
  PROVE  Apart'
BY DEF Apart, RowsApart, ClaimsFree, ClaimsApart

\* A request claims x, which nobody has and which is doubtful if another
\* request claims it.
LEMMA ClaimApart ==
  ASSUME Apart, NEW b \in Browsers, NEW x,
         UNCHANGED users,
         Claimed(b)' \subseteq Claimed(b) \cup {x},
         \A a \in Browsers \ {b} : Claimed(a)' = Claimed(a),
         Doubt(b, x) \subseteq doubtful',
         \A u \in Accounts : x \in Keys(u) => x \in doubtful'
  PROVE  Apart'
<1>1. doubtful \subseteq doubtful' /\ \A a \in Browsers \ {b} : x \in Claimed(a) => x \in doubtful'
  BY DEF Doubt
<1>2. Accounts' = Accounts /\ \A u \in Accounts : Keys(u)' = Keys(u)
  BY DEF Keys, Accounts
<1>3. RowsApart'
  BY <1>1, <1>2 DEF Apart, RowsApart
<1>4. ClaimsFree'
  BY <1>1, <1>2 DEF Apart, ClaimsFree
<1>5. ClaimsApart'
  <2> SUFFICES ASSUME NEW a \in Browsers, NEW c \in Browsers, a # c,
                      NEW y, y \in Claimed(a)', y \in Claimed(c)'
               PROVE  y \in doubtful'
    BY DEF ClaimsApart
  <2>1. CASE a # b /\ c # b
    BY <2>1, <1>1 DEF Apart, ClaimsApart
  <2>2. CASE a = b
    BY <2>2, <1>1 DEF Apart, ClaimsApart
  <2>3. CASE c = b
    BY <2>3, <1>1 DEF Apart, ClaimsApart
  <2> QED BY <2>1, <2>2, <2>3
<1> QED BY <1>3, <1>4, <1>5 DEF Apart

\* A free name is the key of no account, and neither is a free email.
LEMMA FreeName ==
  ASSUME NEW n, NameFree(n), NEW u \in Accounts
  PROVE  NameKey(n) \notin Keys(u)
BY DEF NameFree, Keys, NameKey, EmailKey

LEMMA FreeEmail ==
  ASSUME NEW e, EmailFree(e), NEW u \in Accounts
  PROVE  EmailKey(e) \notin Keys(u)
BY DEF EmailFree, Keys, NameKey, EmailKey

-----------------------------------------------------------------------------
(* Steps                                                                   *)

LEMMA InitStep ==
  ASSUME AccountsAssumption, Init
  PROVE  IInv
<1>1. users \in [Accounts -> Rows] /\ Accounts \subseteq Ids
  BY DEF Init, Accounts
<1>a. Idle \in Requests
  BY DEF Requests
<1>b. TypeOK
  BY <1>1, <1>a DEF Init, TypeOK, AccountsAssumption
<1>2. \A b \in Browsers : Claimed(b) = {}
  BY NothingClaimed DEF Init, Idle
<1>3. Apart
  BY <1>2 DEF Init, Apart, RowsApart, ClaimsFree, ClaimsApart
<1>4. SessionTold
  BY DEF Init, SessionTold
<1> QED BY <1>b, <1>3, <1>4 DEF IInv

\* The requests that look up a name or an email and find none, or lose the
\* connection.
LEMMA LookupType ==
  ASSUME TypeOK, NEW b \in Browsers, NEW r, GoOn(b, r), r \in Requests,
         UNCHANGED <<users, ids, session, told, cut>>,
         begun' \in 0..MaxBegun, lost' \in 0..MaxLost, doubtful' \subseteq AllKeys
  PROVE  TypeOK'
<1>1. Requests' = Requests
  BY DEF Requests
<1>2. req' \in [Browsers -> Requests']
  BY <1>1, RequestsKept
<1> QED BY <1>2 DEF TypeOK, Accounts

LEMMA BegunType ==
  ASSUME AccountsAssumption, TypeOK, NEW b \in Browsers, Begin(b)
  PROVE  begun' \in 0..MaxBegun /\ req[b] = Idle
BY DEF AccountsAssumption, TypeOK, Begin

LEMMA LostType ==
  ASSUME AccountsAssumption, TypeOK, Lose
  PROVE  lost' \in 0..MaxLost
BY DEF AccountsAssumption, TypeOK, Lose

LEMMA DoubtType ==
  ASSUME TypeOK, NEW b \in Browsers, NEW x \in AllKeys
  PROVE  Doubt(b, x) \subseteq AllKeys /\ Missed(x) \subseteq AllKeys
BY DEF TypeOK, Doubt, Missed

LEMMA ToldKept ==
  ASSUME SessionTold, UNCHANGED <<users, session, told, cut>>
  PROVE  SessionTold'
BY DEF SessionTold, Accounts

LEMMA SignupStep ==
  ASSUME AccountsAssumption, IInv, NEW b \in Browsers, NEW row \in Rows,
         Signup(b, row) \/ LoseEmailLookup(b, row)
  PROVE  IInv'
<1> DEFINE r == [pc |-> "signup", row |-> row]
           key == EmailKey(row.email)
<1>0. TypeOK /\ Apart /\ SessionTold
  BY DEF IInv
<1>1. /\ Begin(b) /\ GoOn(b, r) /\ UNCHANGED <<users, ids, session, told, cut>>
      /\ Doubt(b, key) \subseteq doubtful'
      /\ lost' \in 0..MaxLost
  BY <1>0, LostType DEF Signup, LoseEmailLookup, TypeOK
<1>2. key \in AllKeys /\ r \in Requests
  BY DEF Rows, Requests, AllKeys
<1>3. doubtful' \subseteq AllKeys
  BY <1>0, <1>2, DoubtType DEF Signup, LoseEmailLookup
<1>4. TypeOK'
  BY <1>0, <1>1, <1>2, <1>3, BegunType, LookupType
<1>5. \A u \in Accounts : key \in Keys(u) => key \in doubtful'
  BY <1>0, <1>2, FreeEmail DEF Signup, LoseEmailLookup, Missed
<1>6. req'[b] = r /\ \A a \in Browsers \ {b} : Claimed(a)' = Claimed(a)
  BY <1>0, <1>1, ClaimsOfOthers
<1>7. Claimed(b)' \subseteq Claimed(b) \cup {key}
  BY <1>6 DEF Claimed, At
<1>8. Apart'
  BY <1>0, <1>1, <1>5, <1>6, <1>7, ClaimApart
<1> QED BY <1>0, <1>1, <1>4, <1>8, ToldKept DEF IInv

\* The end of a request that wrote nothing to users.
LEMMA IdleStep ==
  ASSUME IInv, NEW b \in Browsers, GoOn(b, Idle), UNCHANGED <<users, ids>>,
         doubtful' = doubtful, begun' \in 0..MaxBegun, lost' \in 0..MaxLost
  PROVE  Apart' /\ req' \in [Browsers -> Requests']
<1>0. TypeOK /\ Apart
  BY DEF IInv
<1>1. req' \in [Browsers -> Requests']
  BY <1>0, RequestsKept DEF Requests
<1>2. Claimed(b)' = {} /\ \A a \in Browsers \ {b} : Claimed(a)' = Claimed(a)
  BY <1>0, ClaimsOfOthers, NothingClaimedNext DEF Idle
<1>3. Accounts' = Accounts /\ \A u \in Accounts : Keys(u)' = Keys(u)
  BY DEF Keys, Accounts
<1>4. Apart'
  BY <1>0, <1>2, <1>3, LessApart
<1> QED BY <1>1, <1>4

LEMMA SignupNameStep ==
  ASSUME AccountsAssumption, IInv, NEW b \in Browsers, SignupName(b) \/ LoseSignupName(b)
  PROVE  IInv'
<1> DEFINE row == req[b].row
           r == [req[b] EXCEPT !.pc = "insert"]
           key == NameKey(row.name)
<1>0. TypeOK /\ Apart /\ SessionTold
  BY DEF IInv
<1>1. /\ At(b, "signup") /\ UNCHANGED <<users, ids, session, told, cut, begun>>
      /\ lost' \in 0..MaxLost
  BY <1>0, LostType DEF SignupName, LoseSignupName, TypeOK
<1>2. row \in Rows /\ r = [pc |-> "insert", row |-> row]
  BY <1>0, <1>1 DEF TypeOK, Requests, Idle, At
<1>3. key \in AllKeys /\ r \in Requests
  BY <1>2 DEF Rows, Requests, AllKeys
<1>4. CASE GoOn(b, Idle) /\ UNCHANGED doubtful
  <2>1. Apart' /\ req' \in [Browsers -> Requests']
    BY <1>0, <1>1, <1>4, IdleStep DEF IInv, TypeOK
  <2>2. TypeOK'
    BY <1>0, <1>1, <1>4, <2>1 DEF TypeOK, Accounts
  <2> QED BY <1>0, <1>1, <2>1, <2>2, ToldKept DEF IInv
<1>5. CASE /\ GoOn(b, r) /\ Doubt(b, key) \subseteq doubtful'
           /\ NameFree(row.name) \/ Missed(key) \subseteq doubtful'
           /\ doubtful' \subseteq Doubt(b, key) \cup Missed(key)
  <2>1. doubtful' \subseteq AllKeys
    BY <1>0, <1>3, <1>5, DoubtType
  <2>2. TypeOK'
    BY <1>0, <1>1, <1>3, <1>5, <2>1, LookupType DEF TypeOK
  <2>3. \A u \in Accounts : key \in Keys(u) => key \in doubtful'
    BY <1>0, <1>3, <1>5, FreeName DEF Missed
  <2>4. req'[b] = r /\ \A a \in Browsers \ {b} : Claimed(a)' = Claimed(a)
    BY <1>0, <1>5, ClaimsOfOthers
  <2>5. Claimed(b)' \subseteq Claimed(b) \cup {key}
    BY <1>1, <1>2, <2>4 DEF Claimed, At
  <2>6. Apart'
    BY <1>0, <1>1, <1>5, <2>3, <2>4, <2>5, ClaimApart
  <2> QED BY <1>0, <1>1, <2>2, <2>6, ToldKept DEF IInv
<1>6. CASE SignupName(b)
  BY <1>4, <1>5, <1>6 DEF SignupName
<1>7. CASE LoseSignupName(b)
  BY <1>5, <1>7 DEF LoseSignupName
<1> QED BY <1>6, <1>7

LEMMA RenameStep ==
  ASSUME AccountsAssumption, IInv, NEW b \in Browsers, Rename(b) \/ LoseRename(b)
  PROVE  IInv'
<1> DEFINE n == req[b].value
           r == [pc |-> "set", id |-> req[b].id, column |-> "name", value |-> n]
           key == NameKey(n)
<1>0. TypeOK /\ Apart /\ SessionTold
  BY DEF IInv
<1>1. /\ At(b, "rename") /\ UNCHANGED <<users, ids, session, told, cut, begun>>
      /\ lost' \in 0..MaxLost
  BY <1>0, LostType DEF Rename, LoseRename, TypeOK
<1>2. req[b].id \in ids /\ n \in Names /\ key \in AllKeys
  BY <1>0, <1>1 DEF TypeOK, Requests, Idle, At, AllKeys
<1>3. r \in Requests
  BY <1>2 DEF Requests
<1>4. CASE GoOn(b, Idle) /\ UNCHANGED doubtful
  <2>1. Apart' /\ req' \in [Browsers -> Requests']
    BY <1>0, <1>1, <1>4, IdleStep DEF IInv, TypeOK
  <2>2. TypeOK'
    BY <1>0, <1>1, <1>4, <2>1 DEF TypeOK, Accounts
  <2> QED BY <1>0, <1>1, <2>1, <2>2, ToldKept DEF IInv
<1>5. CASE /\ GoOn(b, r) /\ Doubt(b, key) \subseteq doubtful'
           /\ NameFree(n) \/ Missed(key) \subseteq doubtful'
           /\ doubtful' \subseteq Doubt(b, key) \cup Missed(key)
  <2>1. doubtful' \subseteq AllKeys
    BY <1>0, <1>2, <1>5, DoubtType
  <2>2. TypeOK'
    BY <1>0, <1>1, <1>3, <1>5, <2>1, LookupType DEF TypeOK
  <2>3. \A u \in Accounts : key \in Keys(u) => key \in doubtful'
    BY <1>0, <1>2, <1>5, FreeName DEF Missed
  <2>4. req'[b] = r /\ \A a \in Browsers \ {b} : Claimed(a)' = Claimed(a)
    BY <1>0, <1>5, ClaimsOfOthers
  <2>5. Claimed(b)' \subseteq Claimed(b) \cup {key}
    BY <2>4 DEF Claimed, At
  <2>6. Apart'
    BY <1>0, <1>1, <1>5, <2>3, <2>4, <2>5, ClaimApart
  <2> QED BY <1>0, <1>1, <2>2, <2>6, ToldKept DEF IInv
<1>6. CASE Rename(b)
  BY <1>4, <1>5, <1>6 DEF Rename
<1>7. CASE LoseRename(b)
  BY <1>5, <1>7 DEF LoseRename
<1> QED BY <1>6, <1>7

\* An INSERT stores what the request has claimed.
LEMMA InsertUserStep ==
  ASSUME IInv, NEW b \in Browsers, NEW u, InsertUser(b, u)
  PROVE  IInv'
<1> DEFINE row == req[b].row
<1>0. TypeOK /\ Apart /\ SessionTold
  BY DEF IInv
<1>1. /\ At(b, "insert") /\ u \in Ids \ ids /\ GoOn(b, Idle) /\ ids' = ids \cup {u}
      /\ users' = [v \in Accounts \cup {u} |-> IF v = u THEN row ELSE users[v]]
      /\ UNCHANGED <<session, told, cut, doubtful, begun, lost>>
  BY DEF InsertUser, history
<1>2. row \in Rows /\ Claimed(b) = {NameKey(row.name), EmailKey(row.email)}
  BY <1>0, <1>1 DEF TypeOK, Requests, Idle, At, Claimed
<1>3. /\ Accounts' = Accounts \cup {u} /\ users' \in [Accounts' -> Rows] /\ u \notin Accounts
  BY <1>0, <1>1, <1>2 DEF TypeOK, Accounts
<1>4. /\ Keys(u)' = Claimed(b)
      /\ \A v \in Accounts : Keys(v)' = Keys(v)
  BY <1>1, <1>2, <1>3 DEF Keys
<1>5. Idle \in Requests'
  BY DEF Requests
<1>6. TypeOK'
  <2>1. req' \in [Browsers -> Requests']
    BY <1>0, <1>1, <1>5, RequestsKept
  <2> QED BY <1>0, <1>1, <1>3, <2>1 DEF TypeOK
<1>7. Claimed(b)' = {} /\ \A a \in Browsers \ {b} : Claimed(a)' = Claimed(a)
  BY <1>0, <1>1, ClaimsOfOthers, NothingClaimedNext DEF Idle
<1>8. RowsApart'
  <2> SUFFICES ASSUME NEW v \in Accounts', NEW w \in Accounts', v # w
               PROVE  (Keys(v) \cap Keys(w))' \subseteq doubtful'
    BY DEF RowsApart
  <2>1. CASE v \in Accounts /\ w \in Accounts
    BY <1>0, <1>1, <1>4, <2>1 DEF Apart, RowsApart
  <2>2. CASE v = u
    BY <1>0, <1>1, <1>3, <1>4, <2>2 DEF Apart, ClaimsFree
  <2>3. CASE w = u
    BY <1>0, <1>1, <1>3, <1>4, <2>3 DEF Apart, ClaimsFree
  <2> QED BY <1>3, <2>1, <2>2, <2>3
<1>9. ClaimsFree'
  <2> SUFFICES ASSUME NEW a \in Browsers, NEW v \in Accounts'
               PROVE  (Claimed(a) \cap Keys(v))' \subseteq doubtful'
    BY DEF ClaimsFree
  <2>1. CASE a = b
    BY <1>7, <2>1
  <2>2. CASE a # b /\ v = u
    BY <1>0, <1>1, <1>4, <1>7, <2>2 DEF Apart, ClaimsApart
  <2>3. CASE a # b /\ v \in Accounts
    BY <1>0, <1>1, <1>4, <1>7, <2>3 DEF Apart, ClaimsFree
  <2> QED BY <1>3, <2>1, <2>2, <2>3
<1>10. ClaimsApart'
  BY <1>0, <1>1, <1>7 DEF Apart, ClaimsApart
<1>11. SessionTold'
  BY <1>0, <1>1, <1>3 DEF TypeOK, SessionTold
<1> QED BY <1>6, <1>8, <1>9, <1>10, <1>11 DEF IInv, Apart

\* The requests that only look up an account.
LEMMA ChangeStep ==
  ASSUME AccountsAssumption, IInv, NEW b \in Browsers, NEW r \in Requests,
         Begin(b), GoOn(b, r), UNCHANGED <<users, ids, session, history, lost>>,
         r.pc \in {"rename", "login"} \/ (r.pc = "set" /\ r.column # "name")
  PROVE  IInv'
<1>0. TypeOK /\ Apart /\ SessionTold
  BY DEF IInv
<1>1. begun' \in 0..MaxBegun
  BY <1>0, BegunType
<1>2. TypeOK'
  BY <1>0, <1>1, LookupType DEF TypeOK, history
<1>3. req'[b] = r /\ \A a \in Browsers \ {b} : Claimed(a)' = Claimed(a)
  BY <1>0, ClaimsOfOthers
<1>4. Claimed(b)' = {}
  BY <1>3 DEF Claimed, At
<1>5. Accounts' = Accounts /\ \A u \in Accounts : Keys(u)' = Keys(u)
  BY DEF Keys, Accounts
<1>6. Apart'
  BY <1>0, <1>3, <1>4, <1>5, LessApart DEF history
<1>7. SessionTold'
  BY <1>0, ToldKept DEF history
<1> QED BY <1>2, <1>6, <1>7 DEF IInv

LEMMA ChangeSteps ==
  ASSUME AccountsAssumption, IInv, NEW b \in Browsers,
         \/ \E u \in Ids, n \in Names : ChangeUsername(b, u, n)
         \/ \E u \in Ids, e \in Emails : ChangeEmail(b, u, e)
         \/ \E u \in Ids, p \in Passwords : ChangePassword(b, u, p)
         \/ \E key \in Names \cup Emails, p \in Passwords : Login(b, key, p)
  PROVE  IInv'
<1>1. Accounts \subseteq ids
  BY DEF IInv, TypeOK
<1>2. ASSUME NEW u \in Ids, NEW n \in Names, ChangeUsername(b, u, n)  PROVE IInv'
  <2>1. [pc |-> "rename", id |-> u, value |-> n] \in Requests
    BY <1>1, <1>2 DEF ChangeUsername, Requests
  <2> QED BY <1>2, <2>1, ChangeStep DEF ChangeUsername
<1>3. ASSUME NEW u \in Ids, NEW e \in Emails, ChangeEmail(b, u, e)  PROVE IInv'
  <2>1. [pc |-> "set", id |-> u, column |-> "email", value |-> e] \in Requests
    BY <1>1, <1>3 DEF ChangeEmail, Requests
  <2> QED BY <1>3, <2>1, ChangeStep DEF ChangeEmail
<1>4. ASSUME NEW u \in Ids, NEW p \in Passwords, ChangePassword(b, u, p)  PROVE IInv'
  <2>1. [pc |-> "set", id |-> u, column |-> "password", value |-> p] \in Requests
    BY <1>1, <1>4 DEF ChangePassword, Requests
  <2> QED BY <1>4, <2>1, ChangeStep DEF ChangePassword
<1>5. ASSUME NEW key, NEW p, Login(b, key, p)  PROVE IInv'
  <2>1. PICK u \in Accounts : GoOn(b, [pc |-> "login", id |-> u])
    BY <1>5 DEF Login
  <2>2. [pc |-> "login", id |-> u] \in Requests
    BY <1>1 DEF Requests
  <2> QED BY <1>5, <2>1, <2>2, ChangeStep DEF Login
<1> QED BY <1>2, <1>3, <1>4, <1>5

\* An UPDATE of a name stores a claim, and one of an email leaves it doubtful
\* if others have it.
LEMMA UpdateUserStep ==
  ASSUME IInv, NEW b \in Browsers, UpdateUser(b)
  PROVE  IInv'
<1> DEFINE u == req[b].id
           x == req[b].value
           c == req[b].column
           key == IF c = "name" THEN NameKey(x) ELSE EmailKey(x)
<1>0. TypeOK /\ Apart /\ SessionTold
  BY DEF IInv
<1>1. /\ At(b, "set") /\ GoOn(b, Idle) /\ users' = Updated(req[b])
      /\ doubtful' = doubtful \cup TakenOver(req[b])
      /\ UNCHANGED <<ids, session, told, cut, begun, lost>>
  BY DEF UpdateUser
<1>2. /\ \/ c = "name" /\ x \in Names
         \/ c = "email" /\ x \in Emails
         \/ c = "password" /\ x \in Passwords
      /\ req[b] \in Requests
  BY <1>0, <1>1 DEF TypeOK, Requests, Idle, At
<1>3. /\ Accounts' = Accounts
      /\ users' = [v \in Accounts |-> IF v = u THEN [users[v] EXCEPT ![c] = x] ELSE users[v]]
  BY <1>1 DEF Updated, Accounts
<1>4. ASSUME NEW v \in Accounts
      PROVE  /\ users'[v] \in Rows /\ (v # u => Keys(v)' = Keys(v))
             /\ Keys(v)' \subseteq Keys(v) \cup {y \in {key} : c # "password"}
  <2>1. users[v] \in Rows
    BY <1>0 DEF TypeOK
  <2>2. CASE v # u
    BY <1>3, <2>1, <2>2 DEF Keys
  <2>3. CASE v = u
    <3>1. users'[v] = [users[v] EXCEPT ![c] = x]
      BY <1>3, <2>3
    <3>2. users'[v] \in Rows
      BY <1>2, <2>1, <3>1 DEF Rows
    <3>3. /\ c = "password" => users'[v].name = users[v].name /\ users'[v].email = users[v].email
          /\ c = "name" => users'[v].name = x /\ users'[v].email = users[v].email
          /\ c = "email" => users'[v].name = users[v].name /\ users'[v].email = x
      BY <2>1, <3>1 DEF Rows
    <3> QED BY <1>2, <2>3, <3>2, <3>3 DEF Keys
  <2> QED BY <2>2, <2>3
<1>5. c = "name" => Claimed(b) = {key}
  BY <1>1 DEF Claimed, At
<1>6. Claimed(b)' = {} /\ \A a \in Browsers \ {b} : Claimed(a)' = Claimed(a)
  BY <1>0, <1>1, ClaimsOfOthers, NothingClaimedNext DEF Idle
<1>7. TypeOK'
  <2>1. users' \in [Accounts' -> Rows]
    BY <1>3, <1>4
  <2>2. req' \in [Browsers -> Requests']
    BY <1>0, <1>1, RequestsKept DEF Requests
  <2>3. doubtful' \subseteq AllKeys
    BY <1>0, <1>1, <1>2 DEF TakenOver, TypeOK, AllKeys
  <2> QED BY <1>0, <1>1, <1>3, <2>1, <2>2, <2>3 DEF TypeOK
<1>8. ASSUME c = "email", u \in Accounts
      PROVE  /\ \A v \in Accounts \ {u} : key \in Keys(v) => key \in doubtful'
             /\ \A a \in Browsers : key \in Claimed(a) => key \in doubtful'
  BY <1>1, <1>8 DEF TakenOver
<1>9. ASSUME c = "name"
      PROVE  /\ \A v \in Accounts : key \in Keys(v) => key \in doubtful'
             /\ \A a \in Browsers \ {b} : key \in Claimed(a) => key \in doubtful'
  BY <1>0, <1>1, <1>5, <1>9 DEF Apart, ClaimsFree, ClaimsApart
<1>10. RowsApart'
  <2> SUFFICES ASSUME NEW v \in Accounts, NEW w \in Accounts, v # w,
                      NEW y, y \in Keys(v)', y \in Keys(w)'
               PROVE  y \in doubtful'
    BY <1>3 DEF RowsApart
  <2>1. CASE y \in Keys(v) /\ y \in Keys(w)
    BY <1>0, <1>1, <2>1 DEF Apart, RowsApart
  <2>2. CASE y \notin Keys(v)
    BY <1>2, <1>4, <1>8, <1>9, <2>2
  <2>3. CASE y \notin Keys(w)
    BY <1>2, <1>4, <1>8, <1>9, <2>3
  <2> QED BY <2>1, <2>2, <2>3
<1>11. ClaimsFree'
  <2> SUFFICES ASSUME NEW a \in Browsers, NEW v \in Accounts,
                      NEW y, y \in Claimed(a)', y \in Keys(v)'
               PROVE  y \in doubtful'
    BY <1>3 DEF ClaimsFree
  <2>1. a # b /\ y \in Claimed(a)
    BY <1>6
  <2>2. CASE y \in Keys(v)
    BY <1>0, <1>1, <2>1, <2>2 DEF Apart, ClaimsFree
  <2>3. CASE y \notin Keys(v)
    BY <1>2, <1>4, <1>8, <1>9, <2>1, <2>3
  <2> QED BY <2>2, <2>3
<1>12. ClaimsApart'
  BY <1>0, <1>1, <1>6 DEF Apart, ClaimsApart
<1>13. SessionTold'
  BY <1>0, <1>1, <1>3 DEF SessionTold
<1> QED BY <1>7, <1>10, <1>11, <1>12, <1>13 DEF IInv, Apart

LEMMA DeleteUserStep ==
  ASSUME AccountsAssumption, IInv, NEW b \in Browsers, NEW u, DeleteUser(b, u)
  PROVE  IInv'
<1>0. TypeOK /\ Apart /\ SessionTold
  BY DEF IInv
<1>1. /\ users' = [v \in Accounts \ {u} |-> users[v]]
      /\ UNCHANGED <<ids, session, req, told, cut, doubtful, lost>>
      /\ begun' \in 0..MaxBegun
  BY <1>0, BegunType DEF DeleteUser, history
<1>2. Accounts' = Accounts \ {u} /\ \A v \in Accounts' : Keys(v)' = Keys(v)
  BY <1>1 DEF Accounts, Keys
<1>3. TypeOK'
  <2>1. users' \in [Accounts' -> Rows]
    BY <1>0, <1>1, <1>2 DEF TypeOK
  <2>2. Requests' = Requests
    BY <1>1 DEF Requests
  <2> QED BY <1>0, <1>1, <1>2, <2>1, <2>2 DEF TypeOK
<1>4. \A a \in Browsers : Claimed(a)' = Claimed(a)
  BY <1>1 DEF Claimed, At
<1>5. Apart'
  BY <1>0, <1>1, <1>2, <1>4, LessApart
<1>6. SessionTold'
  BY <1>0, <1>1, <1>2 DEF SessionTold
<1> QED BY <1>3, <1>5, <1>6 DEF IInv

\* The end of a login, with or without a connection.
LEMMA OpenSessionStep ==
  ASSUME AccountsAssumption, IInv, NEW b \in Browsers, OpenSession(b) \/ LoseSession(b)
  PROVE  IInv'
<1>0. TypeOK /\ Apart /\ SessionTold
  BY DEF IInv
<1>1. /\ At(b, "login") /\ GoOn(b, Idle)
      /\ told' = [told EXCEPT ![b] = req[b].id]
      /\ UNCHANGED <<users, ids, doubtful, begun>>
      /\ lost' \in 0..MaxLost
  BY <1>0, LostType DEF OpenSession, LoseSession, TypeOK
<1>2. req[b].id \in ids
  BY <1>0, <1>1 DEF TypeOK, Requests, Idle, At
<1>3. Apart' /\ req' \in [Browsers -> Requests']
  BY <1>0, <1>1, IdleStep DEF TypeOK
<1>4. Accounts' = Accounts
  BY <1>1 DEF Accounts
<1>5. /\ session' \in [Browsers -> ids \cup {None}] /\ cut' \subseteq Browsers
      /\ \A a \in Browsers \ {b} : session'[a] = session[a] /\ (a \in cut => a \in cut')
      /\ session'[b] = req[b].id \/ req[b].id \notin Accounts \/ b \in cut'
  <2>1. CASE OpenSession(b)
    BY <1>0, <1>2, <2>1 DEF OpenSession, Opened, TypeOK
  <2>2. CASE LoseSession(b)
    BY <1>0, <2>2 DEF LoseSession, TypeOK
  <2> QED BY <2>1, <2>2
<1>6. TypeOK'
  BY <1>0, <1>1, <1>2, <1>3, <1>4, <1>5 DEF TypeOK
<1>7. SessionTold'
  BY <1>0, <1>1, <1>4, <1>5 DEF SessionTold, TypeOK
<1> QED BY <1>3, <1>6, <1>7 DEF IInv

LEMMA LogoutStep ==
  ASSUME AccountsAssumption, IInv, NEW b \in Browsers, Logout(b)
  PROVE  IInv'
<1>0. TypeOK /\ Apart /\ SessionTold
  BY DEF IInv
<1>1. /\ session' = [session EXCEPT ![b] = None] /\ told' = [told EXCEPT ![b] = None]
      /\ cut' = cut \ {b} /\ UNCHANGED <<users, ids, req, doubtful, lost>>
      /\ begun' \in 0..MaxBegun
  BY <1>0, BegunType DEF Logout
<1>2. Accounts' = Accounts /\ \A u \in Accounts : Keys(u)' = Keys(u)
  BY <1>1 DEF Accounts, Keys
<1>3. TypeOK'
  <2>1. Requests' = Requests
    BY <1>1 DEF Requests
  <2> QED BY <1>0, <1>1, <1>2, <2>1 DEF TypeOK
<1>4. \A a \in Browsers : Claimed(a)' = Claimed(a)
  BY <1>1 DEF Claimed, At
<1>5. Apart'
  BY <1>0, <1>1, <1>2, <1>4, LessApart
<1>6. SessionTold'
  BY <1>0, <1>1, <1>2 DEF SessionTold, TypeOK
<1> QED BY <1>3, <1>5, <1>6 DEF IInv

\* A request that ends without having written.
LEMMA EndStep ==
  ASSUME AccountsAssumption, IInv, NEW b \in Browsers, LoseWrite(b) \/ Die(b)
  PROVE  IInv'
<1>0. TypeOK /\ Apart /\ SessionTold
  BY DEF IInv
<1>1. GoOn(b, Idle) /\ UNCHANGED <<users, ids, session, told, cut, doubtful, begun>>
      /\ lost' \in 0..MaxLost
  BY <1>0, LostType DEF LoseWrite, Die, history, TypeOK
<1>2. Apart' /\ req' \in [Browsers -> Requests']
  BY <1>0, <1>1, IdleStep DEF TypeOK
<1>3. TypeOK'
  BY <1>0, <1>1, <1>2 DEF TypeOK, Accounts
<1> QED BY <1>0, <1>1, <1>2, <1>3, ToldKept DEF IInv

LEMMA StutterStep ==
  ASSUME IInv, UNCHANGED vars
  PROVE  IInv'
<1>1. Accounts' = Accounts /\ Requests' = Requests
  BY DEF vars, Accounts, Requests
<1>2. TypeOK'
  BY <1>1 DEF vars, IInv, TypeOK
<1>3. /\ \A u \in Accounts : Keys(u)' = Keys(u)
      /\ \A b \in Browsers : Claimed(b)' = Claimed(b)
  BY DEF vars, Keys, Claimed, At
<1>4. Apart'
  BY <1>1, <1>3, LessApart DEF vars, IInv
<1> QED BY <1>2, <1>4, ToldKept DEF vars, IInv

LEMMA NextStep ==
  ASSUME AccountsAssumption, IInv, [Next]_vars
  PROVE  IInv'
<1>1. CASE UNCHANGED vars
  BY <1>1, StutterStep
<1>2. ASSUME NEW b \in Browsers, Step(b)  PROVE IInv'
  <2>1. CASE \E row \in Rows : Signup(b, row) \/ LoseEmailLookup(b, row)
    BY <2>1, SignupStep
  <2>2. CASE SignupName(b) \/ LoseSignupName(b)
    BY <2>2, SignupNameStep
  <2>3. CASE \E u \in Ids : InsertUser(b, u) \/ DeleteUser(b, u)
    BY <2>3, InsertUserStep, DeleteUserStep
  <2>4. CASE \/ \E u \in Ids, n \in Names : ChangeUsername(b, u, n)
             \/ \E u \in Ids, e \in Emails : ChangeEmail(b, u, e)
             \/ \E u \in Ids, p \in Passwords : ChangePassword(b, u, p)
             \/ \E key \in Names \cup Emails, p \in Passwords : Login(b, key, p)
    BY <2>4, ChangeSteps
  <2>5. CASE Rename(b) \/ LoseRename(b)
    BY <2>5, RenameStep
  <2>6. CASE UpdateUser(b)
    BY <2>6, UpdateUserStep
  <2>7. CASE OpenSession(b) \/ LoseSession(b)
    BY <2>7, OpenSessionStep
  <2>8. CASE Logout(b)
    BY <2>8, LogoutStep
  <2>9. CASE LoseWrite(b) \/ Die(b)
    BY <2>9, EndStep
  <2> QED BY <1>2, <2>1, <2>2, <2>3, <2>4, <2>5, <2>6, <2>7, <2>8, <2>9, Zenon DEF Step
<1> QED BY <1>1, <1>2 DEF Next

LEMMA Invariance == Spec => []IInv
<1>1. Init => IInv
  BY AccountsAssumption, InitStep
<1>2. IInv /\ [Next]_vars => IInv'
  BY AccountsAssumption, NextStep
<1> QED BY <1>1, <1>2, PTL DEF Spec

-----------------------------------------------------------------------------
(* Theorems                                                                *)

\* The tables, the sessions and the requests keep their types.
THEOREM TypeCorrect == Spec => []TypeOK
<1>1. IInv => TypeOK
  BY DEF IInv
<1> QED BY <1>1, Invariance, PTL

\* A name that two accounts have was claimed by two requests at once, or looked
\* up over a lost connection: signup and change_username, in any number.
THEOREM NamesUnique == Spec => []NamesAreUnique
<1>1. IInv => NamesAreUnique
  <2> SUFFICES ASSUME IInv, NEW u \in Accounts, NEW v \in Accounts, u # v,
                      users[u].name = users[v].name
               PROVE  NameKey(users[u].name) \in doubtful
    BY DEF NamesAreUnique
  <2>1. Keys(u) \cap Keys(v) \subseteq doubtful
    BY DEF IInv, Apart, RowsApart
  <2> QED BY <2>1 DEF Keys
<1> QED BY <1>1, Invariance, PTL

\* The same for emails, which change_email may also take over.
THEOREM EmailsUnique == Spec => []EmailsAreUnique
<1>1. IInv => EmailsAreUnique
  <2> SUFFICES ASSUME IInv, NEW u \in Accounts, NEW v \in Accounts, u # v,
                      users[u].email = users[v].email
               PROVE  EmailKey(users[u].email) \in doubtful
    BY DEF EmailsAreUnique
  <2>1. Keys(u) \cap Keys(v) \subseteq doubtful
    BY DEF IInv, Apart, RowsApart
  <2> QED BY <2>1 DEF Keys
<1> QED BY <1>1, Invariance, PTL

\* The answer of login and the session agree, unless the account is gone or
\* the connection was lost.
THEOREM LoginsAct == Spec => []LoginActs
<1>1. IInv => LoginActs
  BY DEF IInv, SessionTold, LoginActs, Acting
<1> QED BY <1>1, Invariance, PTL

\* No request brings a deleted account back.
THEOREM DeletedStay == Spec => DeletedStaysDeleted
<1>1. IInv /\ [Next]_vars => [\A u \in ids : u \in DOMAIN users' => u \in Accounts]_vars
  <2> SUFFICES ASSUME IInv, NEW b \in Browsers, Step(b), NEW u \in ids, u \in DOMAIN users'
               PROVE  u \in Accounts
    BY DEF Next
  <2>1. CASE UNCHANGED users
    BY <2>1 DEF Accounts
  <2>2. CASE \E v \in Ids : InsertUser(b, v)
    BY <2>2 DEF InsertUser
  <2>3. CASE \E v \in Ids : DeleteUser(b, v)
    BY <2>3 DEF DeleteUser
  <2>4. CASE UpdateUser(b)
    BY <2>4 DEF UpdateUser, Updated
  <2> QED BY <2>1, <2>2, <2>3, <2>4
       DEF Step, Signup, LoseEmailLookup, SignupName, LoseSignupName, ChangeUsername, Rename,
           LoseRename, ChangeEmail, ChangePassword, LoseWrite, Login, OpenSession, LoseSession,
           Logout, Die
<1> QED BY <1>1, Invariance, PTL DEF Spec, DeletedStaysDeleted
===============================================================================
