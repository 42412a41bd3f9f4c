------------------------------- MODULE AofProofs -------------------------------
(***************************************************************************)
(* Proofs about Aof, for every number of clients, databases, policies,     *)
(* faults and writes.                                                      *)
(***************************************************************************)
EXTENDS Aof, TLAPS

-----------------------------------------------------------------------------
(* Data sets, files and streams                                            *)

\* d is what b and then the commands of s make.
Holds(d, b, s) ==
  /\ Len(d) = Len(b) + Len(s)
  /\ \A i \in 1..Len(b) : d[i] = b[i]
  /\ \A j \in 1..Len(s) : d[Len(b) + j] = s[j].w

\* Command j of s finds the SELECT of its database before it.
SelectedAt(s, j) ==
  \E i \in 1..j :
    /\ s[i].sel /\ s[i].w.db = s[j].w.db
    /\ \A k \in (i + 1)..j : ~ s[k].sel

WellSelected(s) == \A j \in 1..Len(s) : SelectedAt(s, j)

\* db is what the last SELECT of s selected, or unknown.
EndsIn(s, db) == (s # <<>> /\ db = s[Len(s)].w.db) \/ db = NoDB

\* A concatenation.
LEMMA Concat ==
  ASSUME NEW S, NEW s \in Seq(S), NEW t \in Seq(S)
  PROVE  /\ s \o t \in Seq(S) /\ Len(s \o t) = Len(s) + Len(t)
         /\ Len(s) \in Nat /\ Len(t) \in Nat
         /\ \A i \in 1..Len(s) : (s \o t)[i] = s[i]
         /\ \A j \in 1..Len(t) : (s \o t)[Len(s) + j] = t[j]
OBVIOUS

\* Loading runs every command of a well selected log where it was meant to run
\* (loadAppendOnlyFile).
LEMMA LoadWellSelected ==
  ASSUME NEW f \in [base : Seq(Write), log : Seq(Entry), synced : Nat], WellSelected(f.log)
  PROVE  /\ Load(f) \in Seq(Write) /\ Len(Load(f)) = FileLen(f)
         /\ Holds(Load(f), f.base, f.log)
<1> DEFINE t == [j \in 1..Len(f.log) |-> [f.log[j].w EXCEPT !.db = DbAt(f, j)]]
<1>1. ASSUME NEW j \in 1..Len(f.log)  PROVE DbAt(f, j) = f.log[j].w.db
  <2>1. PICK i \in 1..j : /\ f.log[i].sel /\ f.log[i].w.db = f.log[j].w.db
                          /\ \A k \in (i + 1)..j : ~ f.log[k].sel
    BY DEF WellSelected, SelectedAt
  <2> DEFINE sels == {k \in 1..j : f.log[k].sel}
  <2>2. i \in sels /\ \A k \in sels : k <= i
    BY <2>1
  <2>3. \A m \in sels : (\A k \in sels : k <= m) => m = i
    BY <2>2
  <2>4. (CHOOSE m \in sels : \A k \in sels : k <= m) = i
    BY <2>2, <2>3
  <2>5. sels # {}
    BY <2>2
  <2> QED BY <2>1, <2>4, <2>5, Zenon DEF DbAt
<1>2. ASSUME NEW j \in 1..Len(f.log)  PROVE t[j] = f.log[j].w
  <2>1. f.log[j] \in Entry
    OBVIOUS
  <2>2. f.log[j].w \in Write
    BY <2>1 DEF Entry
  <2>3. [f.log[j].w EXCEPT !.db = f.log[j].w.db] = f.log[j].w
    BY <2>2 DEF Write
  <2> QED BY <1>1, <2>3
<1>3. t \in Seq(Write) /\ Len(t) = Len(f.log)
  <2>1. \A j \in 1..Len(f.log) : f.log[j].w \in Write
    <3>1. ASSUME NEW j \in 1..Len(f.log)  PROVE f.log[j] \in Entry
      OBVIOUS
    <3> QED BY <3>1 DEF Entry
  <2>2. \A j \in 1..Len(f.log) : t[j] \in Write
    BY <1>2, <2>1
  <2>3. t = [j \in 1..Len(f.log) |-> t[j]]
    OBVIOUS
  <2> HIDE DEF t
  <2> QED BY <2>2, <2>3
<1>4. Load(f) = f.base \o t
  BY DEF Load
<1> HIDE DEF t
<1>5. f.base \in Seq(Write) /\ f.log \in Seq(Entry)
  OBVIOUS
<1>6. f.base \o t \in Seq(Write) /\ Len(f.base \o t) = Len(f.base) + Len(t)
  BY <1>3, <1>5
<1>7. \A i \in 1..Len(f.base) : (f.base \o t)[i] = f.base[i]
  BY <1>3, <1>5
<1>8. \A j \in 1..Len(f.log) : (f.base \o t)[Len(f.base) + j] = f.log[j].w
  BY <1>2, <1>3, <1>5
<1> QED BY <1>3, <1>4, <1>6, <1>7, <1>8 DEF Holds, FileLen

\* What a file holds determines the data set.
LEMMA HoldsUnique ==
  ASSUME NEW d \in Seq(Write), NEW e \in Seq(Write), NEW b \in Seq(Write), NEW s \in Seq(Entry),
         Holds(d, b, s), Holds(e, b, s)
  PROVE  d = e
<1>1. Len(d) = Len(e) /\ Len(b) \in Nat /\ Len(s) \in Nat
  BY DEF Holds
<1>2. ASSUME NEW i \in 1..Len(d)  PROVE d[i] = e[i]
  <2>1. CASE i <= Len(b)
    BY <2>1, <1>1 DEF Holds
  <2>2. CASE i > Len(b)
    <3>1. i - Len(b) \in 1..Len(s) /\ i = Len(b) + (i - Len(b))
      BY <2>2, <1>1 DEF Holds
    <3> QED BY <3>1 DEF Holds
  <2> QED BY <2>1, <2>2, <1>1
<1> QED BY <1>1, <1>2

\* What the file holds is a prefix as long as the file is one.
LEMMA HoldsPrefix ==
  ASSUME NEW d \in Seq(Write), NEW e \in Seq(Write), NEW b \in Seq(Write),
         NEW s \in Seq(Entry), NEW t \in Seq(Entry),
         Holds(d, b, s), Holds(e, b, t), Prefix(t, s)
  PROVE  Prefix(e, d)
<1>1. Len(b) \in Nat /\ Len(s) \in Nat /\ Len(t) \in Nat /\ Len(t) <= Len(s)
  BY DEF Prefix
<1>2. Len(e) <= Len(d)
  BY <1>1 DEF Holds
<1>3. ASSUME NEW i \in 1..Len(e)  PROVE e[i] = d[i]
  <2>1. CASE i <= Len(b)
    BY <2>1, <1>1 DEF Holds
  <2>2. CASE i > Len(b)
    <3>1. i - Len(b) \in 1..Len(t) /\ i - Len(b) \in 1..Len(s) /\ i = Len(b) + (i - Len(b))
      BY <2>2, <1>1 DEF Holds
    <3>2. e[i] = t[i - Len(b)].w /\ d[i] = s[i - Len(b)].w
      BY <3>1 DEF Holds
    <3> QED BY <3>1, <3>2 DEF Prefix
  <2> QED BY <2>1, <2>2, <1>1
<1> QED BY <1>2, <1>3 DEF Prefix

\* Only the commands up to j matter, and they can be continued by a command that
\* selects its database or runs in that of the one before.
LEMMA SelectedSame ==
  ASSUME NEW s, NEW u, NEW j \in Nat, \A k \in 1..j : u[k] = s[k], SelectedAt(s, j), j >= 1
  PROVE  SelectedAt(u, j)
<1>1. PICK i \in 1..j : /\ s[i].sel /\ s[i].w.db = s[j].w.db
                        /\ \A k \in (i + 1)..j : ~ s[k].sel
  BY DEF SelectedAt
<1>2. u[i].sel /\ u[i].w.db = u[j].w.db
  BY <1>1
<1>3. \A k \in (i + 1)..j : ~ u[k].sel
  BY <1>1
<1> QED BY <1>2, <1>3 DEF SelectedAt

LEMMA SelectedNext ==
  ASSUME NEW u, NEW j \in Nat,
         u[j + 1].sel \/ (j >= 1 /\ SelectedAt(u, j) /\ u[j + 1].w.db = u[j].w.db)
  PROVE  SelectedAt(u, j + 1)
<1>1. CASE u[j + 1].sel
  <2>1. j + 1 \in 1..(j + 1) /\ \A k \in ((j + 1) + 1)..(j + 1) : ~ u[k].sel
    OBVIOUS
  <2> QED BY <1>1, <2>1 DEF SelectedAt
<1>2. CASE ~ u[j + 1].sel
  <2>1. PICK i \in 1..j : /\ u[i].sel /\ u[i].w.db = u[j].w.db
                          /\ \A k \in (i + 1)..j : ~ u[k].sel
    BY <1>2 DEF SelectedAt
  <2>2. \A k \in (i + 1)..(j + 1) : ~ u[k].sel
    BY <1>2, <2>1
  <2>3. i \in 1..(j + 1) /\ u[i].w.db = u[j + 1].w.db
    BY <1>2, <2>1
  <2> QED BY <2>1, <2>2, <2>3 DEF SelectedAt
<1> QED BY <1>1, <1>2

LEMMA PrefixWellSelected ==
  ASSUME NEW s \in Seq(Entry), NEW t \in Seq(Entry), WellSelected(s), Prefix(t, s)
  PROVE  WellSelected(t)
<1> SUFFICES ASSUME NEW j \in 1..Len(t)  PROVE SelectedAt(t, j)
  BY DEF WellSelected
<1>1. j \in 1..Len(s) /\ j >= 1 /\ \A k \in 1..j : t[k] = s[k]
  BY DEF Prefix
<1>2. SelectedAt(s, j)
  BY <1>1 DEF WellSelected
<1> QED BY <1>1, <1>2, SelectedSame

\* Feeding ws to a buffer (feedAppendOnlyFile).
LEMMA CommandsType ==
  ASSUME AofAssumption, NEW ws \in Commands, data \in Seq(Write)
  PROVE  /\ ws \in Seq(Write) /\ Len(ws) \in {1, 2} /\ ws[Len(ws)].last
         /\ \A j \in 1..Len(ws) : ws[j].id = Len(data) + j
<1> DEFINE n == Len(data)
<1>1. n \in Nat
  OBVIOUS
<1>2. CASE \E d \in DBs : ws = <<[id |-> n + 1, db |-> d, last |-> TRUE]>>
  BY <1>1, <1>2 DEF Write
<1>3. CASE \E d, e \in DBs : ws = <<[id |-> n + 1, db |-> d, last |-> FALSE],
                                   [id |-> n + 2, db |-> e, last |-> TRUE]>>
  <2>1. PICK d \in DBs, e \in DBs : ws = <<[id |-> n + 1, db |-> d, last |-> FALSE],
                                         [id |-> n + 2, db |-> e, last |-> TRUE]>>
    BY <1>3
  <2> DEFINE w1 == [id |-> n + 1, db |-> d, last |-> FALSE]
             w2 == [id |-> n + 2, db |-> e, last |-> TRUE]
  <2>2. w1 \in Write /\ w2 \in Write /\ w2.last /\ w1.id = n + 1 /\ w2.id = n + 2
    BY <1>1 DEF Write
  <2> HIDE DEF w1, w2
  <2>3. ws = <<w1, w2>>
    BY <2>1 DEF w1, w2
  <2> QED BY <2>2, <2>3
<1> QED BY <1>2, <1>3 DEF Commands

LEMMA EncodedType ==
  ASSUME AofAssumption, NEW ws \in Seq(Write), Len(ws) \in {1, 2}
  PROVE  /\ Encoded(ws) \in Seq(Entry) /\ Len(Encoded(ws)) = Len(ws)
         /\ \A j \in 1..Len(ws) : Encoded(ws)[j].w = ws[j]
         /\ (Encoded(ws)[1].sel <=> ws[1].db # selected)
         /\ Len(ws) = 2 => (Encoded(ws)[2].sel <=> ws[2].db # ws[1].db)
<1>1. Encoded(ws) = [j \in 1..Len(ws) |-> Encoded(ws)[j]]
  BY DEF Encoded
<1>2. \A j \in 1..Len(ws) : Encoded(ws)[j] \in Entry
  BY DEF Encoded, Entry
<1>3. Encoded(ws) \in Seq(Entry) /\ Len(Encoded(ws)) = Len(ws)
  BY <1>1, <1>2
<1>4. \A j \in 1..Len(ws) : Encoded(ws)[j].w = ws[j]
  BY DEF Encoded
<1>5. Encoded(ws)[1].sel = (ws[1].db # selected)
  BY DEF Encoded
<1>6. Len(ws) = 2 => Encoded(ws)[2].sel = (ws[2].db # ws[1].db)
  BY DEF Encoded
<1> QED BY <1>3, <1>4, <1>5, <1>6

LEMMA FeedHolds ==
  ASSUME NEW ws \in Seq(Write), NEW e \in Seq(Entry), Len(e) = Len(ws),
         \A j \in 1..Len(ws) : e[j].w = ws[j],
         NEW d \in Seq(Write), NEW b \in Seq(Write), NEW s \in Seq(Entry), Holds(d, b, s)
  PROVE  Holds(d \o ws, b, s \o e)
<1> DEFINE dw == d \o ws
           se == s \o e
<1>1. Len(b) \in Nat /\ Len(d) = Len(b) + Len(s)
  BY DEF Holds
<1>2. /\ Len(dw) = Len(d) + Len(ws) /\ Len(d) \in Nat /\ Len(ws) \in Nat
      /\ \A i \in 1..Len(d) : dw[i] = d[i]
      /\ \A j \in 1..Len(ws) : dw[Len(d) + j] = ws[j]
  BY Concat
<1>3. /\ Len(se) = Len(s) + Len(e) /\ Len(s) \in Nat
      /\ \A i \in 1..Len(s) : se[i] = s[i]
      /\ \A j \in 1..Len(e) : se[Len(s) + j] = e[j]
  <2>1. s \in Seq(Entry) /\ e \in Seq(Entry)
    OBVIOUS
  <2>2. /\ Len(s \o e) = Len(s) + Len(e) /\ Len(s) \in Nat
        /\ \A i \in 1..Len(s) : (s \o e)[i] = s[i]
        /\ \A j \in 1..Len(e) : (s \o e)[Len(s) + j] = e[j]
    BY ONLY <2>1, Concat
  <2> QED BY <2>2
<1> HIDE DEF dw, se
<1>4. Len(dw) = Len(b) + Len(se)
  BY <1>1, <1>2, <1>3
<1>5. \A i \in 1..Len(b) : dw[i] = b[i]
  BY <1>1, <1>2, <1>3 DEF Holds
<1>6. ASSUME NEW j \in 1..Len(se)  PROVE dw[Len(b) + j] = se[j].w
  <2>1. CASE j <= Len(s)
    <3>1. Len(b) + j \in 1..Len(d) /\ j \in 1..Len(s)
      BY <2>1, <1>1, <1>2, <1>3
    <3>2. dw[Len(b) + j] = d[Len(b) + j] /\ se[j] = s[j]
      BY <3>1, <1>2, <1>3
    <3> QED BY <3>1, <3>2 DEF Holds
  <2>2. CASE j > Len(s)
    <3> DEFINE k == j - Len(s)
    <3>1. k \in 1..Len(ws) /\ Len(b) + j = Len(d) + k /\ j = Len(s) + k
      BY <2>2, <1>1, <1>2, <1>3
    <3> HIDE DEF k
    <3>2. dw[Len(d) + k] = ws[k] /\ se[Len(s) + k] = e[k] /\ e[k].w = ws[k]
      BY <3>1, <1>2, <1>3
    <3> QED BY <3>1, <3>2
  <2> QED BY <2>1, <2>2, <1>1, <1>2, <1>3
<1>7. Holds(dw, b, se)
  BY <1>4, <1>5, <1>6 DEF Holds
<1> QED BY <1>7 DEF dw, se

LEMMA FeedWellSelected ==
  ASSUME AofAssumption, NEW ws \in Seq(Write), Len(ws) \in {1, 2}, NEW db,
         NEW e \in Seq(Entry), Len(e) = Len(ws), \A j \in 1..Len(ws) : e[j].w = ws[j],
         e[1].sel <=> ws[1].db # db, Len(ws) = 2 => (e[2].sel <=> ws[2].db # ws[1].db),
         NEW s \in Seq(Entry), WellSelected(s), EndsIn(s, db)
  PROVE  WellSelected(s \o e) /\ EndsIn(s \o e, ws[Len(ws)].db)
<1> DEFINE n == Len(s)
           u == s \o e
<1>1. e[1].w = ws[1] /\ (Len(ws) = 2 => e[2].w = ws[2])
  OBVIOUS
<1>2. n \in Nat /\ ws[1].db # NoDB
  <2>1. ws[1] \in Write
    OBVIOUS
  <2> QED BY <2>1 DEF Write, AofAssumption, NoDB
<1>3. /\ Len(u) = n + Len(e)
      /\ \A k \in 1..n : u[k] = s[k]
      /\ \A j \in 1..Len(e) : u[n + j] = e[j]
  <2>1. s \in Seq(Entry) /\ e \in Seq(Entry)
    OBVIOUS
  <2>2. /\ Len(s \o e) = Len(s) + Len(e) /\ Len(s) \in Nat
        /\ \A i \in 1..Len(s) : (s \o e)[i] = s[i]
        /\ \A j \in 1..Len(e) : (s \o e)[Len(s) + j] = e[j]
    BY ONLY <2>1, Concat
  <2> QED BY <2>2
<1>4. \A j \in 1..n : SelectedAt(s, j)
  BY DEF WellSelected
<1>5. (n >= 1 /\ db = s[n].w.db) \/ db = NoDB
  BY DEF EndsIn
<1> HIDE DEF u, n
<1>6. ASSUME NEW j \in 1..n  PROVE SelectedAt(u, j)
  <2>1. j \in Nat /\ j >= 1 /\ \A k \in 1..j : u[k] = s[k]
    BY <1>2, <1>3
  <2> QED BY <2>1, <1>4, SelectedSame
<1>7. u[n + 1] = e[1] /\ (Len(ws) = 2 => u[n + 2] = e[2]) /\ u[n + Len(ws)].w = ws[Len(ws)]
  BY <1>1, <1>3
<1>8. SelectedAt(u, n + 1)
  <2>1. CASE ws[1].db # db
    BY <2>1, <1>2, <1>7, SelectedNext
  <2>2. CASE ws[1].db = db
    <3>1. n >= 1 /\ ws[1].db = s[n].w.db
      BY <2>2, <1>2, <1>5
    <3>2. u[n] = s[n] /\ SelectedAt(u, n)
      BY <3>1, <1>2, <1>3, <1>6
    <3>3. u[n + 1].w.db = u[n].w.db
      BY <3>1, <3>2, <1>1, <1>7
    <3> QED BY <3>1, <3>2, <3>3, <1>2, SelectedNext
  <2> QED BY <2>1, <2>2
<1>9. Len(ws) = 2 => SelectedAt(u, n + 2)
  <2> SUFFICES ASSUME Len(ws) = 2  PROVE SelectedAt(u, n + 2)
    OBVIOUS
  <2>1. n + 1 \in Nat /\ n + 1 >= 1 /\ n + 2 = (n + 1) + 1
    BY <1>2
  <2>2. u[(n + 1) + 1].sel \/ u[(n + 1) + 1].w.db = u[n + 1].w.db
    BY <2>1, <1>1, <1>7
  <2>3. SelectedAt(u, (n + 1) + 1)
    BY <2>1, <2>2, <1>8, SelectedNext
  <2> QED BY <2>1, <2>3
<1>10. WellSelected(u)
  <2>1. ASSUME NEW j \in 1..Len(u)  PROVE j \in 1..n \/ j = n + 1 \/ (Len(ws) = 2 /\ j = n + 2)
    <3>1. Len(u) = n + 1 \/ (Len(ws) = 2 /\ Len(u) = n + 2)
      BY <1>3
    <3> QED BY <3>1, <1>2
  <2> QED BY <2>1, <1>6, <1>8, <1>9 DEF WellSelected
<1>11. EndsIn(u, ws[Len(ws)].db)
  <2>1. Len(u) = n + Len(ws)
    BY <1>3
  <2>2. u # <<>>
    BY <2>1, <1>2
  <2> QED BY <2>1, <2>2, <1>7 DEF EndsIn
<1> QED BY <1>10, <1>11 DEF u

-----------------------------------------------------------------------------
(* The inductive invariant                                                 *)

\* What the file will hold once the buffer is written.  Between the rename and
\* the end of the handler the buffer is in the file already.
Stream == IF phase = "swap" THEN file.log ELSE file.log \o buf

\* The file and its buffer make the data set.
FileInv ==
  /\ WellSelected(Stream)
  /\ Up => Holds(data, file.base, Stream)
  /\ Up /\ phase # "swap" => size = FileLen(file) /\ EndsIn(Stream, selected)

\* While the server is down, the file alone makes a part of it.
DownInv ==
  phase = "down" =>
    /\ buf = <<>> /\ selected = NoDB /\ child = "none"
    /\ \E s \in Seq(Entry) : Prefix(file.log, s) /\ Holds(data, file.base, s)

\* The snapshot of the child and the differences make the data set as well.
RewriteInv ==
  /\ ~ Rewriting => diff = <<>>
  /\ phase \in {"rename", "swap"} => child = "aof_ok"
  /\ Up /\ Rewriting => /\ WellSelected(diff) /\ Holds(data, snap, diff)
                        /\ EndsIn(diff, selected)

SyncInv == file.synced <= Len(file.log)

IInv == TypeOK /\ FileInv /\ DownInv /\ RewriteInv /\ SyncInv

\* Where the file or the data set ends inside a transaction.
HalfInv ==
  /\ Up => HalfEnd(data) \subseteq halves
  /\ torn \/ HalfEnd(Load(file)) \subseteq halves

\* A write that a loss of power cannot take back, or one of the two exceptions.
Kept(i) == i <= Len(file.base) + file.synced \/ i \in hasty \/ renamed

\* Under the policy always, what was answered is kept, and so is what may be answered
\* in the round that is running; the rest is in the buffer.
AckInv ==
  Promised =>
    /\ \A i \in acked : i <= Len(data) /\ Kept(i)
    /\ \A c \in Clients : \A i \in out[c] : i <= Len(data)
    /\ bio = {}
    /\ phase \in {"poll", "sync"} => buf = <<>>
    /\ phase = "down" => \A c \in Clients : out[c] = {}
    /\ phase # "sync" => \A c \in Clients : \A i \in out[c] : Kept(i) \/ i > FileLen(file)
    /\ phase = "events" =>
         \A c \in Clients : "w" \in fired[c] => \A i \in out[c] : Kept(i)

-----------------------------------------------------------------------------
(* Facts about sequences                                                   *)

LEMMA ConcatAssoc ==
  ASSUME NEW S, NEW s \in Seq(S), NEW t \in Seq(S), NEW u \in Seq(S)
  PROVE  (s \o t) \o u = s \o (t \o u)
OBVIOUS

LEMMA ConcatEmpty ==
  ASSUME NEW S, NEW s \in Seq(S)
  PROVE  s \o <<>> = s /\ <<>> \in Seq(S)
OBVIOUS

LEMMA Joined ==
  ASSUME NEW S, NEW s \in Seq(S), NEW a \in Seq(S), NEW z \in Seq(S),
         Len(s) = Len(a) + Len(z),
         \A i \in 1..Len(a) : a[i] = s[i],
         \A i \in 1..Len(z) : z[i] = s[Len(a) + i]
  PROVE  a \o z = s
<1> DEFINE u == a \o z
<1>1. u \in Seq(S) /\ Len(u) = Len(s)
  BY Concat
<1>2. \A i \in 1..Len(a) : u[i] = a[i]
  BY Concat
<1>3. \A i \in 1..Len(z) : u[Len(a) + i] = z[i]
  BY Concat
<1> HIDE DEF u
<1>4. ASSUME NEW i \in 1..Len(s)  PROVE u[i] = s[i]
  <2>1. CASE i <= Len(a)
    BY <2>1, <1>2
  <2>2. CASE i > Len(a)
    <3> DEFINE k == i - Len(a)
    <3>1. k \in 1..Len(z) /\ i = Len(a) + k
      BY <2>2
    <3> HIDE DEF k
    <3> QED BY <3>1, <1>3
  <2> QED BY <2>1, <2>2
<1>5. u = s
  BY <1>1, <1>4
<1> QED BY <1>5 DEF u

LEMMA Cut ==
  ASSUME NEW S, NEW s \in Seq(S), NEW n \in 0..Len(s)
  PROVE  /\ SubSeq(s, 1, n) \in Seq(S) /\ SubSeq(s, n + 1, Len(s)) \in Seq(S)
         /\ Len(SubSeq(s, 1, n)) = n
         /\ SubSeq(s, 1, n) \o SubSeq(s, n + 1, Len(s)) = s
         /\ Prefix(SubSeq(s, 1, n), s)
<1>1. SubSeq(s, 1, n) \in Seq(S) /\ Len(SubSeq(s, 1, n)) = n
  OBVIOUS
<1>2. /\ SubSeq(s, n + 1, Len(s)) \in Seq(S)
      /\ Len(SubSeq(s, n + 1, Len(s))) = Len(s) - n
  OBVIOUS
<1>3. \A i \in 1..n : SubSeq(s, 1, n)[i] = s[i]
  OBVIOUS
<1>4. \A i \in 1..(Len(s) - n) : SubSeq(s, n + 1, Len(s))[i] = s[n + i]
  OBVIOUS
<1>5. SubSeq(s, 1, n) \o SubSeq(s, n + 1, Len(s)) = s
  <2> DEFINE a == SubSeq(s, 1, n)
             z == SubSeq(s, n + 1, Len(s))
  <2>1. a \in Seq(S) /\ z \in Seq(S) /\ Len(a) = n /\ Len(z) = Len(s) - n
    BY <1>1, <1>2
  <2>2. \A i \in 1..Len(a) : a[i] = s[i]
    BY <1>3, <2>1
  <2>3. \A i \in 1..Len(z) : z[i] = s[Len(a) + i]
    BY <1>4, <2>1
  <2> HIDE DEF a, z
  <2>4. Len(s) = Len(a) + Len(z)
    BY <2>1
  <2>5. a \o z = s
    BY <2>1, <2>2, <2>3, <2>4, Joined
  <2> QED BY <2>5 DEF a, z
<1>6. Prefix(SubSeq(s, 1, n), s)
  <2> DEFINE a == SubSeq(s, 1, n)
  <2>1. Len(a) = n /\ \A i \in 1..n : a[i] = s[i]
    BY <1>1, <1>3
  <2> HIDE DEF a
  <2>2. Prefix(a, s)
    BY <2>1 DEF Prefix
  <2> QED BY <2>2 DEF a
<1> QED BY <1>1, <1>2, <1>5, <1>6

LEMMA PrefixConcat ==
  ASSUME NEW S, NEW s \in Seq(S), NEW t \in Seq(S), NEW u \in Seq(S), Prefix(u, s)
  PROVE  Prefix(u, s \o t) /\ Prefix(s, s)
BY DEF Prefix

LEMMA PrefixTrans ==
  ASSUME NEW S, NEW s \in Seq(S), NEW t \in Seq(S), NEW u \in Seq(S),
         Prefix(u, t), Prefix(t, s)
  PROVE  Prefix(u, s)
BY DEF Prefix

LEMMA EmptyFacts ==
  ASSUME NEW d \in Seq(Write)
  PROVE  /\ WellSelected(<<>>) /\ Holds(d, d, <<>>) /\ \A s : EndsIn(s, NoDB)
         /\ <<>> \in Seq(Entry)
BY DEF WellSelected, Holds, EndsIn

-----------------------------------------------------------------------------
(* Steps that leave data, buffers and files as they are                    *)

StreamInv == FileInv /\ DownInv /\ RewriteInv /\ SyncInv

LEMMA Quiet ==
  ASSUME IInv, UNCHANGED <<data, buf, selected, size, snap, diff>>,
         file'.base = file.base, file'.log = file.log, file'.synced <= Len(file.log),
         Up, phase' # "down", (phase = "swap") <=> (phase' = "swap"),
         Rewriting <=> Rewriting', phase' \in {"rename", "swap"} => child' = "aof_ok"
  PROVE  StreamInv'
<1>1. Stream' = Stream /\ FileLen(file)' = FileLen(file) /\ Up' /\ (WellSelected(Stream)' <=> WellSelected(Stream))
  BY DEF Stream, FileLen, Up, WellSelected, SelectedAt
<1>2. FileInv'
  BY <1>1 DEF IInv, FileInv, Holds, EndsIn
<1>3. DownInv'
  BY DEF DownInv
<1>4. RewriteInv'
  BY <1>1 DEF IInv, RewriteInv, WellSelected, SelectedAt, Holds, EndsIn
<1>5. SyncInv'
  BY DEF SyncInv
<1> QED BY <1>2, <1>3, <1>4, <1>5 DEF StreamInv

LEMMA SyncedFacts ==
  ASSUME TypeOK
  PROVE  /\ Synced(file) \in [base : Seq(Write), log : Seq(Entry), synced : Nat]
         /\ Synced(file).base = file.base /\ Synced(file).log = file.log
         /\ Synced(file).synced = Len(file.log)
<1>1. file \in [base : Seq(Write), log : Seq(Entry), synced : Nat] /\ Len(file.log) \in Nat
  BY DEF TypeOK
<1> QED BY <1>1 DEF Synced

LEMMA QuietSteps ==
  ASSUME AofAssumption, IInv,
         \/ FlushNothing \/ PostponeFlush \/ Sync \/ Poll \/ EventsDone
         \/ \E c \in Clients : ReadOther(c) \/ SendReply(c)
         \/ CronIdle \/ CronSave \/ CronForkFails \/ CronSaved \/ WriteDiff
         \/ ChildEnds \/ BackgroundFsync \/ ShutdownFails
  PROVE  IInv'
<1> USE DEF loopVars, bufVars, jobVars, seenVars, GoTo, Up, Rewriting
<1>0. TypeOK /\ SyncInv /\ RewriteInv /\ StreamInv
  BY DEF IInv, StreamInv
<1>a. /\ file \in [base : Seq(Write), log : Seq(Entry), synced : Nat]
      /\ file.synced <= Len(file.log)
  BY <1>0 DEF TypeOK, SyncInv
<1>1. CASE FlushNothing
  <2>1. TypeOK'
    BY <1>0, <1>1 DEF TypeOK, Phases, FlushNothing
  <2>2. StreamInv'
    BY <1>0, <1>1, Quiet DEF FlushNothing, TypeOK, RewriteInv, SyncInv
  <2> QED BY <2>1, <2>2 DEF IInv, StreamInv
<1>2. CASE PostponeFlush
  <2>1. TypeOK'
    BY <1>0, <1>2 DEF TypeOK, Phases, PostponeFlush
  <2>2. StreamInv'
    BY <1>0, <1>2, Quiet DEF PostponeFlush, TypeOK, RewriteInv, SyncInv
  <2> QED BY <2>1, <2>2 DEF IInv, StreamInv
<1>3. CASE Sync
  <2>0. file' \in [base : Seq(Write), log : Seq(Entry), synced : Nat]
        /\ file'.base = file.base /\ file'.log = file.log /\ file'.synced <= Len(file.log)
    BY <1>0, <1>a, <1>3, SyncedFacts DEF Sync, SyncInv
  <2>1. TypeOK'
    BY <1>0, <1>3, <2>0 DEF TypeOK, Phases, Sync
  <2>2. StreamInv'
    BY <1>0, <1>3, <2>0, Quiet DEF Sync, TypeOK, RewriteInv
  <2> QED BY <2>1, <2>2 DEF IInv, StreamInv
<1>4. CASE Poll
  <2>1. TypeOK'
    BY <1>0, <1>4 DEF TypeOK, Phases, Poll
  <2>2. StreamInv'
    BY <1>0, <1>4, Quiet DEF Poll, TypeOK, RewriteInv, SyncInv
  <2> QED BY <2>1, <2>2 DEF IInv, StreamInv
<1>5. CASE EventsDone
  <2>1. TypeOK'
    BY <1>0, <1>5 DEF TypeOK, Phases, EventsDone
  <2>2. StreamInv'
    BY <1>0, <1>5, Quiet DEF EventsDone, TypeOK, RewriteInv, SyncInv
  <2> QED BY <2>1, <2>2 DEF IInv, StreamInv
<1>6. CASE CronIdle
  <2>1. TypeOK'
    BY <1>0, <1>6 DEF TypeOK, Phases, CronIdle
  <2>2. StreamInv'
    BY <1>0, <1>6, Quiet DEF CronIdle, TypeOK, RewriteInv, SyncInv
  <2> QED BY <2>1, <2>2 DEF IInv, StreamInv
<1>7. CASE CronSave
  <2>1. TypeOK'
    BY <1>0, <1>7 DEF TypeOK, Phases, CronSave
  <2>2. StreamInv'
    BY <1>0, <1>7, Quiet DEF CronSave, TypeOK, RewriteInv, SyncInv
  <2> QED BY <2>1, <2>2 DEF IInv, StreamInv
<1>8. CASE CronSaved
  <2>1. TypeOK'
    BY <1>0, <1>8 DEF TypeOK, Phases, CronSaved
  <2>2. StreamInv'
    BY <1>0, <1>8, Quiet DEF CronSaved, TypeOK, RewriteInv, SyncInv
  <2> QED BY <2>1, <2>2 DEF IInv, StreamInv
<1>9. CASE WriteDiff
  <2>1. TypeOK'
    BY <1>0, <1>9 DEF TypeOK, Phases, WriteDiff
  <2>2. StreamInv'
    BY <1>0, <1>9, Quiet DEF WriteDiff, TypeOK, RewriteInv, SyncInv
  <2> QED BY <2>1, <2>2 DEF IInv, StreamInv
<1>10. CASE ChildEnds
  <2>1. TypeOK'
    BY <1>0, <1>10 DEF TypeOK, Phases, ChildEnds, Fault
  <2>2. StreamInv'
    BY <1>0, <1>10, Quiet DEF ChildEnds, Fault, IInv, TypeOK, RewriteInv, SyncInv, DownInv, Phases
  <2> QED BY <2>1, <2>2 DEF IInv, StreamInv
<1>11. CASE BackgroundFsync
  <2>0. file' \in [base : Seq(Write), log : Seq(Entry), synced : Nat]
        /\ file'.base = file.base /\ file'.log = file.log /\ file'.synced <= Len(file.log)
    BY <1>0, <1>a, <1>11, SyncedFacts DEF BackgroundFsync, SyncInv
  <2>1. TypeOK'
    BY <1>0, <1>11, <2>0 DEF TypeOK, Phases, BackgroundFsync
  <2>2. StreamInv'
    <3>1. /\ Up /\ phase' = phase /\ child' = child
          /\ UNCHANGED <<data, buf, selected, size, snap, diff>>
      BY <1>11 DEF BackgroundFsync
    <3>2. (Rewriting <=> Rewriting') /\ (phase' \in {"rename", "swap"} => child' = "aof_ok")
          /\ phase' # "down" /\ ((phase = "swap") <=> (phase' = "swap"))
      BY <1>0, <3>1 DEF RewriteInv
    <3> QED BY <2>0, <3>1, <3>2, Quiet
  <2> QED BY <2>1, <2>2 DEF IInv, StreamInv
<1>12. CASE ShutdownFails
  <2>0. file' \in [base : Seq(Write), log : Seq(Entry), synced : Nat]
        /\ file'.base = file.base /\ file'.log = file.log /\ file'.synced <= Len(file.log)
    BY <1>0, <1>a, <1>12, SyncedFacts DEF ShutdownFails, Fault, MayShutDown, SyncInv
  <2>1. TypeOK'
    BY <1>0, <1>12, <2>0 DEF TypeOK, Phases, ShutdownFails, Fault, MayShutDown
  <2>2. StreamInv'
    BY <1>0, <1>12, <2>0, Quiet DEF ShutdownFails, Fault, MayShutDown, TypeOK, RewriteInv
  <2> QED BY <2>1, <2>2 DEF IInv, StreamInv
<1>13. ASSUME NEW c \in Clients, ReadOther(c)  PROVE IInv'
  <2>1. TypeOK'
    BY <1>0, <1>13 DEF TypeOK, Phases, ReadOther
  <2>2. StreamInv'
    BY <1>0, <1>13, Quiet DEF ReadOther, TypeOK, RewriteInv, SyncInv
  <2> QED BY <2>1, <2>2 DEF IInv, StreamInv
<1>14. ASSUME NEW c \in Clients, SendReply(c)  PROVE IInv'
  <2>1. TypeOK'
    BY <1>0, <1>14 DEF TypeOK, Phases, SendReply
  <2>2. StreamInv'
    BY <1>0, <1>14, Quiet DEF SendReply, TypeOK, RewriteInv, SyncInv
  <2> QED BY <2>1, <2>2 DEF IInv, StreamInv
<1>15. CASE CronForkFails
  <2>1. TypeOK'
    BY <1>0, <1>15 DEF TypeOK, Phases, CronForkFails, ForkFails, Fault
  <2>2. StreamInv'
    BY <1>0, <1>15, Quiet DEF CronForkFails, ForkFails, TypeOK, RewriteInv, SyncInv
  <2> QED BY <2>1, <2>2 DEF IInv, StreamInv
<1> QED BY <1>1, <1>2, <1>3, <1>4, <1>5, <1>6, <1>7, <1>8, <1>9, <1>10, <1>11, <1>12, <1>13, <1>14,
           <1>15

-----------------------------------------------------------------------------
(* The other steps                                                         *)

FileType == [base : Seq(Write), log : Seq(Entry), synced : Nat]

LEMMA TypeFacts ==
  ASSUME TypeOK
  PROVE  /\ file \in FileType /\ file.base \in Seq(Write) /\ file.log \in Seq(Entry)
         /\ file.synced \in Nat /\ data \in Seq(Write) /\ snap \in Seq(Write)
         /\ buf \in Seq(Entry) /\ diff \in Seq(Entry)
         /\ file.log \o buf \in Seq(Entry) /\ Stream \in Seq(Entry)
<1>1. /\ file \in FileType /\ data \in Seq(Write) /\ snap \in Seq(Write)
      /\ buf \in Seq(Entry) /\ diff \in Seq(Entry)
  BY DEF TypeOK, FileType
<1>2. file.base \in Seq(Write) /\ file.log \in Seq(Entry) /\ file.synced \in Nat
  BY <1>1 DEF FileType
<1>3. file.log \o buf \in Seq(Entry)
  BY <1>1, <1>2
<1> QED BY <1>1, <1>2, <1>3 DEF Stream

LEMMA NothingType ==
  /\ <<>> \in Seq(Write) /\ <<>> \in Seq(Entry)
  /\ [c \in Clients |-> {}] \in [Clients -> SUBSET {"r", "w"}]
  /\ [c \in Clients |-> {}] \in [Clients -> SUBSET (Nat \ {0})]
OBVIOUS

LEMMA InitStep ==
  ASSUME AofAssumption, Init
  PROVE  IInv
<1>1. TypeOK
  <2>1. file \in [base : Seq(Write), log : Seq(Entry), synced : Nat]
    BY NothingType DEF Init
  <2>2. /\ fired \in [Clients -> SUBSET {"r", "w"}] /\ out \in [Clients -> SUBSET (Nat \ {0})]
        /\ data \in Seq(Write) /\ snap \in Seq(Write) /\ buf \in Seq(Entry) /\ diff \in Seq(Entry)
    BY NothingType, Zenon DEF Init
  <2>3. faults \in 0..MaxFaults
    BY DEF Init, AofAssumption
  <2> QED BY <2>1, <2>2, <2>3 DEF Init, TypeOK, Phases
<1>2. Stream = <<>> /\ file.base = <<>> /\ file.log = <<>> /\ file.synced = 0 /\ data = <<>>
  BY DEF Init, Stream
<1>3. /\ WellSelected(<<>>) /\ Holds(<<>>, <<>>, <<>>) /\ \A s : EndsIn(s, NoDB)
  BY EmptyFacts, NothingType
<1>4. FileLen(file) = 0
  BY <1>2 DEF FileLen
<1>5. FileInv
  BY <1>2, <1>3, <1>4 DEF FileInv, Init
<1>6. DownInv /\ RewriteInv /\ SyncInv
  BY <1>2 DEF Init, DownInv, RewriteInv, SyncInv, Rewriting
<1> QED BY <1>1, <1>5, <1>6 DEF IInv

LEMMA WriteBufferStep ==
  ASSUME IInv, WriteBuffer
  PROVE  IInv'
<1> USE DEF bufVars, jobVars, seenVars, GoTo, MayWrite, WriteBuffer
<1>0. TypeOK /\ FileInv /\ RewriteInv /\ SyncInv
  BY DEF IInv
<1>1. /\ file \in FileType /\ file.log \o buf \in Seq(Entry) /\ file.log \in Seq(Entry)
      /\ buf \in Seq(Entry) /\ file.base \in Seq(Write)
  BY <1>0, TypeFacts
<1>2. /\ file' \in FileType /\ file'.log = file.log \o buf /\ file'.base = file.base
      /\ file'.synced = file.synced /\ buf' = <<>>
  BY <1>1 DEF FileType
<1>3. TypeOK'
  <2>1. size' \in Nat
    <3>1. Len(buf) \in Nat
      BY <1>1
    <3> QED BY <1>0, <3>1 DEF TypeOK
  <2> QED BY <1>0, <1>2, <2>1, NothingType DEF TypeOK, Phases, FileType
<1>4. Stream = file.log \o buf /\ Stream' = Stream
  BY <1>1, <1>2, ConcatEmpty DEF Stream
<1>5. /\ Len(file'.log) = Len(file.log) + Len(buf) /\ Len(file'.base) = Len(file.base)
      /\ Len(file.log) \in Nat /\ Len(buf) \in Nat /\ Len(file.base) \in Nat
  <2>1. Len(file.log \o buf) = Len(file.log) + Len(buf) /\ Len(file.log) \in Nat /\ Len(buf) \in Nat
    BY ONLY <1>1, Concat
  <2>2. Len(file.base) \in Nat
    BY <1>1
  <2> QED BY <1>2, <2>1, <2>2
<1>6. FileInv'
  <2>1. WellSelected(Stream)'
    BY <1>0, <1>4 DEF FileInv, WellSelected, SelectedAt
  <2>2. Holds(data, file.base, Stream)'
    BY <1>0, <1>2, <1>4 DEF FileInv, Holds, Up
  <2>3. size' = FileLen(file)'
    <3>1. size = Len(file.base) + Len(file.log)
      BY <1>0 DEF FileInv, FileLen, Up
    <3>2. size' = size + Len(buf)
      OBVIOUS
    <3> DEFINE base == Len(file.base)
               log == Len(file.log)
               both == Len(file'.log)
    <3>3. both = log + Len(buf) /\ log \in Nat /\ Len(buf) \in Nat /\ base \in Nat /\ size = base + log
      BY <1>5, <3>1
    <3> HIDE DEF base, log, both
    <3>4. size' = base + both
      BY ONLY <3>2, <3>3
    <3> QED BY <1>5, <3>4 DEF FileLen, base, both
  <2>4. EndsIn(Stream, selected)'
    BY <1>0, <1>4 DEF FileInv, EndsIn, Up
  <2> QED BY <2>1, <2>2, <2>3, <2>4 DEF FileInv
<1>7. SyncInv'
  BY <1>0, <1>1, <1>2 DEF SyncInv, FileType
<1>8. DownInv' /\ RewriteInv'
  BY <1>0 DEF DownInv, RewriteInv, WellSelected, SelectedAt, Holds, EndsIn, Up, Rewriting
<1> QED BY <1>3, <1>6, <1>7, <1>8 DEF IInv

\* Going down leaves a part of the stream on disk.
LEMMA DieStep ==
  ASSUME IInv, Die, file' \in FileType, file'.base = file.base, Prefix(file'.log, Stream),
         file'.synced <= Len(file'.log), Up, UNCHANGED <<hasty, renamed>>, torn' \in BOOLEAN,
         faults' \in 0..MaxFaults
  PROVE  IInv'
<1>0. TypeOK /\ FileInv
  BY DEF IInv
<1>1. Stream \in Seq(Entry) /\ file'.log \in Seq(Entry)
  BY <1>0, TypeFacts DEF FileType
<1>2. TypeOK'
  BY <1>0, NothingType DEF TypeOK, Phases, FileType, Die
<1>3. Stream' = file'.log
  BY <1>1, ConcatEmpty DEF Stream, Die
<1>4. WellSelected(file'.log)
  BY <1>0, <1>1, PrefixWellSelected DEF FileInv
<1>5. FileInv'
  BY <1>3, <1>4 DEF FileInv, Up, Die, WellSelected, SelectedAt
<1>6. DownInv'
  <2>1. Prefix(file'.log, Stream) /\ Holds(data, file.base, Stream)
    BY <1>0 DEF FileInv
  <2>2. \E s \in Seq(Entry) : Prefix(file'.log, s) /\ Holds(data', file'.base, s)
    BY <2>1, <1>1 DEF Die
  <2> QED BY <2>2 DEF DownInv, Die, Prefix, Holds
<1>7. RewriteInv' /\ SyncInv'
  BY DEF RewriteInv, SyncInv, Die, Rewriting, Up
<1> QED BY <1>2, <1>5, <1>6, <1>7 DEF IInv

LEMMA LogInStream ==
  ASSUME IInv
  PROVE  Prefix(file.log, Stream) /\ Prefix(file.log, file.log)
<1>1. file.log \in Seq(Entry) /\ buf \in Seq(Entry)
  BY TypeFacts DEF IInv
<1>2. Prefix(file.log, file.log) /\ Prefix(file.log, file.log \o buf)
  BY <1>1, PrefixConcat DEF Prefix
<1> QED BY <1>2 DEF Stream

LEMMA EndSteps ==
  ASSUME AofAssumption, IInv, Shutdown \/ Kill
  PROVE  IInv'
<1>0. TypeOK /\ SyncInv /\ Prefix(file.log, Stream) /\ file \in FileType
  BY LogInStream, TypeFacts DEF IInv
<1>1. Up /\ Die /\ UNCHANGED <<hasty, renamed>> /\ torn' \in BOOLEAN
  BY <1>0 DEF Shutdown, Kill, MayShutDown, Up, TypeOK
<1>2. /\ file' \in FileType /\ file'.base = file.base /\ file'.log = file.log
      /\ file'.synced <= Len(file.log)
  BY <1>0, SyncedFacts DEF Shutdown, Kill, SyncInv, FileType, TypeOK
<1>3. faults' \in 0..MaxFaults
  BY <1>0 DEF TypeOK, Shutdown, Kill, Fault, AofAssumption
<1> QED BY <1>0, <1>1, <1>2, <1>3, DieStep

LEMMA PowerLossStep ==
  ASSUME AofAssumption, IInv, PowerLoss
  PROVE  IInv'
<1>0. TypeOK /\ SyncInv /\ FileInv /\ Prefix(file.log, Stream) /\ file \in FileType
      /\ file.log \in Seq(Entry) /\ Stream \in Seq(Entry) /\ Die
  BY LogInStream, TypeFacts DEF IInv, PowerLoss
<1>1. PICK n \in file.synced..Len(file.log) :
        /\ file' = [file EXCEPT !.log = SubSeq(@, 1, n)]
        /\ torn' = (torn \/ n < Len(file.log))
  BY DEF PowerLoss
<1>2. n \in 0..Len(file.log) /\ n >= file.synced
  BY <1>0 DEF FileType
<1>3. LET log == SubSeq(file.log, 1, n)
      IN  log \in Seq(Entry) /\ Len(log) = n /\ Prefix(log, file.log)
  BY <1>0, <1>2, Cut
<1>4. /\ file' \in FileType /\ file'.base = file.base /\ file'.log = SubSeq(file.log, 1, n)
      /\ file'.synced = file.synced
  BY <1>0, <1>1, <1>3 DEF FileType
<1>5. file'.log \in Seq(Entry) /\ Prefix(file'.log, file.log) /\ file'.synced <= Len(file'.log)
  BY <1>2, <1>3, <1>4
<1>6. Prefix(file'.log, Stream)
  BY <1>0, <1>5, PrefixTrans
<1>7. UNCHANGED <<hasty, renamed>> /\ torn' \in BOOLEAN /\ faults' \in 0..MaxFaults
  BY <1>0, <1>1 DEF PowerLoss, Fault, TypeOK, AofAssumption
<1>8. CASE Up
  BY <1>0, <1>4, <1>5, <1>6, <1>7, <1>8, DieStep
<1>9. CASE phase = "down"
  <2>1. TypeOK'
    BY <1>0, <1>4, <1>7, NothingType DEF TypeOK, Phases, FileType, Die
  <2>2. Stream' = file'.log
    BY <1>0, <1>5, ConcatEmpty DEF Stream, Die
  <2>3. Stream = file.log
    BY <1>0, <1>9, ConcatEmpty DEF Stream, IInv, DownInv
  <2>4. WellSelected(file'.log)
    BY <1>0, <1>5, <2>3, PrefixWellSelected DEF FileInv
  <2>5. FileInv'
    BY <1>0, <2>2, <2>4 DEF FileInv, Up, Die, WellSelected, SelectedAt
  <2>6. PICK s \in Seq(Entry) : Prefix(file.log, s) /\ Holds(data, file.base, s)
    BY <1>9 DEF IInv, DownInv
  <2>7. Prefix(file'.log, s) /\ Holds(data', file'.base, s)
    BY <1>0, <1>4, <1>5, <2>6, PrefixTrans DEF Die
  <2>8. DownInv'
    BY <1>0, <2>7 DEF DownInv, Die, Prefix, Holds
  <2>9. RewriteInv' /\ SyncInv'
    BY <1>0, <1>5 DEF RewriteInv, SyncInv, Die, Rewriting, Up
  <2> QED BY <2>1, <2>5, <2>8, <2>9 DEF IInv
<1> QED BY <1>8, <1>9 DEF Up

LEMMA ReadCommandStep ==
  ASSUME AofAssumption, IInv, NEW c \in Clients, ReadCommand(c)
  PROVE  IInv'
<1>0. TypeOK /\ FileInv /\ RewriteInv /\ SyncInv /\ phase = "events" /\ phase' = "events"
  BY DEF IInv, ReadCommand
<1>1. PICK ws \in Commands :
        /\ Feed(ws)
        /\ out' = [out EXCEPT ![c] = @ \cup Ids(ws)]
        /\ hasty' = IF Promised /\ "w" \in fired[c] THEN hasty \cup Ids(ws) ELSE hasty
  BY DEF ReadCommand
<1> DEFINE e == Encoded(ws)
           n == Len(ws)
<1>2. /\ ws \in Seq(Write) /\ n \in {1, 2} /\ \A j \in 1..n : ws[j].id = Len(data) + j
  BY <1>0, CommandsType DEF TypeOK
<1>3. /\ e \in Seq(Entry) /\ Len(e) = n /\ \A j \in 1..n : e[j].w = ws[j]
      /\ e[1].sel <=> ws[1].db # selected
      /\ n = 2 => (e[2].sel <=> ws[2].db # ws[1].db)
  BY <1>2, EncodedType
<1>4. Ids(ws) \subseteq Nat \ {0} /\ ws[n].db \in DBs
  <2>1. \A j \in 1..n : ws[j] \in Write
    BY <1>2
  <2> QED BY <1>2, <2>1 DEF Ids, Write
<1>5. /\ data' = data \o ws /\ buf' = buf \o e
      /\ diff' = (IF Rewriting THEN diff \o e ELSE diff) /\ selected' = ws[n].db
  BY <1>1 DEF Feed
<1> HIDE DEF e, n
<1>6. /\ file.base \in Seq(Write) /\ file.log \in Seq(Entry) /\ data \in Seq(Write)
      /\ snap \in Seq(Write) /\ buf \in Seq(Entry) /\ diff \in Seq(Entry)
      /\ Stream \in Seq(Entry)
  BY <1>0, TypeFacts
<1>7. UNCHANGED <<conf, phase, size, postponed, failing, file, child, snap, scheduled, bio,
                 acked, torn, renamed, halves, faults>>
  BY DEF ReadCommand
<1>8. TypeOK'
  <2>1. data' \in Seq(Write)
    BY <1>2, <1>5, <1>6, Concat
  <2>2. buf' \in Seq(Entry) /\ diff' \in Seq(Entry)
    BY <1>3, <1>5, <1>6, Concat
  <2>3. out' \in [Clients -> SUBSET (Nat \ {0})] /\ hasty' \subseteq Nat \ {0}
    BY <1>0, <1>1, <1>4 DEF TypeOK
  <2>4. fired' \in [Clients -> SUBSET {"r", "w"}]
    BY <1>0 DEF TypeOK, ReadCommand
  <2>5. selected' \in DBs \cup {NoDB}
    BY <1>4, <1>5 DEF n
  <2> QED BY <1>0, <1>7, <2>1, <2>2, <2>3, <2>4, <2>5 DEF TypeOK
<1>9. Stream' = Stream \o e
  <2>1. (file.log \o buf) \o e = file.log \o (buf \o e)
    <3> DEFINE log == file.log
    <3>1. log \in Seq(Entry) /\ buf \in Seq(Entry) /\ e \in Seq(Entry)
      BY <1>3, <1>6
    <3> HIDE DEF log
    <3>2. (log \o buf) \o e = log \o (buf \o e)
      BY ONLY <3>1, ConcatAssoc
    <3> QED BY <3>2 DEF log
  <2>2. Stream = file.log \o buf /\ Stream' = file'.log \o buf'
    BY <1>0 DEF Stream
  <2> QED BY <1>5, <1>7, <2>1, <2>2
<1>10. /\ WellSelected(Stream) /\ Holds(data, file.base, Stream) /\ EndsIn(Stream, selected)
       /\ size = FileLen(file)
  BY <1>0 DEF FileInv, Up
<1>11. Holds(data \o ws, file.base, Stream \o e)
  BY <1>2, <1>3, <1>6, <1>10, FeedHolds DEF n
<1>12. WellSelected(Stream \o e) /\ EndsIn(Stream \o e, ws[n].db)
  BY <1>2, <1>3, <1>6, <1>10, FeedWellSelected DEF n
<1>13. FileInv'
  <2>1. WellSelected(Stream') /\ Holds(data', file'.base, Stream') /\ EndsIn(Stream', selected')
    BY <1>5, <1>7, <1>9, <1>11, <1>12
  <2>2. size' = FileLen(file')
    BY <1>7, <1>10
  <2> QED BY <2>1, <2>2 DEF FileInv, WellSelected, SelectedAt, Holds, EndsIn, FileLen
<1>14. RewriteInv'
  <2>1. CASE ~ Rewriting
    BY <1>0, <1>5, <1>7, <2>1 DEF RewriteInv, Rewriting
  <2>2. CASE Rewriting
    <3>1. WellSelected(diff) /\ Holds(data, snap, diff) /\ EndsIn(diff, selected)
      BY <1>0, <2>2 DEF RewriteInv, Up
    <3>2. Holds(data \o ws, snap, diff \o e)
      BY <1>2, <1>3, <1>6, <3>1, FeedHolds DEF n
    <3>3. WellSelected(diff \o e) /\ EndsIn(diff \o e, ws[n].db)
      BY <1>2, <1>3, <1>6, <3>1, FeedWellSelected DEF n
    <3>4. WellSelected(diff') /\ Holds(data', snap', diff') /\ EndsIn(diff', selected')
      BY <1>5, <1>7, <2>2, <3>2, <3>3
    <3> QED BY <1>0, <1>7, <2>2, <3>4 DEF RewriteInv, Rewriting, WellSelected, SelectedAt, Holds, EndsIn
  <2> QED BY <2>1, <2>2
<1>15. SyncInv' /\ DownInv'
  BY <1>0, <1>7 DEF SyncInv, DownInv
<1> QED BY <1>8, <1>13, <1>14, <1>15 DEF IInv

LEMMA ShortWriteStep ==
  ASSUME AofAssumption, IInv, ShortWrite
  PROVE  IInv'
<1>0. TypeOK /\ FileInv /\ RewriteInv /\ SyncInv /\ phase = "flush" /\ buf # <<>>
      /\ file \in FileType /\ file.log \in Seq(Entry) /\ buf \in Seq(Entry)
      /\ file.base \in Seq(Write)
  BY TypeFacts DEF IInv, ShortWrite, MayWrite
<1>1. PICK n \in 0..(Len(buf) - 1), cut \in BOOLEAN :
        LET long == file.log \o SubSeq(buf, 1, n) IN
        /\ file' = [file EXCEPT !.log = IF cut THEN SubSeq(long, 1, size - Len(file.base))
                                        ELSE long]
        /\ torn' = (torn \/ (~ cut /\ n > 0))
        /\ IF conf.fsync = "always" THEN Die
           ELSE /\ GoTo("poll")
                /\ failing' = TRUE /\ postponed' = FALSE
                /\ buf' = IF cut THEN buf ELSE SubSeq(buf, n + 1, Len(buf))
                /\ size' = IF cut THEN size ELSE size + n
                /\ UNCHANGED <<conf, data, selected, jobVars, bio, acked, halves>>
  BY DEF ShortWrite
<1> DEFINE log == file.log
           a == SubSeq(buf, 1, n)
           z == SubSeq(buf, n + 1, Len(buf))
           baseLen == Len(file.base)
<1>2. /\ log \in Seq(Entry) /\ a \in Seq(Entry) /\ z \in Seq(Entry) /\ Len(a) = n /\ a \o z = buf
      /\ Len(log) \in Nat /\ baseLen \in Nat /\ n \in Nat
  BY <1>0, Cut
<1>3. size = baseLen + Len(log) /\ Stream = log \o buf
  BY <1>0 DEF FileInv, Up, FileLen, Stream
<1> HIDE DEF log, a, z, baseLen
<1>4. /\ log \o a \in Seq(Entry) /\ Len(log \o a) = Len(log) + n
      /\ (log \o a) \o z = log \o buf
  <2>1. (log \o a) \o z = log \o (a \o z)
    <3>1. log \in Seq(Entry) /\ a \in Seq(Entry) /\ z \in Seq(Entry)
      BY <1>2
    <3> QED BY ONLY <3>1, ConcatAssoc
  <2> QED BY <1>2, <2>1, Concat
<1>5. SubSeq(log \o a, 1, size - baseLen) = log
  <2>1. size - baseLen = Len(log)
    BY ONLY <1>2, <1>3
  <2>2. SubSeq(log \o a, 1, Len(log)) = log
    BY ONLY <1>2
  <2> QED BY <2>1, <2>2
<1>6. /\ file' \in FileType /\ file'.base = file.base /\ file'.synced = file.synced
      /\ file'.log = IF cut THEN log ELSE log \o a
  <2>1. file' = [file EXCEPT !.log = IF cut THEN log ELSE log \o a]
    BY <1>1, <1>5 DEF log, a, baseLen
  <2> QED BY <1>0, <1>2, <1>4, <2>1 DEF FileType
<1>7. UNCHANGED <<hasty, renamed>> /\ torn' \in BOOLEAN /\ faults' \in 0..MaxFaults
  <2>1. torn' = (torn \/ (~ cut /\ n > 0))
    BY <1>1
  <2>2. torn' \in BOOLEAN
    BY <1>0, <2>1 DEF TypeOK
  <2>3. UNCHANGED <<hasty, renamed>> /\ faults' \in 0..MaxFaults
    BY <1>0 DEF ShortWrite, Fault, TypeOK, AofAssumption
  <2> QED BY <2>2, <2>3
<1>8. file'.synced <= Len(file'.log)
  <2>1. file.synced <= Len(log) /\ file.synced \in Nat
    BY <1>0 DEF SyncInv, FileType, log
  <2> DEFINE new == file'.log
             k == file'.synced
  <2>2. k \in Nat /\ k <= Len(log) /\ (Len(new) = Len(log) \/ Len(new) = Len(log) + n)
    BY <1>4, <1>6, <2>1
  <2> HIDE DEF new, k
  <2>3. k <= Len(new)
    BY ONLY <1>2, <2>2
  <2> QED BY <2>3 DEF new, k
<1>9. CASE conf.fsync = "always"
  <2>1. Prefix(log, Stream) /\ Prefix(log \o a, Stream)
    <3>1. Prefix(log, log \o buf)
      BY <1>0, <1>2, PrefixConcat DEF Prefix
    <3>2. Prefix(log \o a, (log \o a) \o z)
      <4> DEFINE l == log \o a
      <4>1. l \in Seq(Entry)
        BY <1>4
      <4> HIDE DEF l
      <4>2. Prefix(l, l)
        BY <4>1 DEF Prefix
      <4>3. Prefix(l, l \o z)
        BY <1>2, <4>1, <4>2, PrefixConcat
      <4> QED BY <4>3 DEF l
    <3> QED BY <1>3, <1>4, <3>1, <3>2
  <2>2. Prefix(file'.log, Stream)
    BY <1>6, <2>1
  <2>3. Die /\ Up
    BY <1>0, <1>1, <1>9 DEF Up
  <2> QED BY <1>6, <1>7, <1>8, <2>2, <2>3, DieStep
<1>10. CASE conf.fsync # "always"
  <2>1. /\ phase' = "poll" /\ failing' = TRUE /\ postponed' = FALSE /\ UNCHANGED <<fired, out>>
        /\ buf' = (IF cut THEN buf ELSE z) /\ size' = (IF cut THEN size ELSE size + n)
        /\ UNCHANGED <<conf, data, selected, child, snap, diff, scheduled, bio, acked, halves>>
    BY <1>1, <1>10 DEF GoTo, jobVars, z
  <2>2. TypeOK'
    <3>1. size' \in Nat /\ buf' \in Seq(Entry)
      BY <1>0, <1>2, <2>1 DEF TypeOK
    <3> QED BY <1>0, <1>6, <1>7, <2>1, <3>1 DEF TypeOK, FileType, Phases
  <2>3. Stream' = Stream
    <3>1. Stream' = file'.log \o buf'
      BY <2>1 DEF Stream
    <3> QED BY <1>3, <1>4, <1>6, <2>1, <3>1
  <2>4. size' = FileLen(file')
    <3> DEFINE new == Len(file'.log)
    <3>1. new = (IF cut THEN Len(log) ELSE Len(log) + n)
      BY <1>4, <1>6
    <3>2. Len(file'.base) = baseLen
      BY <1>6 DEF baseLen
    <3> HIDE DEF new
    <3>3. size' = baseLen + new
      BY ONLY <1>2, <1>3, <2>1, <3>1
    <3> QED BY <3>2, <3>3 DEF FileLen, new
  <2>5. FileInv'
    <3>1. WellSelected(Stream) /\ Holds(data, file.base, Stream) /\ EndsIn(Stream, selected)
      BY <1>0 DEF FileInv, Up
    <3>2. WellSelected(Stream') /\ Holds(data', file'.base, Stream') /\ EndsIn(Stream', selected')
      BY <1>6, <2>1, <2>3, <3>1
    <3> QED BY <2>4, <3>2 DEF FileInv, WellSelected, SelectedAt, Holds, EndsIn, FileLen
  <2>6. DownInv' /\ SyncInv'
    BY <1>8, <2>1 DEF DownInv, SyncInv
  <2>7. RewriteInv'
    BY <1>0, <2>1 DEF RewriteInv, Rewriting, Up, WellSelected, SelectedAt, Holds, EndsIn
  <2> QED BY <2>2, <2>5, <2>6, <2>7 DEF IInv
<1> QED BY <1>9, <1>10

\* A fork: no differences yet, and the next command brings its SELECT.
LEMMA ForkStep ==
  ASSUME IInv, Fork, Up, ~ Rewriting, phase \notin {"rename", "swap"},
         phase' \in Phases \ {"down", "rename", "swap"}, TypeOK',
         UNCHANGED <<data, buf, size, file>>
  PROVE  IInv'
<1>0. TypeOK /\ FileInv /\ RewriteInv /\ SyncInv /\ data \in Seq(Write)
  BY DEF IInv, TypeOK
<1>1. diff' = <<>> /\ snap' = data /\ selected' = NoDB /\ child' = "aof"
  BY <1>0 DEF Fork, RewriteInv
<1>2. WellSelected(<<>>) /\ Holds(data, data, <<>>) /\ \A s : EndsIn(s, NoDB)
  BY <1>0, EmptyFacts
<1>3. Stream' = Stream
  BY DEF Stream
<1>4. FileInv'
  <2>1. WellSelected(Stream) /\ Holds(data, file.base, Stream) /\ size = FileLen(file)
    BY <1>0 DEF FileInv
  <2>2. /\ WellSelected(Stream') /\ Holds(data', file'.base, Stream') /\ size' = FileLen(file')
        /\ EndsIn(Stream', selected')
    BY <1>1, <1>2, <1>3, <2>1
  <2> QED BY <2>2 DEF FileInv, WellSelected, SelectedAt, Holds, EndsIn, FileLen
<1>5. RewriteInv'
  <2>1. WellSelected(diff') /\ Holds(data', snap', diff') /\ EndsIn(diff', selected')
    BY <1>1, <1>2
  <2> QED BY <1>1, <2>1 DEF RewriteInv, Rewriting, WellSelected, SelectedAt, Holds, EndsIn
<1>6. DownInv' /\ SyncInv'
  BY <1>0 DEF DownInv, SyncInv
<1> QED BY <1>4, <1>5, <1>6 DEF IInv

LEMMA ForkSteps ==
  ASSUME AofAssumption, IInv, CronRewrite \/ \E c \in Clients : RewriteCommand(c)
  PROVE  IInv'
<1> USE DEF bufVars, jobVars, seenVars
<1>0. TypeOK /\ SyncInv /\ RewriteInv
  BY DEF IInv
<1>1. CASE CronRewrite
  <2>1. TypeOK'
    BY <1>0, <1>1 DEF TypeOK, Phases, CronRewrite, Fork, GoTo
  <2>2. Fork /\ Up /\ ~ Rewriting /\ phase = "cron" /\ phase' = "flush"
        /\ UNCHANGED <<data, buf, size, file>>
    BY <1>1 DEF CronRewrite, GoTo, Rewriting, Up
  <2> QED BY <2>1, <2>2, ForkStep DEF Phases
<1>2. ASSUME NEW c \in Clients, RewriteCommand(c)  PROVE IInv'
  <2>1. TypeOK'
    <3>1. CASE Fork /\ UNCHANGED faults
      BY <1>0, <1>2, <3>1 DEF TypeOK, Phases, RewriteCommand, Fork
    <3>2. CASE ForkFails /\ UNCHANGED child
      BY <1>0, <1>2, <3>2 DEF TypeOK, Phases, RewriteCommand, ForkFails, Fault, AofAssumption
    <3>3. CASE scheduled' = TRUE /\ UNCHANGED <<child, snap, diff, selected, faults>>
      BY <1>0, <1>2, <3>3 DEF TypeOK, Phases, RewriteCommand
    <3> QED BY <1>2, <3>1, <3>2, <3>3 DEF RewriteCommand
  <2>2. /\ Up /\ ~ Rewriting /\ phase = "events" /\ phase' = "events"
        /\ UNCHANGED <<data, buf, size, file>>
    BY <1>2 DEF RewriteCommand, Up
  <2>3. CASE Fork
    BY <2>1, <2>2, <2>3, ForkStep DEF Phases
  <2>4. CASE UNCHANGED <<child, snap, diff, selected>>
    <3>1. StreamInv'
      BY <1>0, <2>2, <2>4, Quiet DEF SyncInv, Rewriting, Up
    <3> QED BY <2>1, <3>1 DEF IInv, StreamInv
  <2> QED BY <1>2, <2>3, <2>4 DEF RewriteCommand, ForkFails
<1> QED BY <1>1, <1>2

LEMMA RewriteFailsStep ==
  ASSUME AofAssumption, IInv, RewriteFails
  PROVE  IInv'
<1> USE DEF bufVars, jobVars
<1>0. TypeOK /\ FileInv /\ RewriteInv /\ SyncInv
  BY DEF IInv
<1>1. TypeOK'
  BY <1>0, NothingType DEF TypeOK, Phases, RewriteFails, Cleanup, GoTo, Fault
<1>2. /\ UNCHANGED <<data, buf, selected, size, file>> /\ phase \in {"cron", "rename"}
      /\ phase' = "flush" /\ child' = "none" /\ diff' = <<>>
  BY DEF RewriteFails, Cleanup, GoTo
<1>3. Stream' = Stream
  BY <1>2 DEF Stream
<1>4. FileInv'
  BY <1>0, <1>2, <1>3 DEF FileInv, Up, WellSelected, SelectedAt, Holds, EndsIn, FileLen
<1>5. RewriteInv' /\ DownInv' /\ SyncInv'
  BY <1>0, <1>2 DEF RewriteInv, DownInv, SyncInv, Rewriting
<1> QED BY <1>1, <1>4, <1>5 DEF IInv

LEMMA RenameStep ==
  ASSUME IInv, Rename
  PROVE  IInv'
<1> USE DEF bufVars, jobVars
<1>0. TypeOK /\ FileInv /\ RewriteInv /\ SyncInv /\ diff \in Seq(Entry) /\ snap \in Seq(Write)
  BY TypeFacts DEF IInv
<1>1. /\ file' = [base |-> snap, log |-> diff, synced |-> 0] /\ phase = "rename" /\ phase' = "swap"
      /\ UNCHANGED <<data, buf, selected, size, child, snap, diff>>
  BY DEF Rename, GoTo
<1>2. file' \in FileType /\ file'.base = snap /\ file'.log = diff /\ file'.synced = 0
  BY <1>0, <1>1 DEF FileType
<1>3. TypeOK'
  BY <1>0, <1>2 DEF TypeOK, FileType, Phases, Rename, GoTo, Promised
<1>4. Stream' = diff
  BY <1>1, <1>2 DEF Stream
<1>5. child = "aof_ok" /\ WellSelected(diff) /\ Holds(data, snap, diff) /\ EndsIn(diff, selected)
  BY <1>0, <1>1 DEF RewriteInv, Rewriting, Up
<1>6. FileInv'
  <2>1. WellSelected(Stream') /\ Holds(data', file'.base, Stream')
    BY <1>1, <1>2, <1>4, <1>5
  <2> QED BY <1>1, <2>1 DEF FileInv, WellSelected, SelectedAt, Holds
<1>7. RewriteInv'
  BY <1>1, <1>5 DEF RewriteInv, Rewriting, WellSelected, SelectedAt, Holds, EndsIn
<1>8. SyncInv' /\ DownInv'
  BY <1>0, <1>1, <1>2 DEF SyncInv, DownInv
<1> QED BY <1>3, <1>6, <1>7, <1>8 DEF IInv

LEMMA SwapStep ==
  ASSUME IInv, Swap
  PROVE  IInv'
<1>0. TypeOK /\ FileInv /\ RewriteInv /\ SyncInv /\ file \in FileType /\ file.log \in Seq(Entry)
  BY TypeFacts DEF IInv
<1>1. /\ file' \in FileType /\ file'.base = file.base /\ file'.log = file.log
      /\ file'.synced <= Len(file.log)
  BY <1>0, SyncedFacts DEF Swap, FileType, SyncInv
<1>2. /\ phase = "swap" /\ phase' = "flush" /\ size' = FileLen(file) /\ buf' = <<>>
      /\ selected' = NoDB /\ child' = "none" /\ diff' = <<>> /\ snap' = <<>>
      /\ UNCHANGED <<data, scheduled, conf, fired, out, postponed, failing, acked, torn, halves, faults>>
  BY DEF Swap, Cleanup, GoTo
<1>3. TypeOK'
  <2>1. size' \in Nat
    <3> DEFINE base == Len(file.base)
               log == Len(file.log)
    <3>1. base \in Nat /\ log \in Nat
      BY <1>0 DEF FileType
    <3> HIDE DEF base, log
    <3>2. base + log \in Nat
      BY ONLY <3>1
    <3> QED BY <1>2, <3>2 DEF FileLen, base, log
  <2>2. bio' \subseteq {"old", "new"} /\ hasty' \subseteq Nat \ {0} /\ renamed' \in BOOLEAN
    BY <1>0 DEF Swap, TypeOK
  <2> QED BY <1>0, <1>1, <1>2, <2>1, <2>2, NothingType DEF TypeOK, FileType, Phases
<1>4. Stream' = file'.log /\ Stream = file.log
  BY <1>0, <1>1, <1>2, ConcatEmpty DEF Stream
<1>5. WellSelected(file.log) /\ Holds(data, file.base, file.log)
  BY <1>0, <1>2, <1>4 DEF FileInv, Up
<1>6. FileInv'
  <2>1. WellSelected(Stream') /\ Holds(data', file'.base, Stream') /\ EndsIn(Stream', selected')
    BY <1>1, <1>2, <1>4, <1>5 DEF EndsIn
  <2>2. size' = FileLen(file')
    BY <1>1, <1>2 DEF FileLen
  <2> QED BY <2>1, <2>2 DEF FileInv, WellSelected, SelectedAt, Holds, EndsIn, FileLen
<1>7. RewriteInv' /\ SyncInv' /\ DownInv'
  BY <1>1, <1>2 DEF RewriteInv, SyncInv, DownInv, Rewriting
<1> QED BY <1>3, <1>6, <1>7 DEF IInv

\* What is loaded is what the file alone makes, a part of what there was.
LEMMA RestartStep ==
  ASSUME IInv, Restart
  PROVE  IInv' /\ Prefix(data', data) /\ data' = Load(file) /\ Len(data') = FileLen(file)
<1>0. TypeOK /\ FileInv /\ SyncInv /\ DownInv /\ RewriteInv /\ file \in FileType
      /\ file.log \in Seq(Entry) /\ file.base \in Seq(Write) /\ data \in Seq(Write)
  BY TypeFacts DEF IInv
<1>1. /\ phase = "down" /\ phase' = "flush" /\ data' = Load(file) /\ size' = FileLen(file)
      /\ UNCHANGED <<conf, fired, out, buf, selected, postponed, failing, file, child, snap, diff,
                     scheduled, bio, renamed, faults>>
  BY DEF Restart, jobVars
<1>2. buf = <<>> /\ selected = NoDB /\ child = "none"
  BY <1>0, <1>1 DEF DownInv
<1>3. Stream = file.log /\ Stream' = file.log
  BY <1>0, <1>1, <1>2, ConcatEmpty DEF Stream
<1>4. WellSelected(file.log)
  BY <1>0, <1>3 DEF FileInv
<1>5. data' \in Seq(Write) /\ Holds(data', file.base, file.log) /\ Len(data') = FileLen(file)
  BY <1>0, <1>1, <1>4, LoadWellSelected DEF FileType
<1>6. Prefix(data', data)
  <2>1. PICK s \in Seq(Entry) : Prefix(file.log, s) /\ Holds(data, file.base, s)
    BY <1>0, <1>1 DEF DownInv
  <2> QED BY <1>0, <1>5, <2>1, HoldsPrefix
<1>7. TypeOK'
  <2>1. Len(data') \in Nat
    BY <1>5
  <2>2. size' \in Nat
    BY <1>1, <1>5, <2>1
  <2>3. acked' \subseteq Nat \ {0} /\ hasty' \subseteq Nat \ {0} /\ torn' \in BOOLEAN
    BY <1>0 DEF Restart, TypeOK
  <2>4. halves' \subseteq Nat
    <3>1. HalfEnd(data') \subseteq Nat
      BY <2>1 DEF HalfEnd
    <3> QED BY <1>0, <3>1 DEF Restart, TypeOK
  <2> QED BY <1>0, <1>1, <1>5, <2>2, <2>3, <2>4 DEF TypeOK, Phases
<1>8. FileInv'
  <2>1. WellSelected(Stream') /\ Holds(data', file'.base, Stream') /\ EndsIn(Stream', selected')
    BY <1>1, <1>2, <1>3, <1>4, <1>5 DEF EndsIn
  <2> QED BY <1>1, <2>1 DEF FileInv, WellSelected, SelectedAt, Holds, EndsIn, FileLen
<1>9. RewriteInv' /\ SyncInv' /\ DownInv'
  BY <1>0, <1>1, <1>2 DEF RewriteInv, SyncInv, DownInv, Rewriting
<1> QED BY <1>1, <1>5, <1>6, <1>7, <1>8, <1>9 DEF IInv

LEMMA Step ==
  ASSUME AofAssumption, IInv, [Next]_vars
  PROVE  IInv'
<1>1. CASE UNCHANGED vars
  <2>1. UNCHANGED <<conf, phase, fired, out, data, buf, selected, size, postponed, failing, file,
                    child, snap, diff, scheduled, bio, acked, hasty, torn, renamed, halves, faults>>
    BY <1>1 DEF vars, loopVars, bufVars, jobVars, seenVars
  <2>2. TypeOK'
    BY <2>1 DEF IInv, TypeOK
  <2>3. FileInv' /\ SyncInv'
    BY <2>1 DEF IInv, FileInv, SyncInv, Stream, WellSelected, SelectedAt, Holds, EndsIn, FileLen, Up
  <2>4. DownInv' /\ RewriteInv'
    BY <2>1 DEF IInv, DownInv, RewriteInv, WellSelected, SelectedAt, Holds, EndsIn, Up, Rewriting,
                Prefix
  <2> QED BY <2>2, <2>3, <2>4 DEF IInv
<1>2. CASE Thread
  BY <1>2, QuietSteps, WriteBufferStep, ShortWriteStep, ReadCommandStep, ForkSteps, RewriteFailsStep,
     RenameStep, SwapStep DEF Thread
<1>3. CASE ChildEnds \/ BackgroundFsync \/ Shutdown \/ ShutdownFails \/ Kill \/ PowerLoss \/ Restart
  BY <1>3, QuietSteps, EndSteps, PowerLossStep, RestartStep
<1> QED BY <1>1, <1>2, <1>3 DEF Next

LEMMA Invariance == AofAssumption => (Spec => []IInv)
<1> SUFFICES ASSUME AofAssumption  PROVE Spec => []IInv
  OBVIOUS
<1>1. Init => IInv
  BY InitStep
<1>2. IInv /\ [Next]_vars => IInv'
  BY Step
<1> QED BY <1>1, <1>2, PTL DEF Spec

-----------------------------------------------------------------------------
(* Theorems                                                                *)

\* The variables keep their types.
THEOREM TypeCorrect == Spec => []TypeOK
<1>1. IInv => TypeOK
  BY DEF IInv
<1> QED BY <1>1, Invariance, AofAssumption, PTL

\* Whatever goes wrong, a server that starts again holds a beginning of what was
\* executed: nothing is missing in between, repeated or in another database.
THEOREM LoadsPrefix == Spec => LoadedIsPrefix
<1>1. IInv /\ [Next]_vars => [Restart => Prefix(data', data)]_vars
  BY RestartStep
<1> QED BY <1>1, Invariance, AofAssumption, PTL DEF Spec, LoadedIsPrefix

\* The file that a rewrite puts in place holds exactly the data set.
THEOREM RewriteExact == Spec => RewriteIsExact
<1>1. ASSUME IInv, Rename  PROVE Load(file') = data
  <2>1. file' = [base |-> snap, log |-> diff, synced |-> 0] /\ phase = "rename"
    BY <1>1 DEF Rename
  <2>2. diff \in Seq(Entry) /\ snap \in Seq(Write) /\ data \in Seq(Write)
    BY <1>1, TypeFacts DEF IInv
  <2>3. WellSelected(diff) /\ Holds(data, snap, diff)
    BY <1>1, <2>1 DEF IInv, RewriteInv, Rewriting, Up
  <2> DEFINE f == [base |-> snap, log |-> diff, synced |-> 0]
  <2>4. f \in [base : Seq(Write), log : Seq(Entry), synced : Nat] /\ f.base = snap /\ f.log = diff
    BY <2>2
  <2> HIDE DEF f
  <2>5. Load(f) \in Seq(Write) /\ Holds(Load(f), snap, diff)
    BY <2>3, <2>4, LoadWellSelected
  <2>6. Load(f) = data
    BY <2>2, <2>3, <2>5, HoldsUnique
  <2> QED BY <2>1, <2>6 DEF f
<1>2. IInv /\ [Next]_vars => [Rename => Load(file') = data]_vars
  BY <1>1
<1> QED BY <1>2, Invariance, AofAssumption, PTL DEF Spec, RewriteIsExact

-----------------------------------------------------------------------------
(* Transactions                                                            *)

LEMMA LoadSame ==
  ASSUME NEW f, NEW g, f.base = g.base, f.log = g.log
  PROVE  Load(f) = Load(g)
BY DEF Load, DbAt, LastDumped

\* With an empty buffer the file holds the data set.
LEMMA FileIsData ==
  ASSUME IInv, Up, phase = "swap" \/ buf = <<>>
  PROVE  Load(file) = data /\ Len(data) = FileLen(file)
<1>1. TypeOK /\ file \in FileType /\ file.log \in Seq(Entry) /\ file.base \in Seq(Write)
      /\ data \in Seq(Write)
  BY TypeFacts DEF IInv
<1>2. Stream = file.log
  BY <1>1, ConcatEmpty DEF Stream
<1>3. WellSelected(file.log) /\ Holds(data, file.base, file.log)
  BY <1>2 DEF IInv, FileInv
<1>4. Load(file) \in Seq(Write) /\ Holds(Load(file), file.base, file.log)
      /\ Len(Load(file)) = FileLen(file)
  BY <1>1, <1>3, LoadWellSelected DEF FileType
<1>5. Load(file) = data
  BY <1>1, <1>3, <1>4, HoldsUnique
<1> QED BY <1>4, <1>5

LEMMA FileIsDataAlways ==
  IInv /\ Up /\ (phase = "swap" \/ buf = <<>>) => Load(file) = data /\ Len(data) = FileLen(file)
BY FileIsData

LEMMA FileIsDataNext ==
  ASSUME IInv', Up', (phase = "swap" \/ buf = <<>>)'
  PROVE  Load(file') = data' /\ Len(data') = FileLen(file')
<1>1. (IInv /\ Up /\ (phase = "swap" \/ buf = <<>>)
       => Load(file) = data /\ Len(data) = FileLen(file))'
  BY FileIsDataAlways, PTL
<1> QED BY <1>1

LEMMA HalfKept ==
  ASSUME HalfInv, UNCHANGED <<data, halves>>, torn => torn',
         torn' \/ (file'.base = file.base /\ file'.log = file.log), Up' => Up
  PROVE  HalfInv'
<1>1. CASE torn'
  BY <1>1 DEF HalfInv, HalfEnd
<1>2. CASE ~ torn'
  <2>1. Load(file') = Load(file)
    BY <1>2, LoadSame
  <2>2. HalfEnd(Load(file)) \subseteq halves
    BY <1>2 DEF HalfInv
  <2>3. HalfEnd(Load(file')) \subseteq halves'
    BY <2>1, <2>2
  <2>4. Up' => HalfEnd(data') \subseteq halves'
    BY DEF HalfInv, HalfEnd
  <2> QED BY <2>3, <2>4 DEF HalfInv
<1> QED BY <1>1, <1>2

LEMMA HalfStep ==
  ASSUME AofAssumption, IInv, IInv', HalfInv, [Next]_vars
  PROVE  HalfInv'
<1> USE DEF loopVars, bufVars, jobVars, seenVars, GoTo
<1>0. TypeOK
  BY DEF IInv
<1>1. CASE UNCHANGED vars
  BY <1>1, HalfKept DEF vars, Up
<1>2. CASE WriteBuffer
  <2>1. Up' /\ buf' = <<>> /\ UNCHANGED <<data, halves>> /\ Up
    BY <1>2 DEF WriteBuffer, MayWrite, Up
  <2>2. Load(file') = data'
    BY <2>1, FileIsDataNext
  <2>3. HalfEnd(data) \subseteq halves
    BY <2>1 DEF HalfInv
  <2>4. HalfEnd(data') \subseteq halves' /\ HalfEnd(Load(file')) \subseteq halves'
    BY <2>1, <2>2, <2>3
  <2> QED BY <2>4 DEF HalfInv
<1>3. CASE ShortWrite
  <2>1. PICK n \in 0..(Len(buf) - 1), cut \in BOOLEAN :
          /\ file' = [file EXCEPT !.log = IF cut THEN SubSeq(file.log \o SubSeq(buf, 1, n), 1,
                                                             size - Len(file.base))
                                          ELSE file.log \o SubSeq(buf, 1, n)]
          /\ torn' = (torn \/ (~ cut /\ n > 0))
          /\ UNCHANGED <<data, halves>>
    BY <1>3 DEF ShortWrite, Die
  <2>2. phase = "flush"
    BY <1>3 DEF ShortWrite, MayWrite
  <2>3. CASE ~ cut /\ n > 0
    BY <2>1, <2>2, <2>3, HalfKept DEF Up
  <2>4. CASE cut \/ n = 0
    <3> DEFINE log == file.log
               a == SubSeq(buf, 1, n)
               base == Len(file.base)
    <3>1. /\ log \in Seq(Entry) /\ buf \in Seq(Entry) /\ file.base \in Seq(Write)
          /\ size = base + Len(log) /\ file \in FileType
      BY <1>0, <2>2, TypeFacts DEF IInv, FileInv, Up, FileLen
    <3>2. a \in Seq(Entry) /\ base \in Nat
      BY <3>1, Cut
    <3> HIDE DEF log, a, base
    <3>3. size - base = Len(log)
      BY ONLY <3>1, <3>2
    <3>4. SubSeq(log \o a, 1, Len(log)) = log
      BY ONLY <3>1, <3>2
    <3>5. file' = [file EXCEPT !.log = log]
      <4>1. CASE cut
        BY <2>1, <3>3, <3>4, <4>1 DEF log, a, base
      <4>2. CASE ~ cut
        <5>1. a = <<>>
          BY <2>4, <3>1, <4>2 DEF a
        <5>2. log \o a = log
          BY <3>1, <5>1, ConcatEmpty
        <5> QED BY <2>1, <4>2, <5>2 DEF log, a
      <4> QED BY <4>1, <4>2
    <3>6. file'.base = file.base /\ file'.log = file.log
      BY <3>1, <3>5 DEF FileType, log
    <3> QED BY <2>1, <2>2, <3>6, HalfKept DEF Up
  <2> QED BY <2>3, <2>4
<1>4. ASSUME NEW c \in Clients, ReadCommand(c)  PROVE HalfInv'
  <2>1. PICK ws \in Commands : data' = data \o ws
    BY <1>4 DEF ReadCommand, Feed
  <2>2. ws \in Seq(Write) /\ Len(ws) \in {1, 2} /\ ws[Len(ws)].last /\ data \in Seq(Write)
    BY <1>0, CommandsType DEF TypeOK
  <2>3. Len(data') = Len(data) + Len(ws) /\ data'[Len(data) + Len(ws)] = ws[Len(ws)]
    <3>1. data \in Seq(Write) /\ ws \in Seq(Write)
      BY <2>2
    <3>2. /\ Len(data \o ws) = Len(data) + Len(ws)
          /\ \A j \in 1..Len(ws) : (data \o ws)[Len(data) + j] = ws[j]
      BY ONLY <3>1, Concat
    <3>3. Len(ws) \in 1..Len(ws)
      BY <2>2
    <3> QED BY <2>1, <3>2, <3>3
  <2>4. HalfEnd(data') = {}
    BY <2>2, <2>3 DEF HalfEnd
  <2>5. UNCHANGED <<torn, halves, file>>
    BY <1>4 DEF ReadCommand
  <2> QED BY <2>4, <2>5 DEF HalfInv
<1>5. CASE Rename
  <2>1. Up' /\ phase' = "swap" /\ UNCHANGED <<data, halves>> /\ Up
    BY <1>5 DEF Rename, Up
  <2>2. Load(file') = data'
    BY <2>1, FileIsDataNext
  <2>3. HalfEnd(data) \subseteq halves
    BY <2>1 DEF HalfInv
  <2>4. HalfEnd(data') \subseteq halves' /\ HalfEnd(Load(file')) \subseteq halves'
    BY <2>1, <2>2, <2>3
  <2> QED BY <2>4 DEF HalfInv
<1>6. CASE Sync \/ Swap \/ BackgroundFsync \/ ShutdownFails \/ Shutdown
  <2>1. file'.base = file.base /\ file'.log = file.log
    BY <1>0, <1>6, SyncedFacts DEF Sync, Swap, BackgroundFsync, ShutdownFails, Shutdown
  <2>2. UNCHANGED <<data, halves, torn>> /\ Up
    BY <1>6 DEF Sync, Swap, BackgroundFsync, ShutdownFails, Shutdown, MayShutDown, Die, Up
  <2> QED BY <2>1, <2>2, HalfKept
<1>7. CASE PowerLoss
  <2>1. PICK n \in file.synced..Len(file.log) :
          /\ file' = [file EXCEPT !.log = SubSeq(file.log, 1, n)]
          /\ torn' = (torn \/ n < Len(file.log))
    BY <1>7 DEF PowerLoss
  <2>2. file \in FileType /\ file.log \in Seq(Entry) /\ file.synced \in Nat
    BY <1>0, TypeFacts
  <2>3. UNCHANGED <<data, halves>> /\ ~ Up'
    BY <1>7 DEF PowerLoss, Die, Up
  <2>4. CASE n < Len(file.log)
    BY <2>1, <2>3, <2>4, HalfKept
  <2>5. CASE n = Len(file.log)
    <3>1. SubSeq(file.log, 1, n) = file.log
      <4> DEFINE log == file.log
      <4>1. log \in Seq(Entry) /\ n = Len(log)
        BY <2>2, <2>5
      <4> HIDE DEF log
      <4> QED BY <4>1 DEF log
    <3>2. file'.base = file.base /\ file'.log = file.log
      BY <2>1, <2>2, <3>1 DEF FileType
    <3> QED BY <2>1, <2>3, <3>2, HalfKept
  <2> QED BY <2>2, <2>4, <2>5
<1>8. CASE Restart
  <2>1. data' = Load(file) /\ file' = file /\ Len(data') \in Nat
    BY <1>8, RestartStep, FileIsData DEF Restart, IInv, TypeOK
  <2>2. HalfEnd(data') \subseteq halves'
    BY <1>8 DEF Restart
  <2> QED BY <2>1, <2>2 DEF HalfInv
<1>9. CASE FlushNothing \/ PostponeFlush \/ Poll \/ EventsDone \/ CronIdle \/ CronRewrite \/ CronSave
           \/ CronForkFails \/ CronSaved \/ WriteDiff \/ RewriteFails
  <2>1. UNCHANGED <<data, halves, torn, file>> /\ Up
    BY <1>9 DEF FlushNothing, PostponeFlush, Poll, EventsDone, CronIdle, CronRewrite, CronSave,
                CronForkFails, CronSaved, WriteDiff, RewriteFails, Up
  <2> QED BY <2>1, HalfKept
<1>10. ASSUME NEW c \in Clients, ReadOther(c) \/ SendReply(c) \/ RewriteCommand(c)  PROVE HalfInv'
  <2>1. UNCHANGED <<data, halves, torn, file>> /\ Up
    BY <1>10 DEF ReadOther, SendReply, RewriteCommand, Up
  <2> QED BY <2>1, HalfKept
<1>11. CASE ChildEnds
  <2>1. UNCHANGED <<data, halves, torn, file, phase>>
    BY <1>11 DEF ChildEnds
  <2> QED BY <2>1, HalfKept DEF Up
<1>12. CASE Kill
  <2>1. UNCHANGED <<data, halves, torn, file>> /\ Up
    BY <1>12 DEF Kill, Die
  <2> QED BY <2>1, HalfKept
<1> QED BY <1>1, <1>2, <1>3, <1>4, <1>5, <1>6, <1>7, <1>8, <1>9, <1>10, <1>11, <1>12 DEF Next, Thread

\* Half a transaction is loaded only from a file that was cut, or when it had been loaded half
\* before: the loop writes what a round has executed in one piece.
THEOREM TransactionsWhole == Spec => WholeTransactions
<1>1. Init /\ IInv => HalfInv
  <2> SUFFICES ASSUME Init, IInv  PROVE HalfInv
    OBVIOUS
  <2>1. Up /\ buf = <<>> /\ data = <<>>
    BY DEF Init, Up
  <2>2. Load(file) = data
    BY <2>1, FileIsData
  <2> QED BY <2>1, <2>2 DEF HalfInv, HalfEnd
<1>2. IInv /\ IInv' /\ HalfInv /\ [Next]_vars => HalfInv'
  BY HalfStep, AofAssumption
<1>3. IInv /\ HalfInv /\ [Next]_vars => [Restart => HalfEnd(data') \subseteq halves \/ torn]_vars
  <2>1. ASSUME IInv, HalfInv, Restart  PROVE HalfEnd(data') \subseteq halves \/ torn
    <3>1. data' = Load(file)
      BY <2>1, RestartStep
    <3> QED BY <2>1, <3>1 DEF HalfInv
  <2> QED BY <2>1
<1>4. Init => IInv
  BY InitStep, AofAssumption
<1> QED BY <1>1, <1>2, <1>3, <1>4, Invariance, AofAssumption, PTL DEF Spec, WholeTransactions

-----------------------------------------------------------------------------
(* Replies                                                                 *)

LEMMA FileNumbers ==
  ASSUME IInv
  PROVE  /\ Len(file.base) \in Nat /\ Len(file.log) \in Nat /\ file.synced \in Nat
         /\ Len(data) \in Nat /\ file.synced <= Len(file.log)
         /\ FileLen(file) = Len(file.base) + Len(file.log) /\ FileLen(file) \in Nat
<1>1. /\ file.base \in Seq(Write) /\ file.log \in Seq(Entry) /\ file.synced \in Nat
      /\ data \in Seq(Write) /\ file.synced <= Len(file.log)
  BY TypeFacts DEF IInv, SyncInv
<1> DEFINE base == Len(file.base)
           log == Len(file.log)
<1>2. base \in Nat /\ log \in Nat
  BY <1>1
<1>3. FileLen(file) = base + log
  BY DEF FileLen
<1> HIDE DEF base, log
<1>4. base + log \in Nat
  BY ONLY <1>2
<1>5. FileLen(file) \in Nat
  BY ONLY <1>3, <1>4
<1>6. Len(data) \in Nat
  BY <1>1
<1>7. Len(file.base) \in Nat /\ Len(file.log) \in Nat
  BY ONLY <1>2 DEF base, log
<1>8. FileLen(file) = Len(file.base) + Len(file.log)
  BY DEF FileLen
<1> QED BY ONLY <1>1, <1>5, <1>6, <1>7, <1>8

\* While the server is up, the file is not longer than the data set.
LEMMA FileNotLonger ==
  ASSUME IInv, Up, phase # "swap"
  PROVE  FileLen(file) <= Len(data)
<1> DEFINE base == Len(file.base)
           log == file.log
           fileLen == FileLen(file)
<1>1. /\ Holds(data, file.base, log \o buf) /\ log \in Seq(Entry) /\ buf \in Seq(Entry)
      /\ base \in Nat /\ fileLen = base + Len(log)
  BY TypeFacts, FileNumbers DEF IInv, FileInv, Stream
<1>2. Len(data) = base + Len(log \o buf)
  BY <1>1 DEF Holds
<1> HIDE DEF base, log, fileLen
<1>3. Len(log \o buf) = Len(log) + Len(buf) /\ Len(log) \in Nat /\ Len(buf) \in Nat
  BY ONLY <1>1, Concat
<1>4. fileLen <= Len(data)
  BY ONLY <1>1, <1>2, <1>3
<1> QED BY <1>4 DEF fileLen

\* A step that keeps the replies and the file and syncs no less than before.
LEMMA AckKept ==
  ASSUME IInv, IInv', AckInv, UNCHANGED <<conf, data, acked, out, bio, renamed, hasty>>,
         file'.base = file.base, file'.log = file.log, file'.synced >= file.synced,
         phase' # "down", phase = "sync" => phase' = "sync",
         phase' \in {"poll", "sync"} => buf' = <<>> \/ (phase' = phase /\ buf' = buf),
         phase' = "events" => phase = "events" /\ \A c \in Clients : "w" \in fired'[c] => "w" \in fired[c]
  PROVE  AckInv'
<1> SUFFICES ASSUME Promised'  PROVE AckInv'
  BY DEF AckInv
<1>1. Promised /\ FileLen(file') = FileLen(file)
  BY DEF Promised, FileLen
<1>2. ASSUME NEW i \in Nat, Kept(i)  PROVE Kept(i)'
  <2> DEFINE base == Len(file.base)
             old == file.synced
             new == file'.synced
  <2>1. base \in Nat /\ old \in Nat /\ new \in Nat /\ old <= new /\ Len(file'.base) = base
    <3>1. IInv' => file'.synced \in Nat
      BY DEF IInv, TypeOK
    <3> QED BY <3>1, FileNumbers
  <2>2. i <= base + old \/ i \in hasty \/ renamed
    BY <1>2 DEF Kept
  <2> HIDE DEF base, old, new
  <2>3. i <= base + old => i <= base + new
    BY ONLY <2>1, <1>2
  <2> QED BY <2>1, <2>2, <2>3 DEF Kept, base, new
<1>3. \A i \in acked : i \in Nat
  BY DEF IInv, TypeOK
<1>4. \A c \in Clients : \A i \in out[c] : i \in Nat
  BY DEF IInv, TypeOK
<1>5. \A i \in acked' : i <= Len(data') /\ Kept(i)'
  BY <1>1, <1>2, <1>3 DEF AckInv
<1>6. \A c \in Clients : \A i \in out'[c] : i <= Len(data')
  BY <1>1 DEF AckInv
<1>7. phase' # "sync" => \A c \in Clients : \A i \in out'[c] : Kept(i)' \/ i > FileLen(file')
  BY <1>1, <1>2, <1>4 DEF AckInv
<1>8. phase' = "events" => \A c \in Clients : "w" \in fired'[c] => \A i \in out'[c] : Kept(i)'
  BY <1>1, <1>2, <1>4 DEF AckInv
<1>9. bio' = {} /\ (phase' \in {"poll", "sync"} => buf' = <<>>)
  BY <1>1 DEF AckInv
<1> QED BY <1>5, <1>6, <1>7, <1>8, <1>9 DEF AckInv, FileLen

\* A step to "down".
LEMMA AckDown ==
  ASSUME IInv, IInv', AckInv, Die, file'.base = file.base, file'.synced >= file.synced,
         UNCHANGED <<hasty, renamed>>
  PROVE  AckInv'
<1> SUFFICES ASSUME Promised'  PROVE AckInv'
  BY DEF AckInv
<1>1. Promised /\ UNCHANGED <<data, acked>> /\ phase' = "down" /\ bio' = {}
      /\ out' = [c \in Clients |-> {}]
  BY DEF Promised, Die
<1>2. ASSUME NEW i \in Nat, Kept(i)  PROVE Kept(i)'
  <2> DEFINE base == Len(file.base)
             old == file.synced
             new == file'.synced
  <2>1. base \in Nat /\ old \in Nat /\ new \in Nat /\ old <= new /\ Len(file'.base) = base
    <3>1. IInv' => file'.synced \in Nat
      BY DEF IInv, TypeOK
    <3> QED BY <3>1, FileNumbers
  <2>2. i <= base + old \/ i \in hasty \/ renamed
    BY <1>2 DEF Kept
  <2> HIDE DEF base, old, new
  <2>3. i <= base + old => i <= base + new
    BY ONLY <2>1, <1>2
  <2> QED BY <2>1, <2>2, <2>3 DEF Kept, base, new
<1>3. \A i \in acked : i \in Nat
  BY DEF IInv, TypeOK
<1>4. \A i \in acked' : i <= Len(data') /\ Kept(i)'
  BY <1>1, <1>2, <1>3 DEF AckInv
<1> QED BY <1>1, <1>4 DEF AckInv

\* A step after which the whole file is synced and holds the data set.
LEMMA AckSynced ==
  ASSUME IInv, IInv', AckInv, UNCHANGED <<conf, data, acked, out>>, bio' = {},
         phase' \in {"poll", "flush"}, phase' = "poll" => buf' = <<>>,
         Len(data) <= Len(file'.base) + file'.synced
  PROVE  AckInv'
<1> SUFFICES ASSUME Promised'  PROVE AckInv'
  BY DEF AckInv
<1>1. Promised
  BY DEF Promised
<1> DEFINE safe == Len(file'.base) + file'.synced
<1>2. safe \in Int /\ Len(data) <= safe /\ Len(data) \in Nat
  <2>1. IInv' => file'.base \in Seq(Write) /\ file'.synced \in Nat
    BY DEF IInv, TypeOK
  <2> DEFINE base == Len(file'.base)
             synced == file'.synced
  <2>2. base \in Nat /\ synced \in Nat
    BY <2>1
  <2> HIDE DEF base, synced
  <2>3. base + synced \in Int
    BY ONLY <2>2
  <2> QED BY <2>3, FileNumbers DEF base, synced
<1> HIDE DEF safe
<1>3. ASSUME NEW i \in Nat, i <= Len(data)  PROVE i <= safe
  BY <1>2, <1>3
<1>4. \A i \in acked : i \in Nat /\ i <= Len(data)
  BY <1>1 DEF IInv, TypeOK, AckInv
<1>5. \A c \in Clients : \A i \in out[c] : i \in Nat /\ i <= Len(data)
  BY <1>1 DEF IInv, TypeOK, AckInv
<1>6. \A i \in Nat : i <= Len(data) => Kept(i)'
  BY <1>3 DEF Kept, safe
<1>7. \A i \in acked' : i <= Len(data') /\ Kept(i)'
  BY <1>4, <1>6
<1>8. \A c \in Clients : \A i \in out'[c] : i <= Len(data') /\ Kept(i)'
  BY <1>5, <1>6
<1> QED BY <1>7, <1>8 DEF AckInv

LEMMA AckCommand ==
  ASSUME AofAssumption, IInv, IInv', AckInv, NEW c \in Clients, ReadCommand(c)
  PROVE  AckInv'
<1> SUFFICES ASSUME Promised'  PROVE AckInv'
  BY DEF AckInv
<1>0. Promised /\ TypeOK /\ phase = "events" /\ phase' = "events" /\ "r" \in fired[c]
  BY DEF IInv, ReadCommand, Promised
<1>1. PICK ws \in Commands :
        /\ data' = data \o ws
        /\ out' = [out EXCEPT ![c] = @ \cup Ids(ws)]
        /\ hasty' = IF Promised /\ "w" \in fired[c] THEN hasty \cup Ids(ws) ELSE hasty
  BY DEF ReadCommand, Feed
<1>2. UNCHANGED <<conf, file, bio, acked, renamed>> /\ fired' = [fired EXCEPT ![c] = @ \ {"r"}]
  BY DEF ReadCommand
<1>3. ws \in Seq(Write) /\ data \in Seq(Write) /\ Len(ws) \in {1, 2}
      /\ \A j \in 1..Len(ws) : ws[j].id = Len(data) + j
  BY <1>0, CommandsType DEF TypeOK
<1>4. Len(data') = Len(data) + Len(ws) /\ Len(data) \in Nat /\ Len(ws) \in Nat
  <2>1. data \in Seq(Write) /\ ws \in Seq(Write)
    BY <1>3
  <2>2. Len(data \o ws) = Len(data) + Len(ws) /\ Len(data) \in Nat /\ Len(ws) \in Nat
    BY ONLY <2>1, Concat
  <2> QED BY <1>1, <2>2
<1>5. \A i \in Ids(ws) : i \in Nat /\ Len(data) < i /\ i <= Len(data')
  <2>1. ASSUME NEW j \in 1..Len(ws)
        PROVE  /\ Len(data) + j \in Nat /\ Len(data) < Len(data) + j
               /\ Len(data) + j <= Len(data) + Len(ws)
    BY ONLY <1>4, j \in 1..Len(ws)
  <2>2. DOMAIN ws = 1..Len(ws)
    BY <1>3
  <2> QED BY <1>3, <1>4, <2>1, <2>2 DEF Ids
<1>6. FileLen(file) <= Len(data) /\ FileLen(file) \in Nat
  BY <1>0, FileNotLonger, FileNumbers DEF Up
<1>7. \A i : Kept(i) => Kept(i)'
  BY <1>1, <1>2 DEF Kept
<1>8. \A i \in Nat : i <= Len(data) => i <= Len(data')
  BY ONLY <1>4
<1>9. out \in [Clients -> SUBSET (Nat \ {0})] /\ fired \in [Clients -> SUBSET {"r", "w"}]
      /\ acked \subseteq Nat
  BY <1>0 DEF TypeOK
<1>10. \A i \in acked' : i <= Len(data') /\ Kept(i)'
  BY <1>0, <1>2, <1>7, <1>8, <1>9 DEF AckInv
<1>11. ASSUME NEW e \in Clients, NEW i \in out'[e]
       PROVE  i \in out[e] \/ (e = c /\ i \in Ids(ws))
  BY <1>1, <1>9, <1>11
<1>12. ASSUME NEW e \in Clients, NEW i \in out'[e]
       PROVE  i <= Len(data')
  <2>1. CASE i \in out[e]
    BY <2>1, <1>0, <1>8, <1>9 DEF AckInv
  <2>2. CASE i \in Ids(ws)
    BY <2>2, <1>5
  <2> QED BY <1>11, <2>1, <2>2
<1>13. ASSUME NEW e \in Clients, NEW i \in out'[e]
       PROVE  Kept(i)' \/ i > FileLen(file')
  <2>1. CASE i \in out[e]
    BY <2>1, <1>0, <1>2, <1>7 DEF AckInv
  <2>2. CASE i \in Ids(ws)
    <3>1. i \in Nat /\ Len(data) < i
      BY <2>2, <1>5
    <3>2. i > FileLen(file)
      BY ONLY <3>1, <1>6, <1>4
    <3> QED BY <3>2, <1>2
  <2> QED BY <1>11, <2>1, <2>2
<1>14. ASSUME NEW e \in Clients, "w" \in fired'[e], NEW i \in out'[e]
       PROVE  Kept(i)'
  <2>0. "w" \in fired[e]
    BY <1>2, <1>9, <1>14
  <2>1. CASE i \in out[e]
    BY <2>0, <2>1, <1>0, <1>7 DEF AckInv
  <2>2. CASE e = c /\ i \in Ids(ws)
    BY <2>0, <2>2, <1>0, <1>1 DEF Kept
  <2> QED BY <1>11, <2>1, <2>2
<1>15. bio' = {} /\ phase' = "events"
  BY <1>0, <1>2 DEF AckInv
<1> QED BY <1>10, <1>12, <1>13, <1>14, <1>15 DEF AckInv

LEMMA AckStep ==
  ASSUME AofAssumption, IInv, IInv', AckInv, [Next]_vars
  PROVE  AckInv'
<1> USE DEF bufVars, jobVars, seenVars, loopVars, GoTo
<1>a. TypeOK /\ file \in FileType /\ file.synced <= Len(file.log)
  BY TypeFacts DEF IInv, SyncInv
<1>b. file.synced \in Nat /\ file.synced >= file.synced
  BY FileNumbers
<1>1. CASE UNCHANGED vars
  BY <1>1 DEF vars, AckInv, Kept, FileLen, Promised
<1>2. CASE FlushNothing \/ EventsDone \/ CronIdle \/ CronRewrite \/ CronSave
           \/ CronForkFails \/ CronSaved \/ WriteDiff \/ RewriteFails
  <2>1. /\ UNCHANGED <<conf, data, acked, out, bio, renamed, hasty, file, buf>>
        /\ phase' \in {"poll", "flush", "cron", "rename"} /\ phase # "sync"
        /\ phase' = "poll" => buf' = <<>>
    BY <1>2 DEF FlushNothing, EventsDone, CronIdle, CronRewrite, CronSave, CronForkFails,
                CronSaved, WriteDiff, RewriteFails, Cleanup, Fork, ForkFails
  <2> QED BY <2>1, <1>b, AckKept
<1>3. ASSUME NEW c \in Clients, ReadOther(c) \/ RewriteCommand(c)  PROVE AckInv'
  <2>1. /\ UNCHANGED <<conf, data, acked, out, bio, renamed, hasty, file, buf>>
        /\ phase = "events" /\ phase' = "events"
        /\ fired' = [fired EXCEPT ![c] = @ \ {"r"}]
    BY <1>3 DEF ReadOther, RewriteCommand
  <2>2. \A e \in Clients : "w" \in fired'[e] => "w" \in fired[e]
    BY <1>a, <2>1 DEF TypeOK
  <2> QED BY <2>1, <2>2, <1>b, AckKept
<1>4. CASE ChildEnds
  <2>1. UNCHANGED <<conf, data, acked, out, bio, renamed, hasty, file, buf, phase, fired>>
    BY <1>4 DEF ChildEnds, Fault
  <2>2. phase # "down"
    BY <1>4 DEF ChildEnds, IInv, DownInv
  <2> QED BY <2>1, <2>2, <1>b, AckKept
<1>5. CASE ShutdownFails
  <2>1. UNCHANGED <<conf, data, acked, out, bio, renamed, hasty, buf, phase, fired>>
        /\ phase \in {"cron", "events"}
    BY <1>5 DEF ShutdownFails, MayShutDown
  <2>2. file'.base = file.base /\ file'.log = file.log /\ file'.synced >= file.synced
    BY <1>5, <1>a, SyncedFacts, FileNumbers DEF ShutdownFails
  <2> QED BY <2>1, <2>2, AckKept
<1>6. CASE Shutdown \/ Kill
  <2>1. file'.base = file.base /\ file'.synced >= file.synced /\ Die /\ UNCHANGED <<hasty, renamed>>
    BY <1>6, <1>a, <1>b, SyncedFacts, FileNumbers DEF Shutdown, Kill
  <2> QED BY <2>1, AckDown
<1>7. CASE PowerLoss
  <2>1. PICK n \in file.synced..Len(file.log) : file' = [file EXCEPT !.log = SubSeq(@, 1, n)]
    BY <1>7 DEF PowerLoss
  <2>2. file'.base = file.base /\ file'.synced = file.synced
    BY <2>1, <1>a DEF FileType
  <2> QED BY <1>7, <2>2, <1>b, AckDown DEF PowerLoss
<1>8. CASE ShortWrite
  <2> SUFFICES ASSUME Promised'  PROVE AckInv'
    BY DEF AckInv
  <2>1. UNCHANGED conf
    BY <1>8 DEF ShortWrite, Die
  <2>2. conf.fsync = "always"
    BY <2>1 DEF Promised
  <2>3. /\ Die /\ UNCHANGED <<hasty, renamed>>
        /\ \E log : file' = [file EXCEPT !.log = log]
    BY <1>8, <2>2 DEF ShortWrite
  <2>4. file'.base = file.base /\ file'.synced = file.synced
    BY <2>3, <1>a DEF FileType
  <2> QED BY <2>3, <2>4, <1>b, AckDown
<1>9. CASE WriteBuffer
  <2>1. /\ UNCHANGED <<conf, data, acked, out, bio, renamed, hasty>>
        /\ phase' = "sync" /\ buf' = <<>> /\ file' = [file EXCEPT !.log = @ \o buf]
    BY <1>9 DEF WriteBuffer
  <2>2. file'.base = file.base /\ file'.synced = file.synced
    BY <2>1, <1>a DEF FileType
  <2> QED BY <2>1, <2>2 DEF AckInv, Kept, Promised
<1>10. CASE Sync \/ Swap
  <2> SUFFICES ASSUME Promised'  PROVE AckInv'
    BY DEF AckInv
  <2>1. UNCHANGED <<conf, data, acked, out>> /\ phase \in {"sync", "swap"}
        /\ phase' \in {"poll", "flush"} /\ (phase' = "poll" => phase = "sync" /\ buf' = buf)
    BY <1>10 DEF Sync, Swap
  <2>2. Promised /\ conf.fsync = "always" /\ ~ conf.skip
    BY <2>1 DEF Promised
  <2>3. bio = {} /\ (phase = "sync" => buf = <<>>)
    BY <2>2 DEF AckInv
  <2>4. file' = Synced(file) /\ bio' = {}
    BY <1>10, <2>2, <2>3 DEF Sync, Swap
  <2>5. Len(data) = FileLen(file)
    BY <2>1, <2>3, FileIsData DEF Up
  <2>6. Len(data) <= Len(file'.base) + file'.synced
    <3>1. Len(file'.base) = Len(file.base) /\ file'.synced = Len(file.log)
      BY <1>a, <2>4, SyncedFacts
    <3>2. Len(data) = Len(file'.base) + file'.synced /\ Len(data) \in Nat
      BY <3>1, <2>5, FileNumbers
    <3> QED BY ONLY <3>2
  <2> QED BY <2>1, <2>3, <2>4, <2>6, AckSynced
<1>11. CASE Poll
  <2> SUFFICES ASSUME Promised'  PROVE AckInv'
    BY DEF AckInv
  <2>1. /\ UNCHANGED <<conf, data, acked, out, bio, renamed, hasty, file, buf>>
        /\ phase = "poll" /\ phase' = "events"
    BY <1>11 DEF Poll
  <2>2. Promised /\ buf = <<>>
    BY <2>1 DEF Promised, AckInv
  <2>3. Len(data) = FileLen(file) /\ FileLen(file) \in Nat
    BY <2>1, <2>2, FileIsData, FileNumbers DEF Up
  <2>4. ASSUME NEW c \in Clients, NEW i \in out[c]  PROVE Kept(i) /\ i <= Len(data)
    <3>1. i \in Nat
      BY <1>a, <2>4 DEF TypeOK
    <3>2. i <= Len(data) /\ (Kept(i) \/ i > FileLen(file))
      BY <2>1, <2>2 DEF AckInv
    <3>3. ~ (i > FileLen(file))
      BY ONLY <3>1, <3>2, <2>3
    <3> QED BY <3>2, <3>3
  <2>5. \A i : Kept(i) => Kept(i)'
    BY <2>1 DEF Kept
  <2>6. /\ \A i \in acked' : i <= Len(data') /\ Kept(i)'
        /\ bio' = {}
    BY <2>1, <2>2, <2>5 DEF AckInv
  <2> QED BY <2>1, <2>4, <2>5, <2>6 DEF AckInv
<1>12. ASSUME NEW c \in Clients, SendReply(c)  PROVE AckInv'
  <2> SUFFICES ASSUME Promised'  PROVE AckInv'
    BY DEF AckInv
  <2>1. /\ UNCHANGED <<conf, data, bio, renamed, hasty, file, buf>>
        /\ phase = "events" /\ phase' = "events" /\ fired[c] = {"w"}
        /\ fired' = [fired EXCEPT ![c] = {}]
    BY <1>12 DEF SendReply
  <2>2. Promised
    BY <2>1 DEF Promised
  <2>3. acked' \subseteq acked \cup out[c] /\ (out' = [out EXCEPT ![c] = {}] \/ out' = out)
    BY <1>12, <2>2 DEF SendReply
  <2>4. \A e \in Clients : out'[e] \subseteq out[e] /\ ("w" \in fired'[e] => "w" \in fired[e])
    BY <1>a, <2>1, <2>3 DEF TypeOK
  <2>5. \A i : Kept(i) => Kept(i)'
    BY <2>1 DEF Kept
  <2>6. \A i \in out[c] : i <= Len(data) /\ Kept(i)
    BY <2>1, <2>2 DEF AckInv
  <2>7. \A i \in acked' : i <= Len(data') /\ Kept(i)'
    BY <2>1, <2>2, <2>3, <2>5, <2>6 DEF AckInv
  <2>8. \A e \in Clients : \A i \in out'[e] :
          /\ i <= Len(data') /\ (Kept(i)' \/ i > FileLen(file'))
          /\ "w" \in fired'[e] => Kept(i)'
    BY <2>1, <2>2, <2>4, <2>5 DEF AckInv
  <2>9. bio' = {}
    BY <2>1, <2>2 DEF AckInv
  <2> QED BY <2>1, <2>7, <2>8, <2>9 DEF AckInv
<1>13. CASE Rename
  <2> SUFFICES ASSUME Promised'  PROVE AckInv'
    BY DEF AckInv
  <2>1. /\ UNCHANGED <<conf, data, acked, out, bio, buf>> /\ phase = "rename" /\ phase' = "swap"
        /\ renamed' = Promised
    BY <1>13 DEF Rename
  <2>2. Promised /\ \A i : Kept(i)'
    BY <2>1 DEF Promised, Kept
  <2> QED BY <2>1, <2>2 DEF AckInv
<1>14. CASE Restart
  <2> SUFFICES ASSUME Promised'  PROVE AckInv'
    BY DEF AckInv
  <2>1. /\ UNCHANGED <<conf, out, bio, renamed, file>> /\ phase = "down" /\ phase' = "flush"
        /\ acked' = {i \in acked : i <= Len(data')} /\ hasty' = {i \in hasty : i <= Len(data')}
    BY <1>14 DEF Restart
  <2>2. Promised
    BY <2>1 DEF Promised
  <2>3. \A i \in acked' : i <= Len(data') /\ Kept(i)'
    BY <2>1, <2>2 DEF AckInv, Kept
  <2>4. bio' = {} /\ \A c \in Clients : out'[c] = {}
    BY <2>1, <2>2 DEF AckInv
  <2> QED BY <2>1, <2>3, <2>4 DEF AckInv
<1>15. CASE PostponeFlush \/ BackgroundFsync
  <2> SUFFICES ASSUME Promised'  PROVE FALSE
    BY DEF AckInv
  <2>1. UNCHANGED conf /\ (conf.fsync = "everysec" \/ bio # {})
    BY <1>15 DEF PostponeFlush, BackgroundFsync
  <2>2. conf.fsync = "always" /\ bio = {}
    BY <2>1 DEF Promised, AckInv
  <2> QED BY <2>1, <2>2
<1>16. ASSUME NEW c \in Clients, ReadCommand(c)  PROVE AckInv'
  BY <1>16, AckCommand
<1> QED BY <1>1, <1>2, <1>3, <1>4, <1>5, <1>6, <1>7, <1>8, <1>9, <1>10, <1>11, <1>12, <1>13, <1>14, <1>15, <1>16
        DEF Next, Thread

\* With appendfsync always, and while fsync does what it says (aof.c:381, 1267), what
\* was answered is there after any restart, but for the replies of the round that a
\* loss of the process cut short and for a renamed file not yet synced.
THEOREM RepliesAreKept == Spec => AckedIsKept
<1>1. Init => AckInv
  BY DEF Init, AckInv
<1>2. IInv /\ IInv' /\ AckInv /\ [Next]_vars => AckInv'
  BY AckStep, AofAssumption
<1>3. ASSUME IInv, AckInv, Restart, conf.fsync = "always", ~ conf.skip, NEW i \in acked
      PROVE  i <= Len(data') \/ i \in hasty \/ renamed
  <2>1. Kept(i) /\ i \in Nat
    BY <1>3 DEF AckInv, Promised, IInv, TypeOK
  <2>2. Len(data') = FileLen(file)
    BY <1>3, RestartStep
  <2> DEFINE base == Len(file.base)
             log == Len(file.log)
             synced == file.synced
  <2>3. base \in Nat /\ log \in Nat /\ synced \in Nat /\ synced <= log /\ Len(data') = base + log
    BY <1>3, <2>2, FileNumbers
  <2>4. i <= base + synced \/ i \in hasty \/ renamed
    BY <2>1 DEF Kept
  <2> HIDE DEF base, log, synced
  <2>5. i <= base + synced => i <= Len(data')
    BY ONLY <2>1, <2>3
  <2> QED BY <2>4, <2>5
<1>4. IInv /\ AckInv /\ [Next]_vars
      => [(Restart /\ conf.fsync = "always" /\ ~ conf.skip) =>
            \A i \in acked : i <= Len(data') \/ i \in hasty \/ renamed]_vars
  BY <1>3
<1>5. Init => IInv
  BY InitStep, AofAssumption
<1> QED BY <1>1, <1>2, <1>4, <1>5, Invariance, AofAssumption, PTL DEF Spec, AckedIsKept

-----------------------------------------------------------------------------
(* The server implements Journal                                           *)

\* What a server that is down would load is the beginning of what it had.
LEMMA DownLoads ==
  ASSUME IInv, phase = "down"
  PROVE  /\ Load(file) \in Seq(Write) /\ Len(Load(file)) = FileLen(file)
         /\ Prefix(Load(file), data)
<1>0. TypeOK /\ FileInv /\ DownInv /\ file \in FileType
      /\ file.log \in Seq(Entry) /\ file.base \in Seq(Write) /\ data \in Seq(Write)
  BY TypeFacts DEF IInv
<1>1. Stream = file.log
  BY <1>0, ConcatEmpty DEF Stream, DownInv
<1>2. WellSelected(file.log)
  BY <1>0, <1>1 DEF FileInv
<1>3. Load(file) \in Seq(Write) /\ Holds(Load(file), file.base, file.log) /\ Len(Load(file)) = FileLen(file)
  BY <1>0, <1>2, LoadWellSelected DEF FileType
<1>4. PICK s \in Seq(Entry) : Prefix(file.log, s) /\ Holds(data, file.base, s)
  BY <1>0 DEF DownInv
<1>5. Prefix(Load(file), data)
  BY <1>0, <1>3, <1>4, HoldsPrefix
<1> QED BY <1>3, <1>5

LEMMA DownLoadsAlways ==
  IInv /\ phase = "down"
    => /\ Load(file) \in Seq(Write) /\ Len(Load(file)) = FileLen(file)
       /\ Prefix(Load(file), data)
BY DownLoads

LEMMA DownLoadsNext ==
  ASSUME IInv', phase' = "down"
  PROVE  /\ Load(file') \in Seq(Write) /\ Len(Load(file')) = FileLen(file')
         /\ Prefix(Load(file'), data')
<1>1. (IInv /\ phase = "down"
        => /\ Load(file) \in Seq(Write) /\ Len(Load(file)) = FileLen(file)
           /\ Prefix(Load(file), data))'
  BY DownLoadsAlways, PTL
<1> QED BY <1>1

LEMMA FileNumbersAlways ==
  IInv => /\ Len(file.base) \in Nat /\ Len(file.log) \in Nat /\ file.synced \in Nat
          /\ file.synced <= Len(file.log)
BY FileNumbers

LEMMA FileNumbersNext ==
  ASSUME IInv'
  PROVE  /\ Len(file'.base) \in Nat /\ Len(file'.log) \in Nat /\ file'.synced \in Nat
         /\ file'.synced <= Len(file'.log)
<1>1. (IInv => /\ Len(file.base) \in Nat /\ Len(file.log) \in Nat /\ file.synced \in Nat
               /\ file.synced <= Len(file.log))'
  BY FileNumbersAlways, PTL
<1> QED BY <1>1

LEMMA PrefixCut ==
  ASSUME NEW s \in Seq(Write), NEW t \in Seq(Write), Prefix(s, t)
  PROVE  Len(s) \in 0..Len(t) /\ s = SubSeq(t, 1, Len(s))
<1>1. Len(s) \in 0..Len(t) /\ \A i \in 1..Len(s) : s[i] = t[i]
  BY DEF Prefix
<1>2. /\ SubSeq(t, 1, Len(s)) \in Seq(Write) /\ Len(SubSeq(t, 1, Len(s))) = Len(s)
      /\ \A i \in 1..Len(s) : SubSeq(t, 1, Len(s))[i] = t[i]
  BY <1>1
<1> QED BY <1>1, <1>2

\* The numbers of a command are new.
LEMMA CommandIsNew ==
  ASSUME AofAssumption, TypeOK, NEW ws \in Commands
  PROVE  \A i \in Ids(ws) : i > Len(data)
<1>1. Len(data) \in Nat /\ Len(ws) \in {1, 2} /\ \A j \in 1..Len(ws) : ws[j].id = Len(data) + j
      /\ DOMAIN ws = 1..Len(ws)
  <2>1. data \in Seq(Write)
    BY DEF TypeOK
  <2>2. ws \in Seq(Write) /\ Len(ws) \in {1, 2} /\ \A j \in 1..Len(ws) : ws[j].id = Len(data) + j
    BY <2>1, CommandsType
  <2> QED BY <2>1, <2>2
<1>2. PICK n, m : n = Len(data) /\ m = Len(ws)
  OBVIOUS
<1>3. n \in Nat /\ m \in {1, 2}
  BY <1>1, <1>2
<1>4. \A j \in 1..m : n + j > n
  BY ONLY <1>3
<1> QED BY <1>1, <1>2, <1>4 DEF Ids

\* A step of a server that is up, which leaves data and replies alone.
LEMMA NotSeen ==
  ASSUME Up, Up', UNCHANGED <<conf, data, acked, hasty, renamed>>
  PROVE  UNCHANGED Durable!jvars
<1>1. Stored' = Stored
  BY DEF Stored
<1>2. Settled' = Settled
  BY DEF Settled, Promised
<1> QED BY <1>1, <1>2 DEF Durable!jvars

\* Replies are sent or become safe.
LEMMA Settles ==
  ASSUME AckInv', Up, Up', UNCHANGED <<conf, data>>, Promised => acked \subseteq acked',
         hasty' \subseteq hasty, renamed' \in {renamed, FALSE}
  PROVE  Durable!Settle
<1>1. Stored' = Stored /\ Stored = data
  BY DEF Stored
<1>2. Promised' = Promised
  BY DEF Promised
<1>3. Settled \subseteq Settled'
  BY <1>2 DEF Settled
<1>4. \A i \in Settled' : i <= Len(data)
  BY <1>2 DEF Settled, AckInv
<1> QED BY <1>1, <1>3, <1>4 DEF Durable!Settle

\* The server stops, or is cut while it is down.
LEMMA Stops ==
  ASSUME IInv, IInv', AckInv', phase' = "down", UNCHANGED <<conf, acked, hasty, renamed>>,
         Stored \in Seq(Write), Prefix(Load(file'), Stored),
         phase = "down" => FileLen(file') <= FileLen(file)
  PROVE  \E n \in 0..Len(Stored) : Durable!Lose(n)
<1>1. Load(file') \in Seq(Write) /\ Len(Load(file')) = FileLen(file')
  BY DownLoadsNext
<1>2. PICK n : n = FileLen(file')
  OBVIOUS
<1>3. n \in 0..Len(Stored) /\ Load(file') = SubSeq(Stored, 1, n)
  BY <1>1, <1>2, PrefixCut
<1>4. Stored' = Load(file')
  BY DEF Stored, Up
<1>5. Promised' = Promised /\ acked \subseteq Nat
  BY DEF Promised, IInv, TypeOK
<1>6. Settled' = IF Promised THEN {i \in acked \ hasty : i <= n} ELSE {}
  BY <1>2, <1>5 DEF Settled, Up
<1>7. Durable!Upto(n) = {i \in Settled : i <= n}
  BY DEF Durable!Upto
<1>8. Settled' = Durable!Upto(n)
  <2>1. CASE ~ Promised
    BY <1>6, <1>7, <2>1 DEF Settled
  <2>2. CASE Promised
    <3>1. ASSUME NEW i \in acked, i <= n PROVE Up \/ i <= FileLen(file)
      <4>1. CASE ~ Up
        <5>1. n <= FileLen(file)
          BY <1>2, <4>1 DEF Up
        <5>2. FileLen(file) \in Int /\ i \in Int /\ n \in Int
          BY <1>3, <1>5, FileNumbers
        <5>3. PICK m : m = FileLen(file)
          OBVIOUS
        <5>4. n <= m /\ m \in Int /\ i \in Int /\ n \in Int /\ i <= n
          BY <3>1, <5>1, <5>2, <5>3
        <5>5. i <= m
          BY ONLY <5>4
        <5> QED BY <5>3, <5>5
      <4> QED BY <4>1
    <3>2. Settled = {i \in acked \ hasty : Up \/ i <= FileLen(file)}
      BY <2>2 DEF Settled
    <3> QED BY <1>6, <1>7, <2>2, <3>1, <3>2
  <2> QED BY <2>1, <2>2
<1>9. ASSUME ~ renamed PROVE Durable!Upto(n) = Settled
  <2>1. ASSUME NEW i \in Settled PROVE i <= n
    <3>1. Promised /\ i \in acked /\ i \notin hasty /\ i \in Nat
      BY <1>5, <2>1 DEF Settled
    <3>2. Kept(i)'
      BY <1>5, <3>1 DEF AckInv
    <3>3. i <= Len(file'.base) + file'.synced
      BY <1>9, <3>1, <3>2 DEF Kept
    <3>4. Len(file'.base) + file'.synced <= n /\ Len(file'.base) + file'.synced \in Int
      <4>1. /\ Len(file'.base) \in Nat /\ Len(file'.log) \in Nat /\ file'.synced \in Nat
            /\ file'.synced <= Len(file'.log) /\ n = Len(file'.base) + Len(file'.log)
        BY <1>2, FileNumbersNext DEF FileLen
      <4> DEFINE base == Len(file'.base)
                 log == Len(file'.log)
                 synced == file'.synced
      <4> HIDE DEF base, log, synced
      <4>2. base \in Nat /\ log \in Nat /\ synced \in Nat /\ synced <= log /\ n = base + log
        BY <4>1 DEF base, log, synced
      <4>3. base + synced <= n /\ base + synced \in Int
        BY ONLY <4>2
      <4> QED BY <4>3 DEF base, synced
    <3> QED BY <1>3, <3>1, <3>3, <3>4
  <2> QED BY <1>7, <2>1
<1> QED BY <1>3, <1>4, <1>8, <1>9 DEF Durable!Lose

LEMMA JournalStep ==
  ASSUME AofAssumption, IInv, IInv', AckInv, AckInv', [Next]_vars
  PROVE  Durable!Next \/ UNCHANGED Durable!jvars
<1> USE DEF bufVars, jobVars, seenVars, loopVars, GoTo
<1>a. TypeOK /\ file \in FileType /\ data \in Seq(Write)
  BY TypeFacts DEF IInv, TypeOK
<1>1. CASE UNCHANGED vars
  <2>1. UNCHANGED <<conf, data, phase, file, acked, hasty, renamed>>
    BY <1>1 DEF vars
  <2> QED BY <2>1 DEF Durable!jvars, Stored, Settled, Promised, Up, Load, FileLen
<1>2. CASE FlushNothing \/ PostponeFlush \/ WriteBuffer \/ Poll \/ EventsDone \/ CronIdle
           \/ CronRewrite \/ CronSave \/ CronForkFails \/ CronSaved \/ WriteDiff \/ RewriteFails
  <2>1. Up /\ Up' /\ UNCHANGED <<conf, data, acked, hasty, renamed>>
    BY <1>2 DEF FlushNothing, PostponeFlush, WriteBuffer, MayWrite, Poll, EventsDone, CronIdle,
                CronRewrite, CronSave, CronForkFails, CronSaved, WriteDiff, RewriteFails, Up
  <2> QED BY <2>1, NotSeen
<1>3. ASSUME NEW c \in Clients, ReadOther(c) \/ RewriteCommand(c)
      PROVE  UNCHANGED Durable!jvars
  <2>1. Up /\ Up' /\ UNCHANGED <<conf, data, acked, hasty, renamed>>
    BY <1>3 DEF ReadOther, RewriteCommand, Up
  <2> QED BY <2>1, NotSeen
<1>4. CASE ChildEnds \/ BackgroundFsync \/ ShutdownFails
  <2>1. Up /\ phase' = phase /\ UNCHANGED <<conf, data, acked, hasty, renamed>>
    <3>1. CASE ChildEnds
      BY <3>1 DEF ChildEnds, Fault, IInv, DownInv, Up
    <3>2. CASE BackgroundFsync
      BY <3>2 DEF BackgroundFsync
    <3>3. CASE ShutdownFails
      BY <3>3 DEF ShutdownFails, MayShutDown, Up
    <3> QED BY <1>4, <3>1, <3>2, <3>3
  <2> QED BY <2>1, NotSeen DEF Up
<1>5. CASE Shutdown \/ Kill \/ (ShortWrite /\ Die) \/ (PowerLoss /\ Up)
  <2>1. Up /\ phase' = "down" /\ UNCHANGED <<conf, data, acked, hasty, renamed>>
    BY <1>5 DEF Shutdown, MayShutDown, Kill, ShortWrite, MayWrite, PowerLoss, Die, Up
  <2>2. Stored = data
    BY <2>1 DEF Stored
  <2>3. Prefix(Load(file'), Stored)
    BY <2>1, <2>2, DownLoadsNext
  <2>4. phase # "down"
    BY <2>1 DEF Up
  <2> QED BY <1>a, <2>1, <2>2, <2>3, <2>4, Stops DEF Durable!Next
<1>6. CASE ShortWrite /\ ~ Die
  <2>1. Up /\ Up' /\ UNCHANGED <<conf, data, acked, hasty, renamed>>
    BY <1>6 DEF ShortWrite, MayWrite, Up
  <2> QED BY <2>1, NotSeen
<1>7. CASE PowerLoss /\ ~ Up
  <2>1. phase = "down" /\ phase' = "down" /\ UNCHANGED <<conf, data, acked, hasty, renamed>>
    BY <1>7 DEF PowerLoss, Die, Up
  <2>2. /\ Load(file) \in Seq(Write) /\ Len(Load(file)) = FileLen(file) /\ Prefix(Load(file), data)
    BY <2>1, DownLoads
  <2>3. /\ Load(file') \in Seq(Write) /\ Len(Load(file')) = FileLen(file') /\ Prefix(Load(file'), data)
    BY <2>1, DownLoadsNext
  <2>4. FileLen(file') <= FileLen(file)
    <3>1. PICK n \in file.synced..Len(file.log) : file' = [file EXCEPT !.log = SubSeq(@, 1, n)]
      BY <1>7 DEF PowerLoss
    <3>2. Len(file.base) \in Nat /\ Len(file.log) \in Nat /\ file.synced \in Nat
      BY FileNumbers
    <3>3. file'.base = file.base /\ Len(file'.log) = n
      <4>1. file.log \in Seq(Entry)
        BY <1>a DEF FileType
      <4>2. Len(SubSeq(file.log, 1, n)) = n
        BY <3>2, <4>1
      <4> QED BY <1>a, <3>1, <4>2 DEF FileType
    <3> DEFINE base == Len(file.base)
               log == Len(file.log)
    <3>4. base \in Nat /\ log \in Nat /\ n \in Int /\ n <= log
      BY <3>2
    <3>5. FileLen(file') = base + n /\ FileLen(file) = base + log
      BY <3>3 DEF FileLen
    <3> HIDE DEF base, log
    <3>6. base + n <= base + log
      BY ONLY <3>4
    <3> QED BY <3>5, <3>6
  <2>5. Stored = Load(file)
    BY <2>1 DEF Stored, Up
  <2>6. Prefix(Load(file'), Load(file))
    <3>1. PICK s, t : s = Load(file') /\ t = Load(file)
      OBVIOUS
    <3>2. s \in Seq(Write) /\ t \in Seq(Write) /\ Len(s) <= Len(t)
      BY <2>2, <2>3, <2>4, <3>1
    <3>3. Prefix(s, data) /\ Prefix(t, data)
      BY <2>2, <2>3, <3>1
    <3>4. \A i \in 1..Len(s) : i \in 1..Len(t)
      BY <3>2
    <3>5. Prefix(s, t)
      BY <3>2, <3>3, <3>4 DEF Prefix
    <3> QED BY <3>1, <3>5
  <2> QED BY <2>1, <2>2, <2>4, <2>5, <2>6, Stops DEF Durable!Next
<1>8. CASE Restart
  <2>1. /\ phase = "down" /\ phase' = "flush" /\ data' = Load(file) /\ Len(data') = FileLen(file)
        /\ UNCHANGED <<conf, renamed>>
        /\ acked' = {i \in acked : i <= Len(data')} /\ hasty' = {i \in hasty : i <= Len(data')}
    BY <1>8, RestartStep DEF Restart
  <2>2. Stored' = Stored
    BY <2>1 DEF Stored, Up
  <2>3. Settled' = Settled
    BY <2>1 DEF Settled, Promised, Up
  <2> QED BY <2>1, <2>2, <2>3 DEF Durable!jvars
<1>9. ASSUME NEW c \in Clients, SendReply(c)
      PROVE  Durable!Next
  <2>1. /\ Up /\ Up' /\ UNCHANGED <<conf, data, hasty, renamed>>
        /\ Promised => acked \subseteq acked'
    BY <1>9 DEF SendReply, Up
  <2> QED BY <2>1, Settles DEF Durable!Next
<1>10. CASE Sync \/ Swap
  <2>1. /\ Up /\ Up' /\ UNCHANGED <<conf, data, acked>>
        /\ hasty' \subseteq hasty /\ renamed' \in {renamed, FALSE}
    BY <1>10 DEF Sync, Swap, Up
  <2> QED BY <2>1, Settles DEF Durable!Next
<1>11. CASE Rename
  <2>1. Up /\ Up' /\ UNCHANGED <<conf, data, acked, hasty>> /\ renamed' = Promised
    BY <1>11 DEF Rename, Up
  <2>2. CASE Promised
    <3>1. Stored' = Stored /\ Settled' = Settled /\ renamed' = TRUE
      BY <2>1, <2>2 DEF Stored, Settled, Promised
    <3> QED BY <3>1 DEF Durable!Expose, Durable!Next
  <2>3. CASE ~ Promised
    <3>1. renamed' = FALSE
      BY <2>1, <2>3
    <3> QED BY <2>1, <3>1, Settles DEF Durable!Next
  <2> QED BY <2>2, <2>3
<1>12. ASSUME NEW c \in Clients, ReadCommand(c)
       PROVE  Durable!Next
  <2>1. Up /\ Up' /\ UNCHANGED <<conf, acked, renamed>>
    BY <1>12 DEF ReadCommand, Up
  <2>2. PICK ws \in Commands :
          /\ data' = data \o ws
          /\ hasty' = IF Promised /\ "w" \in fired[c] THEN hasty \cup Ids(ws) ELSE hasty
    BY <1>12 DEF ReadCommand, Feed
  <2>3. Stored = data /\ Stored' = data \o ws
    BY <2>1, <2>2 DEF Stored
  <2>4. Settled' = Settled
    <3>1. CASE ~ Promised
      BY <2>1, <3>1 DEF Settled, Promised
    <3>2. CASE Promised
      <4>1. \A i \in acked : i \in Nat /\ i <= Len(data)
        BY <1>a, <3>2 DEF AckInv, TypeOK
      <4>2. \A i \in Ids(ws) : i > Len(data)
        BY <1>a, CommandIsNew
      <4>3. Len(data) \in Nat
        BY <1>a
      <4>4. \A i \in acked : i \notin Ids(ws)
        BY <4>1, <4>2, <4>3
      <4> QED BY <2>1, <2>2, <3>2, <4>4 DEF Settled, Promised
    <3> QED BY <3>1, <3>2
  <2>5. Durable!Execute
    <3>1. PICK n : n = Len(data)
      OBVIOUS
    <3>2. \/ \E d \in DBs : ws = <<[id |-> n + 1, db |-> d, last |-> TRUE]>>
          \/ \E d, e \in DBs : ws = <<[id |-> n + 1, db |-> d, last |-> FALSE],
                                     [id |-> n + 2, db |-> e, last |-> TRUE]>>
      BY <3>1 DEF Commands
    <3>3. \/ \E d \in DBs : Stored' = Stored \o <<[id |-> n + 1, db |-> d, last |-> TRUE]>>
          \/ \E d, e \in DBs :
               Stored' = Stored \o <<[id |-> n + 1, db |-> d, last |-> FALSE],
                                     [id |-> n + 2, db |-> e, last |-> TRUE]>>
      BY <2>3, <3>2
    <3> QED BY <2>1, <2>3, <2>4, <3>1, <3>3 DEF Durable!Execute
  <2> QED BY <2>5 DEF Durable!Next
<1> QED BY <1>1, <1>2, <1>3, <1>4, <1>5, <1>6, <1>7, <1>8, <1>9, <1>10, <1>11, <1>12
        DEF Next, Thread, Durable!Next

\* The server keeps the promise of Journal, for any number of clients and writes, through
\* every rewrite, fault and restart: writes are lost only from the end, only when
\* it stops, and no settled one but for a renamed file not yet synced.
THEOREM Refinement == Spec => ImplementsJournal
<1>1. Init => Durable!Init
  BY DEF Init, Durable!Init, Stored, Settled, Up
<1>2. Init => AckInv
  BY DEF Init, AckInv
<1>3. IInv /\ IInv' /\ AckInv /\ [Next]_vars => AckInv'
  BY AckStep, AofAssumption
<1>4. IInv /\ IInv' /\ AckInv /\ AckInv' /\ [Next]_vars => [Durable!Next]_(Durable!jvars)
  BY JournalStep, AofAssumption
<1> QED BY <1>1, <1>2, <1>3, <1>4, Invariance, AofAssumption, PTL DEF Spec, ImplementsJournal, Durable!Spec

================================================================================
