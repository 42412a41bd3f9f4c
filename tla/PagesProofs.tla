----------------------------- MODULE PagesProofs ------------------------------
(***************************************************************************)
(* Proofs about Pages, for every number of administrators, elements and    *)
(* pages, for lists of every length, and for every number of requests.     *)
(***************************************************************************)
EXTENDS Pages, FoldLemmas, SequenceTheorems

(* What the loop of delete_element keeps of a list                         *)

\* One turn of the loop, and the lists it builds from the first positions.
Turn(acc, x, e) == IF x = e \/ x \in ToSet(acc) THEN acc ELSE Append(acc, x)
Builds(g, kept, list, e, n) ==
  g = [T \in SUBSET (1..n) |-> IF T = {} THEN kept ELSE Turn(g[T \ {Max(T)}], list[Max(T)], e)]

\* The last position of a set of positions.
LEMMA LastPosition ==
  ASSUME NEW n \in Nat, NEW T \in SUBSET (1..(n + 1)), n + 1 \in T
  PROVE  Max(T) = n + 1
<1>1. \A y \in T : n + 1 >= y
  OBVIOUS
<1>2. \A x \in T : (\A y \in T : x >= y) => x = n + 1
  OBVIOUS
<1> QED BY <1>1, <1>2 DEF Max

LEMMA BuildsExists ==
  ASSUME NEW kept, NEW list, NEW e
  PROVE  \A n \in Nat : \E g : Builds(g, kept, list, e, n)
<1> DEFINE N == {n \in Nat : \E g : Builds(g, kept, list, e, n)}
<1>1. 0 \in N
  <2>1. SUBSET (1..0) = {{}}
    OBVIOUS
  <2>2. Builds([T \in SUBSET (1..0) |-> kept], kept, list, e, 0)
    BY <2>1 DEF Builds
  <2> QED BY <2>2
<1>2. ASSUME NEW n \in Nat, n \in N PROVE n + 1 \in N
  <2>1. PICK g : Builds(g, kept, list, e, n)
    BY <1>2
  <2> DEFINE h == [T \in SUBSET (1..(n + 1)) |->
                     IF n + 1 \in T THEN Turn(g[T \ {n + 1}], list[n + 1], e) ELSE g[T]]
  <2>2. ASSUME NEW T \in SUBSET (1..(n + 1))
        PROVE  h[T] = IF T = {} THEN kept ELSE Turn(h[T \ {Max(T)}], list[Max(T)], e)
    <3>1. CASE n + 1 \in T
      <4>1. Max(T) = n + 1
        BY <3>1, LastPosition
      <4>2. T \ {n + 1} \in SUBSET (1..(n + 1)) /\ n + 1 \notin T \ {n + 1}
        OBVIOUS
      <4>3. h[T \ {n + 1}] = g[T \ {n + 1}]
        BY <4>2
      <4>4. h[T] = Turn(g[T \ {n + 1}], list[n + 1], e) /\ T # {}
        BY <3>1
      <4> HIDE DEF h
      <4> QED BY <4>1, <4>3, <4>4
    <3>2. CASE n + 1 \notin T
      <4>1. T \in SUBSET (1..n)
        BY <3>2
      <4>2. g[T] = IF T = {} THEN kept ELSE Turn(g[T \ {Max(T)}], list[Max(T)], e)
        BY <2>1, <4>1 DEF Builds
      <4>3. h[T] = g[T]
        BY <3>2
      <4>4. h[T \ {Max(T)}] = g[T \ {Max(T)}]
        <5>1. n + 1 \notin T \ {Max(T)} /\ T \ {Max(T)} \in SUBSET (1..(n + 1))
          BY <3>2
        <5> QED BY <5>1
      <4> HIDE DEF h
      <4> QED BY <4>2, <4>3, <4>4
    <3> QED BY <3>1, <3>2
  <2>3. Builds(h, kept, list, e, n + 1)
    <3>1. h = [T \in SUBSET (1..(n + 1)) |-> h[T]]
      OBVIOUS
    <3> HIDE DEF h
    <3> QED BY <2>2, <3>1 DEF Builds
  <2>4. n + 1 \in Nat
    OBVIOUS
  <2> HIDE DEF h
  <2> QED BY <2>3, <2>4
<1>3. \A n \in Nat : n \in N
  <2> HIDE DEF N
  <2> QED BY <1>1, <1>2, NatSetInduction
<1> QED BY <1>3

LEMMA KeepBuilds ==
  ASSUME NEW S, NEW kept, NEW list \in Seq(S), NEW e
  PROVE  \E g : Builds(g, kept, list, e, Len(list)) /\ Keep(kept, list, e) = g[1..Len(list)]
<1> DEFINE it[T \in SUBSET (DOMAIN list)] ==
      IF T = {} THEN kept
      ELSE LET x == Max(T)
           IN  IF list[x] = e \/ list[x] \in ToSet(it[T \ {x}]) THEN it[T \ {x}] ELSE Append(it[T \ {x}], list[x])
<1>1. Keep(kept, list, e) = it[DOMAIN list]
  BY DEF Keep, FoldLeft, MapThenFoldSet
<1>2. DOMAIN list = 1..Len(list) /\ Len(list) \in Nat
  OBVIOUS
<1>3. PICK g : Builds(g, kept, list, e, Len(list))
  BY <1>2, BuildsExists
<1>4. \E f : f = [T \in SUBSET (DOMAIN list) |->
        IF T = {} THEN kept
        ELSE LET x == Max(T)
             IN  IF list[x] = e \/ list[x] \in ToSet(f[T \ {x}]) THEN f[T \ {x}] ELSE Append(f[T \ {x}], list[x])]
  <2> WITNESS g
  <2> QED BY <1>2, <1>3 DEF Builds, Turn
<1>5. it = [T \in SUBSET (DOMAIN list) |->
        IF T = {} THEN kept
        ELSE LET x == Max(T)
             IN  IF list[x] = e \/ list[x] \in ToSet(it[T \ {x}]) THEN it[T \ {x}] ELSE Append(it[T \ {x}], list[x])]
  BY <1>4
<1>6. Builds(it, kept, list, e, Len(list))
  BY <1>2, <1>5 DEF Builds, Turn
<1> HIDE DEF it
<1> QED BY <1>1, <1>2, <1>6

\* A turn of the loop adds at most its element.
LEMMA TurnFacts ==
  ASSUME NEW S, NEW acc \in Seq(S), NEW x \in S, NEW e
  PROVE  /\ Turn(acc, x, e) \in Seq(S)
         /\ ToSet(Turn(acc, x, e)) = ToSet(acc) \cup ({x} \ {e})
<1>1. CASE x = e \/ x \in ToSet(acc)
  BY <1>1 DEF Turn
<1>2. CASE ~ (x = e \/ x \in ToSet(acc))
  <2>1. Turn(acc, x, e) = Append(acc, x)
    BY <1>2 DEF Turn
  <2>2. ToSet(Append(acc, x)) = ToSet(acc) \cup {x}
    <3>1. DOMAIN Append(acc, x) = 1..(Len(acc) + 1) /\ Len(acc) \in Nat /\ DOMAIN acc = 1..Len(acc)
      OBVIOUS
    <3>2. /\ \A i \in 1..Len(acc) : Append(acc, x)[i] = acc[i]
          /\ Append(acc, x)[Len(acc) + 1] = x
      BY AppendProperties
    <3> QED BY <3>1, <3>2 DEF ToSet
  <2> QED BY <1>2, <2>1, <2>2
<1> QED BY <1>1, <1>2

\* A list after the loop holds what was kept before and what it held, but for
\* the deleted element.
LEMMA KeepFacts ==
  ASSUME NEW S, NEW kept \in Seq(S), NEW list \in Seq(S), NEW e
  PROVE  /\ Keep(kept, list, e) \in Seq(S)
         /\ ToSet(Keep(kept, list, e)) = ToSet(kept) \cup (ToSet(list) \ {e})
<1>1. PICK g : Builds(g, kept, list, e, Len(list)) /\ Keep(kept, list, e) = g[1..Len(list)]
  BY KeepBuilds
<1> DEFINE Holds(n) == {list[i] : i \in 1..n}
           N == {n \in Nat : n <= Len(list) =>
                   /\ g[1..n] \in Seq(S)
                   /\ ToSet(g[1..n]) = ToSet(kept) \cup (Holds(n) \ {e})}
<1>2. Len(list) \in Nat /\ DOMAIN list = 1..Len(list) /\ \A i \in 1..Len(list) : list[i] \in S
  OBVIOUS
<1>3. 0 \in N
  <2>1. 1..0 = {} /\ {} \in SUBSET (1..Len(list))
    OBVIOUS
  <2>2. g[{}] = kept
    BY <1>1, <2>1 DEF Builds
  <2>3. Holds(0) = {}
    BY <2>1
  <2> QED BY <2>1, <2>2, <2>3
<1>4. ASSUME NEW n \in Nat, n \in N PROVE n + 1 \in N
  <2> SUFFICES ASSUME n + 1 <= Len(list)
               PROVE  /\ g[1..(n + 1)] \in Seq(S)
                      /\ ToSet(g[1..(n + 1)]) = ToSet(kept) \cup (Holds(n + 1) \ {e})
    OBVIOUS
  <2>1. g[1..n] \in Seq(S) /\ ToSet(g[1..n]) = ToSet(kept) \cup (Holds(n) \ {e})
    BY <1>2, <1>4
  <2>2. Max(1..(n + 1)) = n + 1 /\ (1..(n + 1)) \ {n + 1} = 1..n /\ 1..(n + 1) # {}
        /\ 1..(n + 1) \in SUBSET (1..Len(list))
    BY <1>2, LastPosition
  <2>3. g[1..(n + 1)] = Turn(g[1..n], list[n + 1], e)
    <3>1. \A T \in SUBSET (1..Len(list)) :
            g[T] = IF T = {} THEN kept ELSE Turn(g[T \ {Max(T)}], list[Max(T)], e)
      BY <1>1 DEF Builds
    <3> QED BY <2>2, <3>1
  <2>4. list[n + 1] \in S
    BY <1>2
  <2>5. Holds(n + 1) = Holds(n) \cup {list[n + 1]}
    <3>1. 1..(n + 1) = 1..n \cup {n + 1}
      OBVIOUS
    <3> QED BY <3>1
  <2> HIDE DEF Holds
  <2>6. /\ Turn(g[1..n], list[n + 1], e) \in Seq(S)
        /\ ToSet(Turn(g[1..n], list[n + 1], e)) = ToSet(g[1..n]) \cup ({list[n + 1]} \ {e})
    BY <2>1, <2>4, TurnFacts
  <2> QED BY <2>1, <2>3, <2>5, <2>6
<1>5. Len(list) \in N
  <2> HIDE DEF N
  <2> QED BY <1>2, <1>3, <1>4, NatSetInduction
<1>6. ToSet(list) = Holds(Len(list))
  BY <1>2 DEF ToSet
<1> HIDE DEF Holds
<1> QED BY <1>1, <1>2, <1>5, <1>6

-----------------------------------------------------------------------------
(* The inductive invariant                                                 *)

Rows == UNION {[P -> Lists] : P \in SUBSET PageIds}

\* What a request has read.  An element that is saved has an id.
Puts == [pc : {"put"}, elem : Elements \cap ids, found : BOOLEAN]
Adds == [pc : {"add"}, page : PageIds, elem : Elements, list : Lists]
Saves == [pc : {"save"}, page : PageIds, list : Lists]
Copies == [pc : {"copy"}, list : Lists]
Strips == [pc : {"strip"}, elem : Elements, kept : Lists, rows : Rows]
Requests == {Idle} \cup Puts \cup Adds \cup Saves \cup Copies \cup Strips
Forms == {NoForm} \cup [page : PageIds, base : Lists, list : Lists]

BodyTyped ==
  /\ body = [p \in Pages |-> body[p]] /\ Pages \subseteq PageIds
  /\ \A p \in Pages : body[p] \in Lists
RestTyped ==
  /\ elements \subseteq Elements
  /\ ids \subseteq Elements \cup PageIds /\ elements \cup Pages \subseteq ids
  /\ begun \in 0..MaxBegun
HistoryTyped ==
  /\ added \subseteq PageIds \X Elements
  /\ overtaken \subseteq PageIds /\ hurt \subseteq Elements \cup {NoElement}
Typed ==
  /\ BodyTyped /\ RestTyped /\ HistoryTyped
  /\ form \in [Admins -> Forms] /\ req \in [Admins -> Requests]

\* A deletion that runs: what it has kept does not hold its element, and the
\* pages that still list the element are among those it has yet to write.  This
\* is why the row may go when no page is left.
StripOK(a) ==
  At(a, "strip") =>
    /\ req[a].elem \notin ToSet(req[a].kept)
    /\ \A p \in Pages : req[a].elem \in ToSet(body[p])
                          => req[a].elem \in hurt \/ p \in DOMAIN req[a].rows
Stripping == \A a \in Admins : StripOK(a)

IInv == Typed /\ ListedExists /\ Stripping /\ AddedIsListed

-----------------------------------------------------------------------------
(* Steps that write no list                                                *)

\* What a request has read stays what it is while ids grow.
LEMMA RequestsGrow ==
  ASSUME ids \subseteq ids' PROVE Requests \subseteq Requests'
BY DEF Requests, Puts, Adds, Saves, Copies, Strips

LEMMA RequestChanges ==
  ASSUME req \in [Admins -> Requests], ids \subseteq ids', NEW a \in Admins, NEW r,
         r \in Requests', req' = [req EXCEPT ![a] = r]
  PROVE  /\ req' \in [Admins -> Requests'] /\ req'[a] = r
         /\ \A b \in Admins \ {a} : req'[b] = req[b]
<1>1. Requests \subseteq Requests'
  BY RequestsGrow
<1> QED BY <1>1

\* A request at one of its places has the fields of that place.
LEMMA RequestAt ==
  ASSUME req \in [Admins -> Requests], NEW a \in Admins
  PROVE  /\ At(a, "put") => req[a] \in Puts
         /\ At(a, "add") => req[a] \in Adds
         /\ At(a, "save") => req[a] \in Saves
         /\ At(a, "copy") => req[a] \in Copies
         /\ At(a, "strip") => req[a] \in Strips
<1>1. req[a] \in Requests
  OBVIOUS
<1> QED BY <1>1 DEF Requests, Puts, Adds, Saves, Copies, Strips, Idle, At

LEMMA IdleIsRequest == Idle \in Requests /\ Idle \in Requests' /\ Idle.pc = "idle"
BY DEF Requests, Idle

\* With the lists as they are, and rows and history only growing, pages and the
\* deletions of the other requests stay in order.
LEMMA ListsStay ==
  ASSUME IInv, UNCHANGED body, elements \subseteq elements', hurt \subseteq hurt',
         \A b \in Admins : req'[b] = req[b] \/ req'[b].pc # "strip"
  PROVE  BodyTyped' /\ ListedExists' /\ Stripping'
<1>1. Pages' = Pages /\ body' = body
  BY DEF Pages
<1>2. BodyTyped'
  BY <1>1 DEF IInv, Typed, BodyTyped
<1>3. ListedExists'
  BY <1>1 DEF IInv, ListedExists
<1>4. ASSUME NEW b \in Admins PROVE StripOK(b)'
  BY <1>1 DEF IInv, Stripping, StripOK, At
<1> QED BY <1>2, <1>3, <1>4 DEF Stripping

LEMMA AddedStays ==
  ASSUME IInv, UNCHANGED body, added' \subseteq added, overtaken \subseteq overtaken'
  PROVE  AddedIsListed'
<1>1. Pages' = Pages /\ body' = body
  BY DEF Pages
<1> QED BY <1>1 DEF IInv, AddedIsListed

\* A request begins.
LEMMA Begins ==
  ASSUME PagesAssumption, IInv, NEW a \in Admins, Begin(a)
  PROVE  begun' \in 0..MaxBegun
BY DEF IInv, Typed, RestTyped, Begin, PagesAssumption

\* A request that begins by reading, or goes on without writing.
LEMMA ReadKeeps ==
  ASSUME PagesAssumption, IInv, NEW a \in Admins, NEW r \in Requests, r.pc # "strip",
         req' = [req EXCEPT ![a] = r], begun' \in 0..MaxBegun,
         UNCHANGED <<table, form, history>>
  PROVE  IInv'
<1>1. /\ UNCHANGED <<elements, body, ids>> /\ UNCHANGED form
      /\ UNCHANGED <<added, overtaken, hurt>>
  BY DEF table, history
<1>2. Requests' = Requests
  BY <1>1 DEF Requests, Puts, Adds, Saves, Copies, Strips
<1>3. /\ req' \in [Admins -> Requests'] /\ req'[a] = r
      /\ \A b \in Admins \ {a} : req'[b] = req[b]
  BY <1>2 DEF IInv, Typed
<1>4. BodyTyped' /\ ListedExists' /\ Stripping' /\ AddedIsListed'
  BY <1>1, <1>3, ListsStay, AddedStays
<1>5. RestTyped' /\ HistoryTyped' /\ form' \in [Admins -> Forms']
  BY <1>1 DEF IInv, Typed, RestTyped, HistoryTyped, Pages, Forms
<1> QED BY <1>3, <1>4, <1>5 DEF IInv, Typed

-----------------------------------------------------------------------------
(* Lists that are written                                                  *)

LEMMA ListHolds ==
  ASSUME NEW list \in Lists PROVE ToSet(list) \subseteq Elements \cup {NoElement}
<1>1. \A i \in DOMAIN list : list[i] \in Elements \cup {NoElement}
  BY DEF Lists
<1> QED BY <1>1 DEF ToSet

\* What is written too late is known to be hurt, so that a list that is written
\* holds only elements with a row, and no deletion that runs has missed it.
LEMMA Written ==
  ASSUME IInv, NEW a \in Admins, NEW list \in Lists, TooLate(a, list) \subseteq hurt',
         NEW b \in Admins
  PROVE  /\ ToSet(list) \subseteq elements \cup hurt'
         /\ b # a /\ At(b, "strip") /\ req[b].elem \in ToSet(list) => req[b].elem \in hurt'
<1>1. \A e \in ToSet(list) : e \in elements \/ e \in hurt'
  BY DEF TooLate
<1>2. ASSUME b # a, At(b, "strip"), req[b].elem \in ToSet(list) PROVE req[b].elem \in hurt'
  BY <1>2 DEF TooLate, Dying
<1> QED BY <1>1, <1>2

LEMMA TooLateType ==
  ASSUME NEW a \in Admins, NEW list \in Lists
  PROVE  TooLate(a, list) \subseteq Elements \cup {NoElement}
BY ListHolds DEF TooLate

\* A write changes the list of its page and nothing else.
LEMMA WriteFacts ==
  ASSUME IInv, NEW a \in Admins, NEW p \in PageIds, NEW list \in Lists, NEW base,
         WriteBody(a, p, list, base)
  PROVE  /\ Pages' = Pages /\ BodyTyped'
         /\ \A q \in Pages : body'[q] = IF q = p THEN list ELSE body[q]
         /\ hurt \subseteq hurt' /\ hurt' \subseteq Elements \cup {NoElement}
         /\ p \in Pages => TooLate(a, list) \subseteq hurt'
         /\ overtaken \subseteq overtaken' /\ overtaken' \subseteq PageIds
         /\ p \in Pages /\ body[p] # base => p \in overtaken'
<1>1. body' = [q \in Pages |-> IF q = p THEN list ELSE body[q]]
  BY DEF WriteBody
<1>2. Pages' = Pages /\ \A q \in Pages : body'[q] = IF q = p THEN list ELSE body[q]
  BY <1>1 DEF Pages
<1>3. BodyTyped'
  BY <1>1, <1>2 DEF IInv, Typed, BodyTyped
<1>4. hurt \subseteq hurt' /\ hurt' \subseteq Elements \cup {NoElement} /\ (p \in Pages => TooLate(a, list) \subseteq hurt')
  BY TooLateType DEF WriteBody, IInv, Typed, HistoryTyped
<1>5. /\ overtaken \subseteq overtaken' /\ overtaken' \subseteq PageIds
      /\ p \in Pages /\ body[p] # base => p \in overtaken'
  BY DEF WriteBody, IInv, Typed, HistoryTyped
<1> QED BY <1>2, <1>3, <1>4, <1>5

\* After a write every page lists elements that exist, and the other
\* administrators' deletions are in order.
LEMMA WriteKeepsLists ==
  ASSUME IInv, NEW a \in Admins, NEW p \in PageIds, NEW list \in Lists, NEW base,
         WriteBody(a, p, list, base), UNCHANGED elements,
         \A b \in Admins \ {a} : req'[b] = req[b]
  PROVE  ListedExists' /\ \A b \in Admins \ {a} : StripOK(b)'
<1>1. /\ Pages' = Pages
      /\ \A q \in Pages : body'[q] = IF q = p THEN list ELSE body[q]
      /\ hurt \subseteq hurt'
      /\ p \in Pages => TooLate(a, list) \subseteq hurt'
  BY WriteFacts
<1>2. ASSUME NEW q \in Pages PROVE ToSet(body'[q]) \subseteq elements \cup hurt'
  <2>1. CASE q = p
    BY <1>1, <2>1, Written
  <2>2. CASE q # p
    BY <1>1, <2>2 DEF IInv, ListedExists
  <2> QED BY <2>1, <2>2
<1>3. ASSUME NEW b \in Admins \ {a} PROVE StripOK(b)'
  <2> SUFFICES ASSUME At(b, "strip")
               PROVE  /\ req[b].elem \notin ToSet(req[b].kept)
                      /\ \A q \in Pages : req[b].elem \in ToSet(body'[q])
                           => req[b].elem \in hurt' \/ q \in DOMAIN req[b].rows
    BY <1>1 DEF StripOK, At
  <2>1. /\ req[b].elem \notin ToSet(req[b].kept)
        /\ \A q \in Pages : req[b].elem \in ToSet(body[q])
             => req[b].elem \in hurt \/ q \in DOMAIN req[b].rows
    BY DEF IInv, Stripping, StripOK
  <2>2. ASSUME NEW q \in Pages, req[b].elem \in ToSet(body'[q])
        PROVE  req[b].elem \in hurt' \/ q \in DOMAIN req[b].rows
    <3>1. CASE q = p
      <4>1. req[b].elem \in ToSet(list)
        BY <1>1, <2>2, <3>1
      <4> QED BY <1>1, <3>1, <4>1, Written
    <3>2. CASE q # p
      BY <1>1, <2>1, <2>2, <3>2
    <3> QED BY <3>1, <3>2
  <2> QED BY <2>1, <2>2
<1> QED BY <1>1, <1>2, <1>3 DEF ListedExists

\* A request that writes, and is not a deletion, ends or has not begun.
LEMMA WriteKeeps ==
  ASSUME PagesAssumption, IInv, NEW a \in Admins, NEW p \in PageIds, NEW list \in Lists, NEW base,
         WriteBody(a, p, list, base),
         UNCHANGED <<elements, ids>>, begun' \in 0..MaxBegun, form' \in [Admins -> Forms],
         req' = [req EXCEPT ![a] = Idle],
         added' \subseteq PageIds \X Elements,
         \A x \in added' : x[1] # p => x \in added,
         \A x \in added' : x[1] = p /\ p \notin Pages => x \in added,
         \A x \in added' : x[1] = p /\ p \in Pages /\ (p \in overtaken \/ body[p] # base) => p \in overtaken',
         \A x \in added' : x[1] = p /\ p \in Pages /\ p \notin overtaken /\ body[p] = base
                             => x[2] \in ToSet(list)
  PROVE  IInv'
<1>1. /\ Pages' = Pages /\ BodyTyped'
      /\ \A q \in Pages : body'[q] = IF q = p THEN list ELSE body[q]
      /\ hurt' \subseteq Elements \cup {NoElement}
      /\ overtaken \subseteq overtaken' /\ overtaken' \subseteq PageIds
      /\ p \in Pages /\ body[p] # base => p \in overtaken'
  BY WriteFacts
<1>2. Requests' = Requests /\ Forms' = Forms
  BY DEF Requests, Puts, Adds, Saves, Copies, Strips, Forms
<1>3. /\ req' \in [Admins -> Requests'] /\ req'[a] = Idle
      /\ \A b \in Admins \ {a} : req'[b] = req[b]
  BY <1>2, IdleIsRequest DEF IInv, Typed
<1>4. ListedExists' /\ \A b \in Admins \ {a} : StripOK(b)'
  BY <1>3, WriteKeepsLists
<1>5. StripOK(a)'
  BY <1>3 DEF StripOK, At, Idle
<1>6. AddedIsListed'
  <2> SUFFICES ASSUME NEW x \in added'
               PROVE  x[1] \in overtaken' \/ (x[1] \in Pages /\ x[2] \in ToSet(body'[x[1]]))
    BY <1>1 DEF AddedIsListed
  <2>1. x \in added => x[1] \in overtaken \/ (x[1] \in Pages /\ x[2] \in ToSet(body[x[1]]))
    BY DEF IInv, AddedIsListed
  <2>2. CASE x[1] # p
    BY <1>1, <2>1, <2>2
  <2>3. CASE x[1] = p
    BY <1>1, <2>1, <2>3
  <2> QED BY <2>2, <2>3
<1>7. RestTyped' /\ HistoryTyped'
  BY <1>1 DEF IInv, Typed, RestTyped, HistoryTyped
<1> QED BY <1>1, <1>2, <1>3, <1>4, <1>5, <1>6, <1>7 DEF IInv, Typed, Stripping

-----------------------------------------------------------------------------
(* Requests that begin                                                     *)

LEMMA RequestKeeps ==
  ASSUME PagesAssumption, IInv, NEW a \in Admins, Request(a)
  PROVE  IInv'
<1>1. ASSUME NEW e \in Elements, CreateElement(a, e) PROVE IInv'
  <2>1. begun' \in 0..MaxBegun
    BY <1>1, Begins DEF CreateElement
  <2>2. UNCHANGED <<body, form, req, added, overtaken, hurt>>
    BY <1>1 DEF CreateElement, history
  <2>3. BodyTyped' /\ ListedExists' /\ Stripping' /\ AddedIsListed'
    BY <1>1, <2>2, ListsStay, AddedStays DEF CreateElement
  <2>4. req' \in [Admins -> Requests'] /\ form' \in [Admins -> Forms']
    <3>1. Requests \subseteq Requests' /\ Forms' = Forms
      BY <1>1, RequestsGrow DEF CreateElement, Forms
    <3> QED BY <2>2, <3>1 DEF IInv, Typed
  <2>5. RestTyped' /\ HistoryTyped'
    BY <1>1, <2>1, <2>2 DEF CreateElement, IInv, Typed, RestTyped, HistoryTyped, Pages
  <2> QED BY <2>3, <2>4, <2>5 DEF IInv, Typed
<1>2. ASSUME NEW e \in Elements, SaveElement(a, e) PROVE IInv'
  <2> DEFINE r == [pc |-> "put", elem |-> e, found |-> e \in elements]
  <2>1. r \in Puts /\ r.pc # "strip"
    BY <1>2 DEF SaveElement, Puts
  <2>2. r \in Requests
    BY <2>1 DEF Requests
  <2>3. req' = [req EXCEPT ![a] = r] /\ begun' \in 0..MaxBegun
    BY <1>2, Begins DEF SaveElement
  <2> HIDE DEF r
  <2> QED BY <1>2, <2>1, <2>2, <2>3, ReadKeeps DEF SaveElement
<1>3. ASSUME NEW e \in Elements, DeleteElement(a, e) PROVE IInv'
  <2> DEFINE rows == [p \in {q \in Pages : e \in ToSet(body[q])} |-> body[p]]
             r == [pc |-> "strip", elem |-> e, kept |-> << >>, rows |-> rows]
  <2>1. UNCHANGED <<elements, body, ids, form, added, overtaken, hurt>> /\ begun' \in 0..MaxBegun
    BY <1>3, Begins DEF DeleteElement, table, history
  <2>2. rows \in Rows
    <3>1. {q \in Pages : e \in ToSet(body[q])} \in SUBSET PageIds
      BY DEF IInv, Typed, BodyTyped
    <3>2. rows \in [{q \in Pages : e \in ToSet(body[q])} -> Lists]
      BY DEF IInv, Typed, BodyTyped
    <3> HIDE DEF rows
    <3> QED BY <3>1, <3>2 DEF Rows
  <2>3. << >> \in Lists /\ ToSet(<< >>) = {}
    BY DEF Lists, ToSet
  <2>4. DOMAIN rows = {q \in Pages : e \in ToSet(body[q])}
    OBVIOUS
  <2> HIDE DEF rows
  <2>5. r \in Strips
    BY <2>2, <2>3 DEF Strips
  <2>6. Requests' = Requests /\ Forms' = Forms /\ Pages' = Pages
    BY <2>1 DEF Requests, Puts, Adds, Saves, Copies, Strips, Forms, Pages
  <2>7. req' = [req EXCEPT ![a] = r]
    BY <1>3 DEF DeleteElement, rows
  <2>8. r.elem = e /\ r.kept = << >> /\ r.rows = rows
    OBVIOUS
  <2> HIDE DEF r
  <2>9. /\ req' \in [Admins -> Requests'] /\ req'[a] = r
        /\ \A b \in Admins \ {a} : req'[b] = req[b]
    BY <2>5, <2>6, <2>7 DEF IInv, Typed, Requests
  <2>10. Stripping'
    <3>1. StripOK(a)'
      BY <2>1, <2>3, <2>4, <2>6, <2>8, <2>9 DEF StripOK
    <3>2. ASSUME NEW b \in Admins \ {a} PROVE StripOK(b)'
      BY <2>1, <2>6, <2>9 DEF IInv, Stripping, StripOK, At
    <3> QED BY <3>1, <3>2 DEF Stripping
  <2>11. ListedExists' /\ AddedIsListed' /\ BodyTyped'
    BY <2>1, <2>6 DEF IInv, Typed, ListedExists, AddedIsListed, BodyTyped
  <2>12. RestTyped' /\ HistoryTyped' /\ form' \in [Admins -> Forms']
    BY <2>1, <2>6 DEF IInv, Typed, RestTyped, HistoryTyped
  <2> QED BY <2>9, <2>10, <2>11, <2>12 DEF IInv, Typed
<1>4. ASSUME NEW p \in PageIds, CreatePage(a, p) PROVE IInv'
  <2>1. UNCHANGED <<elements, form, req, added, overtaken, hurt>> /\ begun' \in 0..MaxBegun
    BY <1>4, Begins DEF CreatePage, history
  <2>2. /\ body' = [q \in Pages \cup {p} |-> IF q = p THEN << >> ELSE body[q]]
        /\ p \notin Pages /\ ids' = ids \cup {p}
    BY <1>4 DEF CreatePage, IInv, Typed, RestTyped
  <2>3. Pages' = Pages \cup {p} /\ body'[p] = << >> /\ \A q \in Pages : body'[q] = body[q]
    BY <2>2 DEF Pages
  <2>4. << >> \in Lists /\ ToSet(<< >>) = {}
    BY DEF Lists, ToSet
  <2>5. BodyTyped'
    BY <2>2, <2>3, <2>4 DEF IInv, Typed, BodyTyped
  <2>6. ListedExists' /\ AddedIsListed' /\ Stripping'
    BY <2>1, <2>3, <2>4 DEF IInv, ListedExists, AddedIsListed, Stripping, StripOK, At
  <2>7. req' \in [Admins -> Requests'] /\ form' \in [Admins -> Forms']
    <3>1. Requests \subseteq Requests' /\ Forms' = Forms
      BY <2>2, RequestsGrow DEF Forms
    <3> QED BY <2>1, <3>1 DEF IInv, Typed
  <2>8. RestTyped' /\ HistoryTyped'
    BY <2>1, <2>2, <2>3 DEF IInv, Typed, RestTyped, HistoryTyped
  <2> QED BY <2>5, <2>6, <2>7, <2>8 DEF IInv, Typed
<1>5. ASSUME NEW p \in PageIds, CopyPage(a, p) PROVE IInv'
  <2> DEFINE list == IF p \in Pages THEN body[p] ELSE << >>
             r == [pc |-> "copy", list |-> list]
  <2>1. list \in Lists
    BY DEF IInv, Typed, BodyTyped, Lists
  <2> HIDE DEF list
  <2>2. r \in Copies /\ r.pc # "strip"
    BY <2>1 DEF Copies
  <2>3. req' = [req EXCEPT ![a] = r] /\ begun' \in 0..MaxBegun
    BY <1>5, Begins DEF CopyPage, list
  <2> HIDE DEF r
  <2> QED BY <1>5, <2>2, <2>3, ReadKeeps DEF CopyPage, Requests
<1>6. ASSUME NEW p \in PageIds, DeletePage(a, p) PROVE IInv'
  <2>1. UNCHANGED <<elements, ids, form, req, overtaken, hurt>> /\ begun' \in 0..MaxBegun
    BY <1>6, Begins DEF DeletePage
  <2>2. /\ body' = [q \in Pages \ {p} |-> body[q]]
        /\ added' = {x \in added : x[1] # p}
    BY <1>6 DEF DeletePage
  <2>3. Pages' = Pages \ {p} /\ \A q \in Pages \ {p} : body'[q] = body[q]
    BY <2>2 DEF Pages
  <2>4. BodyTyped'
    BY <2>2, <2>3 DEF IInv, Typed, BodyTyped
  <2>5. ListedExists' /\ AddedIsListed' /\ Stripping'
    BY <2>1, <2>2, <2>3 DEF IInv, ListedExists, AddedIsListed, Stripping, StripOK, At
  <2>6. Requests' = Requests /\ Forms' = Forms
    BY <2>1 DEF Requests, Puts, Adds, Saves, Copies, Strips, Forms
  <2>7. RestTyped' /\ HistoryTyped'
    BY <2>1, <2>2, <2>3 DEF IInv, Typed, RestTyped, HistoryTyped
  <2> QED BY <2>1, <2>4, <2>5, <2>6, <2>7 DEF IInv, Typed
<1>7. ASSUME NEW p \in PageIds, SavePage(a, p) PROVE IInv'
  <2> DEFINE r == [pc |-> "save", page |-> p, list |-> body[p]]
  <2>1. r \in Saves /\ r.pc # "strip"
    BY <1>7 DEF SavePage, Saves, IInv, Typed, BodyTyped
  <2>2. req' = [req EXCEPT ![a] = r] /\ begun' \in 0..MaxBegun
    BY <1>7, Begins DEF SavePage
  <2> HIDE DEF r
  <2> QED BY <1>7, <2>1, <2>2, ReadKeeps DEF SavePage, Requests
<1>8. ASSUME NEW p \in PageIds, NEW e \in Elements, AddElementToPage(a, p, e) PROVE IInv'
  <2> DEFINE r == [pc |-> "add", page |-> p, elem |-> e, list |-> body[p]]
  <2>1. r \in Adds /\ r.pc # "strip"
    BY <1>8 DEF AddElementToPage, Adds, IInv, Typed, BodyTyped
  <2>2. req' = [req EXCEPT ![a] = r] /\ begun' \in 0..MaxBegun
    BY <1>8, Begins DEF AddElementToPage
  <2> HIDE DEF r
  <2> QED BY <1>8, <2>1, <2>2, ReadKeeps DEF AddElementToPage, Requests
<1>9. CASE EditPageElements(a)
  <2> DEFINE p == form[a].page
             list == form[a].list
             base == form[a].base
  <2>1. p \in PageIds /\ list \in Lists /\ base \in Lists
    BY <1>9 DEF EditPageElements, IInv, Typed, Forms
  <2>2. /\ WriteBody(a, p, list, base)
        /\ added' = {x \in added : x[1] = p => x[2] \in ToSet(list)}
        /\ UNCHANGED <<elements, ids>> /\ req' = req /\ req[a] = Idle
    BY <1>9 DEF EditPageElements, Begin
  <2>3. begun' \in 0..MaxBegun
    BY <1>9, Begins DEF EditPageElements
  <2>4. form' \in [Admins -> Forms]
    <3>1. form[a] \in [page : PageIds, base : Lists, list : Lists]
      BY <1>9 DEF EditPageElements, IInv, Typed, Forms
    <3>2. [form[a] EXCEPT !.base = form[a].list] \in [page : PageIds, base : Lists, list : Lists]
      BY <3>1
    <3>3. [form[a] EXCEPT !.base = form[a].list] \in Forms /\ NoForm \in Forms
      BY <3>2 DEF Forms
    <3>4. \/ form' = [form EXCEPT ![a] = NoForm]
          \/ form' = [form EXCEPT ![a] = [form[a] EXCEPT !.base = form[a].list]]
      BY <1>9 DEF EditPageElements
    <3> QED BY <3>3, <3>4 DEF IInv, Typed
  <2>5. req' = [req EXCEPT ![a] = Idle]
    BY <2>2 DEF IInv, Typed
  <2>6. /\ added' \subseteq PageIds \X Elements /\ added' \subseteq added
        /\ \A x \in added' : x[1] = p => x[2] \in ToSet(list)
    BY <2>2 DEF IInv, Typed, HistoryTyped
  <2>7. p \in Pages /\ (p \in overtaken \/ body[p] # base) => p \in overtaken'
    BY <2>2 DEF WriteBody
  <2> HIDE DEF p, list, base
  <2> QED BY <2>1, <2>2, <2>3, <2>4, <2>5, <2>6, <2>7, WriteKeeps
<1> QED BY <1>1, <1>2, <1>3, <1>4, <1>5, <1>6, <1>7, <1>8, <1>9 DEF Request

-----------------------------------------------------------------------------
(* Requests that go on                                                     *)

\* The rows that are left after one of them was handled.
LEMMA RestFacts ==
  ASSUME NEW rows \in Rows, NEW p
  PROVE  /\ Rest(rows, p) \in Rows /\ DOMAIN Rest(rows, p) = DOMAIN rows \ {p}
         /\ \A q \in DOMAIN rows : q \in PageIds /\ rows[q] \in Lists
<1>1. PICK P \in SUBSET PageIds : rows \in [P -> Lists]
  BY DEF Rows
<1>2. Rest(rows, p) \in [P \ {p} -> Lists] /\ P \ {p} \in SUBSET PageIds
  BY <1>1 DEF Rest
<1>3. Rest(rows, p) \in Rows
  BY <1>2 DEF Rows
<1>4. DOMAIN Rest(rows, p) = DOMAIN rows \ {p}
  BY DEF Rest
<1> QED BY <1>1, <1>3, <1>4

\* What a deletion knows after it has handled a page.
Handled(q, p) ==
  [[q EXCEPT !.rows = Rest(q.rows, p)] EXCEPT !.kept = Keep(q.kept, q.rows[p], q.elem)]

LEMMA HandledFacts ==
  ASSUME NEW q \in Strips, NEW p \in DOMAIN q.rows, q.elem \notin ToSet(q.kept)
  PROVE  /\ Handled(q, p) \in Strips /\ Handled(q, p).elem = q.elem
         /\ DOMAIN Handled(q, p).rows = DOMAIN q.rows \ {p}
         /\ Handled(q, p).kept = Keep(q.kept, q.rows[p], q.elem)
         /\ Keep(q.kept, q.rows[p], q.elem) \in Lists /\ q.rows[p] \in Lists
         /\ q.elem \notin ToSet(Keep(q.kept, q.rows[p], q.elem))
         /\ ToSet(q.rows[p]) \ {q.elem} \subseteq ToSet(Keep(q.kept, q.rows[p], q.elem))
<1>1. q.kept \in Lists /\ q.rows \in Rows
  BY DEF Strips
<1>2. /\ Rest(q.rows, p) \in Rows /\ DOMAIN Rest(q.rows, p) = DOMAIN q.rows \ {p}
      /\ q.rows[p] \in Lists /\ p \in PageIds
  BY <1>1, RestFacts
<1>3. PICK list : list = Keep(q.kept, q.rows[p], q.elem)
  OBVIOUS
<1>4. list \in Lists /\ ToSet(list) = ToSet(q.kept) \cup (ToSet(q.rows[p]) \ {q.elem})
  BY <1>1, <1>2, <1>3, KeepFacts DEF Lists
<1>5. Handled(q, p) = [[q EXCEPT !.rows = Rest(q.rows, p)] EXCEPT !.kept = list]
  BY <1>3 DEF Handled
<1>6. /\ Handled(q, p) \in Strips /\ Handled(q, p).elem = q.elem
      /\ Handled(q, p).rows = Rest(q.rows, p) /\ Handled(q, p).kept = list
  BY <1>2, <1>4, <1>5 DEF Strips
<1> QED BY <1>2, <1>3, <1>4, <1>6

\* One turn of a deletion, whether its page was written or not.
LEMMA TurnKeeps ==
  ASSUME NEW a \in Admins, NEW p \in DOMAIN req[a].rows, IInv, At(a, "strip")
  PROVE  /\ req[a] \in Strips /\ req[a].elem \notin ToSet(req[a].kept)
         /\ [req EXCEPT ![a].rows = Rest(req[a].rows, p),
                        ![a].kept = Keep(req[a].kept, req[a].rows[p], req[a].elem)]
              = [req EXCEPT ![a] = Handled(req[a], p)]
<1>1. req[a] \in Strips /\ req[a].elem \notin ToSet(req[a].kept)
  BY RequestAt DEF IInv, Typed, Stripping, StripOK
<1>2. PICK k : k = Keep(req[a].kept, req[a].rows[p], req[a].elem)
  OBVIOUS
<1>3. PICK rest : rest = Rest(req[a].rows, p)
  OBVIOUS
<1>4. DOMAIN req = Admins
  BY DEF IInv, Typed
<1>5. [req EXCEPT ![a].rows = rest, ![a].kept = k] = [req EXCEPT ![a] = [[req[a] EXCEPT !.rows = rest] EXCEPT !.kept = k]]
  BY <1>4
<1> QED BY <1>1, <1>2, <1>3, <1>5 DEF Handled

LEMMA StripPageKeeps ==
  ASSUME PagesAssumption, IInv, NEW a \in Admins, NEW p \in PageIds, StripPage(a, p)
  PROVE  IInv'
<1>0. PICK e, base, list, r :
      /\ e = req[a].elem /\ base = req[a].rows[p]
      /\ list = Keep(req[a].kept, req[a].rows[p], req[a].elem)
      /\ r = Handled(req[a], p)
  OBVIOUS
<1>1. At(a, "strip") /\ p \in DOMAIN req[a].rows
  BY DEF StripPage
<1>2. /\ r \in Strips /\ r.elem = e /\ DOMAIN r.rows = DOMAIN req[a].rows \ {p}
      /\ r.kept = list /\ list \in Lists /\ e \notin ToSet(list)
      /\ ToSet(base) \ {e} \subseteq ToSet(list)
  BY <1>0, <1>1, TurnKeeps, HandledFacts
<1>3. /\ WriteBody(a, p, list, base)
      /\ added' = added \ {<<p, e>>}
      /\ req' = [req EXCEPT ![a] = r]
      /\ UNCHANGED <<elements, ids, form, begun>>
  BY <1>0, <1>1, TurnKeeps DEF StripPage
<1>4. /\ Pages' = Pages /\ BodyTyped'
      /\ \A q \in Pages : body'[q] = IF q = p THEN list ELSE body[q]
      /\ hurt \subseteq hurt' /\ hurt' \subseteq Elements \cup {NoElement}
      /\ overtaken \subseteq overtaken' /\ overtaken' \subseteq PageIds
      /\ p \in Pages /\ body[p] # base => p \in overtaken'
  BY <1>2, <1>3, WriteFacts
<1>5. Requests' = Requests /\ Forms' = Forms
  BY <1>3 DEF Requests, Puts, Adds, Saves, Copies, Strips, Forms
<1>6. /\ req' \in [Admins -> Requests'] /\ req'[a] = r
      /\ \A b \in Admins \ {a} : req'[b] = req[b]
  BY <1>2, <1>3, <1>5 DEF IInv, Typed, Requests
<1>7. ListedExists' /\ \A b \in Admins \ {a} : StripOK(b)'
  BY <1>2, <1>3, <1>6, WriteKeepsLists
<1>8. StripOK(a)'
  <2>1. \A q \in Pages : e \in ToSet(body[q]) => e \in hurt \/ q \in DOMAIN req[a].rows
    BY <1>0, <1>1 DEF IInv, Stripping, StripOK
  <2>2. \A q \in Pages : e \in ToSet(body'[q]) => e \in hurt' \/ q \in DOMAIN r.rows
    BY <1>2, <1>4, <2>1
  <2> QED BY <1>2, <1>4, <1>6, <2>2 DEF StripOK
<1>9. AddedIsListed'
  <2> SUFFICES ASSUME NEW x \in added'
               PROVE  x[1] \in overtaken' \/ (x[1] \in Pages /\ x[2] \in ToSet(body'[x[1]]))
    BY <1>4 DEF AddedIsListed
  <2>1. x \in added /\ x # <<p, e>> /\ x \in PageIds \X Elements
    BY <1>3 DEF IInv, Typed, HistoryTyped
  <2>2. x[1] \in overtaken \/ (x[1] \in Pages /\ x[2] \in ToSet(body[x[1]]))
    BY <2>1 DEF IInv, AddedIsListed
  <2>3. CASE x[1] # p
    BY <1>4, <2>2, <2>3
  <2>4. CASE x[1] = p
    <3>1. x[2] # e
      BY <2>1, <2>4
    <3> QED BY <1>2, <1>4, <2>2, <2>4, <3>1
  <2> QED BY <2>3, <2>4
<1>10. RestTyped' /\ HistoryTyped'
  BY <1>3, <1>4 DEF IInv, Typed, RestTyped, HistoryTyped
<1>11. form' \in [Admins -> Forms']
  BY <1>3, <1>5 DEF IInv, Typed
<1> QED BY <1>4, <1>6, <1>7, <1>8, <1>9, <1>10, <1>11 DEF IInv, Typed, Stripping

LEMMA DeleteRowKeeps ==
  ASSUME PagesAssumption, IInv, NEW a \in Admins, DeleteRow(a)
  PROVE  IInv'
<1> DEFINE e == req[a].elem
<1>1. At(a, "strip") /\ DOMAIN req[a].rows = {}
  BY DEF DeleteRow
<1>2. UNCHANGED <<body, ids, form, added, overtaken, hurt, begun>> /\ elements' = elements \ {e}
  BY DEF DeleteRow, history
<1>3. Requests' = Requests /\ Forms' = Forms /\ Pages' = Pages
  BY <1>2 DEF Requests, Puts, Adds, Saves, Copies, Strips, Forms, Pages
<1>4. /\ req' \in [Admins -> Requests'] /\ req'[a] = Idle
      /\ \A b \in Admins \ {a} : req'[b] = req[b]
  BY <1>3, IdleIsRequest DEF DeleteRow, Finish, IInv, Typed
<1>5. \A p \in Pages : e \in ToSet(body[p]) => e \in hurt
  BY <1>1 DEF IInv, Stripping, StripOK
<1>6. ListedExists'
  BY <1>2, <1>3, <1>5 DEF IInv, ListedExists
<1>7. Stripping'
  <2>1. StripOK(a)'
    BY <1>4 DEF StripOK, At, Idle
  <2>2. ASSUME NEW b \in Admins \ {a} PROVE StripOK(b)'
    BY <1>2, <1>3, <1>4 DEF IInv, Stripping, StripOK, At
  <2> QED BY <2>1, <2>2 DEF Stripping
<1>8. AddedIsListed' /\ BodyTyped'
  BY <1>2, <1>3 DEF IInv, Typed, AddedIsListed, BodyTyped
<1>9. RestTyped' /\ HistoryTyped'
  BY <1>2, <1>3 DEF IInv, Typed, RestTyped, HistoryTyped
<1> QED BY <1>2, <1>3, <1>4, <1>6, <1>7, <1>8, <1>9 DEF IInv, Typed

LEMMA InsertCopyKeeps ==
  ASSUME PagesAssumption, IInv, NEW a \in Admins, NEW p \in PageIds, InsertCopy(a, p)
  PROVE  IInv'
<1> PICK list : list = req[a].list
  OBVIOUS
<1>1. list \in Lists /\ At(a, "copy")
  BY RequestAt DEF InsertCopy, IInv, Typed, Copies
<1>2. /\ UNCHANGED <<elements, form, added, overtaken, begun>>
      /\ body' = [q \in Pages \cup {p} |-> IF q = p THEN list ELSE body[q]]
      /\ p \notin Pages /\ ids' = ids \cup {p} /\ hurt' = hurt \cup TooLate(a, list)
      /\ req' = [req EXCEPT ![a] = Idle]
  BY DEF InsertCopy, Finish, IInv, Typed, RestTyped
<1>3. Pages' = Pages \cup {p} /\ body'[p] = list /\ \A q \in Pages : body'[q] = body[q]
  BY <1>2 DEF Pages
<1>4. /\ req' \in [Admins -> Requests'] /\ req'[a] = Idle
      /\ \A b \in Admins \ {a} : req'[b] = req[b]
  BY <1>2, IdleIsRequest, RequestChanges DEF IInv, Typed
<1>5. BodyTyped'
  BY <1>1, <1>2, <1>3 DEF IInv, Typed, BodyTyped
<1>6. TooLate(a, list) \subseteq hurt' /\ hurt \subseteq hurt' /\ hurt' \subseteq Elements \cup {NoElement}
  BY <1>1, <1>2, TooLateType DEF IInv, Typed, HistoryTyped
<1>7. ListedExists'
  <2>1. ToSet(list) \subseteq elements \cup hurt'
    BY <1>1, <1>6, Written
  <2> QED BY <1>2, <1>3, <1>6, <2>1 DEF IInv, ListedExists
<1>8. Stripping'
  <2>1. StripOK(a)'
    BY <1>4 DEF StripOK, At, Idle
  <2>2. ASSUME NEW b \in Admins \ {a} PROVE StripOK(b)'
    <3> SUFFICES ASSUME At(b, "strip")
                 PROVE  /\ req[b].elem \notin ToSet(req[b].kept)
                        /\ \A q \in Pages' : req[b].elem \in ToSet(body'[q])
                             => req[b].elem \in hurt' \/ q \in DOMAIN req[b].rows
      BY <1>4 DEF StripOK, At
    <3>1. /\ req[b].elem \notin ToSet(req[b].kept)
          /\ \A q \in Pages : req[b].elem \in ToSet(body[q])
               => req[b].elem \in hurt \/ q \in DOMAIN req[b].rows
      BY DEF IInv, Stripping, StripOK
    <3>2. req[b].elem \in ToSet(list) => req[b].elem \in hurt'
      BY <1>1, <1>6, Written
    <3> QED BY <1>3, <1>6, <3>1, <3>2
  <2> QED BY <2>1, <2>2 DEF Stripping
<1>9. AddedIsListed'
  BY <1>2, <1>3 DEF IInv, AddedIsListed
<1>10. RestTyped' /\ HistoryTyped' /\ form' \in [Admins -> Forms']
  BY <1>2, <1>3, <1>6 DEF IInv, Typed, RestTyped, HistoryTyped, Forms
<1> QED BY <1>4, <1>5, <1>7, <1>8, <1>9, <1>10 DEF IInv, Typed

LEMMA StatementKeeps ==
  ASSUME PagesAssumption, IInv, NEW a \in Admins, Statement(a)
  PROVE  IInv'
<1>0. begun \in 0..MaxBegun /\ form \in [Admins -> Forms]
  BY DEF IInv, Typed, RestTyped
<1>1. CASE PutElement(a)
  <2>1. req[a] \in Puts
    BY <1>1, RequestAt DEF PutElement, IInv, Typed
  <2>2. req[a].elem \in Elements /\ req[a].elem \in ids
    BY <2>1 DEF Puts
  <2>3. UNCHANGED <<body, ids, form, added, overtaken, hurt, begun>>
    BY <1>1 DEF PutElement, history
  <2>4. /\ Requests' = Requests /\ Forms' = Forms /\ Pages' = Pages
    BY <2>3 DEF Requests, Puts, Adds, Saves, Copies, Strips, Forms, Pages
  <2>5. /\ req' \in [Admins -> Requests'] /\ req'[a] = Idle
        /\ \A b \in Admins \ {a} : req'[b] = req[b]
    BY <1>1, <2>4, IdleIsRequest DEF PutElement, Finish, IInv, Typed
  <2>6. BodyTyped' /\ ListedExists' /\ Stripping' /\ AddedIsListed'
    BY <1>1, <2>3, <2>5, IdleIsRequest, ListsStay, AddedStays DEF PutElement
  <2>7. RestTyped' /\ HistoryTyped'
    BY <1>1, <2>2, <2>3, <2>4 DEF PutElement, IInv, Typed, RestTyped, HistoryTyped
  <2> QED BY <2>3, <2>4, <2>5, <2>6, <2>7 DEF IInv, Typed
<1>2. CASE AppendElement(a)
  <2>0. PICK p, e, base, list : p = req[a].page /\ e = req[a].elem /\ base = req[a].list /\ list = Append(base, e)
    OBVIOUS
  <2>1. req[a] \in Adds
    BY <1>2, RequestAt DEF AppendElement, IInv, Typed
  <2>2. p \in PageIds /\ e \in Elements /\ base \in Lists
    BY <2>0, <2>1 DEF Adds
  <2>3. list \in Lists /\ e \in ToSet(list) /\ ToSet(base) \subseteq ToSet(list)
    <3>1. e \in Elements \cup {NoElement} /\ base \in Seq(Elements \cup {NoElement})
      BY <2>2 DEF Lists
    <3>0. list = Append(base, e)
      BY <2>0
    <3>2. list \in Seq(Elements \cup {NoElement})
      BY <3>0, <3>1
    <3>3. DOMAIN list = 1..(Len(base) + 1) /\ Len(base) \in Nat /\ DOMAIN base = 1..Len(base)
      BY <3>0, <3>1
    <3>4. (\A i \in 1..Len(base) : list[i] = base[i]) /\ list[Len(base) + 1] = e
      BY <3>0, <3>1, AppendProperties
    <3> QED BY <3>2, <3>3, <3>4 DEF ToSet, Lists
  <2>4. /\ WriteBody(a, p, list, base)
        /\ added' = IF p \in Pages THEN added \cup {<<p, e>>} ELSE added
        /\ UNCHANGED <<elements, ids, form, begun>>
        /\ req' = [req EXCEPT ![a] = Idle]
    BY <1>2, <2>0 DEF AppendElement, Finish
  <2>5. /\ p \in Pages /\ (p \in overtaken \/ body[p] # base) => p \in overtaken'
    BY <2>4 DEF WriteBody
  <2>6. /\ added' \subseteq PageIds \X Elements
        /\ \A x \in added' : x[1] # p => x \in added
        /\ \A x \in added' : x[1] = p /\ p \notin Pages => x \in added
    BY <2>2, <2>4 DEF IInv, Typed, HistoryTyped
  <2>7. ASSUME NEW x \in added', x[1] = p, p \in Pages, p \notin overtaken, body[p] = base
        PROVE  x[2] \in ToSet(list)
    <3>1. x \in added \/ x = <<p, e>>
      BY <2>4
    <3>2. x \in added => x[2] \in ToSet(body[p])
      BY <2>7 DEF IInv, AddedIsListed
    <3> QED BY <2>3, <2>7, <3>1, <3>2
  <2>8. begun' \in 0..MaxBegun /\ form' \in [Admins -> Forms]
    BY <1>0, <2>4
  <2>9. /\ UNCHANGED <<elements, ids>>
        /\ \A x \in added' : x[1] = p /\ p \in Pages /\ (p \in overtaken \/ body[p] # base) => p \in overtaken'
        /\ \A x \in added' : x[1] = p /\ p \in Pages /\ p \notin overtaken /\ body[p] = base => x[2] \in ToSet(list)
    BY <2>4, <2>5, <2>7
  <2>10. WriteBody(a, p, list, base) /\ req' = [req EXCEPT ![a] = Idle]
    BY <2>4
  <2>11. p \in PageIds /\ list \in Lists
    BY <2>2, <2>3
  <2> QED BY <2>6, <2>8, <2>9, <2>10, <2>11, WriteKeeps
<1>3. CASE UpdatePage(a)
  <2>0. PICK p, base, list : base = list /\ p = req[a].page /\ list = req[a].list
    OBVIOUS
  <2>1. p \in PageIds /\ list \in Lists
    BY <1>3, <2>0, RequestAt DEF UpdatePage, IInv, Typed, Saves
  <2>2. /\ WriteBody(a, p, list, base)
        /\ UNCHANGED <<elements, ids, form, added, begun>>
        /\ req' = [req EXCEPT ![a] = Idle]
    BY <1>3, <2>0 DEF UpdatePage, Finish
  <2>3. p \in Pages /\ (p \in overtaken \/ body[p] # base) => p \in overtaken'
    BY <2>2 DEF WriteBody
  <2>4. added' \subseteq PageIds \X Elements /\ added' = added
    BY <2>2 DEF IInv, Typed, HistoryTyped
  <2>5. \A x \in added' : x[1] = p /\ p \in Pages /\ p \notin overtaken /\ body[p] = base
          => x[2] \in ToSet(list)
    <3>1. base = list
      BY <2>0
    <3> QED BY <2>4, <3>1 DEF IInv, AddedIsListed
  <2>6. begun' \in 0..MaxBegun /\ form' \in [Admins -> Forms]
    BY <1>0, <2>2
  <2>7. /\ \A x \in added' : x[1] # p => x \in added
        /\ \A x \in added' : x[1] = p /\ p \notin Pages => x \in added
        /\ \A x \in added' : x[1] = p /\ p \in Pages /\ (p \in overtaken \/ body[p] # base) => p \in overtaken'
        /\ \A x \in added' : x[1] = p /\ p \in Pages /\ p \notin overtaken /\ body[p] = base => x[2] \in ToSet(list)
    BY <2>3, <2>4, <2>5
  <2>8. WriteBody(a, p, list, base) /\ UNCHANGED <<elements, ids>> /\ req' = [req EXCEPT ![a] = Idle]
    BY <2>2
  <2>9. added' \subseteq PageIds \X Elements
    BY <2>4
  <2> QED BY <2>1, <2>6, <2>7, <2>8, <2>9, WriteKeeps
<1>4. CASE DeleteRow(a)
  BY <1>4, DeleteRowKeeps
<1>5. CASE \E p \in PageIds : StripPage(a, p) \/ InsertCopy(a, p)
  BY <1>5, StripPageKeeps, InsertCopyKeeps
<1> QED BY <1>1, <1>2, <1>3, <1>4, <1>5 DEF Statement

-----------------------------------------------------------------------------
(* The editor of a list                                                    *)

\* A step of an administrator's browser changes a form, and nothing else but
\* that a list may have been read wrong.
LEMMA FormKeeps ==
  ASSUME NEW a \in Admins, NEW f \in Forms, PagesAssumption, IInv,
         form' = [form EXCEPT ![a] = f], UNCHANGED <<table, req, added, hurt>>,
         overtaken \subseteq overtaken', overtaken' \subseteq PageIds,
         begun' \in 0..MaxBegun
  PROVE  IInv'
<1>1. UNCHANGED <<elements, body, ids, req, added, hurt>>
  BY DEF table
<1>2. Requests' = Requests /\ Forms' = Forms
  BY <1>1 DEF Requests, Puts, Adds, Saves, Copies, Strips, Forms
<1>3. req' \in [Admins -> Requests'] /\ form' \in [Admins -> Forms']
  BY <1>1, <1>2 DEF IInv, Typed
<1>4. BodyTyped' /\ ListedExists' /\ Stripping' /\ AddedIsListed'
  BY <1>1, ListsStay, AddedStays
<1>5. RestTyped' /\ HistoryTyped'
  BY <1>1 DEF IInv, Typed, RestTyped, HistoryTyped, Pages
<1> QED BY <1>3, <1>4, <1>5 DEF IInv, Typed

LEMMA StepOfForm ==
  ASSUME NEW a \in Admins, NEW f \in Forms, PagesAssumption, IInv,
         form' = [form EXCEPT ![a] = f], UNCHANGED <<table, req, history>>,
         begun' \in 0..MaxBegun
  PROVE  IInv'
<1>1. UNCHANGED <<table, req, added, hurt>> /\ overtaken' = overtaken
  BY DEF history
<1>2. overtaken' \subseteq PageIds
  BY <1>1 DEF IInv, Typed, HistoryTyped
<1> QED BY <1>1, <1>2, FormKeeps

\* What the editor shows, with or without one element.
LEMMA ShownIsAList ==
  ASSUME NEW list \in Lists
  PROVE  /\ Shown(list) \in Lists
         /\ \A i \in 1..Len(list) : [Shown(list) EXCEPT ![i] = NoElement] \in Lists
<1>1. Len(list) \in Nat /\ \A i \in 1..Len(list) : list[i] \in Elements \cup {NoElement}
  BY DEF Lists
<1>2. Shown(list) \in [1..Len(list) -> Elements \cup {NoElement}]
  BY <1>1 DEF Shown
<1>3. Shown(list) \in Lists
  BY <1>1, <1>2, IsASeq DEF Lists
<1>4. ASSUME NEW i \in 1..Len(list) PROVE [Shown(list) EXCEPT ![i] = NoElement] \in Lists
  <2>1. PICK other : other = [Shown(list) EXCEPT ![i] = NoElement]
    OBVIOUS
  <2>2. other \in [1..Len(list) -> Elements \cup {NoElement}]
    BY <1>2, <2>1
  <2>3. other \in Lists
    BY <1>1, <2>2, IsASeq DEF Lists
  <2> QED BY <2>1, <2>3
<1> QED BY <1>3, <1>4

\* A form with another list.
LEMMA FormWith ==
  ASSUME NEW a \in Admins, NEW list \in Lists, IInv, form[a] # NoForm
  PROVE  /\ [form[a] EXCEPT !.list = list] \in Forms /\ form[a].list \in Lists
         /\ [form EXCEPT ![a].list = list] = [form EXCEPT ![a] = [form[a] EXCEPT !.list = list]]
<1>1. form[a] \in [page : PageIds, base : Lists, list : Lists] /\ DOMAIN form = Admins
  BY DEF IInv, Typed, Forms
<1>2. [form[a] EXCEPT !.list = list] \in [page : PageIds, base : Lists, list : Lists]
  BY <1>1
<1> QED BY <1>1, <1>2 DEF Forms

LEMMA EditorKeeps ==
  ASSUME PagesAssumption, IInv, NEW a \in Admins, Editor(a)
  PROVE  IInv'
<1>0. begun \in 0..MaxBegun
  BY DEF IInv, Typed, RestTyped
<1>1. ASSUME NEW p \in PageIds, OpenEditor(a, p) PROVE IInv'
  <2>1. PICK f : f = [page |-> p, base |-> body[p], list |-> Shown(body[p])]
    OBVIOUS
  <2>2. body[p] \in Lists
    BY <1>1 DEF OpenEditor, IInv, Typed, BodyTyped
  <2>3. f \in Forms
    BY <2>1, <2>2, ShownIsAList DEF Forms
  <2>4. form' = [form EXCEPT ![a] = f] /\ UNCHANGED <<table, req, history>> /\ begun' \in 0..MaxBegun
    BY <1>1, <2>1, Begins DEF OpenEditor
  <2> QED BY <2>3, <2>4, StepOfForm
<1>2. ASSUME NEW i, Swap(a, i) PROVE IInv'
  <2>1. PICK list : list = [[form[a].list EXCEPT ![i] = form[a].list[i + 1]]
                              EXCEPT ![i + 1] = form[a].list[i]]
    OBVIOUS
  <2>2. form[a] \in [page : PageIds, base : Lists, list : Lists] /\ i \in 1..(Len(form[a].list) - 1)
    BY <1>2 DEF Swap, IInv, Typed, Forms
  <2>3. list \in Lists
    <3>1. PICK old : old = form[a].list
      OBVIOUS
    <3>2. old \in Seq(Elements \cup {NoElement}) /\ i \in 1..(Len(old) - 1)
      BY <2>2, <3>1 DEF Lists
    <3>3. i \in 1..Len(old) /\ i + 1 \in 1..Len(old) /\ Len(old) \in Nat
      BY <3>2
    <3>4. [[old EXCEPT ![i] = old[i + 1]] EXCEPT ![i + 1] = old[i]] \in Seq(Elements \cup {NoElement})
      BY <3>2, <3>3
    <3> QED BY <2>1, <3>1, <3>4 DEF Lists
  <2>4. /\ form' = [form EXCEPT ![a] = [form[a] EXCEPT !.list = list]]
        /\ [form[a] EXCEPT !.list = list] \in Forms
    <3>1. form' = [form EXCEPT ![a].list = list]
      BY <1>2, <2>1 DEF Swap
    <3> QED BY <1>2, <2>3, <3>1, FormWith DEF Swap
  <2>5. UNCHANGED <<table, req, history>> /\ begun' \in 0..MaxBegun
    BY <1>0, <1>2 DEF Swap
  <2> QED BY <2>4, <2>5, StepOfForm
<1>3. ASSUME NEW i, TakeOut(a, i) PROVE IInv'
  <2>1. PICK list : list = RemoveAt(form[a].list, i)
    OBVIOUS
  <2>2. form[a].list \in Lists /\ i \in 1..Len(form[a].list)
    BY <1>3 DEF TakeOut, IInv, Typed, Forms
  <2>3. list \in Lists
    BY <2>1, <2>2, RemoveAtType DEF Lists
  <2>4. /\ form' = [form EXCEPT ![a] = [form[a] EXCEPT !.list = list]]
        /\ [form[a] EXCEPT !.list = list] \in Forms
    <3>1. form' = [form EXCEPT ![a].list = list]
      BY <1>3, <2>1 DEF TakeOut
    <3> QED BY <1>3, <2>3, <3>1, FormWith DEF TakeOut
  <2>5. UNCHANGED <<table, req, history>> /\ begun' \in 0..MaxBegun
    BY <1>0, <1>3 DEF TakeOut
  <2> QED BY <2>4, <2>5, StepOfForm
<1> QED BY <1>1, <1>2, <1>3 DEF Editor

-----------------------------------------------------------------------------
(* Faults                                                                  *)

\* A request that ends, or loses a statement, leaves the tables alone.
LEMMA LossKeeps ==
  ASSUME NEW a \in Admins, NEW r \in Requests, PagesAssumption, IInv, r.pc # "strip",
         req' = [req EXCEPT ![a] = r], UNCHANGED <<table, form, hurt, begun>>,
         added' \subseteq PageIds \X Elements, overtaken \subseteq overtaken',
         overtaken' \subseteq PageIds,
         \A x \in added' : x \in added \/ x[1] \in overtaken'
  PROVE  IInv'
<1>1. UNCHANGED <<elements, body, ids, form, hurt, begun>>
  BY DEF table
<1>2. Requests' = Requests /\ Forms' = Forms /\ Pages' = Pages
  BY <1>1 DEF Requests, Puts, Adds, Saves, Copies, Strips, Forms, Pages
<1>3. /\ req' \in [Admins -> Requests'] /\ req'[a] = r
      /\ \A b \in Admins \ {a} : req'[b] = req[b]
  BY <1>2 DEF IInv, Typed
<1>4. BodyTyped' /\ ListedExists' /\ Stripping'
  BY <1>1, <1>3, ListsStay
<1>5. AddedIsListed'
  BY <1>1, <1>2 DEF IInv, AddedIsListed
<1>6. RestTyped' /\ HistoryTyped' /\ form' \in [Admins -> Forms']
  BY <1>1, <1>2 DEF IInv, Typed, RestTyped, HistoryTyped
<1> QED BY <1>3, <1>4, <1>5, <1>6 DEF IInv, Typed

\* A deletion that could not write a page: its element is hurt.
LEMMA StripFailsKeeps ==
  ASSUME PagesAssumption, IInv, NEW a \in Admins, NEW p \in PageIds, StripFails(a, p)
  PROVE  IInv'
<1>0. PICK r : r = Handled(req[a], p)
  OBVIOUS
<1>1. At(a, "strip") /\ p \in DOMAIN req[a].rows
  BY DEF StripFails
<1>2. /\ r \in Strips /\ r.elem = req[a].elem
      /\ r.elem \notin ToSet(r.kept) /\ req[a] \in Strips
  BY <1>0, <1>1, TurnKeeps, HandledFacts
<1>3. /\ req' = [req EXCEPT ![a] = r] /\ hurt' = hurt \cup {req[a].elem}
      /\ UNCHANGED <<elements, body, ids, form, added, overtaken, begun>>
  BY <1>0, <1>1, TurnKeeps DEF StripFails, table
<1>4. Requests' = Requests /\ Forms' = Forms /\ Pages' = Pages
  BY <1>3 DEF Requests, Puts, Adds, Saves, Copies, Strips, Forms, Pages
<1>5. /\ req' \in [Admins -> Requests'] /\ req'[a] = r
      /\ \A b \in Admins \ {a} : req'[b] = req[b]
  BY <1>2, <1>3, <1>4 DEF IInv, Typed, Requests
<1>6. ListedExists' /\ AddedIsListed'
  BY <1>3, <1>4 DEF IInv, ListedExists, AddedIsListed
<1>7. Stripping'
  <2>1. StripOK(a)'
    BY <1>2, <1>3, <1>5 DEF StripOK
  <2>2. ASSUME NEW b \in Admins \ {a} PROVE StripOK(b)'
    BY <1>3, <1>4, <1>5 DEF IInv, Stripping, StripOK, At
  <2> QED BY <2>1, <2>2 DEF Stripping
<1>8. BodyTyped' /\ RestTyped' /\ form' \in [Admins -> Forms']
  BY <1>3, <1>4 DEF IInv, Typed, BodyTyped, RestTyped
<1>9. HistoryTyped'
  <2>1. req[a].elem \in Elements
    BY <1>2 DEF Strips
  <2> QED BY <1>3, <2>1 DEF IInv, Typed, HistoryTyped
<1> QED BY <1>5, <1>6, <1>7, <1>8, <1>9 DEF IInv, Typed

LEMMA FaultKeeps ==
  ASSUME PagesAssumption, IInv, NEW a \in Admins, Fault(a)
  PROVE  IInv'
<1>0. HistoryTyped
  BY DEF IInv, Typed
<1>1. CASE Crash(a)
  <2>1. req' = [req EXCEPT ![a] = Idle] /\ UNCHANGED <<table, form, hurt, begun>>
    BY <1>1 DEF Crash, Finish, history
  <2>2. UNCHANGED <<added, overtaken>>
    BY <1>1 DEF Crash, history
  <2>3. /\ added' \subseteq PageIds \X Elements /\ overtaken \subseteq overtaken'
        /\ overtaken' \subseteq PageIds
        /\ \A x \in added' : x \in added \/ x[1] \in overtaken'
    BY <1>0, <2>2 DEF HistoryTyped
  <2>4. Idle \in Requests /\ Idle.pc # "strip"
    BY IdleIsRequest
  <2> QED BY <2>1, <2>3, <2>4, LossKeeps
<1>2. CASE AppendFails(a)
  <2>1. req[a].page \in PageIds /\ req[a].elem \in Elements
    BY <1>2, RequestAt DEF AppendFails, IInv, Typed, Adds
  <2>2. req' = [req EXCEPT ![a] = Idle] /\ UNCHANGED <<table, form, hurt, begun>>
    BY <1>2 DEF AppendFails, Finish
  <2>3. /\ added' \subseteq PageIds \X Elements /\ overtaken \subseteq overtaken'
        /\ overtaken' \subseteq PageIds
        /\ \A x \in added' : x \in added \/ x[1] \in overtaken'
    BY <1>0, <1>2, <2>1 DEF HistoryTyped, AppendFails
  <2>4. Idle \in Requests /\ Idle.pc # "strip"
    BY IdleIsRequest
  <2> QED BY <2>2, <2>3, <2>4, LossKeeps
<1>3. CASE LookupFails(a)
  <2>1. PICK r : r = [req[a] EXCEPT !.list = << >>]
    OBVIOUS
  <2>2. << >> \in Lists
    BY DEF Lists
  <2>3. req[a] \in Saves \/ req[a] \in Copies \/ req[a] \in Adds
    BY <1>3, RequestAt DEF LookupFails, IInv, Typed
  <2>4. r \in Requests /\ r.pc # "strip" /\ (~At(a, "copy") => req[a].page \in PageIds)
    <3>1. CASE req[a] \in Saves
      BY <2>1, <2>2, <3>1 DEF Saves, Requests
    <3>2. CASE req[a] \in Copies
      BY <2>1, <2>2, <3>2 DEF Copies, Requests, At
    <3>3. CASE req[a] \in Adds
      BY <2>1, <2>2, <3>3 DEF Adds, Requests
    <3> QED BY <2>3, <3>1, <3>2, <3>3
  <2>5. req' = [req EXCEPT ![a] = r] /\ UNCHANGED <<table, form, hurt, begun>>
    <3>1. DOMAIN req = Admins
      BY DEF IInv, Typed
    <3> QED BY <1>3, <2>1, <3>1 DEF LookupFails
  <2>6. /\ added' \subseteq PageIds \X Elements /\ overtaken \subseteq overtaken'
        /\ overtaken' \subseteq PageIds
        /\ \A x \in added' : x \in added \/ x[1] \in overtaken'
    BY <1>0, <1>3, <2>4 DEF HistoryTyped, LookupFails
  <2> QED BY <2>4, <2>5, <2>6, LossKeeps
<1>4. ASSUME NEW p \in PageIds, StripFails(a, p) PROVE IInv'
  BY <1>4, StripFailsKeeps
<1>5. ASSUME NEW p \in PageIds, EditorFails(a, p) PROVE IInv'
  <2>1. body[p] \in Lists /\ << >> \in Lists
    BY <1>5 DEF EditorFails, IInv, Typed, BodyTyped, Lists
  <2>2. PICK list \in {<< >>} \cup {[Shown(body[p]) EXCEPT ![i] = NoElement] : i \in 1..Len(body[p])} :
          form' = [form EXCEPT ![a] = [page |-> p, base |-> body[p], list |-> list]]
    BY <1>5 DEF EditorFails
  <2>3. PICK f : f = [page |-> p, base |-> body[p], list |-> list]
    OBVIOUS
  <2>4. list \in Lists
    BY <2>1, <2>2, ShownIsAList
  <2>5. f \in Forms
    BY <2>1, <2>3, <2>4 DEF Forms
  <2>6. form' = [form EXCEPT ![a] = f] /\ UNCHANGED <<table, req, added, hurt>>
    BY <1>5, <2>2, <2>3 DEF EditorFails
  <2>7. overtaken \subseteq overtaken' /\ overtaken' \subseteq PageIds
    BY <1>0, <1>5 DEF EditorFails, HistoryTyped
  <2>8. begun' \in 0..MaxBegun
    BY <1>5, Begins DEF EditorFails
  <2> QED BY <2>5, <2>6, <2>7, <2>8, FormKeeps
<1> QED BY <1>1, <1>2, <1>3, <1>4, <1>5 DEF Fault

-----------------------------------------------------------------------------
(* The invariant and the theorems                                          *)

LEMMA Initially ==
  ASSUME PagesAssumption, Init
  PROVE  IInv
<1>1. PICK P \in SUBSET PageIds : body \in [P -> SeqOf(elements, MaxList)]
  BY DEF Init
<1>2. Pages = P /\ body = [p \in Pages |-> body[p]] /\ elements \subseteq Elements
  BY <1>1 DEF Init, Pages
<1>3. ASSUME NEW p \in Pages PROVE body[p] \in Lists /\ ToSet(body[p]) \subseteq elements
  <2>1. body[p] \in SeqOf(elements, MaxList)
    BY <1>1, <1>2
  <2>2. body[p] \in Seq(elements)
    <3>1. PICK n \in 0..MaxList : body[p] \in [1..n -> elements]
      BY <2>1 DEF SeqOf
    <3>2. n \in Nat
      BY DEF PagesAssumption
    <3> QED BY <3>1, <3>2, IsASeq
  <2>3. \A i \in DOMAIN body[p] : body[p][i] \in elements
    BY <2>2
  <2>4. body[p] \in Seq(Elements \cup {NoElement})
    BY <1>2, <2>2
  <2> QED BY <2>3, <2>4 DEF Lists, ToSet
<1>4. ids = elements \cup Pages /\ begun = 0 /\ overtaken = {} /\ hurt = {}
  BY DEF Init
<1>5. BodyTyped
  BY <1>2, <1>3 DEF BodyTyped
<1>6. RestTyped /\ HistoryTyped
  BY <1>2, <1>4 DEF RestTyped, HistoryTyped, Init, PagesAssumption
<1>7. form \in [Admins -> Forms] /\ req \in [Admins -> Requests]
  BY IdleIsRequest DEF Init, Forms
<1>8. ListedExists
  BY <1>3 DEF ListedExists
<1>9. Stripping
  BY IdleIsRequest DEF Init, Stripping, StripOK, At
<1>10. AddedIsListed
  BY DEF Init, AddedIsListed
<1> QED BY <1>5, <1>6, <1>7, <1>8, <1>9, <1>10 DEF IInv, Typed

LEMMA NextKeeps ==
  ASSUME PagesAssumption, IInv, [Next]_vars
  PROVE  IInv'
<1>1. ASSUME NEW a \in Admins, Request(a) \/ Statement(a) \/ Editor(a) \/ Fault(a) PROVE IInv'
  BY <1>1, RequestKeeps, StatementKeeps, EditorKeeps, FaultKeeps
<1>2. CASE UNCHANGED vars
  <2>1. UNCHANGED <<elements, body, ids, form, req, added, overtaken, hurt, begun>>
    BY <1>2 DEF vars
  <2> QED BY <2>1 DEF IInv, Typed, BodyTyped, RestTyped, HistoryTyped, ListedExists, Stripping,
          StripOK, At, AddedIsListed, Pages, Requests, Puts, Adds, Saves, Copies, Strips, Forms
<1> QED BY <1>1, <1>2 DEF Next

LEMMA Invariance == Spec => []IInv
<1>1. Init => IInv
  BY PagesAssumption, Initially
<1>2. IInv /\ [Next]_vars => IInv'
  BY PagesAssumption, NextKeeps
<1> QED BY <1>1, <1>2, PTL DEF Spec

\* What the tables, the forms and the running requests hold.
LEMMA InvariantTypes == IInv => TypeOK
<1> SUFFICES ASSUME IInv PROVE TypeOK
  OBVIOUS
<1>1. DOMAIN form = Admins /\ DOMAIN req = Admins
  BY DEF IInv, Typed
<1>2. ASSUME NEW a \in Admins
      PROVE  form[a] = NoForm \/ (form[a].page \in PageIds /\ form[a].base \in Lists /\ form[a].list \in Lists)
  BY DEF IInv, Typed, Forms
<1>3. ASSUME NEW a \in Admins
      PROVE  \/ req[a] = Idle
             \/ At(a, "put") /\ req[a].elem \in Elements /\ req[a].found \in BOOLEAN
             \/ At(a, "add") /\ req[a].page \in PageIds /\ req[a].elem \in Elements /\ req[a].list \in Lists
             \/ At(a, "save") /\ req[a].page \in PageIds /\ req[a].list \in Lists
             \/ At(a, "copy") /\ req[a].list \in Lists
             \/ /\ At(a, "strip") /\ req[a].elem \in Elements
                /\ DOMAIN req[a].rows \subseteq PageIds /\ req[a].kept \in Lists
  <2>1. req[a] \in Requests
    BY DEF IInv, Typed
  <2>2. CASE req[a] \in Puts
    BY <2>2 DEF Puts, At
  <2>3. CASE req[a] \in Adds
    BY <2>3 DEF Adds, At
  <2>4. CASE req[a] \in Saves
    BY <2>4 DEF Saves, At
  <2>5. CASE req[a] \in Copies
    BY <2>5 DEF Copies, At
  <2>6. CASE req[a] \in Strips
    <3>1. req[a].rows \in Rows
      BY <2>6 DEF Strips
    <3>2. DOMAIN req[a].rows \subseteq PageIds
      BY <3>1, RestFacts
    <3> QED BY <2>6, <3>2 DEF Strips, At
  <2> QED BY <2>1, <2>2, <2>3, <2>4, <2>5, <2>6 DEF Requests
<1> QED BY <1>1, <1>2, <1>3 DEF TypeOK, IInv, Typed, BodyTyped, RestTyped, HistoryTyped

\* The tables, the forms and the running requests keep their types: the ids of
\* pages and elements are given out once (generate_mysql_id), and a list never
\* holds anything but elements and the empty id.
THEOREM TypeCorrect == Spec => []TypeOK
BY Invariance, InvariantTypes, PTL

\* No page lists an element whose row is gone, for any number of deletions,
\* saves and editors at the same time and requests that die anywhere, but for
\* elements listed too late or whose deletion had a failing statement
\* (delete_element.php:33, 40).
THEOREM ListedElementsExist == Spec => []ListedExists
<1>1. IInv => ListedExists
  BY DEF IInv
<1> QED BY <1>1, Invariance, PTL

\* What was added with success stays listed until it is taken off, for any
\* number of administrators and requests that die anywhere, unless a list was
\* written from an older one, the statement of an addition failed, or a lookup
\* was lost with the connection (add_element_to_page.php:13, save_page.php:34,
\* generate_elements_edit_element.php:8, 17).
THEOREM AddedStaysListed == Spec => []AddedIsListed
<1>1. IInv => AddedIsListed
  BY DEF IInv
<1> QED BY <1>1, Invariance, PTL

\* Each list that delete_element writes holds all that it read but the deleted
\* element, although $elements is never emptied between two pages
\* (delete_element.php:18-31).
THEOREM DeletionKeepsTheOthers == Spec => DeletionKeepsOthers
<1>1. ASSUME IInv, NEW a \in Admins, NEW p \in PageIds, StripPage(a, p), p \in Pages
      PROVE  ToSet(req[a].rows[p]) \ {req[a].elem} \subseteq ToSet(body'[p])
  <2>1. At(a, "strip") /\ p \in DOMAIN req[a].rows
    BY <1>1 DEF StripPage
  <2>2. ToSet(req[a].rows[p]) \ {req[a].elem} \subseteq ToSet(Keep(req[a].kept, req[a].rows[p], req[a].elem))
    BY <1>1, <2>1, TurnKeeps, HandledFacts
  <2>3. body'[p] = Keep(req[a].kept, req[a].rows[p], req[a].elem)
    BY <1>1 DEF StripPage, WriteBody
  <2> QED BY <2>2, <2>3
<1>2. IInv /\ [Next]_vars
        => [\A a \in Admins, p \in PageIds :
              StripPage(a, p) /\ p \in Pages
                => ToSet(req[a].rows[p]) \ {req[a].elem} \subseteq ToSet(body'[p])]_vars
  BY <1>1
<1> QED BY <1>2, Invariance, PTL DEF Spec, DeletionKeepsOthers
=============================================================================
