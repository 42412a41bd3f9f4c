-------------------------------- MODULE Pages ---------------------------------
(***************************************************************************)
(* The pages of the site and the elements they show.  The body of a page   *)
(* is a list of the ids of its elements, kept as JSON in one column that   *)
(* every operation on the list reads, changes and writes back as a whole,  *)
(* while other administrators do the same.                                 *)
(*                                                                         *)
(* An administrator is a browser session: PHP runs its requests one after  *)
(* the other, and those of different administrators at the same time.      *)
(***************************************************************************)
EXTENDS Integers, Sequences, SequencesExt

CONSTANTS Admins,
          Elements, \* ids of elements; generate_mysql_id gives each out once
          PageIds,  \* ids of pages, likewise
          NoElement,\* the empty id
          MaxList,  \* bound: longest list at the beginning
          MaxBegun  \* bound: how many requests begin

ASSUME PagesAssumption ==
  NoElement \notin Elements /\ MaxList \in Nat /\ MaxBegun \in Nat

VARIABLES elements,  \* table elements: the ids of its rows
          body,      \* table pages: the list of each page
          ids,       \* the ids given out so far
          form,      \* form[a]: the editor of a list that a has open
          req,       \* req[a]: the request of a that is running
          added,     \* history: <<p, e>> for an element that p listed at the
                     \*   beginning, or whose addition to p was answered with
                     \*   success, and that nobody has taken back
          overtaken, \* history: pages whose list was written from an older
                     \*   list than the one in the table, or was not written,
             \*   or of which a lookup was lost
          hurt,      \* history: elements listed after or during their
                     \*   deletion, or whose deletion had a failing statement
          begun      \* number of requests so far

vars == <<elements, body, ids, form, req, added, overtaken, hurt, begun>>
table == <<elements, body, ids>>
history == <<added, overtaken, hurt>>

Pages == DOMAIN body
Lists == Seq(Elements \cup {NoElement})
NoForm == [page |-> "none"]
Idle == [pc |-> "idle"]

At(a, pc) == req[a].pc = pc
Begin(a) == req[a] = Idle /\ begun < MaxBegun /\ begun' = begun + 1
Finish(a) == req' = [req EXCEPT ![a] = Idle]

\* The elements that requests of others than a are deleting.
Dying(a) == {req[b].elem : b \in {c \in Admins \ {a} : At(c, "strip")}}

TypeOK ==
  /\ elements \subseteq Elements
  /\ Pages \subseteq PageIds /\ \A p \in Pages : body[p] \in Lists
  /\ ids \subseteq Elements \cup PageIds /\ elements \cup Pages \subseteq ids
  /\ DOMAIN form = Admins
  /\ \A a \in Admins :
       \/ form[a] = NoForm
       \/ form[a].page \in PageIds /\ form[a].base \in Lists /\ form[a].list \in Lists
  /\ DOMAIN req = Admins
  /\ \A a \in Admins :
       \/ req[a] = Idle
       \/ At(a, "put") /\ req[a].elem \in Elements /\ req[a].found \in BOOLEAN
       \/ At(a, "add") /\ req[a].page \in PageIds /\ req[a].elem \in Elements /\ req[a].list \in Lists
       \/ At(a, "save") /\ req[a].page \in PageIds /\ req[a].list \in Lists
       \/ At(a, "copy") /\ req[a].list \in Lists
       \/ /\ At(a, "strip") /\ req[a].elem \in Elements
          /\ DOMAIN req[a].rows \subseteq PageIds /\ req[a].kept \in Lists
  /\ added \subseteq PageIds \X Elements
  /\ overtaken \subseteq PageIds /\ hurt \subseteq Elements \cup {NoElement}
  /\ begun \in 0..MaxBegun

\* A site whose lists are in order.
Init ==
  /\ elements \in SUBSET Elements
  /\ \E P \in SUBSET PageIds : body \in [P -> SeqOf(elements, MaxList)]
  /\ ids = elements \cup Pages
  /\ form = [a \in Admins |-> NoForm] /\ req = [a \in Admins |-> Idle]
  /\ added = {x \in PageIds \X Elements : x[1] \in Pages /\ x[2] \in ToSet(body[x[1]])}
  /\ overtaken = {} /\ hurt = {} /\ begun = 0

\* What a list written by a contains of elements that are gone or going.
TooLate(a, list) == {e \in ToSet(list) : e \notin elements \/ e \in Dying(a)}

\* UPDATE pages SET body = list: no row, no effect.  base is the list that the
\* request, or the form behind it, had read.
WriteBody(a, p, list, base) ==
  /\ body' = [q \in Pages |-> IF q = p THEN list ELSE body[q]]
  /\ overtaken' = IF p \in Pages /\ body[p] # base THEN overtaken \cup {p} ELSE overtaken
  /\ hurt' = IF p \in Pages THEN hurt \cup TooLate(a, list) ELSE hurt

-----------------------------------------------------------------------------
(* Elements                                                                *)

\* create_element and copy_element: a row with an id of its own.
CreateElement(a, e) ==
  /\ Begin(a) /\ e \in Elements \ ids
  /\ elements' = elements \cup {e} /\ ids' = ids \cup {e}
  /\ UNCHANGED <<body, form, req, history>>

\* save_element looks for the row, of an element that may have been deleted
\* since the form was opened, and then updates or inserts it.
SaveElement(a, e) ==
  /\ Begin(a) /\ e \in Elements \cap ids
  /\ req' = [req EXCEPT ![a] = [pc |-> "put", elem |-> e, found |-> e \in elements]]
  /\ UNCHANGED <<table, form, history>>

PutElement(a) ==
  /\ At(a, "put")
  /\ elements' = IF req[a].found THEN elements ELSE elements \cup {req[a].elem}
  /\ Finish(a)
  /\ UNCHANGED <<body, ids, form, history, begun>>

\* delete_element reads the rows of all pages that list the element, which may
\* be gone already.
DeleteElement(a, e) ==
  /\ Begin(a) /\ e \in Elements \cap ids
  /\ req' = [req EXCEPT ![a] =
               [pc |-> "strip", elem |-> e, kept |-> << >>,
                rows |-> [p \in {q \in Pages : e \in ToSet(body[q])} |-> body[p]]]]
  /\ UNCHANGED <<table, form, history>>

\* Mutant: every page starts with an empty list, but what earlier pages list
\* is still dropped.
BugKeep(kept, list, e) == SelectSeq(list, LAMBDA x : x # e /\ x \notin ToSet(kept))

\* What delete_element puts in the place of a list: the loop over the pages
\* never empties $elements, so that the list begins with what it kept of the
\* earlier pages, and holds nothing twice.
Keep(kept, list, e) ==
  FoldLeft(LAMBDA acc, x : IF x = e \/ x \in ToSet(acc) THEN acc ELSE Append(acc, x), kept, list)

Rest(rows, p) == [q \in DOMAIN rows \ {p} |-> rows[q]]

StripPage(a, p) ==
  /\ At(a, "strip") /\ p \in DOMAIN req[a].rows
  /\ LET e == req[a].elem
         rows == req[a].rows
         list == Keep(req[a].kept, rows[p], e)
     IN /\ WriteBody(a, p, list, rows[p])
        /\ added' = added \ {<<p, e>>}
        /\ req' = [req EXCEPT ![a].rows = Rest(rows, p), ![a].kept = list]
  /\ UNCHANGED <<elements, ids, form, begun>>

\* Mutant: the row goes before the lists.
BugDeleteRow(a) ==
  /\ At(a, "strip")
  /\ elements' = elements \ {req[a].elem}
  /\ UNCHANGED <<body, ids, req, form, history, begun>>

\* The row goes last.
DeleteRow(a) ==
  /\ At(a, "strip") /\ DOMAIN req[a].rows = {}
  /\ elements' = elements \ {req[a].elem}
  /\ Finish(a)
  /\ UNCHANGED <<body, ids, form, history, begun>>

-----------------------------------------------------------------------------
(* Pages                                                                   *)

\* create_page: a page with an id of its own and an empty list.
CreatePage(a, p) ==
  /\ Begin(a) /\ p \in PageIds \ ids
  /\ body' = [q \in Pages \cup {p} |-> IF q = p THEN << >> ELSE body[q]]
  /\ ids' = ids \cup {p}
  /\ UNCHANGED <<elements, form, req, history>>

\* Mutant: a page that is gone lists itself.
BugCopyPage(a, p) ==
  /\ Begin(a) /\ p \in PageIds \cap ids
  /\ req' = [req EXCEPT ![a] = [pc |-> "copy", list |-> IF p \in Pages THEN body[p] ELSE <<p>>]]
  /\ UNCHANGED <<table, form, history>>

\* copy_page reads a row and inserts it under a new id; a page that is gone is
\* copied as an empty one.
CopyPage(a, p) ==
  /\ Begin(a) /\ p \in PageIds \cap ids
  /\ req' = [req EXCEPT ![a] = [pc |-> "copy", list |-> IF p \in Pages THEN body[p] ELSE << >>]]
  /\ UNCHANGED <<table, form, history>>

InsertCopy(a, p) ==
  /\ At(a, "copy") /\ p \in PageIds \ ids
  /\ body' = [q \in Pages \cup {p} |-> IF q = p THEN req[a].list ELSE body[q]]
  /\ ids' = ids \cup {p}
  /\ hurt' = hurt \cup TooLate(a, req[a].list)
  /\ Finish(a)
  /\ UNCHANGED <<elements, form, added, overtaken, begun>>

DeletePage(a, p) ==
  /\ Begin(a) /\ p \in Pages
  /\ body' = [q \in Pages \ {p} |-> body[q]]
  /\ added' = {x \in added : x[1] # p}
  /\ UNCHANGED <<elements, ids, form, req, overtaken, hurt>>

\* save_page changes titles and paths, and writes the list it has read along.
SavePage(a, p) ==
  /\ Begin(a) /\ p \in Pages
  /\ req' = [req EXCEPT ![a] = [pc |-> "save", page |-> p, list |-> body[p]]]
  /\ UNCHANGED <<table, form, history>>

UpdatePage(a) ==
  /\ At(a, "save")
  /\ WriteBody(a, req[a].page, req[a].list, req[a].list)
  /\ Finish(a)
  /\ UNCHANGED <<elements, ids, form, added, begun>>

-----------------------------------------------------------------------------
(* The lists of pages                                                      *)

\* The dropdown of the form may show elements that are gone by now.
AddElementToPage(a, p, e) ==
  /\ Begin(a) /\ p \in Pages /\ e \in Elements \cap ids
  /\ req' = [req EXCEPT ![a] = [pc |-> "add", page |-> p, elem |-> e, list |-> body[p]]]
  /\ UNCHANGED <<table, form, history>>

\* Mutant: the element takes the place of the list.
BugAppendElement(a) ==
  /\ At(a, "add")
  /\ LET p == req[a].page
         list == <<req[a].elem>>
     IN /\ WriteBody(a, p, list, req[a].list)
        /\ added' = IF p \in Pages THEN added \cup {<<p, req[a].elem>>} ELSE added
  /\ Finish(a)
  /\ UNCHANGED <<elements, ids, form, begun>>

AppendElement(a) ==
  /\ At(a, "add")
  /\ LET p == req[a].page
         list == Append(req[a].list, req[a].elem)
     IN /\ WriteBody(a, p, list, req[a].list)
        /\ added' = IF p \in Pages THEN added \cup {<<p, req[a].elem>>} ELSE added
  /\ Finish(a)
  /\ UNCHANGED <<elements, ids, form, begun>>

\* The editor looks every element of the list up.  One without a row is shown
\* with the empty id, which is what the form will send for it.
Shown(list) == [i \in 1..Len(list) |-> IF list[i] \in elements THEN list[i] ELSE NoElement]

OpenEditor(a, p) ==
  /\ Begin(a) /\ p \in Pages
  /\ form' = [form EXCEPT ![a] = [page |-> p, base |-> body[p], list |-> Shown(body[p])]]
  /\ UNCHANGED <<table, req, history>>

\* Move Up and Move Down exchange two neighbours; Remove takes one out.
Swap(a, i) ==
  /\ form[a] # NoForm /\ i \in 1..(Len(form[a].list) - 1)
  /\ form' = [form EXCEPT ![a].list = [@ EXCEPT ![i] = form[a].list[i + 1],
                                                ![i + 1] = form[a].list[i]]]
  /\ UNCHANGED <<table, req, history, begun>>

TakeOut(a, i) ==
  /\ form[a] # NoForm /\ i \in 1..Len(form[a].list)
  /\ form' = [form EXCEPT ![a].list = RemoveAt(@, i)]
  /\ UNCHANGED <<table, req, history, begun>>

\* edit_page_elements puts the list of the form in the place of the body; what
\* its SELECT returned is not used.  The administrator leaves the form, or saves
\* it again.
EditPageElements(a) ==
  /\ Begin(a) /\ form[a] # NoForm
  /\ LET p == form[a].page
         list == form[a].list
     IN /\ WriteBody(a, p, list, form[a].base)
        /\ added' = {x \in added : x[1] = p => x[2] \in ToSet(list)}
  /\ form' \in {[form EXCEPT ![a] = NoForm], [form EXCEPT ![a].base = form[a].list]}
  /\ UNCHANGED <<elements, ids, req>>

-----------------------------------------------------------------------------
(* Faults: PHP may end a request between two statements, and no operation  *)
(* reads whether its statements succeeded.  When the connection is gone,    *)
(* Database::query opens a new one and does not repeat the statement.       *)

Crash(a) ==
  /\ req[a] # Idle
  /\ Finish(a)
  /\ UNCHANGED <<table, form, history, begun>>

\* The list is not written; the request still reports success.
AppendFails(a) ==
  /\ At(a, "add")
  /\ added' = added \cup {<<req[a].page, req[a].elem>>}
  /\ overtaken' = overtaken \cup {req[a].page}
  /\ Finish(a)
  /\ UNCHANGED <<table, form, hurt, begun>>

\* The SELECT of save_page, copy_page or add_element_to_page finds no row: the
\* list that they will write is empty, or holds the new element alone.
LookupFails(a) ==
  /\ At(a, "save") \/ At(a, "copy") \/ At(a, "add")
  /\ req' = [req EXCEPT ![a].list = << >>]
  /\ overtaken' = IF At(a, "copy") THEN overtaken ELSE overtaken \cup {req[a].page}
  /\ UNCHANGED <<table, form, added, hurt, begun>>

\* The editor finds no page, and shows an empty list, or does not find one of
\* its elements, and shows it with the empty id.
EditorFails(a, p) ==
  /\ Begin(a) /\ p \in Pages
  /\ \E list \in {<< >>} \cup {[Shown(body[p]) EXCEPT ![i] = NoElement] : i \in 1..Len(body[p])} :
       form' = [form EXCEPT ![a] = [page |-> p, base |-> body[p], list |-> list]]
  /\ overtaken' = overtaken \cup {p}
  /\ UNCHANGED <<table, req, added, hurt>>

\* A list keeps the element whose row will be deleted.
StripFails(a, p) ==
  /\ At(a, "strip") /\ p \in DOMAIN req[a].rows
  /\ req' = [req EXCEPT ![a].rows = Rest(req[a].rows, p),
                        ![a].kept = Keep(@, req[a].rows[p], req[a].elem)]
  /\ hurt' = hurt \cup {req[a].elem}
  /\ UNCHANGED <<table, form, added, overtaken, begun>>

Request(a) ==
  \/ \E e \in Elements : CreateElement(a, e) \/ SaveElement(a, e) \/ DeleteElement(a, e)
  \/ \E p \in PageIds : \/ CreatePage(a, p) \/ CopyPage(a, p) \/ DeletePage(a, p) \/ SavePage(a, p)
                        \/ \E e \in Elements : AddElementToPage(a, p, e)
  \/ EditPageElements(a)

Statement(a) ==
  \/ PutElement(a) \/ AppendElement(a) \/ UpdatePage(a) \/ DeleteRow(a)
  \/ \E p \in PageIds : StripPage(a, p) \/ InsertCopy(a, p)

Editor(a) ==
  \/ \E p \in PageIds : OpenEditor(a, p)
  \/ form[a] # NoForm /\ \E i \in 1..Len(form[a].list) : Swap(a, i) \/ TakeOut(a, i)

Fault(a) ==
  \/ Crash(a) \/ AppendFails(a) \/ LookupFails(a)
  \/ \E p \in PageIds : StripFails(a, p) \/ EditorFails(a, p)

Next == \E a \in Admins : Request(a) \/ Statement(a) \/ Editor(a) \/ Fault(a)

Spec == Init /\ [][Next]_vars

-----------------------------------------------------------------------------
(* Properties                                                              *)

\* A page lists no element that is gone.  delete_element takes the element off
\* every list and deletes its row last (delete_element.php:33, 40), so that a
\* request that dies halfway leaves no list behind that points nowhere.  The
\* exceptions are elements that another request listed while or after they were
\* deleted, and those whose deletion had a failing statement.
ListedExists ==
  \A p \in Pages : ToSet(body[p]) \subseteq elements \cup hurt

\* An element that was added with success stays on its page until somebody
\* takes it off or deletes it or the page.  Three things break this: a request
\* that writes the list from an older one (add_element_to_page.php:13,
\* save_page.php:34, the editor); a statement that fails, of the addition itself;
\* and a lookup of the page or of one of its elements that is lost with the
\* connection, in the same three places, which drops the whole list or the
\* element.  All the rest, deletions of other elements and requests that die
\* anywhere, loses nothing.
AddedIsListed ==
  \A x \in added : x[1] \in overtaken \/ (x[1] \in Pages /\ x[2] \in ToSet(body[x[1]]))

\* Deleting an element never takes another element off a page: each list that
\* delete_element writes (delete_element.php:18-31) holds all that it read.
DeletionKeepsOthers ==
  [][\A a \in Admins, p \in PageIds :
       StripPage(a, p) /\ p \in Pages
         => ToSet(req[a].rows[p]) \ {req[a].elem} \subseteq ToSet(body'[p])]_vars

=============================================================================
