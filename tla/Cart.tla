-------------------------------- MODULE Cart --------------------------------
(***************************************************************************)
(* The shopping cart.  It lives in the browser's localStorage and is       *)
(* changed by public/js/lib/_cart.js; the cart page shows rows that the    *)
(* server rendered from it (app/methods/generate_cart_element.php), the    *)
(* browser computes the "Grand Total" of that page and the server computes *)
(* what checkout charges (app/methods/get_cart_total.php).                 *)
(*                                                                         *)
(* A cart entry counts an item twice: `amount`, and for each type of       *)
(* option the item has (colour, size) the number chosen of each value.     *)
(* The shop and the cart page may be open in two tabs of the browser: they *)
(* share the cart, but a page that is open is not refreshed.  Prices are   *)
(* changed by administrators: the page adds up those that were rendered    *)
(* into its rows, the server reads them again.                             *)
(***************************************************************************)
EXTENDS Integers, FiniteSets, Sequences, SequencesExt

CONSTANTS Items,     \* what the shop sells
          OptionsOf, \* OptionsOf[i]: the function from i's option types to values
          Prices,    \* Prices[i]: the prices that item i may be given
          Fee,       \* SHOP_PROCESSING_FEE
          Faults,    \* what may go wrong: a subset of {"gone_away"}
          MaxAdds    \* bound: how often something is added

ASSUME CartAssumption ==
  /\ \A i \in Items : DOMAIN OptionsOf[i] # {} =>
       \A t \in DOMAIN OptionsOf[i] : OptionsOf[i][t] # {}
  /\ \A i \in Items : IsFiniteSet(DOMAIN OptionsOf[i])
  /\ \A i \in Items : Prices[i] \subseteq [list : Nat, user : Nat]
  /\ Fee \in Nat /\ MaxAdds \in Nat /\ Faults \subseteq {"gone_away"}

VARIABLES cart,   \* localStorage.cart, a function on the items that are in it
          price,  \* table elements: the properties price and price_user of an item
          visit,  \* the cart page: "away", "asking" for its rows, or "open"
          asked,  \* the part of the cart asked about that is still to be rendered
          page,   \* page[i]: the options shown on the rows of i, top to bottom
          tag,    \* tag[i]: the price that was rendered into the rows of i
          shown,  \* the Grand Total: <<n>>, or << >> when the page shows NaN
          stale,  \* history: an option was removed that the cart did not count
          adds    \* number of additions so far

vars == <<cart, price, visit, asked, page, tag, shown, stale, adds>>

\* The row of an item without options says "Name", the others "Type: Value".
Plain == <<"", "">>
ChoicesOf(i) == UNION {{t} \X OptionsOf[i][t] : t \in DOMAIN OptionsOf[i]}

IsEntry(i, e) ==
  /\ e.amount \in Int
  /\ DOMAIN e.options \subseteq ChoicesOf(i)
  /\ e.options \in [DOMAIN e.options -> Nat]

TypeOK ==
  /\ DOMAIN cart \subseteq Items
  /\ \A i \in DOMAIN cart : IsEntry(i, cart[i])
  /\ DOMAIN price = Items /\ \A i \in Items : price[i] \in Prices[i]
  /\ visit \in {"away", "asking", "open"}
  /\ DOMAIN asked \subseteq Items
  /\ \A i \in DOMAIN asked : IsEntry(i, asked[i])
  /\ tag \in [Items -> Nat]
  /\ DOMAIN page = Items
  /\ \A i \in Items : ToSet(page[i]) \subseteq ChoicesOf(i) \cup {Plain}
  /\ shown \in Seq(Int) /\ Len(shown) <= 1
  /\ stale \in BOOLEAN
  /\ adds \in 0..MaxAdds

NoRows == [i \in Items |-> << >>]
NoTags == [i \in Items |-> 0]

Init ==
  /\ cart = << >> /\ shown = << >> /\ stale = FALSE /\ adds = 0
  /\ visit = "away" /\ asked = << >> /\ page = NoRows /\ tag = NoTags
  /\ price \in {p \in [Items -> UNION {Prices[i] : i \in Items}] : \A i \in Items : p[i] \in Prices[i]}

Chosen(e) == SumFunction(e.options)

-----------------------------------------------------------------------------
(* The two totals                                                          *)

\* calculate_total: price times amount, where the price is read from the
\* item's first row, as it was rendered; without a row the sum is NaN.
ClientTotal(c, rows, tags) ==
  IF \A i \in DOMAIN c : rows[i] # << >>
  THEN <<SumFunction([i \in DOMAIN c |-> tags[i] * c[i].amount]) + Fee>>
  ELSE << >>

\* The price that the server charges: the buyers' own, if the item has one.
Charged(p) == IF p.user = 0 THEN p.list ELSE p.user

\* Mutant: the amount is charged and the options once more.
BugItemTotal(e, p) == Charged(p) * (e.amount + Chosen(e))

\* get_cart_total: an item with options is charged once for each option.
ItemTotal(e, p) ==
  IF DOMAIN e.options = {} THEN Charged(p) * e.amount ELSE Charged(p) * Chosen(e)

ServerTotal(c, prices) == SumFunction([i \in DOMAIN c |-> ItemTotal(c[i], prices[i])]) + Fee

-----------------------------------------------------------------------------

\* An object of the browser after object[key] = value.
Assigned(object, key, value) ==
  [k \in DOMAIN object \cup {key} |-> IF k = key THEN value ELSE object[k]]

\* Mutant: the amount of an item with options is not counted.
BugAdded(e, pick) ==
  [amount |-> IF pick = {} THEN e.amount + 1 ELSE e.amount,
   options |-> [o \in DOMAIN e.options \cup pick |->
                 (IF o \in DOMAIN e.options THEN e.options[o] ELSE 0)
                 + (IF o \in pick THEN 1 ELSE 0)]]

\* The entry e after one more piece with the options of pick.
Added(e, pick) ==
  [amount |-> e.amount + 1,
   options |-> [o \in DOMAIN e.options \cup pick |->
                 (IF o \in DOMAIN e.options THEN e.options[o] ELSE 0)
                 + (IF o \in pick THEN 1 ELSE 0)]]

\* Mutant: the cart is saved although no value is selected.
BugAddToCart(i, pick) ==
  /\ adds < MaxAdds
  /\ LET e == IF i \in DOMAIN cart THEN cart[i] ELSE [amount |-> 0, options |-> << >>]
     IN  cart' = Assigned(cart, i, Added(e, {<<t, "">> : t \in DOMAIN pick}))
  /\ adds' = adds + 1
  /\ UNCHANGED <<price, visit, asked, page, tag, shown, stale>>

\* add_to_cart.  When a type has no value selected the cart is not saved, so
\* pick has one value for every type.
AddToCart(i, pick) ==
  /\ adds < MaxAdds
  /\ LET e == IF i \in DOMAIN cart THEN cart[i] ELSE [amount |-> 0, options |-> << >>]
     IN  cart' = Assigned(cart, i, Added(e, {<<t, pick[t]>> : t \in DOMAIN pick}))
  /\ adds' = adds + 1
  /\ UNCHANGED <<price, visit, asked, page, tag, shown, stale>>

\* generate_cart_element: the options of an entry that get a row.
RowsOf(e) ==
  IF DOMAIN e.options = {} THEN {Plain} ELSE {o \in DOMAIN e.options : e.options[o] > 0}

\* The orders the rows of an entry may have: type by type, and in a type in the
\* order in which the values were first chosen, which may be any.
RowOrders(e) ==
  {s \in SetToSeqs(RowsOf(e)) :
     \A j, k, m \in DOMAIN s : (j < k /\ k < m /\ s[j][1] = s[m][1]) => s[k][1] = s[j][1]}

\* get_cart_html sends the cart.  An empty one sends the browser away.
AskCart ==
  /\ visit = "away" /\ DOMAIN cart # {}
  /\ visit' = "asking" /\ asked' = cart
  /\ UNCHANGED <<cart, price, page, tag, shown, stale, adds>>

Render(i, rows, listed) ==
  /\ visit = "asking" /\ i \in DOMAIN asked
  /\ asked' = [k \in DOMAIN asked \ {i} |-> asked[k]]
  /\ page' = [page EXCEPT ![i] = rows] /\ tag' = [tag EXCEPT ![i] = listed]
  /\ UNCHANGED <<cart, price, visit, shown, stale, adds>>

\* generate_cart_element looks up one item after the other and renders its rows,
\* with the list price: it is asked for no other kind of buyer than "user".
RenderItem(i) ==
  \E rows \in RowOrders(asked[i]) : Render(i, rows, price[i].list)

\* Over a connection that is gone the lookup finds nothing.  The rows it makes
\* have no id and no price, so that the item has none.
RenderLost(i) == "gone_away" \in Faults /\ Render(i, << >>, 0)

\* The answer: the page gets its rows, and the total is that of the cart of now.
ShowCart ==
  /\ visit = "asking" /\ DOMAIN asked = {}
  /\ visit' = "open"
  /\ shown' = ClientTotal(cart, page, tag)
  /\ UNCHANGED <<cart, price, asked, page, tag, stale, adds>>

LeaveCart ==
  /\ visit # "away"
  /\ visit' = "away" /\ asked' = << >> /\ page' = NoRows /\ tag' = NoTags /\ shown' = << >>
  /\ UNCHANGED <<cart, price, stale, adds>>

\* An administrator saves the element of an item.
ChangePrice(i) ==
  /\ \E p \in Prices[i] \ {price[i]} : price' = [price EXCEPT ![i] = p]
  /\ UNCHANGED <<cart, visit, asked, page, tag, shown, stale, adds>>

\* Mutant: the item goes when this option does.
BugWithout(c, i, o) == [k \in DOMAIN c \ {i} |-> c[k]]

\* The cart after remove_from_cart took option o of item i out of it.  When o
\* was never counted the amount becomes NaN, which is stored as null and counts
\* as 0 from then on.
Without(c, i, o) ==
  LET e == c[i]
      known == o \in DOMAIN e.options
      amount == IF known THEN e.amount - e.options[o] ELSE 0
      options == Assigned(e.options, o, 0)
  IN  IF known /\ amount = 0
      THEN [k \in DOMAIN c \ {i} |-> c[k]]
      ELSE [c EXCEPT ![i] = [amount |-> amount, options |-> options]]

\* A click on "remove" in row n of item i.  remove_from_cart looks the row up by
\* the item's id, which finds the first of its rows; the clicked row disappears.
\* On a row without options it fails with a TypeError and changes nothing.
RemoveRow(i, n) ==
  /\ visit = "open" /\ n \in DOMAIN page[i] /\ Head(page[i]) # Plain
  /\ LET o == Head(page[i])
     IN  IF i \in DOMAIN cart
         THEN /\ cart' = Without(cart, i, o)
              /\ shown' = ClientTotal(cart', page, tag)
              /\ stale' = (stale \/ o \notin DOMAIN cart[i].options)
         ELSE UNCHANGED <<cart, shown, stale>>
  /\ page' = [page EXCEPT ![i] = RemoveAt(@, n)]
  /\ UNCHANGED <<price, visit, asked, tag, adds>>

\* reset_cart, when the checkout page learns that the order was placed.
ResetCart ==
  /\ DOMAIN cart # {}
  /\ cart' = << >>
  /\ UNCHANGED <<price, visit, asked, page, tag, shown, stale, adds>>

Picks(i) == {f \in [DOMAIN OptionsOf[i] -> UNION {OptionsOf[i][t] : t \in DOMAIN OptionsOf[i]}] :
               \A t \in DOMAIN f : f[t] \in OptionsOf[i][t]}

Next ==
  \/ \E i \in Items : \E pick \in Picks(i) : AddToCart(i, pick)
  \/ AskCart \/ ShowCart \/ LeaveCart \/ ResetCart
  \/ \E i \in Items : ChangePrice(i)
  \/ \E i \in DOMAIN asked : RenderItem(i) \/ RenderLost(i)
  \/ \E i \in Items : \E n \in DOMAIN page[i] : RemoveRow(i, n)

Spec == Init /\ [][Next]_vars

-----------------------------------------------------------------------------
(* Properties                                                              *)

\* The items for which the two counts of an entry can agree after a removal,
\* and whose price the server takes once a piece.
OneType == {i \in Items : Cardinality(DOMAIN OptionsOf[i]) = 1}
AtMostOneType == {i \in Items : Cardinality(DOMAIN OptionsOf[i]) <= 1}

\* The amount of an entry, which the page counts, and the numbers of its
\* options, which the server counts, are the same through any sequence of
\* additions, removals and visits in two tabs, and they count something: until a
\* page that is out of date removes an option that the cart does not have
\* (_cart.js:219 stores NaN).
CartIsBalanced ==
  ~ stale => \A i \in DOMAIN cart \cap OneType :
               cart[i].amount = Chosen(cart[i]) /\ cart[i].amount > 0

\* The page shows the price of i that the server would charge now.
PriceIsCurrent(i) == tag[i] = Charged(price[i])

\* Whenever the page computes a Grand Total (_cart.js:97) it is what
\* get_cart_total would charge for the cart at that moment, whatever was added or
\* removed since the rows were asked for, with three exceptions: an item in the
\* cart has two types of options; a price was changed after its row was rendered,
\* or is not that of the list; a stale row was removed.  (It may also be NaN, for
\* an item that the page has no row of.)
TotalsAgree ==
  [][ (/\ shown' # shown /\ shown' # << >> /\ ~ stale'
       /\ \A i \in DOMAIN cart' : i \in AtMostOneType /\ PriceIsCurrent(i)')
      => shown' = <<ServerTotal(cart', price')>> ]_vars

\* Of the items with one type of options, a click on "remove" takes one out of
\* the cart only with the last of its options that was still counted: the other
\* options the buyer chose stay.  (With two types of options it does not hold: the
\* amount is used up by the rows of either type.)
OnlyLastOptionTakesItem ==
  [][ (visit = "open" /\ visit' = "open" /\ page' # page /\ ~ stale)
      => \A i \in (DOMAIN cart \ DOMAIN cart') \cap OneType :
           Cardinality({o \in DOMAIN cart[i].options : cart[i].options[o] > 0}) = 1 ]_vars

\* The "Grand Total" that a page shows when it opens (elements/cart.php:12) is
\* what the checkout charges for that cart.
GrandTotalIsCharged ==
  [][ (visit # "open" /\ visit' = "open") => shown' = <<ServerTotal(cart', price')>> ]_vars

\* The column "Remove Item" (generate_cart_element.php:62): the option of the
\* row that a click removed from the page is not in the cart afterwards.
RemovedRowIsGone ==
  [][ (visit = "open" /\ visit' = "open") =>
        \A i \in DOMAIN cart' : \A o \in ToSet(page[i]) \ ToSet(page'[i]) :
          o \in DOMAIN cart'[i].options => cart'[i].options[o] = 0 ]_vars

=============================================================================
