------------------------------ MODULE Checkout ------------------------------
(***************************************************************************)
(* Paying for the cart: elements/checkout_final.php in the browser and     *)
(* app/portal/user/checkout_final.php on the server.  A request prices the *)
(* cart, charges the buyer at the payment gateway, and only then looks for *)
(* the customer and stores customer and order, in statements of their own  *)
(* whose results nobody reads.                                             *)
(*                                                                         *)
(* All buyers of the model give the same name and email: the interesting   *)
(* case is one person with several browsers, tabs and impatient clicks.    *)
(***************************************************************************)
EXTENDS Integers, FiniteSets

CONSTANTS Browsers,
          Requests,  \* the requests the browsers may send, each used once
          Items,
          Prices,    \* prices of an item; 0 is also that of a deleted item
          Fee,       \* SHOP_PROCESSING_FEE
          MaxFills,  \* bound: how often a browser starts a new cart
          MaxEdits   \* bound: how often the shop changes a price

ASSUME CheckoutAssumption ==
  /\ Prices \subseteq Nat /\ Prices # {} /\ Fee \in Nat
  /\ MaxFills \in Nat /\ MaxEdits \in Nat

VARIABLES price,     \* table elements: the price of each item
          cart,      \* cart[b]: the items in the localStorage of b
          fill,      \* fill[b]: number of carts b has started
          form,      \* form[b]: b shows the payment form
          req,       \* the requests
          used,      \* the nonces that the gateway has charged
          charges,   \* what the gateway charged
          orders,    \* table orders
          customers, \* table customers: the requests that inserted a row
          hit,       \* history: the requests that a fault other than a lost price hit
          edits      \* number of price changes so far

vars == <<price, cart, fill, form, req, used, charges, orders, customers, hit, edits>>

Unsent == [pc |-> "unsent"]

\* Mutant: a request that died keeps the lock of its session.
BugInProgress(r) == req[r].pc \in {"price", "sale", "lookup", "customer", "order", "reply", "dead"}

\* A request between its first and its last statement.
InProgress(r) == req[r].pc \in {"price", "sale", "lookup", "customer", "order", "reply"}
\* A request whose browser has heard of its outcome.
Answered(r) == req[r].pc \in {"placed", "declined"}
SentBy(b) == {r \in Requests : req[r].pc # "unsent" /\ req[r].by = b}

PCs == {"sent", "price", "sale", "lookup", "customer", "order", "reply",
        "placed", "declined", "unseen", "dead"}

TypeOK ==
  /\ price \in [Items -> Prices \cup {0}]
  /\ cart \in [Browsers -> SUBSET Items]
  /\ fill \in [Browsers -> 0..MaxFills]
  /\ form \in [Browsers -> BOOLEAN]
  /\ DOMAIN req = Requests
  /\ \A r \in Requests :
       \/ req[r] = Unsent
       \/ /\ req[r].pc \in PCs
          /\ req[r].by \in Browsers /\ req[r].nonce \in Requests
          /\ req[r].cart \subseteq Items /\ req[r].left \subseteq Items
          /\ req[r].total \in Nat
          /\ req[r].fill \in 0..MaxFills /\ req[r].pending \subseteq Requests
  /\ used \subseteq Requests /\ customers \subseteq Requests /\ hit \subseteq Requests
  /\ charges \subseteq [req : Requests, amount : Nat]
  /\ orders \subseteq [req : Requests, amount : Nat]
  /\ edits \in 0..MaxEdits

Init ==
  /\ price \in [Items -> Prices]
  /\ cart = [b \in Browsers |-> {}] /\ fill = [b \in Browsers |-> 0]
  /\ form = [b \in Browsers |-> FALSE]
  /\ req = [r \in Requests |-> Unsent]
  /\ used = {} /\ charges = {} /\ orders = {} /\ customers = {} /\ hit = {}
  /\ edits = 0

-----------------------------------------------------------------------------
(* The browser                                                             *)

AddItem(b, i) ==
  /\ i \notin cart[b]
  /\ cart[b] = {} => fill[b] < MaxFills
  /\ cart' = [cart EXCEPT ![b] = @ \cup {i}]
  /\ fill' = [fill EXCEPT ![b] = IF cart[b] = {} THEN @ + 1 ELSE @]
  /\ UNCHANGED <<price, form, req, used, charges, orders, customers, hit, edits>>

\* /checkout_final shows the form and the total of the cart, unless it is empty.
OpenForm(b) ==
  /\ ~ form[b] /\ cart[b] # {}
  /\ form' = [form EXCEPT ![b] = TRUE]
  /\ UNCHANGED <<price, cart, fill, req, used, charges, orders, customers, hit, edits>>

Send(r, b, nonce) ==
  req' = [req EXCEPT ![r] =
            [pc |-> "sent", by |-> b, nonce |-> nonce, cart |-> cart[b], fill |-> fill[b],
             left |-> {}, total |-> 0, pending |-> {q \in SentBy(b) : ~ Answered(q)}]]

\* The form gets a nonce from the gateway and posts it to its own page, which
\* sends the request with the cart of that moment.
Pay(r, b) ==
  /\ form[b] /\ req[r] = Unsent
  /\ Send(r, b, r)
  /\ form' = [form EXCEPT ![b] = FALSE]
  /\ UNCHANGED <<price, cart, fill, used, charges, orders, customers, hit, edits>>

\* Reloading that page posts the nonce once more.
Reload(r, b, q) ==
  /\ req[r] = Unsent /\ q \in SentBy(b)
  /\ Send(r, b, req[q].nonce)
  /\ UNCHANGED <<price, cart, fill, form, used, charges, orders, customers, hit, edits>>

-----------------------------------------------------------------------------
(* The server                                                              *)

\* Every database statement of a request may find the connection gone, and
\* PHP may end a request at its time limit.
At(r, pc) == req[r].pc = pc
GoTo(r, pc) == req' = [req EXCEPT ![r].pc = pc]

\* Mutant: the session is not locked while a request runs.
BugSessionFree(r) == TRUE

\* start_session holds the session's lock until the request ends, so that the
\* requests of one browser run one after the other.
SessionFree(r) == \A q \in SentBy(req[r].by) : ~ InProgress(q)

\* The items of left are still to be priced; the sale follows when none is.
Pricing(r, total, left) ==
  req' = [req EXCEPT ![r].pc = IF left = {} THEN "sale" ELSE "price",
                     ![r].total = total, ![r].left = left]

\* Mutant: the fee is taken off.
BugBegin(r) ==
  /\ At(r, "sent") /\ SessionFree(r)
  /\ IF req[r].cart = {} THEN GoTo(r, "declined") ELSE Pricing(r, 0 - Fee, req[r].cart)
  /\ UNCHANGED <<price, cart, fill, form, used, charges, orders, customers, hit, edits>>

\* An empty cart is refused.  The fee, which get_cart_total adds at its end, is
\* in the total from the start.
Begin(r) ==
  /\ At(r, "sent") /\ SessionFree(r)
  /\ IF req[r].cart = {} THEN GoTo(r, "declined") ELSE Pricing(r, Fee, req[r].cart)
  /\ UNCHANGED <<price, cart, fill, form, used, charges, orders, customers, hit, edits>>

\* get_cart_total reads the price of one item after the other, here of items
\* without options: the shop may change prices and delete items meanwhile.
PriceItem(r) ==
  /\ At(r, "price")
  /\ \E i \in req[r].left : Pricing(r, req[r].total + price[i], req[r].left \ {i})
  /\ UNCHANGED <<price, cart, fill, form, used, charges, orders, customers, hit, edits>>

\* Over a connection that is gone the SELECT finds nothing: the item costs
\* nothing, and the request goes on.
PriceLost(r) ==
  /\ At(r, "price")
  /\ \E i \in req[r].left : Pricing(r, req[r].total, req[r].left \ {i})
  /\ UNCHANGED <<price, cart, fill, form, used, charges, orders, customers, hit, edits>>

\* The gateway takes a nonce once.
Charge(r) ==
  /\ req[r].nonce \notin used
  /\ used' = used \cup {req[r].nonce}
  /\ charges' = charges \cup {[req |-> r, amount |-> req[r].total]}

Sale(r) ==
  /\ At(r, "sale")
  /\ Charge(r)
  /\ GoTo(r, "lookup")
  /\ UNCHANGED <<price, cart, fill, form, orders, customers, hit, edits>>

\* The answer of the gateway is lost: the library throws and the request ends.
SaleLost(r) ==
  /\ At(r, "sale")
  /\ Charge(r)
  /\ GoTo(r, "dead") /\ hit' = hit \cup {r}
  /\ UNCHANGED <<price, cart, fill, form, orders, customers, edits>>

\* The browser shows the refusal and goes to /cart.
Decline(r) ==
  /\ At(r, "sale")
  /\ GoTo(r, "declined")
  /\ form' \in {form, [form EXCEPT ![req[r].by] = FALSE]}
  /\ UNCHANGED <<price, cart, fill, used, charges, orders, customers, hit, edits>>

LookupCustomer(r) ==
  /\ At(r, "lookup")
  /\ GoTo(r, IF customers = {} THEN "customer" ELSE "order")
  /\ UNCHANGED <<price, cart, fill, form, used, charges, orders, customers, hit, edits>>

InsertCustomer(r) ==
  /\ At(r, "customer")
  /\ GoTo(r, "order")
  /\ customers' = customers \cup {r}
  /\ UNCHANGED <<price, cart, fill, form, used, charges, orders, hit, edits>>

\* Mutant: the order is stored without the fee.
BugInsertOrder(r) ==
  /\ At(r, "order")
  /\ GoTo(r, "reply")
  /\ orders' = orders \cup {[req |-> r, amount |-> req[r].total - Fee]}
  /\ UNCHANGED <<price, cart, fill, form, used, charges, customers, hit, edits>>

InsertOrder(r) ==
  /\ At(r, "order")
  /\ GoTo(r, "reply")
  /\ orders' = orders \cup {[req |-> r, amount |-> req[r].total]}
  /\ UNCHANGED <<price, cart, fill, form, used, charges, customers, hit, edits>>

\* Database::insert refuses the statement or loses it; the result is not read.
\* The lookup of a customer fails in the same way as if there was none.
StatementFails(r) ==
  /\ \/ At(r, "lookup") /\ GoTo(r, "customer")
     \/ At(r, "customer") /\ GoTo(r, "order")
     \/ At(r, "order") /\ GoTo(r, "reply")
  /\ hit' = hit \cup {r}
  /\ UNCHANGED <<price, cart, fill, form, used, charges, orders, customers, edits>>

Crash(r) ==
  /\ InProgress(r)
  /\ GoTo(r, "dead") /\ hit' = hit \cup {r}
  /\ UNCHANGED <<price, cart, fill, form, used, charges, orders, customers, edits>>

\* Mutant: the cart is kept.
BugReply(r) ==
  /\ At(r, "reply")
  /\ GoTo(r, "placed")
  /\ form' \in {form, [form EXCEPT ![req[r].by] = FALSE]}
  /\ UNCHANGED <<price, cart, fill, used, charges, orders, customers, hit, edits>>

\* "Order placed successfully!" reaches the page, which empties the cart.
Reply(r) ==
  /\ At(r, "reply")
  /\ GoTo(r, "placed")
  /\ cart' = [cart EXCEPT ![req[r].by] = {}]
  /\ form' \in {form, [form EXCEPT ![req[r].by] = FALSE]}
  /\ UNCHANGED <<price, fill, used, charges, orders, customers, hit, edits>>

\* The answer is lost, or the buyer has left the page that waits for it.
ReplyUnseen(r) ==
  /\ At(r, "reply")
  /\ GoTo(r, "unseen")
  /\ UNCHANGED <<price, cart, fill, form, used, charges, orders, customers, hit, edits>>

\* The shop changes a price or deletes an item.
EditPrice(i, p) ==
  /\ edits < MaxEdits /\ p # price[i]
  /\ price' = [price EXCEPT ![i] = p]
  /\ edits' = edits + 1
  /\ UNCHANGED <<cart, fill, form, req, used, charges, orders, customers, hit>>

Statement(r) ==
  \/ Begin(r) \/ PriceItem(r) \/ Sale(r) \/ Decline(r) \/ LookupCustomer(r)
  \/ InsertCustomer(r) \/ InsertOrder(r) \/ Reply(r) \/ ReplyUnseen(r)

Fault(r) == PriceLost(r) \/ SaleLost(r) \/ StatementFails(r) \/ Crash(r)

Next ==
  \/ \E b \in Browsers :
       \/ \E i \in Items : AddItem(b, i)
       \/ OpenForm(b)
       \/ \E r \in Requests : Pay(r, b) \/ \E q \in Requests : Reload(r, b, q)
  \/ \E r \in Requests : Statement(r) \/ Fault(r)
  \/ \E i \in Items, p \in Prices \cup {0} : EditPrice(i, p)

\* A request runs on once it has begun, and begins once the session is free;
\* nobody has to buy.
Fairness == \A r \in Requests : WF_vars(Statement(r))

Spec == Init /\ [][Next]_vars /\ Fairness

-----------------------------------------------------------------------------
(* Properties                                                              *)

\* The sales charge first and store afterwards (checkout_final.php:14, 49).
\* Whatever the gateway charged is, unless a fault hit the request, in the
\* table of orders with that very amount or in a request that will store it;
\* and nothing is in the table that was not charged.
ChargesMatchOrders ==
  /\ orders \subseteq charges
  /\ \A c \in charges \ orders :
       c.req \in hit \/ req[c.req].pc \in {"lookup", "customer", "order"}

\* The same cart is charged twice only to a buyer who paid again before hearing
\* of the first payment: the answer empties the cart, and a reloaded page
\* brings a nonce that the gateway has used.
ChargedOnce ==
  \A c, d \in charges :
    (c # d /\ req[c.req].by = req[d.req].by /\ req[c.req].fill = req[d.req].fill)
    => /\ req[c.req].nonce # req[d.req].nonce
       /\ c.req \in req[d.req].pending \/ d.req \in req[c.req].pending

\* The lookup of the customer and the insertion (checkout_final.php:30, 33) are
\* two statements, and the table has no key on name and email.  Two rows for one
\* customer still come only from requests of two browsers, because those of one
\* browser wait for each other at the lock of the session, or from a fault.
OneCustomerPerBrowser ==
  \A r, q \in customers \ hit : r # q => req[r].by # req[q].by

\* Every request that is sent comes to an end, also behind others of its browser.
PaymentEnds ==
  \A r \in Requests :
    At(r, "sent") ~> req[r].pc \in {"placed", "declined", "unseen", "dead"}

\* "Order placed successfully!" (checkout_final.php:127) is said of orders that
\* are in the table of orders.
PlacedIsOrdered ==
  \A r \in Requests : At(r, "placed") => \E o \in orders : o.req = r

=============================================================================
