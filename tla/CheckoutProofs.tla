--------------------------- MODULE CheckoutProofs -----------------------------
(* What is charged and what is ordered, for every number of browsers,      *)
(* requests and items, and for every price.                                *)
EXTENDS Checkout, TLAPS

\* A request has the fields that Send gives it.
ReqOK(r) ==
  \/ req[r] = Unsent
  \/ req[r] = [pc |-> req[r].pc, by |-> req[r].by, nonce |-> req[r].nonce,
               cart |-> req[r].cart, fill |-> req[r].fill,
               left |-> req[r].left, total |-> req[r].total, pending |-> req[r].pending]

\* The request has not reached the gateway, or the gateway has declined.
NotCharged(r) == req[r].pc \in {"unsent", "sent", "price", "sale", "declined"}

\* A charge is the one of its request, for the total that the request still has.
ChargeOK(c) ==
  /\ c.req \in Requests
  /\ c = [req |-> c.req, amount |-> req[c.req].total]
  /\ ~ NotCharged(c.req)

\* A request that will store the order has been charged.
WillStore(r) ==
  req[r].pc \in {"lookup", "customer", "order"}
    => [req |-> r, amount |-> req[r].total] \in charges

IInv ==
  /\ DOMAIN req = Requests
  /\ \A r \in Requests : ReqOK(r)
  /\ \A c \in charges : ChargeOK(c)
  /\ \A r \in Requests : WillStore(r)
  /\ ChargesMatchOrders

LEMMA InitInv == Init => IInv
BY DEF Init, IInv, ReqOK, WillStore, ChargesMatchOrders, Unsent

-----------------------------------------------------------------------------

\* A step that changes no table and only where a request stands, to a place
\* with the same obligations.
Moves(r, pc) ==
  /\ GoTo(r, pc)
  /\ UNCHANGED <<charges, orders>>
  /\ hit \subseteq hit'

\* A request moves on: its fields stay, and the others do not change.
LEMMA GoToFacts ==
  ASSUME IInv, NEW r \in Requests, NEW pc, GoTo(r, pc), req[r].pc # "unsent"
  PROVE  /\ DOMAIN req' = Requests
         /\ \A q \in Requests : ReqOK(q)'
         /\ req'[r].pc = pc /\ req'[r].total = req[r].total
         /\ \A q \in Requests \ {r} : req'[q] = req[q]
<1>1. req' = [req EXCEPT ![r] = [req[r] EXCEPT !.pc = pc]]
  BY DEF GoTo
<1>2. req'[r] = [req[r] EXCEPT !.pc = pc] /\ DOMAIN req' = Requests
      /\ \A q \in Requests \ {r} : req'[q] = req[q]
  BY <1>1 DEF IInv
<1>3. req[r] = [pc |-> req[r].pc, by |-> req[r].by, nonce |-> req[r].nonce,
               cart |-> req[r].cart, fill |-> req[r].fill,
               left |-> req[r].left, total |-> req[r].total, pending |-> req[r].pending]
  BY DEF IInv, ReqOK, Unsent
<1>4. req'[r] = [pc |-> pc, by |-> req[r].by, nonce |-> req[r].nonce,
               cart |-> req[r].cart, fill |-> req[r].fill,
               left |-> req[r].left, total |-> req[r].total, pending |-> req[r].pending]
  BY <1>2, <1>3
<1>5. \A q \in Requests : ReqOK(q)'
  BY <1>2, <1>4 DEF IInv, ReqOK
<1> QED BY <1>2, <1>4, <1>5

\* A move keeps the invariant if a charged request stays charged, if a request
\* gives up storing its order only after a fault or with the order stored, and
\* if none begins to store without a charge.
LEMMA MoveInv ==
  ASSUME IInv, NEW r \in Requests, NEW pc, Moves(r, pc),
         NotCharged(r) => pc \notin {"lookup", "customer", "order"},
         req[r].pc # "unsent",
         ~ NotCharged(r) => pc \notin {"unsent", "sent", "price", "sale", "declined"},
         req[r].pc \in {"lookup", "customer", "order"}
           => pc \in {"lookup", "customer", "order"} \/ r \in hit',
         pc \in {"lookup", "customer", "order"} => req[r].pc \in {"lookup", "customer", "order"}
  PROVE  IInv'
<1>1. /\ DOMAIN req' = Requests
      /\ \A q \in Requests : ReqOK(q)'
      /\ req'[r].pc = pc /\ req'[r].total = req[r].total
      /\ \A q \in Requests \ {r} : req'[q] = req[q]
  BY GoToFacts DEF Moves
<1>2. \A q \in Requests : req'[q].total = req[q].total
  BY <1>1
<1>3. \A c \in charges : ChargeOK(c)'
  <2> SUFFICES ASSUME NEW c \in charges PROVE ChargeOK(c)'
    OBVIOUS
  <2>1. ChargeOK(c)
    BY DEF IInv
  <2> QED BY <2>1, <1>1, <1>2 DEF ChargeOK, NotCharged
<1>4. \A q \in Requests : WillStore(q)'
  BY <1>1, <1>2 DEF IInv, WillStore, Moves
<1>5. ChargesMatchOrders'
  <2> SUFFICES ASSUME NEW c \in charges \ orders
               PROVE  c.req \in hit' \/ req'[c.req].pc \in {"lookup", "customer", "order"}
    BY DEF ChargesMatchOrders, Moves, IInv
  <2>1. c.req \in hit \/ req[c.req].pc \in {"lookup", "customer", "order"}
    BY DEF IInv, ChargesMatchOrders
  <2>2. c.req \in Requests
    BY DEF IInv, ChargeOK
  <2> QED BY <1>1, <2>1, <2>2 DEF Moves
<1> QED BY <1>1, <1>3, <1>4, <1>5 DEF IInv, Moves

-----------------------------------------------------------------------------
(* The actions that change more than where a request stands                *)

LEMMA SendInv ==
  ASSUME IInv, NEW r \in Requests, NEW b, NEW n, req[r] = Unsent, Send(r, b, n),
         UNCHANGED <<charges, orders, hit>>
  PROVE  IInv'
<1> DEFINE s == [pc |-> "sent", by |-> b, nonce |-> n, cart |-> cart[b], fill |-> fill[b],
                 left |-> {}, total |-> 0, pending |-> {q \in SentBy(b) : ~ Answered(q)}]
<1>1. req' = [req EXCEPT ![r] = s]
  BY DEF Send
<1>2. s = [pc |-> s.pc, by |-> s.by, nonce |-> s.nonce, cart |-> s.cart, fill |-> s.fill,
           left |-> s.left, total |-> s.total, pending |-> s.pending] /\ s.pc = "sent"
  OBVIOUS
<1> HIDE DEF s
<1>3. /\ DOMAIN req' = Requests /\ req'[r] = s
      /\ \A q \in Requests \ {r} : req'[q] = req[q]
  BY <1>1 DEF IInv
<1>4. \A q \in Requests : ReqOK(q)'
  BY <1>2, <1>3 DEF IInv, ReqOK
<1>5. \A c \in charges : c.req \in Requests \ {r}
  BY DEF IInv, ChargeOK, NotCharged, Unsent
<1>6. \A c \in charges : ChargeOK(c)'
  BY <1>3, <1>5 DEF IInv, ChargeOK, NotCharged
<1>7. \A q \in Requests : WillStore(q)'
  BY <1>2, <1>3 DEF IInv, WillStore
<1>8. ChargesMatchOrders'
  BY <1>3, <1>5 DEF IInv, ChargesMatchOrders
<1> QED BY <1>3, <1>4, <1>6, <1>7, <1>8 DEF IInv

\* A request that prices its cart: only its place, its total and the items that
\* are left change.
LEMMA PricingFacts ==
  ASSUME IInv, NEW r \in Requests, NEW total, NEW left, req[r].pc # "unsent",
         Pricing(r, total, left)
  PROVE  /\ DOMAIN req' = Requests
         /\ req'[r] = [pc |-> req'[r].pc, by |-> req[r].by, nonce |-> req[r].nonce,
                       cart |-> req[r].cart, fill |-> req[r].fill,
                       left |-> left, total |-> total, pending |-> req[r].pending]
         /\ req'[r].pc \in {"price", "sale"}
         /\ \A q \in Requests \ {r} : req'[q] = req[q]
         /\ \A q \in Requests : ReqOK(q)'
<1> DEFINE pc == IF left = {} THEN "sale" ELSE "price"
           new == [[[req[r] EXCEPT !.pc = pc] EXCEPT !.total = total] EXCEPT !.left = left]
<1>1. req' = [req EXCEPT ![r] = new]
  BY DEF Pricing
<1>2. req[r] = [pc |-> req[r].pc, by |-> req[r].by, nonce |-> req[r].nonce,
               cart |-> req[r].cart, fill |-> req[r].fill,
               left |-> req[r].left, total |-> req[r].total, pending |-> req[r].pending]
  BY DEF IInv, ReqOK, Unsent
<1>3. pc \in {"price", "sale"}
  OBVIOUS
<1> HIDE DEF pc
<1>4. new = [pc |-> pc, by |-> req[r].by, nonce |-> req[r].nonce,
             cart |-> req[r].cart, fill |-> req[r].fill,
             left |-> left, total |-> total, pending |-> req[r].pending]
  <2> DEFINE moved == [req[r] EXCEPT !.pc = pc]
             added == [moved EXCEPT !.total = total]
  <2>1. moved = [pc |-> pc, by |-> req[r].by, nonce |-> req[r].nonce,
                 cart |-> req[r].cart, fill |-> req[r].fill,
                 left |-> req[r].left, total |-> req[r].total, pending |-> req[r].pending]
    BY <1>2
  <2> HIDE DEF moved
  <2>2. added = [pc |-> pc, by |-> req[r].by, nonce |-> req[r].nonce,
                 cart |-> req[r].cart, fill |-> req[r].fill,
                 left |-> req[r].left, total |-> total, pending |-> req[r].pending]
    BY <2>1
  <2>3. new = [added EXCEPT !.left = left]
    BY DEF moved
  <2> HIDE DEF added, new
  <2> QED BY <2>2, <2>3
<1> HIDE DEF new
<1>5. /\ DOMAIN req' = Requests /\ req'[r] = new
      /\ \A q \in Requests \ {r} : req'[q] = req[q]
  BY <1>1 DEF IInv
<1>6. req'[r].pc = pc
  BY <1>4, <1>5
<1>7. \A q \in Requests : ReqOK(q)'
  BY <1>4, <1>5 DEF IInv, ReqOK
<1> QED BY <1>3, <1>4, <1>5, <1>6, <1>7

\* The cart is priced before anything is charged.
LEMMA PricingInv ==
  ASSUME IInv, NEW r \in Requests, NEW total, NEW left, req[r].pc \in {"sent", "price"},
         Pricing(r, total, left), UNCHANGED <<charges, orders, hit>>
  PROVE  IInv'
<1>1. /\ DOMAIN req' = Requests /\ req'[r].pc \in {"price", "sale"}
      /\ \A q \in Requests \ {r} : req'[q] = req[q]
      /\ \A q \in Requests : ReqOK(q)'
  BY PricingFacts
<1>2. \A c \in charges : c.req \in Requests \ {r}
  BY DEF IInv, ChargeOK, NotCharged
<1>3. \A c \in charges : ChargeOK(c)'
  BY <1>1, <1>2 DEF IInv, ChargeOK, NotCharged
<1>4. \A q \in Requests : WillStore(q)'
  BY <1>1 DEF IInv, WillStore
<1>5. ChargesMatchOrders'
  BY <1>1, <1>2 DEF IInv, ChargesMatchOrders
<1> QED BY <1>1, <1>3, <1>4, <1>5 DEF IInv

LEMMA BeginInv ==
  ASSUME IInv, NEW r \in Requests, Begin(r)
  PROVE  IInv'
<1>1. req[r].pc = "sent" /\ UNCHANGED <<charges, orders, hit>>
  BY DEF Begin, At
<1>2. CASE req[r].cart = {}
  <2>1. GoTo(r, "declined")
    BY <1>2 DEF Begin
  <2> QED BY <1>1, <2>1, MoveInv DEF Moves, NotCharged
<1>3. CASE req[r].cart # {}
  <2>1. Pricing(r, Fee, req[r].cart)
    BY <1>3 DEF Begin
  <2> QED BY <1>1, <2>1, PricingInv
<1> QED BY <1>2, <1>3

\* One more item has a price, or is passed over.
LEMMA PricedFacts ==
  ASSUME NEW r, PriceItem(r) \/ PriceLost(r)
  PROVE  /\ req[r].pc = "price"
         /\ UNCHANGED <<price, cart, fill, form, used, charges, orders, customers, hit, edits>>
         /\ \E i \in req[r].left : \E total \in {req[r].total, req[r].total + price[i]} :
              Pricing(r, total, req[r].left \ {i})
BY DEF PriceItem, PriceLost, At

LEMMA PricedInv ==
  ASSUME IInv, NEW r \in Requests, PriceItem(r) \/ PriceLost(r)
  PROVE  IInv'
<1>1. PICK i \in req[r].left : \E total \in {req[r].total, req[r].total + price[i]} :
        Pricing(r, total, req[r].left \ {i})
  BY PricedFacts
<1>2. PICK total : Pricing(r, total, req[r].left \ {i})
  BY <1>1
<1>3. req[r].pc \in {"sent", "price"} /\ UNCHANGED <<charges, orders, hit>>
  BY PricedFacts
<1> QED BY <1>2, <1>3, PricingInv

\* The gateway charges the total, once; then the request stores the order or a
\* fault has hit it.
LEMMA ChargeInv ==
  ASSUME IInv, NEW r \in Requests, NEW pc, At(r, "sale"), Charge(r), GoTo(r, pc),
         UNCHANGED orders, hit \subseteq hit',
         pc = "lookup" \/ (pc = "dead" /\ r \in hit')
  PROVE  IInv'
<1> DEFINE new == [req |-> r, amount |-> req[r].total]
<1>1. charges' = charges \cup {new}
  BY DEF Charge
<1>2. new.req = r /\ new.amount = req[r].total
  OBVIOUS
<1>3. /\ DOMAIN req' = Requests
      /\ \A q \in Requests : ReqOK(q)'
      /\ req'[r].pc = pc /\ req'[r].total = req[r].total
      /\ \A q \in Requests \ {r} : req'[q] = req[q]
  BY GoToFacts DEF At
<1>4. \A c \in charges : c.req \in Requests \ {r}
  BY DEF IInv, ChargeOK, NotCharged, At
<1>5. \A c \in charges : ChargeOK(c)'
  BY <1>3, <1>4 DEF IInv, ChargeOK, NotCharged
<1>6. \A c \in charges' : ChargeOK(c)'
  BY <1>1, <1>2, <1>3, <1>5 DEF ChargeOK, NotCharged
<1>7. \A q \in Requests : WillStore(q)'
  BY <1>1, <1>3 DEF IInv, WillStore
<1> HIDE DEF new
<1>8. ChargesMatchOrders'
  BY <1>1, <1>2, <1>3, <1>4 DEF IInv, ChargesMatchOrders
<1> QED BY <1>3, <1>6, <1>7, <1>8 DEF IInv

LEMMA InsertOrderInv ==
  ASSUME IInv, NEW r \in Requests, InsertOrder(r)
  PROVE  IInv'
<1> DEFINE new == [req |-> r, amount |-> req[r].total]
<1>1. orders' = orders \cup {new} /\ UNCHANGED <<charges, hit>> /\ At(r, "order")
  BY DEF InsertOrder
<1>2. new \in charges
  BY <1>1 DEF IInv, WillStore, At
<1>3. /\ DOMAIN req' = Requests
      /\ \A q \in Requests : ReqOK(q)'
      /\ req'[r].pc = "reply" /\ req'[r].total = req[r].total
      /\ \A q \in Requests \ {r} : req'[q] = req[q]
  BY <1>1, GoToFacts DEF InsertOrder, At
<1>4. \A c \in charges : c.req = r => c = new
  BY DEF IInv, ChargeOK
<1>5. \A c \in charges : ChargeOK(c)'
  BY <1>1, <1>3 DEF IInv, ChargeOK, NotCharged
<1>6. \A q \in Requests : WillStore(q)'
  BY <1>1, <1>3 DEF IInv, WillStore
<1> HIDE DEF new
<1>7. ChargesMatchOrders'
  <2>1. \A c \in charges \ orders' : c.req \in Requests \ {r}
    BY <1>1, <1>4 DEF IInv, ChargeOK
  <2> QED BY <1>1, <1>2, <1>3, <2>1 DEF IInv, ChargesMatchOrders
<1> QED BY <1>1, <1>3, <1>5, <1>6, <1>7 DEF IInv

-----------------------------------------------------------------------------

LEMMA StatementInv ==
  ASSUME IInv, NEW r \in Requests, Statement(r)
  PROVE  IInv'
<1>1. CASE Begin(r)
  BY <1>1, BeginInv
<1>9. CASE PriceItem(r)
  BY <1>9, PricedInv
<1>2. CASE Sale(r)
  BY <1>2, ChargeInv DEF Sale
<1>3. CASE Decline(r)
  BY <1>3, MoveInv DEF Decline, At, Moves, NotCharged
<1>4. CASE LookupCustomer(r)
  <2>1. PICK pc \in {"customer", "order"} : GoTo(r, pc)
    BY <1>4 DEF LookupCustomer
  <2> QED BY <1>4, <2>1, MoveInv DEF LookupCustomer, At, Moves, NotCharged
<1>5. CASE InsertCustomer(r)
  BY <1>5, MoveInv DEF InsertCustomer, At, Moves, NotCharged
<1>6. CASE InsertOrder(r)
  BY <1>6, InsertOrderInv
<1>7. CASE Reply(r)
  BY <1>7, MoveInv DEF Reply, At, Moves, NotCharged
<1>8. CASE ReplyUnseen(r)
  BY <1>8, MoveInv DEF ReplyUnseen, At, Moves, NotCharged
<1> QED BY <1>1, <1>2, <1>3, <1>4, <1>5, <1>6, <1>7, <1>8, <1>9 DEF Statement

LEMMA FaultInv ==
  ASSUME IInv, NEW r \in Requests, Fault(r)
  PROVE  IInv'
<1>1. CASE SaleLost(r)
  BY <1>1, ChargeInv DEF SaleLost
<1>2. CASE StatementFails(r)
  <2>1. CASE At(r, "lookup") /\ GoTo(r, "customer")
    BY <1>2, <2>1, MoveInv DEF StatementFails, At, Moves, NotCharged
  <2>2. CASE At(r, "customer") /\ GoTo(r, "order")
    BY <1>2, <2>2, MoveInv DEF StatementFails, At, Moves, NotCharged
  <2>3. CASE At(r, "order") /\ GoTo(r, "reply")
    BY <1>2, <2>3, MoveInv DEF StatementFails, At, Moves, NotCharged
  <2> QED BY <1>2, <2>1, <2>2, <2>3 DEF StatementFails
<1>3. CASE Crash(r)
  BY <1>3, MoveInv DEF Crash, InProgress, Moves, NotCharged
<1>4. CASE PriceLost(r)
  BY <1>4, PricedInv
<1> QED BY <1>1, <1>2, <1>3, <1>4 DEF Fault

\* The steps of browsers and shop that send no request.
LEMMA OtherInv ==
  ASSUME IInv, UNCHANGED <<req, charges, orders, hit>>
  PROVE  IInv'
BY DEF IInv, ReqOK, ChargeOK, NotCharged, WillStore, ChargesMatchOrders

LEMMA NextInv == IInv /\ [Next]_vars => IInv'
<1> SUFFICES ASSUME IInv, [Next]_vars PROVE IInv'
  OBVIOUS
<1>1. ASSUME NEW b \in Browsers, NEW i \in Items, AddItem(b, i) PROVE IInv'
  BY <1>1, OtherInv DEF AddItem
<1>2. ASSUME NEW b \in Browsers, OpenForm(b) PROVE IInv'
  BY <1>2, OtherInv DEF OpenForm
<1>3. ASSUME NEW b \in Browsers, NEW r \in Requests, Pay(r, b) PROVE IInv'
  BY <1>3, SendInv DEF Pay
<1>4. ASSUME NEW b \in Browsers, NEW r \in Requests, NEW q \in Requests, Reload(r, b, q)
      PROVE  IInv'
  BY <1>4, SendInv DEF Reload
<1>5. ASSUME NEW r \in Requests, Statement(r) \/ Fault(r) PROVE IInv'
  BY <1>5, StatementInv, FaultInv
<1>6. ASSUME NEW i \in Items, NEW p \in Prices \cup {0}, EditPrice(i, p) PROVE IInv'
  BY <1>6, OtherInv DEF EditPrice
<1>7. CASE UNCHANGED vars
  BY <1>7, OtherInv DEF vars
<1> QED BY <1>1, <1>2, <1>3, <1>4, <1>5, <1>6, <1>7 DEF Next

\* Whatever the gateway charged is in the table of orders with that amount,
\* unless a fault hit the request or it is about to store it, and nothing else
\* is in that table (checkout_final.php:14, 49).
THEOREM ChargesAndOrdersMatch == Spec => []ChargesMatchOrders
<1>1. IInv => ChargesMatchOrders
  BY DEF IInv
<1> QED BY InitInv, NextInv, <1>1, PTL DEF Spec

-----------------------------------------------------------------------------
(* A cart is charged once                                                  *)

\* What a request and its browser know of each other.
SenderOK(r) ==
  req[r].pc # "unsent" =>
    /\ req[r].by \in Browsers
    /\ req[r].fill \in Nat /\ req[r].fill <= fill[req[r].by]
    /\ req[r].pc = "placed" => cart[req[r].by] = {} \/ req[r].fill < fill[req[r].by]
    /\ req[r].pc \notin {"sent", "declined"} => req[r].cart # {}

\* Two requests for one cart that may both be charged: one was sent while the
\* other was unanswered.
MayBeCharged(r) == req[r].pc \notin {"unsent", "declined"} /\ req[r].cart # {}
SameCart(r, q) == req[r].by = req[q].by /\ req[r].fill = req[q].fill
Overlap(r, q) ==
  r # q /\ MayBeCharged(r) /\ MayBeCharged(q) /\ SameCart(r, q)
    => r \in req[q].pending \/ q \in req[r].pending

\* A nonce is used by one charge.
NonceOK(c) ==
  /\ req[c.req].nonce \in used
  /\ \A d \in charges : req[d.req].nonce = req[c.req].nonce => d = c

OnceInv ==
  /\ cart \in [Browsers -> SUBSET Items] /\ fill \in [Browsers -> Nat]
  /\ \A r \in Requests : SenderOK(r)
  /\ \A r, q \in Requests : Overlap(r, q)
  /\ \A c \in charges : NonceOK(c)

LEMMA OnceInit == Init => OnceInv
BY DEF Init, OnceInv, SenderOK, Overlap, MayBeCharged, NonceOK, Unsent

LEMMA OnceEnough == IInv /\ OnceInv => ChargedOnce
<1> SUFFICES ASSUME IInv, OnceInv, NEW c \in charges, NEW d \in charges, c # d,
                    req[c.req].by = req[d.req].by, req[c.req].fill = req[d.req].fill
             PROVE  /\ req[c.req].nonce # req[d.req].nonce
                    /\ c.req \in req[d.req].pending \/ d.req \in req[c.req].pending
  BY DEF ChargedOnce
<1>1. req[c.req].nonce # req[d.req].nonce
  BY DEF OnceInv, NonceOK
<1>2. c.req \in Requests /\ d.req \in Requests /\ ~ NotCharged(c.req) /\ ~ NotCharged(d.req)
  BY DEF IInv, ChargeOK
<1>3. MayBeCharged(c.req) /\ MayBeCharged(d.req)
  BY <1>2 DEF OnceInv, SenderOK, MayBeCharged, NotCharged
<1>4. c.req # d.req
  BY <1>1
<1> QED BY <1>1, <1>2, <1>3, <1>4 DEF OnceInv, Overlap, SameCart

\* What a request was sent with stays, and the other requests stay as they are.
Runs(r) ==
  /\ \A q \in Requests \ {r} : req'[q] = req[q]
  /\ req'[r].by = req[r].by /\ req'[r].nonce = req[r].nonce /\ req'[r].cart = req[r].cart
  /\ req'[r].fill = req[r].fill /\ req'[r].pending = req[r].pending

LEMMA GoToRuns ==
  ASSUME IInv, NEW r \in Requests, NEW pc, GoTo(r, pc), req[r].pc # "unsent"
  PROVE  Runs(r) /\ req'[r].pc = pc
<1>1. req' = [req EXCEPT ![r] = [req[r] EXCEPT !.pc = pc]]
  BY DEF GoTo
<1>2. req'[r] = [req[r] EXCEPT !.pc = pc] /\ \A q \in Requests \ {r} : req'[q] = req[q]
  BY <1>1 DEF IInv
<1>3. req[r] = [pc |-> req[r].pc, by |-> req[r].by, nonce |-> req[r].nonce,
               cart |-> req[r].cart, fill |-> req[r].fill,
               left |-> req[r].left, total |-> req[r].total, pending |-> req[r].pending]
  BY DEF IInv, ReqOK, Unsent
<1>4. req'[r] = [pc |-> pc, by |-> req[r].by, nonce |-> req[r].nonce,
               cart |-> req[r].cart, fill |-> req[r].fill,
               left |-> req[r].left, total |-> req[r].total, pending |-> req[r].pending]
  BY <1>2, <1>3
<1> QED BY <1>2, <1>4 DEF Runs

\* A request that runs on is still open, does not become unsent, and is charged
\* only with something in its cart.
Advances(r) ==
  /\ Runs(r)
  /\ req[r].pc \in {"sent", "price", "sale", "lookup", "customer", "order", "reply"}
  /\ req'[r].pc # "unsent"
  /\ req'[r].pc \in {"sent", "declined"} \/ req[r].cart # {}

LEMMA PricingAdvances ==
  ASSUME IInv, NEW r \in Requests, NEW total, NEW left, req[r].pc \in {"sent", "price"},
         req[r].cart # {}, Pricing(r, total, left)
  PROVE  Advances(r) /\ req'[r].pc \in {"price", "sale"}
<1>1. /\ req'[r].pc \in {"price", "sale"}
      /\ req'[r] = [pc |-> req'[r].pc, by |-> req[r].by, nonce |-> req[r].nonce,
                    cart |-> req[r].cart, fill |-> req[r].fill,
                    left |-> left, total |-> total, pending |-> req[r].pending]
      /\ \A q \in Requests \ {r} : req'[q] = req[q]
  BY PricingFacts
<1>2. Runs(r)
  BY <1>1 DEF Runs
<1> QED BY <1>1, <1>2 DEF Advances

LEMMA BeginAdvances ==
  ASSUME IInv, NEW r \in Requests, Begin(r)
  PROVE  Advances(r) /\ req'[r].pc \in {"declined", "price", "sale"}
<1>1. req[r].pc = "sent"
  BY DEF Begin, At
<1>2. CASE req[r].cart = {}
  BY <1>1, <1>2, GoToRuns DEF Begin, Advances
<1>3. CASE req[r].cart # {}
  BY <1>1, <1>3, PricingAdvances DEF Begin
<1> QED BY <1>2, <1>3

LEMMA PricedAdvances ==
  ASSUME IInv, OnceInv, NEW r \in Requests, PriceItem(r) \/ PriceLost(r)
  PROVE  Advances(r) /\ req'[r].pc \in {"price", "sale"}
<1>1. req[r].pc = "price" /\ req[r].cart # {}
  BY PricedFacts DEF OnceInv, SenderOK
<1>2. PICK i \in req[r].left : \E total \in {req[r].total, req[r].total + price[i]} :
        Pricing(r, total, req[r].left \ {i})
  BY PricedFacts
<1>3. PICK total : Pricing(r, total, req[r].left \ {i})
  BY <1>2
<1> QED BY <1>1, <1>3, PricingAdvances

LEMMA LaterAdvances ==
  ASSUME IInv, OnceInv, NEW r \in Requests, NEW pc, GoTo(r, pc), pc \notin {"unsent", "sent"},
         req[r].pc \in {"price", "sale", "lookup", "customer", "order", "reply"}
  PROVE  Advances(r) /\ req'[r].pc = pc
<1>1. Runs(r) /\ req'[r].pc = pc
  BY GoToRuns
<1>2. req[r].cart # {}
  BY DEF OnceInv, SenderOK
<1> QED BY <1>1, <1>2 DEF Advances

\* Where two requests stand to each other does not change when one runs on.
LEMMA OverlapKept ==
  ASSUME OnceInv, NEW r \in Requests, Advances(r)
  PROVE  \A p, q \in Requests : Overlap(p, q)'
<1> SUFFICES ASSUME NEW p \in Requests, NEW q \in Requests, p # q,
                    MayBeCharged(p)', MayBeCharged(q)', SameCart(p, q)'
             PROVE  p \in req'[q].pending \/ q \in req'[p].pending
  BY DEF Overlap
<1>1. MayBeCharged(p) /\ MayBeCharged(q) /\ SameCart(p, q)
  BY DEF Advances, Runs, MayBeCharged, SameCart
<1>2. p \in req[q].pending \/ q \in req[p].pending
  BY <1>1 DEF OnceInv, Overlap
<1> QED BY <1>2 DEF Advances, Runs

\* A request that runs on and charges nothing.
LEMMA AdvanceInv ==
  ASSUME IInv, OnceInv, NEW r \in Requests, Advances(r), UNCHANGED <<charges, used, fill>>,
         \/ UNCHANGED cart /\ req'[r].pc # "placed"
         \/ cart' = [cart EXCEPT ![req[r].by] = {}]
  PROVE  OnceInv'
<1>1. req[r].by \in Browsers
  BY DEF OnceInv, SenderOK, Advances
<1>2. cart' \in [Browsers -> SUBSET Items] /\ fill' \in [Browsers -> Nat]
  BY <1>1 DEF OnceInv
<1>3. \A b \in Browsers : cart[b] = {} => cart'[b] = {}
  BY <1>1 DEF OnceInv
<1>4. req'[r].pc = "placed" => cart'[req[r].by] = {}
  BY <1>1 DEF OnceInv
<1>5. ASSUME NEW q \in Requests PROVE SenderOK(q)'
  <2>1. CASE q = r
    BY <1>1, <1>4, <2>1 DEF OnceInv, SenderOK, Advances, Runs
  <2>2. CASE q # r
    BY <1>3, <2>2 DEF OnceInv, SenderOK, Advances, Runs
  <2> QED BY <2>1, <2>2
<1>6. \A c \in charges : NonceOK(c)'
  <2>1. \A c \in charges : c.req \in Requests /\ req'[c.req].nonce = req[c.req].nonce
    BY DEF IInv, ChargeOK, Advances, Runs
  <2> QED BY <2>1 DEF OnceInv, NonceOK
<1> QED BY <1>2, <1>5, <1>6, OverlapKept DEF OnceInv

\* The gateway charges a nonce that it has not charged before.
LEMMA OnceCharge ==
  ASSUME IInv, OnceInv, NEW r \in Requests, Advances(r), Charge(r), UNCHANGED <<cart, fill>>,
         req'[r].pc # "placed"
  PROVE  OnceInv'
<1> DEFINE new == [req |-> r, amount |-> req[r].total]
<1>1. charges' = charges \cup {new} /\ used' = used \cup {req[r].nonce} /\ req[r].nonce \notin used
  BY DEF Charge
<1>2. new.req = r
  OBVIOUS
<1> HIDE DEF new
<1>3. \A q \in Requests : req'[q].nonce = req[q].nonce
  BY DEF Advances, Runs
<1>4. \A c \in charges : c.req \in Requests /\ req[c.req].nonce \in used
  BY DEF IInv, ChargeOK, OnceInv, NonceOK
<1>5. \A c \in charges' : NonceOK(c)'
  <2> SUFFICES ASSUME NEW c \in charges \cup {new}
               PROVE  /\ req'[c.req].nonce \in used'
                      /\ \A d \in charges \cup {new} : req'[d.req].nonce = req'[c.req].nonce => d = c
    BY <1>1 DEF NonceOK
  <2>1. c.req \in Requests /\ \A d \in charges \cup {new} : d.req \in Requests
    BY <1>2, <1>4
  <2>2. CASE c = new
    BY <1>1, <1>2, <1>3, <1>4, <2>1, <2>2
  <2>3. CASE c \in charges
    BY <1>1, <1>2, <1>3, <1>4, <2>1, <2>3 DEF OnceInv, NonceOK
  <2> QED BY <2>2, <2>3
<1>6. \A q \in Requests : SenderOK(q)'
  BY DEF OnceInv, SenderOK, Advances, Runs
<1>7. cart' \in [Browsers -> SUBSET Items] /\ fill' \in [Browsers -> Nat]
  BY DEF OnceInv
<1> QED BY <1>5, <1>6, <1>7, OverlapKept DEF OnceInv

\* A request is sent with the cart of now, and knows the unanswered ones.
LEMMA OnceSend ==
  ASSUME IInv, OnceInv, NEW r \in Requests, NEW b \in Browsers, NEW n, req[r] = Unsent,
         Send(r, b, n), UNCHANGED <<charges, used, cart, fill>>
  PROVE  OnceInv'
<1> DEFINE s == [pc |-> "sent", by |-> b, nonce |-> n, cart |-> cart[b], fill |-> fill[b],
                 left |-> {}, total |-> 0, pending |-> {q \in SentBy(b) : ~ Answered(q)}]
<1>1. req' = [req EXCEPT ![r] = s]
  BY DEF Send
<1>2. /\ s.pc = "sent" /\ s.by = b /\ s.cart = cart[b] /\ s.fill = fill[b]
      /\ s.pending = {q \in SentBy(b) : ~ Answered(q)}
  OBVIOUS
<1> HIDE DEF s
<1>3. req'[r] = s /\ \A q \in Requests \ {r} : req'[q] = req[q]
  BY <1>1 DEF IInv
<1>4. \A q \in Requests : SenderOK(q)'
  <2> TAKE q \in Requests
  <2>1. CASE q = r
    BY <1>2, <1>3, <2>1 DEF OnceInv, SenderOK
  <2>2. CASE q # r
    BY <1>3, <2>2 DEF OnceInv, SenderOK
  <2> QED BY <2>1, <2>2
<1>5. ASSUME NEW q \in Requests \ {r}, MayBeCharged(q)', MayBeCharged(r)', SameCart(q, r)'
      PROVE  q \in req'[r].pending
  <2>1. /\ req[q].pc \notin {"unsent", "declined"} /\ req[q].by = b /\ req[q].fill = fill[b]
        /\ cart[b] # {}
    BY <1>2, <1>3, <1>5 DEF MayBeCharged, SameCart
  <2>2. req[q].pc # "placed"
    BY <2>1 DEF OnceInv, SenderOK
  <2>3. q \in SentBy(b) /\ ~ Answered(q)
    BY <2>1, <2>2 DEF SentBy, Answered
  <2> QED BY <1>2, <1>3, <2>3
<1>6. \A p, q \in Requests : Overlap(p, q)'
  <2> TAKE p, q \in Requests
  <2>1. CASE p # r /\ q # r
    BY <1>3, <2>1 DEF OnceInv, Overlap, MayBeCharged, SameCart
  <2>2. CASE p = r /\ q # r
    <3>1. SameCart(r, q)' => SameCart(q, r)'
      BY DEF SameCart
    <3> QED BY <1>5, <2>2, <3>1 DEF Overlap
  <2>3. CASE q = r /\ p # r
    BY <1>5, <2>3 DEF Overlap
  <2>4. CASE q = r /\ p = r
    BY <2>4 DEF Overlap
  <2> QED BY <2>1, <2>2, <2>3, <2>4
<1>7. \A c \in charges : NonceOK(c)'
  <2>1. \A c \in charges : c.req \in Requests \ {r}
    BY DEF IInv, ChargeOK, NotCharged, Unsent
  <2> QED BY <1>3, <2>1 DEF OnceInv, NonceOK
<1> QED BY <1>4, <1>6, <1>7 DEF OnceInv

LEMMA OnceAddItem ==
  ASSUME IInv, OnceInv, NEW b \in Browsers, NEW i \in Items, AddItem(b, i)
  PROVE  OnceInv'
<1>1. /\ cart' = [cart EXCEPT ![b] = cart[b] \cup {i}]
      /\ fill' = [fill EXCEPT ![b] = IF cart[b] = {} THEN fill[b] + 1 ELSE fill[b]]
      /\ UNCHANGED <<req, charges, used>>
  BY DEF AddItem
<1>2. cart' \in [Browsers -> SUBSET Items] /\ fill' \in [Browsers -> Nat]
  BY <1>1 DEF OnceInv
<1>3. \A a \in Browsers : /\ fill[a] <= fill'[a]
                          /\ cart[a] = {} => cart'[a] = {} \/ fill[a] < fill'[a]
  BY <1>1 DEF OnceInv
<1>4. \A r \in Requests : SenderOK(r)'
  <2> TAKE r \in Requests
  <2>1. SenderOK(r) /\ fill \in [Browsers -> Nat]
    BY DEF OnceInv
  <2> QED BY <1>1, <1>2, <1>3, <2>1 DEF SenderOK
<1>5. \A r, q \in Requests : Overlap(r, q)'
  BY <1>1 DEF OnceInv, Overlap, MayBeCharged, SameCart
<1>6. \A c \in charges : NonceOK(c)'
  BY <1>1 DEF OnceInv, NonceOK
<1> QED BY <1>1, <1>2, <1>4, <1>5, <1>6 DEF OnceInv

LEMMA OnceOther ==
  ASSUME OnceInv, UNCHANGED <<req, charges, used, cart, fill>>
  PROVE  OnceInv'
BY DEF OnceInv, SenderOK, Overlap, MayBeCharged, SameCart, NonceOK

LEMMA OnceStatement ==
  ASSUME IInv, OnceInv, NEW r \in Requests, Statement(r)
  PROVE  OnceInv'
<1>1. CASE Begin(r)
  BY <1>1, BeginAdvances, AdvanceInv DEF Begin
<1>9. CASE PriceItem(r)
  BY <1>9, PricedFacts, PricedAdvances, AdvanceInv
<1>2. CASE Sale(r)
  BY <1>2, LaterAdvances, OnceCharge DEF Sale, At
<1>3. CASE Decline(r)
  BY <1>3, LaterAdvances, AdvanceInv DEF Decline, At
<1>4. CASE LookupCustomer(r)
  <2>1. PICK pc \in {"customer", "order"} : GoTo(r, pc)
    BY <1>4 DEF LookupCustomer
  <2> QED BY <1>4, <2>1, LaterAdvances, AdvanceInv DEF LookupCustomer, At
<1>5. CASE InsertCustomer(r)
  BY <1>5, LaterAdvances, AdvanceInv DEF InsertCustomer, At
<1>6. CASE InsertOrder(r)
  BY <1>6, LaterAdvances, AdvanceInv DEF InsertOrder, At
<1>7. CASE Reply(r)
  BY <1>7, LaterAdvances, AdvanceInv DEF Reply, At
<1>8. CASE ReplyUnseen(r)
  BY <1>8, LaterAdvances, AdvanceInv DEF ReplyUnseen, At
<1> QED BY <1>1, <1>2, <1>3, <1>4, <1>5, <1>6, <1>7, <1>8, <1>9 DEF Statement

LEMMA OnceFault ==
  ASSUME IInv, OnceInv, NEW r \in Requests, Fault(r)
  PROVE  OnceInv'
<1>1. CASE SaleLost(r)
  BY <1>1, LaterAdvances, OnceCharge DEF SaleLost, At
<1>2. CASE StatementFails(r)
  <2>1. PICK pc \in {"customer", "order", "reply"} : GoTo(r, pc)
    BY <1>2 DEF StatementFails
  <2>2. req[r].pc \in {"lookup", "customer", "order"}
    BY <1>2 DEF StatementFails, At
  <2> QED BY <1>2, <2>1, <2>2, LaterAdvances, AdvanceInv DEF StatementFails
<1>3. CASE Crash(r)
  BY <1>3, LaterAdvances, AdvanceInv DEF Crash, InProgress
<1>4. CASE PriceLost(r)
  BY <1>4, PricedFacts, PricedAdvances, AdvanceInv
<1> QED BY <1>1, <1>2, <1>3, <1>4 DEF Fault

LEMMA OnceNext == IInv /\ OnceInv /\ [Next]_vars => OnceInv'
<1> SUFFICES ASSUME IInv, OnceInv, [Next]_vars PROVE OnceInv'
  OBVIOUS
<1>1. ASSUME NEW b \in Browsers, NEW i \in Items, AddItem(b, i) PROVE OnceInv'
  BY <1>1, OnceAddItem
<1>2. ASSUME NEW b \in Browsers, OpenForm(b) PROVE OnceInv'
  BY <1>2, OnceOther DEF OpenForm
<1>3. ASSUME NEW b \in Browsers, NEW r \in Requests, Pay(r, b) PROVE OnceInv'
  BY <1>3, OnceSend DEF Pay
<1>4. ASSUME NEW b \in Browsers, NEW r \in Requests, NEW q \in Requests, Reload(r, b, q)
      PROVE  OnceInv'
  BY <1>4, OnceSend DEF Reload
<1>5. ASSUME NEW r \in Requests, Statement(r) \/ Fault(r) PROVE OnceInv'
  BY <1>5, OnceStatement, OnceFault
<1>6. ASSUME NEW i \in Items, NEW p \in Prices \cup {0}, EditPrice(i, p) PROVE OnceInv'
  BY <1>6, OnceOther DEF EditPrice
<1>7. CASE UNCHANGED vars
  BY <1>7, OnceOther DEF vars
<1> QED BY <1>1, <1>2, <1>3, <1>4, <1>5, <1>6, <1>7 DEF Next

\* Two charges for one cart come only from payments of which one was sent before
\* the other was answered, and with different nonces (checkout_final.php:14, the
\* success callback of elements/checkout_final.php:42).
THEOREM CartIsChargedOnce == Spec => []ChargedOnce
BY InitInv, NextInv, OnceInit, OnceNext, OnceEnough, PTL DEF Spec

-----------------------------------------------------------------------------
(* One customer row for the requests of a browser                          *)

\* A request that will insert a customer has seen none of its browser's, and
\* none can have come since, because the session's lock is held.
WillInsert(r) ==
  req[r].pc = "customer" /\ r \notin hit
    => \A q \in customers \ hit : req[q].by # req[r].by

LockInv ==
  /\ \A r, q \in Requests : InProgress(r) /\ InProgress(q) /\ req[r].by = req[q].by => r = q
  /\ \A r \in customers :
       r \in Requests /\ req[r].pc \in {"order", "reply", "placed", "unseen", "dead"}
  /\ \A r \in Requests : WillInsert(r)
  /\ OneCustomerPerBrowser

LEMMA LockInit == Init => LockInv
BY DEF Init, LockInv, InProgress, WillInsert, OneCustomerPerBrowser, Unsent

\* A request that was waiting begins, or one that holds the lock moves on or
\* ends; either way no row is inserted.
LEMMA LockAdvance ==
  ASSUME LockInv, NEW r \in Requests, Advances(r), UNCHANGED customers, hit \subseteq hit',
         InProgress(r) \/ SessionFree(r),
         r \in customers => req'[r].pc \in {"order", "reply", "placed", "unseen", "dead"},
         req'[r].pc = "customer" => r \in hit' \/ customers = {}
  PROVE  LockInv'
<1>1. /\ \A q \in Requests : req'[q].by = req[q].by
      /\ \A q \in Requests \ {r} : req'[q] = req[q]
  BY DEF Advances, Runs
<1>2. ASSUME NEW p \in Requests, NEW q \in Requests, InProgress(p)', InProgress(q)',
             req'[p].by = req'[q].by
      PROVE  p = q
  <2>1. \A o \in Requests \ {r} : InProgress(o)' => InProgress(o)
    BY <1>1 DEF InProgress
  <2>2. \A o \in Requests \ {r} : InProgress(o) /\ req[o].by = req[r].by => InProgress(r)
    BY DEF SessionFree, SentBy, InProgress
  <2> QED BY <1>1, <1>2, <2>1, <2>2 DEF LockInv
<1>3. \A q \in customers' :
        q \in Requests /\ req'[q].pc \in {"order", "reply", "placed", "unseen", "dead"}
  BY <1>1 DEF LockInv
<1>4. \A q \in Requests : WillInsert(q)'
  <2> SUFFICES ASSUME NEW q \in Requests, req'[q].pc = "customer", q \notin hit',
                      NEW p \in customers' \ hit'
               PROVE  req'[p].by # req'[q].by
    BY DEF WillInsert
  <2>1. q # r
    OBVIOUS
  <2>2. req[q].pc = "customer" /\ q \notin hit /\ p \in customers \ hit /\ p \in Requests
    BY <1>1, <2>1 DEF LockInv
  <2> QED BY <1>1, <2>2 DEF LockInv, WillInsert
<1>5. OneCustomerPerBrowser'
  BY <1>1 DEF LockInv, OneCustomerPerBrowser
<1> QED BY <1>2, <1>3, <1>4, <1>5 DEF LockInv

LEMMA LockInsert ==
  ASSUME IInv, OnceInv, LockInv, NEW r \in Requests, InsertCustomer(r)
  PROVE  LockInv'
<1>1. /\ req[r].pc = "customer" /\ customers' = customers \cup {r} /\ hit' = hit
      /\ GoTo(r, "order")
  BY DEF InsertCustomer, At
<1>2. Runs(r) /\ req'[r].pc = "order"
  BY <1>1, GoToRuns
<1>3. /\ \A q \in Requests : req'[q].by = req[q].by
      /\ \A q \in Requests \ {r} : req'[q] = req[q]
  BY <1>2 DEF Runs
<1>4. \A p, q \in Requests : InProgress(p)' /\ InProgress(q)' /\ req'[p].by = req'[q].by => p = q
  BY <1>1, <1>3 DEF LockInv, InProgress
<1>5. \A q \in customers' :
        q \in Requests /\ req'[q].pc \in {"order", "reply", "placed", "unseen", "dead"}
  BY <1>1, <1>2, <1>3 DEF LockInv
<1>6. \A q \in Requests : WillInsert(q)'
  <2> SUFFICES ASSUME NEW q \in Requests, req'[q].pc = "customer", q \notin hit,
                      NEW p \in customers' \ hit
               PROVE  req'[p].by # req'[q].by
    BY <1>1 DEF WillInsert
  <2>1. q # r /\ req[q].pc = "customer"
    BY <1>2, <1>3
  <2>2. CASE p = r
    BY <1>1, <1>3, <2>1, <2>2 DEF LockInv, InProgress
  <2>3. CASE p # r
    BY <1>1, <1>3, <2>1, <2>3 DEF LockInv, WillInsert
  <2> QED BY <2>2, <2>3
<1>7. OneCustomerPerBrowser'
  <2>1. \A q \in customers \ hit : q \in Requests
    BY DEF LockInv
  <2> QED BY <1>1, <1>3, <2>1 DEF LockInv, WillInsert, OneCustomerPerBrowser
<1> QED BY <1>4, <1>5, <1>6, <1>7 DEF LockInv

\* A new request waits.
LEMMA LockSend ==
  ASSUME IInv, LockInv, NEW r \in Requests, NEW b, NEW n, req[r] = Unsent, Send(r, b, n),
         UNCHANGED <<customers, hit>>
  PROVE  LockInv'
<1> DEFINE s == [pc |-> "sent", by |-> b, nonce |-> n, cart |-> cart[b], fill |-> fill[b],
                 left |-> {}, total |-> 0, pending |-> {q \in SentBy(b) : ~ Answered(q)}]
<1>1. req' = [req EXCEPT ![r] = s] /\ s.pc = "sent"
  BY DEF Send
<1> HIDE DEF s
<1>2. req'[r] = s /\ \A q \in Requests \ {r} : req'[q] = req[q]
  BY <1>1 DEF IInv
<1>3. \A q \in customers : q \in Requests \ {r}
  BY DEF LockInv, Unsent
<1> QED BY <1>1, <1>2, <1>3 DEF LockInv, InProgress, WillInsert, OneCustomerPerBrowser

LEMMA LockOther ==
  ASSUME LockInv, UNCHANGED <<req, customers, hit>>
  PROVE  LockInv'
BY DEF LockInv, InProgress, WillInsert, OneCustomerPerBrowser

LEMMA LockPriced ==
  ASSUME IInv, OnceInv, LockInv, NEW r \in Requests, PriceItem(r) \/ PriceLost(r)
  PROVE  LockInv'
<1>1. /\ req[r].pc = "price" /\ UNCHANGED <<customers, hit>>
      /\ Advances(r) /\ req'[r].pc \in {"price", "sale"}
  BY PricedFacts, PricedAdvances
<1>2. r \notin customers /\ InProgress(r)
  BY <1>1 DEF LockInv, InProgress
<1> QED BY <1>1, <1>2, LockAdvance

LEMMA LockStatement ==
  ASSUME IInv, OnceInv, LockInv, NEW r \in Requests, Statement(r)
  PROVE  LockInv'
<1> USE DEF At, InProgress, LockInv
<1>1. CASE Begin(r)
  BY <1>1, BeginAdvances, LockAdvance DEF Begin
<1>9. CASE PriceItem(r)
  BY <1>9, LockPriced
<1>2. CASE Sale(r)
  BY <1>2, LaterAdvances, LockAdvance DEF Sale
<1>3. CASE Decline(r)
  BY <1>3, LaterAdvances, LockAdvance DEF Decline
<1>4. CASE LookupCustomer(r)
  <2>1. CASE customers = {}
    BY <1>4, <2>1, LaterAdvances, LockAdvance DEF LookupCustomer
  <2>2. CASE customers # {}
    BY <1>4, <2>2, LaterAdvances, LockAdvance DEF LookupCustomer
  <2> QED BY <2>1, <2>2
<1>5. CASE InsertCustomer(r)
  BY <1>5, LockInsert
<1>6. CASE InsertOrder(r)
  BY <1>6, LaterAdvances, LockAdvance DEF InsertOrder
<1>7. CASE Reply(r)
  BY <1>7, LaterAdvances, LockAdvance DEF Reply
<1>8. CASE ReplyUnseen(r)
  BY <1>8, LaterAdvances, LockAdvance DEF ReplyUnseen
<1> QED BY <1>1, <1>2, <1>3, <1>4, <1>5, <1>6, <1>7, <1>8, <1>9 DEF Statement

LEMMA LockFault ==
  ASSUME IInv, OnceInv, LockInv, NEW r \in Requests, Fault(r)
  PROVE  LockInv'
<1> USE DEF At, InProgress, LockInv
<1>1. CASE SaleLost(r)
  BY <1>1, LaterAdvances, LockAdvance DEF SaleLost
<1>2. CASE StatementFails(r)
  <2>1. hit \subseteq hit' /\ r \in hit' /\ UNCHANGED customers
    BY <1>2 DEF StatementFails
  <2>2. CASE At(r, "lookup") /\ GoTo(r, "customer")
    BY <2>1, <2>2, LaterAdvances, LockAdvance
  <2>3. CASE At(r, "customer") /\ GoTo(r, "order")
    BY <2>1, <2>3, LaterAdvances, LockAdvance
  <2>4. CASE At(r, "order") /\ GoTo(r, "reply")
    BY <2>1, <2>4, LaterAdvances, LockAdvance
  <2> QED BY <1>2, <2>2, <2>3, <2>4 DEF StatementFails
<1>3. CASE Crash(r)
  BY <1>3, LaterAdvances, LockAdvance DEF Crash
<1>4. CASE PriceLost(r)
  BY <1>4, LockPriced
<1> QED BY <1>1, <1>2, <1>3, <1>4 DEF Fault

LEMMA LockNext == IInv /\ OnceInv /\ LockInv /\ [Next]_vars => LockInv'
<1> SUFFICES ASSUME IInv, OnceInv, LockInv, [Next]_vars PROVE LockInv'
  OBVIOUS
<1>1. ASSUME NEW b \in Browsers, NEW i \in Items, AddItem(b, i) PROVE LockInv'
  BY <1>1, LockOther DEF AddItem
<1>2. ASSUME NEW b \in Browsers, OpenForm(b) PROVE LockInv'
  BY <1>2, LockOther DEF OpenForm
<1>3. ASSUME NEW b \in Browsers, NEW r \in Requests, Pay(r, b) PROVE LockInv'
  BY <1>3, LockSend DEF Pay
<1>4. ASSUME NEW b \in Browsers, NEW r \in Requests, NEW q \in Requests, Reload(r, b, q)
      PROVE  LockInv'
  BY <1>4, LockSend DEF Reload
<1>5. ASSUME NEW r \in Requests, Statement(r) \/ Fault(r) PROVE LockInv'
  BY <1>5, LockStatement, LockFault
<1>6. ASSUME NEW i \in Items, NEW p \in Prices \cup {0}, EditPrice(i, p) PROVE LockInv'
  BY <1>6, LockOther DEF EditPrice
<1>7. CASE UNCHANGED vars
  BY <1>7, LockOther DEF vars
<1> QED BY <1>1, <1>2, <1>3, <1>4, <1>5, <1>6, <1>7 DEF Next

\* Two customer rows that no fault explains come from requests of two browsers
\* (checkout_final.php:30, 33; __session.php:6).
THEOREM OneCustomerEach == Spec => []OneCustomerPerBrowser
<1>1. LockInv => OneCustomerPerBrowser
  BY DEF LockInv
<1> QED BY InitInv, NextInv, OnceInit, OnceNext, LockInit, LockNext, <1>1, PTL DEF Spec

-----------------------------------------------------------------------------
(* Types                                                                   *)

\* A request that was sent.
Sent ==
  [pc : PCs, by : Browsers, nonce : Requests, cart : SUBSET Items, left : SUBSET Items,
   fill : 0..MaxFills, total : Nat, pending : SUBSET Requests]
RequestTyped(q) == q = Unsent \/ q \in Sent

Entry == [req : Requests, amount : Nat]

BrowsersTyped ==
  /\ cart \in [Browsers -> SUBSET Items]
  /\ fill \in [Browsers -> 0..MaxFills] /\ form \in [Browsers -> BOOLEAN]
RequestsTyped == DOMAIN req = Requests /\ \A r \in Requests : RequestTyped(req[r])
TablesTyped ==
  /\ price \in [Items -> Prices \cup {0}] /\ edits \in 0..MaxEdits
  /\ used \subseteq Requests /\ customers \subseteq Requests /\ hit \subseteq Requests
  /\ charges \subseteq Entry /\ orders \subseteq Entry

Typed == BrowsersTyped /\ RequestsTyped /\ TablesTyped

\* A price is a number, also that of a deleted item.
LEMMA PriceIsNat ==
  ASSUME CheckoutAssumption, TablesTyped, NEW i \in Items
  PROVE  price[i] \in Nat
<1>1. price[i] \in Prices \/ price[i] = 0
  BY DEF TablesTyped
<1>2. Prices \subseteq Nat
  BY DEF CheckoutAssumption
<1>3. CASE price[i] \in Prices
  BY <1>2, <1>3
<1>4. CASE price[i] = 0
  BY <1>4
<1> QED BY <1>1, <1>3, <1>4

\* A request that was sent moves on.
LEMMA GoToTyped ==
  ASSUME RequestsTyped, NEW r \in Requests, NEW pc \in PCs, GoTo(r, pc), req[r].pc # "unsent"
  PROVE  RequestsTyped' /\ req[r] \in Sent
<1>1. req[r] \in Sent
  BY DEF RequestsTyped, RequestTyped, Unsent
<1>2. req' = [req EXCEPT ![r] = [req[r] EXCEPT !.pc = pc]]
  BY DEF GoTo
<1>3. /\ DOMAIN req' = Requests /\ req'[r] = [req[r] EXCEPT !.pc = pc]
      /\ \A q \in Requests \ {r} : req'[q] = req[q]
  BY <1>2 DEF RequestsTyped
<1>4. [req[r] EXCEPT !.pc = pc] \in Sent
  BY <1>1 DEF Sent
<1>5. RequestTyped(req'[r])
  BY <1>1, <1>3, <1>4 DEF RequestTyped
<1> QED BY <1>1, <1>3, <1>5 DEF RequestsTyped

LEMMA SendTyped ==
  ASSUME CheckoutAssumption, BrowsersTyped, RequestsTyped,
         NEW r \in Requests, NEW b \in Browsers, NEW nonce \in Requests, Send(r, b, nonce)
  PROVE  RequestsTyped'
<1> DEFINE new == [pc |-> "sent", by |-> b, nonce |-> nonce, cart |-> cart[b], fill |-> fill[b],
                   left |-> {}, total |-> 0, pending |-> {q \in SentBy(b) : ~ Answered(q)}]
<1>1. /\ DOMAIN req' = Requests /\ req'[r] = new
      /\ \A q \in Requests \ {r} : req'[q] = req[q]
  BY DEF Send, RequestsTyped
<1>2. new \in Sent
  <2>1. {q \in SentBy(b) : ~ Answered(q)} \subseteq Requests
    BY DEF SentBy
  <2>2. "sent" \in PCs /\ cart[b] \in SUBSET Items /\ fill[b] \in 0..MaxFills
    BY DEF PCs, BrowsersTyped
  <2> QED BY <2>1, <2>2 DEF Sent
<1> HIDE DEF new
<1> QED BY <1>1, <1>2 DEF RequestsTyped, RequestTyped

LEMMA PricingTyped ==
  ASSUME RequestsTyped, NEW r \in Requests, req[r].pc # "unsent",
         NEW total \in Nat, NEW left \in SUBSET Items, Pricing(r, total, left)
  PROVE  RequestsTyped'
<1> DEFINE pc == IF left = {} THEN "sale" ELSE "price"
           new == [[[req[r] EXCEPT !.pc = pc] EXCEPT !.total = total] EXCEPT !.left = left]
<1>1. req' = [req EXCEPT ![r] = new]
  BY DEF Pricing
<1>2. req[r] \in Sent
  BY DEF RequestsTyped, RequestTyped, Unsent
<1>3. pc \in PCs
  BY DEF PCs
<1> HIDE DEF pc
<1>4. new \in Sent
  BY <1>2, <1>3 DEF Sent
<1> HIDE DEF new
<1>5. /\ DOMAIN req' = Requests /\ req'[r] = new
      /\ \A q \in Requests \ {r} : req'[q] = req[q]
  BY <1>1 DEF RequestsTyped
<1> QED BY <1>4, <1>5 DEF RequestsTyped, RequestTyped

LEMMA BeginTyped ==
  ASSUME CheckoutAssumption, Typed, NEW r \in Requests, Begin(r)
  PROVE  Typed'
<1>1. UNCHANGED <<price, cart, fill, form, used, charges, orders, customers, hit, edits>>
  BY DEF Begin
<1>2. req[r].pc = "sent"
  BY DEF Begin, At
<1>3. CASE req[r].cart = {}
  <2>1. GoTo(r, "declined")
    BY <1>3 DEF Begin
  <2>2. RequestsTyped'
    BY <1>2, <2>1, GoToTyped DEF PCs, Typed
  <2> QED BY <1>1, <2>2 DEF Typed, BrowsersTyped, TablesTyped
<1>4. CASE req[r].cart # {}
  <2>1. req[r].cart \in SUBSET Items /\ Fee \in Nat
    BY <1>2 DEF Typed, RequestsTyped, RequestTyped, Unsent, Sent, CheckoutAssumption
  <2>2. RequestsTyped'
    BY <1>2, <1>4, <2>1, PricingTyped DEF Begin, Typed
  <2> QED BY <1>1, <2>2 DEF Typed, BrowsersTyped, TablesTyped
<1> QED BY <1>3, <1>4

LEMMA PricedTyped ==
  ASSUME CheckoutAssumption, Typed, NEW r \in Requests, PriceItem(r) \/ PriceLost(r)
  PROVE  Typed'
<1>1. req[r].pc = "price"
  BY PricedFacts
<1>0. PICK i \in req[r].left : \E total \in {req[r].total, req[r].total + price[i]} :
        Pricing(r, total, req[r].left \ {i})
  BY PricedFacts
<1>2. PICK total \in {req[r].total, req[r].total + price[i]} : Pricing(r, total, req[r].left \ {i})
  BY <1>0
<1>3. req[r].total \in Nat /\ req[r].left \in SUBSET Items
  BY <1>1 DEF Typed, RequestsTyped, RequestTyped, Unsent, Sent
<1>4. price[i] \in Nat
  BY <1>3, PriceIsNat DEF Typed
<1>5. total \in Nat /\ req[r].left \ {i} \in SUBSET Items
  BY <1>3, <1>4
<1>6. RequestsTyped'
  BY <1>1, <1>2, <1>5, PricingTyped DEF Typed
<1>7. UNCHANGED <<price, cart, fill, form, used, charges, orders, customers, hit, edits>>
  BY PricedFacts
<1> QED BY <1>6, <1>7 DEF Typed, BrowsersTyped, TablesTyped

\* The page of the payment form may be left when an answer comes.
LEMMA FormTyped ==
  ASSUME BrowsersTyped, NEW b \in Browsers, form' \in {form, [form EXCEPT ![b] = FALSE]}
  PROVE  form' \in [Browsers -> BOOLEAN]
BY DEF BrowsersTyped

LEMMA MoveTyped ==
  ASSUME Typed, NEW r \in Requests, req[r].pc # "unsent",
         NEW pc \in PCs, GoTo(r, pc)
  PROVE  /\ RequestsTyped' /\ req[r] \in Sent
         /\ [req |-> r, amount |-> req[r].total] \in Entry
<1>1. RequestsTyped' /\ req[r] \in Sent
  BY GoToTyped DEF Typed
<1> QED BY <1>1 DEF Sent, Entry

LEMMA StatementTyped ==
  ASSUME CheckoutAssumption, Typed, NEW r \in Requests, Statement(r)
  PROVE  Typed'
<1>1. CASE Begin(r)
  BY <1>1, BeginTyped
<1>9. CASE PriceItem(r)
  BY <1>9, PricedTyped
<1>2. CASE Sale(r)
  <2>1. RequestsTyped' /\ req[r] \in Sent /\ [req |-> r, amount |-> req[r].total] \in Entry
    BY <1>2, MoveTyped DEF Sale, At, PCs
  <2>2. req[r].nonce \in Requests
    BY <2>1 DEF Sent
  <2>3. used' \subseteq Requests /\ charges' \subseteq Entry
    BY <1>2, <2>1, <2>2 DEF Sale, Charge, Typed, TablesTyped
  <2> QED BY <1>2, <2>1, <2>3 DEF Sale, Typed, BrowsersTyped, TablesTyped
<1>3. CASE Decline(r)
  <2>1. RequestsTyped' /\ req[r] \in Sent
    BY <1>3, MoveTyped DEF Decline, At, PCs
  <2>2. req[r].by \in Browsers
    BY <2>1 DEF Sent
  <2>3. form' \in [Browsers -> BOOLEAN]
    BY <1>3, <2>2, FormTyped DEF Decline, Typed
  <2> QED BY <1>3, <2>1, <2>3 DEF Decline, Typed, BrowsersTyped, TablesTyped
<1>4. CASE LookupCustomer(r)
  <2>1. RequestsTyped'
    BY <1>4, MoveTyped DEF LookupCustomer, At, PCs
  <2> QED BY <1>4, <2>1 DEF LookupCustomer, Typed, BrowsersTyped, TablesTyped
<1>5. CASE InsertCustomer(r)
  <2>1. RequestsTyped'
    BY <1>5, MoveTyped DEF InsertCustomer, At, PCs
  <2> QED BY <1>5, <2>1 DEF InsertCustomer, Typed, BrowsersTyped, TablesTyped
<1>6. CASE InsertOrder(r)
  <2>1. RequestsTyped' /\ [req |-> r, amount |-> req[r].total] \in Entry
    BY <1>6, MoveTyped DEF InsertOrder, At, PCs
  <2>2. orders' \subseteq Entry
    BY <1>6, <2>1 DEF InsertOrder, Typed, TablesTyped
  <2> QED BY <1>6, <2>1, <2>2 DEF InsertOrder, Typed, BrowsersTyped, TablesTyped
<1>7. CASE Reply(r)
  <2>1. RequestsTyped' /\ req[r] \in Sent
    BY <1>7, MoveTyped DEF Reply, At, PCs
  <2>2. req[r].by \in Browsers
    BY <2>1 DEF Sent
  <2>3. form' \in [Browsers -> BOOLEAN]
    BY <1>7, <2>2, FormTyped DEF Reply, Typed
  <2>4. cart' \in [Browsers -> SUBSET Items]
    BY <1>7 DEF Reply, Typed, BrowsersTyped
  <2> QED BY <1>7, <2>1, <2>3, <2>4 DEF Reply, Typed, BrowsersTyped, TablesTyped
<1>8. CASE ReplyUnseen(r)
  <2>1. RequestsTyped'
    BY <1>8, MoveTyped DEF ReplyUnseen, At, PCs
  <2> QED BY <1>8, <2>1 DEF ReplyUnseen, Typed, BrowsersTyped, TablesTyped
<1> QED BY <1>1, <1>2, <1>3, <1>4, <1>5, <1>6, <1>7, <1>8, <1>9 DEF Statement

LEMMA FaultTyped ==
  ASSUME CheckoutAssumption, Typed, NEW r \in Requests, Fault(r)
  PROVE  Typed'
<1>1. CASE SaleLost(r)
  <2>1. RequestsTyped' /\ req[r] \in Sent /\ [req |-> r, amount |-> req[r].total] \in Entry
    BY <1>1, MoveTyped DEF SaleLost, At, PCs
  <2>2. req[r].nonce \in Requests
    BY <2>1 DEF Sent
  <2>3. used' \subseteq Requests /\ charges' \subseteq Entry
    BY <1>1, <2>1, <2>2 DEF SaleLost, Charge, Typed, TablesTyped
  <2> QED BY <1>1, <2>1, <2>3 DEF SaleLost, Typed, BrowsersTyped, TablesTyped
<1>2. CASE StatementFails(r)
  <2>1. \E pc \in PCs : GoTo(r, pc) /\ req[r].pc # "unsent"
    BY <1>2 DEF StatementFails, At, PCs
  <2>2. RequestsTyped'
    BY <2>1, MoveTyped
  <2> QED BY <1>2, <2>2 DEF StatementFails, Typed, BrowsersTyped, TablesTyped
<1>3. CASE Crash(r)
  <2>1. RequestsTyped'
    BY <1>3, MoveTyped DEF Crash, InProgress, PCs
  <2> QED BY <1>3, <2>1 DEF Crash, Typed, BrowsersTyped, TablesTyped
<1>4. CASE PriceLost(r)
  BY <1>4, PricedTyped
<1> QED BY <1>1, <1>2, <1>3, <1>4 DEF Fault

LEMMA BrowserTyped ==
  ASSUME CheckoutAssumption, Typed, NEW b \in Browsers,
         \/ \E i \in Items : AddItem(b, i)
         \/ OpenForm(b)
         \/ \E r \in Requests : Pay(r, b) \/ \E q \in Requests : Reload(r, b, q)
  PROVE  Typed'
<1>1. ASSUME NEW i \in Items, AddItem(b, i) PROVE Typed'
  <2>1. cart' = [cart EXCEPT ![b] = cart[b] \cup {i}]
    BY <1>1 DEF AddItem
  <2>2. cart[b] \cup {i} \in SUBSET Items
    BY DEF Typed, BrowsersTyped
  <2>3. cart' \in [Browsers -> SUBSET Items]
    BY <2>1, <2>2 DEF Typed, BrowsersTyped
  <2>4. fill' \in [Browsers -> 0..MaxFills]
    <3>1. fill[b] \in 0..MaxFills /\ (cart[b] = {} => fill[b] < MaxFills) /\ MaxFills \in Nat
      BY <1>1 DEF AddItem, Typed, BrowsersTyped, CheckoutAssumption
    <3>2. (IF cart[b] = {} THEN fill[b] + 1 ELSE fill[b]) \in 0..MaxFills
      BY <3>1
    <3>3. fill' = [fill EXCEPT ![b] = IF cart[b] = {} THEN fill[b] + 1 ELSE fill[b]]
      BY <1>1 DEF AddItem
    <3> QED BY <3>2, <3>3 DEF Typed, BrowsersTyped
  <2> QED BY <1>1, <2>3, <2>4 DEF AddItem, Typed, BrowsersTyped, RequestsTyped, TablesTyped
<1>2. CASE OpenForm(b)
  BY <1>2 DEF OpenForm, Typed, BrowsersTyped, RequestsTyped, TablesTyped
<1>3. ASSUME NEW r \in Requests, Pay(r, b) PROVE Typed'
  <2>1. RequestsTyped'
    BY <1>3, SendTyped DEF Pay, Typed
  <2> QED BY <1>3, <2>1 DEF Pay, Typed, BrowsersTyped, TablesTyped
<1>4. ASSUME NEW r \in Requests, NEW q \in Requests, Reload(r, b, q) PROVE Typed'
  <2>1. req[q] \in Sent
    BY <1>4 DEF Reload, SentBy, Typed, RequestsTyped, RequestTyped, Unsent
  <2>2. req[q].nonce \in Requests
    BY <2>1 DEF Sent
  <2>3. RequestsTyped'
    BY <1>4, <2>2, SendTyped DEF Reload, Typed
  <2> QED BY <1>4, <2>3 DEF Reload, Typed, BrowsersTyped, TablesTyped
<1> QED BY <1>1, <1>2, <1>3, <1>4

LEMMA EditTyped ==
  ASSUME CheckoutAssumption, Typed, NEW i \in Items, NEW p \in Prices \cup {0}, EditPrice(i, p)
  PROVE  Typed'
<1>1. price' \in [Items -> Prices \cup {0}]
  BY DEF EditPrice, Typed, TablesTyped
<1>2. edits' \in 0..MaxEdits
  BY DEF EditPrice, Typed, TablesTyped, CheckoutAssumption
<1> QED BY <1>1, <1>2 DEF EditPrice, Typed, BrowsersTyped, RequestsTyped, TablesTyped

LEMMA InitTyped == CheckoutAssumption /\ Init => Typed
<1> SUFFICES ASSUME CheckoutAssumption, Init PROVE Typed
  OBVIOUS
<1>1. BrowsersTyped
  BY DEF Init, BrowsersTyped, CheckoutAssumption
<1>2. RequestsTyped
  BY DEF Init, RequestsTyped, RequestTyped
<1>3. TablesTyped
  BY DEF Init, TablesTyped, CheckoutAssumption
<1> QED BY <1>1, <1>2, <1>3 DEF Typed

LEMMA NextTyped == CheckoutAssumption /\ Typed /\ [Next]_vars => Typed'
<1> SUFFICES ASSUME CheckoutAssumption, Typed, [Next]_vars PROVE Typed'
  OBVIOUS
<1>1. CASE UNCHANGED vars
  BY <1>1 DEF vars, Typed, BrowsersTyped, RequestsTyped, TablesTyped
<1> QED BY <1>1, BrowserTyped, StatementTyped, FaultTyped, EditTyped DEF Next

\* Tables, carts and requests are always well formed, and every total is a
\* number, also when prices change while a cart is priced.
THEOREM TypeCorrect == Spec => []TypeOK
<1>1. Typed => TypeOK
  BY DEF Typed, BrowsersTyped, RequestsTyped, TablesTyped, RequestTyped, Sent, Entry, TypeOK
<1> QED BY InitTyped, NextTyped, CheckoutAssumption, <1>1, PTL DEF Spec
=============================================================================
