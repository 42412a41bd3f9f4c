------------------------------ MODULE CartProofs ------------------------------
(***************************************************************************)
(* Proofs about Cart, for every shop: any items, options, prices and fee,  *)
(* and any number of additions.                                            *)
(***************************************************************************)
EXTENDS Cart, FoldLemmas, SequenceTheorems

\* What the cart holds, beyond its type: finitely many items and options.  The
\* sums of the totals are about finite functions only.
IsCart(c) ==
  /\ DOMAIN c \subseteq Items /\ IsFiniteSet(DOMAIN c)
  /\ \A i \in DOMAIN c : IsEntry(i, c[i]) /\ IsFiniteSet(DOMAIN c[i].options)

\* A price list: one of the prices that each item may have.
IsPrices(prices) ==
  /\ prices = [i \in Items |-> prices[i]]
  /\ \A i \in Items : prices[i] \in Prices[i]

IsPage(rows) ==
  /\ rows = [i \in Items |-> rows[i]]
  /\ \A i \in Items : rows[i] \in Seq(ChoicesOf(i) \cup {Plain})

\* The two counts of an entry agree, and it is in the cart for something.  The
\* second half is what makes the removal of an item safe to reason about: an
\* entry that counts nothing would be taken out by any click.
Even(e) == e.amount = Chosen(e) /\ e.amount > 0
AllEven(c) == \A i \in DOMAIN c \cap OneType : Even(c[i])

IInv ==
  /\ IsCart(cart) /\ IsCart(asked) /\ IsPage(page)
  /\ IsPrices(price) /\ tag \in [Items -> Nat]
  /\ visit \in {"away", "asking", "open"}
  /\ stale \in BOOLEAN /\ adds \in 0..MaxAdds
  /\ shown \in Seq(Int) /\ Len(shown) <= 1
  /\ ~ stale => AllEven(cart)

-----------------------------------------------------------------------------
(* Entries                                                                 *)

\* What a click on "add" picks: a finite set of choices, and one choice of an
\* item with one type of options.
Picked(pick) == {<<t, pick[t]>> : t \in DOMAIN pick}

LEMMA PickedChoices ==
  ASSUME CartAssumption, NEW i \in Items, NEW pick \in Picks(i)
  PROVE  /\ Picked(pick) \subseteq ChoicesOf(i) /\ IsFiniteSet(Picked(pick))
         /\ i \in OneType => \E o : Picked(pick) = {o}
<1> DEFINE D == DOMAIN OptionsOf[i]
<1>1. DOMAIN pick = D /\ \A t \in D : pick[t] \in OptionsOf[i][t]
  BY DEF Picks
<1>2. Picked(pick) \subseteq ChoicesOf(i)
  BY <1>1 DEF Picked, ChoicesOf
<1>3. IsFiniteSet(D)
  BY DEF CartAssumption
<1>4. IsFiniteSet(Picked(pick))
  <2> DEFINE f == [t \in D |-> <<t, pick[t]>>]
  <2>1. f \in Surjection(D, Picked(pick))
    BY <1>1 DEF Surjection, Picked
  <2> HIDE DEF D, f
  <2> QED BY <1>3, <2>1, FS_Surjection
<1>5. ASSUME i \in OneType PROVE \E o : Picked(pick) = {o}
  <2>1. Cardinality(D) = 1
    BY <1>5 DEF OneType
  <2>2. \E t : D = {t}
    BY <1>3, <2>1, FS_Singleton
  <2>3. PICK t : D = {t}
    BY <2>2
  <2>4. Picked(pick) = {<<t, pick[t]>>}
    BY <1>1, <2>3 DEF Picked
  <2> QED BY <2>4
<1> QED BY <1>2, <1>4, <1>5

\* One more piece: an entry stays an entry, and stays even when the piece has
\* one option.
LEMMA AddedIsEntry ==
  ASSUME NEW i \in Items, NEW e, IsEntry(i, e), IsFiniteSet(DOMAIN e.options),
         NEW P, P \subseteq ChoicesOf(i), IsFiniteSet(P)
  PROVE  IsEntry(i, Added(e, P)) /\ IsFiniteSet(DOMAIN Added(e, P).options)
<1>1. DOMAIN Added(e, P).options = DOMAIN e.options \cup P
  BY DEF Added
<1>2. IsFiniteSet(DOMAIN e.options \cup P)
  BY FS_Union
<1>3. \A o \in DOMAIN e.options \cup P : Added(e, P).options[o] \in Nat
  BY DEF Added, IsEntry
<1>4. Added(e, P).options \in [DOMAIN e.options \cup P -> Nat]
  BY <1>3 DEF Added
<1>5. Added(e, P).amount \in Int
  BY DEF Added, IsEntry
<1> QED BY <1>1, <1>2, <1>4, <1>5 DEF IsEntry

LEMMA ChosenType ==
  ASSUME NEW i \in Items, NEW e, IsEntry(i, e), IsFiniteSet(DOMAIN e.options)
  PROVE  Chosen(e) \in Nat
<1>1. \A o \in DOMAIN e.options : e.options[o] \in Nat
  BY DEF IsEntry
<1> QED BY <1>1, SumType DEF Chosen, SumFunction

LEMMA AddedIsEven ==
  ASSUME NEW i \in Items, NEW e, IsEntry(i, e), IsFiniteSet(DOMAIN e.options),
         NEW o, e.amount = Chosen(e)
  PROVE  Even(Added(e, {o}))
<1> DEFINE old == e.options
           new == Added(e, {o}).options
           D == DOMAIN old
           Rest(f) == SumFunctionOnSet(f, D \ {o})
<1>1. /\ DOMAIN new = D \cup {o}
      /\ \A x \in D \ {o} : new[x] = old[x]
      /\ new[o] = IF o \in D THEN old[o] + 1 ELSE 1
  <2>1. new = [x \in D \cup {o} |-> (IF x \in D THEN old[x] ELSE 0) + (IF x \in {o} THEN 1 ELSE 0)]
    BY DEF Added
  <2>2. \A x \in D : old[x] \in Nat
    BY DEF IsEntry
  <2> HIDE DEF old, new
  <2> QED BY <2>1, <2>2
<1>2. \A x \in D : old[x] \in Int
  BY DEF IsEntry
<1>3. \A x \in D \cup {o} : new[x] \in Int
  <2> HIDE DEF old, new
  <2> QED BY <1>1, <1>2
<1>4. IsFiniteSet(D) /\ IsFiniteSet(D \cup {o}) /\ IsFiniteSet(D \ {o})
  BY FS_AddElement, FS_RemoveElement
<1>5. SumFunctionOnSet(new, D \cup {o}) = new[o] + Rest(new)
  <2>1. (D \cup {o}) \ {o} = D \ {o} /\ o \in D \cup {o}
    OBVIOUS
  <2> HIDE DEF D, new
  <2> QED BY <1>3, <1>4, <2>1, SumRemove
<1>6. Rest(new) = Rest(old)
  <2> HIDE DEF D, new, old
  <2> QED BY <1>1, <1>4, SumSame
<1>7. SumFunctionOnSet(old, D) = (IF o \in D THEN old[o] ELSE 0) + Rest(old) /\ Rest(old) \in Int
  <2>1. CASE o \in D
    <3> HIDE DEF D, old
    <3> QED BY <1>2, <1>4, <2>1, SumRemove, SumType
  <2>2. CASE o \notin D
    <3>1. D \ {o} = D
      BY <2>2
    <3>2. SumFunctionOnSet(old, D) \in Int
      <4> HIDE DEF D, old
      <4> QED BY <1>2, <1>4, SumType
    <3> QED BY <2>2, <3>1, <3>2
  <2> QED BY <2>1, <2>2
<1>8. SumFunctionOnSet(new, D \cup {o}) = SumFunctionOnSet(old, D) + 1
  <2>1. o \in D => old[o] \in Int
    BY <1>2
  <2> HIDE DEF D, old, new, Rest
  <2> QED BY <1>1, <1>5, <1>6, <1>7, <2>1
<1>9. Chosen(Added(e, {o})) = Chosen(e) + 1
  BY <1>1, <1>8 DEF Chosen, SumFunction
<1>10. Chosen(e) \in Nat /\ Added(e, {o}).amount = e.amount + 1
  BY ChosenType DEF Added
<1> QED BY <1>9, <1>10 DEF Even

\* An option taken out of the counts.
Zeroed(e, o) == Assigned(e.options, o, 0)

LEMMA ZeroedSum ==
  ASSUME NEW i \in Items, NEW e, IsEntry(i, e), IsFiniteSet(DOMAIN e.options),
         NEW o \in DOMAIN e.options
  PROVE  /\ DOMAIN Zeroed(e, o) = DOMAIN e.options
         /\ Zeroed(e, o) \in [DOMAIN e.options -> Nat]
         /\ e.options[o] \in Nat
         /\ SumFunction(Zeroed(e, o)) \in Nat
         /\ Chosen(e) = e.options[o] + SumFunction(Zeroed(e, o))
<1> DEFINE old == e.options
           new == Zeroed(e, o)
           D == DOMAIN old
           Rest(f) == SumFunctionOnSet(f, D \ {o})
<1>1. new = [x \in D \cup {o} |-> IF x = o THEN 0 ELSE old[x]]
  BY DEF Zeroed, Assigned
<1>2. \A x \in D : old[x] \in Nat
  BY DEF IsEntry
<1>3. DOMAIN new = D /\ new[o] = 0 /\ \A x \in D : x # o => new[x] = old[x]
  <2>1. o \in D
    OBVIOUS
  <2> HIDE DEF old, new
  <2> QED BY <1>1, <2>1
<1>4. \A x \in D : new[x] \in Nat
  <2> HIDE DEF old, new
  <2> QED BY <1>2, <1>3
<1>5. IsFiniteSet(D) /\ IsFiniteSet(D \ {o}) /\ o \in D
  BY FS_RemoveElement
<1>6. SumFunctionOnSet(new, D) = new[o] + Rest(new)
  <2> HIDE DEF D, new, old
  <2> QED BY <1>4, <1>5, SumRemove
<1>7. SumFunctionOnSet(old, D) = old[o] + Rest(old) /\ Rest(old) \in Nat
  <2> HIDE DEF D, new, old
  <2> QED BY <1>2, <1>5, SumRemove, SumType
<1>8. Rest(new) = Rest(old)
  <2> HIDE DEF D, new, old
  <2> QED BY <1>3, <1>5, SumSame
<1>9. SumFunctionOnSet(new, D) = Rest(old)
  <2> HIDE DEF D, new, old, Rest
  <2> QED BY <1>3, <1>6, <1>7, <1>8
<1>10. new \in [D -> Nat]
  <2>1. new = [x \in D |-> new[x]]
    <3> HIDE DEF old, new
    <3> QED BY <1>1, <1>3
  <2> HIDE DEF D, new, old
  <2> QED BY <1>4, <2>1
<1>11. SumFunction(new) = Rest(old) /\ Chosen(e) = SumFunctionOnSet(old, D)
  <2>1. SumFunction(new) = SumFunctionOnSet(new, D)
    <3> HIDE DEF old, new
    <3> QED BY <1>3 DEF SumFunction
  <2>2. Chosen(e) = SumFunctionOnSet(old, D)
    BY DEF Chosen, SumFunction
  <2> QED BY <1>9, <2>1, <2>2
<1> HIDE DEF Rest
<1> QED BY <1>2, <1>3, <1>5, <1>7, <1>10, <1>11

-----------------------------------------------------------------------------
(* The cart                                                                *)

\* Putting an entry into the cart.
LEMMA PutEntry ==
  ASSUME NEW c, IsCart(c), NEW i \in Items, NEW e, IsEntry(i, e), IsFiniteSet(DOMAIN e.options),
         NEW d, DOMAIN d = DOMAIN c \cup {i}, d[i] = e, \A k \in DOMAIN c \ {i} : d[k] = c[k]
  PROVE  /\ IsCart(d)
         /\ AllEven(c) /\ (i \in OneType => Even(e)) => AllEven(d)
<1>1. IsFiniteSet(DOMAIN d) /\ DOMAIN d \subseteq Items
  BY FS_AddElement DEF IsCart
<1>2. ASSUME NEW k \in DOMAIN d PROVE IsEntry(k, d[k]) /\ IsFiniteSet(DOMAIN d[k].options)
  BY <1>2 DEF IsCart
<1>3. AllEven(c) /\ (i \in OneType => Even(e)) => AllEven(d)
  BY DEF AllEven
<1> QED BY <1>1, <1>2, <1>3 DEF IsCart

\* Taking one out.
LEMMA TakeEntry ==
  ASSUME NEW c, IsCart(c), NEW i, NEW d, d = [k \in DOMAIN c \ {i} |-> c[k]]
  PROVE  IsCart(d) /\ (AllEven(c) => AllEven(d))
<1>1. IsFiniteSet(DOMAIN d) /\ DOMAIN d \subseteq Items /\ DOMAIN d \subseteq DOMAIN c
  BY FS_RemoveElement DEF IsCart
<1>2. \A k \in DOMAIN d : d[k] = c[k]
  OBVIOUS
<1>3. IsCart(d)
  BY <1>1, <1>2 DEF IsCart
<1>4. AllEven(c) => AllEven(d)
  BY <1>1, <1>2 DEF AllEven
<1> QED BY <1>3, <1>4

\* remove_from_cart keeps a cart a cart, and an even cart even unless it did not
\* know the option.
LEMMA WithoutKeeps ==
  ASSUME NEW c, IsCart(c), NEW i \in DOMAIN c, NEW o, o \in ChoicesOf(i)
  PROVE  /\ IsCart(Without(c, i, o))
         /\ AllEven(c) /\ o \in DOMAIN c[i].options => AllEven(Without(c, i, o))
<1> DEFINE e == c[i]
           known == o \in DOMAIN e.options
           amount == IF known THEN e.amount - e.options[o] ELSE 0
           left == [amount |-> amount, options |-> Zeroed(e, o)]
           d == [c EXCEPT ![i] = left]
<1>1. IsEntry(i, e) /\ IsFiniteSet(DOMAIN e.options) /\ i \in Items
  BY DEF IsCart
<1>2. CASE known /\ amount = 0
  <2>1. Without(c, i, o) = [k \in DOMAIN c \ {i} |-> c[k]]
    BY <1>2 DEF Without
  <2> QED BY <2>1, TakeEntry
<1>3. CASE ~ (known /\ amount = 0)
  <2>1. Without(c, i, o) = d
    BY <1>3 DEF Without, Zeroed
  <2>2. IsEntry(i, left) /\ IsFiniteSet(DOMAIN left.options)
    <3>1. amount \in Int
      BY <1>1 DEF IsEntry
    <3>2. /\ DOMAIN Zeroed(e, o) = DOMAIN e.options \cup {o}
          /\ Zeroed(e, o) \in [DOMAIN Zeroed(e, o) -> Nat]
      <4>1. Zeroed(e, o) = [x \in DOMAIN e.options \cup {o} |-> IF x = o THEN 0 ELSE e.options[x]]
        BY DEF Zeroed, Assigned
      <4>2. \A x \in DOMAIN e.options : e.options[x] \in Nat
        BY <1>1 DEF IsEntry
      <4> HIDE DEF e
      <4> QED BY <4>1, <4>2
    <3>3. IsFiniteSet(DOMAIN Zeroed(e, o))
      BY <1>1, <3>2, FS_AddElement
    <3>4. DOMAIN Zeroed(e, o) \subseteq ChoicesOf(i)
      BY <1>1, <3>2 DEF IsEntry
    <3> QED BY <3>1, <3>2, <3>3, <3>4 DEF IsEntry
  <2>3. ASSUME AllEven(c), known, i \in OneType PROVE Even(left)
    <3>1. e.amount = Chosen(e)
      BY <2>3 DEF AllEven, Even
    <3>2. /\ e.options[o] \in Nat /\ SumFunction(Zeroed(e, o)) \in Nat
          /\ Chosen(e) = e.options[o] + SumFunction(Zeroed(e, o))
      BY <1>1, <2>3, ZeroedSum
    <3>3. amount = SumFunction(Zeroed(e, o)) /\ amount \in Nat /\ amount # 0
      BY <1>3, <2>3, <3>1, <3>2
    <3>4. left.amount = amount /\ left.options = Zeroed(e, o)
      OBVIOUS
    <3> HIDE DEF left, amount
    <3> QED BY <3>3, <3>4 DEF Even, Chosen
  <2>4. DOMAIN d = DOMAIN c \cup {i} /\ d[i] = left /\ \A k \in DOMAIN c \ {i} : d[k] = c[k]
    OBVIOUS
  <2> HIDE DEF d, left
  <2> QED BY <1>1, <2>1, <2>2, <2>3, <2>4, PutEntry
<1> QED BY <1>2, <1>3

\* add_to_cart.
AfterAdd(c, i, pick) ==
  Assigned(c, i, Added(IF i \in DOMAIN c THEN c[i] ELSE [amount |-> 0, options |-> << >>],
                       Picked(pick)))

LEMMA AddKeeps ==
  ASSUME CartAssumption, NEW c, IsCart(c), NEW i \in Items, NEW pick \in Picks(i)
  PROVE  IsCart(AfterAdd(c, i, pick)) /\ (AllEven(c) => AllEven(AfterAdd(c, i, pick)))
<1> DEFINE none == [amount |-> 0, options |-> << >>]
<1> PICK e : e = IF i \in DOMAIN c THEN c[i] ELSE none
  OBVIOUS
<1> PICK d : d = AfterAdd(c, i, pick)
  OBVIOUS
<1>1. IsEntry(i, none) /\ DOMAIN none.options = {} /\ none.amount = Chosen(none)
  <2>1. DOMAIN none.options = {} /\ none.options \in [DOMAIN none.options -> Nat] /\ none.amount = 0
    OBVIOUS
  <2>2. Chosen(none) = 0
    <3> HIDE DEF none
    <3> QED BY <2>1, SumEmpty DEF Chosen, SumFunction
  <2> HIDE DEF none
  <2> QED BY <2>1, <2>2 DEF IsEntry
<1>2. IsEntry(i, e) /\ IsFiniteSet(DOMAIN e.options)
  <2> HIDE DEF none
  <2> QED BY <1>1, FS_EmptySet DEF IsCart
<1>3. AllEven(c) /\ i \in OneType => e.amount = Chosen(e)
  <2> HIDE DEF none
  <2> QED BY <1>1 DEF AllEven, Even
<1> HIDE DEF none
<1>4. IsEntry(i, Added(e, Picked(pick))) /\ IsFiniteSet(DOMAIN Added(e, Picked(pick)).options)
  BY <1>2, PickedChoices, AddedIsEntry
<1>5. AllEven(c) /\ i \in OneType => Even(Added(e, Picked(pick)))
  BY <1>2, <1>3, PickedChoices, AddedIsEven
<1>6. d = [x \in DOMAIN c \cup {i} |-> IF x = i THEN Added(e, Picked(pick)) ELSE c[x]]
  BY DEF AfterAdd, Assigned, none
<1>7. DOMAIN d = DOMAIN c \cup {i} /\ d[i] = Added(e, Picked(pick)) /\ \A k \in DOMAIN c \ {i} : d[k] = c[k]
  BY <1>6
<1> QED BY <1>4, <1>5, <1>7, PutEntry

-----------------------------------------------------------------------------
(* The page                                                                *)

LEMMA Shown ==
  /\ << >> \in Seq(Int) /\ Len(<< >>) <= 1
  /\ \A x \in Int : <<x>> \in Seq(Int) /\ Len(<<x>>) <= 1
OBVIOUS

LEMMA TotalType ==
  ASSUME CartAssumption, NEW c, IsCart(c), NEW rows, NEW tags \in [Items -> Nat]
  PROVE  /\ ClientTotal(c, rows, tags) \in Seq(Int)
         /\ Len(ClientTotal(c, rows, tags)) <= 1
<1> DEFINE f == [i \in DOMAIN c |-> tags[i] * c[i].amount]
<1>1. \A i \in DOMAIN c : tags[i] \in Int /\ c[i].amount \in Int
  BY DEF IsCart, IsEntry
<1>2. DOMAIN f = DOMAIN c /\ \A i \in DOMAIN c : f[i] \in Int
  BY <1>1
<1>3. SumFunction(f) \in Int
  <2> HIDE DEF f
  <2> QED BY <1>2, SumType DEF SumFunction, IsCart
<1>4. Fee \in Int
  BY DEF CartAssumption
<1> HIDE DEF f
<1>5. \/ ClientTotal(c, rows, tags) = <<SumFunction(f) + Fee>>
      \/ ClientTotal(c, rows, tags) = << >>
  BY DEF ClientTotal, f
<1>6. SumFunction(f) + Fee \in Int
  BY <1>3, <1>4
<1> QED BY <1>5, <1>6, Shown

\* The rows of an entry are choices of its item.
LEMMA RowOrdersType ==
  ASSUME NEW i \in Items, NEW e, IsEntry(i, e), IsFiniteSet(DOMAIN e.options), NEW s \in RowOrders(e)
  PROVE  s \in Seq(ChoicesOf(i) \cup {Plain})
<1>1. RowsOf(e) \subseteq ChoicesOf(i) \cup {Plain}
  BY DEF RowsOf, IsEntry
<1>2. IsFiniteSet(RowsOf(e))
  <2>1. CASE DOMAIN e.options = {}
    BY <2>1, FS_Singleton DEF RowsOf
  <2>2. CASE DOMAIN e.options # {}
    <3>1. RowsOf(e) \subseteq DOMAIN e.options
      BY <2>2 DEF RowsOf
    <3> QED BY <3>1, FS_Subset
  <2> QED BY <2>1, <2>2
<1>3. Cardinality(RowsOf(e)) \in Nat
  BY <1>2, FS_CardinalityType
<1>4. s \in [1..Cardinality(RowsOf(e)) -> RowsOf(e)]
  BY DEF RowOrders, SetToSeqs
<1> QED BY <1>1, <1>3, <1>4

-----------------------------------------------------------------------------
(* The actions                                                             *)

LEMMA AddToCartKeeps ==
  ASSUME CartAssumption, IInv, NEW i \in Items, NEW pick \in Picks(i), AddToCart(i, pick)
  PROVE  IInv'
<1>1. cart' = AfterAdd(cart, i, pick)
  BY DEF AddToCart, AfterAdd, Picked
<1>2. IsCart(cart') /\ (AllEven(cart) => AllEven(cart'))
  BY <1>1, AddKeeps DEF IInv
<1>3. adds' \in 0..MaxAdds
  BY DEF IInv, AddToCart, CartAssumption
<1> QED BY <1>2, <1>3 DEF IInv, AddToCart

\* An answer in the making stays one, whichever rows a lookup makes.
LEMMA RenderKeeps ==
  ASSUME IInv, NEW i \in DOMAIN asked, NEW rows \in Seq(ChoicesOf(i) \cup {Plain}),
         NEW listed \in Nat, Render(i, rows, listed)
  PROVE  IInv'
<1>1. i \in Items
  BY DEF IInv, IsCart
<1>2. IsPage(page')
  <2>1. DOMAIN page = Items /\ \A k \in Items : page[k] \in Seq(ChoicesOf(k) \cup {Plain})
    BY DEF IInv, IsPage
  <2>2. page' = [page EXCEPT ![i] = rows]
    BY DEF Render
  <2>3. page' = [k \in Items |-> page'[k]] /\ \A k \in Items : page'[k] = IF k = i THEN rows ELSE page[k]
    BY <2>1, <2>2
  <2> QED BY <2>1, <2>3 DEF IsPage
<1>3. IsCart(asked')
  BY TakeEntry DEF IInv, Render
<1>4. tag' \in [Items -> Nat]
  BY <1>1 DEF IInv, Render
<1> QED BY <1>2, <1>3, <1>4 DEF IInv, Render

LEMMA RenderItemKeeps ==
  ASSUME CartAssumption, IInv, NEW i \in DOMAIN asked, RenderItem(i)
  PROVE  IInv'
<1>1. i \in Items /\ IsEntry(i, asked[i]) /\ IsFiniteSet(DOMAIN asked[i].options)
  BY DEF IInv, IsCart
<1>2. PICK rows \in RowOrders(asked[i]) : Render(i, rows, price[i].list)
  BY DEF RenderItem
<1>3. rows \in Seq(ChoicesOf(i) \cup {Plain})
  BY <1>1, RowOrdersType
<1>4. price[i].list \in Nat
  BY <1>1 DEF IInv, IsPrices, CartAssumption
<1> QED BY <1>2, <1>3, <1>4, RenderKeeps

LEMMA RenderLostKeeps ==
  ASSUME IInv, NEW i \in DOMAIN asked, RenderLost(i)
  PROVE  IInv'
<1>1. << >> \in Seq(ChoicesOf(i) \cup {Plain}) /\ 0 \in Nat
  OBVIOUS
<1> QED BY <1>1, RenderKeeps DEF RenderLost

LEMMA ShowCartKeeps ==
  ASSUME CartAssumption, IInv, ShowCart
  PROVE  IInv'
<1>1. shown' \in Seq(Int) /\ Len(shown') <= 1
  BY TotalType DEF IInv, ShowCart
<1> QED BY <1>1 DEF IInv, ShowCart

LEMMA ChangePriceKeeps ==
  ASSUME IInv, NEW i \in Items, ChangePrice(i)
  PROVE  IInv'
<1>1. PICK p \in Prices[i] : price' = [price EXCEPT ![i] = p]
  BY DEF ChangePrice
<1>2. DOMAIN price = Items /\ \A k \in Items : price[k] \in Prices[k]
  BY DEF IInv, IsPrices
<1>3. price' = [k \in Items |-> price'[k]] /\ \A k \in Items : price'[k] = IF k = i THEN p ELSE price[k]
  BY <1>1, <1>2
<1>4. IsPrices(price')
  BY <1>2, <1>3 DEF IsPrices
<1> QED BY <1>4 DEF IInv, ChangePrice

LEMMA RemoveRowKeeps ==
  ASSUME CartAssumption, IInv, NEW i \in Items, NEW n \in DOMAIN page[i], RemoveRow(i, n)
  PROVE  /\ IInv'
         /\ Head(page[i]) \in ChoicesOf(i)
<1> DEFINE o == Head(page[i])
<1>1. page[i] \in Seq(ChoicesOf(i) \cup {Plain}) /\ n \in 1..Len(page[i])
  BY DEF IInv, IsPage
<1>2. o \in ChoicesOf(i)
  BY <1>1 DEF RemoveRow
<1>3. IsPage(page')
  <2>1. page' = [page EXCEPT ![i] = RemoveAt(page[i], n)]
    BY DEF RemoveRow
  <2>2. RemoveAt(page[i], n) \in Seq(ChoicesOf(i) \cup {Plain})
    BY <1>1, RemoveAtType
  <2>3. DOMAIN page = Items
    BY DEF IInv, IsPage
  <2>4. page' = [k \in Items |-> page'[k]] /\ \A k \in Items : page'[k] = IF k = i THEN RemoveAt(page[i], n) ELSE page[k]
    BY <2>1, <2>3
  <2> QED BY <2>2, <2>4 DEF IInv, IsPage
<1>4. CASE i \in DOMAIN cart
  <2>1. /\ cart' = Without(cart, i, o) /\ shown' = ClientTotal(cart', page, tag)
        /\ stale' = (stale \/ o \notin DOMAIN cart[i].options)
    BY <1>4 DEF RemoveRow
  <2>2. /\ IsCart(cart')
        /\ AllEven(cart) /\ o \in DOMAIN cart[i].options => AllEven(cart')
    BY <1>2, <1>4, <2>1, WithoutKeeps DEF IInv
  <2>3. shown' \in Seq(Int) /\ Len(shown') <= 1
    BY <2>1, <2>2, TotalType DEF IInv
  <2> HIDE DEF o
  <2>4. stale' \in BOOLEAN /\ (~ stale' => AllEven(cart'))
    BY <2>1, <2>2 DEF IInv
  <2> QED BY <1>2, <1>3, <2>2, <2>3, <2>4 DEF IInv, RemoveRow, o
<1>5. CASE i \notin DOMAIN cart
  <2>1. UNCHANGED <<cart, shown, stale>>
    BY <1>5 DEF RemoveRow
  <2> QED BY <1>2, <1>3, <2>1 DEF IInv, RemoveRow
<1> QED BY <1>4, <1>5

LEMMA EmptyCart == IsCart(<< >>) /\ AllEven(<< >>)
<1>1. DOMAIN << >> = {}
  OBVIOUS
<1> QED BY <1>1, FS_EmptySet DEF IsCart, AllEven

LEMMA EmptyPage == IsPage(NoRows)
BY DEF IsPage, NoRows

LEMMA Initially ==
  ASSUME CartAssumption, Init PROVE IInv
<1>1. IsCart(cart) /\ IsPage(page) /\ AllEven(cart)
  BY EmptyCart, EmptyPage DEF Init
<1>2. shown \in Seq(Int) /\ Len(shown) <= 1
  BY Shown DEF Init
<1>3. visit \in {"away", "asking", "open"} /\ stale \in BOOLEAN
  BY Zenon DEF Init
<1>4. adds \in 0..MaxAdds
  <2>1. adds = 0 /\ MaxAdds \in Nat
    BY DEF Init, CartAssumption
  <2> QED BY <2>1
<1>5. IsCart(asked) /\ IsPrices(price) /\ tag \in [Items -> Nat]
  BY EmptyCart DEF Init, NoTags, IsPrices
<1> QED BY <1>1, <1>2, <1>3, <1>4, <1>5 DEF IInv

LEMMA Step ==
  ASSUME CartAssumption, IInv, [Next]_vars PROVE IInv'
<1>1. CASE \E i \in Items : \E pick \in Picks(i) : AddToCart(i, pick)
  BY <1>1, AddToCartKeeps
<1>2. CASE AskCart
  BY <1>2 DEF AskCart, IInv
<1>3. CASE LeaveCart
  <2>1. tag' \in [Items -> Nat]
    BY <1>3 DEF LeaveCart, NoTags
  <2> QED BY <1>3, <2>1, EmptyCart, EmptyPage, Shown DEF LeaveCart, IInv
<1>4. CASE ResetCart
  BY <1>4, EmptyCart DEF ResetCart, IInv
<1>5. CASE \E i \in Items : \E n \in DOMAIN page[i] : RemoveRow(i, n)
  BY <1>5, RemoveRowKeeps
<1>6. CASE UNCHANGED vars
  BY <1>6 DEF vars, IInv
<1>7. CASE ShowCart
  BY <1>7, ShowCartKeeps
<1>8. CASE \E i \in DOMAIN asked : RenderItem(i) \/ RenderLost(i)
  BY <1>8, RenderItemKeeps, RenderLostKeeps
<1>9. CASE \E i \in Items : ChangePrice(i)
  BY <1>9, ChangePriceKeeps
<1> QED BY <1>1, <1>2, <1>3, <1>4, <1>5, <1>6, <1>7, <1>8, <1>9 DEF Next

LEMMA Invariance == Spec => []IInv
<1>1. Init => IInv
  BY CartAssumption, Initially
<1>2. IInv /\ [Next]_vars => IInv'
  BY CartAssumption, Step
<1> QED BY <1>1, <1>2, PTL DEF Spec

-----------------------------------------------------------------------------
(* What follows                                                            *)

LEMMA InvariantTypes ==
  ASSUME IInv PROVE TypeOK
<1>1. \A i \in Items : ToSet(page[i]) \subseteq ChoicesOf(i) \cup {Plain}
  <2> TAKE i \in Items
  <2>1. page[i] \in Seq(ChoicesOf(i) \cup {Plain})
    BY DEF IInv, IsPage
  <2>2. \A n \in DOMAIN page[i] : page[i][n] \in ChoicesOf(i) \cup {Plain}
    BY <2>1
  <2> QED BY <2>2 DEF ToSet
<1>2. DOMAIN page = Items
  BY DEF IInv, IsPage
<1>3. DOMAIN price = Items /\ \A i \in Items : price[i] \in Prices[i]
  BY DEF IInv, IsPrices
<1> QED BY <1>1, <1>2, <1>3 DEF TypeOK, IInv, IsCart

\* An item with at most one type of options: its entry has one, or no options.
LEMMA AtMostOne ==
  ASSUME CartAssumption, NEW i \in AtMostOneType, i \notin OneType
  PROVE  ChoicesOf(i) = {}
<1>1. i \in Items /\ IsFiniteSet(DOMAIN OptionsOf[i])
  BY DEF AtMostOneType, CartAssumption
<1>2. Cardinality(DOMAIN OptionsOf[i]) \in Nat
  BY <1>1, FS_CardinalityType
<1>3. Cardinality(DOMAIN OptionsOf[i]) = 0
  BY <1>1, <1>2 DEF AtMostOneType, OneType
<1>4. DOMAIN OptionsOf[i] = {}
  BY <1>1, <1>3, FS_EmptySet
<1> QED BY <1>4 DEF ChoicesOf

\* For an even cart of such items both totals count the same pieces.
LEMMA TotalsOfEven ==
  ASSUME CartAssumption, NEW c, IsCart(c), AllEven(c), DOMAIN c \subseteq AtMostOneType,
         NEW rows, NEW prices,
         NEW tags, \A i \in DOMAIN c : tags[i] = Charged(prices[i]),
         ClientTotal(c, rows, tags) # << >>
  PROVE  ClientTotal(c, rows, tags) = <<ServerTotal(c, prices)>>
<1> DEFINE f == [i \in DOMAIN c |-> tags[i] * c[i].amount]
           g == [i \in DOMAIN c |-> ItemTotal(c[i], prices[i])]
<1>1. ASSUME NEW i \in DOMAIN c PROVE ItemTotal(c[i], prices[i]) = tags[i] * c[i].amount
  <2>1. CASE i \in OneType
    BY <2>1 DEF AllEven, Even, ItemTotal
  <2>2. CASE i \notin OneType
    <3>1. DOMAIN c[i].options = {}
      BY <2>2, AtMostOne DEF IsCart, IsEntry
    <3> QED BY <3>1 DEF ItemTotal
  <2> QED BY <2>1, <2>2
<1>2. f = g
  BY <1>1
<1>3. ClientTotal(c, rows, tags) = <<SumFunction(f) + Fee>>
  BY DEF ClientTotal
<1>4. ServerTotal(c, prices) = SumFunction(g) + Fee
  BY DEF ServerTotal
<1> HIDE DEF f, g
<1> QED BY <1>2, <1>3, <1>4

\* When remove_from_cart takes an item out of an even cart, the option was the
\* last one that the entry counted.
LEMMA TakenOut ==
  ASSUME NEW c, IsCart(c), AllEven(c), NEW i \in DOMAIN c, i \in OneType,
         NEW o \in DOMAIN c[i].options, c[i].amount - c[i].options[o] = 0
  PROVE  Cardinality({x \in DOMAIN c[i].options : c[i].options[x] > 0}) = 1
<1> DEFINE e == c[i]
<1>1. IsEntry(i, e) /\ IsFiniteSet(DOMAIN e.options) /\ i \in Items
  BY DEF IsCart
<1>2. e.amount = Chosen(e) /\ e.amount > 0
  BY DEF AllEven, Even
<1>3. /\ DOMAIN Zeroed(e, o) = DOMAIN e.options
      /\ \A x \in DOMAIN e.options : e.options[x] \in Nat
      /\ e.options[o] \in Nat /\ SumFunction(Zeroed(e, o)) \in Nat
      /\ Zeroed(e, o) \in [DOMAIN e.options -> Nat]
      /\ Chosen(e) = e.options[o] + SumFunction(Zeroed(e, o))
  BY <1>1, ZeroedSum DEF IsEntry
<1>4. SumFunction(Zeroed(e, o)) = 0 /\ e.options[o] > 0
  <2>1. e.amount - e.options[o] = 0
    OBVIOUS
  <2> HIDE DEF e
  <2> QED BY <1>2, <1>3, <2>1
<1>5. ASSUME NEW x \in DOMAIN e.options, x # o PROVE e.options[x] = 0
  <2>1. Zeroed(e, o)[x] = e.options[x]
    BY <1>5 DEF Zeroed, Assigned
  <2>2. Zeroed(e, o)[x] <= SumFunctionOnSet(Zeroed(e, o), DOMAIN e.options)
    BY <1>1, <1>3, SumBounds
  <2>3. SumFunction(Zeroed(e, o)) = SumFunctionOnSet(Zeroed(e, o), DOMAIN e.options)
    BY <1>3 DEF SumFunction
  <2> QED BY <1>3, <1>4, <2>1, <2>2, <2>3
<1>6. {x \in DOMAIN e.options : e.options[x] > 0} = {o}
  <2> HIDE DEF e
  <2>1. o \in DOMAIN e.options
    BY DEF e
  <2> QED BY <1>4, <1>5, <2>1
<1> QED BY <1>6, FS_Singleton

LEMMA StepTotals ==
  ASSUME CartAssumption, IInv, IInv', Next,
         shown' # shown, shown' # << >>, ~ stale',
         \A i \in DOMAIN cart' : i \in AtMostOneType /\ PriceIsCurrent(i)'
  PROVE  shown' = <<ServerTotal(cart', price')>>
<1>1. IsCart(cart') /\ AllEven(cart')
  BY DEF IInv
<1>2. \E rows : shown' = ClientTotal(cart', rows, tag')
  <2>1. CASE \E i \in Items : \E pick \in Picks(i) : AddToCart(i, pick)
    BY <2>1 DEF AddToCart
  <2>2. CASE ShowCart
    <3>1. shown' = ClientTotal(cart', page, tag')
      BY <2>2 DEF ShowCart
    <3> QED BY <3>1
  <2>3. CASE LeaveCart
    BY <2>3 DEF LeaveCart
  <2>4. CASE ResetCart
    BY <2>4 DEF ResetCart
  <2>5. CASE \E i \in Items : \E n \in DOMAIN page[i] : RemoveRow(i, n)
    <3>1. shown' = ClientTotal(cart', page, tag')
      BY <2>5 DEF RemoveRow
    <3> QED BY <3>1
  <2>6. CASE AskCart
    BY <2>6 DEF AskCart
  <2>7. CASE \E i \in DOMAIN asked : RenderItem(i) \/ RenderLost(i)
    BY <2>7 DEF RenderItem, RenderLost, Render
  <2>8. CASE \E i \in Items : ChangePrice(i)
    BY <2>8 DEF ChangePrice
  <2> QED BY <2>1, <2>2, <2>3, <2>4, <2>5, <2>6, <2>7, <2>8 DEF Next
<1>3. PICK rows : shown' = ClientTotal(cart', rows, tag')
  BY <1>2
<1>4. \A i \in DOMAIN cart' : tag'[i] = Charged(price'[i])
  BY DEF PriceIsCurrent
<1>5. DOMAIN cart' \subseteq AtMostOneType
  OBVIOUS
<1> QED BY <1>1, <1>3, <1>4, <1>5, TotalsOfEven

LEMMA StepLastOption ==
  ASSUME CartAssumption, IInv, Next, visit = "open", visit' = "open", page' # page, ~ stale,
         NEW i \in (DOMAIN cart \ DOMAIN cart') \cap OneType
  PROVE  Cardinality({o \in DOMAIN cart[i].options : cart[i].options[o] > 0}) = 1
<1>1. PICK k \in Items : \E n \in DOMAIN page[k] : RemoveRow(k, n)
  BY DEF Next, AddToCart, AskCart, RenderItem, RenderLost, Render, ShowCart, LeaveCart,
         ChangePrice, ResetCart
<1>2. PICK n \in DOMAIN page[k] : RemoveRow(k, n)
  BY <1>1
<1> DEFINE o == Head(page[k])
           e == cart[k]
<1>3. k \in DOMAIN cart /\ cart' = Without(cart, k, o)
  BY <1>2 DEF RemoveRow
<1>4. k = i /\ o \in DOMAIN e.options /\ e.amount - e.options[o] = 0
  <2>1. CASE o \in DOMAIN e.options /\ e.amount - e.options[o] = 0
    <3>1. cart' = [x \in DOMAIN cart \ {k} |-> cart[x]]
      BY <1>3, <2>1 DEF Without
    <3> HIDE DEF o, e
    <3> QED BY <2>1, <3>1
  <2>2. CASE ~ (o \in DOMAIN e.options /\ e.amount - e.options[o] = 0)
    <3>1. DOMAIN cart' = DOMAIN cart
      <4> DEFINE left == [amount |-> IF o \in DOMAIN e.options THEN e.amount - e.options[o] ELSE 0,
                          options |-> Zeroed(e, o)]
      <4>1. cart' = [cart EXCEPT ![k] = left]
        BY <1>3, <2>2 DEF Without, Zeroed
      <4> HIDE DEF left
      <4> QED BY <4>1
    <3> QED BY <3>1
  <2> QED BY <2>1, <2>2
<1>5. IsCart(cart) /\ AllEven(cart)
  BY DEF IInv
<1> QED BY <1>4, <1>5, TakenOut

-----------------------------------------------------------------------------
(* Theorems                                                                *)

\* The cart, the page and the total it shows are always well formed.
THEOREM CartTypes == Spec => []TypeOK
BY Invariance, InvariantTypes, PTL

\* Through any sequence of additions, removals and visits in any number of tabs
\* the two counts of an entry agree and are not zero, until a page that is out of
\* date removes an option that the cart does not have.
THEOREM CartBalanced == Spec => []CartIsBalanced
<1>1. IInv => CartIsBalanced
  BY DEF IInv, AllEven, Even, CartIsBalanced
<1> QED BY <1>1, Invariance, PTL

\* Whenever the page computes a Grand Total, the server would charge it for the
\* cart of that moment, whatever the fee and the number of items and pieces, when
\* no item in the cart has two types of options, no price differs from the one
\* that was rendered, and no stale row was removed.
THEOREM TotalsAlwaysAgree == Spec => TotalsAgree
<1>1. IInv /\ IInv' /\ [Next]_vars =>
        [ (/\ shown' # shown /\ shown' # << >> /\ ~ stale'
           /\ \A i \in DOMAIN cart' : i \in AtMostOneType /\ PriceIsCurrent(i)')
          => shown' = <<ServerTotal(cart', price')>> ]_vars
  BY CartAssumption, StepTotals
<1> QED BY <1>1, Invariance, PTL DEF Spec, TotalsAgree

\* A click takes an item that has one type of options out of the cart only with
\* the last of its options that the cart still counted.
THEOREM LastOptionTakesItem == Spec => OnlyLastOptionTakesItem
<1>1. IInv /\ [Next]_vars =>
        [ (visit = "open" /\ visit' = "open" /\ page' # page /\ ~ stale)
          => \A i \in (DOMAIN cart \ DOMAIN cart') \cap OneType :
               Cardinality({o \in DOMAIN cart[i].options : cart[i].options[o] > 0}) = 1 ]_vars
  BY CartAssumption, StepLastOption
<1> QED BY <1>1, Invariance, PTL DEF Spec, OnlyLastOptionTakesItem
=============================================================================
