------------------------------- MODULE MCCart -------------------------------
(* Instances of Cart for TLC: a card without options, a print that comes in *)
(* two sizes, and a frame that has a size and a colour.                     *)
EXTENDS Cart

NoOptions == << >>
Sizes == "size" :> {"small", "large"}
SizesAndColours == ("size" :> {"small"}) @@ ("colour" :> {"black", "white"})

AllItems == {"print", "card", "frame"}
OnlyPrint == {"print"}
OnlyFrame == {"frame"}
Options == ("print" :> Sizes) @@ ("card" :> NoOptions) @@ ("frame" :> SizesAndColours)

SomeOptions == [i \in Items |-> Options[i]]
\* Prices and a fee whose sums tell every choice of pieces apart.
OnePrice == [i \in Items |-> {[list |-> IF i = "card" THEN 100 ELSE 10, user |-> 0]}]
\* The print gets dearer, and it may get a price of its own for buyers.
PrintChanges == [i \in Items |->
  OnePrice[i] \cup IF i = "print" THEN {[list |-> 12, user |-> 0], [list |-> 10, user |-> 7]} ELSE {}]
=============================================================================
