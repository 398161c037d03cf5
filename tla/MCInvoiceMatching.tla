-------------------------- MODULE MCInvoiceMatching --------------------------
(* FetchedMatching on all lists of a few invoices.  The ids of a list tell *)
(* its invoices apart, so the position in the list serves as the id.       *)
EXTENDS FetchedMatching

CONSTANTS MaxSt, MaxQb

MCIds == 1..Larger(MaxSt + 1, MaxQb)
MCAmounts == {-1, 0, 1, 3}

Lists(max) ==
    {[i \in DOMAIN content |->
        [id |-> i, customer |-> content[i][1], amount |-> content[i][2]]] :
       content \in UNION {[1..n -> Customers \X MCAmounts] : n \in 0..max}}

(* One more ServiceTitan invoice, which is past the page.                  *)
PastThePage ==
    [id |-> MaxSt + 1, customer |-> CHOOSE c \in Customers : TRUE, amount |-> 0]
MCStLists ==
    Lists(MaxSt) \cup
        {Append(list, PastThePage) : list \in {l \in Lists(MaxSt) : Len(l) = MaxSt}}
MCQbLists == Lists(MaxQb)
==============================================================================
