--------------------------- MODULE MatchingPromise ---------------------------
(***************************************************************************)
(* What the discrepancies of a run say of its two lists of invoices, with  *)
(* no loops: they come from a pairing of invoices that agree and, of what  *)
(* is left, a pairing of invoices of one customer.  Neither pairing can be *)
(* extended; which of several it is, and that it is a largest one, is not  *)
(* promised.  What is in neither pairing is missing on the other side.     *)
(***************************************************************************)
EXTENDS Integers, Sequences, FiniteSets

CONSTANT Agree(_, _) \* two invoices are of one customer and of close amounts

VARIABLES
    st, qb, \* the invoices of the run
    outcome \* its outcome, and none before it has one

promiseVars == <<st, qb, outcome>>

(* The pairings within a relation of positions, and the inextensible ones. *)
Injective(p) == \A x, y \in p : x[1] = y[1] \/ x[2] = y[2] => x = y
Extensible(p, relation) == \E x \in relation \ p : Injective(p \cup {x})
Maximal(relation) ==
    {p \in SUBSET relation : Injective(p) /\ ~Extensible(p, relation)}

Agreeing == {x \in (DOMAIN st) \X (DOMAIN qb) : Agree(st[x[1]], qb[x[2]])}
Left(pairs) == {x[1] : x \in pairs}
Right(pairs) == {x[2] : x \in pairs}
Comparable(matches) ==
    {x \in ((DOMAIN st) \ Left(matches)) \X ((DOMAIN qb) \ Right(matches)) :
        st[x[1]].customer = qb[x[2]].customer}

Outcome(matches, mismatches) ==
    LET explained == matches \cup mismatches IN
    [matched |-> Cardinality(matches),
     mismatched |-> {<<st[x[1]].id, qb[x[2]].id>> : x \in mismatches},
     missing_in_quickbooks |-> {st[i].id : i \in (DOMAIN st) \ Left(explained)},
     missing_in_servicetitan |-> {qb[j].id : j \in (DOMAIN qb) \ Right(explained)}]

PromiseInit == outcome = {}

Reconcile ==
    /\ outcome = {}
    /\ \E matches \in Maximal(Agreeing) :
          \E mismatches \in Maximal(Comparable(matches)) :
             outcome' = {Outcome(matches, mismatches)}
    /\ UNCHANGED <<st, qb>>

PromiseSpec == PromiseInit /\ [][Reconcile]_promiseVars
==============================================================================
