--------------------------- MODULE FetchedMatching ---------------------------
(***************************************************************************)
(* What reconcile stores of what the source systems hold: the two fetches  *)
(* as far as they decide what InvoiceMatching is given, and the status of  *)
(* the run.  A fetch that fails leaves an empty list, and ServiceTitan is  *)
(* asked for one page.  The source systems keep the invoices in any order, *)
(* so a list's first page is any part of it, in any order.                 *)
(***************************************************************************)
EXTENDS InvoiceMatching

CONSTANT PageLimit \* the limit of ServiceTitanClient.fetch_invoices

VARIABLES
    stRemote, qbRemote, \* the invoices of the date range, in the source systems
    failed,             \* the sources in source_errors
    status              \* the status of the run row

fetchedVars == <<stRemote, qbRemote, failed, status>>

Sources == {"servicetitan", "quickbooks"}

FirstPage(list) ==
    SubSeq(list, 1, IF Len(list) < PageLimit THEN Len(list) ELSE PageLimit)

ASSUME FetchedAssumption ==
    /\ PageLimit \in Nat \ {0}
    /\ <<>> \in StLists \cap QbLists
    /\ \A list \in StLists : FirstPage(list) \in StLists

Delivered(source, list) == IF source \in failed THEN <<>> ELSE list

(* The run row is flushed as in_progress.  Errors of credentials end the   *)
(* call and are no run; all others are kept in source_errors.              *)
FetchedInit ==
    /\ stRemote \in StLists
    /\ qbRemote \in QbLists
    /\ failed \in SUBSET Sources
    /\ status = "in_progress"
    /\ st = Delivered("servicetitan", FirstPage(stRemote))
    /\ qb = Delivered("quickbooks", qbRemote)
    /\ Ready

Status_OfLists == IF st = <<>> /\ qb = <<>> THEN "partial" ELSE "succeeded"
Status == IF failed = {} THEN "succeeded" ELSE "partial"

(* The matching is done and the run gets its status with its figures.      *)
StoreFigures ==
    /\ Summarise
    /\ status' = Status
    /\ UNCHANGED <<stRemote, qbRemote, failed>>

FetchedNext ==
    \/ Loops /\ UNCHANGED fetchedVars
    \/ StoreFigures
    \/ Finished /\ UNCHANGED fetchedVars

FetchedSpec == FetchedInit /\ [][FetchedNext]_<<vars, fetchedVars>>

-----------------------------------------------------------------------------
(* Properties.                                                             *)

(* The whole of ServiceTitan's list was asked for.                         *)
NotFetched == Len(stRemote) - Len(FirstPage(stRemote))
Fits == NotFetched = 0

Mismatches == {row \in rows : row.type = "amount_mismatch"}
ExplainedSt == matchedSt \cup {row.st : row \in Mismatches}

(* The two source systems hold the same: one invoice for each, agreeing.   *)
RemotesAgree ==
    /\ Len(stRemote) = Len(qbRemote)
    /\ \E f \in [DOMAIN stRemote -> DOMAIN qbRemote] :
          \A i, k \in DOMAIN stRemote :
             /\ Agree(stRemote[i], qbRemote[f[i]])
             /\ f[i] = f[k] => i = k

(* What the systems hold leaves a missing row true: each counterpart of    *)
(* its customer on the other side is explained by a match or a mismatch.   *)
MissingInQbIsTrue(row) ==
    \A j \in DOMAIN qbRemote :
       qbRemote[j].customer = row.customer => qbRemote[j].id \in matchedQb
MissingInStIsTrue(row) ==
    \A i \in DOMAIN stRemote :
       stRemote[i].customer = row.customer => stRemote[i].id \in ExplainedSt

(* The customers whom the run calls missing in ServiceTitan although an    *)
(* invoice of theirs is there that it has not explained.                   *)
Misreported ==
    {row.customer : row \in {x \in rows : x.type = "missing_in_servicetitan"
                                            /\ ~MissingInStIsTrue(x)}}

(* A run that is stored as succeeded tells the truth about the source      *)
(* systems and not only about what was fetched.  What it calls missing in  *)
(* QuickBooks is missing there.  What it calls missing in ServiceTitan is  *)
(* missing there, but for no more customers than there were invoices past  *)
(* the page; and if there were none, full health means that the two        *)
(* systems hold the same.                                                  *)
SucceededRunTellsTheTruth ==
    status = "succeeded" =>
        /\ \A row \in rows : row.type = "missing_in_quickbooks" => MissingInQbIsTrue(row)
        /\ Cardinality(Misreported) <= NotFetched
        /\ Fits /\ run.matched = run.of => RemotesAgree
==============================================================================
