-------------------------- MODULE MCListingClients --------------------------
(* Three runs of one or two rows; see ListingClients.cfg.                  *)
EXTENDS ListingClients
CONSTANTS r1, r2, r3

MCRowsOf == (r1 :> <<"error", "warning">>) @@ (r2 :> <<"error">>) @@ (r3 :> <<"error">>)
=============================================================================
