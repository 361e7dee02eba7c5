--------------------------- MODULE MCStorePolicy ---------------------------
(* Bounded instances of StorePolicy for TLC. *)
EXTENDS StorePolicy

Silent == [surrogate |-> -1, cdnShared |-> -1, cdn |-> -1, shared |-> -1,
           max |-> -1, expires |-> -1, swr |-> -1, sie |-> -1,
           must |-> FALSE, forbids |-> FALSE, cookie |-> "none",
           plain |-> TRUE, error |-> FALSE]

\* One answer for each of the decisions.
AllHeaders ==
    {Silent,
     [Silent EXCEPT !.surrogate = 2, !.max = 0],
     [Silent EXCEPT !.cdn = 3, !.max = 1, !.swr = 9, !.sie = 1],
     [Silent EXCEPT !.shared = 9, !.max = 1, !.swr = 1, !.sie = 9],
     [Silent EXCEPT !.expires = 1],
     [Silent EXCEPT !.max = 1, !.must = TRUE, !.swr = 2],
     [Silent EXCEPT !.forbids = TRUE],
     [Silent EXCEPT !.cookie = "listed"],
     [Silent EXCEPT !.cookie = "other"],
     [Silent EXCEPT !.plain = FALSE],
     [Silent EXCEPT !.error = TRUE]}

Location == [mode |-> "respect", valid |-> 1, mult |-> 4, keep |-> 0,
             listed |-> TRUE, keyed |-> FALSE, errors |-> TRUE]

AllConfs ==
    {Location,
     [Location EXCEPT !.mode = "honor", !.keep = 9],
     [Location EXCEPT !.mode = "ignore", !.keep = 1, !.keyed = TRUE],
     [Location EXCEPT !.valid = 0, !.errors = FALSE]}

\* For StorePolicy_revalidate: a past Expires with must-revalidate.
Expiring == {[Silent EXCEPT !.expires = 0, !.must = TRUE]}
Honoring == {[Location EXCEPT !.mode = "honor"]}
=============================================================================
