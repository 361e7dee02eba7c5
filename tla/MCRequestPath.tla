--------------------------- MODULE MCRequestPath ---------------------------
(* Bounded instances of RequestPath for TLC. *)
EXTENDS RequestPath, TLC

Plain == [auth |-> FALSE, head |-> FALSE, decodes |-> TRUE,
          cachedOnly |-> FALSE, noStore |-> FALSE, reval |-> FALSE,
          oldest |-> 2, class |-> "plain"]

Simple == [lock |-> FALSE, backend |-> FALSE, background |-> FALSE,
           minUses |-> FALSE, serveAuth |-> FALSE, fallback |-> FALSE,
           keepStale |-> FALSE, storeHead |-> FALSE]

\* One request of each sort.
AllKinds ==
    {Plain,
     [Plain EXCEPT !.auth = TRUE, !.decodes = FALSE, !.oldest = 0],
     [Plain EXCEPT !.head = TRUE, !.noStore = TRUE],
     [Plain EXCEPT !.cachedOnly = TRUE],
     [Plain EXCEPT !.reval = TRUE, !.noStore = TRUE],
     [Plain EXCEPT !.reval = TRUE, !.cachedOnly = TRUE],
     [Plain EXCEPT !.class = "rule"],
     [Plain EXCEPT !.class = "dynamic"]}

Full == [lock |-> TRUE, backend |-> TRUE, background |-> TRUE,
         minUses |-> TRUE, serveAuth |-> TRUE, fallback |-> FALSE,
         keepStale |-> TRUE, storeHead |-> TRUE]

AllConfs ==
    {[Full EXCEPT !.storeHead = FALSE, !.serveAuth = FALSE],
     [Full EXCEPT !.fallback = TRUE, !.keepStale = FALSE],
     [Full EXCEPT !.background = FALSE, !.lock = FALSE],
     [Full EXCEPT !.backend = FALSE, !.serveAuth = FALSE]}

\* The location of the fallback and a plain request, for RequestPath_fallback
\* and RequestPath_mark.
OnePlain == {Plain}
Fallback == {[Full EXCEPT !.fallback = TRUE]}
OnePublic == {{}}

\* A request that asks for the freshest copy only, for RequestPath_bounds.
OneBounded == {[Plain EXCEPT !.oldest = 0]}
OneFull == {Full}

AllStored == {{}, {"private", "coded"}, {"head"}}

=============================================================================
