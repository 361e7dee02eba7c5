-------------------------- MODULE AbstractBreaker --------------------------
(***************************************************************************)
(* What the circuit breaker promises, without workers, words or clocks:    *)
(* the state diagram of the breaker with numbered probe leases.  A lease   *)
(* is granted once, to one probe; only a success of that lease's own probe *)
(* closes the breaker; every other way out of HALF_OPEN reopens it.        *)
(***************************************************************************)
EXTENDS Naturals

VARIABLES
    st,         \* "CLOSED", "OPEN" or "HALF_OPEN"
    gen,        \* number of the last lease granted
    out,        \* the leases whose probe is still out
    good        \* the leases whose probe was answered

avars == <<st, gen, out, good>>

Init == st = "CLOSED" /\ gen = 0 /\ out = {} /\ good = {}

(* Failures trip a closed breaker. *)
Trip ==
    /\ st = "CLOSED"
    /\ st' = "OPEN"
    /\ UNCHANGED <<gen, out, good>>

(* An open breaker lets one probe through, under a new lease. *)
Grant ==
    /\ st = "OPEN"
    /\ st' = "HALF_OPEN"
    /\ gen' = gen + 1
    /\ out' = out \cup {gen + 1}
    /\ UNCHANGED good

(* A probe that is out is answered by the origin. *)
Good(g) ==
    /\ g \in out
    /\ good' = good \cup {g}
    /\ UNCHANGED <<st, gen, out>>

(* A probe is gone, whatever it reported. *)
Gone(g) ==
    /\ g \in out
    /\ out' = out \ {g}
    /\ UNCHANGED <<st, gen, good>>

(* The current lease's own success closes the breaker as the probe ends. *)
Recover ==
    /\ st = "HALF_OPEN"
    /\ gen \in out /\ gen \in good
    /\ st' = "CLOSED"
    /\ out' = out \ {gen}
    /\ UNCHANGED <<gen, good>>

(* The lease failed: its probe ends, ... *)
Refail ==
    /\ st = "HALF_OPEN"
    /\ gen \in out
    /\ st' = "OPEN"
    /\ out' = out \ {gen}
    /\ UNCHANGED <<gen, good>>

(* ... or it was taken away, its probe still out or long gone. *)
Revoke ==
    /\ st = "HALF_OPEN"
    /\ st' = "OPEN"
    /\ UNCHANGED <<gen, out, good>>

Next == Trip \/ Grant \/ Recover \/ Refail \/ Revoke
        \/ \E g \in out : Good(g) \/ Gone(g)

Spec == Init /\ [][Next]_avars

=============================================================================
