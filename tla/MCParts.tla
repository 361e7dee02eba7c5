------------------------------ MODULE MCParts ------------------------------
(***************************************************************************)
(* Bounded instances, for TLC, of four parts that share no variable: the   *)
(* bodies' references (BlobRefs), the origin's answers (StorePolicy), the  *)
(* zone (LruZone) and the framing of replies (Framing).  A behaviour is    *)
(* one of one part, the others stay where they start: what steps of        *)
(* independent parts would do in between says nothing new.                 *)
(***************************************************************************)
EXTENDS BlobRefs, MCStorePolicy, LruZone, MCFraming

VARIABLE part       \* the part that moves

parts == <<part, vars, policyVars, zoneVars, framingVars>>

PartsInit ==
    /\ part \in {"bodies", "answers", "zone", "wire"}
    /\ Init
    /\ PolicyInit /\ (part # "answers" => conf = Location)
    /\ ZoneInit /\ (part # "zone" => pct = CHOOSE p \in Pcts : TRUE)
    /\ FramingInit
    /\ part # "wire" => reader = "walk" /\ wire = CHOOSE w \in Walks : TRUE

Bodies ==
    /\ part = "bodies" /\ Next
    /\ UNCHANGED <<part, policyVars, zoneVars, framingVars>>
Answers ==
    /\ part = "answers" /\ PolicyNext
    /\ UNCHANGED <<part, vars, zoneVars, framingVars>>
TheZone ==
    /\ part = "zone" /\ ZoneNext
    /\ UNCHANGED <<part, vars, policyVars, framingVars>>
TheWire ==
    /\ part = "wire" /\ FramingNext
    /\ UNCHANGED <<part, vars, policyVars, zoneVars>>

PartsNext == Bodies \/ Answers \/ TheZone \/ TheWire

(* The worker that purges goes on from batch to batch, as in LruZone's       *)
(* ZoneFairSpec.                                                            *)
PartsSpec ==
    PartsInit /\ [][PartsNext]_parts /\ WF_purge(PurgeCount)

=============================================================================
