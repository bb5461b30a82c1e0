---------------------------- MODULE AuditContract ----------------------------
(***************************************************************************)
(* What a durable audit store promises an emitter: an event is recorded    *)
(* under its idempotency key at most once and never changed or removed,    *)
(* and what is confirmed to the emitter has been recorded.                 *)
(***************************************************************************)
VARIABLES
    recorded,   \* key -> the event recorded under it (DOMAIN grows, values never change)
    confirmed   \* keys whose recording an emitter was told of

contractVars == <<recorded, confirmed>>

ContractInit == DOMAIN recorded = {} /\ confirmed = {}

\* A new key is recorded, or nothing is; existing keys keep their event.
AppendsOnce ==
    /\ DOMAIN recorded \subseteq DOMAIN recorded'
    /\ \A k \in DOMAIN recorded : recorded'[k] = recorded[k]
    /\ \A k, l \in DOMAIN recorded' \ DOMAIN recorded : k = l

\* A key is confirmed only once it is recorded, and stays confirmed.
Confirms ==
    /\ confirmed \subseteq confirmed'
    /\ confirmed' \subseteq DOMAIN recorded'

Contract == ContractInit /\ [][AppendsOnce /\ Confirms]_contractVars
=============================================================================
