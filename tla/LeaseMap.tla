------------------------------- MODULE LeaseMap -------------------------------
(***************************************************************************)
(* What a cache with a lifetime per entry promises its readers: a key has  *)
(* the value last put in it for exactly as many ticks as it was put for,   *)
(* unless it is put or removed again, and nothing else changes what a      *)
(* reader sees.                                                            *)
(***************************************************************************)
EXTENDS Naturals

CONSTANTS Keys, Values, Ttls, Null

VARIABLES value,   \* key -> what a reader sees, Null for nothing
          left,    \* key -> ticks for which a reader still sees it
          answer   \* what the last reader was told

LeaseInit ==
    /\ value = [k \in Keys |-> Null]
    /\ left = [k \in Keys |-> 0]
    /\ answer = Null

Grant(k, v, ttl) ==
    /\ value' = [value EXCEPT ![k] = IF ttl > 0 THEN v ELSE Null]
    /\ left' = [left EXCEPT ![k] = ttl]
    /\ UNCHANGED answer

Revoke(k) ==
    /\ value' = [value EXCEPT ![k] = Null]
    /\ left' = [left EXCEPT ![k] = 0]
    /\ UNCHANGED answer

Look(k) ==
    /\ answer' = value[k]
    /\ UNCHANGED <<value, left>>

Lapse ==
    /\ left' = [k \in Keys |-> IF left[k] > 0 THEN left[k] - 1 ELSE 0]
    /\ value' = [k \in Keys |-> IF left[k] > 1 THEN value[k] ELSE Null]
    /\ UNCHANGED answer

LeaseNext ==
    \/ \E k \in Keys, v \in Values, ttl \in Ttls : Grant(k, v, ttl)
    \/ \E k \in Keys : Revoke(k) \/ Look(k)
    \/ Lapse

LeaseSpec == LeaseInit /\ [][LeaseNext]_<<value, left, answer>>

==============================================================================
