---------------------------- MODULE BoundedCache ----------------------------
(***************************************************************************)
(* What the in-process DNS response cache promises to the resolver that    *)
(* uses it, without saying how recency is kept: at most Capacity keys are  *)
(* held, storing a value makes it the key's value, and a store costs at    *)
(* most one other key, and only when the cache was full.  Values may also  *)
(* be dropped one at a time (expiry).                                      *)
(***************************************************************************)
EXTENDS Integers, FiniteSets

CONSTANTS Key, Value, NoValue, Capacity

VARIABLE held

Held(h) == {k \in Key : h[k] # NoValue}

Init == held = [k \in Key |-> NoValue]

Drop(k) ==
    /\ k \in Held(held)
    /\ held' = [held EXCEPT ![k] = NoValue]

Store(k, v) ==
    /\ k \in Held(held) \/ Cardinality(Held(held)) < Capacity
    /\ held' = [held EXCEPT ![k] = v]

StoreEvicting(k, v, victim) ==
    /\ k \notin Held(held)
    /\ victim \in Held(held)
    /\ Cardinality(Held(held)) = Capacity
    /\ held' = [held EXCEPT ![k] = v, ![victim] = NoValue]

Next ==
    \/ \E k \in Key : Drop(k)
    \/ \E k \in Key, v \in Value : Store(k, v)
    \/ \E k, victim \in Key, v \in Value : StoreEvicting(k, v, victim)

Spec == Init /\ [][Next]_held
=============================================================================
