----------------------------- MODULE KeyValueMap -----------------------------
(***************************************************************************)
(* What the agent's database promises its callers: a map from keys to      *)
(* values that changes by one put or one delete at a time and in no other  *)
(* way.  There is no crash, no file and no compaction here.                *)
(***************************************************************************)
CONSTANTS Keys, None, Puts

VARIABLE map

Init == map = [k \in Keys |-> None]

Put(k, v) == map' = [map EXCEPT ![k] = v]

Delete(k) == map' = [map EXCEPT ![k] = None]

Next == \/ \E p \in Puts : Put(p[1], p[2])
        \/ \E k \in Keys : Delete(k)

Spec == Init /\ [][Next]_map
=============================================================================
