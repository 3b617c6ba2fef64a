--------------------------------- MODULE KvMap ---------------------------------
(***************************************************************************)
(* What a key-value store promises: a map from keys to values in which one  *)
(* key at a time is written or deleted.  Nothing else ever changes it, so a *)
(* flush or a compaction, and a crash between two writes, is not visible at *)
(* this level.  A map may become unreadable, and then stays so.             *)
(***************************************************************************)
CONSTANTS Keys, Vals, None, Refused

VARIABLE dict

Init == dict = [k \in Keys |-> None]

Put(k, v) == dict # Refused /\ dict' = [dict EXCEPT ![k] = v]
Delete(k) == dict # Refused /\ dict' = [dict EXCEPT ![k] = None]
Refuse == dict' = Refused

Next == Refuse \/ \E k \in Keys : (\E v \in Vals : Put(k, v)) \/ Delete(k)

Spec == Init /\ [][Next]_dict
=============================================================================
