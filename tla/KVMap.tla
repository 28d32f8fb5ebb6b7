------------------------------- MODULE KVMap -------------------------------
(***************************************************************************)
(* What the hash table promises its callers: each call takes effect as one *)
(* step on a map.  A deletion that was called before the table grew, and   *)
(* takes effect after, is not promised: it may find nothing.               *)
(***************************************************************************)
CONSTANTS Caller, Key, Value, None

VARIABLES
  map,        \* the value of each key, None when it has none
  deleting,   \* the callers of a deletion that has not taken effect
  outgrown,   \* those of them whose table has grown since
  answer      \* what a caller's last call returned

mapVars == <<map, deleting, outgrown, answer>>

Init ==
  /\ map = [k \in Key |-> None]
  /\ deleting = {} /\ outgrown = {}
  /\ answer = [t \in Caller |-> None]

Answer(t, v) == answer' = [answer EXCEPT ![t] = v]

Get(t, k) == Answer(t, map[k]) /\ UNCHANGED <<map, deleting, outgrown>>

\* Only a key that is new makes the table grow.
Set(t, k, v) ==
  /\ map' = [map EXCEPT ![k] = v]
  /\ Answer(t, map[k])
  /\ outgrown' \in {outgrown} \cup (IF map[k] = None THEN {deleting} ELSE {})
  /\ UNCHANGED deleting

StartDel(t) ==
  /\ t \notin deleting
  /\ deleting' = deleting \cup {t}
  /\ UNCHANGED <<map, outgrown, answer>>

Ended(t) == deleting' = deleting \ {t} /\ outgrown' = outgrown \ {t}

Del(t, k) ==
  /\ t \in deleting
  /\ map' = [map EXCEPT ![k] = None]
  /\ Answer(t, map[k])
  /\ Ended(t)

MissedDel(t) ==
  /\ t \in outgrown
  /\ Answer(t, None)
  /\ Ended(t)
  /\ UNCHANGED map

Next ==
  \E t \in Caller :
    \/ StartDel(t) \/ MissedDel(t)
    \/ \E k \in Key : Get(t, k) \/ Del(t, k) \/ \E v \in Value : Set(t, k, v)

Spec == Init /\ [][Next]_mapVars
=============================================================================
