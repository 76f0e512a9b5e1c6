----------------------------- MODULE Dictionary -----------------------------
(***************************************************************************)
(* What an ObjMap of object.h promises to the programs that use it: a      *)
(* finite map from strings to values, where every operation returns what   *)
(* the operations before it imply.                                         *)
(***************************************************************************)
CONSTANTS Keys, Values, Nil

VARIABLES dict,    \* a function from a subset of Keys to Values
          result   \* what the last operation returned

vars == <<dict, result>>

Answer(found, v) == [found |-> found, value |-> v]

Lookup(k) == IF k \in DOMAIN dict THEN Answer(TRUE, dict[k])
                                  ELSE Answer(FALSE, Nil)

Init == dict = <<>> /\ result = Answer(FALSE, Nil)

Set(k, v) ==
    /\ dict' = [j \in DOMAIN dict \cup {k} |-> IF j = k THEN v ELSE dict[j]]
    /\ result' = Answer(k \in DOMAIN dict, v)

Get(k) ==
    /\ result' = Lookup(k)
    /\ UNCHANGED dict

Delete(k) ==
    /\ dict' = [j \in DOMAIN dict \ {k} |-> dict[j]]
    /\ result' = Answer(k \in DOMAIN dict, Nil)

Next == \E k \in Keys :
           \/ \E v \in Values : Set(k, v)
           \/ Get(k)
           \/ Delete(k)

Spec == Init /\ [][Next]_vars
=============================================================================
