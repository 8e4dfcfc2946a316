---------------------------- MODULE LuaTableSpec ----------------------------
(***************************************************************************)
(* What a table promises to the scripts: it is a function from keys to     *)
(* values, and next visits every key that keeps a value, each once, as     *)
(* long as no key is given its first value meanwhile.                      *)
(***************************************************************************)
CONSTANTS Keys, Values, Nil

VARIABLES
  map,       \* the value of each key, Nil when it has none
  visiting,  \* a traversal goes on
  seen       \* the keys it has visited

Init == map = [k \in Keys |-> Nil] /\ visiting = FALSE /\ seen = {}

Assign(k, v) ==
  /\ visiting => map[k] # Nil
  /\ map' = [map EXCEPT ![k] = v]
  /\ UNCHANGED <<visiting, seen>>

Begin == ~visiting /\ visiting' = TRUE /\ seen' = {} /\ UNCHANGED map

Visit(k) ==
  /\ visiting /\ map[k] # Nil /\ k \notin seen
  /\ seen' = seen \cup {k}
  /\ UNCHANGED <<map, visiting>>

End ==
  /\ visiting /\ {k \in Keys : map[k] # Nil} \subseteq seen
  /\ visiting' = FALSE /\ seen' = {}
  /\ UNCHANGED map

Next ==
  \/ \E k \in Keys : Visit(k) \/ \E v \in Values \cup {Nil} : Assign(k, v)
  \/ Begin \/ End

Spec == Init /\ [][Next]_<<map, visiting, seen>>
=============================================================================
