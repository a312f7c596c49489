---------------------------- MODULE FunctorCells ----------------------------
(***************************************************************************)
(* The promise of small_functor: a variable that is empty or has a         *)
(* callable, with value semantics.                                         *)
(***************************************************************************)
CONSTANTS Functors, Types, Copyable, Values, Nil

VARIABLES
  content,     \* the callable of each functor; Empty for none and for no functor
  living,      \* the functors that exist
  result       \* what the last call returned

cellVars == <<content, living, result>>

Empty == [type |-> Nil, value |-> Nil]

CellInit ==
  /\ content = [f \in Functors |-> Empty]
  /\ living = {}
  /\ result = Nil

Make(f, c) ==
  /\ f \notin living
  /\ living' = living \cup {f}
  /\ content' = [content EXCEPT ![f] = c]
  /\ UNCHANGED result

CopyOf(g) == IF content[g].type \in Copyable THEN content[g] ELSE Empty

MakeFrom(f, g) ==
  /\ f \notin living /\ g \in living
  /\ living' = living \cup {f}
  /\ content' = [content EXCEPT ![f] = content[g], ![g] = Empty]
  /\ UNCHANGED result

Assign(f, g) ==
  /\ {f, g} \subseteq living /\ f # g
  /\ content' = [content EXCEPT ![f] = CopyOf(g)]
  /\ UNCHANGED <<living, result>>

Exchange(f, g) ==
  /\ {f, g} \subseteq living
  /\ content' = [content EXCEPT ![f] = content[g], ![g] = content[f]]
  /\ UNCHANGED <<living, result>>

Drop(f) ==
  /\ f \in living
  /\ living' = living \ {f}
  /\ content' = [content EXCEPT ![f] = Empty]
  /\ UNCHANGED result

Answer(f) ==
  /\ f \in living /\ content[f] # Empty
  /\ result' = content[f].value
  /\ UNCHANGED <<content, living>>

CellNext ==
  \/ \E f \in Functors : Drop(f) \/ Answer(f) \/ Make(f, Empty)
  \/ \E f \in Functors, T \in Types, x \in Values : Make(f, [type |-> T, value |-> x])
  \/ \E f, g \in Functors :
       \/ g \in living /\ Make(f, CopyOf(g))
       \/ MakeFrom(f, g) \/ Assign(f, g) \/ Exchange(f, g)

CellSpec == CellInit /\ [][CellNext]_cellVars

=============================================================================
