-------------------------- MODULE MCOverlayQueries --------------------------
(* Three near rows, two rows per related view.  One workload is rich in data *)
(* and queries, the other in what the session does around a few of them.     *)
EXTENDS OverlayQueries, TLC

CONSTANTS t1, t2, WithNulls, WithProjections

MCWorlds ==
  {[near   |-> (1 :> [v |-> 0, to |-> f]) @@ (2 :> [v |-> x, to |-> t1])
               @@ (3 :> [v |-> 1, to |-> NoRow]),
    column |-> [r \in Relation |-> c],
    links  |-> ("phones" :> l) @@ ("addresses" :> {<<1, t1>>, <<1, t2>>})] :
      f \in {t1, t2}, x \in {0, 1},
      c \in {[t \in Target |-> 0], (t1 :> 0) @@ (t2 :> 1), (t1 :> 1) @@ (t2 :> Null)},
      l \in SUBSET {<<1, t1>>, <<1, t2>>, <<2, t2>>}}

Tests == {"exact", "no relation", "F"} \cup IF WithNulls THEN {"is null"} ELSE {}
Arguments ==
  {c \in Clause :
     /\ c.path = "self" => c.test = "exact" /\ ~c.negated
     /\ c.path = "addresses" => c.test = "exact" /\ ~c.negated
     /\ c.test \in Tests
     /\ c.test = "no relation" => ~c.negated}

Wheres == {<<>>} \cup {<<c>> : c \in Arguments}
          \cup {<<c, [path |-> p, test |-> "exact", negated |-> FALSE]>> :
                  c \in Arguments, p \in Relation \cup {"self"}}

Plain == [where |-> <<>>, connector |-> "AND", chained |-> FALSE, among |-> {},
          result |-> "rows", distinct |-> FALSE, limit |-> 0, direct |-> FALSE,
          selective |-> FALSE]

Lists == {{}, {[key |-> 1, type |-> "int"]},
          {[key |-> 1, type |-> "int"], [key |-> 2, type |-> "int"]},
          {[key |-> 1, type |-> "bool"], [key |-> 3, type |-> "int"]}}

Filters == {[Plain EXCEPT !.where = w, !.connector = o, !.chained = h] :
              w \in Wheres, o \in {"AND", "OR"}, h \in BOOLEAN}
Pages1  == {[Plain EXCEPT !.where = w, !.limit = k, !.distinct = d] :
              w \in {x \in Wheres : Len(x) <= 1}, k \in {1, 2}, d \in BOOLEAN}
InLists == {[Plain EXCEPT !.among = a, !.result = r] :
              a \in Lists, r \in {"rows", "values", "groups"}}
Projections ==
  {q \in {[Plain EXCEPT !.result = r, !.distinct = d, !.limit = k] :
            r \in {"values", "groups"}, d \in BOOLEAN, k \in {1, 2}} :
     WithProjections \/ (q.result = "values" /\ ~q.distinct)}

\* Statements of one, two, three and five views, sliced and not.
Shapes ==
  {[Plain EXCEPT !.where = w, !.limit = k, !.result = r, !.selective = s, !.direct = d] :
     w \in {<<>>} \cup
           {<<[path |-> p, test |-> "exact", negated |-> n]>> :
              p \in {"customer", "phones"}, n \in BOOLEAN}
           \cup {<<[path |-> "phones", test |-> "exact", negated |-> FALSE],
                   [path |-> "addresses", test |-> "exact", negated |-> FALSE]>>},
     k \in {0, 1}, r \in {"rows", "count"}, s \in BOOLEAN, d \in BOOLEAN}

MCWorkload ==
  [data |->
     [worlds |-> MCWorlds, queries |-> Filters \cup Pages1 \cup InLists \cup Projections,
      depth |-> 0, fails |-> FALSE],
   sessions |->
     [worlds |-> {CHOOSE w \in MCWorlds : TRUE}, queries |-> Shapes,
      depth |-> 2, fails |-> TRUE]]
=============================================================================
