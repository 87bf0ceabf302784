-------------------------------- MODULE MCStore --------------------------------
EXTENDS Store, TLC
CONSTANTS p1, p2, t1, t2, t3, a, b, m, n, view

Homes == t1 :> p1 @@ t2 :> p1 @@ t3 :> p2
\* What analyses find: two symbols, and edges of two depths between them.
Large == [names |-> a :> m @@ b :> m, edges |-> {<<<<a, b>>, 1>>, <<<<a, b>>, 2>>}]
\* They may include a route whose handler, a view, is not found.
Routed == [Large EXCEPT !.edges = @ \cup {<<<<a, view>>, 1>>}]
Found == {Large, Routed}
\* What an older version left: one of them alone.
Small == [names |-> a :> m, edges |-> {}]

\* The two threads of the first process are alike.
Alike == Permutations({t1, t2})
================================================================================
