-------------------------------- MODULE Rows --------------------------------
(***************************************************************************)
(* Rows of figures.  A row has a key k, which maps the columns it is       *)
(* broken down by to their values, figures m, which maps metrics (or the   *)
(* measures of a cube) to integers or Null, and an identity id, because    *)
(* two rows of an answer may have the same key and the same figures.       *)
(***************************************************************************)
EXTENDS Semantics

NoKey == <<>>
Row(id, k, m) == [id |-> id, k |-> k, m |-> m]

Figure(row, metric) == IF metric \in DOMAIN row.m THEN row.m[metric] ELSE Null
Having(rows, metric) == {r \in rows : Figure(r, metric) # Null}

(* Null where no row has a figure.                                         *)
SumOf(rows, metric) ==
  IF Having(rows, metric) = {} THEN Null
  ELSE SumFunction([r \in Having(rows, metric) |-> r.m[metric]])

GroupsBy(rows, KeyOf(_)) ==
  LET key == [r \in rows |-> KeyOf(r)]
  IN  {{r \in rows : key[r] = k} : k \in Range(key)}

(* A column a row lacks reads as Null (the code: the empty string).        *)
Value(k, dimension) == IF dimension \in DOMAIN k THEN k[dimension] ELSE Null
KeyFor(k, dimensions) == [d \in dimensions |-> Value(k, d)]

(* One row per value of dimensions, each figure added up.                  *)
Grouped(rows, dimensions, metrics) ==
  {LET k == KeyFor((CHOOSE r \in g : TRUE).k, dimensions)
   IN  Row(k, k, [x \in metrics |-> SumOf(g, x)]) :
     g \in GroupsBy(rows, LAMBDA r : KeyFor(r.k, dimensions))}

(* A derived metric is a fraction, all other figures are integers.         *)
AsFraction(metric, figure) ==
  IF metric \in DOMAIN Derived THEN figure ELSE <<figure, 1>>
NotLess(a, b) == (a[1] * b[2] - b[1] * a[2]) * (a[2] * b[2]) >= 0
AtLeast(metric, u, v) == NotLess(AsFraction(metric, u), AsFraction(metric, v))

(* The n rows with the largest figures; a row without one comes last.      *)
Largest(rows, metric, n) ==
  LET Above(r, s) == \/ Figure(s, metric) = Null
                     \/ /\ Figure(r, metric) # Null
                        /\ AtLeast(metric, r.m[metric], s.m[metric])
  IN  IF Cardinality(rows) <= n THEN rows
      ELSE rows \ CHOOSE rest \in kSubset(Cardinality(rows) - n, rows) :
                    \A r \in rows \ rest, s \in rest : Above(r, s)
=============================================================================
