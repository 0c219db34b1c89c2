---------------------------- MODULE Expressions ----------------------------
(***************************************************************************)
(* Values and expressions of a query (src/leafdb/executor.py): the          *)
(* interpreter eval_expr, the closures compile_expr makes of the same       *)
(* tree, the aggregates, and what the planner reads off a tree.             *)
(*                                                                          *)
(* A value is a record of its type and a number.  A text is told from       *)
(* another by its place in the order of texts; 0 is the empty one.  An      *)
(* exception is a value too: nothing catches one inside an expression.      *)
(* Of the numbers only integers are here, so AVG, which makes a fraction,   *)
(* is not.                                                                  *)
(***************************************************************************)
EXTENDS Integers, Sequences, FiniteSets, SequencesExt

CONSTANT Likes   \* pairs of a value and a pattern: the text of the value matches

Null    == [t |-> "null", v |-> 0]
Raise   == [t |-> "raise", v |-> 0]
Num(n)  == [t |-> "int", v |-> n]
Txt(n) == [t |-> "text", v |-> n]
Truth(b) == [t |-> "bool", v |-> IF b THEN 1 ELSE 0]
True    == Truth(TRUE)
False   == Truth(FALSE)

NoTable == ""
Star    == [k |-> "star"]
Nothing == [k |-> "nothing"]   \* no WHERE, no HAVING
Lit(v)     == [k |-> "lit", v |-> v]
Col(t, n)  == [k |-> "col", table |-> t, name |-> n]
Fn(f, e)   == [k |-> "agg", f |-> f, e |-> e, distinct |-> FALSE]
Bin(op, l, r)  == [k |-> "bin", op |-> op, l |-> l, r |-> r]
Not(e)         == [k |-> "not", e |-> e]
Neg(e)         == [k |-> "neg", e |-> e]
IsNull(e, neg) == [k |-> "isnull", e |-> e, neg |-> neg]
Between(e, lo, hi, neg) == [k |-> "between", e |-> e, lo |-> lo, hi |-> hi, neg |-> neg]
In(e, items, neg)       == [k |-> "in", e |-> e, items |-> items, neg |-> neg]
Like(e, pat, neg)       == [k |-> "like", e |-> e, pat |-> pat, neg |-> neg]

IsText(v)   == v.t = "text"
IsNumber(v) == v.t = "int"
Truthy(v)   == v.v # 0

-----------------------------------------------------------------------------
(* Operators on values *)

(* _eq: a text equals no number, TRUE equals 1. *)
Eq(l, r) == Truth(IsText(l) = IsText(r) /\ l.v = r.v)

(* _order_cmp raises for a text against a number. *)
Ordered(l, r, holds) == IF IsText(l) # IsText(r) THEN Raise ELSE Truth(holds)

Quotient(l, r) == LET q == (IF l < 0 THEN -l ELSE l) \div (IF r < 0 THEN -r ELSE r)
                  IN  IF (l < 0) = (r < 0) THEN q ELSE -q

Arith(op, l, r) ==
  CASE ~(IsNumber(l) /\ IsNumber(r)) -> Raise
    [] IsNumber(l) /\ IsNumber(r) /\ op = "+" -> Num(l.v + r.v)
    [] IsNumber(l) /\ IsNumber(r) /\ op = "-" -> Num(l.v - r.v)
    [] IsNumber(l) /\ IsNumber(r) /\ op = "*" -> Num(l.v * r.v)
    [] IsNumber(l) /\ IsNumber(r) /\ op = "/" -> IF r.v = 0 THEN Null ELSE Num(Quotient(l.v, r.v))

Scalar(op, l, r) ==
  CASE op = "="  -> Eq(l, r)
    [] op = "<>" -> Truth(Eq(l, r) = False)
    [] op = "<"  -> Ordered(l, r, l.v < r.v)
    [] op = "<=" -> Ordered(l, r, l.v <= r.v)
    [] op = ">"  -> Ordered(l, r, l.v > r.v)
    [] op = ">=" -> Ordered(l, r, l.v >= r.v)
    [] OTHER     -> Arith(op, l, r)

(* A raised operand raises, an absent one makes the result absent. *)
Strictly(vals, result) ==
  CASE Raise \in ToSet(vals) -> Raise
    [] Raise \notin ToSet(vals) /\ Null \in ToSet(vals) -> Null
    [] OTHER -> result

Negated(neg, v) == IF neg /\ v \notin {Null, Raise} THEN Truth(~Truthy(v)) ELSE v

Within(v, lo, hi) ==
  IF Raise \in {Ordered(v, lo, TRUE), Ordered(v, hi, TRUE)} THEN Raise
  ELSE Truth(lo.v <= v.v /\ v.v <= hi.v)

(* The items of IN are looked at in order, up to the first that equals v. *)
Member(v, items) ==
  LET ends == {i \in DOMAIN items : items[i] = Raise \/ (items[i] # Null /\ Eq(v, items[i]) = True)}
  IN  IF ends = {} THEN IF Null \in ToSet(items) THEN Null ELSE False
      ELSE IF items[CHOOSE i \in ends : \A j \in ends : i <= j] = Raise THEN Raise ELSE True

Matches(v, pat) ==
  IF ~IsText(pat) THEN Raise
  ELSE Truth(<<IF v.t = "bool" THEN Num(v.v) ELSE v, pat>> \in Likes)

Kleene(op, l, r) ==
  LET decides == IF op = "AND" THEN FALSE ELSE TRUE
  IN  CASE Raise \in {l, r} -> Raise
        [] Raise \notin {l, r} /\ \E v \in {l, r} \ {Null} : Truthy(v) = decides -> Truth(decides)
        [] Raise \notin {l, r} /\ \A v \in {l, r} \ {Null} : Truthy(v) # decides ->
             IF Null \in {l, r} THEN Null ELSE Truth(~decides)

-----------------------------------------------------------------------------
(* Evaluation.  env gives the columns and aggregates of a tree their values. *)

(* eval_expr: every operand is evaluated. *)
RECURSIVE Interpreted(_, _)
Interpreted(e, env) ==
  LET I(x) == Interpreted(x, env) IN
  CASE e.k = "lit" -> e.v
    [] e.k \in {"col", "agg"} -> env[e]
    [] e.k = "isnull" -> IF I(e.e) = Raise THEN Raise ELSE Truth((I(e.e) = Null) # e.neg)
    [] e.k = "between" ->
         LET v == I(e.e)  lo == I(e.lo)  hi == I(e.hi)
         IN  Negated(e.neg, Strictly(<<v, lo, hi>>, Within(v, lo, hi)))
    [] e.k = "in" ->
         LET v == I(e.e)
         IN  Negated(e.neg, Strictly(<<v>>, Member(v, [i \in DOMAIN e.items |-> I(e.items[i])])))
    [] e.k = "like" ->
         LET v == I(e.e)  pat == I(e.pat)
         IN  Negated(e.neg, Strictly(<<v, pat>>, Matches(v, pat)))
    [] e.k = "not" -> Strictly(<<I(e.e)>>, Truth(~Truthy(I(e.e))))
    [] e.k = "neg" -> LET v == I(e.e)
                      IN  Strictly(<<v>>, IF IsNumber(v) THEN Num(-v.v) ELSE Raise)
    [] e.k = "bin" /\ e.op \in {"AND", "OR"} -> Kleene(e.op, I(e.l), I(e.r))
    [] e.k = "bin" /\ e.op \notin {"AND", "OR"} ->
         Strictly(<<I(e.l), I(e.r)>>, Scalar(e.op, I(e.l), I(e.r)))

(* The closures of compile_expr stop as soon as the result is known. *)
Connective_Mutant(op, l, r) ==
  LET decides == op = "OR"
  IN  CASE l \in {Null, Raise} -> l
        [] l \notin {Null, Raise} /\ Truthy(l) = decides -> Truth(decides)
        [] l \notin {Null, Raise} /\ Truthy(l) # decides ->
             IF r \in {Null, Raise} THEN r ELSE Truth(Truthy(r))

Connective(op, l, r) ==
  LET decides == op = "OR"
      Decided(x) == x \notin {Null, Raise} /\ Truthy(x) = decides
  IN  CASE l = Raise -> Raise
        [] l # Raise /\ Decided(l) -> Truth(decides)
        [] l # Raise /\ ~Decided(l) ->
             CASE r = Raise -> Raise
               [] r # Raise /\ Decided(r) -> Truth(decides)
               [] r # Raise /\ ~Decided(r) -> IF Null \in {l, r} THEN Null ELSE Truth(~decides)

RECURSIVE Compiled(_, _)
Compiled(e, env) ==
  LET C(x) == Compiled(x, env) IN
  CASE e.k = "lit" -> e.v
    [] e.k \in {"col", "agg"} -> env[e]
    [] e.k = "isnull" -> LET v == C(e.e) IN IF v = Raise THEN Raise ELSE Truth((v = Null) # e.neg)
    [] e.k = "between" ->
         LET v == C(e.e)
         IN  IF v \in {Null, Raise} THEN v
             ELSE Negated(e.neg, Strictly(<<C(e.lo), C(e.hi)>>, Within(v, C(e.lo), C(e.hi))))
    [] e.k = "in" ->
         LET v == C(e.e)
         IN  IF v \in {Null, Raise} THEN v
             ELSE Negated(e.neg, Member(v, [i \in DOMAIN e.items |-> C(e.items[i])]))
    [] e.k = "like" ->
         Negated(e.neg, Strictly(<<C(e.e), C(e.pat)>>, Matches(C(e.e), C(e.pat))))
    [] e.k = "not" -> LET v == C(e.e) IN IF v \in {Null, Raise} THEN v ELSE Truth(~Truthy(v))
    [] e.k = "neg" -> LET v == C(e.e)
                      IN  IF v \in {Null, Raise} THEN v ELSE IF IsNumber(v) THEN Num(-v.v) ELSE Raise
    [] e.k = "bin" /\ e.op \in {"AND", "OR"} -> Connective(e.op, C(e.l), C(e.r))
    [] e.k = "bin" /\ e.op \notin {"AND", "OR"} ->
         LET l == C(e.l)  r == C(e.r) IN Strictly(<<l, r>>, Scalar(e.op, l, r))

-----------------------------------------------------------------------------
(* Trees *)

RECURSIVE FlattenAnd(_)
FlattenAnd(e) == IF e.k = "bin" /\ e.op = "AND" THEN FlattenAnd(e.l) \o FlattenAnd(e.r) ELSE <<e>>

Children(e) ==
  CASE e.k = "bin" -> {e.l, e.r}
    [] e.k \in {"not", "neg", "isnull"} -> {e.e}
    [] e.k = "between" -> {e.e, e.lo, e.hi}
    [] e.k = "in" -> {e.e} \cup ToSet(e.items)
    [] e.k = "like" -> {e.e, e.pat}
    [] OTHER -> {}

(* The columns and aggregates of a tree, those of an aggregate's argument aside. *)
RECURSIVE Leaves(_)
Leaves(e) == IF e.k \in {"col", "agg"} THEN {e} ELSE UNION {Leaves(c) : c \in Children(e)}

Columns(e) == {x \in Leaves(e) : x.k = "col"}

(* walk_func_nodes does not look into BETWEEN, IN and LIKE. *)
RECURSIVE Funcs(_)
Funcs(e) == IF e.k = "agg" THEN {e}
            ELSE IF e.k \in {"bin", "not", "neg", "isnull"} THEN UNION {Funcs(c) : c \in Children(e)}
            ELSE {}

(* gather, in _conjunct_tables, does not look at the pattern of LIKE. *)
RECURSIVE Gathered(_)
Gathered(e) == IF e.k = "col" THEN {e}
               ELSE UNION {Gathered(c) : c \in IF e.k = "like" THEN {e.e} ELSE Children(e)}

-----------------------------------------------------------------------------
(* _accumulate, over the values that are not absent. *)
Accumulate(f, vals) ==
  LET Sum(x, y)   == IF IsNumber(x) /\ IsNumber(y) THEN Num(x.v + y.v) ELSE Raise
      Best(x, y)  == CASE Raise \in {x, Ordered(x, y, TRUE)} -> Raise
                       [] OTHER -> IF (f = "MIN" /\ x.v > y.v) \/ (f = "MAX" /\ x.v < y.v)
                                   THEN y ELSE x
  IN  CASE f = "COUNT" -> Num(Len(vals))
        [] f # "COUNT" /\ vals = << >> -> Null
        [] f = "SUM" /\ vals # << >> -> FoldLeft(Sum, Head(vals), Tail(vals))
        [] f \in {"MIN", "MAX"} /\ vals # << >> -> FoldLeft(Best, Head(vals), Tail(vals))
=============================================================================
