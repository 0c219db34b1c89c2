------------------------------- MODULE Query -------------------------------
(***************************************************************************)
(* One SELECT, from its tree to its rows: the plan (src/leafdb/planner.py),  *)
(* the pipeline of the executor (executor.py:533) and the two shortcuts of   *)
(* the session (engine.py:280, 615).                                        *)
(*                                                                          *)
(* A table is what Catalog shows it to be: rows by row id, and indexes that  *)
(* agree with them.  A combination of rows, one of each table joined so far, *)
(* is the sequence of their row ids, NoRow where an outer join has none.     *)
(***************************************************************************)
EXTENDS Expressions, Relations

CONSTANTS Families,  \* pairs of contents of the tables and of queries to ask of them
          Assumed    \* what is assumed of the queries, see Discipline

Discipline == {"outer",   \* no condition is applied before a later RIGHT or FULL join
               "like",    \* the pattern of LIKE names no column of a table joined later
               "fast",    \* a lookup by primary key selects columns and literals only
               "bare"}    \* the terms of WHERE are conditions, not numbers or texts

ASSUME QueryAssumption == Assumed \subseteq Discipline

VARIABLES db,       \* [table -> [cols, pk, indexed, rows]]
          sel,      \* the SELECT: [from, where, items, group, having, order, distinct, limit, offset]
          phase,    \* the last step done
          plan,     \* Plan: [path, joins, filters]
          contexts, \* the combinations of rows found so far, in order
          output    \* rows of the result with their sort keys

vars == <<db, sel, phase, plan, contexts, output>>

NoColumn == ""
NoLimit  == -1
NoPlan   == [path |-> [type |-> "none"], joins |-> << >>, filters |-> << >>]
NoAggs   == << >>

Sources == Len(sel.from)
Meta(k) == db[sel.from[k].table]
Has(k, name) == name \in ToSet(Meta(k).cols)
Rids(k) == DOMAIN Meta(k).rows
RidSeq(k) == SetToSortSeq(Rids(k), <)
Where   == IF sel.where = Nothing THEN << >> ELSE FlattenAnd(sel.where)

-----------------------------------------------------------------------------
(* Scope: which source a column of the first k sources means *)

Slots(c, k) == {i \in 1 .. k : c.table \in {NoTable, sel.from[i].alias} /\ Has(i, c.name)}
Resolves(c, k) == Cardinality(Slots(c, k)) = 1
Slot(c, k)  == CHOOSE i \in Slots(c, k) : TRUE

(* Labels of aggregates in the select list; a later one hides an earlier one. *)
Labelled(name) == {i \in DOMAIN sel.items : sel.items[i].e.k = "agg" /\ sel.items[i].label = name}
Alias(name)    == sel.items[Max(Labelled(name))].e

(* compile_expr fails for a column that means no source, or several. *)
Compiles(e, k, alias) ==
  \A c \in Columns(e) : Resolves(c, k) \/ (alias /\ c.table = NoTable /\ Labelled(c.name) # {})

ValueIn(c, k, ctx) == IF ctx[Slot(c, k)] = NoRow THEN Null
                      ELSE Meta(Slot(c, k)).rows[ctx[Slot(c, k)]][c.name]

Env(e, k, ctx, aggs) ==
  [x \in Leaves(e) |->
     IF x.k = "col" /\ Resolves(x, k) THEN ValueIn(x, k, ctx)
     ELSE LET fn == IF x.k = "agg" THEN x ELSE Alias(x.name)
          IN  IF fn \in DOMAIN aggs THEN aggs[fn] ELSE Raise]

Eval(e, k, ctx) == Compiled(e, Env(e, k, ctx, NoAggs))

-----------------------------------------------------------------------------
(* Planner *)

(* find_equi_predicates: column = literal, in either order. *)
IsEqui(e)     == e.k = "bin" /\ e.op = "=" /\ {e.l.k, e.r.k} = {"col", "lit"}
EquiColumn(e) == IF e.l.k = "col" THEN e.l ELSE e.r
EquiValue(e)  == IF e.l.k = "col" THEN e.r.v ELSE e.l.v

(* The first lookup by primary key, or else the first by an index. *)
AccessPath ==
  LET conds == Where
      Usable(names) == {i \in DOMAIN conds :
         /\ IsEqui(conds[i])
         /\ EquiColumn(conds[i]).table \in {NoTable, sel.from[1].alias}
         /\ EquiColumn(conds[i]).name \in names \cap ToSet(Meta(1).cols)}
      Path(type, i) == [type |-> type, col |-> EquiColumn(conds[i]).name,
                        value |-> EquiValue(conds[i])]
  IN  CASE Usable({Meta(1).pk}) # {} -> Path("pk", Min(Usable({Meta(1).pk})))
        [] Usable({Meta(1).pk}) = {} /\ Usable(Meta(1).indexed) # {} ->
             Path("index", Min(Usable(Meta(1).indexed)))
        [] OTHER -> [type |-> "seq"]

(* find_join_equi: the first column = column between the new source and an   *)
(* earlier one.                                                              *)
JoinEqui(k) ==
  LET on == FlattenAnd(sel.from[k].on)
      Crosses(e) == /\ e.k = "bin" /\ e.op = "=" /\ e.l.k = "col" /\ e.r.k = "col"
                    /\ Resolves(e.l, k) /\ Resolves(e.r, k)
                    /\ Cardinality({Slot(e.l, k), Slot(e.r, k)} \ {k}) = 1
                    /\ k \in {Slot(e.l, k), Slot(e.r, k)}
      hits == {i \in DOMAIN on : Crosses(on[i])}
      e == on[Min(hits)]
  IN  IF hits = {} THEN Nothing
      ELSE IF Slot(e.r, k) = k THEN [k |-> "equi", acc |-> e.l, new |-> e.r]
           ELSE [k |-> "equi", acc |-> e.r, new |-> e.l]

(* Estimated rows decide on which side of a hash join the table is built. *)
PlanJoin(so_far, k) ==
  LET right == Max({Cardinality(Rids(k)), 1})
      equi  == JoinEqui(k)
  IN  [est |-> IF equi # Nothing THEN Max({so_far.est, right})
               ELSE Max({1, (so_far.est * right) \div 10}),
       joins |-> Append(so_far.joins,
                        [equi |-> equi,
                         build |-> IF right <= so_far.est THEN "right" ELSE "left"])]

(* assign_filter_stages: the number of joins after which a term is applied.  *)
Stage_Mutant(e) ==
  LET stages == {s \in 0 .. Sources - 1 : \E c \in Gathered(e) : Resolves(c, s + 1)}
  IN  IF Funcs(e) # {} \/ stages = {} THEN Sources - 1 ELSE Min(stages)

Stage(e) ==
  LET stages == {s \in 0 .. Sources - 1 : \A c \in Gathered(e) : Resolves(c, s + 1)}
  IN  IF Funcs(e) # {} \/ Sources - 1 \notin stages THEN Sources - 1 ELSE Min(stages)

BuildPlan ==
  LET path == AccessPath
      rows == Max({1, Cardinality(Rids(1))})
      est  == CASE path.type = "pk" -> 1
                [] path.type = "index" -> Max({1, Cardinality(Rids(1)) \div 100})
                [] path.type = "seq" -> rows
  IN  [path |-> path,
       joins |-> FoldLeft(PlanJoin, [est |-> est, joins |-> << >>],
                          [i \in 1 .. Sources - 1 |-> i + 1]).joins,
       filters |-> [s \in 1 .. Sources |-> SelectSeq(Where, LAMBDA e : Stage(e) = s - 1)]]

-----------------------------------------------------------------------------
(* Access to the rows of one table *)

(* coerce_pk, then a search.  Also for the lookup of UPDATE and DELETE. *)
PkLookup(k, v) == IF IsNumber(v) /\ v.v \in Rids(k) THEN <<v.v>> ELSE << >>

(* An index has no NULL, and a text is never equal to a number. *)
IndexLookup(k, col, v) ==
  SelectSeq(RidSeq(k), LAMBDA r : Meta(k).rows[r][col] = v /\ v # Null)

Scanned(path) ==
  CASE path.type = "pk"    -> PkLookup(1, path.value)
    [] path.type = "index" -> IndexLookup(1, path.col, path.value)
    [] path.type = "seq"   -> RidSeq(1)

(* _matching_rows, for UPDATE and DELETE: the first usable equality decides   *)
(* where it looks; a key that cannot be one means a full scan.               *)
Visited ==
  LET conds  == Where
      usable == {i \in DOMAIN conds :
                   /\ IsEqui(conds[i])
                   /\ EquiColumn(conds[i]).table \in {NoTable, sel.from[1].table}
                   /\ EquiColumn(conds[i]).name \in
                        ({Meta(1).pk} \cup Meta(1).indexed) \cap ToSet(Meta(1).cols)}
      e == conds[Min(usable)]
  IN  CASE usable = {} -> RidSeq(1)
        [] usable # {} /\ EquiColumn(e).name = Meta(1).pk ->
             IF IsNumber(EquiValue(e)) THEN PkLookup(1, EquiValue(e)) ELSE RidSeq(1)
        [] usable # {} /\ EquiColumn(e).name # Meta(1).pk ->
             IndexLookup(1, EquiColumn(e).name, EquiValue(e))

(* WHERE is one expression here, and all of it is asked of each row visited.  *)
MatchingRows_Mutant ==
  IF \E e \in ToSet(Where) : IsEqui(e) THEN Visited
  ELSE SelectSeq(RidSeq(1), LAMBDA r : sel.where = Nothing \/ Eval(sel.where, 1, <<r>>) = True)

MatchingRows == SelectSeq(Visited, LAMBDA r : sel.where = Nothing \/ Eval(sel.where, 1, <<r>>) = True)

-----------------------------------------------------------------------------
(* Pipeline: combinations of rows *)

Ok(rows) == [ok |-> TRUE, rows |-> rows]
Failed   == [ok |-> FALSE, rows |-> << >>]

(* One term of WHERE after another, each over what the one before left. *)
Filtered(found, k) ==
  LET One(so_far, e) ==
        IF ~so_far.ok \/ ~Compiles(e, k, FALSE) THEN Failed
        ELSE IF \E c \in ToSet(so_far.rows) : Eval(e, k, c) = Raise THEN Failed
        ELSE Ok(SelectSeq(so_far.rows, LAMBDA c : Eval(e, k, c) = True))
  IN  FoldLeft(One, found, plan.filters[k])

SameKey(equi, left, r, k) ==
  LET new == Meta(k).rows[r][equi.new.name]
      acc == ValueIn(equi.acc, k, left)
  IN  Null \notin {new, acc} /\ Eq(acc, new) = True

(* The pairs the join looks at, in the order it does: a row of the left side  *)
(* with all of the right, or the other way round when the left is the table  *)
(* of a hash join.                                                           *)
Candidates(left, right, k) ==
  LET p == plan.joins[k - 1]
      Fits(m) == p.equi = Nothing \/ SameKey(p.equi, left[m.i], m.r, k)
      byLeft  == [i \in DOMAIN left |-> [n \in DOMAIN right |-> [i |-> i, r |-> right[n]]]]
      byRight == [n \in DOMAIN right |-> [i \in DOMAIN left |-> [i |-> i, r |-> right[n]]]]
  IN  SelectSeq(FlattenSeq(IF p.equi # Nothing /\ p.build = "left" THEN byRight ELSE byLeft), Fits)

(* An outer join adds the rows of its sides that matched nothing.            *)
Unmatched_Mutant(how, left, right, matched, k) ==
  LET rights == SelectSeq(right, LAMBDA r : \A m \in ToSet(matched) : m.r # r)
  IN  IF how \in {"RIGHT", "FULL"}
      THEN [n \in DOMAIN rights |-> Append(Empty(k - 1), rights[n])] ELSE << >>

Unmatched(how, left, right, matched, k) ==
  LET lefts  == SelectSeq([i \in DOMAIN left |-> i], LAMBDA i : \A m \in ToSet(matched) : m.i # i)
      rights == SelectSeq(right, LAMBDA r : \A m \in ToSet(matched) : m.r # r)
  IN  (IF how \in {"LEFT", "FULL"}
       THEN [n \in DOMAIN lefts |-> Append(left[lefts[n]], NoRow)] ELSE << >>)
      \o (IF how \in {"RIGHT", "FULL"}
          THEN [n \in DOMAIN rights |-> Append(Empty(k - 1), rights[n])] ELSE << >>)

Joined(left, k) ==
  LET right == RidSeq(k)
      on    == sel.from[k].on
      Pair(m) == Append(left[m.i], m.r)
      cands   == Candidates(left, right, k)
      matched == SelectSeq(cands, LAMBDA m : Eval(on, k, Pair(m)) = True)
  IN  IF \/ \E i \in 1 .. k - 1 : sel.from[i].alias = sel.from[k].alias
         \/ ~Compiles(on, k, FALSE)
         \/ \E m \in ToSet(cands) : Eval(on, k, Pair(m)) = Raise
      THEN Failed
      ELSE Ok([n \in DOMAIN matched |-> Pair(matched[n])]
                \o Unmatched(sel.from[k].how, left, right, matched, k))

-----------------------------------------------------------------------------
(* Pipeline: groups *)

InItems == UNION {Funcs(sel.items[i].e) : i \in DOMAIN sel.items}
InOrder == UNION {Funcs(sel.order[i].e) : i \in DOMAIN sel.order}
AllFuncs == InItems \cup Funcs(sel.having) \cup InOrder
Grouped  == sel.group # << >> \/ AllFuncs # {}

(* TRUE and 1 are one key of a dictionary. *)
Key(v) == IF v.t = "bool" THEN Num(v.v) ELSE v
Distinct(seq) == FoldLeft(LAMBDA kept, x : IF Contains(kept, x) THEN kept ELSE Append(kept, x),
                          << >>, seq)

Aggregate(f, members) ==
  LET all  == [i \in DOMAIN members |-> Eval(f.e, Sources, members[i])]
      vals == SelectSeq(all, LAMBDA v : v # Null)
  IN  CASE f.e = Star -> Num(Len(members))
        [] f.e # Star /\ Raise \in ToSet(all) -> Raise
        [] OTHER -> Accumulate(f.f, IF f.distinct THEN Distinct(vals) ELSE vals)

GroupKey(ctx) == [i \in DOMAIN sel.group |-> Key(Eval(sel.group[i], Sources, ctx))]

(* _aggregate: groups in the order of their first members; without GROUP BY   *)
(* one group, even of nothing.  A group is known by its first member.        *)
Groups(found) ==
  LET keys == Distinct([i \in DOMAIN found |-> GroupKey(found[i])])
      Unit(members) ==
        [ctx  |-> IF members = << >> THEN Empty(Sources) ELSE Head(members),
         aggs |-> [f \in AllFuncs |-> Aggregate(f, members)]]
      units == IF sel.group = << >> THEN <<Unit(found)>>
               ELSE [n \in DOMAIN keys |-> Unit(SelectSeq(found, LAMBDA c : GroupKey(c) = keys[n]))]
      Having(u) == IF sel.having = Nothing THEN True
                   ELSE Compiled(sel.having, Env(sel.having, Sources, u.ctx, u.aggs))
  IN  IF \/ \E f \in AllFuncs : f.e # Star /\ ~Compiles(f.e, Sources, FALSE)
         \/ \E i \in DOMAIN sel.group : ~Compiles(sel.group[i], Sources, FALSE)
         \/ ~Compiles(sel.having, Sources, TRUE)
         \/ \E n \in DOMAIN keys : Raise \in ToSet(keys[n])
         \/ \E u \in ToSet(units) : Having(u) = Raise \/ \E f \in AllFuncs : u.aggs[f] = Raise
      THEN Failed
      ELSE Ok(SelectSeq(units, LAMBDA u : Having(u) = True))

Units(found) ==
  IF Grouped THEN Groups(found)
  ELSE IF sel.having # Nothing THEN Failed
  ELSE Ok([i \in DOMAIN found |-> [ctx |-> found[i], aggs |-> NoAggs]])

-----------------------------------------------------------------------------
(* Pipeline: rows of the result *)

AllColumns == FlattenSeq([k \in 1 .. Sources |->
                            [i \in DOMAIN Meta(k).cols |-> Col(sel.from[k].alias, Meta(k).cols[i])]])

(* The select list with * written out, and the names of its columns. *)
Selected == FlattenSeq([i \in DOMAIN sel.items |->
                          IF sel.items[i].e = Star THEN AllColumns ELSE <<sel.items[i].e>>])
Names    == FlattenSeq([i \in DOMAIN sel.items |->
                          IF sel.items[i].e = Star
                          THEN [j \in DOMAIN AllColumns |-> AllColumns[j].name]
                          ELSE <<sel.items[i].label>>])

InRow(e, u) == Compiled(e, Env(e, Sources, u.ctx, u.aggs))
RowOf(u)    == [i \in DOMAIN Selected |-> InRow(Selected[i], u)]

(* A number and the name of a result column sort by that column. *)
IsPosition(e)  == e.k = "lit" /\ IsNumber(e.v)
PositionOf(e)  == CASE IsPosition(e) -> e.v.v
                    [] e.k = "col" /\ e.table = NoTable /\ Contains(Names, e.name) ->
                         Min({i \in DOMAIN Names : Names[i] = e.name})
                    [] OTHER -> 0
SortValue(e, u) == IF PositionOf(e) # 0 THEN RowOf(u)[PositionOf(e)] ELSE InRow(e, u)
Keys(u)         == [i \in DOMAIN sel.order |-> SortValue(sel.order[i].e, u)]

Projected(units) ==
  LET exprs == ToSet(Selected) \cup {sel.order[i].e : i \in {j \in DOMAIN sel.order :
                                                        PositionOf(sel.order[j].e) = 0}}
      wrong == \E i \in DOMAIN sel.order :
                 LET e == sel.order[i].e
                 IN  IsPosition(e) /\ (e.v.v = 0 \/ (units.rows # << >> /\ e.v.v > Len(Names)))
      rows  == [i \in DOMAIN units.rows |-> [row |-> RowOf(units.rows[i]), keys |-> Keys(units.rows[i])]]
      First(kept, x) == IF \E y \in ToSet(kept) : \A i \in DOMAIN x.row : Key(y.row[i]) = Key(x.row[i])
                        THEN kept ELSE Append(kept, x)
  IN  IF \/ ~units.ok \/ wrong
         \/ \E e \in ToSet(Selected) : ~Compiles(e, Sources, FALSE)
         \/ \E e \in exprs : ~Compiles(e, Sources, Grouped)
         \/ \E u \in ToSet(units.rows), e \in exprs : InRow(e, u) = Raise
      THEN Failed
      ELSE Ok(IF sel.distinct THEN FoldLeft(First, << >>, rows) ELSE rows)

(* sort_wrap: NULL before texts, texts before numbers, conditions last. *)
Rank(v) == CASE v.t = "null" -> 0 [] v.t = "text" -> 1 [] v.t = "int" -> 2 [] v.t = "bool" -> 3
Before(v, w) == Rank(v) < Rank(w) \/ (Rank(v) = Rank(w) /\ v.v < w.v)

(* One pass of a stable sort by one key; the passes go from the last key to  *)
(* the first.                                                                *)
SortPass(rows, i) ==
  LET Precedes(x, y) == IF sel.order[i].desc THEN Before(y.keys[i], x.keys[i])
                        ELSE Before(x.keys[i], y.keys[i])
      Put(done, x) == InsertAt(done, Cardinality({n \in DOMAIN done : ~Precedes(x, done[n])}) + 1, x)
  IN  FoldLeft(Put, << >>, rows)

Sorted_Mutant(rows) == FoldLeft(SortPass, rows, [i \in DOMAIN sel.order |-> i])
Sorted(rows) == FoldLeft(SortPass, rows, Reverse([i \in DOMAIN sel.order |-> i]))

Window(rows) ==
  SubSeq(rows, sel.offset + 1, IF sel.limit = NoLimit THEN Len(rows)
                               ELSE Min({Len(rows), sel.offset + sel.limit}))

-----------------------------------------------------------------------------
(* _pk_fast_path: column = literal on the primary key and nothing else.      *)

KeyLookup ==
  /\ Sources = 1 /\ ~sel.distinct /\ sel.group = << >> /\ sel.having = Nothing
  /\ sel.order = << >> /\ sel.limit = NoLimit /\ sel.offset = 0
  /\ sel.where # Nothing /\ IsEqui(sel.where)
  /\ EquiColumn(sel.where).table \in {NoTable, sel.from[1].alias}
  /\ Meta(1).pk # NoColumn /\ EquiColumn(sel.where).name = Meta(1).pk
  /\ IsNumber(EquiValue(sel.where))

KeyRow == PkLookup(1, EquiValue(sel.where))

(* Nothing of the select list is looked at when the row is not there. *)
FastPath ==
  /\ KeyLookup
  /\ \/ KeyRow = << >>
     \/ \A e \in ToSet(Selected) : \/ e.k = "lit"
                                   \/ e.k = "neg" /\ e.e.k = "lit"
                                   \/ e.k = "col" /\ Resolves(e, 1)

-----------------------------------------------------------------------------
(* Steps *)

Lookup ==
  /\ phase = "parsed" /\ FastPath
  /\ contexts' = [i \in DOMAIN KeyRow |-> <<KeyRow[i]>>]
  /\ output' = [i \in DOMAIN contexts' |->
                  [row |-> RowOf([ctx |-> contexts'[i], aggs |-> NoAggs]), keys |-> << >>]]
  /\ phase' = IF contexts' # << >> /\ \E e \in ToSet(Selected) : e.k = "neg" /\ ~IsNumber(e.e.v)
              THEN "raised" ELSE "done"
  /\ UNCHANGED <<db, sel, plan>>

Plan ==
  /\ phase = "parsed" /\ ~FastPath
  /\ plan' = BuildPlan /\ phase' = "planned"
  /\ UNCHANGED <<db, sel, contexts, output>>

(* An exception ends the query. *)
Found(result, next) ==
  /\ contexts' = result.rows
  /\ phase' = IF result.ok THEN next ELSE "raised"
  /\ UNCHANGED <<db, sel, plan, output>>

(* The phase after k sources are joined and filtered. *)
After(k) == IF k = Sources THEN "matched" ELSE <<"one", "two">>[k]

Scan ==
  /\ phase = "planned"
  /\ LET rids == Scanned(plan.path)
     IN  Found(Filtered(Ok([i \in DOMAIN rids |-> <<rids[i]>>]), 1), After(1))

Join(k) ==
  /\ k > 1 /\ phase = After(k - 1)
  /\ Found(Filtered(Joined(contexts, k), k), After(k))

Output(result, next) ==
  /\ output' = result.rows
  /\ phase' = IF result.ok THEN next ELSE "raised"
  /\ UNCHANGED <<db, sel, plan, contexts>>

Project == phase = "matched"   /\ Output(Projected(Units(contexts)), "projected")
Sort    == phase = "projected" /\ Output(Ok(Sorted(output)), "sorted")
Slice   == phase = "sorted"    /\ Output(Ok(Window(output)), "done")

-----------------------------------------------------------------------------
(* What a query means *)

Terms == ToSet(Where)

MeaningOfFrom[k \in 1 .. Sources] ==
  IF k = 1 THEN {<<r>> : r \in Rids(1)}
  ELSE LET left == MeaningOfFrom[k - 1]
       IN  JoinOf(sel.from[k].how, left, Rids(k),
                  {m \in left \X Rids(k) : Eval(sel.from[k].on, k, Append(m[1], m[2])) = True}, k - 1)

(* Every join is made, then WHERE keeps what makes all of its terms true.    *)
Meaning == {c \in MeaningOfFrom[Sources] : \A e \in Terms : Eval(e, Sources, c) = True}

MeaningOfFunc(f, group) ==
  LET some == {c \in group : f.e = Star \/ Eval(f.e, Sources, c) # Null}
      vals == {Eval(f.e, Sources, c) : c \in some}
      sum  == IF f.distinct THEN MapThenSumSet(LAMBDA v : v.v, vals)
              ELSE MapThenSumSet(LAMBDA c : Eval(f.e, Sources, c).v, some)
  IN  CASE f.f = "COUNT" -> Num(Cardinality(IF f.distinct THEN vals ELSE some))
        [] f.f # "COUNT" /\ some = {} -> Null
        [] f.f = "SUM" /\ some # {} -> Num(sum)
        [] f.f = "MIN" /\ some # {} -> CHOOSE v \in vals : \A w \in vals : v.v <= w.v
        [] f.f = "MAX" /\ some # {} -> CHOOSE v \in vals : \A w \in vals : v.v >= w.v

(* The rows of the result as pairs of where they come from and what they are *)
MeaningOfUnits ==
  LET groups == IF ~Grouped THEN {{c} : c \in Meaning}
                ELSE IF sel.group = << >> THEN {Meaning}
                ELSE {{c \in Meaning : GroupKey(c) = GroupKey(d)} : d \in Meaning}
      Unit(g) == [ctx |-> IF g = {} THEN Empty(Sources) ELSE CHOOSE c \in g : TRUE,
                  aggs |-> [f \in AllFuncs |-> MeaningOfFunc(f, g)]]
  IN  {u \in {Unit(g) : g \in groups} : sel.having = Nothing \/ InRow(sel.having, u) = True}
-----------------------------------------------------------------------------
(* What the queries are assumed to be *)

Product == {c \in [1 .. Sources -> UNION {Rids(k) : k \in 1 .. Sources} \cup {NoRow}] :
              \A k \in 1 .. Sources : c[k] \in Rids(k) \cup {NoRow}}

(* The sources a term is about. *)
About(e) == {Slot(c, Sources) : c \in {d \in Columns(e) : Resolves(d, Sources)}}
Patterns(e) == Columns(e) \ Gathered(e)

Keeps(promise) ==
  CASE promise = "outer" -> \A e \in Terms, k \in 2 .. Sources :
                              (Compiles(e, Sources, FALSE) /\ Funcs(e) = {}
                                /\ sel.from[k].how \in {"RIGHT", "FULL"}) => Max(About(e) \cup {1}) >= k
    [] promise = "like"  -> \A e \in Terms : \A p \in Patterns(e) : Compiles(e, Sources, FALSE) =>
                              \E c \in Gathered(e) : Slot(c, Sources) >= Slot(p, Sources)
    [] promise = "fast"  -> KeyLookup =>
                              \A e \in ToSet(Selected) : \/ e.k = "col" /\ Resolves(e, 1)
                                                         \/ e.k = "lit"
                                                         \/ e.k = "neg" /\ IsNumber(e.e.v)
    [] promise = "bare"  -> \A e \in Terms : Compiles(e, Sources, FALSE) =>
                              \A c \in Product : Eval(e, Sources, c).t \in {"bool", "null", "raise"}

Init ==
  \E f \in Families :
    /\ db \in f.dbs /\ sel \in f.queries
    /\ phase = "parsed" /\ plan = NoPlan /\ contexts = << >> /\ output = << >>
    /\ \A promise \in Assumed : Keeps(promise)

Next == \/ Lookup \/ Plan \/ Scan \/ Project \/ Sort \/ Slice
        \/ \E k \in 2 .. Sources : Join(k)

Spec == Init /\ [][Next]_vars

-----------------------------------------------------------------------------
(* Properties *)

Size(limit, total) ==
  LET left == Max({total - sel.offset, 0}) IN IF limit = NoLimit THEN left ELSE Min({limit, left})

(* A query answers with the rows it means, each as often as it means it, in   *)
(* whatever way it finds them: by key, by index or by a scan                 *)
(* (planner.py:132), with a hash table on either side or none                *)
(* (executor.py:688), with the terms of WHERE applied as early as they can   *)
(* be (planner.py:86), grouped (executor.py:730), and cut to LIMIT.          *)
AnswersTheQuery ==
  phase = "done" =>
    LET units == MeaningOfUnits
        means == {RowOf(u) : u \in units}
        Many(row) == IF sel.distinct THEN 1 ELSE Cardinality({u \in units : RowOf(u) = row})
    IN  /\ \A i \in DOMAIN output :
             /\ output[i].row \in means
             /\ Cardinality({j \in DOMAIN output : output[j].row = output[i].row}) <= Many(output[i].row)
        /\ Len(output) = Size(sel.limit, IF sel.distinct THEN Cardinality(means) ELSE Cardinality(units))

(* The rows end up in the order of the first key, of the second where the    *)
(* first is the same, and so on, each up or down as asked; rows that agree   *)
(* in all keys stay as they were (executor.py:643).                          *)
SortIsStable ==
  [][Sort =>
       LET Same(x, y) == \A i \in DOMAIN sel.order : x.keys[i] = y.keys[i]
           Comes(x, y) == \/ Same(x, y)
                          \/ \E i \in DOMAIN sel.order :
                               /\ \A j \in 1 .. i - 1 : x.keys[j] = y.keys[j]
                               /\ IF sel.order[i].desc THEN Before(y.keys[i], x.keys[i])
                                  ELSE Before(x.keys[i], y.keys[i])
       IN  /\ \A n, m \in DOMAIN output' : n < m => Comes(output'[n], output'[m])
           /\ \A x \in ToSet(output) \cup ToSet(output') :
                SelectSeq(output', LAMBDA y : Same(x, y)) = SelectSeq(output, LAMBDA y : Same(x, y))]_vars

(* DELETE and UPDATE find exactly the rows that a SELECT with the same WHERE *)
(* shows, although they choose their rows in another way (engine.py:615).    *)
DeleteAgreesWithSelect ==
  (phase = "done" /\ Sources = 1 /\ ~Grouped
    /\ (sel.where # Nothing => \A r \in Rids(1) : Eval(sel.where, 1, <<r>>) # Raise)) =>
    ToSet(MatchingRows) = {c[1] : c \in ToSet(contexts)}

(* Every column of a sound query means one thing where it stands, and nothing *)
(* it says raises, whatever rows are combined.                               *)
Sound ==
  LET sorts  == {sel.order[i].e : i \in DOMAIN sel.order}
      plain  == Terms \cup ToSet(sel.group) \cup (ToSet(Selected) \ AllFuncs)
                  \cup {e \in sorts : PositionOf(e) = 0} \cup ({f.e : f \in AllFuncs} \ {Star})
  IN  /\ \A i, k \in 1 .. Sources : sel.from[i].alias = sel.from[k].alias => i = k
      /\ sel.having = Nothing /\ \A f \in AllFuncs : f.f = "COUNT"
      /\ \A e \in plain : Compiles(e, Sources, FALSE) /\ Columns(e) = Leaves(e)
      /\ \A e \in sorts : IsPosition(e) => e.v.v \in DOMAIN Names
      /\ \A k \in 2 .. Sources : LET on == sel.from[k].on
                                 IN  Compiles(on, k, FALSE) /\ Columns(on) = Leaves(on)
      /\ \A c \in Product : /\ \A e \in plain : Eval(e, Sources, c) # Raise
                            /\ \A k \in 2 .. Sources : Eval(sel.from[k].on, k, c) # Raise

(* A sound query does not fail: its terms are never applied before all the   *)
(* columns they name are there (planner.py:86, executor.py:203).             *)
SoundQueriesAnswer == phase = "raised" => ~Sound

(* The closures agree with the interpreter: where the interpreter has a      *)
(* value (executor.py:89), what was compiled has the same (executor.py:197), *)
(* with NULLs, short circuits and mixed types.                               *)
CompiledAgrees ==
  phase = "parsed" =>
    \A e \in Terms : Compiles(e, Sources, FALSE) =>
      \A c \in Product : LET env == Env(e, Sources, c, NoAggs)
                         IN  Interpreted(e, env) \in {Raise, Compiled(e, env)}
=============================================================================
