------------------------------ MODULE MCQuery ------------------------------
(***************************************************************************)
(* Small tables and the queries asked of them.                              *)
(***************************************************************************)
EXTENDS Query

A(n) == Col("a", n)
B(n) == Col("b", n)
C(n) == Col("c", n)
U(n) == Col(NoTable, n)
N(n) == Lit(Num(n))
T(n) == Lit(Txt(n))
And(l, r) == Bin("AND", l, r)
Or(l, r)  == Bin("OR", l, r)
Equal(l, r) == Bin("=", l, r)

Item(e)   == [e |-> e, label |-> "x"]
Named(e, n) == [e |-> e, label |-> n]
Asc(e)    == [e |-> e, desc |-> FALSE]
Desc(e)   == [e |-> e, desc |-> TRUE]
From(t)   == [table |-> t, alias |-> t, how |-> "FROM", on |-> Nothing]
With(t, how, on) == [table |-> t, alias |-> t, how |-> how, on |-> on]

Select(from, where) ==
  [from |-> from, where |-> where, items |-> <<Item(Star)>>, group |-> << >>, having |-> Nothing,
   order |-> << >>, distinct |-> FALSE, limit |-> NoLimit, offset |-> 0]

Count == Fn("COUNT", Star)
Sum(e) == Fn("SUM", e)

MCLikes == {<<Txt(1), Txt(1)>>, <<Txt(2), Txt(1)>>, <<Num(1), Txt(1)>>}

Table(cols, pk, indexed, rows) == [cols |-> cols, pk |-> pk, indexed |-> indexed, rows |-> rows]

-----------------------------------------------------------------------------
(* One table: how its rows are found, and what conditions say of them *)

RowsOfOne == UNION {[rids -> {[id |-> Null, v |-> v, n |-> n] : v \in {Null, Num(1), Num(2)},
                                                               n \in {Null, Txt(1)}}] :
                    rids \in SUBSET {1, 2}}
WithId(rows) == [r \in DOMAIN rows |-> [rows[r] EXCEPT !.id = Num(r)]]
One(rows, indexed) == [a |-> Table(<<"id", "v", "n">>, "id", indexed, WithId(rows))]

Conditions ==
  {Nothing, Equal(U("id"), N(1)), Equal(N(2), A("id")), Equal(U("id"), T(1)), Equal(U("v"), N(1)),
   Equal(U("v"), Lit(Null)), And(Equal(U("v"), N(1)), Equal(U("id"), N(1))),
   And(Equal(U("v"), N(1)), Equal(U("n"), T(1))), Or(Equal(U("id"), N(1)), IsNull(U("v"), FALSE)),
   And(N(1), Equal(U("v"), N(1))), N(1), U("v"),
   Not(And(Equal(U("v"), N(1)), Equal(U("n"), T(1)))), Not(Or(U("n"), Bin("<", U("v"), N(2)))),
   And(Bin(">", U("v"), N(1)), Bin("<", U("n"), N(1))),
   Or(Bin(">", U("v"), N(1)), Bin("<", U("n"), N(1))),
   Between(U("v"), N(1), Lit(Null), TRUE), Between(U("v"), N(0), Bin("/", N(3), U("v")), FALSE),
   Between(U("n"), N(0), T(2), FALSE),
   In(U("v"), <<N(1), Lit(Null)>>, FALSE), In(U("v"), <<N(1), Lit(Null)>>, TRUE),
   In(U("n"), <<N(1), T(1), Bin("-", U("n"), N(1))>>, TRUE),
   Like(U("n"), T(1), FALSE), Like(U("v"), T(1), TRUE), Like(U("n"), U("v"), FALSE),
   Bin("<>", Neg(U("v")), Bin("-", N(0), N(2))), Bin("<=", Bin("/", U("v"), Bin("-", U("v"), N(1))), N(2)),
   IsNull(Bin("*", U("v"), U("n")), TRUE), Equal(Equal(U("v"), N(1)), N(1)), U("z"),
   Bin(">", Count, N(0)), Equal(A("id"), U("v"))}

OnOne ==
  [dbs |-> {One(rows, indexed) : rows \in RowsOfOne, indexed \in {{}, {"v"}, {"v", "n"}}},
   queries |-> {[Select(<<From("a")>>, where) EXCEPT !.items = items] : where \in Conditions,
                  items \in {<<Item(Star)>>, <<Item(Neg(N(1))), Named(U("v"), "v")>>}}]

Keyed == {Equal(U("id"), N(1)), Equal(A("id"), N(2))}
LookupItems == {<<Item(Count)>>, <<Item(U("z"))>>, <<Item(Neg(Lit(Null)))>>, <<Item(Bin("+", U("v"), N(1)))>>}
OnKey ==
  [dbs |-> {One(rows, {}) : rows \in RowsOfOne},
   queries |-> {[Select(<<From("a")>>, where) EXCEPT !.items = items] : where \in Keyed,
                                                                     items \in LookupItems}]

-----------------------------------------------------------------------------
(* Three rows: groups, order and windows *)

RowsOfThree == [1 .. 3 -> {[id |-> Null, v |-> v, w |-> w] : v \in {Null, Num(1), Num(2)},
                                                            w \in {Num(1), Num(2)}}]
Three(rows) == [a |-> Table(<<"id", "v", "w">>, "id", {}, WithId(rows))]

Grouping ==
  LET s == Select(<<From("a")>>, Nothing)
      g == [s EXCEPT !.group = <<U("v")>>]
  IN  {[s EXCEPT !.items = <<Item(Count), Item(Sum(U("v"))), Item(Fn("MIN", U("v")))>>],
       [s EXCEPT !.items = <<Item(Count)>>, !.where = Equal(U("v"), N(7))],
       [s EXCEPT !.having = Bin(">", U("v"), N(1))],
       [g EXCEPT !.items = <<Named(U("v"), "v"), Item(Count)>>],
       [g EXCEPT !.items = <<Named(U("v"), "v"), Named(Sum(U("w")), "s")>>, !.order = <<Desc(U("s")), Asc(N(1))>>],
       [g EXCEPT !.items = <<Item(Fn("COUNT", U("v"))), Item(Fn("MAX", U("w")))>>, !.limit = 1],
       [g EXCEPT !.items = <<Item([Fn("COUNT", U("w")) EXCEPT !.distinct = TRUE])>>,
                 !.having = Bin(">", Count, N(1))],
       [g EXCEPT !.items = <<Named(Count, "n")>>, !.having = Bin("<", U("n"), N(2))],
       [g EXCEPT !.items = <<Item(U("v"))>>, !.having = Between(Count, N(1), N(2), FALSE)],
       [g EXCEPT !.group = <<U("v"), Bin(">", U("w"), N(1))>>, !.items = <<Item(Count)>>]}

Ordering ==
  LET s == Select(<<From("a")>>, Nothing)
  IN  {[s EXCEPT !.order = <<Asc(U("v"))>>, !.limit = 2],
       [s EXCEPT !.order = <<Desc(U("v")), Asc(U("w"))>>, !.offset = 1],
       [s EXCEPT !.order = <<Asc(U("w")), Desc(U("v"))>>, !.limit = 1, !.offset = 1],
       [s EXCEPT !.items = <<Named(U("v"), "v"), Named(Neg(U("w")), "w")>>, !.order = <<Asc(U("w")), Asc(N(1))>>],
       [s EXCEPT !.items = <<Named(U("v"), "v")>>, !.distinct = TRUE, !.order = <<Desc(Bin("+", U("w"), N(1)))>>],
       [s EXCEPT !.distinct = TRUE, !.items = <<Item(Bin(">", U("v"), N(1)))>>],
       [s EXCEPT !.order = <<Asc(N(4))>>], [s EXCEPT !.order = <<Asc(N(0))>>],
       [s EXCEPT !.offset = 4]}

OnThree == [dbs |-> {Three(rows) : rows \in RowsOfThree}, queries |-> Grouping \cup Ordering]

-----------------------------------------------------------------------------
(* Two and three tables: joins *)

Column(vals) == {[r \in DOMAIN f |-> [id |-> Num(r), v |-> f[r], w |-> f[r]]] : f \in vals}
Narrow(cols, rows) == Table(cols, "id", {}, rows)

Few == Column({<< >>, <<Num(1)>>, <<Null>>, <<Num(1), Num(1)>>, <<Num(2), Num(1)>>, <<Null, Num(2)>>,
               [r \in {2} |-> Num(1)]})

Two(x, y, indexed) == [a |-> Table(<<"id", "v">>, "id", indexed, x), b |-> Table(<<"id", "w">>, "id", {}, y)]

How == {"INNER", "LEFT", "RIGHT", "FULL"}

Ons == {Equal(A("id"), B("id")), Equal(U("w"), U("v")), And(Equal(U("v"), U("w")), Bin(">", B("id"), N(1))),
        Bin("<=", A("v"), B("w")), Equal(A("id"), N(1)), Equal(U("id"), N(1))}

Wheres == {Nothing, Equal(A("id"), N(1)), Equal(U("v"), N(1)), Equal(U("w"), N(1)), IsNull(U("w"), FALSE),
           And(Equal(U("v"), N(1)), Equal(B("id"), N(1))), Bin("<", U("v"), B("id")), Equal(N(1), N(0)),
           Like(U("v"), U("w"), FALSE), Equal(U("id"), N(1))}

OnTwo == [dbs |-> {Two(x, y, indexed) : x \in Few, y \in Few, indexed \in {{}, {"v"}}},
          queries |-> {Select(<<From("a"), With("b", how, on)>>, where) : how \in How, on \in Ons,
                                                                          where \in Wheres}]

Pair == Column({<< >>, <<Num(1)>>, <<Null, Num(1)>>})

OnMore ==
  [dbs |-> {[a |-> Narrow(<<"id", "v">>, x), b |-> Narrow(<<"id", "w">>, y), c |-> Narrow(<<"id", "v">>, z)] :
              x \in Pair, y \in Pair, z \in Pair},
   queries |->
     {Select(<<From("a"), With("b", first, Equal(U("v"), U("w"))), With("c", second, on)>>, where) :
        first \in How, second \in How,
        on \in {Equal(B("id"), C("id")), Equal(A("v"), C("v")), Bin("<", U("w"), C("id"))},
        where \in {Nothing, Equal(A("v"), N(1)), IsNull(U("w"), FALSE), Equal(C("id"), B("id")),
                   Equal(A("id"), C("v"))}}]

Twice ==
  [dbs |-> {Two(x, << >>, {}) : x \in Few},
   queries |-> {Select(<<From("a"), [With("a", "INNER", on) EXCEPT !.alias = alias]>>, Nothing) :
                  alias \in {"a", "b"}, on \in {Equal(A("v"), B("id")), Equal(U("v"), N(1))}}]

MCFamilies == {OnOne, OnKey, OnThree, OnTwo, OnMore, Twice}
=============================================================================
