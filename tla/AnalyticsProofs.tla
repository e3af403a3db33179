---------------------------- MODULE AnalyticsProofs ----------------------------
(***************************************************************************)
(* Statements that cut the same trades in different ways agree.  The       *)
(* endpoints group by direction, setup, exit type, session band, holding   *)
(* time, five dimensions, outcome and R-multiple: each group is a part of  *)
(* a partition, so counts and net results add up to those of the summary.  *)
(* The dashboard selects by its own WHERE clause: it and the analytics     *)
(* differ by the trades that are closed and not priced, and by no money.   *)
(* Then the calculators: expectancy, the answers of one request, drawdown, *)
(* streaks and the rolling series, the types of all answers, Monte Carlo.  *)
(***************************************************************************)
EXTENDS Analytics, SumTheorems, SequenceTheorems

-----------------------------------------------------------------------------
(* The book. *)

\* A row under its id, priced if at all by PnlOf, once it is closed.
RowOf(t, x) ==
    /\ x.id = t /\ WellPriced(x)
    /\ x.pnl # NULL => /\ x.status = "CLOSED"
                       /\ \E r \in x.rs : x.pnl = PnlOf(x, r)

GoodBook(b) ==
    /\ b \in [Trade -> {NULL} \cup TradeRow]
    /\ \A t \in Trade : b[t] # NULL => RowOf(t, b[t])

BookInv == GoodBook(book)

\* Status and P&L row may change: what prices a trade stays.
LEMMA RowKept ==
    ASSUME NEW t, NEW x, NEW y, RowOf(t, x), y.id = x.id, y.gross = x.gross,
           y.charges = x.charges, y.rs = x.rs, y.broker = x.broker,
           y.pnl # NULL => y.status = "CLOSED" /\ \E r \in x.rs : y.pnl = PnlOf(x, r)
    PROVE  RowOf(t, y)
  <1>1. SumOf(LAMBDA c : y.charges[c], Levies) = SumOf(LAMBDA c : x.charges[c], Levies)
        BY DEF SumOf
  <1>2. WellPriced(y)
        BY <1>1 DEF RowOf, WellPriced
  <1>3. \A r : PnlOf(y, r) = PnlOf(x, r)
        BY DEF PnlOf
  <1> QED BY <1>2, <1>3 DEF RowOf

LEMMA PnlTyped ==
    ASSUME NEW x \in TradeRow, NEW r \in x.rs
    PROVE  PnlOf(x, r) \in PnlRow
  <1>1. /\ x.gross \in Int /\ x.charges \in ChargesRow /\ x.broker \in STRING
        /\ r \in {NULL} \cup Int
        BY DEF TradeRow
  <1>2. x.charges.total \in Nat
        BY <1>1 DEF ChargesRow
  <1> QED BY <1>1, <1>2 DEF PnlOf, PnlRow

\* A commit that writes one row, or every row of a set.
Writes(S, b) ==
    /\ b \in [Trade -> {NULL} \cup TradeRow]
    /\ \A t \in Trade \ S : b[t] = book[t]
    /\ \A t \in S : b[t] # NULL => RowOf(t, b[t])

LEMMA CommitKeepsBook ==
    ASSUME BookInv, NEW S, NEW b, Commit(S, b), Writes(S, b)
    PROVE  BookInv'
  BY DEF BookInv, GoodBook, Commit, Writes

LEMMA WritesOne ==
    ASSUME BookInv, NEW t \in Trade, NEW x \in TradeRow, RowOf(t, x)
    PROVE  Writes({t}, [book EXCEPT ![t] = x])
  BY DEF BookInv, GoodBook, Writes

LEMMA BookInit == Init => BookInv
  BY DEF Init, BookInv, GoodBook

\* The steps of the other requests: each commits rows it may write.
Committing ==
    \/ \E t \in Trade : \E p \in Profile[t] : Open(t, p)
    \/ \E t \in Trade : Close(t)
    \/ \E t \in Trade : \E r \in UNION {p.rs : p \in Profile[t]} : Rescale(t, r)
    \/ \E t \in Trade : Delete(t)
    \/ Backfill

Committed == \E S, b : Commit(S, b) /\ Writes(S, b)

LEMMA CommitsWrite == ASSUME BookInv, Committing PROVE Committed
  <1>1. ASSUME NEW t \in Trade, NEW p \in Profile[t], Open(t, p) PROVE Committed
    <2>1. p \in TradeRow /\ RowOf(t, p)
          BY ProfileAssumption DEF RowOf
    <2> QED BY <1>1, <2>1, WritesOne DEF Open, Committed
  <1>2. ASSUME NEW t \in Trade, Close(t) PROVE Committed
    <2>1. PICK pnl \in {NULL} \cup {PnlOf(book[t], r) : r \in book[t].rs} :
             Commit({t}, [book EXCEPT ![t].status = "CLOSED", ![t].pnl = pnl])
          BY <1>2 DEF Close
    <2> DEFINE x == [book[t] EXCEPT !.status = "CLOSED", !.pnl = pnl]
    <2>2. book[t] \in TradeRow /\ RowOf(t, book[t]) /\ book \in [Trade -> {NULL} \cup TradeRow]
          BY <1>2 DEF Close, BookInv, GoodBook
    <2>3. pnl \in {NULL} \cup PnlRow
          BY <2>2, PnlTyped
    <2>4. x \in TradeRow
      <3> DEFINE y == [book[t] EXCEPT !.status = "CLOSED"]
      <3>1. y \in TradeRow
            BY <2>2 DEF TradeRow
      <3>2. x = [y EXCEPT !.pnl = pnl]
            OBVIOUS
      <3> HIDE DEF x, y
      <3> QED BY <2>3, <3>1, <3>2 DEF TradeRow
    <2>6. /\ x.id = book[t].id /\ x.gross = book[t].gross /\ x.charges = book[t].charges
          /\ x.rs = book[t].rs /\ x.broker = book[t].broker /\ x.pnl = pnl
          /\ x.status = "CLOSED"
          BY <2>2 DEF TradeRow
    <2>5. [book EXCEPT ![t].status = "CLOSED", ![t].pnl = pnl] = [book EXCEPT ![t] = x]
          BY <2>2 DEF TradeRow
    <2> HIDE DEF x
    <2>7. RowOf(t, x)
          BY <2>1, <2>2, <2>6, RowKept
    <2> QED BY <2>1, <2>4, <2>5, <2>7, WritesOne DEF Committed
  <1>3. ASSUME NEW t \in Trade, NEW r, Rescale(t, r) PROVE Committed
    <2>1. /\ book[t] \in TradeRow /\ RowOf(t, book[t]) /\ book[t].pnl \in PnlRow
          /\ r \in book[t].rs /\ book \in [Trade -> {NULL} \cup TradeRow]
          /\ Commit({t}, [book EXCEPT ![t].pnl.r = r])
          BY <1>3 DEF Rescale, BookInv, GoodBook, TradeRow
    <2> DEFINE p == [book[t].pnl EXCEPT !.r = r]
               x == [book[t] EXCEPT !.pnl = p]
    <2>2. r \in {NULL} \cup Int
          BY <2>1 DEF TradeRow
    <2>3. p \in PnlRow
          BY <2>1, <2>2 DEF PnlRow
    <2>4. x \in TradeRow
      <3> HIDE DEF p
      <3> QED BY <2>1, <2>3 DEF TradeRow
    <2>6. /\ x.id = book[t].id /\ x.gross = book[t].gross /\ x.charges = book[t].charges
          /\ x.rs = book[t].rs /\ x.broker = book[t].broker /\ x.pnl = p
          /\ x.status = book[t].status
          BY <2>1 DEF TradeRow
    <2>7. p = PnlOf(book[t], r) /\ book[t].status = "CLOSED"
      <3>1. book[t].pnl # NULL
            BY <2>1, NullAssumption
      <3>2. PICK q \in book[t].rs : book[t].pnl = PnlOf(book[t], q)
            BY <2>1, <3>1 DEF RowOf
      <3>3. p = PnlOf(book[t], r)
            BY <3>2 DEF PnlOf
      <3> QED BY <2>1, <3>1, <3>3 DEF RowOf
    <2>5. [book EXCEPT ![t].pnl.r = r] = [book EXCEPT ![t] = x]
          BY <2>1
    <2> HIDE DEF x, p
    <2>8. RowOf(t, x)
          BY <2>1, <2>6, <2>7, RowKept
    <2> QED BY <2>1, <2>4, <2>5, <2>8, WritesOne DEF Committed
  <1>4. ASSUME NEW t \in Trade, Delete(t) PROVE Committed
    <2>1. /\ book[t] \in TradeRow /\ RowOf(t, book[t])
          /\ book \in [Trade -> {NULL} \cup TradeRow]
          /\ Commit({t}, [book EXCEPT ![t].is_deleted = TRUE])
          BY <1>4 DEF Delete, BookInv, GoodBook
    <2> DEFINE x == [book[t] EXCEPT !.is_deleted = TRUE]
    <2>2. x \in TradeRow
          BY <2>1 DEF TradeRow
    <2>4. /\ x.id = book[t].id /\ x.gross = book[t].gross /\ x.charges = book[t].charges
          /\ x.rs = book[t].rs /\ x.broker = book[t].broker /\ x.pnl = book[t].pnl
          /\ x.status = book[t].status
          BY <2>1 DEF TradeRow
    <2>3. [book EXCEPT ![t].is_deleted = TRUE] = [book EXCEPT ![t] = x]
          BY <2>1
    <2> HIDE DEF x
    <2>5. RowOf(t, x)
          BY <2>1, <2>4, RowKept DEF RowOf
    <2> QED BY <2>1, <2>2, <2>3, <2>5, WritesOne DEF Committed
  <1>5. CASE Backfill
    <2> DEFINE due == {t \in Trade : /\ book[t] # NULL /\ book[t].status = "CLOSED"
                                     /\ ~book[t].is_deleted /\ book[t].pnl = NULL}
    <2>1. PICK S \in SUBSET due \ {{}} :
             \E r \in [S -> UNION {book[t].rs : t \in S}] :
                /\ \A t \in S : r[t] \in book[t].rs
                /\ Commit(S, [t \in Trade |->
                       IF t \in S THEN [book[t] EXCEPT !.pnl = PnlOf(book[t], r[t])]
                       ELSE book[t]])
          BY <1>5 DEF Backfill
    <2>2. PICK r \in [S -> UNION {book[t].rs : t \in S}] :
             /\ \A t \in S : r[t] \in book[t].rs
             /\ Commit(S, [t \in Trade |->
                    IF t \in S THEN [book[t] EXCEPT !.pnl = PnlOf(book[t], r[t])]
                    ELSE book[t]])
          BY <2>1
    <2> DEFINE x == [t \in S |-> [book[t] EXCEPT !.pnl = PnlOf(book[t], r[t])]]
               b == [t \in Trade |->
                        IF t \in S THEN [book[t] EXCEPT !.pnl = PnlOf(book[t], r[t])]
                        ELSE book[t]]
    <2>3. ASSUME NEW t \in S PROVE x[t] \in TradeRow /\ RowOf(t, x[t])
      <3>1. /\ t \in Trade /\ book[t] \in TradeRow /\ RowOf(t, book[t])
            /\ book[t].status = "CLOSED" /\ r[t] \in book[t].rs
            BY <2>1, <2>2 DEF BookInv, GoodBook
      <3> DEFINE p == PnlOf(book[t], r[t])
      <3>2. p \in PnlRow
            BY <3>1, PnlTyped
      <3> HIDE DEF p
      <3> DEFINE y == [book[t] EXCEPT !.pnl = p]
      <3>3. /\ y \in TradeRow /\ y.id = book[t].id /\ y.gross = book[t].gross
            /\ y.charges = book[t].charges /\ y.rs = book[t].rs
            /\ y.broker = book[t].broker /\ y.pnl = p /\ y.status = book[t].status
            BY <3>1, <3>2 DEF TradeRow
      <3>4. x[t] = y
            BY DEF p
      <3> HIDE DEF x, y
      <3>5. RowOf(t, y)
            BY <3>1, <3>3, RowKept DEF p
      <3> QED BY <3>3, <3>4, <3>5
    <2>4. \A t \in Trade : b[t] = IF t \in S THEN x[t] ELSE book[t]
          OBVIOUS
    <2>5. Commit(S, b) /\ S \subseteq Trade
          BY <2>1, <2>2
    <2>6. b = [t \in Trade |-> b[t]]
          OBVIOUS
    <2> HIDE DEF b, x
    <2>7. Writes(S, b)
          BY <2>3, <2>4, <2>5, <2>6 DEF BookInv, GoodBook, Writes
    <2> QED BY <2>5, <2>7 DEF Committed
  <1> QED BY <1>1, <1>2, <1>3, <1>4, <1>5 DEF Committing

LEMMA BookNext == BookInv /\ [Next]_vars => BookInv'
  <1> SUFFICES ASSUME BookInv, [Next]_vars PROVE BookInv'
      OBVIOUS
  <1>1. CASE UNCHANGED vars
        BY <1>1 DEF BookInv, GoodBook, vars
  <1>2. ASSUME NEW f \in Filters, Ask(f) PROVE BookInv'
        BY <1>2 DEF BookInv, GoodBook, Ask
  <1>3. CASE Read
        BY <1>3 DEF BookInv, GoodBook, Read
  <1>4. CASE Respond
        BY <1>4 DEF BookInv, GoodBook, Respond
  <1>5. CASE Committing
        BY <1>5, CommitsWrite, CommitKeepsBook DEF Committed
  <1> QED BY <1>1, <1>2, <1>3, <1>4, <1>5 DEF Next, Committing
-----------------------------------------------------------------------------
(* The selected rows, and sums over parts of them. *)

\* Closed and priced trades of the user.
PricedRow ==
    {x \in TradeRow :
        /\ x.pnl \in PnlRow /\ x.status = "CLOSED" /\ ~x.is_deleted
        /\ x.pnl.net = x.pnl.gross - x.pnl.charges.total
        /\ x.pnl.charges.total = SumOf(LAMBDA c : x.pnl.charges[c], Levies)
        /\ x.pnl.r # NULL => x.pnl.r * x.pnl.net >= 0}

\* A set of such rows, each of another trade.
Rows(S) ==
    /\ IsFiniteSet(S) /\ S \subseteq PricedRow
    /\ \A x, y \in S : x.id = y.id => x = y

\* A finite set has finitely many keys.
LEMMA KeysFinite ==
    ASSUME NEW S, IsFiniteSet(S), NEW key
    PROVE  IsFiniteSet({key[x] : x \in S})
  <1> DEFINE K == {key[x] : x \in S}
             g == [x \in S |-> key[x]]
  <1>1. g \in Surjection(S, K)
        BY DEF Surjection
  <1> QED BY <1>1, FS_Surjection

LEMMA PricedRows ==
    ASSUME NEW x \in TradeRow, NEW t, RowOf(t, x), x.pnl # NULL, ~x.is_deleted
    PROVE  x \in PricedRow
  <1>1. PICK r \in x.rs : x.pnl = PnlOf(x, r)
        BY DEF RowOf
  <1>2. x.pnl \in PnlRow /\ x.status = "CLOSED" /\ WellPriced(x)
        BY DEF RowOf, TradeRow
  <1>3. /\ x.pnl.charges = x.charges /\ x.pnl.gross = x.gross /\ x.pnl.r = r
        /\ x.pnl.net = x.gross - x.charges.total
        BY <1>1 DEF PnlOf
  <1>4. SumOf(LAMBDA c : x.pnl.charges[c], Levies) = SumOf(LAMBDA c : x.charges[c], Levies)
        BY <1>3 DEF SumOf
  <1>5. /\ SumOf(LAMBDA c : x.charges[c], Levies) = x.charges.total
        /\ r # NULL => r * (x.gross - x.charges.total) >= 0
        BY <1>2 DEF WellPriced
  <1> QED BY <1>2, <1>3, <1>4, <1>5 DEF PricedRow

LEMMA SelectedRows ==
    ASSUME NEW b, GoodBook(b), NEW f
    PROVE  Rows(Selected(b, f))
  <1>1. IsFiniteSet({b[t] : t \in Trade})
        BY TradeAssumption, KeysFinite
  <1>2. ASSUME NEW x \in Selected(b, f)
        PROVE  \E t \in Trade : /\ x = b[t] /\ b[t] # NULL
                                /\ b[t].pnl # NULL /\ ~b[t].is_deleted
        BY DEF Selected, InstrumentClauses, BaseWhere, Priced
  <1>3. ASSUME NEW x \in Selected(b, f)
        PROVE  x \in {b[t] : t \in Trade} /\ x \in PricedRow /\ b[x.id] = x
    <2>1. PICK t \in Trade : /\ x = b[t] /\ b[t] # NULL
                             /\ b[t].pnl # NULL /\ ~b[t].is_deleted
          BY <1>2
    <2>2. x \in TradeRow /\ RowOf(t, x)
          BY <2>1 DEF GoodBook
    <2> QED BY <2>1, <2>2, PricedRows DEF RowOf
  <1>4. Selected(b, f) \in SUBSET {b[t] : t \in Trade}
        BY <1>3
  <1>5. IsFiniteSet(Selected(b, f))
        BY <1>1, <1>4, FS_Subset
  <1> HIDE DEF Selected
  <1>6. \A x, y \in Selected(b, f) : x.id = y.id => x = y
        BY <1>3
  <1> QED BY <1>3, <1>5, <1>6 DEF Rows

LEMMA PartOfRows ==
    ASSUME NEW S, Rows(S), NEW P \in SUBSET S
    PROVE  Rows(P) /\ Cardinality(P) <= Cardinality(S)
  BY FS_Subset DEF Rows

LEMMA SumOfPart ==
    ASSUME NEW S, NEW P, P \subseteq S, IsFiniteSet(P)
    PROVE  SumOf(NetOf, P) = SumFunctionOnSet([x \in S |-> x.pnl.net], P)
  <1>1. SumOf(NetOf, P) = SumFunctionOnSet([x \in P |-> x.pnl.net], P)
        BY DEF SumOf, SumFunction, NetOf
  <1>2. \A x \in P : [y \in P |-> y.pnl.net][x] = [y \in S |-> y.pnl.net][x]
        OBVIOUS
  <1> QED BY <1>1, <1>2, SumEqual

LEMMA NetTyped ==
    ASSUME NEW S, S \subseteq PricedRow
    PROVE  \A x \in S : x.pnl.net \in Int
  BY DEF PricedRow, PnlRow

\* groups reports of each part of a partition of rows what Performance does.
Grouped(groups, rows, key) ==
    /\ IsFiniteSet(DOMAIN groups)
    /\ \A x \in rows : key[x] \in DOMAIN groups
    /\ \A k \in DOMAIN groups :
          /\ groups[k].trade_count = Cardinality(PartOf(rows, key, k))
          /\ groups[k].total_net_pnl = SumOf(NetOf, PartOf(rows, key, k))

LEMMA GroupsAddUp ==
    ASSUME NEW rows, IsFiniteSet(rows), rows \subseteq PricedRow,
           NEW groups, NEW key, Grouped(groups, rows, key)
    PROVE  Counted(groups) = Cardinality(rows) /\ Netted(groups) = SumOf(NetOf, rows)
  <1> DEFINE K == DOMAIN groups
             one == [x \in rows |-> 1]
             net == [x \in rows |-> x.pnl.net]
             counts == [k \in K |-> groups[k].trade_count]
             nets == [k \in K |-> groups[k].total_net_pnl]
  <1>1. ASSUME NEW k \in K
        PROVE  PartOf(rows, key, k) \subseteq rows /\ IsFiniteSet(PartOf(rows, key, k))
        BY FS_Subset DEF PartOf
  <1>2. ASSUME NEW k \in K PROVE counts[k] = SumFunctionOnSet(one, PartOf(rows, key, k))
    <2>1. \A x \in PartOf(rows, key, k) : one[x] = 1
          BY <1>1
    <2>2. SumFunctionOnSet(one, PartOf(rows, key, k)) = Cardinality(PartOf(rows, key, k))
          BY <1>1, <2>1, SumOnes
    <2> QED BY <2>2 DEF Grouped
  <1>3. ASSUME NEW k \in K PROVE nets[k] = SumFunctionOnSet(net, PartOf(rows, key, k))
        BY <1>1, SumOfPart DEF Grouped
  <1>4. \A x \in rows : key[x] \in K /\ one[x] \in Int /\ net[x] \in Int
        BY NetTyped DEF Grouped
  <1>5. SumFunctionOnSet(one, rows) = Cardinality(rows)
        BY SumOnes
  <1>6. SumFunctionOnSet(net, rows) = SumOf(NetOf, rows)
        BY SumOfPart
  <1>7. Counted(groups) = SumFunctionOnSet(counts, K) /\ Netted(groups) = SumFunctionOnSet(nets, K)
        BY DEF Counted, Netted, SumOf, SumFunction
  <1>8. IsFiniteSet(K)
        BY DEF Grouped
  <1> HIDE DEF K, one, net, counts, nets
  <1>9. SumFunctionOnSet(counts, K) = SumFunctionOnSet(one, rows)
        BY <1>2, <1>4, <1>8, SumParts
  <1>10. SumFunctionOnSet(nets, K) = SumFunctionOnSet(net, rows)
        BY <1>3, <1>4, <1>8, SumParts
  <1> QED BY <1>5, <1>6, <1>7, <1>9, <1>10

\* GROUP BY a key that each row has one of.
LEMMA GroupByKey ==
    ASSUME NEW rows, IsFiniteSet(rows), NEW key,
           NEW groups, groups = [k \in {key[x] : x \in rows} |-> Performance(PartOf(rows, key, k))]
    PROVE  Grouped(groups, rows, key)
  <1>1. DOMAIN groups = {key[x] : x \in rows}
        OBVIOUS
  <1>2. IsFiniteSet(DOMAIN groups)
        BY <1>1, KeysFinite
  <1>3. \A k \in DOMAIN groups :
           /\ groups[k].trade_count = Cardinality(PartOf(rows, key, k))
           /\ groups[k].total_net_pnl = SumOf(NetOf, PartOf(rows, key, k))
        BY DEF Performance
  <1> QED BY <1>1, <1>2, <1>3 DEF Grouped

\* The endpoints that group the selected rows by one key.
LEMMA EndpointsGroup ==
    ASSUME NEW b, NEW f, IsFiniteSet(Selected(b, f))
    PROVE  LET S == Selected(b, f) IN
           /\ Grouped(get_by_direction(b, f), S, [x \in S |-> x.direction])
           /\ Grouped(get_by_setup(b, f), S, [x \in S |-> x.setup_name])
           /\ Grouped(get_by_exit_type(b, f), S, [x \in S |-> LastExitType(x)])
           /\ Grouped(get_hold_duration_distribution(b, f).buckets, S,
                      [x \in S |-> HoldBucket(Minutes(x))])
  <1> DEFINE S == Selected(b, f)
             direction == [x \in S |-> x.direction]
             setup == [x \in S |-> x.setup_name]
             exit == [x \in S |-> LastExitType(x)]
             hold == [x \in S |-> HoldBucket(Minutes(x))]
             By(key) == [k \in {key[x] : x \in S} |-> Performance(PartOf(S, key, k))]
  <1>1. get_by_direction(b, f) = By(direction)
        BY DEF get_by_direction, GroupBy, PartOf
  <1>2. get_by_setup(b, f) = By(setup)
        BY DEF get_by_setup, GroupBy, PartOf
  <1>3. get_by_exit_type(b, f) = By(exit)
        BY DEF get_by_exit_type, GroupBy, PartOf
  <1>4. get_hold_duration_distribution(b, f).buckets = By(hold)
        BY DEF get_hold_duration_distribution, GroupBy, PartOf
  <1> HIDE DEF S, direction, setup, exit, hold
  <1>5. IsFiniteSet(S)
        BY DEF S
  <1>6. /\ Grouped(By(direction), S, direction) /\ Grouped(By(setup), S, setup)
        /\ Grouped(By(exit), S, exit) /\ Grouped(By(hold), S, hold)
        BY <1>5, GroupByKey
  <1> QED BY <1>1, <1>2, <1>3, <1>4, <1>6 DEF S, direction, setup, exit, hold

LEMMA DimensionsGroup ==
    ASSUME NEW b, NEW f, IsFiniteSet(Selected(b, f)), NEW d
    PROVE  LET S == Selected(b, f) IN
           Grouped(get_dimension_breakdown(b, f, d), S, [x \in S |-> Label(x, d)])
  <1> DEFINE S == Selected(b, f)
             key == [x \in S |-> Label(x, d)]
             groups == get_dimension_breakdown(b, f, d)
  <1>1. groups = [k \in {key[x] : x \in S} |->
                    With(Performance(PartOf(S, key, k)), "avg_hold_duration_minutes",
                         Avg(Minutes, PartOf(S, key, k)))]
        BY DEF get_dimension_breakdown, PartOf
  <1> HIDE DEF S, key, groups
  <1>2. IsFiniteSet(S) /\ DOMAIN groups = {key[x] : x \in S}
        BY <1>1 DEF S
  <1>3. IsFiniteSet(DOMAIN groups)
        BY <1>2, KeysFinite
  <1>4. ASSUME NEW k \in DOMAIN groups
        PROVE  /\ groups[k].trade_count = Cardinality(PartOf(S, key, k))
               /\ groups[k].total_net_pnl = SumOf(NetOf, PartOf(S, key, k))
    <2> DEFINE p == Performance(PartOf(S, key, k))
    <2>1. groups[k] = With(p, "avg_hold_duration_minutes", Avg(Minutes, PartOf(S, key, k)))
          BY <1>1
    <2>2. /\ p.trade_count = Cardinality(PartOf(S, key, k))
          /\ p.total_net_pnl = SumOf(NetOf, PartOf(S, key, k))
          /\ "trade_count" \in DOMAIN p /\ "total_net_pnl" \in DOMAIN p
          BY DEF Performance
    <2> HIDE DEF p
    <2> QED BY <2>1, <2>2 DEF With
  <1>5. Grouped(groups, S, key)
        BY <1>2, <1>3, <1>4 DEF Grouped
  <1> QED BY <1>5 DEF S, key, groups

LEMMA SixKeys == IsFiniteSet(1..5) /\ Cardinality(1..5) = 5 /\ IsFiniteSet(1..6)
  <1>1. 1 \in Int /\ 5 \in Int /\ 6 \in Int
        OBVIOUS
  <1>2. IsFiniteSet(1..5) /\ Cardinality(1..5) = IF 1 > 5 THEN 0 ELSE 5 - 1 + 1
        BY <1>1, FS_Interval
  <1>3. IsFiniteSet(1..6)
        BY <1>1, FS_Interval
  <1> QED BY <1>2, <1>3

\* The position of the band of a minute.
BandAt(minute) ==
    Min({i \in DOMAIN BandEnds : BandEnds[i][1] <= minute /\ minute <= BandEnds[i][2]}
        \cup {Len(Bands)})

LEMMA BandExists ==
    ASSUME NEW minute
    PROVE  BandAt(minute) \in DOMAIN Bands /\ Band(minute) = Bands[BandAt(minute)]
  <1> DEFINE fits == {i \in DOMAIN BandEnds :
                         BandEnds[i][1] <= minute /\ minute <= BandEnds[i][2]}
             F == fits \cup {6}
  <1>1. DOMAIN BandEnds = 1..5 /\ DOMAIN Bands = 1..6 /\ Len(Bands) = 6
        BY DEF BandEnds, Bands
  <1>2. F \subseteq 1..6 /\ 6 \in F
        BY <1>1
  <1> HIDE DEF F
  <1>3. \E i \in F : \A j \in F : i <= j
    <2>1. CASE 1 \in F
          BY <1>2, <2>1
    <2>2. CASE 1 \notin F /\ 2 \in F
          BY <1>2, <2>2
    <2>3. CASE 1 \notin F /\ 2 \notin F /\ 3 \in F
          BY <1>2, <2>3
    <2>4. CASE 1 \notin F /\ 2 \notin F /\ 3 \notin F /\ 4 \in F
          BY <1>2, <2>4
    <2>5. CASE 1 \notin F /\ 2 \notin F /\ 3 \notin F /\ 4 \notin F
          BY <1>2, <2>5
    <2> QED BY <2>1, <2>2, <2>3, <2>4, <2>5
  <1>4. Min(F) \in F
        BY <1>3 DEF Min
  <1>5. BandAt(minute) = Min(F) /\ Band(minute) = Bands[Min(F)]
        BY <1>1 DEF BandAt, Band, F
  <1> QED BY <1>1, <1>2, <1>4, <1>5

LEMMA BandsDiffer ==
    \A i, j \in DOMAIN Bands : Bands[i] = Bands[j] => i = j
  BY DEF Bands

LEMMA TimesOfDayGroup ==
    ASSUME NEW b, NEW f, IsFiniteSet(Selected(b, f))
    PROVE  LET S == Selected(b, f) IN
           Grouped(get_time_of_day_buckets(b, f), S,
                   [x \in S |-> BandAt(MinuteOfDay(x))])
  <1> DEFINE S == Selected(b, f)
             key == [x \in S |-> BandAt(MinuteOfDay(x))]
             band == [x \in S |-> Band(MinuteOfDay(x))]
             raw == get_time_of_day(b, f)
             groups == get_time_of_day_buckets(b, f)
  <1>1. raw = [k \in {band[x] : x \in S} |-> Performance(PartOf(S, band, k))]
        BY DEF get_time_of_day, GroupBy, PartOf
  <1>2. groups = [i \in DOMAIN Bands |->
                    IF Bands[i] \in DOMAIN raw THEN raw[Bands[i]] ELSE Performance({})]
        BY DEF get_time_of_day_buckets
  <1>3. \A x \in S : key[x] \in DOMAIN Bands /\ band[x] = Bands[key[x]]
        BY BandExists
  <1>4. IsFiniteSet(S) /\ IsFiniteSet(DOMAIN Bands)
    <2>1. DOMAIN Bands = 1..6
          BY DEF Bands
    <2> QED BY <2>1, SixKeys
  <1> HIDE DEF S, key, band, raw, groups
  <1>5. ASSUME NEW i \in DOMAIN Bands PROVE groups[i] = Performance(PartOf(S, key, i))
    <2>1. PartOf(S, band, Bands[i]) = PartOf(S, key, i)
          BY <1>3, BandsDiffer DEF PartOf
    <2>2. CASE Bands[i] \in DOMAIN raw
          BY <1>1, <1>2, <2>1, <2>2
    <2>3. CASE Bands[i] \notin DOMAIN raw
      <3>1. PartOf(S, key, i) = {}
            BY <1>1, <2>1, <2>3 DEF PartOf
      <3> QED BY <1>2, <2>3, <3>1
    <2> QED BY <2>2, <2>3
  <1>6. DOMAIN groups = DOMAIN Bands
        BY <1>2
  <1>7. \A i \in DOMAIN groups :
           /\ groups[i].trade_count = Cardinality(PartOf(S, key, i))
           /\ groups[i].total_net_pnl = SumOf(NetOf, PartOf(S, key, i))
        BY <1>5, <1>6 DEF Performance
  <1>8. Grouped(groups, S, key)
        BY <1>3, <1>4, <1>6, <1>7 DEF Grouped
  <1> QED BY <1>8 DEF S, key, groups

\* Won, lost and breakeven trades.
LEMMA OutcomesAddUp ==
    ASSUME NEW S, IsFiniteSet(S), S \subseteq PricedRow
    PROVE  Cardinality(Won(S)) + Cardinality(Lost(S)) + Cardinality(Even(S)) = Cardinality(S)
  <1>1. \A x \in S : x.pnl.net \in Int
        BY NetTyped
  <1>2. IsFiniteSet(Won(S)) /\ IsFiniteSet(Lost(S)) /\ IsFiniteSet(Even(S))
        BY FS_Subset DEF Won, Lost, Even
  <1> DEFINE U == Won(S) \cup Lost(S)
  <1>3. S = U \cup Even(S) /\ U \cap Even(S) = {} /\ Won(S) \cap Lost(S) = {}
        BY <1>1 DEF Won, Lost, Even
  <1>4. IsFiniteSet(U) /\ Cardinality(U) = Cardinality(Won(S)) + Cardinality(Lost(S))
    <2>1. Cardinality(U) = Cardinality(Won(S)) + Cardinality(Lost(S))
                           - Cardinality(Won(S) \cap Lost(S))
          BY <1>2, FS_Union
    <2>2. Cardinality(Won(S)) \in Nat /\ Cardinality(Lost(S)) \in Nat
          BY <1>2, FS_CardinalityType
    <2>3. Cardinality(Won(S) \cap Lost(S)) = 0
          BY <1>3, FS_EmptySet
    <2>4. IsFiniteSet(U)
          BY <1>2, FS_Union
    <2> HIDE DEF U
    <2> QED BY <2>1, <2>2, <2>3, <2>4
  <1> HIDE DEF U
  <1>5. Cardinality(S) = Cardinality(U) + Cardinality(Even(S)) - 0
        BY <1>2, <1>3, <1>4, FS_Union, FS_EmptySet
  <1>6. Cardinality(U) \in Nat /\ Cardinality(Even(S)) \in Nat
        BY <1>2, <1>4, FS_CardinalityType
  <1> QED BY <1>4, <1>5, <1>6

\* The buckets of R count the trades that have one.
LEMMA RBucketExists == ASSUME NEW r PROVE RBucket(r) \in 1..6
  <1> DEFINE B == {i \in DOMAIN RBounds : RBounds[i] <= r}
  <1>1. DOMAIN RBounds = 1..5
        BY DEF RBounds
  <1>2. IsFiniteSet(1..5) /\ Cardinality(1..5) = 5 /\ B \in SUBSET (1..5)
        BY <1>1, SixKeys
  <1>3. IsFiniteSet(B) /\ Cardinality(B) <= 5
        BY <1>2, FS_Subset
  <1>4. Cardinality(B) \in Nat
        BY <1>3, FS_CardinalityType
  <1>5. RBucket(r) = Cardinality(B) + 1
        BY DEF RBucket
  <1> HIDE DEF B
  <1> QED BY <1>3, <1>4, <1>5

LEMMA RBucketsAddUp ==
    ASSUME NEW b, NEW f, IsFiniteSet(Selected(b, f))
    PROVE  Total(get_r_distribution_buckets(b, f)) = Cardinality(WithR(Selected(b, f)))
  <1> DEFINE R == WithR(Selected(b, f))
             K == 1..6
             key == [x \in R |-> RBucket(x.pnl.r)]
             one == [x \in R |-> 1]
             counts == [k \in K |-> Cardinality(PartOf(R, key, k))]
  <1>1. Len(RBounds) + 1 = 6
        BY DEF RBounds
  <1>2. get_r_distribution_buckets(b, f) = counts
        BY <1>1 DEF get_r_distribution_buckets, PartOf
  <1>3. IsFiniteSet(R) /\ IsFiniteSet(K)
    <2>1. R \in SUBSET Selected(b, f)
          BY DEF WithR
    <2> QED BY <2>1, FS_Subset, SixKeys
  <1>4. \A x \in R : key[x] \in K /\ one[x] \in Int /\ one[x] = 1
        BY RBucketExists
  <1>5. \A k \in K : counts[k] = Cardinality(PartOf(R, key, k))
        OBVIOUS
  <1>6. Total(counts) = SumFunctionOnSet(counts, K)
        BY DEF Total, SumFunction
  <1> HIDE DEF R, K, key, one, counts
  <1>7. ASSUME NEW k \in K PROVE counts[k] = SumFunctionOnSet(one, PartOf(R, key, k))
    <2>1. IsFiniteSet(PartOf(R, key, k)) /\ \A x \in PartOf(R, key, k) : one[x] = 1
          BY <1>3, <1>4, FS_Subset DEF PartOf
    <2> QED BY <1>5, <2>1, SumOnes
  <1>8. SumFunctionOnSet(counts, K) = SumFunctionOnSet(one, R)
        BY <1>3, <1>4, <1>7, SumParts
  <1>9. SumFunctionOnSet(one, R) = Cardinality(R)
        BY <1>3, <1>4, SumOnes
  <1> QED BY <1>2, <1>6, <1>8, <1>9 DEF R

\* What PartsAddUp asks for one filter.
LEMMA EveryPartition ==
    ASSUME BookInv, NEW f
    PROVE  LET head == get_pnl_summary(book, f)
               outcome == get_outcome_distribution(book, f)
               r == get_r_distribution(book, f)
               AddUp(groups) == /\ Counted(groups) = head.total_trades
                                /\ Netted(groups) = head.net_pnl
           IN  /\ AddUp(get_by_direction(book, f))
               /\ AddUp(get_by_setup(book, f))
               /\ AddUp(get_by_exit_type(book, f))
               /\ AddUp(get_time_of_day_buckets(book, f))
               /\ AddUp(get_hold_duration_distribution(book, f).buckets)
               /\ \A d \in Dimensions : AddUp(get_dimension_breakdown(book, f, d))
               /\ outcome.win_count + outcome.loss_count + outcome.breakeven_count
                      = head.total_trades
               /\ Total(r.buckets) = r.stats.coverage_count
  <1> DEFINE S == Selected(book, f)
             n == Cardinality(S)
             net == SumOf(NetOf, S)
  <1>1. IsFiniteSet(S) /\ S \subseteq PricedRow
        BY SelectedRows DEF Rows, BookInv
  <1>2. get_pnl_summary(book, f).total_trades = n /\ get_pnl_summary(book, f).net_pnl = net
        BY DEF get_pnl_summary
  <1>3. /\ get_outcome_distribution(book, f).win_count = Cardinality(Won(S))
        /\ get_outcome_distribution(book, f).loss_count = Cardinality(Lost(S))
        /\ get_outcome_distribution(book, f).breakeven_count = Cardinality(Even(S))
        BY DEF get_outcome_distribution
  <1>4. /\ get_r_distribution(book, f).buckets = get_r_distribution_buckets(book, f)
        /\ get_r_distribution(book, f).stats.coverage_count = Cardinality(WithR(S))
        BY DEF get_r_distribution, get_r_distribution_stats
  <1>5. ASSUME NEW groups, NEW key, Grouped(groups, S, key)
        PROVE  Counted(groups) = n /\ Netted(groups) = net
        BY <1>1, <1>5, GroupsAddUp
  <1> HIDE DEF n, net
  <1>6. /\ Counted(get_by_direction(book, f)) = n /\ Netted(get_by_direction(book, f)) = net
        /\ Counted(get_by_setup(book, f)) = n /\ Netted(get_by_setup(book, f)) = net
        /\ Counted(get_by_exit_type(book, f)) = n /\ Netted(get_by_exit_type(book, f)) = net
        BY <1>1, <1>5, EndpointsGroup
  <1>7. /\ Counted(get_hold_duration_distribution(book, f).buckets) = n
        /\ Netted(get_hold_duration_distribution(book, f).buckets) = net
        BY <1>1, <1>5, EndpointsGroup
  <1>8. /\ Counted(get_time_of_day_buckets(book, f)) = n
        /\ Netted(get_time_of_day_buckets(book, f)) = net
        BY <1>1, <1>5, TimesOfDayGroup
  <1>9. ASSUME NEW d \in Dimensions
        PROVE  /\ Counted(get_dimension_breakdown(book, f, d)) = n
               /\ Netted(get_dimension_breakdown(book, f, d)) = net
        BY <1>1, <1>5, DimensionsGroup
  <1>10. Cardinality(Won(S)) + Cardinality(Lost(S)) + Cardinality(Even(S)) = n
         BY <1>1, OutcomesAddUp DEF n
  <1>11. Total(get_r_distribution_buckets(book, f)) = Cardinality(WithR(S))
         BY <1>1, RBucketsAddUp
  <1> HIDE DEF S
  <1> QED BY <1>2, <1>3, <1>4, <1>6, <1>7, <1>8, <1>9, <1>10, <1>11

\* However the trades of a filter are cut, the parts add up to the summary: for any
\* book, filter and bounds.
THEOREM PartsAlwaysAddUp == Spec => []PartsAddUp
  <1>1. BookInv => PartsAddUp
        BY EveryPartition DEF PartsAddUp
  <1> QED BY <1>1, BookInit, BookNext, PTL DEF Spec

-----------------------------------------------------------------------------
(* The dashboard. *)

OfAccount(b, a) == {x \in Kept(b) : x.account_id = a}

OnlyAccount(a, since) ==
    [date_from |-> since, date_to |-> NULL, account_ids |-> {a},
     instrument_types |-> {}, exchange_segments |-> {}, trade_types |-> {},
     directions |-> {}, setup_names |-> {}, brokers |-> {}]

\* With a filter for one account the analytics select what the dashboard sums up.
LEMMA SameRows ==
    ASSUME BookInv, NEW a, NEW since \in Nat, NEW from \in {NULL, since}, from = NULL => since = 0
    PROVE  Selected(book, OnlyAccount(a, from))
              = {x \in OfAccount(book, a) : x.pnl # NULL /\ x.trade_date >= since}
  <1> DEFINE f == OnlyAccount(a, from)
             D == {x \in OfAccount(book, a) : x.pnl # NULL /\ x.trade_date >= since}
  <1>1. /\ f.date_from = from /\ f.date_to = NULL /\ f.account_ids = {a}
        /\ f.instrument_types = {} /\ f.exchange_segments = {} /\ f.trade_types = {}
        /\ f.directions = {} /\ f.setup_names = {} /\ f.brokers = {}
        BY DEF OnlyAccount
  <1> HIDE DEF f
  <1>2. Selected(book, f) =
           {book[t] : t \in {u \in Trade :
               /\ book[u] # NULL /\ book[u].pnl # NULL /\ book[u].status = "CLOSED"
               /\ ~book[u].is_deleted
               /\ from # NULL => book[u].trade_date >= from
               /\ book[u].account_id = a}}
        BY <1>1 DEF Selected, InstrumentClauses, BaseWhere, Priced, Allows
  <1>3. ASSUME NEW t \in Trade, book[t] # NULL
        PROVE  /\ book[t].trade_date \in Nat
               /\ book[t].pnl # NULL => book[t].status = "CLOSED"
        BY <1>3 DEF BookInv, GoodBook, RowOf, TradeRow
  <1>4. D = {book[t] : t \in {u \in Trade :
               /\ book[u] # NULL /\ ~book[u].is_deleted /\ book[u].account_id = a
               /\ book[u].pnl # NULL /\ book[u].trade_date >= since}}
        BY DEF OfAccount, Kept
  <1>5. ASSUME NEW t \in Trade, book[t] # NULL
        PROVE  (from # NULL => book[t].trade_date >= from) <=> book[t].trade_date >= since
        BY <1>3, <1>5
  <1> HIDE DEF D
  <1>6. Selected(book, f) = D
        BY <1>2, <1>3, <1>4, <1>5
  <1> QED BY <1>6 DEF f, D

\* Money, closed, open: what the dashboard shows of an account is what the other
\* endpoints show, except for the closed trades that are not priced yet.
THEOREM DashboardAlwaysAgrees == Spec => []DashboardAgrees
  <1>1. ASSUME BookInv, NEW a \in Account
        PROVE  LET d == dashboard_summary(book, a)
                   head == get_pnl_summary(book, OnlyAccount(a, NULL))
                   unpriced == {x \in Kept(book) :
                                   x.account_id = a /\ x.status = "CLOSED" /\ x.pnl = NULL}
               IN  /\ d.all_time_net_pnl = head.net_pnl
                   /\ d.total_closed_trades = head.total_trades + Cardinality(unpriced)
                   /\ d.open_trade_count = get_daily_risk(book, a).at_risk.open_trade_count
                   /\ d.mtd_net_pnl
                         = get_pnl_summary(book, OnlyAccount(a, MonthStart)).net_pnl
    <2> DEFINE rows == OfAccount(book, a)
               Since(day) == {x \in rows : x.pnl # NULL /\ x.trade_date >= day}
               unpriced == {x \in Kept(book) :
                               x.account_id = a /\ x.status = "CLOSED" /\ x.pnl = NULL}
               closed == {x \in rows : x.status = "CLOSED"}
               open == {x \in rows : IsOpen(x)}
    <2>1. /\ dashboard_summary(book, a).all_time_net_pnl = SumOf(NetOf, Since(0))
          /\ dashboard_summary(book, a).mtd_net_pnl = SumOf(NetOf, Since(MonthStart))
          /\ dashboard_summary(book, a).total_closed_trades = Cardinality(closed)
          /\ dashboard_summary(book, a).open_trade_count = Cardinality(open)
          BY DEF dashboard_summary, OfAccount
    <2>2. Selected(book, OnlyAccount(a, NULL)) = Since(0)
          BY <1>1, SameRows
    <2>3. MonthStart \in Nat /\ MonthStart # NULL
          BY ClockAssumption, NullAssumption
    <2>4. Selected(book, OnlyAccount(a, MonthStart)) = Since(MonthStart)
          BY <1>1, <2>3, SameRows
    <2>5. get_daily_risk(book, a).at_risk.open_trade_count = Cardinality(open)
          BY DEF get_daily_risk, AtRisk, OfAccount
    <2>6. /\ get_pnl_summary(book, OnlyAccount(a, NULL)).net_pnl = SumOf(NetOf, Since(0))
          /\ get_pnl_summary(book, OnlyAccount(a, NULL)).total_trades = Cardinality(Since(0))
          /\ get_pnl_summary(book, OnlyAccount(a, MonthStart)).net_pnl
                = SumOf(NetOf, Since(MonthStart))
          BY <2>2, <2>4 DEF get_pnl_summary
    <2>7. Cardinality(closed) = Cardinality(Since(0)) + Cardinality(unpriced)
      <3>1. closed = Since(0) \cup unpriced /\ Since(0) \cap unpriced = {}
        <4>1. ASSUME NEW x \in rows
              PROVE  x.trade_date >= 0 /\ (x.pnl # NULL => x.status = "CLOSED")
              BY <1>1 DEF OfAccount, Kept, BookInv, GoodBook, RowOf, TradeRow
        <4> QED BY <4>1 DEF OfAccount
      <3>2. IsFiniteSet({book[t] : t \in Trade})
            BY TradeAssumption, KeysFinite
      <3>3. /\ Since(0) \in SUBSET {book[t] : t \in Trade}
            /\ unpriced \in SUBSET {book[t] : t \in Trade}
            BY DEF OfAccount, Kept
      <3>4. IsFiniteSet(Since(0)) /\ IsFiniteSet(unpriced)
            BY <3>2, <3>3, FS_Subset
      <3> DEFINE A == Since(0)
                 B == unpriced
      <3> HIDE DEF A, B, closed
      <3>5. Cardinality(A \cup B) = Cardinality(A) + Cardinality(B) - Cardinality(A \cap B)
            BY <3>4, FS_Union DEF A, B
      <3>6. Cardinality(A \cap B) = 0
            BY <3>1, FS_EmptySet DEF A, B
      <3>7. Cardinality(A) \in Nat /\ Cardinality(B) \in Nat
            BY <3>4, FS_CardinalityType DEF A, B
      <3>8. Cardinality(A \cup B) = Cardinality(A) + Cardinality(B)
            BY <3>5, <3>6, <3>7
      <3> QED BY <3>1, <3>8 DEF A, B
    <2> HIDE DEF Since, unpriced, closed, open
    <2>8. /\ dashboard_summary(book, a).all_time_net_pnl
                = get_pnl_summary(book, OnlyAccount(a, NULL)).net_pnl
          /\ dashboard_summary(book, a).total_closed_trades
                = get_pnl_summary(book, OnlyAccount(a, NULL)).total_trades
                  + Cardinality(unpriced)
          /\ dashboard_summary(book, a).open_trade_count
                = get_daily_risk(book, a).at_risk.open_trade_count
          /\ dashboard_summary(book, a).mtd_net_pnl
                = get_pnl_summary(book, OnlyAccount(a, MonthStart)).net_pnl
          BY <2>1, <2>5, <2>6, <2>7
    <2> QED BY <2>8 DEF unpriced
  <1>2. ASSUME NEW a \in Account
        PROVE  LET only == OnlyAccount(a, NULL)
               IN  [only EXCEPT !.date_from = MonthStart] = OnlyAccount(a, MonthStart)
        BY DEF OnlyAccount
  <1>3. BookInv => DashboardAgrees
        BY <1>1, <1>2 DEF DashboardAgrees, OnlyAccount
  <1> QED BY <1>3, BookInit, BookNext, PTL DEF Spec

-----------------------------------------------------------------------------
(* Rows in order. *)

\* before[x] holds what comes before x in a strict order of S.
Ordered(S, before) ==
    /\ \A x \in S : before[x] \subseteq S /\ x \notin before[x]
    /\ \A x, y \in S : y \in before[x] => before[y] \subseteq before[x]
    /\ \A x, y \in S : x = y \/ x \in before[y] \/ y \in before[x]

\* The i-th element, the one with i - 1 before it, exists, is another for each i, and
\* comes before the later ones.
LEMMA RanksListAll ==
    ASSUME NEW S, IsFiniteSet(S), NEW before, Ordered(S, before), NEW at,
           at = [i \in 1..Cardinality(S) |-> at[i]],
           \A i \in 1..Cardinality(S) :
              (\E x \in S : Cardinality(before[x]) = i - 1)
                 => at[i] \in S /\ Cardinality(before[at[i]]) = i - 1
    PROVE  /\ at \in Bijection(1..Cardinality(S), S)
           /\ \A i, j \in 1..Cardinality(S) : i < j => at[i] \in before[at[j]]
  <1> DEFINE n == Cardinality(S)
             rank == [x \in S |-> Cardinality(before[x])]
  <1>1. n \in Nat
        BY FS_CardinalityType
  <1>2. ASSUME NEW x \in S
        PROVE  IsFiniteSet(before[x]) /\ rank[x] \in 0..n-1
    <2>1. before[x] \in SUBSET (S \ {x})
          BY DEF Ordered
    <2>2. IsFiniteSet(S \ {x}) /\ Cardinality(S \ {x}) = n - 1
          BY FS_RemoveElement
    <2>3. IsFiniteSet(before[x]) /\ Cardinality(before[x]) <= n - 1
          BY <2>1, <2>2, FS_Subset
    <2>4. Cardinality(before[x]) \in Nat
          BY <2>3, FS_CardinalityType
    <2> HIDE DEF n
    <2> QED BY <1>1, <2>3, <2>4
  <1>3. ASSUME NEW x \in S, NEW y \in S, y \in before[x] PROVE rank[x] # rank[y]
    <2>1. before[y] \in SUBSET before[x] /\ y \notin before[y]
          BY <1>3 DEF Ordered
    <2>2. Cardinality(before[x]) # Cardinality(before[y])
          BY <1>2, <1>3, <2>1, FS_Subset
    <2> QED BY <2>2
  <1>4. \A x, y \in S : rank[x] = rank[y] => x = y
        BY <1>3 DEF Ordered
  <1>5. IsFiniteSet(0..n-1) /\ Cardinality(0..n-1) = n
    <2>1. 0 \in Int /\ n - 1 \in Int
          BY <1>1
    <2>2. IsFiniteSet(0..n-1) /\ Cardinality(0..n-1) = IF 0 > n - 1 THEN 0 ELSE n - 1 - 0 + 1
          BY <2>1, FS_Interval
    <2> HIDE DEF n
    <2> QED BY <1>1, <2>2
  <1>6. rank \in Injection(S, 0..n-1)
    <2>1. rank \in [S -> 0..n-1]
          BY <1>2
    <2> HIDE DEF rank
    <2> QED BY <1>4, <2>1 DEF Injection, IsInjective
  <1> HIDE DEF rank
  <1>7. rank \in Surjection(S, 0..n-1)
        BY <1>5, <1>6, FS_Injection
  <1>8. ASSUME NEW i \in 1..n PROVE at[i] \in S /\ rank[at[i]] = i - 1
    <2>1. i - 1 \in 0..n-1
          BY <1>1
    <2>2. \E x \in S : rank[x] = i - 1
          BY <1>7, <2>1 DEF Surjection
    <2>3. \E x \in S : Cardinality(before[x]) = i - 1
          BY <2>2 DEF rank
    <2>4. at[i] \in S /\ Cardinality(before[at[i]]) = i - 1
          BY <2>3
    <2> QED BY <2>4 DEF rank
  <1>9. at = [i \in 1..n |-> at[i]]
        OBVIOUS
  <1> HIDE DEF n
  <1>10. \A i, j \in 1..n : at[i] = at[j] => i = j
    <2> SUFFICES ASSUME NEW i \in 1..n, NEW j \in 1..n, at[i] = at[j] PROVE i = j
        OBVIOUS
    <2>1. rank[at[i]] = i - 1 /\ rank[at[j]] = j - 1
          BY <1>8
    <2>2. i - 1 = j - 1 /\ i \in Int /\ j \in Int
          BY <1>1, <2>1
    <2> QED BY <2>2
  <1>11. ASSUME NEW x \in S PROVE \E i \in 1..n : at[i] = x
    <2>1. rank[x] \in 0..n-1
          BY <1>2 DEF rank, n
    <2>2. rank[x] + 1 \in 1..n /\ (rank[x] + 1) - 1 = rank[x]
          BY <1>1, <2>1
    <2>3. at[rank[x] + 1] \in S /\ rank[at[rank[x] + 1]] = rank[x]
          BY <1>8, <2>2
    <2> QED BY <1>4, <2>2, <2>3
  <1>12. at \in [1..n -> S]
        BY <1>8, <1>9
  <1> HIDE DEF Ordered
  <1>13. at \in Bijection(1..n, S)
        BY <1>10, <1>11, <1>12, Zenon DEF Bijection, Injection, Surjection, IsInjective
  <1>14. ASSUME NEW i \in 1..n, NEW j \in 1..n, i < j PROVE at[i] \in before[at[j]]
    <2>0. i \in Int /\ j \in Int /\ i # j
          BY <1>1, <1>14
    <2>1. /\ at[i] \in S /\ at[j] \in S /\ rank[at[i]] = i - 1 /\ rank[at[j]] = j - 1
          /\ at[i] # at[j]
      <3>1. at[i] # at[j]
            BY <1>10, <2>0
      <3> QED BY <1>8, <3>1
    <2>2. ASSUME at[j] \in before[at[i]] PROVE FALSE
      <3>1. before[at[j]] \in SUBSET before[at[i]]
            BY <2>1, <2>2 DEF Ordered
      <3>2. Cardinality(before[at[j]]) <= Cardinality(before[at[i]])
            BY <1>2, <2>1, <3>1, FS_Subset
      <3> QED BY <1>14, <2>0, <2>1, <3>2 DEF rank
    <2> QED BY <2>1, <2>2 DEF Ordered
  <1> QED BY <1>13, <1>14 DEF n

\* The order of trades lists each selected row once.
LEMMA InOrderLists ==
    ASSUME NEW S, Rows(S)
    PROVE  InOrder(S) \in Bijection(1..Cardinality(S), S)
  <1> DEFINE before == [x \in S |-> {y \in S : Earlier(y, x)}]
             at == InOrder(S)
  <1>1. ASSUME NEW x \in S
        PROVE  x.trade_date \in Nat /\ x.last_fill_at \in Nat /\ x.id \in Nat
        BY TradeAssumption DEF Rows, PricedRow, TradeRow
  <1>2. ASSUME NEW x \in S, NEW y \in S PROVE x = y \/ Earlier(x, y) \/ Earlier(y, x)
        BY <1>1 DEF Earlier, Rows
  <1>3. ASSUME NEW x \in S PROVE ~Earlier(x, x)
        BY <1>1 DEF Earlier
  <1>4. ASSUME NEW x \in S, NEW y \in S, NEW z \in S, Earlier(z, y), Earlier(y, x)
        PROVE  Earlier(z, x)
        BY <1>1, <1>4 DEF Earlier
  <1>5. Ordered(S, before)
    <2>1. \A x \in S : before[x] \subseteq S /\ x \notin before[x]
          BY <1>3
    <2>2. \A x, y \in S : y \in before[x] => before[y] \subseteq before[x]
          BY <1>4
    <2>3. \A x, y \in S : x = y \/ x \in before[y] \/ y \in before[x]
          BY <1>2
    <2> QED BY <2>1, <2>2, <2>3 DEF Ordered
  <1>6. at = [i \in 1..Cardinality(S) |-> CHOOSE x \in S : Cardinality({y \in S : Earlier(y, x)}) = i - 1]
        BY DEF InOrder, Enumerate
  <1>7. at = [i \in 1..Cardinality(S) |-> at[i]]
        BY <1>6
  <1>8. ASSUME NEW i \in 1..Cardinality(S), \E x \in S : Cardinality(before[x]) = i - 1
        PROVE  at[i] \in S /\ Cardinality(before[at[i]]) = i - 1
    <2>1. \E x \in S : Cardinality({y \in S : Earlier(y, x)}) = i - 1
          BY <1>8
    <2>2. at[i] = CHOOSE x \in S : Cardinality({y \in S : Earlier(y, x)}) = i - 1
          BY <1>6
    <2> HIDE DEF at
    <2>3. at[i] \in S /\ Cardinality({y \in S : Earlier(y, at[i])}) = i - 1
          BY <2>1, <2>2
    <2> QED BY <2>3
  <1>9. IsFiniteSet(S)
        BY DEF Rows
  <1> HIDE DEF before, at
  <1>10. at \in Bijection(1..Cardinality(S), S)
         BY <1>5, <1>7, <1>8, <1>9, RanksListAll
  <1> QED BY <1>10 DEF at

\* A column of the rows in order, v: as long as there are rows, with their total.
LEMMA SeriesLists ==
    ASSUME NEW S, IsFiniteSet(S), NEW n \in Nat, NEW at \in Bijection(1..n, S),
           NEW v, \A x \in S : v[x] \in Int,
           NEW s, s = [i \in 1..n |-> s[i]], \A i \in 1..n : s[i] = v[at[i]]
    PROVE  s \in Seq(Int) /\ Len(s) = n /\ Total(s) = SumFunctionOnSet(v, S)
  <1>1. \A i \in 1..n : at[i] \in S
        BY DEF Bijection, Injection
  <1>2. \A i \in 1..n : s[i] = v[at[i]] /\ s[i] \in Int
        BY <1>1
  <1>3. s \in Seq(Int) /\ Len(s) = n
    <2>1. s \in [1..n -> Int]
          BY <1>2
    <2> QED BY <2>1
  <1>4. IsFiniteSet(1..n)
    <2>1. 1 \in Int /\ n \in Int
          OBVIOUS
    <2> QED BY <2>1, FS_Interval
  <1>5. SumFunctionOnSet(s, 1..n) = SumFunctionOnSet(v, S)
        BY <1>2, <1>4, SumInOrder
  <1>6. DOMAIN s = 1..n
        OBVIOUS
  <1> QED BY <1>3, <1>5, <1>6 DEF Total, SumFunction

LEMMA TotalConcat ==
    ASSUME NEW a \in Seq(Int), NEW b \in Seq(Int)
    PROVE  Total(a \o b) = Total(a) + Total(b)
  <1> DEFINE m == Len(a)
             n == Len(b)
             c == a \o b
             I == 1..m
             J == m+1..m+n
             at == [i \in J |-> i - m]
  <1>1. m \in Nat /\ n \in Nat /\ Len(c) = m + n /\ c \in Seq(Int)
        BY ConcatProperties
  <1>2. /\ \A i \in I : c[i] = a[i] /\ a[i] \in Int
        /\ \A i \in J : c[i] = b[i - m]
        /\ \A i \in 1..n : b[i] \in Int
        /\ DOMAIN c = 1..m+n /\ DOMAIN a = 1..m /\ DOMAIN b = 1..n
        OBVIOUS
  <1> HIDE DEF m, n, c
  <1>3. 1..m+n = I \cup J /\ I \cap J = {}
        BY <1>1
  <1>4. IsFiniteSet(I) /\ IsFiniteSet(J) /\ IsFiniteSet(1..n)
    <2>1. 1 \in Int /\ m \in Int /\ n \in Int /\ m + 1 \in Int /\ m + n \in Int
          BY <1>1
    <2> QED BY <2>1, FS_Interval
  <1>5. \A i \in I \cup J : c[i] \in Int
        BY <1>1, <1>2
  <1>6. SumFunctionOnSet(c, I \cup J) = SumFunctionOnSet(c, I) + SumFunctionOnSet(c, J)
        BY <1>3, <1>4, <1>5, SumUnion
  <1>7. SumFunctionOnSet(c, I) = SumFunctionOnSet(a, I)
        BY <1>2, <1>4, SumEqual
  <1>8. SumFunctionOnSet(c, J) = SumFunctionOnSet(b, 1..n)
    <2>1. at \in Bijection(J, 1..n)
      <3>1. at \in [J -> 1..n]
            BY <1>1
      <3>2. \A i, j \in J : at[i] = at[j] => i = j
            BY <1>1
      <3>3. \A k \in 1..n : \E i \in J : at[i] = k
        <4>1. ASSUME NEW k \in 1..n PROVE k + m \in J /\ at[k + m] = k
              BY <1>1
        <4> QED BY <4>1
      <3> HIDE DEF at, J
      <3> QED BY <3>1, <3>2, <3>3, Zenon DEF Bijection, Injection, Surjection, IsInjective
    <2>2. \A i \in J : c[i] = b[at[i]]
          BY <1>2
    <2>3. IsFiniteSet(J) /\ IsFiniteSet(1..n) /\ \A x \in 1..n : b[x] \in Int
          BY <1>2, <1>4
    <2> DEFINE K == 1..n
    <2> HIDE DEF at, J, K
    <2>4. at \in Bijection(J, K) /\ IsFiniteSet(K) /\ \A x \in K : b[x] \in Int
          BY <2>1, <2>3 DEF K
    <2>5. SumFunctionOnSet(c, J) = SumFunctionOnSet(b, K)
          BY <2>2, <2>3, <2>4, SumInOrder
    <2> QED BY <2>5 DEF K
  <1>9. /\ Total(c) = SumFunctionOnSet(c, 1..m+n) /\ Total(a) = SumFunctionOnSet(a, I)
        /\ Total(b) = SumFunctionOnSet(b, 1..n)
        BY <1>2 DEF Total, SumFunction
  <1> QED BY <1>3, <1>6, <1>7, <1>8, <1>9 DEF c
-----------------------------------------------------------------------------
(* Expectancy. *)

\* The weighing of w wins that add up to p against l losses that add up to m.
Weighed(w, p, l, m) ==
    IF w # 0 /\ l # 0
    THEN Minus(Times(<<w, w + l>>, <<p, w>>), Times(<<l, w + l>>, Magnitude(<<m, l>>)))
    ELSE IF w # 0 THEN <<p, w>> ELSE Minus(Zero, Magnitude(<<m, l>>))

LEMMA TotalType == ASSUME NEW s \in Seq(Int) PROVE Total(s) \in Int
  <1>1. DOMAIN s = 1..Len(s) /\ \A i \in 1..Len(s) : s[i] \in Int
        OBVIOUS
  <1>2. 1 \in Int /\ Len(s) \in Int
        OBVIOUS
  <1>3. IsFiniteSet(1..Len(s))
        BY <1>2, FS_Interval
  <1>4. SumFunctionOnSet(s, 1..Len(s)) \in Int
        BY <1>1, <1>3, SumType
  <1> QED BY <1>1, <1>4 DEF Total, SumFunction

LEMMA ProductsRegroup ==
    ASSUME NEW w \in Int, NEW p \in Int, NEW l \in Int, NEW m \in Int, NEW n \in Int
    PROVE  ((w * p) * (n * l) - (l * m) * (n * w)) * n = (p - m) * ((n * w) * (n * l))
  <1>1. ((w * p) * (n * l)) * n = p * ((n * w) * (n * l))
        OBVIOUS
  <1>2. ((l * m) * (n * w)) * n = m * ((n * w) * (n * l))
        OBVIOUS
  <1> DEFINE a == (w * p) * (n * l)
             b == (l * m) * (n * w)
             c == (n * w) * (n * l)
  <1>3. a \in Int /\ b \in Int /\ c \in Int /\ a * n = p * c /\ b * n = m * c
        BY <1>1, <1>2
  <1> HIDE DEF a, b, c
  <1>4. (a - b) * n = a * n - b * n /\ (p - m) * c = p * c - m * c
        BY <1>3
  <1>5. (a - b) * n = (p - m) * c
        BY <1>3, <1>4
  <1> QED BY <1>5 DEF a, b, c

\* It is the mean of all, if no loss has a positive R.
LEMMA WeighedIsMean ==
    ASSUME NEW w \in Nat, NEW p \in Int, NEW l \in Nat, NEW m \in Int, m <= 0, w + l # 0,
           w = 0 => p = 0, l = 0 => m = 0
    PROVE  /\ Weighed(w, p, l, m) \in Fraction
           /\ Same(Weighed(w, p, l, m), <<p + m, w + l>>)
  <1> DEFINE n == w + l
  <1>1. Magnitude(<<m, l>>) = <<-m, l>>
        BY DEF Magnitude
  <1>2. CASE w # 0 /\ l # 0
    <2> DEFINE x == (w * p) * (n * l) - (l * (-m)) * (n * w)
               y == (n * w) * (n * l)
    <2>1. n \in Nat \ {0} /\ w \in Nat \ {0} /\ l \in Nat \ {0} /\ -m \in Int
          BY <1>2
    <2>2. Weighed(w, p, l, m) = <<x, y>>
          BY <1>1, <1>2 DEF Weighed, Minus, Times
    <2>3. x * n = (p - (-m)) * y
          BY <2>1, ProductsRegroup
    <2> HIDE DEF n
    <2>4. x \in Int /\ y \in Nat \ {0}
      <3>1. n * w \in Nat \ {0} /\ n * l \in Nat \ {0}
            BY <2>1
      <3>2. y \in Nat \ {0}
            BY <3>1
      <3>3. w * p \in Int /\ l * (-m) \in Int
            BY <2>1
      <3>4. x \in Int
            BY <3>1, <3>3
      <3> QED BY <3>2, <3>4
    <2>5. p - (-m) = p + m
          OBVIOUS
    <2> HIDE DEF x, y
    <2>6. x * n = (p + m) * y
          BY <2>3, <2>5
    <2> QED BY <2>2, <2>4, <2>6 DEF Same, Fraction, n
  <1>3. CASE l = 0
    <2>1. w # 0 /\ m = 0 /\ n = w /\ p + m = p
          BY <1>3
    <2>2. Weighed(w, p, l, m) = <<p, w>>
          BY <1>3, <2>1 DEF Weighed
    <2> QED BY <2>1, <2>2 DEF Same, Fraction
  <1>4. CASE w = 0
    <2>1. l # 0 /\ p = 0 /\ n = l /\ p + m = m
          BY <1>4
    <2>2. Weighed(w, p, l, m) = <<0 * l - (-m) * 1, 1 * l>>
          BY <1>1, <1>4, <2>1 DEF Weighed, Minus, Zero
    <2>3. 0 * l - (-m) * 1 = m /\ 1 * l = l
          OBVIOUS
    <2> QED BY <2>1, <2>2, <2>3 DEF Same, Fraction
  <1> QED BY <1>2, <1>3, <1>4

LEMMA ExpectancyOf ==
    ASSUME NEW wins \in Seq(Int), NEW losses \in Seq(Int), NEW total
    PROVE  compute_expectancy(wins, losses, total).expectancy_r
              = IF Len(wins) + Len(losses) = 0 THEN NULL
                ELSE Weighed(Len(wins), Total(wins), Len(losses), Total(losses))
  <1> DEFINE w == Len(wins)
             l == Len(losses)
             avgWin == IF wins = <<>> THEN NULL ELSE Mean(wins)
             avgLoss == IF losses = <<>> THEN NULL ELSE Magnitude(Mean(losses))
  <1>1. w \in Nat /\ l \in Nat /\ Total(wins) \in Int /\ Total(losses) \in Int
        BY TotalType
  <1>2. (wins = <<>> <=> w = 0) /\ (losses = <<>> <=> l = 0)
        OBVIOUS
  <1>3. compute_expectancy(wins, losses, total).expectancy_r
           = IF w + l = 0 THEN NULL ELSE WeighedR(wins, losses, avgWin, avgLoss)
        BY DEF compute_expectancy
  <1>4. avgWin = IF w = 0 THEN NULL ELSE <<Total(wins), w>>
        BY <1>2 DEF Mean
  <1>5. avgLoss = IF l = 0 THEN NULL ELSE Magnitude(<<Total(losses), l>>)
        BY <1>2 DEF Mean
  <1>6. w # 0 => <<Total(wins), w>> # NULL
        BY <1>1, MetricsAssumption DEF Fraction
  <1>7. l # 0 => Magnitude(<<Total(losses), l>>) # NULL
        BY <1>1, MetricsAssumption DEF Fraction, Magnitude
  <1> HIDE DEF avgWin, avgLoss
  <1>8. w + l # 0 => WeighedR(wins, losses, avgWin, avgLoss)
                        = Weighed(w, Total(wins), l, Total(losses))
        BY <1>1, <1>4, <1>5, <1>6, <1>7 DEF WeighedR, Weighed
  <1> QED BY <1>3, <1>8

LEMMA SumNegative ==
    ASSUME NEW S, IsFiniteSet(S), NEW f, \A x \in S : f[x] \in Int /\ f[x] <= 0
    PROVE  SumFunctionOnSet(f, S) \in Int /\ SumFunctionOnSet(f, S) <= 0
  <1> DEFINE g == [x \in S |-> -f[x]]
             h == [x \in S |-> 0]
  <1>1. \A x \in S : f[x] \in Int /\ g[x] \in Int /\ g[x] \in Nat /\ h[x] = f[x] + g[x] /\ h[x] = 0
        OBVIOUS
  <1> HIDE DEF g, h
  <1>2. SumFunctionOnSet(h, S) = SumFunctionOnSet(f, S) + SumFunctionOnSet(g, S)
        BY <1>1, SumPlus
  <1>3. SumFunctionOnSet(h, S) = 0
        BY <1>1, SumZero
  <1>4. SumFunctionOnSet(g, S) \in Nat
        BY <1>1, SumNat
  <1>5. SumFunctionOnSet(f, S) \in Int
        BY <1>1, SumType
  <1> QED BY <1>2, <1>3, <1>4, <1>5

\* What the R-multiples of a set of rows, each of which has one, come to.
LEMMA RSeries ==
    ASSUME NEW S, Rows(S), \A x \in S : x.pnl.r # NULL
    PROVE  /\ Series(ROf, S) \in Seq(Int) /\ Len(Series(ROf, S)) = Cardinality(S)
           /\ Total(Series(ROf, S)) = SumOf(ROf, S)
           /\ SumOf(ROf, S) \in Int /\ SumOf(ROf, S) = SumFunctionOnSet([x \in S |-> x.pnl.r], S)
           /\ Cardinality(S) \in Nat /\ (Cardinality(S) = 0 <=> S = {})
  <1> DEFINE n == Cardinality(S)
             at == InOrder(S)
             v == [x \in S |-> x.pnl.r]
             s == Series(ROf, S)
  <1>1. \A x \in S : x.pnl.r \in Int
        BY DEF Rows, PricedRow, PnlRow
  <1>2. IsFiniteSet(S) /\ n \in Nat /\ (n = 0 <=> S = {})
        BY FS_CardinalityType, FS_EmptySet DEF Rows
  <1>3. at \in Bijection(1..n, S)
        BY InOrderLists
  <1>4. DOMAIN at = 1..n /\ \A i \in 1..n : at[i] \in S
    <2> HIDE DEF at, n
    <2> QED BY <1>3 DEF Bijection, Injection
  <1>5. s = [i \in DOMAIN at |-> at[i].pnl.r]
        BY DEF Series, ROf
  <1>6. \A x \in S : v[x] = x.pnl.r /\ v[x] \in Int
        BY <1>1
  <1>7. SumOf(ROf, S) = SumFunctionOnSet(v, S)
        BY DEF SumOf, ROf, SumFunction
  <1> HIDE DEF n, at, v, s
  <1>8. s = [i \in 1..n |-> s[i]] /\ \A i \in 1..n : s[i] = v[at[i]]
        BY <1>4, <1>5, <1>6
  <1>9. s \in Seq(Int) /\ Len(s) = n /\ Total(s) = SumFunctionOnSet(v, S)
        BY <1>2, <1>3, <1>6, <1>8, SeriesLists
  <1>10. SumFunctionOnSet(v, S) \in Int
         BY <1>2, <1>6, SumType
  <1> QED BY <1>2, <1>7, <1>9, <1>10 DEF s, n, v

\* The decided trades that have an R-multiple: no win has a negative one, and no
\* loss a positive one.
Wins(b, f) == Won(WithR(Selected(b, f)))
Losses(b, f) == Lost(WithR(Selected(b, f)))

LEMMA DecidedRows ==
    ASSUME NEW b, GoodBook(b), NEW f
    PROVE  /\ Rows(Wins(b, f)) /\ \A x \in Wins(b, f) : x.pnl.r # NULL
           /\ Rows(Losses(b, f)) /\ \A x \in Losses(b, f) : x.pnl.r # NULL
           /\ SumOf(ROf, Losses(b, f)) <= 0
  <1> DEFINE S == Selected(b, f)
             L == Losses(b, f)
             v == [x \in L |-> x.pnl.r]
  <1>1. Rows(S)
        BY SelectedRows
  <1>2. /\ Wins(b, f) \in SUBSET S /\ L \in SUBSET S
        /\ \A x \in Wins(b, f) : x.pnl.r # NULL
        /\ \A x \in L : x.pnl.r # NULL /\ x.pnl.net < 0
        BY DEF Wins, Losses, Won, Lost, WithR
  <1>3. Rows(Wins(b, f)) /\ Rows(L)
        BY <1>1, <1>2, PartOfRows
  <1>4. ASSUME NEW x \in L PROVE x.pnl.r \in Int /\ x.pnl.r <= 0
    <2>1. /\ x.pnl.r \in Int /\ x.pnl.net \in Int /\ x.pnl.net < 0
          /\ x.pnl.r * x.pnl.net >= 0
          BY <1>2, <1>3 DEF Rows, PricedRow, PnlRow
    <2>2. ASSUME NEW r \in Int, NEW net \in Int, net < 0, r > 0 PROVE r * net < 0
          BY <2>2
    <2> QED BY <2>1, <2>2
  <1>5. SumOf(ROf, L) = SumFunctionOnSet(v, L)
        BY DEF SumOf, ROf, SumFunction
  <1>6. IsFiniteSet(L) /\ \A x \in L : v[x] \in Int /\ v[x] <= 0
        BY <1>3, <1>4 DEF Rows
  <1> HIDE DEF v, L
  <1>7. SumFunctionOnSet(v, L) <= 0
        BY <1>6, SumNegative
  <1> QED BY <1>2, <1>3, <1>5, <1>7 DEF L

\* The expectancy of the summary is that of the totals of wins and losses.
Expected(b, f) ==
    Weighed(Cardinality(Wins(b, f)), SumOf(ROf, Wins(b, f)),
            Cardinality(Losses(b, f)), SumOf(ROf, Losses(b, f)))

Decided(b, f) == Cardinality(Wins(b, f)) + Cardinality(Losses(b, f))

LEMMA SummaryExpectancy ==
    ASSUME NEW b, GoodBook(b), NEW f, NEW total
    PROVE  LET series == get_r_multiple_series(b, f)
               all == series.win_r \o series.loss_r
               e == compute_expectancy(series.win_r, series.loss_r, total).expectancy_r
           IN  /\ e = IF Decided(b, f) = 0 THEN NULL ELSE Expected(b, f)
               /\ e = NULL <=> all = <<>>
               /\ e # NULL => e \in Fraction /\ Same(e, Mean(all))
  <1> DEFINE W == Wins(b, f)
             L == Losses(b, f)
             w == Cardinality(W)
             l == Cardinality(L)
             p == SumOf(ROf, W)
             m == SumOf(ROf, L)
             wins == Series(ROf, W)
             losses == Series(ROf, L)
             all == wins \o losses
             e == compute_expectancy(wins, losses, total).expectancy_r
  <1>1. get_r_multiple_series(b, f) = [win_r |-> wins, loss_r |-> losses]
        BY DEF get_r_multiple_series, Wins, Losses
  <1>2. /\ Rows(W) /\ \A x \in W : x.pnl.r # NULL
        /\ Rows(L) /\ \A x \in L : x.pnl.r # NULL
        /\ m <= 0
        BY DecidedRows
  <1> HIDE DEF W, L
  <1>3. /\ wins \in Seq(Int) /\ Len(wins) = w /\ Total(wins) = p /\ p \in Int
        /\ w \in Nat /\ (w = 0 <=> W = {}) /\ p = SumFunctionOnSet([x \in W |-> x.pnl.r], W)
        BY <1>2, RSeries
  <1>4. /\ losses \in Seq(Int) /\ Len(losses) = l /\ Total(losses) = m /\ m \in Int
        /\ l \in Nat /\ (l = 0 <=> L = {}) /\ m = SumFunctionOnSet([x \in L |-> x.pnl.r], L)
        BY <1>2, RSeries
  <1>5. (w = 0 => p = 0) /\ (l = 0 => m = 0)
        BY <1>3, <1>4, SumEmpty
  <1>6. Decided(b, f) = w + l /\ Expected(b, f) = Weighed(w, p, l, m)
        BY DEF Decided, Expected, W, L
  <1> HIDE DEF w, l, p, m, wins, losses
  <1>7. e = IF w + l = 0 THEN NULL ELSE Weighed(w, p, l, m)
        BY <1>3, <1>4, ExpectancyOf
  <1>8. Total(all) = p + m /\ Len(all) = w + l /\ (all = <<>> <=> w + l = 0)
    <2>1. all \in Seq(Int) /\ Len(all) = w + l
          BY <1>3, <1>4, ConcatProperties
    <2>2. all = <<>> <=> Len(all) = 0
          BY <2>1
    <2>3. Total(all) = p + m
          BY <1>3, <1>4, TotalConcat
    <2> QED BY <2>1, <2>2, <2>3
  <1>9. w + l # 0 => /\ Weighed(w, p, l, m) \in Fraction
                     /\ Same(Weighed(w, p, l, m), <<p + m, w + l>>)
        BY <1>2, <1>3, <1>4, <1>5, WeighedIsMean
  <1>10. w + l # 0 => Weighed(w, p, l, m) # NULL
         BY <1>9, MetricsAssumption
  <1>11. Mean(all) = <<p + m, w + l>>
         BY <1>8 DEF Mean
  <1> HIDE DEF all, e
  <1>12. /\ e = IF Decided(b, f) = 0 THEN NULL ELSE Expected(b, f)
         /\ e = NULL <=> all = <<>>
         /\ e # NULL => e \in Fraction /\ Same(e, Mean(all))
         BY <1>6, <1>7, <1>8, <1>9, <1>10, <1>11
  <1> QED BY <1>1, <1>12 DEF all, e

\* The Kelly fraction, times what it was divided by, is the same expectancy.
LEMMA KellyExpects ==
    ASSUME NEW b, GoodBook(b), NEW f, get_kelly_fraction(b, f).kelly_pct # NULL
    PROVE  /\ Decided(b, f) # 0
           /\ Same(Expected(b, f), Times(get_kelly_fraction(b, f).kelly_pct,
                                         get_kelly_inputs(b, f).avg_positive_r))
  <1> DEFINE k == get_kelly_inputs(b, f)
             W == Wins(b, f)
             L == Losses(b, f)
             w == Cardinality(W)
             l == Cardinality(L)
             p == SumOf(ROf, W)
             m == SumOf(ROf, L)
             P == {x \in WithR(Selected(b, f)) : x.pnl.r > 0}
             q == SumOf(ROf, P)
             c == Cardinality(P)
             e == Weighed(w, p, l, m)
  <1>1. /\ k.win_r_count = w /\ k.loss_r_count = l
        /\ k.avg_win_r = IF W = {} THEN NULL ELSE <<p, w>>
        /\ k.avg_loss_r = IF L = {} THEN NULL ELSE <<m, l>>
        /\ k.avg_positive_r = IF P = {} THEN NULL ELSE <<q, c>>
        BY DEF get_kelly_inputs, Wins, Losses, Avg
  <1>2. /\ Rows(W) /\ \A x \in W : x.pnl.r # NULL
        /\ Rows(L) /\ \A x \in L : x.pnl.r # NULL
        /\ m <= 0
        BY DecidedRows
  <1>3. Rows(P) /\ \A x \in P : x.pnl.r # NULL
    <2>1. P \in SUBSET Selected(b, f) /\ \A x \in P : x.pnl.r # NULL
          BY DEF WithR
    <2> QED BY <2>1, SelectedRows, PartOfRows
  <1>4. /\ get_kelly_fraction(b, f).kelly_pct = Over(KellyExpectancy(k), k.avg_positive_r)
        /\ k.avg_positive_r # NULL /\ k.win_r_count + k.loss_r_count > 0
        BY DEF get_kelly_fraction
  <1>5. Expected(b, f) = e /\ Decided(b, f) = w + l
        BY DEF Expected, Decided
  <1> HIDE DEF k, W, L, P
  <1>6. /\ w \in Nat /\ (w = 0 <=> W = {}) /\ p \in Int
        /\ l \in Nat /\ (l = 0 <=> L = {}) /\ m \in Int
        /\ c \in Nat /\ (c = 0 <=> P = {}) /\ q \in Int
        BY <1>2, <1>3, RSeries
  <1>7. (w = 0 => p = 0) /\ (l = 0 => m = 0)
    <2>1. p = SumFunctionOnSet([x \in W |-> x.pnl.r], W)
          BY <1>2, RSeries
    <2>2. m = SumFunctionOnSet([x \in L |-> x.pnl.r], L)
          BY <1>2, RSeries
    <2> QED BY <1>6, <2>1, <2>2, SumEmpty
  <1> HIDE DEF w, l, p, m, q, c
  <1>8. w + l # 0 /\ w + l > 0 /\ k.avg_positive_r = <<q, c>> /\ c # 0
        BY <1>1, <1>4, <1>6
  <1>9. (w # 0 => <<p, w>> # NULL) /\ (l # 0 => <<m, l>> # NULL)
        BY <1>6, MetricsAssumption DEF Fraction
  <1>10. KellyExpectancy(k) = e
    <2>1. CASE w # 0 /\ l # 0
          BY <1>1, <1>6, <1>9, <2>1 DEF KellyExpectancy, Weighed
    <2>2. CASE w # 0 /\ l = 0
          BY <1>1, <1>6, <1>9, <2>2 DEF KellyExpectancy, Weighed
    <2>3. CASE w = 0
          BY <1>1, <1>6, <1>8, <2>3 DEF KellyExpectancy, Weighed
    <2> QED BY <2>1, <2>2, <2>3
  <1>11. e \in Fraction
         BY <1>2, <1>6, <1>7, <1>8, WeighedIsMean DEF m
  <1> HIDE DEF e
  <1>12. Same(e, Times(Over(e, <<q, c>>), <<q, c>>))
    <2> DEFINE a == e[1]
               d == e[2]
    <2>1. a \in Int /\ d \in Int /\ e = <<a, d>>
          BY <1>11 DEF Fraction
    <2> HIDE DEF a, d
    <2>2. a * ((d * q) * c) = ((a * c) * q) * d
          BY <1>6, <2>1
    <2>3. a * ((-(d * q)) * c) = ((-(a * c)) * q) * d
      <3>1. (-(d * q)) * c = -((d * q) * c)
            BY <1>6, <2>1
      <3>2. ((-(a * c)) * q) * d = -(((a * c) * q) * d)
            BY <1>6, <2>1
      <3>3. a * (-((d * q) * c)) = -(a * ((d * q) * c))
            BY <1>6, <2>1
      <3> QED BY <2>2, <3>1, <3>2, <3>3
    <2>4. /\ Times(<<a * c, d * q>>, <<q, c>>) = <<(a * c) * q, (d * q) * c>>
          /\ Times(<<-(a * c), -(d * q)>>, <<q, c>>) = <<(-(a * c)) * q, (-(d * q)) * c>>
          BY DEF Times
    <2>5. /\ Same(<<a, d>>, <<(a * c) * q, (d * q) * c>>)
          /\ Same(<<a, d>>, <<(-(a * c)) * q, (-(d * q)) * c>>)
          BY <2>2, <2>3 DEF Same
    <2>6. \/ Over(<<a, d>>, <<q, c>>) = <<a * c, d * q>>
          \/ Over(<<a, d>>, <<q, c>>) = <<-(a * c), -(d * q)>>
          BY DEF Over, Norm
    <2> QED BY <2>1, <2>4, <2>5, <2>6
  <1>13. /\ Decided(b, f) # 0
         /\ Same(Expected(b, f), Times(get_kelly_fraction(b, f).kelly_pct, k.avg_positive_r))
         BY <1>4, <1>5, <1>8, <1>10, <1>12
  <1> QED BY <1>13 DEF k

Below(C, i) == {j \in C : j < i}
HasRank(C, i, k) == i \in C /\ Cardinality(Below(C, i)) = k - 1

\* g lists the elements of P by picking, in the list at of S, the places C in order.
Chosen(S, n, at, P, C, e, g) ==
    /\ IsFiniteSet(S) /\ n \in Nat /\ at \in Bijection(1..n, S)
    /\ P \in SUBSET S /\ C \in SUBSET (1..n) /\ \A i \in 1..n : i \in C <=> at[i] \in P
    /\ \A k \in 1..Cardinality(C) : (\E i \in C : HasRank(C, i, k)) => HasRank(C, e[k], k)
    /\ g = [k \in 1..Cardinality(C) |-> g[k]]
    /\ \A k \in 1..Cardinality(C) : g[k] = at[e[k]]

\* It lists each of them once.
LEMMA ChosenList ==
    ASSUME NEW S, NEW n, NEW at, NEW P, NEW C, NEW e, NEW g, Chosen(S, n, at, P, C, e, g)
    PROVE  /\ Cardinality(P) = Cardinality(C) /\ Cardinality(C) \in Nat /\ IsFiniteSet(P)
           /\ \A k \in 1..Cardinality(C) : e[k] \in 1..n
           /\ g \in Bijection(1..Cardinality(C), P)
  <1> DEFINE c == Cardinality(C)
             before == [i \in C |-> Below(C, i)]
             to == [i \in C |-> at[i]]
             d == [k \in 1..c |-> e[k]]
  <1>0. /\ IsFiniteSet(S) /\ n \in Nat /\ at \in Bijection(1..n, S)
        /\ P \in SUBSET S /\ C \in SUBSET (1..n) /\ \A i \in 1..n : i \in C <=> at[i] \in P
        /\ \A k \in 1..c : (\E i \in C : HasRank(C, i, k)) => HasRank(C, e[k], k)
        /\ g = [k \in 1..c |-> g[k]] /\ \A k \in 1..c : g[k] = at[e[k]]
        BY DEF Chosen
  <1>1. IsFiniteSet(1..n) /\ C \in SUBSET (1..n) /\ IsFiniteSet(P)
    <2>1. 1 \in Int /\ n \in Int
          BY <1>0
    <2> QED BY <1>0, <2>1, FS_Interval, FS_Subset
  <1>2. IsFiniteSet(C) /\ c \in Nat
        BY <1>0, <1>1, FS_Subset, FS_CardinalityType
  <1>3. /\ \A i \in 1..n : at[i] \in S
        /\ \A i, j \in 1..n : at[i] = at[j] => i = j
        /\ \A x \in S : \E i \in 1..n : at[i] = x
        BY <1>0 DEF Bijection, Injection, Surjection, IsInjective
  <1>4. to \in Bijection(C, P)
    <2>1. to \in [C -> P] /\ \A i \in C : to[i] = at[i]
          BY <1>0
    <2>2. \A i, j \in C : to[i] = to[j] => i = j
          BY <1>0, <1>1, <1>3
    <2>3. \A x \in P : \E i \in C : to[i] = x
      <3> SUFFICES ASSUME NEW x \in P PROVE \E i \in C : to[i] = x
          OBVIOUS
      <3>1. PICK i \in 1..n : at[i] = x
            BY <1>0, <1>3
      <3> QED BY <1>0, <3>1
    <2> HIDE DEF to
    <2> QED BY <2>1, <2>2, <2>3, Zenon DEF Bijection, Injection, Surjection, IsInjective
  <1>5. Cardinality(P) = c
        BY <1>2, <1>4, FS_Bijection DEF ExistsBijection
  <1>6. Ordered(C, before)
    <2>1. \A i \in C : i \in Int
          BY <1>0, <1>1
    <2> QED BY <2>1 DEF Ordered, Below
  <1>7. ASSUME NEW k \in 1..c, \E i \in C : Cardinality(before[i]) = k - 1
        PROVE  e[k] \in C /\ Cardinality(before[e[k]]) = k - 1
    <2>1. \E i \in C : HasRank(C, i, k)
          BY <1>7 DEF HasRank
    <2>2. HasRank(C, e[k], k)
          BY <1>0, <2>1
    <2> QED BY <2>2 DEF HasRank
  <1>8. d = [k \in 1..c |-> d[k]] /\ \A k \in 1..c : d[k] = e[k]
        BY <1>0
  <1>9. d \in Bijection(1..c, C)
    <2> HIDE DEF before, d
    <2>1. ASSUME NEW k \in 1..c, \E i \in C : Cardinality(before[i]) = k - 1
          PROVE  d[k] \in C /\ Cardinality(before[d[k]]) = k - 1
          BY <1>7, <1>8, <2>1
    <2> QED BY <1>2, <1>6, <1>8, <2>1, RanksListAll
  <1>10. /\ \A k \in 1..c : e[k] \in C
         /\ \A j, k \in 1..c : e[j] = e[k] => j = k
         /\ \A i \in C : \E k \in 1..c : e[k] = i
    <2> HIDE DEF d
    <2> QED BY <1>8, <1>9 DEF Bijection, Injection, Surjection, IsInjective
  <1>11. g \in Bijection(1..c, P)
    <2>1. \A i \in C : i \in 1..n /\ at[i] \in P
          BY <1>0
    <2>2. g \in [1..c -> P] /\ \A k \in 1..c : g[k] = at[e[k]]
          BY <1>0, <1>10, <2>1
    <2>3. \A j, k \in 1..c : g[j] = g[k] => j = k
      <3> SUFFICES ASSUME NEW j \in 1..c, NEW k \in 1..c, g[j] = g[k] PROVE j = k
          OBVIOUS
      <3>1. at[e[j]] = at[e[k]] /\ e[j] \in 1..n /\ e[k] \in 1..n
            BY <1>0, <1>10, <2>1, <2>2
      <3>2. e[j] = e[k]
            BY <1>3, <3>1
      <3> QED BY <1>10, <3>2
    <2>4. \A x \in P : \E k \in 1..c : g[k] = x
      <3> SUFFICES ASSUME NEW x \in P PROVE \E k \in 1..c : g[k] = x
          OBVIOUS
      <3>1. PICK i \in C : at[i] = x
            BY <1>0, <1>3
      <3>2. PICK k \in 1..c : e[k] = i
            BY <1>10
      <3> QED BY <1>0, <3>1, <3>2
    <2> QED BY <2>2, <2>3, <2>4, Zenon DEF Bijection, Injection, Surjection, IsInjective
  <1>12. \A k \in 1..c : e[k] \in 1..n
        BY <1>0, <1>1, <1>10
  <1> QED BY <1>0, <1>1, <1>2, <1>5, <1>11, <1>12

\* One window over all trades.
LEMMA RollingExpects ==
    ASSUME NEW b, GoodBook(b), NEW f
    PROVE  RollingExpR(get_trade_series(b, f))
              = IF Decided(b, f) = 0 THEN NULL ELSE Expected(b, f)
  <1> DEFINE S == Selected(b, f)
             W == Wins(b, f)
             L == Losses(b, f)
             n == Cardinality(S)
             at == InOrder(S)
             points == get_trade_series(b, f)
             v == [x \in W |-> x.pnl.r]
             u == [x \in L |-> x.pnl.r]
             CW == {i \in DOMAIN points : points[i].r_multiple # NULL /\ points[i].net_pnl > 0}
             CL == {i \in DOMAIN points : points[i].r_multiple # NULL /\ points[i].net_pnl < 0}
             AtRank(C) == [k \in 1..Cardinality(C) |->
                              CHOOSE i \in C : Cardinality({j \in C : j < i}) = k - 1]
             wins == [k \in DOMAIN AtRank(CW) |-> points[AtRank(CW)[k]].r_multiple]
             losses == [k \in DOMAIN AtRank(CL) |-> points[AtRank(CL)[k]].r_multiple]
  <1>1. RollingExpR(points) = compute_expectancy(wins, losses, Len(points)).expectancy_r
        BY DEF RollingExpR, RsWhere, Enumerate

  <1>2. points = [i \in DOMAIN at |->
                     [trade_date |-> at[i].trade_date, trade_id |-> at[i].id,
                      net_pnl |-> at[i].pnl.net, r_multiple |-> at[i].pnl.r]]
        BY DEF get_trade_series
  <1>3. Rows(S) /\ IsFiniteSet(S) /\ n \in Nat /\ at \in Bijection(1..n, S)
        BY SelectedRows, InOrderLists, FS_CardinalityType DEF Rows
  <1>4. DOMAIN at = 1..n /\ \A i \in 1..n : at[i] \in S
    <2> HIDE DEF at, S, n
    <2> QED BY <1>3 DEF Bijection, Injection
  <1>5. /\ W \in SUBSET S /\ \A x \in S : x \in W <=> x.pnl.r # NULL /\ x.pnl.net > 0
        /\ L \in SUBSET S /\ \A x \in S : x \in L <=> x.pnl.r # NULL /\ x.pnl.net < 0
        BY DEF Wins, Losses, Won, Lost, WithR
  <1>6. /\ Rows(W) /\ \A x \in W : x.pnl.r # NULL
        /\ Rows(L) /\ \A x \in L : x.pnl.r # NULL
        BY DecidedRows
  <1> HIDE DEF S, W, L, at, points, n
  <1>7. /\ DOMAIN points = 1..n
        /\ \A i \in 1..n : points[i].r_multiple = at[i].pnl.r /\ points[i].net_pnl = at[i].pnl.net
        BY <1>2, <1>4
  <1>8. CW = {i \in 1..n : at[i] \in W} /\ CL = {i \in 1..n : at[i] \in L}
        BY <1>4, <1>5, <1>7
  <1>9. /\ \A x \in W : v[x] = x.pnl.r /\ v[x] \in Int
        /\ \A x \in L : u[x] = x.pnl.r /\ u[x] \in Int
        BY <1>6 DEF Rows, PricedRow, PnlRow
  <1> HIDE DEF v, u
  <1>10. /\ wins \in Seq(Int) /\ Len(wins) = Cardinality(W)
         /\ Total(wins) = SumFunctionOnSet(v, W)
    <2> DEFINE C == CW
               c == Cardinality(C)
               e == AtRank(C)
    <2>1. C = {i \in 1..n : at[i] \in W}
          BY <1>8
    <2>2. C \in SUBSET (1..n)
          BY <2>1
    <2>3. \A k \in 1..c : (\E i \in C : HasRank(C, i, k)) => HasRank(C, e[k], k)
      <3>1. ASSUME NEW k \in 1..c, \E i \in C : HasRank(C, i, k) PROVE HasRank(C, e[k], k)
        <4>1. e[k] = CHOOSE i \in C : Cardinality({j \in C : j < i}) = k - 1
              OBVIOUS
        <4>2. \E i \in C : Cardinality({j \in C : j < i}) = k - 1
              BY <3>1 DEF HasRank, Below
        <4> HIDE DEF e, C
        <4>3. e[k] \in C /\ Cardinality({j \in C : j < e[k]}) = k - 1
              BY <4>1, <4>2
        <4> QED BY <4>3 DEF HasRank, Below
      <3> QED BY <3>1
    <2>4. wins = [k \in 1..c |-> points[e[k]].r_multiple]
          OBVIOUS
    <2>5. c \in Nat /\ IsFiniteSet(C)
      <3>1. 1 \in Int /\ n \in Int
            BY <1>3
      <3> HIDE DEF C
      <3> QED BY <2>1, <3>1, FS_Interval, FS_Subset, FS_CardinalityType
    <2> DEFINE g == [k \in 1..c |-> at[e[k]]]
    <2> HIDE DEF C, e, wins
    <2>6. g = [k \in 1..c |-> g[k]] /\ \A k \in 1..c : g[k] = at[e[k]]
          OBVIOUS
    <2>7. \A i \in 1..n : i \in C <=> at[i] \in W
          BY <2>1
    <2> HIDE DEF g
    <2>8. Chosen(S, n, at, W, C, e, g)
          BY <1>3, <1>5, <2>2, <2>3, <2>6, <2>7 DEF Chosen
    <2>9. /\ Cardinality(W) = c /\ IsFiniteSet(W)
          /\ \A k \in 1..c : e[k] \in 1..n
          /\ g \in Bijection(1..c, W)
          BY <2>8, ChosenList
    <2> HIDE DEF c
    <2>10. \A k \in 1..c : g[k] \in W
          BY <2>9 DEF Bijection, Injection
    <2>11. wins = [k \in 1..c |-> wins[k]] /\ \A k \in 1..c : wins[k] = v[g[k]]
          BY <1>7, <1>9, <2>4, <2>6, <2>9, <2>10
    <2>12. wins \in Seq(Int) /\ Len(wins) = c /\ Total(wins) = SumFunctionOnSet(v, W)
          BY <1>9, <2>5, <2>9, <2>11, SeriesLists
    <2> QED BY <2>9, <2>12
  <1>11. /\ losses \in Seq(Int) /\ Len(losses) = Cardinality(L)
         /\ Total(losses) = SumFunctionOnSet(u, L)
    <2> DEFINE C == CL
               c == Cardinality(C)
               e == AtRank(C)
    <2>1. C = {i \in 1..n : at[i] \in L}
          BY <1>8
    <2>2. C \in SUBSET (1..n)
          BY <2>1
    <2>3. \A k \in 1..c : (\E i \in C : HasRank(C, i, k)) => HasRank(C, e[k], k)
      <3>1. ASSUME NEW k \in 1..c, \E i \in C : HasRank(C, i, k) PROVE HasRank(C, e[k], k)
        <4>1. e[k] = CHOOSE i \in C : Cardinality({j \in C : j < i}) = k - 1
              OBVIOUS
        <4>2. \E i \in C : Cardinality({j \in C : j < i}) = k - 1
              BY <3>1 DEF HasRank, Below
        <4> HIDE DEF e, C
        <4>3. e[k] \in C /\ Cardinality({j \in C : j < e[k]}) = k - 1
              BY <4>1, <4>2
        <4> QED BY <4>3 DEF HasRank, Below
      <3> QED BY <3>1
    <2>4. losses = [k \in 1..c |-> points[e[k]].r_multiple]
          OBVIOUS
    <2>5. c \in Nat /\ IsFiniteSet(C)
      <3>1. 1 \in Int /\ n \in Int
            BY <1>3
      <3> HIDE DEF C
      <3> QED BY <2>1, <3>1, FS_Interval, FS_Subset, FS_CardinalityType
    <2> DEFINE g == [k \in 1..c |-> at[e[k]]]
    <2> HIDE DEF C, e, losses
    <2>6. g = [k \in 1..c |-> g[k]] /\ \A k \in 1..c : g[k] = at[e[k]]
          OBVIOUS
    <2>7. \A i \in 1..n : i \in C <=> at[i] \in L
          BY <2>1
    <2> HIDE DEF g
    <2>8. Chosen(S, n, at, L, C, e, g)
          BY <1>3, <1>5, <2>2, <2>3, <2>6, <2>7 DEF Chosen
    <2>9. /\ Cardinality(L) = c /\ IsFiniteSet(L)
          /\ \A k \in 1..c : e[k] \in 1..n
          /\ g \in Bijection(1..c, L)
          BY <2>8, ChosenList
    <2> HIDE DEF c
    <2>10. \A k \in 1..c : g[k] \in L
          BY <2>9 DEF Bijection, Injection
    <2>11. losses = [k \in 1..c |-> losses[k]] /\ \A k \in 1..c : losses[k] = u[g[k]]
          BY <1>7, <1>9, <2>4, <2>6, <2>9, <2>10
    <2>12. losses \in Seq(Int) /\ Len(losses) = c /\ Total(losses) = SumFunctionOnSet(u, L)
          BY <1>9, <2>5, <2>9, <2>11, SeriesLists
    <2> QED BY <2>9, <2>12
  <1>12. /\ SumOf(ROf, W) = SumFunctionOnSet(v, W) /\ SumOf(ROf, L) = SumFunctionOnSet(u, L)
        BY DEF SumOf, ROf, SumFunction, v, u
  <1>13. /\ Decided(b, f) = Cardinality(W) + Cardinality(L)
         /\ Expected(b, f) = Weighed(Cardinality(W), SumOf(ROf, W), Cardinality(L), SumOf(ROf, L))
        BY DEF Decided, Expected, W, L
  <1> HIDE DEF wins, losses
  <1>14. compute_expectancy(wins, losses, Len(points)).expectancy_r
            = IF Cardinality(W) + Cardinality(L) = 0 THEN NULL
              ELSE Weighed(Cardinality(W), SumOf(ROf, W), Cardinality(L), SumOf(ROf, L))
        BY <1>10, <1>11, <1>12, ExpectancyOf
  <1> QED BY <1>1, <1>13, <1>14 DEF points

\* The first window, when all the trades make one.
LEMMA FirstWindow ==
    ASSUME NEW b, GoodBook(b), NEW f, get_outcome_distribution(b, f).total_n = Window
    PROVE  get_rolling_expectancy(b, f).data[1].rolling_exp_r = RollingExpR(get_trade_series(b, f))
  <1> DEFINE S == Selected(b, f)
             at == InOrder(S)
             points == get_trade_series(b, f)
             Slice(k) == SubSeq(points, k, k + Window - 1)
             Point(k) == [trade_index |-> k + Window - 1,
                          rolling_exp_r |-> RollingExpR(Slice(k)),
                          rolling_exp_inr |->
                              <<Total([i \in DOMAIN Slice(k) |-> Slice(k)[i].net_pnl]), Window>>]
             Row(x) == [trade_date |-> x.trade_date, trade_id |-> x.id,
                        net_pnl |-> x.pnl.net, r_multiple |-> x.pnl.r]
  <1>1. Rows(S) /\ at \in Bijection(1..Cardinality(S), S)
        BY SelectedRows, InOrderLists
  <1>2. Cardinality(S) = Window
        BY DEF get_outcome_distribution
  <1>3. points = [i \in DOMAIN at |-> Row(at[i])]
        BY DEF get_trade_series
  <1>4. Window \in Nat /\ Window >= 1
        BY MetricsAssumption
  <1> HIDE DEF S, at
  <1>5. DOMAIN at = 1..Window
        BY <1>1, <1>2 DEF Bijection, Injection
  <1> DEFINE T == {Row(at[i]) : i \in 1..Window}
  <1>6. points \in Seq(T) /\ Len(points) = Window
    <2>1. points \in [1..Window -> T]
          BY <1>3, <1>5
    <2> HIDE DEF points, T
    <2> QED BY <1>4, <2>1
  <1> HIDE DEF points, Row, T
  <1>7. Slice(1) = points
        BY <1>4, <1>6
  <1>8. compute_rolling_expectancy(points).data = [k \in 1..1 |-> Point(k)]
    <2>1. Len(points) - Window + 1 = 1 /\ ~(Len(points) < Window)
          BY <1>4, <1>6
    <2>2. compute_rolling_expectancy(points).data
             = [k \in 1..(Len(points) - Window + 1) |-> Point(k)]
          BY <2>1 DEF compute_rolling_expectancy
    <2> QED BY <2>1, <2>2
  <1>9. Point(1).rolling_exp_r = RollingExpR(Slice(1))
        OBVIOUS
  <1> HIDE DEF Point, Slice
  <1>10. compute_rolling_expectancy(points).data[1] = Point(1)
         BY <1>8
  <1>11. compute_rolling_expectancy(points).data[1].rolling_exp_r = RollingExpR(points)
         BY <1>7, <1>9, <1>10
  <1> QED BY <1>11 DEF get_rolling_expectancy, points

\* The three expectancy formulas (compute_expectancy, the Kelly fraction from
\* its aggregates, the rolling window) give one number, the mean of the
\* R-multiples of the decided trades.
THEOREM ExpectancyAlwaysAgrees == Spec => []ExpectancyAgrees
  <1>1. ASSUME GoodBook(book), NEW f
        PROVE  LET series == get_r_multiple_series(book, f)
                   all == series.win_r \o series.loss_r
                   total == get_outcome_distribution(book, f).total_n
                   e == compute_expectancy(series.win_r, series.loss_r, total).expectancy_r
                   kelly == get_kelly_fraction(book, f)
                   rolling == get_rolling_expectancy(book, f)
               IN  /\ e = NULL <=> all = <<>>
                   /\ e # NULL => Same(e, Mean(all))
                   /\ kelly.kelly_pct # NULL =>
                          Same(e, Times(kelly.kelly_pct, get_kelly_inputs(book, f).avg_positive_r))
                   /\ total = Window /\ e # NULL => Same(e, rolling.data[1].rolling_exp_r)
                   /\ total = Window /\ e = NULL => rolling.data[1].rolling_exp_r = NULL
    <2> DEFINE series == get_r_multiple_series(book, f)
               all == series.win_r \o series.loss_r
               total == get_outcome_distribution(book, f).total_n
               e == compute_expectancy(series.win_r, series.loss_r, total).expectancy_r
               kelly == get_kelly_fraction(book, f)
               rolling == get_rolling_expectancy(book, f)
    <2>1. /\ e = IF Decided(book, f) = 0 THEN NULL ELSE Expected(book, f)
          /\ e = NULL <=> all = <<>>
          /\ e # NULL => e \in Fraction /\ Same(e, Mean(all))
          BY <1>1, SummaryExpectancy
    <2>2. kelly.kelly_pct # NULL =>
             /\ Decided(book, f) # 0
             /\ Same(Expected(book, f),
                     Times(kelly.kelly_pct, get_kelly_inputs(book, f).avg_positive_r))
          BY <1>1, KellyExpects
    <2>3. total = Window => rolling.data[1].rolling_exp_r
                               = IF Decided(book, f) = 0 THEN NULL ELSE Expected(book, f)
          BY <1>1, FirstWindow, RollingExpects
    <2> HIDE DEF series, all, total, e, kelly, rolling
    <2>4. e # NULL => Same(e, e)
          BY DEF Same
    <2>5. /\ e = NULL <=> all = <<>>
          /\ e # NULL => Same(e, Mean(all))
          /\ kelly.kelly_pct # NULL =>
                 Same(e, Times(kelly.kelly_pct, get_kelly_inputs(book, f).avg_positive_r))
          /\ total = Window /\ e # NULL => Same(e, rolling.data[1].rolling_exp_r)
          /\ total = Window /\ e = NULL => rolling.data[1].rolling_exp_r = NULL
          BY <2>1, <2>2, <2>3, <2>4
    <2> QED BY <2>5 DEF series, all, total, e, kelly, rolling
  <1>2. BookInv => ExpectancyAgrees
        BY <1>1 DEF ExpectancyAgrees, BookInv
  <1> QED BY <1>2, BookInit, BookNext, PTL DEF Spec

-----------------------------------------------------------------------------
(* One request, several statements: what the answers of one book have in common. *)

\* Levies and their total are two sums over one table of charges.
LEMMA LeviesAddUp ==
    ASSUME NEW b, GoodBook(b), NEW f
    PROVE  LET c == get_charges_breakdown(b, f)
           IN  SumOf(LAMBDA l : c.levies[l], Levies) = c.total_charges
  <1> DEFINE S == Selected(b, f)
             c == get_charges_breakdown(b, f)
             m == [x \in S |-> [l \in Levies |-> x.pnl.charges[l]]]
             r == [x \in S |-> x.pnl.charges.total]
             given == [l \in Levies |-> c.levies[l]]
  <1>1. IsFiniteSet(S) /\ S \subseteq PricedRow
        BY SelectedRows DEF Rows
  <1>2. IsFiniteSet(Levies)
    <2> DEFINE name == <<"brokerage", "stt", "exchange", "sebi", "stamp", "gst", "ipft">>
    <2>1. Levies = {name[i] : i \in 1..7}
          BY DEF Levies
    <2>2. IsFiniteSet(1..7)
      <3>1. 1 \in Int /\ 7 \in Int
            OBVIOUS
      <3> QED BY <3>1, FS_Interval
    <2> HIDE DEF name
    <2> QED BY <2>1, <2>2, KeysFinite
  <1>3. /\ c.levies = [l \in Levies |-> SumFunctionOnSet([x \in S |-> x.pnl.charges[l]], S)]
        /\ c.total_charges = SumFunctionOnSet(r, S)
        BY DEF get_charges_breakdown, SumOf, SumFunction
  <1>4. SumOf(LAMBDA l : c.levies[l], Levies) = SumFunctionOnSet(given, Levies)
        BY DEF SumOf, SumFunction
  <1>5. ASSUME NEW x \in S
        PROVE  /\ \A l \in Levies : m[x][l] \in Int
               /\ r[x] = SumFunctionOnSet(m[x], Levies)
    <2>1. x.pnl.charges \in ChargesRow
          BY <1>1 DEF PricedRow, PnlRow
    <2>2. x.pnl.charges.total = SumFunctionOnSet([l \in Levies |-> x.pnl.charges[l]], Levies)
          BY <1>1 DEF PricedRow, SumOf, SumFunction
    <2> QED BY <2>1, <2>2 DEF ChargesRow
  <1>6. ASSUME NEW l \in Levies
        PROVE  given[l] = SumFunctionOnSet(InColumn(m, S, l), S)
    <2>1. InColumn(m, S, l) = [x \in S |-> x.pnl.charges[l]]
          BY DEF InColumn
    <2> QED BY <1>3, <2>1
  <1> HIDE DEF S, c, m, r, given
  <1>7. SumFunctionOnSet(r, S) = SumFunctionOnSet(given, Levies)
    <2>1. Table(m, S, Levies, r, given)
          BY <1>5, <1>6 DEF Table
    <2> QED BY <1>1, <1>2, <2>1, SumExchange
  <1>8. SumOf(LAMBDA l : c.levies[l], Levies) = c.total_charges
        BY <1>3, <1>4, <1>7
  <1> QED BY <1>8 DEF c

\* Gross less charges is net, trade by trade and in sum.
LEMMA GrossLessCharges ==
    ASSUME NEW b, GoodBook(b), NEW f
    PROVE  LET c == get_charges_breakdown(b, f)
           IN  c.total_gross_pnl - c.total_charges = get_pnl_summary(b, f).net_pnl
  <1> DEFINE S == Selected(b, f)
             net == [x \in S |-> x.pnl.net]
             charged == [x \in S |-> x.pnl.charges.total]
             gross == [x \in S |-> x.pnl.gross]
  <1>1. IsFiniteSet(S) /\ S \subseteq PricedRow
        BY SelectedRows DEF Rows
  <1>2. /\ get_charges_breakdown(b, f).total_gross_pnl = SumFunctionOnSet(gross, S)
        /\ get_charges_breakdown(b, f).total_charges = SumFunctionOnSet(charged, S)
        /\ get_pnl_summary(b, f).net_pnl = SumFunctionOnSet(net, S)
        BY DEF get_charges_breakdown, get_pnl_summary, SumOf, SumFunction, NetOf
  <1>3. ASSUME NEW x \in S
        PROVE  net[x] \in Int /\ charged[x] \in Int /\ gross[x] = net[x] + charged[x]
    <2>1. x.pnl \in PnlRow /\ x.pnl.net = x.pnl.gross - x.pnl.charges.total
          BY <1>1 DEF PricedRow
    <2>2. /\ x.pnl.net \in Int /\ x.pnl.gross \in Int /\ x.pnl.charges.total \in Nat
          BY <2>1 DEF PnlRow, ChargesRow
    <2> QED BY <2>1, <2>2
  <1> HIDE DEF S, net, charged, gross
  <1>4. SumFunctionOnSet(gross, S) = SumFunctionOnSet(net, S) + SumFunctionOnSet(charged, S)
        BY <1>1, <1>3, SumPlus
  <1>5. SumFunctionOnSet(net, S) \in Int /\ SumFunctionOnSet(charged, S) \in Int
        BY <1>1, <1>3, SumType
  <1> QED BY <1>2, <1>4, <1>5

\* Gross profit and gross loss make the net result: breakevens add nothing.
LEMMA ProfitAndLoss ==
    ASSUME NEW b, GoodBook(b), NEW f
    PROVE  LET p == get_profit_factor(b, f)
           IN  p.gross_profit + p.gross_loss = get_pnl_summary(b, f).net_pnl
  <1> DEFINE S == Selected(b, f)
             W == Won(S)
             L == Lost(S)
             E == Even(S)
             net == [x \in S |-> x.pnl.net]
             p == get_profit_factor(b, f)
             head == get_pnl_summary(b, f)
  <1>1. IsFiniteSet(S) /\ \A x \in S : net[x] = x.pnl.net /\ net[x] \in Int
        BY SelectedRows, NetTyped DEF Rows
  <1>2. /\ W \in SUBSET S /\ L \in SUBSET S /\ E \in SUBSET S
        /\ W \cap L = {} /\ (W \cup L) \cap E = {} /\ (W \cup L) \cup E = S
        /\ \A x \in E : net[x] = 0
    <2> HIDE DEF S
    <2> QED BY <1>1 DEF Won, Lost, Even
  <1>3. /\ p.gross_profit = SumOf(NetOf, W) /\ p.gross_loss = SumOf(NetOf, L)
        /\ head.net_pnl = SumOf(NetOf, S)
        BY DEF get_profit_factor, get_pnl_summary
  <1> HIDE DEF S, W, L, E, p, head
  <1>4. IsFiniteSet(W) /\ IsFiniteSet(L) /\ IsFiniteSet(E) /\ IsFiniteSet(W \cup L)
        BY <1>1, <1>2, FS_Subset, FS_Union
  <1>5. /\ p.gross_profit = SumFunctionOnSet(net, W)
        /\ p.gross_loss = SumFunctionOnSet(net, L)
        /\ head.net_pnl = SumFunctionOnSet(net, (W \cup L) \cup E)
        BY <1>1, <1>2, <1>3, <1>4, SumOfPart
  <1> HIDE DEF net
  <1>6. SumFunctionOnSet(net, W \cup L) = SumFunctionOnSet(net, W) + SumFunctionOnSet(net, L)
        BY <1>1, <1>2, <1>4, SumUnion
  <1>7. SumFunctionOnSet(net, (W \cup L) \cup E)
           = SumFunctionOnSet(net, W \cup L) + SumFunctionOnSet(net, E)
        BY <1>1, <1>2, <1>4, SumUnion
  <1>8. SumFunctionOnSet(net, E) = 0
        BY <1>2, <1>4, SumZero
  <1>9. SumFunctionOnSet(net, W \cup L) \in Int
        BY <1>1, <1>2, <1>4, SumType
  <1>10. p.gross_profit + p.gross_loss = head.net_pnl
         BY <1>5, <1>6, <1>7, <1>8, <1>9
  <1> QED BY <1>10 DEF p, head

LEMMA LeastOf ==
    ASSUME NEW T, T \subseteq Nat, T # {}
    PROVE  \E n \in T : \A m \in T : n <= m
  <1>1. PICK n \in T : \A m \in T : <<m, n>> \notin OpToRel(<, Nat)
        BY NatLessThanWellFounded, WFMin
  <1>2. \A m \in T : ~ (m < n)
        BY <1>1 DEF OpToRel
  <1> QED BY <1>2

\* g holds the streaks after each of the first m results.
Streaked(g, pnls, m) ==
    g = [i \in 0..m |-> IF i = 0 THEN [cw |-> 0, cl |-> 0, wins |-> <<>>, losses |-> <<>>]
                        ELSE StreakStep(g[i - 1], pnls[i])]

LEMMA StreakedExists ==
    ASSUME NEW pnls, NEW n \in Nat
    PROVE  \E g : Streaked(g, pnls, n)
  <1> DEFINE none == [cw |-> 0, cl |-> 0, wins |-> <<>>, losses |-> <<>>]
             T == {m \in Nat : ~ \E g : Streaked(g, pnls, m)}
  <1> SUFFICES ASSUME T # {} PROVE FALSE
      OBVIOUS
  <1>1. PICK m \in T : \A k \in T : m <= k
    <2>1. T \subseteq Nat
          OBVIOUS
    <2> HIDE DEF T
    <2> QED BY <2>1, LeastOf
  <1>2. CASE m = 0
    <2> DEFINE g == [i \in 0..0 |-> none]
    <2>1. Streaked(g, pnls, 0)
          BY DEF Streaked
    <2> QED BY <2>1, <1>2
  <1>3. CASE m # 0
    <2>1. m \in Nat /\ m - 1 \in Nat /\ m - 1 \notin T
          BY <1>1, <1>3
    <2>2. PICK g : Streaked(g, pnls, m - 1)
          BY <2>1
    <2> DEFINE h == [i \in 0..m |-> IF i = m THEN StreakStep(g[m - 1], pnls[m]) ELSE g[i]]
    <2>3. \A i \in 0..m-1 : g[i] = IF i = 0 THEN none ELSE StreakStep(g[i - 1], pnls[i])
          BY <2>2 DEF Streaked
    <2>4. \A i \in 0..m : h[i] = IF i = 0 THEN none ELSE StreakStep(h[i - 1], pnls[i])
      <3> SUFFICES ASSUME NEW i \in 0..m
                   PROVE  h[i] = IF i = 0 THEN none ELSE StreakStep(h[i - 1], pnls[i])
          OBVIOUS
      <3>1. CASE i = m
            BY <3>1, <2>1, <1>3
      <3>2. CASE i # m
            BY <3>2, <2>1, <2>3
      <3> QED BY <3>1, <3>2
    <2>5. h = [i \in 0..m |-> h[i]]
          OBVIOUS
    <2> HIDE DEF h
    <2>6. Streaked(h, pnls, m)
          BY <2>4, <2>5, Zenon DEF Streaked
    <2> QED BY <2>6, <1>1
  <1> QED BY <1>2, <1>3

\* A losing streak is open only after a loss.
LEMMA OpenStreakEndsInLoss ==
    ASSUME NEW pnls, NEW n \in Nat, Len(pnls) = n,
           compute_streak_stats(pnls).current_loss_streak > 0
    PROVE  n > 0 /\ pnls[n] < 0
  <1> DEFINE a == CHOOSE g : Streaked(g, pnls, Len(pnls))
  <1>1. compute_streak_stats(pnls).current_loss_streak = a[Len(pnls)].cl
        BY DEF compute_streak_stats, Streaked
  <1>2. Streaked(a, pnls, n)
        BY StreakedExists
  <1> HIDE DEF a
  <1>3. a[n] = IF n = 0 THEN [cw |-> 0, cl |-> 0, wins |-> <<>>, losses |-> <<>>]
               ELSE StreakStep(a[n - 1], pnls[n])
        BY <1>2 DEF Streaked
  <1>4. a[n].cl > 0
        BY <1>1
  <1> QED BY <1>3, <1>4 DEF StreakStep

LEMMA StreakCounted ==
    ASSUME NEW b, GoodBook(b), NEW f, get_streaks(b, f).current_loss_streak > 0
    PROVE  get_outcome_distribution(b, f).loss_count > 0
  <1> DEFINE S == Selected(b, f)
             n == Cardinality(S)
             at == InOrder(S)
             v == [x \in S |-> x.pnl.net]
             pnls == get_net_pnl_series(b, f)
  <1>1. Rows(S) /\ IsFiniteSet(S) /\ n \in Nat /\ at \in Bijection(1..n, S)
        BY SelectedRows, InOrderLists, FS_CardinalityType DEF Rows
  <1>2. pnls = [i \in DOMAIN at |-> at[i].pnl.net]
        BY DEF get_net_pnl_series, Series, NetOf
  <1>3. \A x \in S : v[x] = x.pnl.net /\ v[x] \in Int
        BY <1>1 DEF Rows, PricedRow, PnlRow
  <1>4. get_outcome_distribution(b, f).loss_count = Cardinality(Lost(S))
        BY DEF get_outcome_distribution
  <1>5. compute_streak_stats(pnls).current_loss_streak > 0
        BY DEF get_streaks
  <1> HIDE DEF S, n, at, v, pnls
  <1>6. DOMAIN at = 1..n /\ \A i \in 1..n : at[i] \in S
        BY <1>1 DEF Bijection, Injection
  <1>7. pnls = [i \in 1..n |-> pnls[i]] /\ \A i \in 1..n : pnls[i] = v[at[i]]
        BY <1>2, <1>3, <1>6
  <1>8. Len(pnls) = n
        BY <1>1, <1>3, <1>7, SeriesLists
  <1>9. n > 0 /\ pnls[n] < 0
        BY <1>1, <1>5, <1>8, OpenStreakEndsInLoss
  <1>10. at[n] \in Lost(S)
         BY <1>1, <1>3, <1>6, <1>7, <1>9 DEF Lost
  <1>11. IsFiniteSet(Lost(S)) /\ Cardinality(Lost(S)) \in Nat
    <2>1. Lost(S) \in SUBSET S
          BY DEF Lost
    <2> QED BY <1>1, <2>1, FS_Subset, FS_CardinalityType
  <1>12. Cardinality(Lost(S)) # 0
         BY <1>10, <1>11, FS_EmptySet
  <1> QED BY <1>4, <1>11, <1>12

\* What the R-multiples of one SELECT say of their number, three times.
LEMMA CoverageOf ==
    ASSUME NEW b, GoodBook(b), NEW f, NEW total
    PROVE  LET a == FromRSeries(get_r_multiple_series(b, f), total)
           IN  /\ a.expectancy.r_coverage_count = Decided(b, f)
               /\ a.sharpe.r_coverage_count = Decided(b, f)
               /\ a.expectancy.total_count = total
  <1> DEFINE W == Wins(b, f)
             L == Losses(b, f)
             wins == Series(ROf, W)
             losses == Series(ROf, L)
             a == FromRSeries(get_r_multiple_series(b, f), total)
  <1>1. get_r_multiple_series(b, f) = [win_r |-> wins, loss_r |-> losses]
        BY DEF get_r_multiple_series, Wins, Losses
  <1>2. Decided(b, f) = Cardinality(W) + Cardinality(L)
        BY DEF Decided
  <1>3. /\ wins \in Seq(Int) /\ Len(wins) = Cardinality(W)
        /\ losses \in Seq(Int) /\ Len(losses) = Cardinality(L)
    <2>1. /\ Rows(W) /\ \A x \in W : x.pnl.r # NULL
          /\ Rows(L) /\ \A x \in L : x.pnl.r # NULL
          BY DecidedRows
    <2> HIDE DEF W, L
    <2> QED BY <2>1, RSeries
  <1> HIDE DEF W, L, wins, losses
  <1>4. /\ a.expectancy = compute_expectancy(wins, losses, total)
        /\ a.sharpe = compute_sharpe_ratio(wins \o losses)
        BY <1>1 DEF FromRSeries
  <1>5. Len(wins \o losses) = Len(wins) + Len(losses)
        BY <1>3, ConcatProperties
  <1> HIDE DEF a
  <1>6. /\ a.expectancy.r_coverage_count = Len(wins) + Len(losses)
        /\ a.expectancy.total_count = total
        BY <1>4 DEF compute_expectancy
  <1>7. a.sharpe.r_coverage_count = Len(wins \o losses)
        BY <1>4 DEF compute_sharpe_ratio
  <1>8. /\ a.expectancy.r_coverage_count = Decided(b, f)
        /\ a.sharpe.r_coverage_count = Decided(b, f)
        /\ a.expectancy.total_count = total
        BY <1>2, <1>3, <1>5, <1>6, <1>7
  <1> QED BY <1>8 DEF a

LEMMA DecidedBounded ==
    ASSUME NEW b, GoodBook(b), NEW f
    PROVE  /\ Decided(b, f) \in Nat /\ Cardinality(Selected(b, f)) \in Nat
           /\ Decided(b, f) <= Cardinality(Selected(b, f))
  <1> DEFINE S == Selected(b, f)
             W == Wins(b, f)
             L == Losses(b, f)
  <1>1. Rows(S) /\ IsFiniteSet(S) /\ \A x \in S : x.pnl.net \in Int
        BY SelectedRows DEF Rows, PricedRow, PnlRow
  <1>2. W \in SUBSET S /\ L \in SUBSET S /\ W \cap L = {}
    <2>1. W = {x \in S : x.pnl.r # NULL /\ x.pnl.net > 0}
          BY DEF Wins, Won, WithR
    <2>2. L = {x \in S : x.pnl.r # NULL /\ x.pnl.net < 0}
          BY DEF Losses, Lost, WithR
    <2> HIDE DEF S, W, L
    <2> QED BY <1>1, <2>1, <2>2
  <1>3. Decided(b, f) = Cardinality(W) + Cardinality(L)
        BY DEF Decided
  <1> HIDE DEF S, W, L
  <1>4. W \cup L \in SUBSET S /\ IsFiniteSet(W) /\ IsFiniteSet(L)
        BY <1>1, <1>2, FS_Subset
  <1>5. Cardinality(W \cup L) = Cardinality(W) + Cardinality(L) - Cardinality(W \cap L)
        BY <1>4, FS_Union
  <1>6. Cardinality(W \cap L) = 0
        BY <1>2, FS_EmptySet
  <1>7. Cardinality(W) \in Nat /\ Cardinality(L) \in Nat /\ Cardinality(S) \in Nat
        BY <1>1, <1>4, FS_CardinalityType
  <1>8. Cardinality(W \cup L) <= Cardinality(S)
        BY <1>1, <1>4, FS_Subset
  <1>9. Decided(b, f) \in Nat /\ Cardinality(S) \in Nat /\ Decided(b, f) <= Cardinality(S)
        BY <1>3, <1>5, <1>6, <1>7, <1>8
  <1> QED BY <1>9 DEF S

\* Two books that are alike but for the moving trades: a filter selects at most
\* that many rows more from one of them.
Near(b, c) == \A t \in Trade \ Moving : b[t] = c[t]

LEMMA NearBooks ==
    ASSUME NEW b, GoodBook(b), NEW c, GoodBook(c), Near(b, c), NEW f
    PROVE  Cardinality(Selected(b, f)) <= Cardinality(Selected(c, f)) + Cardinality(Moving)
  <1> DEFINE S == Selected(b, f)
             R == Selected(c, f)
             A == S \ R
             id == [x \in A |-> x.id]
  <1>1. Rows(S) /\ IsFiniteSet(S) /\ IsFiniteSet(R)
        BY SelectedRows DEF Rows
  <1>2. IsFiniteSet(Moving) /\ Cardinality(Moving) \in Nat
        BY MovingAssumption, TradeAssumption, FS_Subset, FS_CardinalityType
  <1>3. ASSUME NEW x \in A PROVE x.id \in Moving
    <2>1. PICK t \in Trade : x = b[t] /\ b[t] # NULL
          BY DEF Selected, InstrumentClauses, BaseWhere, Priced
    <2>2. x.id = t
          BY <2>1 DEF GoodBook, RowOf
    <2>3. ASSUME b[t] = c[t] PROVE x \in R
          BY <2>1, <2>3 DEF Selected, InstrumentClauses, BaseWhere, Priced
    <2> QED BY <2>2, <2>3 DEF Near
  <1>4. id \in Injection(A, Moving)
    <2>1. id \in [A -> Moving] /\ \A x \in A : id[x] = x.id
          BY <1>3
    <2>2. \A x, y \in A : id[x] = id[y] => x = y
      <3> HIDE DEF S, R
      <3> QED BY <1>1 DEF Rows
    <2> HIDE DEF id, A
    <2> QED BY <2>1, <2>2, Zenon DEF Injection, IsInjective
  <1> HIDE DEF S, R, id
  <1>5. IsFiniteSet(A) /\ Cardinality(A) <= Cardinality(Moving)
    <2> HIDE DEF A
    <2> QED BY <1>2, <1>4, FS_Injection
  <1>6. S \in SUBSET (R \cup A)
        OBVIOUS
  <1> HIDE DEF A
  <1>7. /\ IsFiniteSet(R \cup A)
        /\ Cardinality(R \cup A) = Cardinality(R) + Cardinality(A) - Cardinality(R \cap A)
        BY <1>1, <1>5, FS_Union
  <1>8. Cardinality(S) <= Cardinality(R \cup A)
        BY <1>6, <1>7, FS_Subset
  <1>9. IsFiniteSet(R \cap A)
        BY <1>1, FS_Subset
  <1>10. /\ Cardinality(R) \in Nat /\ Cardinality(A) \in Nat
         /\ Cardinality(R \cap A) \in Nat /\ Cardinality(S) \in Nat
         BY <1>1, <1>5, <1>9, FS_CardinalityType
  <1>11. Cardinality(S) <= Cardinality(R) + Cardinality(Moving)
         BY <1>2, <1>5, <1>7, <1>8, <1>10
  <1> QED BY <1>11 DEF S, R

-----------------------------------------------------------------------------
(* The request: which statement has seen which book. *)

LEMMA StatementOrder ==
    /\ Len(Statements) = 12
    /\ \A i, j \in 1..12 : Statements[i] = Statements[j] => i = j
    /\ Statements[1] = "pnl" /\ Statements[2] = "outcome" /\ Statements[3] = "profit_factor"
    /\ Statements[4] = "planned_rr_total" /\ Statements[5] = "planned_rr"
    /\ Statements[6] = "r_series" /\ Statements[8] = "direction"
    /\ Statements[9] = "charges" /\ Statements[10] = "streaks"
  BY DEF Statements

\* The answers so far are those of the first statements.
Progress(r) ==
    LET k == Cardinality(DOMAIN r.got)
    IN  k \in 0..12 /\ DOMAIN r.got = {Statements[i] : i \in 1..k}

Held(r, s, b) == r.got[s] = Answer(s, b, r.filter, r.got)

\* Each answer is that of the book b as it is or, if a commit came since, as it was.
Seen(r, b, old) ==
    /\ GoodBook(old) /\ Near(old, b)
    /\ ~r.moved => old = b
    /\ \A s \in DOMAIN r.got : Held(r, s, old) \/ Held(r, s, b)

IsRequest(r) == r = [filter |-> r.filter, got |-> r.got, moved |-> r.moved] /\ r.moved \in BOOLEAN

ReqInv == req # NULL => /\ IsRequest(req) /\ Progress(req)
                        /\ \E old : Seen(req, book, old)

\* A statement reads no answers but those of two statements before it.
LEMMA AnswerKept ==
    ASSUME NEW s, NEW b, NEW f, NEW g, NEW h,
           s = "planned_rr" => h["planned_rr_total"] = g["planned_rr_total"],
           s = "r_series" => h["outcome"] = g["outcome"]
    PROVE  Answer(s, b, f, h) = Answer(s, b, f, g)
  BY DEF Answer

LEMMA ReqRead ==
    ASSUME BookInv, ReqInv, Read
    PROVE  ReqInv'
  <1> DEFINE g == req.got
             k == Cardinality(DOMAIN g)
             s == Statements[k + 1]
             v == Answer(s, book, req.filter, g)
             h == With(g, s, v)
             r == [filter |-> req.filter, got |-> h, moved |-> req.moved]
  <1>1. req # NULL /\ IsRequest(req) /\ Progress(req) /\ k # 12 /\ book' = book
        BY StatementOrder DEF Read, ReqInv, Answered
  <1>2. PICK old : Seen(req, book, old)
        BY <1>1 DEF ReqInv
  <1>3. k \in 0..11 /\ k + 1 \in 1..12 /\ DOMAIN g = {Statements[i] : i \in 1..k}
        BY <1>1 DEF Progress
  <1>4. req' = r
    <2>1. req' = [req EXCEPT !.got = h]
          BY DEF Read, NextStatement
    <2> HIDE DEF h
    <2> QED BY <1>1, <2>1 DEF IsRequest
  <1>5. s \notin DOMAIN g
        BY <1>3, StatementOrder
  <1>6. DOMAIN h = DOMAIN g \cup {s} /\ h[s] = v /\ \A x \in DOMAIN g : h[x] = g[x]
        BY <1>5 DEF With
  <1>7. /\ \A x \in DOMAIN h : x = "planned_rr" => "planned_rr_total" \in DOMAIN g
        /\ \A x \in DOMAIN h : x = "r_series" => "outcome" \in DOMAIN g
    <2>1. \A x \in DOMAIN h : \E i \in 1..k+1 : x = Statements[i]
          BY <1>3, <1>6
    <2>2. \A i \in 1..12 : /\ Statements[i] = "planned_rr" => i = 5
                           /\ Statements[i] = "r_series" => i = 6
          BY StatementOrder
    <2>3. (5 \in 1..k+1 => Statements[4] \in DOMAIN g) /\ (6 \in 1..k+1 => Statements[2] \in DOMAIN g)
          BY <1>3
    <2> HIDE DEF g, h
    <2> QED BY <1>3, <2>1, <2>2, <2>3, StatementOrder
  <1>8. ASSUME NEW x \in DOMAIN h, NEW b
        PROVE  Answer(x, b, req.filter, h) = Answer(x, b, req.filter, g)
    <2>1. /\ x = "planned_rr" => h["planned_rr_total"] = g["planned_rr_total"]
          /\ x = "r_series" => h["outcome"] = g["outcome"]
          BY <1>6, <1>7
    <2> HIDE DEF h, g
    <2> QED BY <2>1, AnswerKept
  <1> HIDE DEF h, v
  <1>9. r.got = h /\ r.filter = req.filter /\ r.moved = req.moved
        OBVIOUS
  <1>10. \A x \in DOMAIN h : Held(r, x, old) \/ Held(r, x, book)
    <2> SUFFICES ASSUME NEW x \in DOMAIN h PROVE Held(r, x, old) \/ Held(r, x, book)
        OBVIOUS
    <2>1. CASE x = s
          BY <1>6, <1>8, <1>9, <2>1 DEF Held, v
    <2>2. CASE x \in DOMAIN g
      <3>1. Held(req, x, old) \/ Held(req, x, book)
            BY <1>2, <2>2 DEF Seen
      <3> QED BY <1>6, <1>8, <1>9, <2>2, <3>1 DEF Held
    <2> QED BY <1>6, <2>1, <2>2
  <1>11. Cardinality(DOMAIN h) = k + 1 /\ DOMAIN h = {Statements[i] : i \in 1..k+1}
    <2>1. DOMAIN h = {Statements[i] : i \in 1..k+1}
      <3>1. \A i : i \in 1..k+1 <=> i \in 1..k \/ i = k + 1
            BY <1>3
      <3> HIDE DEF k
      <3> QED BY <1>3, <1>6, <3>1
    <2>2. IsFiniteSet(DOMAIN g)
      <3>1. 1 \in Int /\ k \in Int
            BY <1>3
      <3>2. IsFiniteSet(1..k)
            BY <3>1, FS_Interval
      <3> DEFINE D == DOMAIN g
      <3>3. D = {Statements[i] : i \in 1..k}
            BY <1>3
      <3> HIDE DEF D, k
      <3>4. IsFiniteSet(D)
            BY <3>2, <3>3, KeysFinite
      <3> QED BY <3>4 DEF D
    <2>3. Cardinality(DOMAIN g \cup {s}) = k + 1
          BY <1>5, <2>2, FS_AddElement
    <2> QED BY <1>6, <2>1, <2>3
  <1>12. Progress(r)
    <2>1. /\ Cardinality(DOMAIN r.got) = k + 1 /\ k + 1 \in 0..12
          /\ DOMAIN r.got = {Statements[i] : i \in 1..k+1}
          BY <1>3, <1>9, <1>11
    <2> HIDE DEF k, r
    <2> QED BY <2>1 DEF Progress
  <1>13. Seen(r, book, old)
    <2> HIDE DEF r
    <2> QED BY <1>2, <1>9, <1>10 DEF Seen
  <1>14. IsRequest(r)
         BY <1>1, <1>9 DEF IsRequest
  <1> HIDE DEF r
  <1> QED BY <1>1, <1>4, <1>12, <1>13, <1>14 DEF ReqInv

LEMMA ReqCommit ==
    ASSUME BookInv, ReqInv, NEW S, NEW b, Commit(S, b), Writes(S, b)
    PROVE  ReqInv'
  <1> SUFFICES ASSUME req # NULL PROVE ReqInv'
      BY DEF ReqInv, Commit
  <1> DEFINE r == [filter |-> req.filter, got |-> req.got, moved |-> TRUE]
  <1>1. IsRequest(req) /\ Progress(req) /\ ~req.moved /\ S \subseteq Moving /\ book' = b
        BY DEF ReqInv, Commit
  <1>2. PICK old : Seen(req, book, old)
        BY DEF ReqInv
  <1>3. req' = r
        BY <1>1 DEF Commit, IsRequest
  <1>4. r.got = req.got /\ r.filter = req.filter /\ r.moved = TRUE
        OBVIOUS
  <1>5. IsRequest(r) /\ Progress(r)
        BY <1>1, <1>4 DEF IsRequest, Progress
  <1> HIDE DEF r
  <1>6. \A s \in DOMAIN r.got : Held(r, s, book)
        BY <1>1, <1>2, <1>4 DEF Seen, Held
  <1>7. Near(book, b) /\ GoodBook(book)
        BY <1>1 DEF Near, Writes, BookInv
  <1>8. Seen(r, b, book)
        BY <1>4, <1>6, <1>7 DEF Seen
  <1> QED BY <1>1, <1>3, <1>5, <1>8 DEF ReqInv

LEMMA ReqAsk ==
    ASSUME BookInv, NEW f, Ask(f)
    PROVE  ReqInv'
  <1> DEFINE r == [filter |-> f, got |-> <<>>, moved |-> FALSE]
  <1>1. req' = r /\ book' = book
        BY DEF Ask
  <1>2. r.filter = f /\ r.got = <<>> /\ r.moved = FALSE /\ IsRequest(r)
        BY DEF IsRequest
  <1>3. DOMAIN r.got = {} /\ Cardinality({}) = 0 /\ 1..0 = {}
        BY <1>2, FS_EmptySet
  <1> HIDE DEF r
  <1>4. Progress(r)
    <2>1. {Statements[i] : i \in 1..0} = {}
          BY <1>3
    <2> QED BY <1>3, <2>1 DEF Progress
  <1>5. Seen(r, book, book)
        BY <1>2, <1>3 DEF Seen, Near, BookInv
  <1> QED BY <1>1, <1>2, <1>4, <1>5 DEF ReqInv


LEMMA ReqNext == BookInv /\ ReqInv /\ [Next]_vars => ReqInv'
  <1> SUFFICES ASSUME BookInv, ReqInv, [Next]_vars PROVE ReqInv'
      OBVIOUS
  <1>1. CASE UNCHANGED vars
    <2>1. book' = book /\ req' = req
          BY <1>1 DEF vars
    <2> QED BY <2>1 DEF ReqInv
  <1>2. ASSUME NEW f \in Filters, Ask(f) PROVE ReqInv'
        BY <1>2, ReqAsk
  <1>3. CASE Read
        BY <1>3, ReqRead
  <1>4. CASE Respond
        BY <1>4 DEF Respond, ReqInv
  <1>5. CASE Committing
        BY <1>5, CommitsWrite, ReqCommit DEF Committed
  <1> QED BY <1>1, <1>2, <1>3, <1>4, <1>5 DEF Next, Committing

\* The answers of one book, when nothing was committed since the request came.
LEMMA OneBookAgrees ==
    ASSUME NEW b, GoodBook(b), NEW f
    PROVE  LET head == get_pnl_summary(b, f)
               charges == get_charges_breakdown(b, f)
               net == charges.total_gross_pnl - charges.total_charges
           IN  /\ get_profit_factor(b, f).gross_profit + get_profit_factor(b, f).gross_loss
                      = head.net_pnl
               /\ get_outcome_distribution(b, f).total_n = head.total_trades
               /\ get_planned_rr_total(b, f) = head.total_trades
               /\ Counted(get_by_direction(b, f)) = head.total_trades
               /\ Netted(get_by_direction(b, f)) = net
               /\ net = head.net_pnl
               /\ get_streaks(b, f).current_loss_streak > 0
                      => get_outcome_distribution(b, f).loss_count > 0
  <1> DEFINE S == Selected(b, f)
             head == get_pnl_summary(b, f)
             charges == get_charges_breakdown(b, f)
             net == charges.total_gross_pnl - charges.total_charges
  <1>1. IsFiniteSet(S) /\ S \subseteq PricedRow
        BY SelectedRows DEF Rows
  <1>2. head.total_trades = Cardinality(S) /\ head.net_pnl = SumOf(NetOf, S)
        BY DEF get_pnl_summary
  <1>3. /\ get_outcome_distribution(b, f).total_n = Cardinality(S)
        /\ get_planned_rr_total(b, f) = Cardinality(S)
        BY DEF get_outcome_distribution, get_planned_rr_total
  <1>4. /\ Counted(get_by_direction(b, f)) = Cardinality(S)
        /\ Netted(get_by_direction(b, f)) = SumOf(NetOf, S)
        BY <1>1, EndpointsGroup, GroupsAddUp
  <1>5. net = head.net_pnl
        BY GrossLessCharges
  <1>6. get_profit_factor(b, f).gross_profit + get_profit_factor(b, f).gross_loss = head.net_pnl
        BY ProfitAndLoss
  <1>7. get_streaks(b, f).current_loss_streak > 0
           => get_outcome_distribution(b, f).loss_count > 0
        BY StreakCounted
  <1> HIDE DEF S, head, net
  <1>8. /\ get_profit_factor(b, f).gross_profit + get_profit_factor(b, f).gross_loss
               = head.net_pnl
        /\ get_outcome_distribution(b, f).total_n = head.total_trades
        /\ get_planned_rr_total(b, f) = head.total_trades
        /\ Counted(get_by_direction(b, f)) = head.total_trades
        /\ Netted(get_by_direction(b, f)) = net
        /\ net = head.net_pnl
        BY <1>2, <1>3, <1>4, <1>5, <1>6
  <1> QED BY <1>7, <1>8 DEF head, net

\* The twelve answers of a finished request.
LEMMA Finished ==
    ASSUME BookInv, ReqInv, req # NULL, Answered(req)
    PROVE  \E old : /\ GoodBook(old) /\ Near(old, book) /\ Near(book, old)
                    /\ ~req.moved => old = book
                    /\ \A i \in 1..12 : \/ Held(req, Statements[i], old)
                                        \/ Held(req, Statements[i], book)
  <1>1. PICK old : Seen(req, book, old)
        BY DEF ReqInv
  <1>2. DOMAIN req.got = {Statements[i] : i \in 1..12}
        BY StatementOrder DEF ReqInv, Progress, Answered
  <1>3. \A i \in 1..12 : Held(req, Statements[i], old) \/ Held(req, Statements[i], book)
        BY <1>1, <1>2 DEF Seen
  <1> QED BY <1>1, <1>3 DEF Seen, Near

LEMMA AnswersAre ==
    ASSUME NEW b, NEW f, NEW g
    PROVE  /\ Answer("pnl", b, f, g) = get_pnl_summary(b, f)
           /\ Answer("outcome", b, f, g) = get_outcome_distribution(b, f)
           /\ Answer("profit_factor", b, f, g) = get_profit_factor(b, f)
           /\ Answer("planned_rr_total", b, f, g) = get_planned_rr_total(b, f)
           /\ Answer("r_series", b, f, g)
                 = FromRSeries(get_r_multiple_series(b, f), g["outcome"].total_n)
           /\ Answer("direction", b, f, g) = get_by_direction(b, f)
           /\ Answer("streaks", b, f, g) = get_streaks(b, f)
           /\ LET a == Answer("charges", b, f, g)
                  c == get_charges_breakdown(b, f)
              IN  /\ a.levies = c.levies /\ a.total_charges = c.total_charges
                  /\ a.total_gross_pnl = c.total_gross_pnl
  <1>1. /\ Answer("pnl", b, f, g) = get_pnl_summary(b, f)
        /\ Answer("outcome", b, f, g) = get_outcome_distribution(b, f)
        /\ Answer("profit_factor", b, f, g) = get_profit_factor(b, f)
        /\ Answer("planned_rr_total", b, f, g) = get_planned_rr_total(b, f)
        BY DEF Answer
  <1>2. /\ Answer("r_series", b, f, g)
              = FromRSeries(get_r_multiple_series(b, f), g["outcome"].total_n)
        /\ Answer("direction", b, f, g) = get_by_direction(b, f)
        /\ Answer("streaks", b, f, g) = get_streaks(b, f)
        BY DEF Answer
  <1> DEFINE a == Answer("charges", b, f, g)
             c == get_charges_breakdown(b, f)
  <1>3. a = With(c, "drag", ChargeDrag(c))
        BY DEF Answer
  <1>4. {"levies", "total_charges", "total_gross_pnl"} \subseteq DOMAIN c
        BY DEF get_charges_breakdown
  <1> HIDE DEF a, c
  <1>5. /\ a.levies = c.levies /\ a.total_charges = c.total_charges
        /\ a.total_gross_pnl = c.total_gross_pnl
        BY <1>3, <1>4 DEF With
  <1> QED BY <1>1, <1>2, <1>5 DEF a, c

\* Whatever was committed meanwhile, the number of R-multiples exceeds that of the
\* trades by no more than moved, and levies add up; if nothing was, all answers agree.
LEMMA RequestAddsUp ==
    ASSUME BookInv, ReqInv, req # NULL, Answered(req)
    PROVE  LET g == req.got
               e == g["r_series"].expectancy
               net == g["charges"].total_gross_pnl - g["charges"].total_charges
           IN  /\ e.r_coverage_count = g["r_series"].sharpe.r_coverage_count
               /\ e.r_coverage_count <= e.total_count + (IF req.moved THEN Cardinality(Moving) ELSE 0)
               /\ SumOf(LAMBDA c : g["charges"].levies[c], Levies) = g["charges"].total_charges
               /\ ~req.moved =>
                      /\ g["profit_factor"].gross_profit + g["profit_factor"].gross_loss
                             = g["pnl"].net_pnl
                      /\ g["outcome"].total_n = g["pnl"].total_trades
                      /\ g["planned_rr_total"] = g["pnl"].total_trades
                      /\ Counted(g["direction"]) = g["pnl"].total_trades
                      /\ Netted(g["direction"]) = net
                      /\ net = g["pnl"].net_pnl
                      /\ g["streaks"].current_loss_streak > 0 => g["outcome"].loss_count > 0
  <1> DEFINE g == req.got
             f == req.filter
             e == g["r_series"].expectancy
             charges == g["charges"]
             net == charges.total_gross_pnl - charges.total_charges
  <1>1. PICK old : /\ GoodBook(old) /\ Near(old, book) /\ Near(book, old)
                   /\ ~req.moved => old = book
                   /\ \A i \in 1..12 : \/ Held(req, Statements[i], old)
                                       \/ Held(req, Statements[i], book)
        BY Finished
  <1>2. ASSUME NEW i \in 1..12
        PROVE  \E b \in {old, book} : g[Statements[i]] = Answer(Statements[i], b, f, g)
        BY <1>1 DEF Held
  <1>3. \A b \in {old, book} : GoodBook(b)
        BY <1>1 DEF BookInv
  <1>4. PICK b \in {old, book} : g["r_series"] = Answer("r_series", b, f, g)
        BY <1>2, StatementOrder
  <1>5. PICK c \in {old, book} : g["outcome"] = Answer("outcome", c, f, g)
        BY <1>2, StatementOrder
  <1>6. PICK d \in {old, book} : g["charges"] = Answer("charges", d, f, g)
        BY <1>2, StatementOrder
  <1> HIDE DEF g, f
  <1>7. /\ e.r_coverage_count = Decided(b, f)
        /\ g["r_series"].sharpe.r_coverage_count = Decided(b, f)
        /\ e.total_count = g["outcome"].total_n
        BY <1>3, <1>4, AnswersAre, CoverageOf
  <1>8. g["outcome"].total_n = Cardinality(Selected(c, f))
        BY <1>5, AnswersAre DEF get_outcome_distribution
  <1>9. Cardinality(Moving) \in Nat
        BY MovingAssumption, TradeAssumption, FS_Subset, FS_CardinalityType
  <1> DEFINE n == Cardinality(Selected(b, f))
             m == Cardinality(Selected(c, f))
             k == Cardinality(Moving)
             more == IF req.moved THEN k ELSE 0
  <1>10. Decided(b, f) <= m + more
    <2>1. Decided(b, f) \in Nat /\ n \in Nat /\ Decided(b, f) <= n /\ m \in Nat
          BY <1>3, DecidedBounded
    <2>2. b = c \/ Near(b, c)
          BY <1>1
    <2>3. b = c => n = m
          OBVIOUS
    <2>4. Near(b, c) => n <= m + k
          BY <1>3, NearBooks
    <2>5. ~req.moved => b = c
          BY <1>1
    <2> HIDE DEF n, m, k
    <2> QED BY <1>9, <2>1, <2>2, <2>3, <2>4, <2>5 DEF k
  <1>11. e.r_coverage_count <= e.total_count + more
         BY <1>7, <1>8, <1>10
  <1>12. SumOf(LAMBDA l : charges.levies[l], Levies) = charges.total_charges
    <2>1. charges.levies = get_charges_breakdown(d, f).levies
          BY <1>6, AnswersAre
    <2>2. charges.total_charges = get_charges_breakdown(d, f).total_charges
          BY <1>6, AnswersAre
    <2>3. SumOf(LAMBDA l : get_charges_breakdown(d, f).levies[l], Levies)
             = get_charges_breakdown(d, f).total_charges
          BY <1>3, LeviesAddUp
    <2>4. SumOf(LAMBDA l : charges.levies[l], Levies)
             = SumOf(LAMBDA l : get_charges_breakdown(d, f).levies[l], Levies)
          BY <2>1 DEF SumOf
    <2> QED BY <2>2, <2>3, <2>4
  <1>13. ASSUME ~req.moved
         PROVE  /\ g["profit_factor"].gross_profit + g["profit_factor"].gross_loss
                       = g["pnl"].net_pnl
                /\ g["outcome"].total_n = g["pnl"].total_trades
                /\ g["planned_rr_total"] = g["pnl"].total_trades
                /\ Counted(g["direction"]) = g["pnl"].total_trades
                /\ Netted(g["direction"]) = net
                /\ net = g["pnl"].net_pnl
                /\ g["streaks"].current_loss_streak > 0 => g["outcome"].loss_count > 0
    <2>1. \A i \in 1..12 : g[Statements[i]] = Answer(Statements[i], book, f, g)
          BY <1>1, <1>2, <1>13
    <2>2. /\ g["pnl"] = get_pnl_summary(book, f)
          /\ g["outcome"] = get_outcome_distribution(book, f)
          /\ g["profit_factor"] = get_profit_factor(book, f)
          /\ g["planned_rr_total"] = get_planned_rr_total(book, f)
          /\ g["direction"] = get_by_direction(book, f)
          /\ g["streaks"] = get_streaks(book, f)
      <3>1. /\ g["pnl"] = Answer("pnl", book, f, g)
            /\ g["outcome"] = Answer("outcome", book, f, g)
            /\ g["profit_factor"] = Answer("profit_factor", book, f, g)
            /\ g["planned_rr_total"] = Answer("planned_rr_total", book, f, g)
            /\ g["direction"] = Answer("direction", book, f, g)
            /\ g["streaks"] = Answer("streaks", book, f, g)
            BY <2>1, StatementOrder
      <3> QED BY <3>1, AnswersAre
    <2>3. g["charges"] = Answer("charges", book, f, g)
          BY <2>1, StatementOrder
    <2>4. net = get_charges_breakdown(book, f).total_gross_pnl
                   - get_charges_breakdown(book, f).total_charges
          BY <2>3, AnswersAre
    <2> HIDE DEF net
    <2> QED BY <1>3, <2>2, <2>4, OneBookAgrees
  <1> QED BY <1>7, <1>11, <1>12, <1>13 DEF g

\* The answers of one summary request agree unless a commit fell between its
\* statements, and then only by the trades it touched: for any book, filter and
\* order of commits.
THEOREM SummaryAlwaysAddsUp == Spec => []SummaryAddsUp
  <1>1. Init => ReqInv
        BY DEF Init, ReqInv
  <1>2. BookInv /\ ReqInv => SummaryAddsUp
        BY RequestAddsUp DEF SummaryAddsUp
  <1> QED BY <1>1, <1>2, BookInit, BookNext, ReqNext, PTL DEF Spec
-----------------------------------------------------------------------------
(* Calculators that go through a series once: what holds after each step. *)

LEMMA Along ==
    ASSUME NEW n \in Nat, NEW T, 0 \in T, \A i \in 0..n-1 : i \in T => i + 1 \in T
    PROVE  \A i \in 0..n : i \in T
  <1> DEFINE F == {i \in 0..n : i \notin T}
  <1> SUFFICES ASSUME F # {} PROVE FALSE
      OBVIOUS
  <1>1. PICK i \in F : \A j \in F : i <= j
    <2>1. F \subseteq Nat
          OBVIOUS
    <2> HIDE DEF F
    <2> QED BY <2>1, LeastOf
  <1>2. i \in 0..n /\ i \notin T /\ i # 0
        BY <1>1
  <1>3. i - 1 \in 0..n-1 /\ i - 1 \in 0..n /\ (i - 1) + 1 = i
        BY <1>2
  <1>4. i - 1 \notin T
        BY <1>2, <1>3
  <1>5. i - 1 \in F
        BY <1>3, <1>4
  <1> QED BY <1>1, <1>2, <1>5

\* g holds what step makes of base along 1..n.
Iterated(g, base, step, n) ==
    g = [i \in 0..n |-> IF i = 0 THEN base ELSE step[<<g[i - 1], i>>]]

LEMMA IteratedExists ==
    ASSUME NEW base, NEW step, NEW n \in Nat
    PROVE  \E g : Iterated(g, base, step, n)
  <1> DEFINE T == {m \in Nat : \E g : Iterated(g, base, step, m)}
  <1>1. 0 \in T
    <2> DEFINE g == [i \in 0..0 |-> base]
    <2>1. Iterated(g, base, step, 0)
          BY DEF Iterated
    <2> QED BY <2>1
  <1>2. ASSUME NEW m \in 0..n-1, m \in T PROVE m + 1 \in T
    <2>1. m \in Nat /\ m + 1 \in Nat
          OBVIOUS
    <2>2. PICK g : Iterated(g, base, step, m)
          BY <1>2
    <2> DEFINE h == [i \in 0..m+1 |-> IF i = m + 1 THEN step[<<g[m], m + 1>>] ELSE g[i]]
    <2>3. \A i \in 0..m : g[i] = IF i = 0 THEN base ELSE step[<<g[i - 1], i>>]
          BY <2>2 DEF Iterated
    <2>4. \A i \in 0..m+1 : h[i] = IF i = 0 THEN base ELSE step[<<h[i - 1], i>>]
      <3> SUFFICES ASSUME NEW i \in 0..m+1
                   PROVE  h[i] = IF i = 0 THEN base ELSE step[<<h[i - 1], i>>]
          OBVIOUS
      <3>1. CASE i = m + 1
        <4>1. i # 0 /\ i - 1 = m /\ m \in 0..m+1 /\ m # m + 1
              BY <2>1, <3>1
        <4>2. h[i - 1] = g[m] /\ h[i] = step[<<g[m], m + 1>>]
              BY <3>1, <4>1
        <4> HIDE DEF h
        <4> QED BY <3>1, <4>1, <4>2
      <3>2. CASE i # m + 1
        <4>1. i \in 0..m /\ h[i] = g[i]
              BY <2>1, <3>2
        <4>2. i # 0 => h[i - 1] = g[i - 1]
              BY <2>1, <4>1
        <4> HIDE DEF h
        <4> QED BY <2>3, <4>1, <4>2
      <3> QED BY <3>1, <3>2
    <2>5. h = [i \in 0..m+1 |-> h[i]]
          OBVIOUS
    <2> HIDE DEF h
    <2>6. Iterated(h, base, step, m + 1)
          BY <2>4, <2>5, Zenon DEF Iterated
    <2> QED BY <2>1, <2>6
  <1> HIDE DEF T
  <1>3. \A i \in 0..n : i \in T
        BY <1>1, <1>2, Along
  <1>4. n \in T
        BY <1>3
  <1> QED BY <1>4 DEF T

\* The largest of a set of integers, by the two facts that tell it.
LEMMA MaxIs ==
    ASSUME NEW S, S \subseteq Int, NEW m \in S, \A y \in S : y <= m
    PROVE  Max(S) = m
  <1>1. \A y \in S : m >= y
        OBVIOUS
  <1>2. Max(S) \in S /\ \A y \in S : Max(S) >= y
        BY <1>1 DEF Max
  <1>3. Max(S) \in Int /\ m \in Int /\ Max(S) >= m /\ Max(S) <= m
        BY <1>2
  <1> QED BY <1>3

\* The steps stay in A when each of them does.
Steps(A, base, step, n, g) ==
    /\ base \in A /\ n \in Nat /\ Iterated(g, base, step, n)
    /\ \A s \in A, i \in 1..n : step[<<s, i>>] \in A

Stepped(A, base, step, n, g) ==
    /\ g = [i \in 0..n |-> g[i]] /\ g[0] = base
    /\ \A i \in 0..n : g[i] \in A
    /\ \A i \in 1..n : g[i] = step[<<g[i - 1], i>>]

LEMMA IteratedIn ==
    ASSUME NEW A, NEW base, NEW step, NEW n, NEW g, Steps(A, base, step, n, g)
    PROVE  Stepped(A, base, step, n, g)
  <1> DEFINE T == {i \in 0..n : g[i] \in A}
  <1>0. base \in A /\ n \in Nat /\ \A s \in A, i \in 1..n : step[<<s, i>>] \in A
        BY DEF Steps
  <1>1. /\ g = [i \in 0..n |-> g[i]]
        /\ \A i \in 0..n : g[i] = IF i = 0 THEN base ELSE step[<<g[i - 1], i>>]
        BY DEF Steps, Iterated
  <1>2. g[0] = base
    <2>1. 0 \in 0..n
          BY <1>0
    <2> QED BY <1>1, <2>1
  <1>3. \A i \in 1..n : g[i] = step[<<g[i - 1], i>>]
        BY <1>0, <1>1
  <1>4. 0 \in T
        BY <1>0, <1>2
  <1>5. ASSUME NEW i \in 0..n-1, i \in T PROVE i + 1 \in T
    <2>1. i + 1 \in 1..n /\ (i + 1) - 1 = i /\ g[i] \in A
          BY <1>0, <1>5
    <2>2. g[i + 1] = step[<<g[i], i + 1>>]
          BY <1>3, <2>1
    <2> QED BY <1>0, <2>1, <2>2
  <1> HIDE DEF T
  <1>6. \A i \in 0..n : i \in T
        BY <1>0, <1>4, <1>5, Along
  <1> QED BY <1>1, <1>2, <1>3, <1>6 DEF T, Stepped

\* Some element of a set of numbers up to n is the largest.
LEMMA GreatestOf ==
    ASSUME NEW n \in Nat, NEW S, S \subseteq 0..n, S # {}
    PROVE  Max(S) \in S /\ \A y \in S : y <= Max(S)
  <1> DEFINE T == {n - x : x \in S}
  <1>1. T \subseteq Nat /\ T # {}
    <2>1. \A x \in S : n - x \in Nat
          OBVIOUS
    <2> QED BY <2>1
  <1>2. PICK t \in T : \A u \in T : t <= u
    <2> HIDE DEF T
    <2> QED BY <1>1, LeastOf
  <1>3. PICK m \in S : t = n - m
        BY <1>2
  <1>4. \A y \in S : y <= m
    <2> SUFFICES ASSUME NEW y \in S PROVE y <= m
        OBVIOUS
    <2>1. n - m <= n - y /\ m \in 0..n /\ y \in 0..n
          BY <1>2, <1>3
    <2> QED BY <2>1
  <1>5. S \subseteq Int
        OBVIOUS
  <1> QED BY <1>4, <1>5, MaxIs
-----------------------------------------------------------------------------
(* Drawdown. *)

IsCurve(curve) ==
    /\ Len(curve) \in Nat /\ DOMAIN curve = 1..Len(curve)
    /\ curve = [i \in 1..Len(curve) |-> curve[i]]
    /\ \A i \in DOMAIN curve : curve[i].cumulative_net_pnl \in Int

Under(curve, i) ==
    PeakAt(curve, i) > curve[i].cumulative_net_pnl /\ PeakAt(curve, i) > 0
DropAt(curve, i) ==
    <<100 * (PeakAt(curve, i) - curve[i].cumulative_net_pnl), PeakAt(curve, i)>>

\* The falls among the first i points.
DropsTo(curve, i) == {DropAt(curve, k) : k \in {j \in 1..i : Under(curve, j)}}

IsPeak(curve, i, p) ==
    /\ p \in Int
    /\ \E j \in 1..i : p = curve[j].cumulative_net_pnl
    /\ \A j \in 1..i : curve[j].cumulative_net_pnl <= p

LEMMA PeakIs ==
    ASSUME NEW curve, IsCurve(curve), NEW i \in 1..Len(curve), NEW p, IsPeak(curve, i, p)
    PROVE  PeakAt(curve, i) = p
  <1> DEFINE S == {curve[j].cumulative_net_pnl : j \in 1..i}
  <1>1. \A j \in 1..i : curve[j].cumulative_net_pnl \in Int
        BY DEF IsCurve
  <1>2. S \subseteq Int
        BY <1>1
  <1>3. p \in S /\ \A y \in S : y <= p
        BY DEF IsPeak
  <1>4. Max(S) = p
    <2> HIDE DEF S
    <2> QED BY <1>2, <1>3, MaxIs
  <1> QED BY <1>4 DEF PeakAt

\* The running peak is the maximum so far.
LEMMA PeakSteps ==
    ASSUME NEW curve, IsCurve(curve), Len(curve) > 0
    PROVE  /\ \A i \in 1..Len(curve) : IsPeak(curve, i, PeakAt(curve, i))
           /\ PeakAt(curve, 1) = curve[1].cumulative_net_pnl
           /\ \A i \in 1..Len(curve)-1 :
                 PeakAt(curve, i + 1) = IF curve[i + 1].cumulative_net_pnl > PeakAt(curve, i)
                                        THEN curve[i + 1].cumulative_net_pnl ELSE PeakAt(curve, i)
  <1> DEFINE n == Len(curve)
             c(i) == curve[i].cumulative_net_pnl
             T == {i \in 0..n-1 : IsPeak(curve, i + 1, PeakAt(curve, i + 1))}
             Next1(i) == IF c(i + 1) > PeakAt(curve, i) THEN c(i + 1) ELSE PeakAt(curve, i)
  <1>1. n \in Nat /\ n > 0 /\ n - 1 \in Nat /\ \A i \in 1..n : c(i) \in Int
        BY DEF IsCurve
  <1>2. IsPeak(curve, 1, c(1))
        BY <1>1 DEF IsPeak
  <1>3. PeakAt(curve, 1) = c(1)
        BY <1>1, <1>2, PeakIs
  <1>4. ASSUME NEW i \in 1..n-1, IsPeak(curve, i, PeakAt(curve, i))
        PROVE  IsPeak(curve, i + 1, Next1(i)) /\ PeakAt(curve, i + 1) = Next1(i)
    <2>1. i + 1 \in 1..n /\ i \in 1..n /\ 1..i+1 = 1..i \cup {i + 1} /\ c(i + 1) \in Int
          BY <1>1
    <2>2. \A j \in 1..i : c(j) \in Int
          BY <1>1
    <2> HIDE DEF n, c
    <2>3. IsPeak(curve, i + 1, Next1(i))
      <3>1. /\ PeakAt(curve, i) \in Int /\ \E j \in 1..i : PeakAt(curve, i) = c(j)
            /\ \A j \in 1..i : c(j) <= PeakAt(curve, i)
            BY <1>4 DEF IsPeak, c
      <3>2. Next1(i) \in Int /\ Next1(i) >= PeakAt(curve, i) /\ Next1(i) >= c(i + 1)
            BY <2>1, <3>1
      <3>3. \E j \in 1..i+1 : Next1(i) = c(j)
            BY <2>1, <3>1
      <3>4. \A j \in 1..i+1 : c(j) <= Next1(i)
            BY <2>1, <2>2, <3>1, <3>2
      <3> HIDE DEF Next1
      <3> QED BY <3>2, <3>3, <3>4 DEF IsPeak, c
    <2> HIDE DEF Next1
    <2> QED BY <2>1, <2>3, PeakIs DEF n
  <1>5. 0 \in T
        BY <1>1, <1>2, <1>3
  <1>6. ASSUME NEW i \in 0..(n-1)-1, i \in T PROVE i + 1 \in T
    <2>1. i + 1 \in 1..n-1 /\ i + 1 \in 0..n-1
          BY <1>1
    <2>2. IsPeak(curve, i + 1, PeakAt(curve, i + 1))
          BY <1>6
    <2> HIDE DEF n, Next1
    <2>3. IsPeak(curve, (i + 1) + 1, PeakAt(curve, (i + 1) + 1))
          BY <1>4, <2>1, <2>2
    <2> QED BY <2>1, <2>3
  <1> DEFINE m == n - 1
  <1>7. \A i \in 0..m : i \in T
    <2>1. m \in Nat /\ \A i \in 0..m-1 : i \in T => i + 1 \in T
          BY <1>1, <1>6
    <2> HIDE DEF T, m, n
    <2> QED BY <1>5, <2>1, Along
  <1>8. ASSUME NEW i \in 1..n PROVE IsPeak(curve, i, PeakAt(curve, i))
    <2>1. i - 1 \in 0..m /\ (i - 1) + 1 = i
          BY <1>1
    <2>2. i - 1 \in T
          BY <1>7, <2>1
    <2> HIDE DEF n
    <2> QED BY <2>1, <2>2
  <1>9. \A i \in 1..n-1 : PeakAt(curve, i + 1) = Next1(i)
    <2>1. \A i \in 1..n-1 : i \in 1..n
          BY <1>1
    <2> HIDE DEF Next1, n
    <2> QED BY <1>4, <1>8, <2>1
  <1> HIDE DEF T, m
  <1> QED BY <1>3, <1>8, <1>9

\* Of two falls the deeper one, and of three.
LEMMA DeeperChain ==
    ASSUME NEW x \in Fraction, NEW y \in Fraction, NEW z \in Fraction,
           ~Less(x, z), Less(x, y)
    PROVE  ~Less(y, z)
  <1> DEFINE a == x[1]  b == x[2]  c == y[1]  d == y[2]  e == z[1]  f == z[2]
  <1>1. /\ a \in Int /\ c \in Int /\ e \in Int
        /\ b \in Nat /\ d \in Nat /\ f \in Nat /\ b > 0 /\ d > 0 /\ f > 0
        BY DEF Fraction
  <1>2. ~(a * f < e * b) /\ a * d < c * b
        BY DEF Less
  <1> SUFFICES ~(c * f < e * d)
      BY DEF Less
  <1> HIDE DEF a, b, c, d, e, f
  <1> DEFINE ef == e * b  af == a * f  ad == a * d  cb == c * b
  <1>3. ef \in Int /\ af \in Int /\ ad \in Int /\ cb \in Int /\ ef <= af /\ ad < cb
        BY <1>1, <1>2
  <1>4. ef * d <= af * d
    <2> HIDE DEF ef, af
    <2> QED BY <1>1, <1>3
  <1>5. ad * f < cb * f
    <2> HIDE DEF ad, cb
    <2> QED BY <1>1, <1>3
  <1>6. af * d = ad * f
        BY <1>1
  <1>7. ef * d = (e * d) * b /\ cb * f = (c * f) * b
        BY <1>1
  <1> DEFINE u == e * d  v == c * f
  <1>8. u \in Int /\ v \in Int /\ u * b < v * b
    <2>1. u \in Int /\ v \in Int /\ ef * d \in Int /\ af * d \in Int /\ cb * f \in Int
          BY <1>1, <1>3
    <2>2. ef * d < cb * f
          BY <2>1, <1>4, <1>5, <1>6
    <2> QED BY <2>1, <2>2, <1>7
  <1>9. ~(v < u)
    <2> HIDE DEF u, v
    <2> QED BY <1>1, <1>8
  <1> QED BY <1>9

LEMMA NothingLast ==
    ASSUME NEW x \in Fraction, x[1] >= 0, NEW p \in Nat
    PROVE  ~Less(x, <<0, p>>)
  <1> DEFINE a == x[1]  b == x[2]
  <1>1. a \in Nat /\ b \in Nat
        BY DEF Fraction
  <1> SUFFICES ~(a * p < 0 * b)
      BY DEF Less
  <1> HIDE DEF a, b
  <1>2. a * p >= 0 /\ 0 * b = 0
        BY <1>1
  <1> QED BY <1>1, <1>2

LEMMA DropsTyped ==
    ASSUME NEW curve, IsCurve(curve), Len(curve) > 0, NEW i \in 1..Len(curve), Under(curve, i)
    PROVE  DropAt(curve, i) \in Fraction /\ DropAt(curve, i)[1] > 0
  <1>1. PeakAt(curve, i) \in Int /\ curve[i].cumulative_net_pnl \in Int
        BY PeakSteps DEF IsPeak, IsCurve
  <1> QED BY <1>1 DEF Under, DropAt, Fraction

\* What the pass remembers after i points.
Fallen ==
    [peak : Int, pct : {NULL} \cup Fraction, inr : Nat, pcts : Seq(Fraction)]

Deepest(curve, i, a) ==
    /\ a.peak = IF i = 0 THEN curve[1].cumulative_net_pnl ELSE PeakAt(curve, i)
    /\ a.pct = NULL <=> DropsTo(curve, i) = {}
    /\ DropsTo(curve, i) # {} => /\ a.pct \in DropsTo(curve, i)
                                 /\ \A d \in DropsTo(curve, i) : ~Less(a.pct, d)
                                 /\ a.pcts # <<>>
    /\ \A k \in 1..Len(a.pcts) : a.pcts[k] \in DropsTo(curve, i)

LEMMA DeepestSteps ==
    ASSUME NEW curve, IsCurve(curve), NEW i \in 0..Len(curve)-1,
           NEW a \in Fallen, Deepest(curve, i, a)
    PROVE  /\ DrawdownStep(a, curve[i + 1]) \in Fallen
           /\ Deepest(curve, i + 1, DrawdownStep(a, curve[i + 1]))
  <1> DEFINE n == Len(curve)
             k == i + 1
             p == PeakAt(curve, k)
             c == curve[k].cumulative_net_pnl
             d == <<100 * (p - c), p>>
             t == DrawdownStep(a, curve[k])
             deeper == p > 0 /\ Less(IF a.pct = NULL THEN Zero ELSE a.pct, d)
             D == DropsTo(curve, i)
             E == DropsTo(curve, k)
  <1>1. n \in Nat /\ n > 0 /\ k \in 1..n /\ k \in Nat /\ c \in Int /\ 1..k = 1..i \cup {k}
        BY DEF IsCurve
  <1>2. p \in Int /\ c <= p
    <2>1. IsPeak(curve, k, p)
          BY <1>1, PeakSteps
    <2>2. k \in 1..k
          BY <1>1
    <2> QED BY <2>1, <2>2 DEF IsPeak
  <1>3. p = IF c > a.peak THEN c ELSE a.peak
    <2>1. CASE i = 0
          BY <2>1, <1>1, PeakSteps DEF Deepest
    <2>2. CASE i # 0
      <3>1. i \in 1..n-1
            BY <2>2, <1>1
      <3> QED BY <2>2, <3>1, <1>1, PeakSteps DEF Deepest
    <2> QED BY <2>1, <2>2
  <1>4. t = [peak |-> p, pct |-> IF deeper THEN d ELSE a.pct,
             inr |-> IF deeper THEN p - c ELSE a.inr,
             pcts |-> IF p > 0 /\ c < p THEN Append(a.pcts, d) ELSE a.pcts]
    <2> DEFINE peak == IF c > a.peak THEN c ELSE a.peak
               pct == <<100 * (peak - c), peak>>
               deep == peak > 0 /\ Less(IF a.pct = NULL THEN Zero ELSE a.pct, pct)
    <2>1. t = [peak |-> peak, pct |-> IF deep THEN pct ELSE a.pct,
               inr |-> IF deep THEN peak - c ELSE a.inr,
               pcts |-> IF peak > 0 /\ c < peak THEN Append(a.pcts, pct) ELSE a.pcts]
          BY Zenon DEF DrawdownStep
    <2>2. peak = p
          BY <1>3
    <2>3. pct = d /\ (deep <=> deeper)
      <3> HIDE DEF peak, p, c
      <3> QED BY <2>2
    <2> HIDE DEF peak, p, c, d, t, pct, deep, deeper
    <2> QED BY <2>1, <2>2, <2>3
  <1>5. Under(curve, k) <=> p > 0 /\ c < p
        BY <1>1, <1>2 DEF Under
  <1>6. E = IF p > 0 /\ c < p THEN D \cup {d} ELSE D
    <2>1. DropAt(curve, k) = d
          BY DEF DropAt
    <2>2. {j \in 1..k : Under(curve, j)} = IF p > 0 /\ c < p
             THEN {j \in 1..i : Under(curve, j)} \cup {k} ELSE {j \in 1..i : Under(curve, j)}
          BY <1>1, <1>5
    <2> HIDE DEF p, c, d, k
    <2> QED BY <2>1, <2>2 DEF DropsTo
  <1>7. /\ a.peak \in Int /\ a.pct \in {NULL} \cup Fraction /\ a.inr \in Nat
        /\ a.pcts \in Seq(Fraction)
        BY DEF Fallen
  <1>8. p > 0 => d \in Fraction
        BY <1>1, <1>2 DEF Fraction
  <1>9. \A x \in D : x \in Fraction /\ x[1] > 0
    <2> SUFFICES ASSUME NEW j \in 1..i, Under(curve, j)
                 PROVE  DropAt(curve, j) \in Fraction /\ DropAt(curve, j)[1] > 0
        BY DEF DropsTo
    <2>1. j \in 1..n
          BY <1>1
    <2> QED BY <1>1, <2>1, DropsTyped
  <1>10. /\ a.pct = NULL <=> D = {}
         /\ D # {} => a.pct \in D /\ (\A x \in D : ~Less(a.pct, x)) /\ a.pcts # <<>>
         /\ \A j \in 1..Len(a.pcts) : a.pcts[j] \in D
         BY DEF Deepest
  <1>11. NULL \notin Fraction
         BY MetricsAssumption
  <1>12. t \in Fallen
    <2>1. p - c \in Nat
          BY <1>1, <1>2
    <2> QED BY <2>1, <1>2, <1>4, <1>7, <1>8 DEF Fallen
  <1>13. ASSUME ~(p > 0 /\ c < p) PROVE ~deeper
    <2>1. CASE ~(p > 0)
          BY <2>1
    <2>2. CASE p > 0 /\ c = p
      <3>1. d = <<0, p>>
            BY <1>1, <1>2, <2>2
      <3>2. CASE a.pct = NULL
            BY <1>2, <3>1, <3>2 DEF Less, Zero
      <3>3. CASE a.pct # NULL
        <4>1. a.pct \in Fraction /\ a.pct[1] > 0
              BY <1>9, <1>10, <3>3
        <4>2. p \in Nat /\ a.pct[1] >= 0
              BY <1>2, <2>2, <4>1 DEF Fraction
        <4>3. ~Less(a.pct, <<0, p>>)
              BY <4>1, <4>2, NothingLast
        <4> QED BY <3>1, <3>3, <4>3
      <3> QED BY <3>2, <3>3
    <2> QED BY <1>1, <1>2, <1>13, <2>1, <2>2
  <1>14. ASSUME p > 0, c < p
         PROVE  /\ a.pct = NULL => deeper
                /\ d[1] > 0 /\ ~Less(d, d)
    <2>1. 100 * (p - c) \in Int /\ 100 * (p - c) > 0
          BY <1>1, <1>2, <1>14
    <2>2. Less(Zero, d) /\ ~Less(d, d)
          BY <2>1, <1>2 DEF Less, Zero
    <2> QED BY <1>14, <2>1, <2>2
  <1> HIDE DEF n, k, p, c, d, t, D, E
  <1>15. Deepest(curve, k, t)
    <2>1. t.peak = IF k = 0 THEN curve[1].cumulative_net_pnl ELSE PeakAt(curve, k)
          BY <1>1, <1>4 DEF p
    <2>2. /\ t.pct = NULL <=> E = {}
          /\ E # {} => /\ t.pct \in E
                       /\ \A x \in E : ~Less(t.pct, x)
                       /\ t.pcts # <<>>
          /\ \A j \in 1..Len(t.pcts) : t.pcts[j] \in E
      <3>1. CASE ~(p > 0 /\ c < p)
            BY <3>1, <1>4, <1>6, <1>10, <1>13
      <3>2. CASE p > 0 /\ c < p
        <4>1. E = D \cup {d} /\ t.pcts = Append(a.pcts, d) /\ d \in Fraction
              BY <3>2, <1>4, <1>6, <1>8
        <4>2. t.pcts # <<>> /\ \A j \in 1..Len(t.pcts) : t.pcts[j] \in E
          <5> DEFINE q == a.pcts
                     r == Append(q, d)
          <5>1. q \in Seq(Fraction) /\ \A j \in 1..Len(q) : q[j] \in D
                BY <1>7, <1>10
          <5> HIDE DEF q
          <5>2. Len(r) = Len(q) + 1 /\ r # <<>> /\ Len(q) \in Nat
                BY <4>1, <5>1
          <5>3. \A j \in 1..Len(r) : r[j] = d \/ (j \in 1..Len(q) /\ r[j] = q[j])
                BY <4>1, <5>1, <5>2
          <5> HIDE DEF r
          <5>4. \A j \in 1..Len(r) : r[j] \in E
                BY <4>1, <5>1, <5>3
          <5> QED BY <4>1, <5>2, <5>4 DEF r, q
        <4>3. CASE deeper
          <5>1. t.pct = d
                BY <4>3, <1>4
          <5>2. ASSUME NEW x \in D PROVE ~Less(d, x)
            <6>1. a.pct \in Fraction /\ x \in Fraction /\ ~Less(a.pct, x) /\ Less(a.pct, d)
                  BY <1>9, <1>10, <1>11, <4>3
            <6> QED BY <4>1, <6>1, DeeperChain
          <5> QED BY <1>11, <1>14, <3>2, <4>1, <4>2, <5>1, <5>2
        <4>4. CASE ~deeper
          <5>1. a.pct # NULL /\ t.pct = a.pct /\ ~Less(a.pct, d)
                BY <4>4, <1>4, <1>14, <3>2
          <5> QED BY <1>10, <4>1, <4>2, <5>1
        <4> QED BY <4>3, <4>4
      <3> QED BY <3>1, <3>2
    <2> QED BY <2>1, <2>2 DEF Deepest, E
  <1> QED BY <1>12, <1>15 DEF t, k

Passed(g, curve) ==
    g = [i \in 0..Len(curve) |->
            IF i = 0 THEN [peak |-> curve[1].cumulative_net_pnl, pct |-> NULL, inr |-> 0,
                           pcts |-> <<>>]
            ELSE DrawdownStep(g[i - 1], curve[i])]

LEMMA StepTyped ==
    ASSUME NEW curve, IsCurve(curve), NEW a \in Fallen, NEW i \in 1..Len(curve)
    PROVE  DrawdownStep(a, curve[i]) \in Fallen
  <1> DEFINE c == curve[i].cumulative_net_pnl
             p == IF c > a.peak THEN c ELSE a.peak
             d == <<100 * (p - c), p>>
             deeper == p > 0 /\ Less(IF a.pct = NULL THEN Zero ELSE a.pct, d)
  <1>1. /\ a.peak \in Int /\ a.pct \in {NULL} \cup Fraction /\ a.inr \in Nat
        /\ a.pcts \in Seq(Fraction) /\ c \in Int
        BY DEF Fallen, IsCurve
  <1>2. p \in Int /\ p - c \in Int /\ p > 0 => d \in Fraction
        BY <1>1 DEF Fraction
  <1>3. DrawdownStep(a, curve[i])
           = [peak |-> p, pct |-> IF deeper THEN d ELSE a.pct,
              inr |-> IF deeper THEN p - c ELSE a.inr,
              pcts |-> IF p > 0 /\ c < p THEN Append(a.pcts, d) ELSE a.pcts]
        BY DEF DrawdownStep
  <1>4. p \in Int /\ p - c \in Nat
        BY <1>1
  <1> HIDE DEF p, c, d
  <1> QED BY <1>1, <1>2, <1>3, <1>4 DEF Fallen

LEMMA PassedExists ==
    ASSUME NEW curve, IsCurve(curve), Len(curve) > 0
    PROVE  \E g : Passed(g, curve)
  <1> DEFINE n == Len(curve)
             base == [peak |-> curve[1].cumulative_net_pnl, pct |-> NULL, inr |-> 0, pcts |-> <<>>]
             step == [q \in Fallen \X (1..n) |-> DrawdownStep(q[1], curve[q[2]])]
  <1>1. n \in Nat /\ base \in Fallen
        BY DEF IsCurve, Fallen
  <1>2. \A s \in Fallen, i \in 1..n : step[<<s, i>>] = DrawdownStep(s, curve[i])
        OBVIOUS
  <1>3. \A s \in Fallen, i \in 1..n : step[<<s, i>>] \in Fallen
    <2> HIDE DEF step
    <2> QED BY <1>2, StepTyped
  <1> HIDE DEF n, base, step
  <1>4. PICK g : Iterated(g, base, step, n)
        BY <1>1, IteratedExists
  <1>5. /\ g = [i \in 0..n |-> g[i]] /\ g[0] = base
        /\ \A i \in 0..n : g[i] \in Fallen
        /\ \A i \in 1..n : g[i] = step[<<g[i - 1], i>>]
    <2>1. Steps(Fallen, base, step, n, g)
          BY <1>1, <1>3, <1>4 DEF Steps
    <2>2. Stepped(Fallen, base, step, n, g)
          BY <2>1, IteratedIn
    <2> QED BY <2>2 DEF Stepped
  <1>6. ASSUME NEW i \in 1..n PROVE g[i] = DrawdownStep(g[i - 1], curve[i])
    <2>1. i - 1 \in 0..n
          BY <1>1
    <2> QED BY <1>2, <1>5, <2>1
  <1>7. \A i \in 0..n : g[i] = IF i = 0 THEN base ELSE DrawdownStep(g[i - 1], curve[i])
    <2>1. \A i \in 0..n : i = 0 \/ i \in 1..n
          BY <1>1
    <2> QED BY <1>5, <1>6, <2>1
  <1>8. g = [i \in 0..n |-> IF i = 0 THEN base ELSE DrawdownStep(g[i - 1], curve[i])]
        BY <1>5, <1>7
  <1> QED BY <1>8 DEF Passed, n, base

LEMMA PassedDeepest ==
    ASSUME NEW curve, IsCurve(curve), Len(curve) > 0, NEW g, Passed(g, curve)
    PROVE  g[Len(curve)] \in Fallen /\ Deepest(curve, Len(curve), g[Len(curve)])
  <1> DEFINE n == Len(curve)
             base == [peak |-> curve[1].cumulative_net_pnl, pct |-> NULL, inr |-> 0, pcts |-> <<>>]
             T == {i \in 0..n : g[i] \in Fallen /\ Deepest(curve, i, g[i])}
  <1>1. n \in Nat /\ base \in Fallen /\ 0 \in 0..n
        BY DEF IsCurve, Fallen
  <1>2. \A i \in 0..n : g[i] = IF i = 0 THEN base ELSE DrawdownStep(g[i - 1], curve[i])
        BY DEF Passed
  <1>3. Deepest(curve, 0, base)
    <2>1. DropsTo(curve, 0) = {}
          BY DEF DropsTo
    <2> QED BY <2>1 DEF Deepest
  <1>4. 0 \in T
    <2> HIDE DEF base, n
    <2> QED BY <1>1, <1>2, <1>3
  <1>5. ASSUME NEW i \in 0..n-1, i \in T PROVE i + 1 \in T
    <2>1. i + 1 \in 0..n /\ i + 1 # 0 /\ (i + 1) - 1 = i
          BY <1>1
    <2>2. g[i + 1] = DrawdownStep(g[i], curve[i + 1])
          BY <1>2, <2>1
    <2>3. g[i] \in Fallen /\ Deepest(curve, i, g[i])
          BY <1>5
    <2>4. /\ DrawdownStep(g[i], curve[i + 1]) \in Fallen
          /\ Deepest(curve, i + 1, DrawdownStep(g[i], curve[i + 1]))
          BY <2>3, DeepestSteps
    <2> QED BY <2>1, <2>2, <2>4
  <1>6. \A i \in 0..n : i \in T
    <2> HIDE DEF T, n
    <2> QED BY <1>1, <1>4, <1>5, Along
  <1>7. n \in T
        BY <1>1, <1>6
  <1> QED BY <1>7

\* g adds up the falls one by one.
Summed(g, s) == g = [i \in 0..Len(s) |-> IF i = 0 THEN Zero ELSE Plus(g[i - 1], s[i])]

LEMMA PlusTyped ==
    ASSUME NEW x \in Fraction, NEW y \in Fraction
    PROVE  Plus(x, y) \in Fraction
  <1>1. /\ x[1] \in Int /\ y[1] \in Int
        /\ x[2] \in Nat /\ y[2] \in Nat /\ x[2] > 0 /\ y[2] > 0
        BY DEF Fraction
  <1>2. x[2] * y[2] \in Nat /\ x[2] * y[2] > 0
        BY <1>1
  <1>3. x[1] * y[2] + y[1] * x[2] \in Int
        BY <1>1
  <1> QED BY <1>2, <1>3 DEF Plus, Fraction

LEMMA SummedExists ==
    ASSUME NEW s \in Seq(Fraction)
    PROVE  \E g : Summed(g, s) /\ \A i \in 0..Len(s) : g[i] \in Fraction
  <1> DEFINE n == Len(s)
             step == [q \in Fraction \X (1..n) |-> Plus(q[1], s[q[2]])]
  <1>1. n \in Nat /\ Zero \in Fraction
        BY DEF Fraction, Zero
  <1>2. \A x \in Fraction, i \in 1..n : step[<<x, i>>] = Plus(x, s[i])
        OBVIOUS
  <1>3. \A x, y \in Fraction : Plus(x, y) \in Fraction
        BY PlusTyped
  <1>4. \A x \in Fraction, i \in 1..n : step[<<x, i>>] \in Fraction
    <2>1. \A i \in 1..n : s[i] \in Fraction
          OBVIOUS
    <2> HIDE DEF step
    <2> QED BY <1>2, <1>3, <2>1
  <1> HIDE DEF n, step
  <1>5. PICK g : Iterated(g, Zero, step, n)
        BY <1>1, IteratedExists
  <1>6. /\ g = [i \in 0..n |-> g[i]] /\ g[0] = Zero
        /\ \A i \in 0..n : g[i] \in Fraction
        /\ \A i \in 1..n : g[i] = step[<<g[i - 1], i>>]
    <2>1. Steps(Fraction, Zero, step, n, g)
          BY <1>1, <1>4, <1>5 DEF Steps
    <2>2. Stepped(Fraction, Zero, step, n, g)
          BY <2>1, IteratedIn
    <2> QED BY <2>2 DEF Stepped
  <1>7. ASSUME NEW i \in 1..n PROVE g[i] = Plus(g[i - 1], s[i])
    <2>1. i - 1 \in 0..n
          BY <1>1
    <2> QED BY <1>2, <1>6, <2>1
  <1>8. \A i \in 0..n : g[i] = IF i = 0 THEN Zero ELSE Plus(g[i - 1], s[i])
    <2>1. \A i \in 0..n : i = 0 \/ i \in 1..n
          BY <1>1
    <2> QED BY <1>6, <1>7, <2>1
  <1>9. g = [i \in 0..n |-> IF i = 0 THEN Zero ELSE Plus(g[i - 1], s[i])]
        BY <1>6, <1>8
  <1> QED BY <1>6, <1>9 DEF Summed, n

\* A fraction over a number that is not zero.
LEMMA OverCount ==
    ASSUME NEW x \in Fraction, NEW n \in Nat, n > 0
    PROVE  Over(x, <<n, 1>>) = <<x[1], x[2] * n>> /\ Over(x, <<n, 1>>) \in Fraction
  <1> DEFINE a == x[1]  b == x[2]
  <1>1. a \in Int /\ b \in Nat /\ b > 0
        BY DEF Fraction
  <1>2. Over(x, <<n, 1>>) = Norm(a * 1, b * n)
        BY DEF Over
  <1> HIDE DEF a, b
  <1>3. a * 1 = a /\ b * n > 0 /\ b * n \in Nat
        BY <1>1
  <1>4. Over(x, <<n, 1>>) = <<a, b * n>>
        BY <1>2, <1>3 DEF Norm
  <1> QED BY <1>1, <1>3, <1>4 DEF a, b, Fraction

LEMMA FractionSumIs ==
    ASSUME NEW s \in Seq(Fraction)
    PROVE  \E g : /\ Summed(g, s) /\ FractionSum(s) = g[Len(s)]
                  /\ FractionSum(s) \in Fraction
  <1> DEFINE g == CHOOSE h : Summed(h, s)
  <1>1. PICK h : Summed(h, s) /\ \A i \in 0..Len(s) : h[i] \in Fraction
        BY SummedExists
  <1>2. Summed(g, s)
        BY <1>1
  <1>3. FractionSum(s) = g[Len(s)]
        BY DEF FractionSum, Summed
  <1> HIDE DEF g
  <1> DEFINE n == Len(s)
             T == {i \in 0..n : g[i] = h[i]}
  <1>4. n \in Nat /\ 0 \in 0..n /\ n \in 0..n
        OBVIOUS
  <1>5. /\ \A i \in 0..n : g[i] = IF i = 0 THEN Zero ELSE Plus(g[i - 1], s[i])
        /\ \A i \in 0..n : h[i] = IF i = 0 THEN Zero ELSE Plus(h[i - 1], s[i])
        BY <1>1, <1>2 DEF Summed
  <1>6. 0 \in T
        BY <1>4, <1>5
  <1>7. ASSUME NEW i \in 0..n-1, i \in T PROVE i + 1 \in T
    <2>1. i + 1 \in 0..n /\ i + 1 # 0 /\ (i + 1) - 1 = i /\ g[i] = h[i]
          BY <1>4, <1>7
    <2>2. g[i + 1] = Plus(g[i], s[i + 1]) /\ h[i + 1] = Plus(h[i], s[i + 1])
          BY <1>5, <2>1
    <2> QED BY <2>1, <2>2
  <1>8. \A i \in 0..n : i \in T
    <2> HIDE DEF T, n
    <2> QED BY <1>4, <1>6, <1>7, Along
  <1>9. g[n] = h[n]
        BY <1>4, <1>8
  <1> QED BY <1>1, <1>2, <1>3, <1>4, <1>9

LEMMA FractionMeanTyped ==
    ASSUME NEW s \in Seq(Fraction)
    PROVE  FractionMean(s) \in {NULL} \cup Fraction /\ (s # <<>> => FractionMean(s) \in Fraction)
  <1> DEFINE x == FractionSum(s)
             n == Len(s)
  <1>1. x \in Fraction
        BY FractionSumIs
  <1>2. CASE s = <<>>
        BY <1>2 DEF FractionMean
  <1>3. CASE s # <<>>
    <2>1. n \in Nat /\ n > 0
          BY <1>3
    <2>2. FractionMean(s) = Over(x, <<n, 1>>)
          BY <1>3 DEF FractionMean
    <2> HIDE DEF x, n
    <2> QED BY <1>1, <2>1, <2>2, OverCount
  <1> QED BY <1>2, <1>3

\* i falls, none deeper than m, add up to at most i times m.
AtMost(x, i, m) == x \in Fraction /\ x[1] * m[2] <= (i * m[1]) * x[2]

LEMMA AtMostSteps ==
    ASSUME NEW m \in Fraction, NEW i \in Nat, NEW x, AtMost(x, i, m),
           NEW y \in Fraction, ~Less(m, y)
    PROVE  AtMost(Plus(x, y), i + 1, m)
  <1> DEFINE a == x[1]  b == x[2]  c == y[1]  d == y[2]  e == m[1]  f == m[2]
  <1>1. /\ a \in Int /\ c \in Int /\ e \in Int
        /\ b \in Nat /\ d \in Nat /\ f \in Nat /\ b > 0 /\ d > 0 /\ f > 0
        BY DEF Fraction, AtMost
  <1>2. a * f <= (i * e) * b /\ ~(e * d < c * f)
        BY DEF Less, AtMost
  <1> SUFFICES /\ a * d + c * b \in Int /\ b * d \in Nat /\ b * d > 0
               /\ (a * d + c * b) * f <= ((i + 1) * e) * (b * d)
      BY DEF AtMost, Plus, Fraction
  <1> HIDE DEF a, b, c, d, e, f
  <1>3. a * d + c * b \in Int /\ b * d \in Nat /\ b * d > 0
        BY <1>1
  <1> DEFINE u == a * f  v == (i * e) * b  w == c * f  z == e * d
  <1>4. u \in Int /\ v \in Int /\ w \in Int /\ z \in Int /\ u <= v /\ w <= z
        BY <1>1, <1>2
  <1>5. u * d <= v * d /\ w * b <= z * b
    <2> HIDE DEF u, v, w, z
    <2> QED BY <1>1, <1>4
  <1>6. u * d \in Int /\ v * d \in Int /\ w * b \in Int /\ z * b \in Int
    <2> HIDE DEF u, v, w, z
    <2> QED BY <1>1, <1>4
  <1>7. (a * d + c * b) * f = u * d + w * b
        BY <1>1
  <1>8. ((i + 1) * e) * (b * d) = v * d + z * b
        BY <1>1
  <1> HIDE DEF u, v, w, z
  <1>9. u * d + w * b <= v * d + z * b
        BY <1>5, <1>6
  <1> QED BY <1>3, <1>7, <1>8, <1>9

LEMMA MeanFall ==
    ASSUME NEW s \in Seq(Fraction), s # <<>>, NEW m \in Fraction,
           \A k \in 1..Len(s) : ~Less(m, s[k])
    PROVE  ~Less(m, FractionMean(s))
  <1>0. PICK g : Summed(g, s) /\ FractionSum(s) = g[Len(s)]
        BY FractionSumIs
  <1> DEFINE n == Len(s)
             T == {i \in 0..n : AtMost(g[i], i, m)}
  <1>1. n \in Nat /\ n > 0 /\ 0 \in 0..n /\ \A i \in 1..n : s[i] \in Fraction
        OBVIOUS
  <1>2. \A i \in 0..n : g[i] = IF i = 0 THEN Zero ELSE Plus(g[i - 1], s[i])
        BY <1>0 DEF Summed
  <1>3. AtMost(Zero, 0, m)
    <2>1. m[1] \in Int /\ m[2] \in Int
          BY DEF Fraction
    <2>2. 0 * m[2] = 0 /\ 0 * m[1] = 0
          BY <2>1
    <2> QED BY <2>2 DEF AtMost, Zero, Fraction
  <1>4. 0 \in T
    <2> HIDE DEF n
    <2> QED BY <1>1, <1>2, <1>3
  <1>5. ASSUME NEW i \in 0..n-1, i \in T PROVE i + 1 \in T
    <2>1. i \in Nat /\ i + 1 \in 0..n /\ i + 1 \in 1..n /\ i + 1 # 0 /\ (i + 1) - 1 = i
          BY <1>1
    <2>2. g[i + 1] = Plus(g[i], s[i + 1])
          BY <1>2, <2>1
    <2>3. AtMost(g[i], i, m) /\ s[i + 1] \in Fraction /\ ~Less(m, s[i + 1])
          BY <1>1, <1>5, <2>1
    <2>4. AtMost(Plus(g[i], s[i + 1]), i + 1, m)
          BY <2>1, <2>3, AtMostSteps
    <2> QED BY <2>1, <2>2, <2>4
  <1>6. \A i \in 0..n : i \in T
    <2> HIDE DEF T, n
    <2> QED BY <1>1, <1>4, <1>5, Along
  <1>7. AtMost(g[n], n, m)
        BY <1>1, <1>6
  <1> DEFINE a == g[n][1]  b == g[n][2]  e == m[1]  f == m[2]
  <1>8. /\ a \in Int /\ e \in Int
        /\ b \in Nat /\ f \in Nat /\ b > 0 /\ f > 0
        /\ a * f <= (n * e) * b
        BY <1>7 DEF Fraction, AtMost
  <1>9. FractionMean(s) = <<a, b * n>>
    <2>1. FractionMean(s) = Over(g[n], <<n, 1>>)
          BY <1>0 DEF FractionMean
    <2>2. g[n] \in Fraction
          BY <1>7 DEF AtMost
    <2> QED BY <1>1, <2>1, <2>2, OverCount
  <1> HIDE DEF a, b, e, f, n
  <1>10. (n * e) * b = e * (b * n)
         BY <1>1, <1>8
  <1>11. ~(e * (b * n) < a * f)
    <2>1. a * f \in Int /\ e * (b * n) \in Int
          BY <1>1, <1>8
    <2> QED BY <2>1, <1>8, <1>10
  <1> QED BY <1>9, <1>11 DEF Less, e, f, n

\* The pass finds the deepest fall, and neither the last one nor the mean is deeper.
LEMMA DrawdownFound ==
    ASSUME NEW curve, IsCurve(curve)
    PROVE  LET dd == compute_drawdown_stats(curve)
               drops == Drops(curve)
           IN  /\ dd.max_drawdown_pct = NULL <=> drops = {}
               /\ drops # {} => /\ \E d \in drops : Same(d, dd.max_drawdown_pct)
                                /\ \A d \in drops : ~Less(dd.max_drawdown_pct, d)
                                /\ ~Less(dd.max_drawdown_pct, dd.current_drawdown_pct)
                                /\ ~Less(dd.max_drawdown_pct, dd.avg_drawdown_pct)
  <1> DEFINE n == Len(curve)
             dd == compute_drawdown_stats(curve)
             drops == Drops(curve)
  <1>1. n \in Nat /\ DOMAIN curve = 1..n /\ drops = DropsTo(curve, n)
        BY DEF IsCurve, Drops, DropsTo, Under, DropAt
  <1>2. CASE curve = <<>>
    <2>1. n = 0
          BY <1>2
    <2>2. drops = {}
          BY <1>1, <2>1 DEF DropsTo
    <2>3. dd.max_drawdown_pct = NULL
          BY <1>2 DEF compute_drawdown_stats
    <2> HIDE DEF drops, dd
    <2>4. /\ dd.max_drawdown_pct = NULL <=> drops = {}
          /\ drops = {}
          BY <2>2, <2>3
    <2> QED BY <2>4 DEF drops, dd
  <1>3. CASE curve # <<>> /\ n > 0
    <2> DEFINE after == CHOOSE g : Passed(g, curve)
               a == after[n]
               last == curve[n].cumulative_net_pnl
               under == a.peak > 0 /\ last < a.peak
    <2>1. dd = [max_drawdown_pct |-> a.pct,
                max_drawdown_inr |-> IF a.pct = NULL THEN NULL ELSE a.inr,
                avg_drawdown_pct |-> FractionMean(a.pcts),
                current_drawdown_pct |->
                    IF under THEN <<100 * (a.peak - last), a.peak>> ELSE Zero,
                current_drawdown_inr |-> IF under THEN a.peak - last ELSE 0]
          BY <1>3 DEF compute_drawdown_stats, Passed, Last
    <2>2. Passed(after, curve)
          BY <1>3, PassedExists
    <2> HIDE DEF after
    <2>3. a \in Fallen /\ Deepest(curve, n, a)
          BY <1>3, <2>2, PassedDeepest
    <2>4. a.pcts \in Seq(Fraction)
          BY <2>3 DEF Fallen
    <2> HIDE DEF dd, a, drops
    <2>5. /\ a.peak = PeakAt(curve, n)
          /\ a.pct = NULL <=> drops = {}
          /\ drops # {} => /\ a.pct \in drops
                           /\ \A d \in drops : ~Less(a.pct, d)
                           /\ a.pcts # <<>>
          /\ \A k \in 1..Len(a.pcts) : a.pcts[k] \in drops
          BY <1>1, <1>3, <2>3 DEF Deepest
    <2>6. ASSUME drops # {}
          PROVE  /\ \E d \in drops : Same(d, dd.max_drawdown_pct)
                 /\ \A d \in drops : ~Less(dd.max_drawdown_pct, d)
                 /\ ~Less(dd.max_drawdown_pct, dd.current_drawdown_pct)
                 /\ ~Less(dd.max_drawdown_pct, dd.avg_drawdown_pct)
      <3>1. a.pct \in Fraction /\ a.pct[1] > 0
        <4>1. PICK j \in 1..n : Under(curve, j) /\ a.pct = DropAt(curve, j)
              BY <1>1, <2>5, <2>6 DEF DropsTo
        <4> QED BY <1>3, <4>1, DropsTyped
      <3>2. dd.max_drawdown_pct = a.pct
            BY <2>1
      <3>3. Same(a.pct, a.pct)
            BY DEF Same
      <3>4. ~Less(a.pct, dd.current_drawdown_pct)
        <4>1. CASE under
          <5>1. n \in 1..n
                BY <1>1, <1>3
          <5>2. PeakAt(curve, n) \in Int /\ last \in Int
                BY <1>3, <5>1, PeakSteps DEF IsPeak, IsCurve
          <5>3. Under(curve, n)
                BY <4>1, <2>5, <5>2 DEF Under
          <5>4. DropAt(curve, n) \in drops
                BY <1>1, <5>1, <5>3 DEF DropsTo
          <5>5. dd.current_drawdown_pct = DropAt(curve, n)
                BY <2>1, <2>5, <4>1 DEF DropAt
          <5> QED BY <2>5, <2>6, <5>4, <5>5
        <4>2. CASE ~under
          <5>1. dd.current_drawdown_pct = <<0, 1>>
                BY <2>1, <4>2 DEF Zero
          <5>2. a.pct[1] >= 0 /\ 1 \in Nat
                BY <3>1 DEF Fraction
          <5>3. ~Less(a.pct, <<0, 1>>)
                BY <3>1, <5>2, NothingLast
          <5> QED BY <5>1, <5>3
        <4> QED BY <4>1, <4>2
      <3>5. ~Less(a.pct, dd.avg_drawdown_pct)
        <4>1. a.pcts # <<>> /\ \A k \in 1..Len(a.pcts) : ~Less(a.pct, a.pcts[k])
              BY <2>5, <2>6
        <4>2. ~Less(a.pct, FractionMean(a.pcts))
              BY <2>4, <3>1, <4>1, MeanFall
        <4> QED BY <2>1, <4>2
      <3> QED BY <2>5, <2>6, <3>2, <3>3, <3>4, <3>5
    <2>7. dd.max_drawdown_pct = NULL <=> drops = {}
          BY <2>1, <2>5
    <2> QED BY <2>6, <2>7 DEF dd, drops
  <1>4. curve # <<>> => n > 0
        BY <1>1 DEF IsCurve
  <1> QED BY <1>2, <1>3, <1>4
-----------------------------------------------------------------------------
(* Streaks. *)

IsSeries(pnls) == pnls \in Seq(Int)

\* The last k of the first i results are wins.
WonLast(pnls, i, k) == \A j \in i-k+1..i : pnls[j] > 0

\* The lengths of the runs of wins within the first i results.
RunsTo(pnls, i) ==
    {w[2] - w[1] + 1 : w \in {v \in (1..i) \X (1..i) :
                                 v[1] <= v[2] /\ \A k \in v[1]..v[2] : pnls[k] > 0}}

StreakState == [cw : Nat, cl : Nat, wins : Seq(Nat), losses : Seq(Nat)]

\* The open streak is the longest run up to here, the closed ones are runs, and
\* no run is longer than all of these.
LongestSoFar(pnls, i, a) ==
    /\ a \in StreakState /\ a.cw <= i /\ WonLast(pnls, i, a.cw)
    /\ a.cw < i => pnls[i - a.cw] <= 0
    /\ a.cw = 0 \/ a.cl = 0
    /\ \A k \in 1..Len(a.wins) : a.wins[k] \in RunsTo(pnls, i)
    /\ \A r \in RunsTo(pnls, i) : r <= a.cw \/ \E k \in 1..Len(a.wins) : r <= a.wins[k]

LEMMA RunGrows ==
    ASSUME NEW pnls, IsSeries(pnls), NEW i \in 0..Len(pnls)-1, NEW r
    PROVE  /\ r \in RunsTo(pnls, i) => r \in RunsTo(pnls, i + 1) /\ r \in 1..i
           /\ r \in RunsTo(pnls, i + 1) <=>
                 \/ r \in RunsTo(pnls, i)
                 \/ r \in 1..i+1 /\ WonLast(pnls, i + 1, r)
  <1> DEFINE n == Len(pnls)
             W(j) == {v \in (1..j) \X (1..j) :
                        v[1] <= v[2] /\ \A k \in v[1]..v[2] : pnls[k] > 0}
  <1>1. n \in Nat /\ i \in Nat /\ i + 1 \in Nat
        BY DEF IsSeries
  <1>2. ASSUME NEW x \in 1..i, NEW y \in 1..i
        PROVE  x \in 1..i+1 /\ y \in 1..i+1 /\ (x <= y => y - x + 1 \in 1..i)
        OBVIOUS
  <1>3. r \in RunsTo(pnls, i) =>
           \E x, y \in 1..i : x <= y /\ r = y - x + 1 /\ \A k \in x..y : pnls[k] > 0
        BY DEF RunsTo
  <1>4. ASSUME NEW j \in Nat, NEW x \in 1..j, NEW y \in 1..j, x <= y, r = y - x + 1,
               \A k \in x..y : pnls[k] > 0
        PROVE  r \in RunsTo(pnls, j)
    <2>1. <<x, y>> \in W(j)
          BY <1>4
    <2>2. r = <<x, y>>[2] - <<x, y>>[1] + 1
          BY <1>4
    <2> QED BY <2>1, <2>2 DEF RunsTo
  <1>5. r \in RunsTo(pnls, i) => r \in RunsTo(pnls, i + 1) /\ r \in 1..i
        BY <1>1, <1>2, <1>3, <1>4
  <1>6. ASSUME r \in RunsTo(pnls, i + 1)
        PROVE  r \in RunsTo(pnls, i) \/ (r \in 1..i+1 /\ WonLast(pnls, i + 1, r))
    <2>1. PICK x \in 1..i+1, y \in 1..i+1 :
                  x <= y /\ r = y - x + 1 /\ \A k \in x..y : pnls[k] > 0
          BY <1>6 DEF RunsTo
    <2>2. CASE y = i + 1
      <3>1. (i + 1) - r + 1 = x /\ r \in 1..i+1
            BY <1>1, <2>1, <2>2
      <3> QED BY <2>1, <2>2, <3>1 DEF WonLast
    <2>3. CASE y # i + 1
      <3>1. x \in 1..i /\ y \in 1..i
            BY <1>1, <2>1, <2>3
      <3> QED BY <1>1, <1>4, <2>1, <3>1
    <2> QED BY <2>2, <2>3
  <1>7. ASSUME r \in 1..i+1, WonLast(pnls, i + 1, r)
        PROVE  r \in RunsTo(pnls, i + 1)
    <2>1. /\ (i + 1) - r + 1 \in 1..i+1 /\ i + 1 \in 1..i+1 /\ (i + 1) - r + 1 <= i + 1
          /\ r = (i + 1) - ((i + 1) - r + 1) + 1
          BY <1>1, <1>7
    <2> QED BY <1>1, <1>4, <1>7, <2>1 DEF WonLast
  <1> QED BY <1>5, <1>6, <1>7

LEMMA LongestSteps ==
    ASSUME NEW pnls, IsSeries(pnls), NEW i \in 0..Len(pnls)-1,
           NEW a, LongestSoFar(pnls, i, a)
    PROVE  LongestSoFar(pnls, i + 1, StreakStep(a, pnls[i + 1]))
  <1> DEFINE x == pnls[i + 1]
             t == StreakStep(a, x)
  <1>1. Len(pnls) \in Nat /\ i \in Nat /\ i + 1 \in 1..Len(pnls) /\ x \in Int
        BY DEF IsSeries
  <1>2. /\ a.cw \in Nat /\ a.cl \in Nat /\ a.wins \in Seq(Nat) /\ a.losses \in Seq(Nat)
        /\ a.cw <= i /\ WonLast(pnls, i, a.cw)
        /\ a.cw < i => pnls[i - a.cw] <= 0
        /\ \A k \in 1..Len(a.wins) : a.wins[k] \in RunsTo(pnls, i)
        /\ \A r \in RunsTo(pnls, i) : r <= a.cw \/ \E k \in 1..Len(a.wins) : r <= a.wins[k]
        BY DEF LongestSoFar, StreakState
  <1>3. t = [cw |-> IF x > 0 THEN a.cw + 1 ELSE 0,
             cl |-> IF x < 0 THEN a.cl + 1 ELSE 0,
             wins |-> IF x <= 0 /\ a.cw > 0 THEN Append(a.wins, a.cw) ELSE a.wins,
             losses |-> IF x >= 0 /\ a.cl > 0 THEN Append(a.losses, a.cl) ELSE a.losses]
        BY DEF StreakStep
  <1>4. \A j \in 1..i : pnls[j] \in Int
        BY <1>1 DEF IsSeries
  <1> HIDE DEF t
  <1>5. t \in StreakState
        BY <1>1, <1>2, <1>3 DEF StreakState
  <1>6. t.cw = 0 \/ t.cl = 0
        BY <1>1, <1>3
  <1>7. t.cw <= i + 1 /\ WonLast(pnls, i + 1, t.cw) /\ (t.cw < i + 1 => pnls[(i + 1) - t.cw] <= 0)
    <2>1. CASE x > 0
      <3>1. t.cw = a.cw + 1 /\ (i + 1) - (a.cw + 1) = i - a.cw
            BY <1>1, <1>2, <1>3, <2>1
      <3>2. \A j \in (i + 1)-(a.cw + 1)+1..i+1 : j \in i-a.cw+1..i \/ j = i + 1
        <4> DEFINE lo == i - a.cw + 1
        <4>1. lo \in Int /\ (i + 1) - (a.cw + 1) + 1 = lo
          <5> HIDE DEF x
          <5>1. i \in Int /\ a.cw \in Int
                BY <1>1, <1>2
          <5> QED BY <5>1
        <4> HIDE DEF lo
        <4>2. \A j \in lo..i+1 : j \in lo..i \/ j = i + 1
              BY <1>1, <4>1
        <4> QED BY <4>1, <4>2 DEF lo
      <3>3. WonLast(pnls, i + 1, a.cw + 1)
            BY <1>2, <2>1, <3>2 DEF WonLast
      <3> QED BY <1>1, <1>2, <3>1, <3>3
    <2>2. CASE ~(x > 0)
      <3>1. t.cw = 0 /\ x <= 0 /\ (i + 1) - 0 = i + 1
            BY <1>1, <1>3, <2>2
      <3>2. WonLast(pnls, i + 1, 0)
            BY <1>1 DEF WonLast
      <3> QED BY <1>1, <3>1, <3>2
    <2> QED BY <2>1, <2>2
  <1>8. ASSUME NEW k \in 1..Len(t.wins) PROVE t.wins[k] \in RunsTo(pnls, i + 1)
    <2>1. t.wins[k] \in RunsTo(pnls, i)
      <3>1. CASE x <= 0 /\ a.cw > 0
        <4>1. t.wins = Append(a.wins, a.cw)
              BY <1>3, <3>1
        <4>2. a.cw \in RunsTo(pnls, i)
          <5>1. <<i - a.cw + 1, i>> \in (1..i) \X (1..i) /\ i - a.cw + 1 <= i
                BY <1>1, <1>2, <3>1
          <5>2. a.cw = <<i - a.cw + 1, i>>[2] - <<i - a.cw + 1, i>>[1] + 1
                BY <1>1, <1>2
          <5> QED BY <1>2, <5>1, <5>2 DEF RunsTo, WonLast
        <4> QED BY <1>2, <4>1, <4>2
      <3>2. CASE ~(x <= 0 /\ a.cw > 0)
            BY <1>2, <1>3, <3>2
      <3> QED BY <3>1, <3>2
    <2> QED BY <2>1, RunGrows
  <1>9. ASSUME NEW r \in RunsTo(pnls, i + 1)
        PROVE  r <= t.cw \/ \E k \in 1..Len(t.wins) : r <= t.wins[k]
    <2>1. CASE r \in RunsTo(pnls, i)
      <3>1. r \in 1..i
            BY <2>1, RunGrows
      <3>2. CASE \E k \in 1..Len(a.wins) : r <= a.wins[k]
        <4>1. PICK k \in 1..Len(a.wins) : r <= a.wins[k]
              BY <3>2
        <4>2. k \in 1..Len(t.wins) /\ t.wins[k] = a.wins[k]
              BY <1>2, <1>3
        <4> QED BY <4>1, <4>2
      <3>3. CASE r <= a.cw /\ x > 0
            BY <1>1, <1>2, <1>3, <3>1, <3>3
      <3>4. CASE r <= a.cw /\ ~(x > 0)
        <4>1. x <= 0 /\ a.cw > 0
              BY <1>1, <1>2, <3>1, <3>4
        <4>2. t.wins = Append(a.wins, a.cw)
              BY <1>3, <4>1
        <4>3. Len(a.wins) + 1 \in 1..Len(t.wins) /\ t.wins[Len(a.wins) + 1] = a.cw
              BY <1>2, <4>2
        <4> QED BY <3>4, <4>3
      <3> QED BY <1>2, <2>1, <3>2, <3>3, <3>4
    <2>2. CASE r \in 1..i+1 /\ WonLast(pnls, i + 1, r)
      <3>1. x > 0
        <4>1. i + 1 \in (i + 1)-r+1..i+1
              BY <1>1, <2>2
        <4> QED BY <2>2, <4>1 DEF WonLast
      <3>2. t.cw = a.cw + 1
            BY <1>3, <3>1
      <3>3. ASSUME r > a.cw + 1 PROVE FALSE
        <4>1. a.cw < i /\ i - a.cw \in (i + 1)-r+1..i+1 /\ i - a.cw \in 1..i
          <5> HIDE DEF x
          <5>1. i \in Int /\ a.cw \in Nat /\ r \in 1..i+1
                BY <1>1, <1>2, <2>2
          <5>2. a.cw < i
                BY <3>3, <5>1
          <5>3. i - a.cw >= (i + 1)-r+1
                BY <3>3, <5>1
          <5> QED BY <5>1, <5>2, <5>3
        <4> QED BY <1>2, <1>4, <2>2, <4>1 DEF WonLast
      <3> QED BY <1>2, <2>2, <3>2, <3>3
    <2> QED BY <2>1, <2>2, RunGrows
  <1>10. LongestSoFar(pnls, i + 1, t)
         BY <1>5, <1>6, <1>7, <1>8, <1>9 DEF LongestSoFar
  <1> QED BY <1>10 DEF t

LEMMA StreaksEnd ==
    ASSUME NEW pnls, IsSeries(pnls), NEW g, Streaked(g, pnls, Len(pnls))
    PROVE  LongestSoFar(pnls, Len(pnls), g[Len(pnls)])
  <1> DEFINE n == Len(pnls)
             none == [cw |-> 0, cl |-> 0, wins |-> <<>>, losses |-> <<>>]
             T == {i \in 0..n : LongestSoFar(pnls, i, g[i])}
  <1>1. n \in Nat /\ 0 \in 0..n /\ n \in 0..n
        BY DEF IsSeries
  <1>2. \A i \in 0..n : g[i] = IF i = 0 THEN none ELSE StreakStep(g[i - 1], pnls[i])
        BY DEF Streaked
  <1>3. LongestSoFar(pnls, 0, none)
    <2>1. RunsTo(pnls, 0) = {} /\ WonLast(pnls, 0, 0) /\ none \in StreakState
          BY DEF RunsTo, WonLast, StreakState
    <2> QED BY <2>1 DEF LongestSoFar
  <1>4. 0 \in T
    <2>1. g[0] = none
          BY <1>1, <1>2
    <2> QED BY <1>1, <1>3, <2>1
  <1>5. ASSUME NEW i \in 0..n-1, i \in T PROVE i + 1 \in T
    <2>1. i + 1 \in 0..n /\ i + 1 # 0 /\ (i + 1) - 1 = i
          BY <1>1
    <2>2. g[i + 1] = StreakStep(g[i], pnls[i + 1])
          BY <1>2, <2>1
    <2>3. LongestSoFar(pnls, i + 1, StreakStep(g[i], pnls[i + 1]))
          BY <1>5, LongestSteps
    <2> QED BY <2>1, <2>2, <2>3
  <1>6. \A i \in 0..n : i \in T
    <2> HIDE DEF T, n
    <2> QED BY <1>1, <1>4, <1>5, Along
  <1> QED BY <1>1, <1>6

\* The open streak and the closed ones give the longest run of wins.
LEMMA StreaksFound ==
    ASSUME NEW pnls, IsSeries(pnls)
    PROVE  LET s == compute_streak_stats(pnls)
           IN  /\ s.max_win_streak = Max({0} \cup WinRuns(pnls))
               /\ s.current_win_streak <= s.max_win_streak
               /\ s.current_win_streak = 0 \/ s.current_loss_streak = 0
  <1> DEFINE n == Len(pnls)
             s == compute_streak_stats(pnls)
             g == CHOOSE h : Streaked(h, pnls, n)
             a == g[n]
             wins == IF a.cw > 0 THEN Append(a.wins, a.cw) ELSE a.wins
             closed == {0} \cup {wins[i] : i \in DOMAIN wins}
             R == RunsTo(pnls, n)
  <1>1. n \in Nat /\ DOMAIN pnls = 1..n /\ 0 \in 0..n /\ n \in 0..n
        BY DEF IsSeries
  <1>2. R = WinRuns(pnls)
        BY <1>1 DEF RunsTo, WinRuns
  <1>3. /\ s.current_win_streak = a.cw /\ s.current_loss_streak = a.cl
        /\ s.max_win_streak = Max(closed)
        BY DEF compute_streak_stats, Streaked
  <1>4. Streaked(g, pnls, n)
        BY <1>1, StreakedExists
  <1> HIDE DEF g
  <1>5. LongestSoFar(pnls, n, a)
        BY <1>4, StreaksEnd
  <1> HIDE DEF s, a, R, n
  <1>6. /\ a.cw \in Nat /\ a.wins \in Seq(Nat) /\ a.cw <= n /\ WonLast(pnls, n, a.cw)
        /\ a.cw = 0 \/ a.cl = 0
        /\ \A k \in 1..Len(a.wins) : a.wins[k] \in R
        /\ \A r \in R : r <= a.cw \/ \E k \in 1..Len(a.wins) : r <= a.wins[k]
        BY <1>5 DEF LongestSoFar, StreakState, R
  <1>7. \A r \in R : r \in 1..n
    <2> SUFFICES ASSUME NEW x \in 1..n, NEW y \in 1..n, x <= y PROVE y - x + 1 \in 1..n
        BY DEF R, RunsTo
    <2> QED BY <1>1
  <1>8. a.cw > 0 => a.cw \in R
    <2> SUFFICES ASSUME a.cw > 0 PROVE a.cw \in R
        OBVIOUS
    <2>1. <<n - a.cw + 1, n>> \in (1..n) \X (1..n) /\ n - a.cw + 1 <= n
          BY <1>1, <1>6
    <2>2. a.cw = <<n - a.cw + 1, n>>[2] - <<n - a.cw + 1, n>>[1] + 1
          BY <1>1, <1>6
    <2> QED BY <1>6, <2>1, <2>2 DEF R, RunsTo, WonLast
  <1>9. /\ wins \in Seq(Nat) /\ DOMAIN wins = 1..Len(wins)
        /\ \A k \in 1..Len(wins) : wins[k] \in R
        /\ \A r \in R : \E k \in 1..Len(wins) : r <= wins[k]
        /\ a.cw > 0 => \E k \in 1..Len(wins) : wins[k] = a.cw
    <2>1. CASE a.cw > 0
      <3>1. wins = Append(a.wins, a.cw) /\ wins \in Seq(Nat) /\ Len(wins) = Len(a.wins) + 1
            BY <1>6, <2>1
      <3>2. /\ \A k \in 1..Len(a.wins) : wins[k] = a.wins[k] /\ k \in 1..Len(wins)
            /\ wins[Len(wins)] = a.cw /\ Len(wins) \in 1..Len(wins)
            /\ \A k \in 1..Len(wins) : k \in 1..Len(a.wins) \/ k = Len(wins)
            BY <1>6, <3>1
      <3>3. DOMAIN wins = 1..Len(wins)
            BY <3>1
      <3> HIDE DEF wins
      <3>4. \A k \in 1..Len(wins) : wins[k] \in R
            BY <1>6, <1>8, <2>1, <3>2
      <3>5. \A r \in R : \E k \in 1..Len(wins) : r <= wins[k]
            BY <1>6, <3>2
      <3> QED BY <3>1, <3>2, <3>3, <3>4, <3>5
    <2>2. CASE ~(a.cw > 0)
      <3>1. wins = a.wins /\ a.cw = 0
            BY <1>6, <2>2
      <3>2. \A r \in R : ~(r <= a.cw)
            BY <1>1, <1>7, <3>1
      <3> QED BY <1>6, <2>2, <3>1, <3>2
    <2> QED BY <2>1, <2>2
  <1> HIDE DEF wins
  <1>10. closed \subseteq {0} \cup R /\ 0 \in closed
         BY <1>9
  <1>11. \A k \in 1..Len(wins) : wins[k] \in closed
         BY <1>9
  <1>12. closed \subseteq 0..n /\ closed # {}
         BY <1>1, <1>7, <1>10
  <1> HIDE DEF closed
  <1>13. Max(closed) \in closed /\ \A y \in closed : y <= Max(closed)
         BY <1>1, <1>12, GreatestOf
  <1> DEFINE m == Max(closed)
  <1> HIDE DEF m
  <1>14. m \in {0} \cup R /\ m \in Nat /\ \A y \in closed : y <= m
    <2>1. m \in closed /\ \A y \in closed : y <= m
          BY <1>13 DEF m
    <2>2. m \in 0..n
          BY <1>12, <2>1
    <2> QED BY <1>1, <1>10, <2>1, <2>2
  <1>15. ASSUME NEW r \in R PROVE r <= m
    <2>1. PICK k \in 1..Len(wins) : r <= wins[k]
          BY <1>9
    <2>2. wins[k] <= m
          BY <1>11, <1>14
    <2>3. wins[k] \in 1..n /\ r \in 1..n
          BY <1>7, <1>9
    <2> QED BY <1>1, <1>14, <2>1, <2>2, <2>3
  <1>16. Max({0} \cup R) = m
    <2>1. {0} \cup R \subseteq Int
          BY <1>1, <1>7
    <2>2. \A y \in {0} \cup R : y <= m
          BY <1>14, <1>15
    <2> QED BY <1>14, <2>1, <2>2, MaxIs
  <1>17. a.cw <= m
         BY <1>6, <1>8, <1>14, <1>15
  <1>18. /\ s.max_win_streak = Max({0} \cup WinRuns(pnls))
         /\ s.current_win_streak <= s.max_win_streak
         /\ s.current_win_streak = 0 \/ s.current_loss_streak = 0
         BY <1>2, <1>3, <1>6, <1>16, <1>17 DEF m
  <1> QED BY <1>18 DEF s
-----------------------------------------------------------------------------
(* The rolling series against the equity curve. *)

\* Where a list of rows was cut: the total of a part is that of its rows.
LEMMA CurveAdds ==
    ASSUME NEW S, Rows(S), NEW n \in Nat, NEW at \in Bijection(1..n, S), NEW i \in 0..n
    PROVE  SumOf(NetOf, {at[j] : j \in 1..i})
              = SumFunctionOnSet([j \in 1..n |-> at[j].pnl.net], 1..i)
  <1> DEFINE P == {at[j] : j \in 1..i}
             I == 1..i
             v == [x \in S |-> x.pnl.net]
             w == [j \in 1..n |-> at[j].pnl.net]
             part == [j \in I |-> at[j]]
  <1>1. \A j \in I : j \in 1..n
        OBVIOUS
  <1>2. /\ \A j \in 1..n : at[j] \in S
        /\ \A j, k \in 1..n : at[j] = at[k] => j = k
        BY DEF Bijection, Injection, Surjection, IsInjective
  <1>3. \A x \in S : v[x] \in Int
        BY DEF Rows, PricedRow, PnlRow
  <1>4. P \subseteq S /\ IsFiniteSet(P)
    <2>1. P \in SUBSET S
          BY <1>1, <1>2
    <2> QED BY <2>1, FS_Subset DEF Rows
  <1>5. SumOf(NetOf, P) = SumFunctionOnSet(v, P)
        BY <1>4, SumOfPart
  <1>6. IsFiniteSet(I)
    <2>1. 1 \in Int /\ i \in Int
          OBVIOUS
    <2> QED BY <2>1, FS_Interval
  <1>7. part \in Bijection(I, P)
    <2>1. part \in [I -> P]
          OBVIOUS
    <2>2. \A j, k \in I : part[j] = part[k] => j = k
          BY <1>1, <1>2
    <2>3. \A x \in P : \E j \in I : part[j] = x
          OBVIOUS
    <2> HIDE DEF part, P, I
    <2> QED BY <2>1, <2>2, <2>3, Zenon DEF Bijection, Injection, Surjection, IsInjective
  <1>8. \A j \in I : w[j] = v[part[j]]
        BY <1>1, <1>2
  <1>9. \A x \in P : v[x] \in Int
        BY <1>3, <1>4
  <1> HIDE DEF P, I, v, w, part
  <1>10. SumFunctionOnSet(w, I) = SumFunctionOnSet(v, P)
         BY <1>4, <1>6, <1>7, <1>8, <1>9, SumInOrder
  <1>11. SumOf(NetOf, P) = SumFunctionOnSet(w, I)
         BY <1>5, <1>10
  <1> QED BY <1>11 DEF P, I, w

\* The m of the first n numbers w that begin with the k-th.
WindowOf(s, w, n, k, m) ==
    /\ n \in Nat /\ \A j \in 1..n : w[j] \in Int
    /\ k \in 1..n /\ m \in Nat /\ k + m - 1 \in 0..n
    /\ DOMAIN s = 1..m /\ \A i \in 1..m : s[i] = w[k + i - 1]

\* The sum over a window is the difference of two sums from the start.
LEMMA WindowAdds ==
    ASSUME NEW n, NEW w, NEW k, NEW m, NEW s, WindowOf(s, w, n, k, m)
    PROVE  Total(s) = SumFunctionOnSet(w, 1..k+m-1) - SumFunctionOnSet(w, 1..k-1)
  <1> USE DEF WindowOf
  <1> DEFINE I == 1..k-1
             J == k..k+m-1
             M == 1..m
             at == [i \in M |-> k + i - 1]
  <1>1. IsFiniteSet(I) /\ IsFiniteSet(J) /\ IsFiniteSet(M)
    <2>1. 1 \in Int /\ k - 1 \in Int /\ k \in Int /\ k + m - 1 \in Int /\ m \in Int
          OBVIOUS
    <2> QED BY <2>1, FS_Interval
  <1>2. I \cup J = 1..k+m-1 /\ I \cap J = {} /\ \A j \in I \cup J : j \in 1..n
        OBVIOUS
  <1>3. at \in Bijection(M, J)
    <2>1. at \in [M -> J]
          OBVIOUS
    <2>2. \A i, j \in M : at[i] = at[j] => i = j
          OBVIOUS
    <2>3. \A j \in J : \E i \in M : at[i] = j
      <3>1. ASSUME NEW j \in J PROVE j - k + 1 \in M /\ at[j - k + 1] = j
            OBVIOUS
      <3> QED BY <3>1
    <2> HIDE DEF at, M, J
    <2> QED BY <2>1, <2>2, <2>3, Zenon DEF Bijection, Injection, Surjection, IsInjective
  <1>4. \A i \in M : s[i] = w[at[i]]
        OBVIOUS
  <1>5. DOMAIN s = M
        OBVIOUS
  <1>6. \A j \in I \cup J : w[j] \in Int
        BY <1>2
  <1> HIDE DEF I, J, M, at
  <1>7. SumFunctionOnSet(s, M) = SumFunctionOnSet(w, J)
    <2>1. \A j \in J : w[j] \in Int
          BY <1>6
    <2> QED BY <1>1, <1>3, <1>4, <2>1, SumInOrder
  <1>8. SumFunctionOnSet(w, I \cup J) = SumFunctionOnSet(w, I) + SumFunctionOnSet(w, J)
        BY <1>1, <1>2, <1>6, SumUnion
  <1>9. SumFunctionOnSet(w, I) \in Int /\ SumFunctionOnSet(w, J) \in Int
        BY <1>1, <1>6, SumType
  <1>10. Total(s) = SumFunctionOnSet(w, I \cup J) - SumFunctionOnSet(w, I)
    <2>1. Total(s) = SumFunctionOnSet(s, M)
          BY <1>5 DEF Total, SumFunction
    <2> QED BY <2>1, <1>7, <1>8, <1>9
  <1> QED BY <1>2, <1>10 DEF I

\* Each point of the rolling series is the rise of the curve over its window.
LEMMA RollingRises ==
    ASSUME NEW b, GoodBook(b), NEW f,
           NEW k \in DOMAIN get_rolling_expectancy(b, f).data
    PROVE  LET rolling == get_rolling_expectancy(b, f).data
               curve == get_equity_curve(b, f)
               CumAt(i) == IF i = 0 THEN 0 ELSE curve[i].cumulative_net_pnl
           IN  Same(rolling[k].rolling_exp_inr,
                    <<CumAt(rolling[k].trade_index) - CumAt(k - 1), Window>>)
  <1> DEFINE S == Selected(b, f)
             n == Cardinality(S)
             at == InOrder(S)
             points == get_trade_series(b, f)
             curve == get_equity_curve(b, f)
             rolling == get_rolling_expectancy(b, f).data
             CumAt(i) == IF i = 0 THEN 0 ELSE curve[i].cumulative_net_pnl
             w == [j \in 1..n |-> at[j].pnl.net]
             Slice(j) == SubSeq(points, j, j + Window - 1)
             Point(j) == [trade_index |-> j + Window - 1,
                          rolling_exp_r |-> RollingExpR(Slice(j)),
                          rolling_exp_inr |->
                              <<Total([i \in DOMAIN Slice(j) |-> Slice(j)[i].net_pnl]), Window>>]
             Row(x) == [trade_date |-> x.trade_date, trade_id |-> x.id,
                        net_pnl |-> x.pnl.net, r_multiple |-> x.pnl.r]
             T == {Row(at[i]) : i \in 1..n}
             CurveAt(i) ==
                 [trade_date |-> at[i].trade_date, trade_id |-> at[i].id, net_pnl |-> at[i].pnl.net,
                  cumulative_net_pnl |-> SumOf(NetOf, {at[j] : j \in 1..i})]
  <1>1. Rows(S) /\ at \in Bijection(1..n, S) /\ n \in Nat
        BY SelectedRows, InOrderLists, FS_CardinalityType DEF Rows
  <1>2. points = [i \in DOMAIN at |-> Row(at[i])]
        BY DEF get_trade_series
  <1>3. curve = [i \in DOMAIN at |-> CurveAt(i)]
        BY DEF get_equity_curve
  <1>4. Window \in Nat /\ Window >= 1
        BY MetricsAssumption
  <1>5. rolling = compute_rolling_expectancy(points).data
        BY DEF get_rolling_expectancy
  <1> HIDE DEF S, n, at
  <1>6. DOMAIN at = 1..n /\ \A j \in 1..n : at[j] \in S
        BY <1>1 DEF Bijection, Injection
  <1>7. points \in Seq(T) /\ Len(points) = n /\ \A i \in 1..n : points[i].net_pnl = w[i]
    <2>1. points = [i \in 1..n |-> Row(at[i])]
          BY <1>2, <1>6
    <2>2. points \in [1..n -> T]
          BY <2>1
    <2>3. \A i \in 1..n : points[i].net_pnl = w[i]
          BY <2>1
    <2> HIDE DEF points, T
    <2> QED BY <1>1, <2>2, <2>3
  <1>8. \A j \in 1..n : w[j] \in Int
        BY <1>1, <1>6 DEF Rows, PricedRow, PnlRow
  <1>9. \A i \in 1..n : curve[i].cumulative_net_pnl = SumFunctionOnSet(w, 1..i)
    <2>1. ASSUME NEW i \in 1..n
          PROVE  SumOf(NetOf, {at[j] : j \in 1..i}) = SumFunctionOnSet(w, 1..i)
      <3>1. i \in 0..n
            BY <1>1
      <3> QED BY <1>1, <3>1, CurveAdds
    <2>2. ASSUME NEW i \in 1..n
          PROVE  curve[i].cumulative_net_pnl = SumOf(NetOf, {at[j] : j \in 1..i})
          BY <1>3, <1>6
    <2> HIDE DEF curve, w
    <2> QED BY <2>1, <2>2
  <1>10. \A i \in 0..n : CumAt(i) = SumFunctionOnSet(w, 1..i)
    <2>1. SumFunctionOnSet(w, 1..0) = 0
      <3>1. 1..0 = {}
            OBVIOUS
      <3> HIDE DEF w
      <3> QED BY <3>1, SumEmpty
    <2>2. \A i \in 0..n : i = 0 \/ i \in 1..n
          BY <1>1
    <2> HIDE DEF w, curve
    <2> QED BY <1>9, <2>1, <2>2
  <1>11. rolling = IF n < Window THEN <<>> ELSE [j \in 1..(n - Window + 1) |-> Point(j)]
    <2> HIDE DEF points
    <2> QED BY <1>5, <1>7 DEF compute_rolling_expectancy
  <1> HIDE DEF points, curve, rolling, w, Row, T, CurveAt
  <1>12. ~(n < Window) /\ k \in 1..(n - Window + 1)
    <2> HIDE DEF Point
    <2>1. k \in DOMAIN rolling
          BY DEF rolling
    <2>2. CASE n < Window
          BY <1>11, <2>1, <2>2
    <2>3. CASE ~(n < Window)
          BY <1>11, <2>1, <2>3
    <2> QED BY <2>2, <2>3
  <1>13. rolling[k] = Point(k)
    <2> HIDE DEF Point
    <2> QED BY <1>11, <1>12
  <1>14. k \in 1..n /\ k + Window - 1 \in 0..n /\ k - 1 \in 0..n
         BY <1>1, <1>4, <1>12
  <1> DEFINE s == [i \in DOMAIN Slice(k) |-> Slice(k)[i].net_pnl]
  <1>15. DOMAIN s = 1..Window /\ \A i \in 1..Window : s[i] = w[k + i - 1]
    <2>1. Len(Slice(k)) = Window /\ Slice(k) \in Seq(T)
          BY <1>1, <1>4, <1>7, <1>14
    <2>2. DOMAIN Slice(k) = 1..Window
          BY <2>1
    <2>3. ASSUME NEW i \in 1..Window
          PROVE  Slice(k)[i] = points[k + i - 1] /\ k + i - 1 \in 1..n
          BY <1>1, <1>4, <1>7, <1>14
    <2> HIDE DEF Slice
    <2>4. \A i \in 1..Window : s[i] = Slice(k)[i].net_pnl
          BY <2>2
    <2> QED BY <1>7, <2>2, <2>3, <2>4
  <1> HIDE DEF s
  <1>16. Total(s) = SumFunctionOnSet(w, 1..k+Window-1) - SumFunctionOnSet(w, 1..k-1)
    <2>1. n \in Nat /\ Window \in Nat
          BY <1>1, <1>4
    <2>2. \A j \in 1..n : w[j] \in Int
          BY <1>8
    <2>3. WindowOf(s, w, n, k, Window)
          BY <1>14, <1>15, <2>1, <2>2 DEF WindowOf
    <2> QED BY <2>3, WindowAdds
  <1>17. rolling[k].trade_index = k + Window - 1 /\ rolling[k].rolling_exp_inr = <<Total(s), Window>>
    <2>1. Point(k).trade_index = k + Window - 1
          OBVIOUS
    <2>2. Point(k).rolling_exp_inr = <<Total(s), Window>>
          BY DEF s
    <2> HIDE DEF Point, Slice
    <2> QED BY <1>13, <2>1, <2>2
  <1> HIDE DEF Point, Slice
  <1>18. Total(s) = CumAt(rolling[k].trade_index) - CumAt(k - 1)
         BY <1>10, <1>14, <1>16, <1>17
  <1>19. Same(rolling[k].rolling_exp_inr,
              <<CumAt(rolling[k].trade_index) - CumAt(k - 1), Window>>)
         BY <1>17, <1>18 DEF Same
  <1> QED BY <1>19 DEF rolling, curve

LEMMA CurveIs ==
    ASSUME NEW b, GoodBook(b), NEW f
    PROVE  IsCurve(get_equity_curve(b, f)) /\ IsSeries(get_net_pnl_series(b, f))
  <1> DEFINE S == Selected(b, f)
             n == Cardinality(S)
             at == InOrder(S)
             v == [x \in S |-> x.pnl.net]
             w == [j \in 1..n |-> at[j].pnl.net]
             curve == get_equity_curve(b, f)
             pnls == get_net_pnl_series(b, f)
             CurveAt(i) ==
                 [trade_date |-> at[i].trade_date, trade_id |-> at[i].id, net_pnl |-> at[i].pnl.net,
                  cumulative_net_pnl |-> SumOf(NetOf, {at[j] : j \in 1..i})]
  <1>1. Rows(S) /\ at \in Bijection(1..n, S) /\ n \in Nat
        BY SelectedRows, InOrderLists, FS_CardinalityType DEF Rows
  <1>2. curve = [i \in DOMAIN at |-> CurveAt(i)]
        BY DEF get_equity_curve
  <1>3. pnls = [i \in DOMAIN at |-> at[i].pnl.net]
        BY DEF get_net_pnl_series, Series, NetOf
  <1> HIDE DEF S, n, at
  <1>4. DOMAIN at = 1..n /\ \A j \in 1..n : at[j] \in S
        BY <1>1 DEF Bijection, Injection
  <1>5. \A j \in 1..n : at[j].pnl.net \in Int
        BY <1>1, <1>4 DEF Rows, PricedRow, PnlRow
  <1>6. pnls \in Seq(Int)
    <2>1. pnls \in [1..n -> Int]
          BY <1>3, <1>4, <1>5
    <2> HIDE DEF pnls
    <2> QED BY <1>1, <2>1
  <1>7. ASSUME NEW i \in 1..n PROVE SumOf(NetOf, {at[j] : j \in 1..i}) \in Int
    <2>1. i \in 0..n /\ \A j \in 1..i : j \in 1..n
          BY <1>1
    <2>2. SumOf(NetOf, {at[j] : j \in 1..i}) = SumFunctionOnSet(w, 1..i)
          BY <1>1, <2>1, CurveAdds
    <2>3. IsFiniteSet(1..i)
      <3>1. 1 \in Int /\ i \in Int
            OBVIOUS
      <3> QED BY <3>1, FS_Interval
    <2>4. \A j \in 1..i : w[j] \in Int
          BY <1>5, <2>1
    <2> DEFINE I == 1..i
    <2> HIDE DEF w, I
    <2>5. SumFunctionOnSet(w, I) \in Int
      <3>1. IsFiniteSet(I) /\ \A j \in I : w[j] \in Int
            BY <2>3, <2>4 DEF I
      <3> QED BY <3>1, SumType
    <2> QED BY <2>2, <2>5 DEF I
  <1>8. curve = [i \in 1..n |-> CurveAt(i)]
        BY <1>2, <1>4
  <1>9. \A i \in 1..n : curve[i] = CurveAt(i)
        BY <1>8
  <1>10. \A i \in 1..n : curve[i].cumulative_net_pnl \in Int
    <2>1. \A i \in 1..n : CurveAt(i).cumulative_net_pnl = SumOf(NetOf, {at[j] : j \in 1..i})
          OBVIOUS
    <2> HIDE DEF CurveAt, curve
    <2> SUFFICES ASSUME NEW i \in 1..n PROVE curve[i].cumulative_net_pnl \in Int
        OBVIOUS
    <2>2. curve[i].cumulative_net_pnl = SumOf(NetOf, {at[j] : j \in 1..i})
          BY <1>9, <2>1
    <2> QED BY <1>7, <2>2
  <1>11. Len(curve) = n /\ DOMAIN curve = 1..n /\ curve = [i \in 1..n |-> curve[i]]
    <2> HIDE DEF CurveAt
    <2> QED BY <1>1, <1>8
  <1> HIDE DEF curve, pnls
  <1>12. IsCurve(curve)
         BY <1>1, <1>10, <1>11 DEF IsCurve
  <1> QED BY <1>6, <1>12 DEF IsSeries, curve, pnls

\* The one-pass drawdown and streak counters and the rolling windows say what the
\* equity curve and the series of results say: deepest fall, longest run of
\* wins, rise over the window.
THEOREM CurveMetricsAlwaysSound == Spec => []CurveMetricsSound
  <1>1. ASSUME GoodBook(book), NEW f
        PROVE  LET curve == get_equity_curve(book, f)
                   dd == compute_drawdown_stats(curve)
                   drops == Drops(curve)
                   streaks == get_streaks(book, f)
                   rolling == get_rolling_expectancy(book, f).data
                   CumAt(i) == IF i = 0 THEN 0 ELSE curve[i].cumulative_net_pnl
               IN  /\ dd.max_drawdown_pct = NULL <=> drops = {}
                   /\ drops # {} => /\ \E d \in drops : Same(d, dd.max_drawdown_pct)
                                    /\ \A d \in drops : ~Less(dd.max_drawdown_pct, d)
                                    /\ ~Less(dd.max_drawdown_pct, dd.current_drawdown_pct)
                                    /\ ~Less(dd.max_drawdown_pct, dd.avg_drawdown_pct)
                   /\ streaks.max_win_streak = Max({0} \cup WinRuns(get_net_pnl_series(book, f)))
                   /\ streaks.current_win_streak <= streaks.max_win_streak
                   /\ streaks.current_win_streak = 0 \/ streaks.current_loss_streak = 0
                   /\ \A k \in DOMAIN rolling :
                          Same(rolling[k].rolling_exp_inr,
                               <<CumAt(rolling[k].trade_index) - CumAt(k - 1), Window>>)
    <2> DEFINE curve == get_equity_curve(book, f)
               dd == compute_drawdown_stats(curve)
               drops == Drops(curve)
               pnls == get_net_pnl_series(book, f)
               streaks == get_streaks(book, f)
               rolling == get_rolling_expectancy(book, f).data
               CumAt(i) == IF i = 0 THEN 0 ELSE curve[i].cumulative_net_pnl
    <2>1. IsCurve(curve) /\ IsSeries(pnls)
          BY <1>1, CurveIs
    <2>2. /\ dd.max_drawdown_pct = NULL <=> drops = {}
          /\ drops # {} => /\ \E d \in drops : Same(d, dd.max_drawdown_pct)
                           /\ \A d \in drops : ~Less(dd.max_drawdown_pct, d)
                           /\ ~Less(dd.max_drawdown_pct, dd.current_drawdown_pct)
                           /\ ~Less(dd.max_drawdown_pct, dd.avg_drawdown_pct)
      <3> HIDE DEF curve
      <3> QED BY <2>1, DrawdownFound
    <2>3. /\ streaks.max_win_streak = Max({0} \cup WinRuns(pnls))
          /\ streaks.current_win_streak <= streaks.max_win_streak
          /\ streaks.current_win_streak = 0 \/ streaks.current_loss_streak = 0
      <3>1. streaks = compute_streak_stats(pnls)
            BY DEF get_streaks
      <3> HIDE DEF pnls, streaks
      <3> QED BY <2>1, <3>1, StreaksFound
    <2>4. \A k \in DOMAIN rolling :
              Same(rolling[k].rolling_exp_inr,
                   <<CumAt(rolling[k].trade_index) - CumAt(k - 1), Window>>)
          BY <1>1, RollingRises
    <2> HIDE DEF dd, drops, streaks, rolling, CumAt, pnls, curve
    <2>5. /\ dd.max_drawdown_pct = NULL <=> drops = {}
          /\ drops # {} => /\ \E d \in drops : Same(d, dd.max_drawdown_pct)
                           /\ \A d \in drops : ~Less(dd.max_drawdown_pct, d)
                           /\ ~Less(dd.max_drawdown_pct, dd.current_drawdown_pct)
                           /\ ~Less(dd.max_drawdown_pct, dd.avg_drawdown_pct)
          /\ streaks.max_win_streak = Max({0} \cup WinRuns(pnls))
          /\ streaks.current_win_streak <= streaks.max_win_streak
          /\ streaks.current_win_streak = 0 \/ streaks.current_loss_streak = 0
          /\ \A k \in DOMAIN rolling :
                 Same(rolling[k].rolling_exp_inr,
                      <<CumAt(rolling[k].trade_index) - CumAt(k - 1), Window>>)
          BY <2>2, <2>3, <2>4
    <2> QED BY <2>5 DEF dd, drops, streaks, rolling, CumAt, pnls, curve
  <1>2. BookInv => CurveMetricsSound
    <2> SUFFICES ASSUME BookInv PROVE CurveMetricsSound
        OBVIOUS
    <2>1. GoodBook(book)
          BY DEF BookInv
    <2> QED BY <1>1, <2>1, Zenon DEF CurveMetricsSound
  <1> QED BY <1>2, BookInit, BookNext, PTL DEF Spec
-----------------------------------------------------------------------------
(* The result classes. *)

LEMMA PercentTyped ==
    ASSUME NEW n \in Int, NEW d \in Nat
    PROVE  Percent(n, d) \in Fraction
  <1>1. 100 * n \in Int /\ (d = 0 \/ d > 0)
        OBVIOUS
  <1> QED BY <1>1 DEF Percent, Zero, Norm, Fraction

LEMMA CountTyped ==
    ASSUME NEW S, IsFiniteSet(S), NEW P \in SUBSET S
    PROVE  Cardinality(P) \in Nat
  BY FS_Subset, FS_CardinalityType

LEMMA PnlSummaryTyped ==
    ASSUME NEW b, GoodBook(b), NEW f
    PROVE  get_pnl_summary(b, f) \in PnlSummary
  <1> DEFINE S == Selected(b, f)
             net == [x \in S |-> x.pnl.net]
             charged == [x \in S |-> x.pnl.charges.total]
             gross == [x \in S |-> x.pnl.gross]
  <1>1. IsFiniteSet(S) /\ S \subseteq PricedRow /\ Cardinality(S) \in Nat
        BY SelectedRows, FS_CardinalityType DEF Rows
  <1>2. get_pnl_summary(b, f) =
           [total_trades |-> Cardinality(S), gross_pnl |-> SumFunctionOnSet(gross, S),
            net_pnl |-> SumFunctionOnSet(net, S), total_charges |-> SumFunctionOnSet(charged, S)]
        BY DEF get_pnl_summary, SumOf, SumFunction, NetOf
  <1>3. ASSUME NEW x \in S
        PROVE  net[x] \in Int /\ charged[x] \in Nat /\ gross[x] \in Int
    <2>1. x.pnl \in PnlRow
          BY <1>1 DEF PricedRow
    <2> QED BY <2>1 DEF PnlRow, ChargesRow
  <1> HIDE DEF S, net, charged, gross
  <1>4. /\ SumFunctionOnSet(gross, S) \in Int /\ SumFunctionOnSet(net, S) \in Int
        /\ SumFunctionOnSet(charged, S) \in Nat
        BY <1>1, <1>3, SumType, SumNat
  <1> QED BY <1>1, <1>2, <1>4 DEF PnlSummary

LEMMA OutcomeTyped ==
    ASSUME NEW b, GoodBook(b), NEW f
    PROVE  get_outcome_distribution(b, f) \in OutcomeDistribution
  <1> DEFINE S == Selected(b, f)
             n == Cardinality(S)
             w == Cardinality(Won(S))
             l == Cardinality(Lost(S))
             e == Cardinality(Even(S))
  <1>1. IsFiniteSet(S)
        BY SelectedRows DEF Rows
  <1>2. S \in SUBSET S /\ Won(S) \in SUBSET S /\ Lost(S) \in SUBSET S /\ Even(S) \in SUBSET S
        BY DEF Won, Lost, Even
  <1>3. n \in Nat /\ w \in Nat /\ l \in Nat /\ e \in Nat
        BY <1>1, <1>2, CountTyped
  <1>4. get_outcome_distribution(b, f) =
           [win_count |-> w, loss_count |-> l, breakeven_count |-> e, total_n |-> n,
            win_rate |-> Percent(w, n), loss_rate |-> Percent(l, n),
            breakeven_rate |-> Percent(e, n)]
        BY DEF get_outcome_distribution
  <1> HIDE DEF n, w, l, e
  <1>5. Percent(w, n) \in Fraction /\ Percent(l, n) \in Fraction /\ Percent(e, n) \in Fraction
        BY <1>3, PercentTyped
  <1> QED BY <1>3, <1>4, <1>5 DEF OutcomeDistribution

LEMMA ProfitFactorTyped ==
    ASSUME NEW b, GoodBook(b), NEW f
    PROVE  get_profit_factor(b, f) \in ProfitFactorResult
  <1> DEFINE S == Selected(b, f)
             W == Won(S)
             L == Lost(S)
             net == [x \in S |-> x.pnl.net]
             profit == SumOf(NetOf, W)
             loss == SumOf(NetOf, L)
  <1>1. IsFiniteSet(S) /\ \A x \in S : net[x] = x.pnl.net /\ net[x] \in Int
        BY SelectedRows, NetTyped DEF Rows
  <1>2. W \in SUBSET S /\ L \in SUBSET S /\ \A x \in W : net[x] > 0
    <2> HIDE DEF S
    <2> QED BY <1>1 DEF Won, Lost
  <1>3. IsFiniteSet(W) /\ IsFiniteSet(L)
        BY <1>1, <1>2, FS_Subset
  <1>4. get_profit_factor(b, f) =
           [profit_factor |-> IF loss < 0 THEN <<profit, -loss>> ELSE NULL,
            gross_profit |-> profit, gross_loss |-> loss]
        BY DEF get_profit_factor
  <1> HIDE DEF W, L, S
  <1>5. profit = SumFunctionOnSet(net, W) /\ loss = SumFunctionOnSet(net, L)
        BY <1>2, <1>3, SumOfPart
  <1> HIDE DEF profit, loss, net
  <1>6. profit \in Nat
    <2>1. \A x \in W : net[x] \in Nat
          BY <1>1, <1>2
    <2> QED BY <1>3, <1>5, <2>1, SumNat
  <1>7. loss \in Int
    <2>1. \A x \in L : net[x] \in Int
          BY <1>1, <1>2
    <2> QED BY <1>3, <1>5, <2>1, SumType
  <1>8. loss < 0 => <<profit, -loss>> \in Fraction
        BY <1>6, <1>7 DEF Fraction
  <1> QED BY <1>4, <1>6, <1>7, <1>8 DEF ProfitFactorResult

\* Each row of a statement with a value: as many fractions as rows.
LEMMA FractionsListed ==
    ASSUME NEW S, Rows(S), \A x \in S : PlannedRR(x) \in Fraction
    PROVE  Series(PlannedRR, S) \in Seq(Fraction)
  <1> DEFINE n == Cardinality(S)
             at == InOrder(S)
             s == Series(PlannedRR, S)
  <1>1. n \in Nat /\ at \in Bijection(1..n, S)
        BY InOrderLists, FS_CardinalityType DEF Rows
  <1>2. DOMAIN at = 1..n /\ \A i \in 1..n : at[i] \in S
    <2> HIDE DEF at, n
    <2> QED BY <1>1 DEF Bijection, Injection
  <1>3. s = [i \in DOMAIN at |-> PlannedRR(at[i])]
        BY DEF Series
  <1> HIDE DEF n, at, s
  <1>4. s \in [1..n -> Fraction]
        BY <1>2, <1>3
  <1>5. s \in Seq(Fraction)
    <2> HIDE DEF Fraction
    <2> QED BY <1>1, <1>4
  <1> QED BY <1>5 DEF s

LEMMA PlannedRRTyped ==
    ASSUME NEW b, GoodBook(b), NEW f, NEW total \in Nat
    PROVE  get_planned_rr(b, f, total) \in {NULL} \cup PlannedRRResult
  <1> DEFINE S == Selected(b, f)
             R == {x \in S : x.planned_target # NULL /\ x.planned_stop # NULL}
             k == Cardinality(R)
             mean == FractionMean(Series(PlannedRR, R))
  <1>1. Rows(S) /\ R \in SUBSET S
        BY SelectedRows
  <1>2. Rows(R) /\ k \in Nat
        BY <1>1, PartOfRows, CountTyped DEF Rows
  <1>3. CASE \E x \in R : x.planned_stop = x.average_entry
        BY <1>3 DEF get_planned_rr
  <1>4. CASE ~ \E x \in R : x.planned_stop = x.average_entry
    <2>1. ASSUME NEW x \in R PROVE PlannedRR(x) \in Fraction
      <3>1. /\ x.planned_target \in Nat /\ x.planned_stop \in Nat /\ x.average_entry \in Nat
            /\ x.planned_stop # x.average_entry
            BY <1>2, <1>4 DEF Rows, PricedRow, TradeRow
      <3> DEFINE t == x.planned_target  p == x.planned_stop  e == x.average_entry
      <3>2. /\ t - e \in Int /\ e - p \in Int /\ e - p # 0
            /\ e - t \in Int /\ p - e \in Int /\ p - e # 0
            BY <3>1
      <3>3. ASSUME NEW u \in Int, NEW v \in Int, v # 0 PROVE Norm(u, v) \in Fraction
            BY <3>3 DEF Norm, Fraction
      <3>4. Norm(t - e, e - p) \in Fraction /\ Norm(e - t, p - e) \in Fraction
            BY <3>2, <3>3
      <3> QED BY <3>4 DEF PlannedRR
    <2>2. mean \in {NULL} \cup Fraction
          BY <1>2, <2>1, FractionsListed, FractionMeanTyped
    <2>3. Percent(k, total) \in Fraction
          BY <1>2, PercentTyped
    <2>4. get_planned_rr(b, f, total) =
             [avg_planned_rr |-> mean, trade_count_with_rr |-> k, total_count |-> total,
              coverage_pct |-> Percent(k, total)]
          BY <1>4 DEF get_planned_rr
    <2> HIDE DEF mean, k
    <2> QED BY <1>2, <2>2, <2>3, <2>4 DEF PlannedRRResult
  <1> QED BY <1>3, <1>4

LEMMA MeanTyped ==
    ASSUME NEW s \in Seq(Int), s # <<>>
    PROVE  Mean(s) \in Fraction
  <1>1. Len(s) \in Nat /\ Len(s) > 0 /\ Total(s) \in Int
        BY TotalType
  <1> QED BY <1>1 DEF Mean, Fraction

LEMMA VarianceTyped ==
    ASSUME NEW s \in Seq(Int), s # <<>>
    PROVE  Variance(s) \in Fraction
  <1> DEFINE n == Len(s)
             squares == [i \in DOMAIN s |-> s[i] * s[i]]
             q == Total(squares)
             t == Total(s)
  <1>1. n \in Nat /\ n > 0 /\ t \in Int
        BY TotalType
  <1>2. squares \in Seq(Int)
    <2>1. DOMAIN s = 1..n /\ \A i \in 1..n : s[i] * s[i] \in Int
          OBVIOUS
    <2>2. squares \in [1..n -> Int]
          BY <2>1
    <2> HIDE DEF n, squares
    <2> QED BY <1>1, <2>2
  <1>3. q \in Int
    <2> HIDE DEF squares
    <2> QED BY <1>2, TotalType
  <1>4. Variance(s) = <<n * q - t * t, n * n>>
        BY DEF Variance
  <1> HIDE DEF n, q, t
  <1>5. n * q - t * t \in Int /\ n * n \in Nat /\ n * n # 0
        BY <1>1, <1>3
  <1> QED BY <1>4, <1>5 DEF Fraction

LEMMA LongestTyped ==
    ASSUME NEW s \in Seq(Nat)
    PROVE  Max({0} \cup {s[i] : i \in DOMAIN s}) \in Nat
  <1> DEFINE n == Len(s)
             V == {0} \cup {s[i] : i \in DOMAIN s}
             m == SumFunctionOnSet(s, 1..n)
  <1>1. n \in Nat /\ DOMAIN s = 1..n /\ \A i \in 1..n : s[i] \in Nat
        OBVIOUS
  <1>2. IsFiniteSet(1..n)
    <2>1. 1 \in Int /\ n \in Int
          OBVIOUS
    <2> QED BY <2>1, FS_Interval
  <1> DEFINE I == 1..n
  <1> HIDE DEF I
  <1>3. m \in Nat /\ \A i \in I : s[i] <= m
        BY <1>1, <1>2, SumNat DEF I
  <1>4. V \subseteq 0..m /\ V # {}
    <2> HIDE DEF m, n
    <2>1. \A i \in DOMAIN s : s[i] \in 0..m
          BY <1>1, <1>3 DEF I
    <2> QED BY <1>3, <2>1
  <1> HIDE DEF V, m
  <1>5. Max(V) \in V
        BY <1>3, <1>4, GreatestOf
  <1> QED BY <1>3, <1>4, <1>5 DEF V

LEMMA StreaksTyped ==
    ASSUME NEW pnls, IsSeries(pnls)
    PROVE  compute_streak_stats(pnls) \in StreakStats
  <1> DEFINE n == Len(pnls)
             g == CHOOSE h : Streaked(h, pnls, n)
             a == g[n]
             wins == IF a.cw > 0 THEN Append(a.wins, a.cw) ELSE a.wins
             losses == IF a.cl > 0 THEN Append(a.losses, a.cl) ELSE a.losses
             Longest(s) == Max({0} \cup {s[i] : i \in DOMAIN s})
             Usual(s) == IF s = <<>> THEN Zero ELSE Mean(s)
  <1>1. n \in Nat
        BY DEF IsSeries
  <1>2. Streaked(g, pnls, n)
        BY <1>1, StreakedExists
  <1>3. compute_streak_stats(pnls) =
           [current_win_streak |-> a.cw, current_loss_streak |-> a.cl,
            max_win_streak |-> Longest(wins), max_loss_streak |-> Longest(losses),
            avg_win_streak |-> Usual(wins), avg_loss_streak |-> Usual(losses)]
        BY DEF compute_streak_stats, Streaked
  <1> HIDE DEF g
  <1>4. LongestSoFar(pnls, n, a)
        BY <1>2, StreaksEnd
  <1> HIDE DEF a, n
  <1>5. /\ a.cw \in Nat /\ a.cl \in Nat /\ a.wins \in Seq(Nat) /\ a.losses \in Seq(Nat)
        BY <1>4 DEF LongestSoFar, StreakState
  <1>6. wins \in Seq(Nat) /\ losses \in Seq(Nat)
        BY <1>5
  <1> HIDE DEF wins, losses
  <1>7. Longest(wins) \in Nat /\ Longest(losses) \in Nat
        BY <1>6, LongestTyped
  <1>8. ASSUME NEW s \in Seq(Nat) PROVE Usual(s) \in Fraction
    <2>1. s \in Seq(Int) /\ Zero \in Fraction
          BY DEF Zero, Fraction
    <2> QED BY <2>1, MeanTyped
  <1>9. Usual(wins) \in Fraction /\ Usual(losses) \in Fraction
        BY <1>6, <1>8
  <1> HIDE DEF Longest, Usual
  <1> QED BY <1>3, <1>5, <1>7, <1>9 DEF StreakStats

LEMMA DrawdownTyped ==
    ASSUME NEW curve, IsCurve(curve)
    PROVE  compute_drawdown_stats(curve) \in DrawdownStats
  <1> DEFINE n == Len(curve)
             dd == compute_drawdown_stats(curve)
             after == CHOOSE g : Passed(g, curve)
             a == after[n]
             last == curve[n].cumulative_net_pnl
             under == a.peak > 0 /\ last < a.peak
  <1>1. n \in Nat /\ (curve # <<>> => n > 0)
        BY DEF IsCurve
  <1>2. CASE curve = <<>>
        BY <1>2 DEF compute_drawdown_stats, DrawdownStats
  <1>3. CASE curve # <<>>
    <2>1. dd = [max_drawdown_pct |-> a.pct,
                max_drawdown_inr |-> IF a.pct = NULL THEN NULL ELSE a.inr,
                avg_drawdown_pct |-> FractionMean(a.pcts),
                current_drawdown_pct |->
                    IF under THEN <<100 * (a.peak - last), a.peak>> ELSE Zero,
                current_drawdown_inr |-> IF under THEN a.peak - last ELSE 0]
          BY <1>3 DEF compute_drawdown_stats, Passed, Last
    <2>2. Passed(after, curve)
          BY <1>1, <1>3, PassedExists
    <2> HIDE DEF after
    <2>3. a \in Fallen
          BY <1>1, <1>3, <2>2, PassedDeepest
    <2>4. last \in Int
          BY <1>1, <1>3 DEF IsCurve
    <2> HIDE DEF dd, a, last
    <2>5. /\ a.peak \in Int /\ a.pct \in {NULL} \cup Fraction /\ a.inr \in Nat
          /\ a.pcts \in Seq(Fraction)
          BY <2>3 DEF Fallen
    <2>6. FractionMean(a.pcts) \in {NULL} \cup Fraction
          BY <2>5, FractionMeanTyped
    <2>7. under => <<100 * (a.peak - last), a.peak>> \in Fraction /\ a.peak - last \in Nat
          BY <2>4, <2>5 DEF Fraction
    <2>8. Zero \in Fraction
          BY DEF Zero, Fraction
    <2> HIDE DEF under
    <2> QED BY <2>1, <2>5, <2>6, <2>7, <2>8 DEF DrawdownStats, dd
  <1> QED BY <1>2, <1>3

\* The R-multiples below zero, in the order of the series.
LEMMA DownsideTyped ==
    ASSUME NEW rs \in Seq(Int)
    PROVE  Downside(rs) \in Seq(Int)
  <1> DEFINE P == {i \in DOMAIN rs : rs[i] < 0}
             before == [i \in P |-> {j \in P : j < i}]
             at == Enumerate(P, LAMBDA i, j : i < j)
             n == Cardinality(P)
  <1>1. P \subseteq 1..Len(rs) /\ IsFiniteSet(P)
    <2>1. 1 \in Int /\ Len(rs) \in Int /\ P \subseteq 1..Len(rs)
          OBVIOUS
    <2> QED BY <2>1, FS_Interval, FS_Subset
  <1>2. n \in Nat
        BY <1>1, FS_CardinalityType
  <1>3. at = [i \in 1..n |-> CHOOSE x \in P : Cardinality({y \in P : y < x}) = i - 1]
        BY DEF Enumerate
  <1>4. Ordered(P, before)
    <2>1. \A x \in P : before[x] = {y \in P : y < x}
          OBVIOUS
    <2> HIDE DEF P, before
    <2>2. \A x \in P : x \in Nat
          BY <1>1
    <2> QED BY <2>1, <2>2 DEF Ordered
  <1>5. ASSUME NEW i \in 1..n, \E x \in P : Cardinality(before[x]) = i - 1
        PROVE  at[i] \in P /\ Cardinality(before[at[i]]) = i - 1
    <2>1. \E x \in P : Cardinality({y \in P : y < x}) = i - 1
          BY <1>5
    <2>2. at[i] = CHOOSE x \in P : Cardinality({y \in P : y < x}) = i - 1
          BY <1>3
    <2> HIDE DEF at, P
    <2>3. at[i] \in P /\ Cardinality({y \in P : y < at[i]}) = i - 1
          BY <2>1, <2>2
    <2> QED BY <2>3
  <1>6. at = [i \in 1..n |-> at[i]]
        BY <1>3
  <1> HIDE DEF P, before, at
  <1>7. at \in Bijection(1..n, P)
        BY <1>1, <1>4, <1>5, <1>6, RanksListAll DEF n
  <1> HIDE DEF n
  <1>8. DOMAIN at = 1..n /\ \A i \in 1..n : at[i] \in P
        BY <1>7 DEF Bijection, Injection
  <1>9. Downside(rs) = [k \in DOMAIN at |-> rs[at[k]]]
        BY DEF Downside, at, P
  <1>10. \A i \in P : rs[i] \in Int
         BY DEF P
  <1>11. Downside(rs) \in [1..n -> Int]
         BY <1>8, <1>9, <1>10
  <1> QED BY <1>2, <1>11

LEMMA RSeriesTyped ==
    ASSUME NEW b, GoodBook(b), NEW f, NEW total \in Nat
    PROVE  FromRSeries(get_r_multiple_series(b, f), total)
               \in [expectancy : ExpectancyResult, sharpe : SharpeResult, sortino : SortinoResult]
  <1> DEFINE wins == Series(ROf, Wins(b, f))
             losses == Series(ROf, Losses(b, f))
             all == wins \o losses
             down == Downside(all)
             n == Len(wins) + Len(losses)
             expectancy == compute_expectancy(wins, losses, total)
             avgWin == IF wins = <<>> THEN NULL ELSE Mean(wins)
             avgLoss == IF losses = <<>> THEN NULL ELSE Magnitude(Mean(losses))
             e == expectancy.expectancy_r
  <1>1. get_r_multiple_series(b, f) = [win_r |-> wins, loss_r |-> losses]
        BY DEF get_r_multiple_series, Wins, Losses
  <1>2. wins \in Seq(Int) /\ losses \in Seq(Int)
        BY DecidedRows, RSeries
  <1>3. e \in {NULL} \cup Fraction
        BY <1>1, SummaryExpectancy
  <1>4. FromRSeries(get_r_multiple_series(b, f), total)
           = [expectancy |-> expectancy, sharpe |-> compute_sharpe_ratio(all),
              sortino |-> compute_sortino_ratio(all)]
        BY <1>1 DEF FromRSeries
  <1> HIDE DEF wins, losses
  <1>5. n \in Nat /\ all \in Seq(Int) /\ Len(all) = n
        BY <1>2
  <1>6. MinSample \in Nat \ {0}
        BY MetricsAssumption
  <1>7. expectancy \in ExpectancyResult
    <2>1. avgWin \in {NULL} \cup Fraction
          BY <1>2, MeanTyped
    <2>2. avgLoss \in {NULL} \cup Fraction
      <3>1. losses # <<>> => Mean(losses) \in Fraction
            BY <1>2, MeanTyped
      <3>2. losses # <<>> => Magnitude(Mean(losses)) \in Fraction
            BY <3>1 DEF Magnitude, Fraction
      <3> QED BY <3>2
    <2>3. Percent(n, total) \in Fraction
          BY <1>5, PercentTyped
    <2>4. expectancy = [expectancy_r |-> e, avg_r_win |-> avgWin, avg_r_loss |-> avgLoss,
                        r_coverage_count |-> n, total_count |-> total,
                        r_coverage_pct |-> Percent(n, total),
                        insufficient_sample |-> n < MinSample]
          BY DEF compute_expectancy
    <2>5. (n < MinSample) \in BOOLEAN
          OBVIOUS
    <2> HIDE DEF e, avgWin, avgLoss, n, expectancy
    <2> QED BY <1>3, <1>5, <2>1, <2>2, <2>3, <2>4, <2>5 DEF ExpectancyResult
  <1> HIDE DEF all
  <1>8. n >= MinSample => all # <<>> /\ Mean(all) \in Fraction /\ Variance(all) \in Fraction
    <2>1. n >= MinSample => all # <<>>
          BY <1>5, <1>6
    <2> QED BY <1>5, <2>1, MeanTyped, VarianceTyped
  <1>9. compute_sharpe_ratio(all) \in SharpeResult
    <2> DEFINE v == Variance(all)
               m == Mean(all)
    <2>1. compute_sharpe_ratio(all) =
             [sharpe_ratio |-> IF n < MinSample \/ v[1] = 0 THEN NULL ELSE "defined",
              mean_r |-> IF n < MinSample THEN NULL ELSE m,
              std_r |-> IF n < MinSample THEN NULL ELSE v,
              r_coverage_count |-> n, insufficient_sample |-> n < MinSample]
          BY <1>5 DEF compute_sharpe_ratio
    <2>2. n < MinSample \/ (m \in Fraction /\ v \in Fraction)
      <3> HIDE DEF m, v, n
      <3> QED BY <1>5, <1>6, <1>8 DEF m, v
    <2>3. (n < MinSample) \in BOOLEAN
          OBVIOUS
    <2> HIDE DEF v, m, n
    <2> QED BY <1>5, <2>1, <2>2, <2>3 DEF SharpeResult
  <1>10. compute_sortino_ratio(all) \in SortinoResult
    <2> DEFINE v == Variance(down)
               m == Mean(all)
               known == n >= MinSample
    <2>1. compute_sortino_ratio(all) =
             [sortino_ratio |-> IF known /\ down # <<>> /\ v[1] # 0 THEN "defined" ELSE NULL,
              mean_r |-> IF known THEN m ELSE NULL,
              downside_dev |-> IF known /\ down # <<>> THEN v ELSE NULL,
              r_coverage_count |-> n, insufficient_sample |-> ~known,
              no_downside_trades |-> known /\ down = <<>>]
          BY <1>5 DEF compute_sortino_ratio
    <2>2. down # <<>> => v \in Fraction
          BY <1>5, DownsideTyped, VarianceTyped
    <2>3. known => m \in Fraction
          BY <1>8
    <2>4. (~known) \in BOOLEAN /\ (known /\ down = <<>>) \in BOOLEAN
          OBVIOUS
    <2> HIDE DEF v, m, n, known, down
    <2> QED BY <1>5, <2>1, <2>2, <2>3, <2>4 DEF SortinoResult
  <1> HIDE DEF expectancy
  <1> QED BY <1>4, <1>7, <1>9, <1>10

-----------------------------------------------------------------------------
(* Type correctness: no answer leaves its result class. *)

\* The two answers that a later statement of the request reads.
ReadOf(s, g) ==
    /\ s = "planned_rr" => g["planned_rr_total"] \in Nat
    /\ s = "r_series" => g["outcome"].total_n \in Nat

LEMMA AnswerTyped ==
    ASSUME NEW b, GoodBook(b), NEW f, NEW g, NEW s \in DOMAIN AnswerTypes, ReadOf(s, g)
    PROVE  Answer(s, b, f, g) \in AnswerTypes[s]
  <1>1. s \in {"pnl", "outcome", "profit_factor", "planned_rr_total", "planned_rr", "r_series",
               "curve", "streaks"}
        BY DEF AnswerTypes
  <1>2. CASE s = "pnl"
        BY <1>2, PnlSummaryTyped DEF Answer, AnswerTypes
  <1>3. CASE s = "outcome"
        BY <1>3, OutcomeTyped DEF Answer, AnswerTypes
  <1>4. CASE s = "profit_factor"
        BY <1>4, ProfitFactorTyped DEF Answer, AnswerTypes
  <1>5. CASE s = "planned_rr_total"
    <2>1. get_planned_rr_total(b, f) \in Nat
          BY SelectedRows, FS_CardinalityType DEF get_planned_rr_total, Rows
    <2> QED BY <1>5, <2>1 DEF Answer, AnswerTypes
  <1>6. CASE s = "planned_rr"
    <2>1. get_planned_rr(b, f, g["planned_rr_total"]) \in {NULL} \cup PlannedRRResult
          BY <1>6, PlannedRRTyped DEF ReadOf
    <2> QED BY <1>6, <2>1 DEF Answer, AnswerTypes
  <1>7. CASE s = "r_series"
    <2>1. FromRSeries(get_r_multiple_series(b, f), g["outcome"].total_n)
              \in [expectancy : ExpectancyResult, sharpe : SharpeResult, sortino : SortinoResult]
          BY <1>7, RSeriesTyped DEF ReadOf
    <2> QED BY <1>7, <2>1 DEF Answer, AnswerTypes
  <1>8. CASE s = "curve"
    <2>1. compute_drawdown_stats(get_equity_curve(b, f)) \in DrawdownStats
          BY CurveIs, DrawdownTyped
    <2> QED BY <1>8, <2>1 DEF Answer, AnswerTypes
  <1>9. CASE s = "streaks"
    <2>1. get_streaks(b, f) \in StreakStats
          BY CurveIs, StreaksTyped DEF get_streaks
    <2> QED BY <1>9, <2>1 DEF Answer, AnswerTypes
  <1> QED BY <1>1, <1>2, <1>3, <1>4, <1>5, <1>6, <1>7, <1>8, <1>9

\* A statement that reads an earlier answer finds it, and as it was stored.
LEMMA EarlierAnswers ==
    ASSUME BookInv, ReqInv, req # NULL, NEW s \in DOMAIN req.got
    PROVE  ReadOf(s, req.got) /\ \E b : GoodBook(b) /\ Held(req, s, b)
  <1> DEFINE g == req.got
             k == Cardinality(DOMAIN g)
  <1>1. k \in 0..12 /\ DOMAIN g = {Statements[i] : i \in 1..k}
        BY DEF ReqInv, Progress
  <1>2. ASSUME NEW t \in DOMAIN g
        PROVE  \E b : GoodBook(b) /\ g[t] = Answer(t, b, req.filter, g)
    <2>1. PICK old : Seen(req, book, old)
          BY DEF ReqInv
    <2> QED BY <1>2, <2>1 DEF Seen, Held, BookInv
  <1> HIDE DEF g, k
  <1>3. PICK n \in 1..k : s = Statements[n]
        BY <1>1 DEF g
  <1>4. n \in 1..12 /\ \A i \in 1..n : i \in 1..k
        BY <1>1
  <1>5. s = "planned_rr" => g["planned_rr_total"] \in Nat
    <2> SUFFICES ASSUME s = "planned_rr" PROVE g["planned_rr_total"] \in Nat
        OBVIOUS
    <2>1. n = 5
          BY <1>3, <1>4, StatementOrder
    <2>2. "planned_rr_total" \in DOMAIN g
          BY <1>1, <1>4, <2>1, StatementOrder
    <2>3. PICK b : GoodBook(b) /\ g["planned_rr_total"]
                                   = Answer("planned_rr_total", b, req.filter, g)
          BY <1>2, <2>2
    <2>4. "planned_rr_total" \in DOMAIN AnswerTypes /\ ReadOf("planned_rr_total", g)
          BY DEF AnswerTypes, ReadOf
    <2>5. g["planned_rr_total"] \in AnswerTypes["planned_rr_total"]
          BY <2>3, <2>4, AnswerTyped
    <2> QED BY <2>5 DEF AnswerTypes
  <1>6. s = "r_series" => g["outcome"].total_n \in Nat
    <2> SUFFICES ASSUME s = "r_series" PROVE g["outcome"].total_n \in Nat
        OBVIOUS
    <2>1. n = 6
          BY <1>3, <1>4, StatementOrder
    <2>2. "outcome" \in DOMAIN g
          BY <1>1, <1>4, <2>1, StatementOrder
    <2>3. PICK b : GoodBook(b) /\ g["outcome"] = Answer("outcome", b, req.filter, g)
          BY <1>2, <2>2
    <2>4. "outcome" \in DOMAIN AnswerTypes /\ ReadOf("outcome", g)
          BY DEF AnswerTypes, ReadOf
    <2>5. g["outcome"] \in AnswerTypes["outcome"]
          BY <2>3, <2>4, AnswerTyped
    <2>6. g["outcome"] \in OutcomeDistribution
          BY <2>5 DEF AnswerTypes
    <2> QED BY <2>6 DEF OutcomeDistribution
  <1>7. \E b : GoodBook(b) /\ Held(req, s, b)
        BY <1>2 DEF Held, g
  <1> QED BY <1>5, <1>6, <1>7 DEF ReadOf, g

\* The book and every answer of a request under way, whatever was committed since
\* its first statement, have the shape of the tables and the result classes: no
\* mean, rate or deviation divides by zero.
THEOREM AnalyticsTypeOK == Spec => []TypeOK
  <1>1. Init => ReqInv
        BY DEF Init, ReqInv
  <1>2. ASSUME BookInv, ReqInv PROVE TypeOK
    <2>1. /\ book \in [Trade -> {NULL} \cup TradeRow]
          /\ \A t \in Trade : book[t] # NULL =>
                book[t].id = t /\ (book[t].pnl # NULL => book[t].status = "CLOSED")
          BY <1>2 DEF BookInv, GoodBook, RowOf
    <2>2. ASSUME req # NULL, NEW s \in DOMAIN req.got \cap DOMAIN AnswerTypes
          PROVE  req.got[s] \in AnswerTypes[s]
      <3>1. PICK b : GoodBook(b) /\ Held(req, s, b)
            BY <1>2, <2>2, EarlierAnswers
      <3>2. ReadOf(s, req.got)
            BY <1>2, <2>2, EarlierAnswers
      <3>3. Answer(s, b, req.filter, req.got) \in AnswerTypes[s]
            BY <2>2, <3>1, <3>2, AnswerTyped
      <3> QED BY <3>1, <3>3 DEF Held
    <2> QED BY <2>1, <2>2 DEF TypeOK
  <1> QED BY <1>1, <1>2, BookInit, BookNext, ReqNext, PTL DEF Spec
-----------------------------------------------------------------------------
(* Monte Carlo. *)

\* A simulation after some of its draws.
SimState ==
    [cum : Int, peak : Int, dd : Fraction, losses : Nat, most : Nat, ruined : BOOLEAN]

\* It is ruined if and only if it stands at ruin, once something was drawn.
Told(a, i) == a \in SimState /\ (i > 0 => (a.ruined <=> a.cum <= RuinThreshold))

Fresh == [cum |-> 0, peak |-> 0, dd |-> Zero, losses |-> 0, most |-> 0, ruined |-> FALSE]

LEMMA MoreOfTwo == ASSUME NEW a \in Nat, NEW b \in Nat PROVE Max({a, b}) \in Nat
  <1>1. {a, b} \subseteq 0..a+b /\ {a, b} # {} /\ a + b \in Nat
        OBVIOUS
  <1>2. Max({a, b}) \in {a, b}
        BY <1>1, GreatestOf
  <1> QED BY <1>2

LEMMA SimSteps ==
    ASSUME NEW a \in SimState, NEW r \in Int
    PROVE  /\ SimStep(a, r) \in SimState
           /\ ~a.ruined => (SimStep(a, r).ruined <=> SimStep(a, r).cum <= RuinThreshold)
           /\ a.ruined => SimStep(a, r) = a
  <1> DEFINE cum == a.cum + r
             peak == IF cum > a.peak THEN cum ELSE a.peak
             dd == IF peak > 0 THEN <<100 * (peak - cum), peak>> ELSE Zero
             losses == IF r < 0 THEN a.losses + 1 ELSE 0
             most == Max({a.most, losses})
  <1>1. /\ a.cum \in Int /\ a.peak \in Int /\ a.dd \in Fraction /\ a.losses \in Nat
        /\ a.most \in Nat /\ a.ruined \in BOOLEAN
        BY DEF SimState
  <1>2. cum \in Int /\ peak \in Int /\ losses \in Nat /\ RuinThreshold \in Int
        BY <1>1, MetricsAssumption
  <1>3. dd \in Fraction
    <2>1. peak > 0 => 100 * (peak - cum) \in Int /\ peak \in Nat \ {0}
          BY <1>2
    <2> HIDE DEF peak, cum
    <2> QED BY <2>1 DEF Fraction, Zero
  <1>4. most \in Nat
    <2> HIDE DEF losses
    <2> QED BY <1>1, <1>2, MoreOfTwo
  <1>5. Drawn(a, r) = [cum |-> cum, peak |-> peak, dd |-> IF Less(a.dd, dd) THEN dd ELSE a.dd,
                       losses |-> losses, most |-> most, ruined |-> cum <= RuinThreshold]
        BY DEF Drawn
  <1> HIDE DEF cum, peak, dd, losses, most
  <1>6. (cum <= RuinThreshold) \in BOOLEAN
        OBVIOUS
  <1>7. Drawn(a, r) \in SimState
        BY <1>1, <1>2, <1>3, <1>4, <1>5, <1>6 DEF SimState
  <1>8. Drawn(a, r).ruined <=> Drawn(a, r).cum <= RuinThreshold
    <2>1. Drawn(a, r).ruined = (cum <= RuinThreshold) /\ Drawn(a, r).cum = cum
          BY <1>5
    <2> QED BY <2>1
  <1>9. SimStep(a, r) = IF a.ruined THEN a ELSE Drawn(a, r)
        BY DEF SimStep
  <1> QED BY <1>7, <1>8, <1>9

\* g holds the states of a simulation after each of its n draws.
Simulates(g, sim, n) ==
    g = [i \in 0..n |-> IF i = 0 THEN Fresh ELSE SimStep(g[i - 1], sim[i])]

LEMMA SimulatesExists ==
    ASSUME NEW sim, IsSeries(sim)
    PROVE  \E g : Simulates(g, sim, Len(sim))
  <1> DEFINE n == Len(sim)
             step == [q \in SimState \X (1..n) |-> SimStep(q[1], sim[q[2]])]
  <1>1. n \in Nat /\ Fresh \in SimState
        BY DEF Fresh, SimState, Zero, Fraction, IsSeries
  <1>2. \A s \in SimState, i \in 1..n : step[<<s, i>>] = SimStep(s, sim[i])
        OBVIOUS
  <1>3. \A s \in SimState, i \in 1..n : step[<<s, i>>] \in SimState
    <2> HIDE DEF step
    <2> SUFFICES ASSUME NEW s \in SimState, NEW i \in 1..n PROVE step[<<s, i>>] \in SimState
        OBVIOUS
    <2>1. step[<<s, i>>] = SimStep(s, sim[i]) /\ sim[i] \in Int
          BY <1>2 DEF IsSeries
    <2> QED BY <2>1, SimSteps
  <1> HIDE DEF step, n
  <1>4. PICK g : Iterated(g, Fresh, step, n)
        BY <1>1, IteratedExists
  <1>5. /\ g = [i \in 0..n |-> g[i]] /\ g[0] = Fresh
        /\ \A i \in 0..n : g[i] \in SimState
        /\ \A i \in 1..n : g[i] = step[<<g[i - 1], i>>]
    <2>1. Steps(SimState, Fresh, step, n, g)
          BY <1>1, <1>3, <1>4 DEF Steps
    <2>2. Stepped(SimState, Fresh, step, n, g)
          BY <2>1, IteratedIn
    <2> QED BY <2>2 DEF Stepped
  <1>6. ASSUME NEW i \in 1..n PROVE g[i] = SimStep(g[i - 1], sim[i])
    <2>1. i - 1 \in 0..n
          BY <1>1
    <2> QED BY <1>2, <1>5, <2>1
  <1>7. \A i \in 0..n : g[i] = IF i = 0 THEN Fresh ELSE SimStep(g[i - 1], sim[i])
    <2>1. \A i \in 0..n : i = 0 \/ i \in 1..n
          BY <1>1
    <2> QED BY <1>5, <1>6, <2>1
  <1> QED BY <1>5, <1>7 DEF Simulates, n

LEMMA SimulationEnds ==
    ASSUME NEW sim \in Seq(Int), Len(sim) > 0
    PROVE  /\ Simulated(sim) \in SimState
           /\ Simulated(sim).ruined <=> Simulated(sim).cum <= RuinThreshold
  <1> DEFINE n == Len(sim)
             after == CHOOSE g : Simulates(g, sim, n)
  <1>1. n \in Nat /\ n > 0 /\ \A i \in 1..n : sim[i] \in Int
        OBVIOUS
  <1>2. Fresh \in SimState
        BY DEF Fresh, SimState, Zero, Fraction
  <1>3. Simulated(sim) = after[n]
        BY DEF Simulated, Simulates, Fresh
  <1>4. Simulates(after, sim, n)
        BY SimulatesExists DEF IsSeries
  <1> HIDE DEF n
  <1> HIDE DEF after
  <1>5. \A i \in 0..n : after[i] = IF i = 0 THEN Fresh ELSE SimStep(after[i - 1], sim[i])
        BY <1>4 DEF Simulates
  <1> DEFINE T == {i \in 0..n : Told(after[i], i) /\ (i = 0 => ~after[i].ruined)}
  <1>6. 0 \in T
    <2>1. 0 \in 0..n /\ after[0] = Fresh
          BY <1>1, <1>5
    <2> QED BY <1>2, <2>1 DEF Told, Fresh
  <1>7. ASSUME NEW i \in 0..n-1, i \in T PROVE i + 1 \in T
    <2>1. i + 1 \in 1..n /\ i + 1 \in 0..n /\ i + 1 # 0 /\ (i + 1) - 1 = i /\ i + 1 > 0
          BY <1>1
    <2>2. after[i + 1] = SimStep(after[i], sim[i + 1])
          BY <1>5, <2>1
    <2>3. /\ after[i] \in SimState /\ sim[i + 1] \in Int
          /\ after[i].ruined => after[i].cum <= RuinThreshold
      <3>1. i = 0 \/ i > 0
            OBVIOUS
      <3> QED BY <1>1, <1>7, <2>1, <3>1 DEF Told
    <2>4. Told(after[i + 1], i + 1)
      <3> DEFINE b == SimStep(after[i], sim[i + 1])
      <3>1. /\ b \in SimState
            /\ ~after[i].ruined => (b.ruined <=> b.cum <= RuinThreshold)
            /\ after[i].ruined => b = after[i]
            BY <2>3, SimSteps
      <3> HIDE DEF b
      <3>2. b.ruined <=> b.cum <= RuinThreshold
            BY <2>3, <3>1
      <3> QED BY <2>2, <3>1, <3>2 DEF Told, b
    <2> QED BY <2>1, <2>4
  <1>8. \A i \in 0..n : i \in T
    <2> HIDE DEF T
    <2> QED BY <1>1, <1>6, <1>7, Along
  <1>9. Told(after[n], n)
        BY <1>1, <1>8
  <1> QED BY <1>1, <1>3, <1>9 DEF Told

LEMMA NotLessChain ==
    ASSUME NEW x \in Fraction, NEW y \in Fraction, NEW z \in Fraction,
           ~Less(x, y), ~Less(y, z)
    PROVE  ~Less(x, z)
  <1> DEFINE a == x[1]  b == x[2]  c == y[1]  d == y[2]  e == z[1]  f == z[2]
  <1>1. /\ a \in Int /\ c \in Int /\ e \in Int
        /\ b \in Nat /\ d \in Nat /\ f \in Nat /\ b > 0 /\ d > 0 /\ f > 0
        BY DEF Fraction
  <1>2. ~(a * d < c * b) /\ ~(c * f < e * d)
        BY DEF Less
  <1> SUFFICES ~(a * f < e * b)
      BY DEF Less
  <1> HIDE DEF a, b, c, d, e, f
  <1> DEFINE ad == a * d  cb == c * b  cf == c * f  ed == e * d  af == a * f  eb == e * b
  <1>3. /\ ad \in Int /\ cb \in Int /\ cf \in Int /\ ed \in Int /\ af \in Int /\ eb \in Int
        /\ cb <= ad /\ ed <= cf
        BY <1>1, <1>2
  <1>4. cb * f <= ad * f /\ ed * b <= cf * b
    <2> HIDE DEF ad, cb, cf, ed
    <2> QED BY <1>1, <1>3
  <1>5. ad * f = af * d /\ ed * b = eb * d /\ cb * f = cf * b
        BY <1>1
  <1>6. eb * d <= af * d
    <2>1. ad * f \in Int /\ cb * f \in Int /\ ed * b \in Int
          BY <1>1, <1>3
    <2> HIDE DEF ad, cb, cf, ed, af, eb
    <2> QED BY <1>4, <1>5, <2>1
  <1> HIDE DEF ad, cb, cf, ed
  <1>7. ~(af < eb)
    <2> HIDE DEF af, eb
    <2> QED BY <1>1, <1>3, <1>6
  <1> QED BY <1>7

LEMMA LessOneWay ==
    ASSUME NEW x \in Fraction, NEW y \in Fraction, Less(x, y)
    PROVE  ~Less(y, x)
  <1> DEFINE u == x[1] * y[2]  v == y[1] * x[2]
  <1>1. u \in Int /\ v \in Int
        BY DEF Fraction
  <1>2. Less(x, y) <=> u < v
        BY DEF Less
  <1>3. Less(y, x) <=> v < u
        BY DEF Less
  <1> HIDE DEF u, v
  <1> QED BY <1>1, <1>2, <1>3

\* What sort() needs of a comparison, and what comes before what in a stable sort.
Weak(I, lt) ==
    /\ \A i, j \in I : <<i, j>> \in lt => <<j, i>> \notin lt
    /\ \A i, j, k \in I : <<i, j>> \notin lt /\ <<j, k>> \notin lt => <<i, k>> \notin lt

Ahead(I, lt, x) == {y \in I : <<y, x>> \in lt \/ (<<x, y>> \notin lt /\ y < x)}

LEMMA WeakOrdered ==
    ASSUME NEW I, I \subseteq Nat, NEW lt, Weak(I, lt)
    PROVE  Ordered(I, [x \in I |-> Ahead(I, lt, x)])
  <1> DEFINE before == [x \in I |-> Ahead(I, lt, x)]
  <1>1. \A x \in I : before[x] = {y \in I : <<y, x>> \in lt \/ (<<x, y>> \notin lt /\ y < x)}
        BY DEF Ahead
  <1> HIDE DEF before
  <1>2. \A x \in I : before[x] \subseteq I /\ x \notin before[x]
    <2> SUFFICES ASSUME NEW x \in I PROVE before[x] \subseteq I /\ x \notin before[x]
        OBVIOUS
    <2>1. x \in Nat /\ ~(x < x)
          OBVIOUS
    <2>2. <<x, x>> \notin lt
          BY DEF Weak
    <2> QED BY <1>1, <2>1, <2>2
  <1>3. ASSUME NEW x \in I, NEW y \in before[x], NEW z \in before[y] PROVE z \in before[x]
    <2>1. /\ y \in I /\ z \in I /\ x \in Nat /\ y \in Nat /\ z \in Nat
          /\ <<y, x>> \in lt \/ (<<x, y>> \notin lt /\ y < x)
          /\ <<z, y>> \in lt \/ (<<y, z>> \notin lt /\ z < y)
          BY <1>1
    <2>2. <<x, y>> \notin lt /\ <<y, z>> \notin lt /\ <<x, z>> \notin lt
          BY <2>1 DEF Weak
    <2>3. CASE <<y, x>> \in lt \/ <<z, y>> \in lt
      <3>1. <<z, x>> \in lt
            BY <2>1, <2>2, <2>3 DEF Weak
      <3> QED BY <1>1, <2>1, <3>1
    <2>4. CASE <<y, x>> \notin lt /\ <<z, y>> \notin lt
      <3>1. z < x
            BY <2>1, <2>4
      <3> QED BY <1>1, <2>1, <2>2, <3>1
    <2> QED BY <2>3, <2>4
  <1>4. \A x, y \in I : x = y \/ x \in before[y] \/ y \in before[x]
    <2> SUFFICES ASSUME NEW x \in I, NEW y \in I, x # y
                 PROVE  x \in before[y] \/ y \in before[x]
        OBVIOUS
    <2>1. x < y \/ y < x
          OBVIOUS
    <2> QED BY <1>1, <2>1 DEF Weak
  <1>5. Ordered(I, before)
        BY <1>2, <1>3, <1>4 DEF Ordered
  <1> QED BY <1>5 DEF before

\* at lists the places of a sequence of n in the order lt.
Sorting(n, lt, at) ==
    /\ n \in Nat /\ Weak(1..n, lt) /\ at = [k \in 1..n |-> at[k]]
    /\ \A k \in 1..n : (\E x \in 1..n : Cardinality(Ahead(1..n, lt, x)) = k - 1)
                          => at[k] \in 1..n /\ Cardinality(Ahead(1..n, lt, at[k])) = k - 1

LEMMA SortingLists ==
    ASSUME NEW n, NEW lt, NEW at, Sorting(n, lt, at)
    PROVE  /\ at \in Bijection(1..n, 1..n)
           /\ \A i, j \in 1..n : i < j => <<at[j], at[i]>> \notin lt
  <1> DEFINE I == 1..n
             before == [x \in I |-> Ahead(I, lt, x)]
  <1>1. /\ n \in Nat /\ Weak(I, lt) /\ at = [k \in I |-> at[k]]
        /\ \A k \in I : (\E x \in I : Cardinality(Ahead(I, lt, x)) = k - 1)
                          => at[k] \in I /\ Cardinality(Ahead(I, lt, at[k])) = k - 1
        BY DEF Sorting
  <1>2. IsFiniteSet(I) /\ Cardinality(I) = n
    <2>1. 1 \in Int /\ n \in Int
          BY <1>1
    <2>2. IsFiniteSet(I) /\ Cardinality(I) = IF 1 > n THEN 0 ELSE n - 1 + 1
          BY <2>1, FS_Interval
    <2> QED BY <1>1, <2>2
  <1>3. I \subseteq Nat
        BY <1>1
  <1>4. \A x \in I : before[x] = Ahead(I, lt, x)
        OBVIOUS
  <1> HIDE DEF I
  <1>5. Ordered(I, before)
        BY <1>1, <1>3, WeakOrdered
  <1> HIDE DEF before
  <1>6. \A k \in 1..n : (\E x \in I : Cardinality(before[x]) = k - 1)
            => at[k] \in I /\ Cardinality(before[at[k]]) = k - 1
        BY <1>1, <1>4 DEF I
  <1>7. /\ at \in Bijection(1..n, I)
        /\ \A i, j \in 1..n : i < j => at[i] \in before[at[j]]
    <2>1. at = [k \in 1..Cardinality(I) |-> at[k]]
          BY <1>1, <1>2 DEF I
    <2>2. \A k \in 1..Cardinality(I) : (\E x \in I : Cardinality(before[x]) = k - 1)
              => at[k] \in I /\ Cardinality(before[at[k]]) = k - 1
          BY <1>2, <1>6
    <2> QED BY <1>2, <1>5, <2>1, <2>2, RanksListAll
  <1>8. ASSUME NEW i \in 1..n, NEW j \in 1..n, i < j PROVE <<at[j], at[i]>> \notin lt
    <2>1. at[i] \in I /\ at[j] \in I
          BY <1>7 DEF Bijection, Injection
    <2>2. at[i] \in Ahead(I, lt, at[j])
          BY <1>4, <1>7, <1>8, <2>1
    <2> QED BY <1>1, <2>1, <2>2 DEF Ahead, Weak
  <1> QED BY <1>7, <1>8 DEF I

\* Sorted numbers: the same ones, from the least to the greatest.
Ascending(s) == Sorted(s, LAMBDA x, y : x < y)

LEMMA NumbersSorted ==
    ASSUME NEW s \in Seq(Int)
    PROVE  \E at \in Bijection(1..Len(s), 1..Len(s)) :
              /\ Ascending(s) = [k \in 1..Len(s) |-> s[at[k]]]
              /\ \A i, j \in 1..Len(s) : i < j => s[at[i]] <= s[at[j]]
  <1> DEFINE n == Len(s)
             lt == {q \in (1..n) \X (1..n) : s[q[1]] < s[q[2]]}
             at == [k \in 1..Cardinality(DOMAIN s) |-> CHOOSE x \in DOMAIN s :
                       Cardinality({y \in DOMAIN s : s[y] < s[x] \/ (~(s[x] < s[y]) /\ y < x)})
                           = k - 1]
  <1>1. n \in Nat /\ DOMAIN s = 1..n /\ \A i \in 1..n : s[i] \in Int
        OBVIOUS
  <1>2. Ascending(s) = [k \in DOMAIN at |-> s[at[k]]]
        BY DEF Ascending, Sorted, Enumerate
  <1>3. Cardinality(1..n) = n
    <2>1. 1 \in Int /\ n \in Int
          BY <1>1
    <2>2. Cardinality(1..n) = IF 1 > n THEN 0 ELSE n - 1 + 1
          BY <2>1, FS_Interval
    <2> QED BY <1>1, <2>2
  <1>4. \A i, j \in 1..n : <<i, j>> \in lt <=> s[i] < s[j]
        OBVIOUS
  <1> HIDE DEF lt
  <1>5. Weak(1..n, lt)
    <2> HIDE DEF n
    <2> QED BY <1>1, <1>4 DEF Weak
  <1>6. \A x \in 1..n : Ahead(1..n, lt, x)
                            = {y \in 1..n : s[y] < s[x] \/ (~(s[x] < s[y]) /\ y < x)}
        BY <1>4 DEF Ahead
  <1>7. at = [k \in 1..n |-> at[k]] /\ DOMAIN at = 1..n
    <2> DEFINE Place(k) == CHOOSE x \in DOMAIN s :
                              Cardinality({y \in DOMAIN s : s[y] < s[x] \/ (~(s[x] < s[y]) /\ y < x)})
                                  = k - 1
    <2>1. at = [k \in 1..Cardinality(DOMAIN s) |-> Place(k)]
          OBVIOUS
    <2> HIDE DEF at, Place
    <2> QED BY <1>1, <1>3, <2>1
  <1>8. ASSUME NEW k \in 1..n, \E x \in 1..n : Cardinality(Ahead(1..n, lt, x)) = k - 1
        PROVE  at[k] \in 1..n /\ Cardinality(Ahead(1..n, lt, at[k])) = k - 1
    <2> DEFINE R(x) == {y \in DOMAIN s : s[y] < s[x] \/ (~(s[x] < s[y]) /\ y < x)}
    <2>1. \A x \in DOMAIN s : R(x) = Ahead(1..n, lt, x)
          BY <1>1, <1>6
    <2>2. k \in 1..Cardinality(DOMAIN s)
          BY <1>1, <1>3
    <2>3. at[k] = CHOOSE x \in DOMAIN s : Cardinality(R(x)) = k - 1
          BY <2>2
    <2> HIDE DEF at, R, n
    <2>4. \E x \in DOMAIN s : Cardinality(R(x)) = k - 1
          BY <1>1, <1>8, <2>1
    <2>5. at[k] \in DOMAIN s /\ Cardinality(R(at[k])) = k - 1
          BY <2>3, <2>4
    <2> QED BY <1>1, <2>1, <2>5
  <1> HIDE DEF at
  <1>9. Sorting(n, lt, at)
    <2> HIDE DEF n
    <2> QED BY <1>1, <1>5, <1>7, <1>8 DEF Sorting
  <1>10. /\ at \in Bijection(1..n, 1..n)
         /\ \A i, j \in 1..n : i < j => <<at[j], at[i]>> \notin lt
         BY <1>9, SortingLists
  <1>11. ASSUME NEW i \in 1..n, NEW j \in 1..n, i < j PROVE s[at[i]] <= s[at[j]]
    <2>1. at[i] \in 1..n /\ at[j] \in 1..n
          BY <1>10 DEF Bijection, Injection
    <2>2. ~(s[at[j]] < s[at[i]])
          BY <1>4, <1>10, <1>11, <2>1
    <2> HIDE DEF n
    <2> QED BY <1>1, <2>1, <2>2
  <1>12. Ascending(s) = [k \in 1..n |-> s[at[k]]]
         BY <1>2, <1>7
  <1> QED BY <1>10, <1>11, <1>12

\* The same of fractions.
LEMMA FractionsSorted ==
    ASSUME NEW s \in Seq(Fraction)
    PROVE  \E at \in Bijection(1..Len(s), 1..Len(s)) :
              /\ Sorted(s, Less) = [k \in 1..Len(s) |-> s[at[k]]]
              /\ \A i, j \in 1..Len(s) : i < j => ~Less(s[at[j]], s[at[i]])
  <1> DEFINE n == Len(s)
             lt == {q \in (1..n) \X (1..n) : Less(s[q[1]], s[q[2]])}
             at == [k \in 1..Cardinality(DOMAIN s) |-> CHOOSE x \in DOMAIN s :
                       Cardinality({y \in DOMAIN s : Less(s[y], s[x]) \/ (~Less(s[x], s[y]) /\ y < x)})
                           = k - 1]
  <1>1. n \in Nat /\ DOMAIN s = 1..n /\ \A i \in 1..n : s[i] \in Fraction
        OBVIOUS
  <1>2. Sorted(s, Less) = [k \in DOMAIN at |-> s[at[k]]]
        BY DEF Sorted, Enumerate
  <1>3. Cardinality(1..n) = n
    <2>1. 1 \in Int /\ n \in Int
          BY <1>1
    <2>2. Cardinality(1..n) = IF 1 > n THEN 0 ELSE n - 1 + 1
          BY <2>1, FS_Interval
    <2> QED BY <1>1, <2>2
  <1>4. \A i, j \in 1..n : <<i, j>> \in lt <=> Less(s[i], s[j])
        OBVIOUS
  <1> HIDE DEF lt
  <1>5. Weak(1..n, lt)
    <2> HIDE DEF n
    <2>1. \A x, y \in Fraction : Less(x, y) => ~Less(y, x)
          BY LessOneWay
    <2>2. \A x, y, z \in Fraction : ~Less(x, y) /\ ~Less(y, z) => ~Less(x, z)
          BY NotLessChain
    <2> QED BY <1>1, <1>4, <2>1, <2>2 DEF Weak
  <1>6. \A x \in 1..n : Ahead(1..n, lt, x)
                            = {y \in 1..n : Less(s[y], s[x]) \/ (~Less(s[x], s[y]) /\ y < x)}
        BY <1>4 DEF Ahead
  <1>7. at = [k \in 1..n |-> at[k]] /\ DOMAIN at = 1..n
    <2> DEFINE Place(k) == CHOOSE x \in DOMAIN s :
                              Cardinality({y \in DOMAIN s : Less(s[y], s[x]) \/ (~Less(s[x], s[y]) /\ y < x)})
                                  = k - 1
    <2>1. at = [k \in 1..Cardinality(DOMAIN s) |-> Place(k)]
          OBVIOUS
    <2> HIDE DEF at, Place
    <2> QED BY <1>1, <1>3, <2>1
  <1>8. ASSUME NEW k \in 1..n, \E x \in 1..n : Cardinality(Ahead(1..n, lt, x)) = k - 1
        PROVE  at[k] \in 1..n /\ Cardinality(Ahead(1..n, lt, at[k])) = k - 1
    <2> DEFINE R(x) == {y \in DOMAIN s : Less(s[y], s[x]) \/ (~Less(s[x], s[y]) /\ y < x)}
    <2>1. \A x \in DOMAIN s : R(x) = Ahead(1..n, lt, x)
          BY <1>1, <1>6
    <2>2. k \in 1..Cardinality(DOMAIN s)
          BY <1>1, <1>3
    <2>3. at[k] = CHOOSE x \in DOMAIN s : Cardinality(R(x)) = k - 1
          BY <2>2
    <2> HIDE DEF at, R, n
    <2>4. \E x \in DOMAIN s : Cardinality(R(x)) = k - 1
          BY <1>1, <1>8, <2>1
    <2>5. at[k] \in DOMAIN s /\ Cardinality(R(at[k])) = k - 1
          BY <2>3, <2>4
    <2> QED BY <1>1, <2>1, <2>5
  <1> HIDE DEF at
  <1>9. Sorting(n, lt, at)
    <2> HIDE DEF n
    <2> QED BY <1>1, <1>5, <1>7, <1>8 DEF Sorting
  <1>10. /\ at \in Bijection(1..n, 1..n)
         /\ \A i, j \in 1..n : i < j => <<at[j], at[i]>> \notin lt
         BY <1>9, SortingLists
  <1>11. ASSUME NEW i \in 1..n, NEW j \in 1..n, i < j PROVE ~Less(s[at[j]], s[at[i]])
    <2>1. at[i] \in 1..n /\ at[j] \in 1..n
          BY <1>10 DEF Bijection, Injection
    <2> QED BY <1>4, <1>10, <1>11, <2>1
  <1>12. Sorted(s, Less) = [k \in 1..n |-> s[at[k]]]
         BY <1>2, <1>7
  <1> QED BY <1>10, <1>11, <1>12

\* A part of 1..n that has no gaps is the first as many as it has.
LEMMA FirstOnes ==
    ASSUME NEW n \in Nat, NEW V, V \subseteq 1..n,
           \A i \in V : \A j \in 1..n : j < i => j \in V
    PROVE  /\ Cardinality(V) \in 0..n
           /\ \A k \in 1..n : k \in V <=> k <= Cardinality(V)
  <1> DEFINE c == Cardinality(V)
  <1>1. ASSUME NEW k \in 0..n PROVE IsFiniteSet(1..k) /\ Cardinality(1..k) = k
    <2>1. 1 \in Int /\ k \in Int /\ k >= 0
          OBVIOUS
    <2>2. IsFiniteSet(1..k) /\ Cardinality(1..k) = IF 1 > k THEN 0 ELSE k - 1 + 1
          BY <2>1, FS_Interval
    <2> QED BY <2>1, <2>2
  <1>2. n \in 0..n /\ V \in SUBSET (1..n)
        OBVIOUS
  <1>3. IsFiniteSet(V) /\ c \in Nat /\ c <= n
    <2>1. IsFiniteSet(1..n) /\ Cardinality(1..n) = n
          BY <1>1, <1>2
    <2>2. IsFiniteSet(V) /\ Cardinality(V) <= Cardinality(1..n)
          BY <1>2, <2>1, FS_Subset
    <2> QED BY <2>1, <2>2, FS_CardinalityType
  <1> HIDE DEF c
  <1>4. ASSUME NEW k \in 1..n, k \in V PROVE k <= c
    <2>1. k \in 0..n /\ \A j \in 1..k : j = k \/ (j < k /\ j \in 1..n)
          OBVIOUS
    <2>2. (1..k) \in SUBSET V
          BY <1>4, <2>1
    <2>3. Cardinality(1..k) <= c
          BY <1>3, <2>2, FS_Subset DEF c
    <2> QED BY <1>1, <2>1, <2>3
  <1>5. ASSUME NEW k \in 1..n, k \notin V PROVE ~(k <= c)
    <2>1. k - 1 \in 0..n
          OBVIOUS
    <2>2. \A j \in V : j \in 1..n /\ ~(k < j) /\ j # k
          BY <1>5
    <2>3. V \in SUBSET (1..k-1)
      <3> SUFFICES ASSUME NEW j \in V PROVE j \in 1..k-1
          OBVIOUS
      <3>1. j \in 1..n /\ ~(k < j) /\ j # k
            BY <2>2
      <3> QED BY <3>1
    <2>4. IsFiniteSet(1..k-1) /\ Cardinality(1..k-1) = k - 1
          BY <1>1, <2>1
    <2>5. Cardinality(V) <= Cardinality(1..k-1)
          BY <2>3, <2>4, FS_Subset
    <2> QED BY <1>3, <2>4, <2>5 DEF c
  <1>6. c \in 0..n
        BY <1>3
  <1> QED BY <1>4, <1>5, <1>6 DEF c

\* As many of the sorted numbers are at most T as of the unsorted: the first ones.
LEMMA SortedCounts ==
    ASSUME NEW s \in Seq(Int), NEW T \in Int
    PROVE  LET c == Cardinality({i \in 1..Len(s) : s[i] <= T})
           IN  /\ c \in 0..Len(s)
               /\ \A k \in 1..Len(s) : Ascending(s)[k] <= T <=> k <= c
  <1> DEFINE n == Len(s)
             R == {i \in 1..n : s[i] <= T}
             c == Cardinality(R)
  <1>1. PICK at \in Bijection(1..n, 1..n) :
              /\ Ascending(s) = [k \in 1..n |-> s[at[k]]]
              /\ \A i, j \in 1..n : i < j => s[at[i]] <= s[at[j]]
        BY NumbersSorted
  <1> DEFINE V == {k \in 1..n : s[at[k]] <= T}
  <1>2. n \in Nat /\ \A i \in 1..n : s[i] \in Int
        OBVIOUS
  <1>3. /\ \A i \in 1..n : at[i] \in 1..n
        /\ \A i, j \in 1..n : at[i] = at[j] => i = j
        /\ \A x \in 1..n : \E i \in 1..n : at[i] = x
        BY <1>1 DEF Bijection, Injection, Surjection, IsInjective
  <1> HIDE DEF n
  <1>4. V \subseteq 1..n /\ IsFiniteSet(V)
    <2>1. 1 \in Int /\ n \in Int
          BY <1>2
    <2>2. IsFiniteSet(1..n) /\ V \in SUBSET (1..n)
          BY <2>1, FS_Interval
    <2> HIDE DEF V
    <2> QED BY <2>2, FS_Subset
  <1>5. ASSUME NEW i \in V, NEW j \in 1..n, j < i PROVE j \in V
    <2>1. i \in 1..n /\ s[at[i]] <= T /\ s[at[j]] <= s[at[i]]
          BY <1>1, <1>5
    <2>2. s[at[i]] \in Int /\ s[at[j]] \in Int
          BY <1>2, <1>3, <2>1
    <2> QED BY <2>1, <2>2
  <1>6. Cardinality(R) = Cardinality(V)
    <2> DEFINE to == [i \in V |-> at[i]]
    <2>1. to \in [V -> R] /\ \A i \in V : to[i] = at[i]
          BY <1>3
    <2>2. \A i, j \in V : to[i] = to[j] => i = j
          BY <1>3, <1>4
    <2>3. \A x \in R : \E i \in V : to[i] = x
      <3> SUFFICES ASSUME NEW x \in R PROVE \E i \in V : to[i] = x
          OBVIOUS
      <3>1. PICK i \in 1..n : at[i] = x
            BY <1>3
      <3> QED BY <3>1
    <2> HIDE DEF to, V, R
    <2>4. to \in Bijection(V, R)
          BY <2>1, <2>2, <2>3, Zenon DEF Bijection, Injection, Surjection, IsInjective
    <2> QED BY <1>4, <2>4, FS_Bijection DEF ExistsBijection
  <1>7. \A k \in 1..n : Ascending(s)[k] <= T <=> k \in V
        BY <1>1
  <1> HIDE DEF V
  <1>8. /\ Cardinality(V) \in 0..n
        /\ \A k \in 1..n : k \in V <=> k <= Cardinality(V)
        BY <1>2, <1>4, <1>5, FirstOnes
  <1> HIDE DEF R
  <1>9. c \in 0..n /\ \A k \in 1..n : Ascending(s)[k] <= T <=> k <= c
        BY <1>6, <1>7, <1>8
  <1> QED BY <1>9 DEF n, R

\* Where the percentiles of three values are.
LEMMA ThreePercentiles ==
    ASSUME NEW s, Len(s) = 3
    PROVE  PercentileOf(s, 50) = s[2] /\ PercentileOf(s, 5) = s[1] /\ PercentileOf(s, 95) = s[3]
  <1>1. /\ (3 * 50) \div 100 = 1 /\ (3 * 5) \div 100 = 0 /\ (3 * 95) \div 100 = 2 /\ 3 - 1 = 2
        OBVIOUS
  <1>2. Min({1, 2}) = 1 /\ Min({0, 2}) = 0 /\ Min({2, 2}) = 2
        BY DEF Min
  <1> QED BY <1>1, <1>2 DEF PercentileOf

LEMMA ListOf ==
    ASSUME NEW A, NEW n \in Nat, NEW s \in [1..n -> A]
    PROVE  s \in Seq(A) /\ Len(s) = n
  OBVIOUS

LEMMA ThreeSimulations ==
    ASSUME NEW sims, \A i \in 1..3 : sims[i] \in Seq(Int) /\ Len(sims[i]) > 0, Len(sims) = 3
    PROVE  LET mc == compute_monte_carlo(sims)
           IN  /\ Less(<<50, 1>>, mc.risk_of_ruin_pct) <=> mc.median_final_r <= RuinThreshold
               /\ mc.risk_of_ruin_pct[1] > 0 <=> mc.p5_final_r <= RuinThreshold
               /\ ~Less(mc.worst_max_drawdown_pct, mc.p5_max_drawdown_pct)
  <1> DEFINE mc == compute_monte_carlo(sims)
             ends == [i \in 1..3 |-> Simulated(sims[i])]
             cums == [i \in 1..3 |-> ends[i].cum]
             dds == [i \in 1..3 |-> ends[i].dd]
             finals == Ascending(cums)
             falls == Sorted(dds, Less)
             R == {i \in 1..3 : ends[i].ruined}
             c == Cardinality(R)
  <1>1. /\ mc.median_final_r = PercentileOf(finals, 50)
        /\ mc.p5_final_r = PercentileOf(finals, 5)
        /\ mc.p5_max_drawdown_pct = PercentileOf(falls, 95)
        /\ mc.worst_max_drawdown_pct = Last(falls)
        /\ mc.risk_of_ruin_pct = Percent(c, 3)
        BY DEF compute_monte_carlo, Ascending
  <1>2. ASSUME NEW i \in 1..3
        PROVE  ends[i] \in SimState /\ (ends[i].ruined <=> ends[i].cum <= RuinThreshold)
        BY SimulationEnds
  <1>3. \A i \in 1..3 : cums[i] = ends[i].cum /\ dds[i] = ends[i].dd
        OBVIOUS
  <1>4. cums = [i \in 1..3 |-> cums[i]] /\ dds = [i \in 1..3 |-> dds[i]]
        OBVIOUS
  <1> HIDE DEF mc, ends, cums, dds, finals, falls, R
  <1>5. \A i \in 1..3 : cums[i] \in Int /\ dds[i] \in Fraction
        BY <1>2, <1>3 DEF SimState
  <1>6. cums \in Seq(Int) /\ Len(cums) = 3 /\ dds \in Seq(Fraction) /\ Len(dds) = 3
    <2>1. cums \in [1..3 -> Int] /\ dds \in [1..3 -> Fraction] /\ 3 \in Nat
          BY <1>4, <1>5
    <2> QED BY <2>1, ListOf
  <1>7. R = {i \in 1..Len(cums) : cums[i] <= RuinThreshold}
        BY <1>2, <1>3, <1>6 DEF R
  <1>8. /\ c \in 0..3
        /\ \A k \in 1..3 : finals[k] <= RuinThreshold <=> k <= c
    <2>1. RuinThreshold \in Int
          BY MetricsAssumption
    <2> QED BY <1>6, <1>7, <2>1, SortedCounts DEF finals
  <1>9. Len(finals) = 3 /\ Len(falls) = 3 /\ falls[3] \in Fraction
    <2>1. PICK at \in Bijection(1..3, 1..3) : falls = [k \in 1..3 |-> dds[at[k]]]
          BY <1>6, FractionsSorted DEF falls
    <2>2. PICK to \in Bijection(1..3, 1..3) : finals = [k \in 1..3 |-> cums[to[k]]]
      <3>1. PICK to \in Bijection(1..Len(cums), 1..Len(cums)) :
                Ascending(cums) = [k \in 1..Len(cums) |-> cums[to[k]]]
            BY <1>6, NumbersSorted
      <3> QED BY <1>6, <3>1 DEF finals
    <2>3. at[3] \in 1..3
      <3>1. 3 \in 1..3
            OBVIOUS
      <3> QED BY <3>1 DEF Bijection, Injection
    <2> QED BY <1>5, <2>1, <2>2, <2>3
  <1>10. /\ mc.median_final_r = finals[2] /\ mc.p5_final_r = finals[1]
         /\ mc.p5_max_drawdown_pct = falls[3] /\ mc.worst_max_drawdown_pct = falls[3]
         BY <1>1, <1>9, ThreePercentiles DEF Last
  <1>11. mc.risk_of_ruin_pct = <<100 * c, 3>>
         BY <1>1, <1>8 DEF Percent, Norm
  <1> HIDE DEF c
  <1>12. Less(<<50, 1>>, mc.risk_of_ruin_pct) <=> 2 <= c
         BY <1>8, <1>11 DEF Less
  <1>13. mc.risk_of_ruin_pct[1] > 0 <=> 1 <= c
         BY <1>8, <1>11
  <1>14. ~Less(falls[3], falls[3])
         BY <1>9, LessOneWay
  <1>15. /\ Less(<<50, 1>>, mc.risk_of_ruin_pct) <=> mc.median_final_r <= RuinThreshold
         /\ mc.risk_of_ruin_pct[1] > 0 <=> mc.p5_final_r <= RuinThreshold
         /\ ~Less(mc.worst_max_drawdown_pct, mc.p5_max_drawdown_pct)
         BY <1>8, <1>10, <1>12, <1>13, <1>14
  <1> QED BY <1>15 DEF mc

\* The three simulations the property looks at: a simulation that is ruined stays at
\* ruin, so most of them are ruined exactly if the median final result is at ruin, and
\* one is exactly if the lowest is: for any book, filter and threshold.
THEOREM RuinAlwaysMatchesFinals == Spec => []RuinMatchesFinals
  <1>1. ASSUME GoodBook(book), NEW f, Len(get_r_multiples_for_monte_carlo(book, f)) \in 1..2,
               NEW sims \in MonteCarloRuns(book, f, 3)
        PROVE  LET mc == compute_monte_carlo(sims)
               IN  /\ Less(<<50, 1>>, mc.risk_of_ruin_pct) <=> mc.median_final_r <= RuinThreshold
                   /\ mc.risk_of_ruin_pct[1] > 0 <=> mc.p5_final_r <= RuinThreshold
                   /\ ~Less(mc.worst_max_drawdown_pct, mc.p5_max_drawdown_pct)
    <2> DEFINE pool == get_r_multiples_for_monte_carlo(book, f)
               n == Len(pool)
               S == WithR(Selected(book, f))
    <2>1. Rows(S) /\ \A x \in S : x.pnl.r # NULL
      <3>1. S \in SUBSET Selected(book, f) /\ \A x \in S : x.pnl.r # NULL
            BY DEF WithR
      <3> QED BY <1>1, <3>1, SelectedRows, PartOfRows
    <2>2. pool \in Seq(Int) /\ n \in 1..2
          BY <1>1, <2>1, RSeries DEF get_r_multiples_for_monte_carlo
    <2>3. sims \in [1..3 -> [DOMAIN pool -> Range(pool)]]
          BY DEF MonteCarloRuns
    <2> HIDE DEF pool
    <2>4. DOMAIN pool = 1..n /\ Range(pool) \subseteq Int /\ n \in Nat /\ n > 0
          BY <2>2 DEF Range
    <2> HIDE DEF n
    <2>5. ASSUME NEW i \in 1..3 PROVE sims[i] \in Seq(Int) /\ Len(sims[i]) > 0
      <3>1. sims[i] \in [1..n -> Int]
            BY <2>3, <2>4
      <3> QED BY <2>4, <3>1
    <2>6. Len(sims) = 3
          BY <2>3
    <2> QED BY <2>5, <2>6, ThreeSimulations
  <1>2. ASSUME BookInv PROVE RuinMatchesFinals
    <2>1. GoodBook(book)
          BY <1>2 DEF BookInv
    <2> QED BY <1>1, <2>1, Zenon DEF RuinMatchesFinals
  <1> QED BY <1>2, BookInit, BookNext, PTL DEF Spec
================================================================================
