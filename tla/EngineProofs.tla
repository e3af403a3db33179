---------------------------- MODULE EngineProofs ----------------------------
(***************************************************************************)
(* What the engine's decisions on one fill do to a trades row and to the   *)
(* totals of the fills: shared by the proofs about single requests         *)
(* (Reconstruction) and overlapping ones (TradeSessions).                  *)
(***************************************************************************)
EXTENDS TradeEngine, SumTheorems

----------------------------------------------------------------------------
(* What the engine's operators do to one row *)

\* An entry fill keeps the row's quantities in agreement and moves its signed
\* net position by exactly the fill's signed quantity.
LEMMA EntryStep ==
    ASSUME NEW row \in TradeRow, QuantitiesAgree(row), row.status # "CLOSED",
           NEW q \in Qty, NEW side \in Side, FillRoleFor(row.dir, side) = "ENTRY"
    PROVE  LET s == ScaledIn(SnapshotOf(row), q)
               new == EntryWritten(row, s)
           IN  /\ s \in Snapshot
               /\ new \in TradeRow
               /\ QuantitiesAgree(new)
               /\ SnapshotOf(new) = s
               /\ new.status # "CLOSED"
               /\ new.acct = row.acct /\ new.dir = row.dir
               /\ new.first = row.first /\ new.deleted = row.deleted
               /\ ResumedPosition(new) = ResumedPosition(row) + SignedQty(side, q)
  <1> DEFINE s == ScaledIn(SnapshotOf(row), q)
             new == EntryWritten(row, s)
  <1>1. /\ s = [dir |-> row.dir, entry |-> row.entry + q, exit |-> row.exit,
                net |-> row.net + q,
                status |-> IF row.exit > 0 THEN "PARTIAL" ELSE "OPEN"]
        BY DEF ScaledIn, SnapshotOf
  <1>2. /\ new.acct = row.acct /\ new.dir = row.dir /\ new.status = s.status
        /\ new.entry = s.entry /\ new.exit = row.exit /\ new.net = s.net
        /\ new.first = row.first /\ new.deleted = row.deleted
        BY DEF EntryWritten, TradeRow
  <1>3. /\ q \in Nat \ {0}
        /\ row.entry \in Nat /\ row.exit \in Nat /\ row.net \in Int
        /\ row.dir \in Direction
        BY QtyAssumption DEF TradeRow
  <1>4. s \in Snapshot
        BY <1>1, <1>3 DEF Snapshot
  <1>5. new \in TradeRow
    <2>1. s.entry \in Nat /\ s.net \in Int /\ s.status \in {"OPEN", "PARTIAL"}
          BY <1>1, <1>3
    <2>2. \A x, y, z : x \in Nat /\ y \in Int /\ z \in {"OPEN", "PARTIAL"}
             => [row EXCEPT !.entry = x, !.net = y, !.status = z] \in TradeRow
          BY DEF TradeRow
    <2> QED BY <2>1, <2>2 DEF EntryWritten
  <1>6. QuantitiesAgree(new)
        BY <1>1, <1>2, <1>3 DEF QuantitiesAgree
  <1>7. SnapshotOf(new) = s
        BY <1>1, <1>2 DEF SnapshotOf
  <1>8. new.status # "CLOSED"
        BY <1>1, <1>2
  <1>9. ResumedPosition(new) = ResumedPosition(row) + SignedQty(side, q)
        BY <1>1, <1>2, <1>3 DEF ResumedPosition, SignedQty, FillRoleFor, Direction, Side
  <1> QED BY <1>2, <1>4, <1>5, <1>6, <1>7, <1>8, <1>9

\* An exit of at most the net quantity does the same, and closes the trade
\* exactly when it reaches zero.
LEMMA ExitStep ==
    ASSUME NEW row \in TradeRow, QuantitiesAgree(row), row.status # "CLOSED",
           NEW q \in Qty, NEW side \in Side, FillRoleFor(row.dir, side) = "EXIT",
           ~CrossesZero(ResumedPosition(row), ResumedPosition(row) + SignedQty(side, q))
    PROVE  LET s == ScaledOut(SnapshotOf(row), q)
               new == ExitWritten(row, s)
           IN  /\ row.net # q => s \in Snapshot
               /\ new \in TradeRow
               /\ QuantitiesAgree(new)
               /\ SnapshotOf(new) = s
               /\ new.status = "CLOSED" <=> row.net = q
               /\ new.acct = row.acct /\ new.dir = row.dir
               /\ new.first = row.first /\ new.deleted = row.deleted
               /\ ResumedPosition(new) = ResumedPosition(row) + SignedQty(side, q)
  <1> DEFINE s == ScaledOut(SnapshotOf(row), q)
             new == ExitWritten(row, s)
  <1>1. /\ s = [dir |-> row.dir, entry |-> row.entry, exit |-> row.exit + q,
                net |-> row.net - q,
                status |-> IF row.net = q THEN "CLOSED" ELSE "PARTIAL"]
        BY DEF ScaledOut, SnapshotOf
  <1>2. /\ new.acct = row.acct /\ new.dir = row.dir /\ new.status = s.status
        /\ new.entry = row.entry /\ new.exit = s.exit /\ new.net = s.net
        /\ new.first = row.first /\ new.deleted = row.deleted
        BY DEF ExitWritten, TradeRow
  <1>3. /\ q \in Nat \ {0}
        /\ row.entry \in Nat /\ row.exit \in Nat /\ row.net \in Int
        /\ row.dir \in Direction
        BY QtyAssumption DEF TradeRow
  <1>4. row.net > 0 /\ row.net = row.entry - row.exit
        BY <1>3 DEF QuantitiesAgree
  <1>5. q <= row.net
        BY <1>3, <1>4 DEF CrossesZero, ResumedPosition, SignedQty, FillRoleFor,
                          Direction, Side
  <1>6. row.net # q => s \in Snapshot
        BY <1>1, <1>3 DEF Snapshot
  <1>7. new \in TradeRow
    <2>1. s.exit \in Nat /\ s.net \in Int /\ s.status \in {"PARTIAL", "CLOSED"}
          BY <1>1, <1>3
    <2>2. \A x, y, z : x \in Nat /\ y \in Int /\ z \in {"PARTIAL", "CLOSED"}
             => [row EXCEPT !.exit = x, !.net = y, !.status = z] \in TradeRow
          BY DEF TradeRow
    <2> QED BY <2>1, <2>2 DEF ExitWritten
  <1>8. QuantitiesAgree(new)
        BY <1>1, <1>2, <1>3, <1>4, <1>5 DEF QuantitiesAgree
  <1>9. SnapshotOf(new) = s
        BY <1>1, <1>2 DEF SnapshotOf
  <1>10. new.status = "CLOSED" <=> row.net = q
        BY <1>1, <1>2
  <1>11. ResumedPosition(new) = ResumedPosition(row) + SignedQty(side, q)
        BY <1>1, <1>2, <1>3 DEF ResumedPosition, SignedQty, FillRoleFor, Direction, Side
  <1> QED BY <1>2, <1>6, <1>7, <1>8, <1>9, <1>10, <1>11

\* What a scale-in and a scale-out leave of a row, even one that is not the row
\* the snapshot was taken from.
LEMMA EntryTyped ==
    ASSUME NEW row \in TradeRow, NEW p \in Snapshot, NEW q \in Qty, NEW side \in Side,
           FillRoleFor(p.dir, side) = "ENTRY"
    PROVE  LET c == ScaledIn(p, q)
               new == EntryWritten(row, c)
           IN  /\ c \in Snapshot /\ c.status # "CLOSED" /\ new \in TradeRow
               /\ p = SnapshotOf(row) => c = SnapshotOf(new)
               /\ ResumedPosition(p) + SignedQty(side, q) = ResumedPosition(c)
  <1> DEFINE c == ScaledIn(p, q)
             new == EntryWritten(row, c)
  <1>1. q \in Nat \ {0} /\ p.entry \in Nat /\ p.exit \in Nat /\ p.net \in Int /\ p.dir \in Direction
        BY QtyAssumption DEF Snapshot
  <1>2. /\ c = [dir |-> p.dir, entry |-> p.entry + q, exit |-> p.exit, net |-> p.net + q,
                status |-> IF p.exit > 0 THEN "PARTIAL" ELSE "OPEN"]
        /\ c.entry \in Nat /\ c.net \in Int /\ c.status \in {"OPEN", "PARTIAL"}
        BY <1>1 DEF ScaledIn
  <1>3. c \in Snapshot
        BY <1>1, <1>2 DEF Snapshot
  <1>4. new \in TradeRow
    <2>1. \A x, y, z : x \in Nat /\ y \in Int /\ z \in {"OPEN", "PARTIAL"}
             => [row EXCEPT !.entry = x, !.net = y, !.status = z] \in TradeRow
          BY DEF TradeRow
    <2> QED BY <1>2, <2>1 DEF EntryWritten
  <1>5. p = SnapshotOf(row) => c = SnapshotOf(new)
    <2>1. /\ new.dir = row.dir /\ new.status = c.status /\ new.entry = c.entry
          /\ new.exit = row.exit /\ new.net = c.net
          BY DEF EntryWritten, TradeRow
    <2> QED BY <1>2, <2>1 DEF SnapshotOf
  <1>6. ResumedPosition(p) + SignedQty(side, q) = ResumedPosition(c)
        BY <1>1, <1>2 DEF ResumedPosition, SignedQty, FillRoleFor, Direction, Side
  <1> QED BY <1>2, <1>3, <1>4, <1>5, <1>6

LEMMA ExitTyped ==
    ASSUME NEW row \in TradeRow, NEW p \in Snapshot, NEW q \in Qty, NEW side \in Side,
           FillRoleFor(p.dir, side) = "EXIT"
    PROVE  LET c == ScaledOut(p, q)
               new == ExitWritten(row, c)
           IN  /\ c.status # "CLOSED" => c \in Snapshot
               /\ c.status = "CLOSED" => ResumedPosition(p) + SignedQty(side, q) = 0
               /\ new \in TradeRow
               /\ p = SnapshotOf(row) => c = SnapshotOf(new)
               /\ ResumedPosition(p) + SignedQty(side, q) = ResumedPosition(c)
  <1> DEFINE c == ScaledOut(p, q)
             new == ExitWritten(row, c)
  <1>1. q \in Nat \ {0} /\ p.entry \in Nat /\ p.exit \in Nat /\ p.net \in Int /\ p.dir \in Direction
        BY QtyAssumption DEF Snapshot
  <1>2. /\ c = [dir |-> p.dir, entry |-> p.entry, exit |-> p.exit + q, net |-> p.net - q,
                status |-> IF p.net = q THEN "CLOSED" ELSE "PARTIAL"]
        /\ c.exit \in Nat /\ c.net \in Int /\ c.status \in {"CLOSED", "PARTIAL"}
        BY <1>1 DEF ScaledOut
  <1>3. c.status # "CLOSED" => c \in Snapshot
        BY <1>1, <1>2 DEF Snapshot
  <1>4. new \in TradeRow
    <2>1. \A x, y, z : x \in Nat /\ y \in Int /\ z \in {"CLOSED", "PARTIAL"}
             => [row EXCEPT !.exit = x, !.net = y, !.status = z] \in TradeRow
          BY DEF TradeRow
    <2> QED BY <1>2, <2>1 DEF ExitWritten
  <1>5. p = SnapshotOf(row) => c = SnapshotOf(new)
    <2>1. /\ new.dir = row.dir /\ new.status = c.status /\ new.entry = row.entry
          /\ new.exit = c.exit /\ new.net = c.net
          BY DEF ExitWritten, TradeRow
    <2> QED BY <1>2, <2>1 DEF SnapshotOf
  <1>6. ResumedPosition(p) + SignedQty(side, q) = ResumedPosition(c)
        BY <1>1, <1>2 DEF ResumedPosition, SignedQty, FillRoleFor, Direction, Side
  <1>7. c.status = "CLOSED" => ResumedPosition(c) = 0
        BY <1>1, <1>2 DEF ResumedPosition
  <1> QED BY <1>3, <1>4, <1>5, <1>6, <1>7

\* The row a flat unit's next fill opens.
LEMMA OpenStep ==
    ASSUME NEW fill \in FillRow
    PROVE  LET s == OpenedBy(fill)
               new == NewTrade(fill, s)
           IN  /\ s \in Snapshot
               /\ new \in TradeRow
               /\ QuantitiesAgree(new)
               /\ SnapshotOf(new) = s
               /\ new.status = "OPEN"
               /\ new.acct = fill.acct /\ ~new.deleted
               /\ FillRoleFor(new.dir, fill.side) = "ENTRY"
               /\ new.dir = s.dir
               /\ ResumedPosition(new) = SignedQty(fill.side, fill.qty)
  <1> DEFINE s == OpenedBy(fill)
             new == NewTrade(fill, s)
  <1>1. /\ fill.qty \in Nat \ {0} /\ fill.side \in Side
        /\ fill.acct \in Account /\ fill.ts \in Time
        BY QtyAssumption DEF FillRow
  <1>2. s = [dir |-> DirectionForFirstFill(fill.side), status |-> "OPEN",
             entry |-> fill.qty, exit |-> 0, net |-> fill.qty]
        BY DEF OpenedBy
  <1>3. s.dir \in Direction
        BY <1>2 DEF DirectionForFirstFill, Direction
  <1>4. s \in Snapshot
        BY <1>1, <1>2, <1>3 DEF Snapshot
  <1>5. new = [acct |-> fill.acct, dir |-> s.dir, status |-> "OPEN",
               entry |-> fill.qty, exit |-> 0, net |-> fill.qty,
               first |-> fill.ts, deleted |-> FALSE]
        BY <1>2 DEF NewTrade
  <1>6. new \in TradeRow
        BY <1>1, <1>3, <1>5 DEF TradeRow
  <1>7. QuantitiesAgree(new)
        BY <1>1, <1>5 DEF QuantitiesAgree
  <1>8. SnapshotOf(new) = s
        BY <1>2, <1>5 DEF SnapshotOf
  <1>9. FillRoleFor(new.dir, fill.side) = "ENTRY"
        BY <1>1, <1>2, <1>5 DEF FillRoleFor, DirectionForFirstFill, Side
  <1>10. ResumedPosition(new) = SignedQty(fill.side, fill.qty)
        BY <1>1, <1>2, <1>5 DEF ResumedPosition, SignedQty, DirectionForFirstFill, Side
  <1> QED BY <1>4, <1>5, <1>6, <1>7, <1>8, <1>9, <1>10
----------------------------------------------------------------------------
(* The totals of the fills assigned to a trade *)

AssignedAs(fs, t, r) == {f \in DOMAIN fs : fs[f].trade = t /\ fs[f].role = r}

TotalIn(fs, t, r) ==
    SumFunctionOnSet([f \in AssignedAs(fs, t, r) |-> fs[f].qty], AssignedAs(fs, t, r))

LEMMA TotalTyped ==
    ASSUME NEW fs, IsFiniteSet(DOMAIN fs), \A g \in DOMAIN fs : fs[g].qty \in Int, NEW t, NEW r
    PROVE  TotalIn(fs, t, r) \in Int
  <1> DEFINE A == AssignedAs(fs, t, r)
             p == [g \in A |-> fs[g].qty]
  <1>1. /\ IsFiniteSet(A)
        /\ \A g \in A : p[g] \in Int
        BY FS_Subset DEF AssignedAs
  <1>2. TotalIn(fs, t, r) = SumFunctionOnSet(p, A)
        BY DEF TotalIn
  <1> HIDE DEF A, p
  <1> QED BY <1>1, <1>2, SumType

\* Assigning a fill adds its quantity to one total and leaves the others alone.
LEMMA TotalAssigned ==
    ASSUME NEW fs, IsFiniteSet(DOMAIN fs), \A g \in DOMAIN fs : fs[g].qty \in Int,
           NEW f \in DOMAIN fs, fs[f].trade = NULL, NEW t, NEW role,
           NEW gs, DOMAIN gs = DOMAIN fs,
           \A g \in DOMAIN fs : g # f => gs[g] = fs[g],
           gs[f].qty = fs[f].qty, gs[f].trade = t, gs[f].role = role,
           NEW u, u # NULL, NEW r
    PROVE  TotalIn(gs, u, r) =
              TotalIn(fs, u, r) + IF u = t /\ r = role THEN fs[f].qty ELSE 0
  <1> DEFINE A == AssignedAs(fs, u, r)
             B == AssignedAs(gs, u, r)
             p == [g \in A |-> fs[g].qty]
             q == [g \in B |-> gs[g].qty]
  <1>1. /\ IsFiniteSet(A) /\ f \notin A
        /\ \A g \in A : p[g] \in Int
        BY FS_Subset DEF AssignedAs
  <1>2. TotalIn(fs, u, r) = SumFunctionOnSet(p, A) /\ TotalIn(gs, u, r) = SumFunctionOnSet(q, B)
        BY DEF TotalIn
  <1>3. SumFunctionOnSet(p, A) \in Int
    <2> HIDE DEF A, p
    <2> QED BY <1>1, SumType
  <1>4. CASE u = t /\ r = role
    <2>1. B = A \cup {f}
          BY <1>4 DEF AssignedAs
    <2>2. /\ \A g \in A \cup {f} : q[g] \in Int
          /\ \A g \in A : p[g] = q[g]
          /\ q[f] = fs[f].qty
          BY <1>1, <2>1 DEF AssignedAs
    <2>3. SumFunctionOnSet(q, A \cup {f}) = q[f] + SumFunctionOnSet(q, A)
      <3> HIDE DEF A, q
      <3> QED BY <1>1, <2>2, SumAdd
    <2>4. SumFunctionOnSet(q, A) = SumFunctionOnSet(p, A)
      <3> HIDE DEF A, p, q
      <3> QED BY <1>1, <2>2, SumEqual
    <2> HIDE DEF A, B, p, q
    <2> QED BY <1>2, <1>3, <1>4, <2>1, <2>2, <2>3, <2>4
  <1>5. CASE ~(u = t /\ r = role)
    <2>1. B = A
          BY <1>5 DEF AssignedAs
    <2>2. p = q
          BY <1>1, <2>1 DEF AssignedAs
    <2> HIDE DEF A, B, p, q
    <2> QED BY <1>2, <1>3, <1>5, <2>1, <2>2
  <1> QED BY <1>4, <1>5

\* Fills of other trades, or of none, do not count.
LEMMA TotalSame ==
    ASSUME NEW fs, NEW gs, DOMAIN fs \subseteq DOMAIN gs,
           \A g \in DOMAIN fs : gs[g] = fs[g],
           NEW u, \A g \in DOMAIN gs \ DOMAIN fs : gs[g].trade # u, NEW r
    PROVE  TotalIn(gs, u, r) = TotalIn(fs, u, r)
  <1>1. AssignedAs(gs, u, r) = AssignedAs(fs, u, r)
        BY DEF AssignedAs
  <1>2. \A g \in AssignedAs(fs, u, r) : gs[g].qty = fs[g].qty
        BY DEF AssignedAs
  <1> QED BY <1>1, <1>2 DEF TotalIn
=============================================================================
