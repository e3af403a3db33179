------------------------ MODULE ReconstructionProofs ------------------------
(***************************************************************************)
(* Safety of Reconstruction for every set of fills, accounts, quantities   *)
(* and times, every batch bound and every product family.                  *)
(***************************************************************************)
EXTENDS Reconstruction, EngineProofs

----------------------------------------------------------------------------
(* The inductive invariant *)

\* A trades table on its own.
TradesGood(ts) ==
    /\ \A t \in DOMAIN ts : QuantitiesAgree(ts[t])
    /\ \A t, u \in DOMAIN ts :
          /\ ts[t].acct = ts[u].acct
          /\ ts[t].status # "CLOSED" /\ ts[u].status # "CLOSED"
          /\ ~ts[t].deleted /\ ~ts[u].deleted
          => t = u

\* Fills against trades: assignments point to trades of the same account and
\* carry the right role, and each trade owns the fill it is named after.
LinksGood(fs, ts) ==
    /\ \A f \in DOMAIN fs : fs[f].trade # NULL =>
          LET t == fs[f].trade
          IN  /\ t \in DOMAIN ts
              /\ fs[f].acct = ts[t].acct
              /\ fs[f].role = FillRoleFor(ts[t].dir, fs[f].side)
              /\ f = t => fs[f].role = "ENTRY"
    /\ \A t \in DOMAIN ts : fs[t].trade = t

ExclusionsGood(fs, ts, xs) ==
    \A f \in DOMAIN fs :
        f \in xs <=> (fs[f].trade # NULL /\ ts[fs[f].trade].deleted)

DatabaseGood(fs, ts, xs) ==
    TradesGood(ts) /\ LinksGood(fs, ts) /\ ExclusionsGood(fs, ts, xs)

\* What the open transaction may have done to the committed tables so far.
Extends(fs, ts, db) ==
    /\ \A f \in DOMAIN db.fills : f \in DOMAIN fs /\ fs[f] = db.fills[f]
    /\ \A t \in DOMAIN db.trades :
          /\ t \in DOMAIN ts
          /\ ts[t].deleted = db.trades[t].deleted
          /\ Settled(db.trades[t]) => ts[t] = db.trades[t]

\* The run's work list is exactly what is unassigned, all of one unit.
WorkList ==
    /\ pending = {f \in DOMAIN fills : fills[f].trade = NULL}
    /\ \A f \in pending : fills[f].acct = unit

IInv ==
    /\ TypeOK
    /\ DatabaseGood(fills, trades, excluded)
    /\ DatabaseGood(committed.fills, committed.trades, committed.excluded)
    /\ NoOrphanFill
    /\ Extends(fills, trades, committed)
    /\ phase = "idle" =>
          /\ Idle
          /\ committed = Tables(fills, trades, lots, excluded)
    /\ phase = "running" => unit \in Account /\ WorkList
    /\ RunAgreesWithTables
----------------------------------------------------------------------------
(* Initial states, and the steps that begin and end a request *)

\* Empty tables and no request: the inductive invariant holds.
LEMMA InitIInv == Init => IInv
  <1> SUFFICES ASSUME Init PROVE IInv
      OBVIOUS
  <1>1. /\ fills = NoRows /\ trades = NoRows /\ lots = NoRows /\ excluded = {}
        /\ committed.fills = NoRows /\ committed.trades = NoRows
        /\ committed.lots = NoRows /\ committed.excluded = {}
        /\ Idle
        BY DEF Init, Tables
  <1>2. DOMAIN NoRows = {} /\ \A S : NoRows \in [{} -> S]
        BY DEF NoRows
  <1>3. NoSnapshot \in Snapshot
        BY DEF NoSnapshot, Snapshot, Direction
  <1>4. TypeOK
        BY <1>1, <1>2, <1>3 DEF TypeOK, TablesOK, Idle, Init, Tables
  <1>5. DatabaseGood(NoRows, NoRows, {})
        BY <1>2 DEF DatabaseGood, TradesGood, LinksGood, ExclusionsGood
  <1>6. NoOrphanFill /\ Extends(fills, trades, committed)
        BY <1>1, <1>2 DEF NoOrphanFill, Extends
  <1>7. phase = "idle" /\ phase # "running"
        BY <1>1 DEF Idle
  <1> QED BY <1>1, <1>4, <1>5, <1>6, <1>7 DEF IInv, RunAgreesWithTables, Init

\* Inserting a request's fills and resuming the unit's open trade.
LEMMA BeginIInv ==
    ASSUME IInv, NEW a \in Account, NEW F \in SUBSET (Fill \ DOMAIN fills),
           NEW new \in [F -> NewFill], NEW src \in Source, BeginRun(a, new, src)
    PROVE  IInv'
  <1> USE DEF BeginRun
  <1>1. /\ phase = "idle" /\ Idle
        /\ committed = Tables(fills, trades, lots, excluded)
        BY DEF IInv
  <1>2. \A f \in DOMAIN fills : fills[f].trade \in DOMAIN trades
        BY <1>1 DEF IInv, NoOrphanFill, Tables
  <1>3. /\ TablesOK(fills, trades, lots, excluded)
        /\ DOMAIN trades \subseteq Fill
        BY DEF IInv, TypeOK, TablesOK
  <1>4. /\ DOMAIN fills' = DOMAIN fills \cup F
        /\ \A f \in DOMAIN fills : fills'[f] = fills[f]
        /\ \A f \in F : /\ fills'[f] \in FillRow
                         /\ fills'[f].trade = NULL
                         /\ fills'[f].acct = a
        BY DEF Inserted, NewFill, FillRow
  <1>5. fills' \in [DOMAIN fills' -> FillRow]
    <2>1. \A f \in DOMAIN fills' : fills'[f] \in FillRow
          BY <1>3, <1>4 DEF TablesOK
    <2>2. fills' = [f \in DOMAIN fills' |-> fills'[f]]
          BY DEF Inserted
    <2> QED BY <2>1, <2>2
  <1>6. TablesOK(fills', trades', lots', excluded')
        BY <1>3, <1>4, <1>5 DEF TablesOK
  <1>7. /\ pending' = F
        /\ F = {f \in DOMAIN fills' : fills'[f].trade = NULL}
    <2>1. \A f \in DOMAIN fills : fills'[f].trade # NULL
          BY <1>2, <1>3, <1>4, NullAssumption
    <2>2. excluded \cap F = {}
          BY <1>3 DEF TablesOK
    <2>3. pending' = UnprocessedFills(fills', excluded, a)
          OBVIOUS
    <2>4. F = {f \in DOMAIN fills' : fills'[f].trade = NULL}
          BY <1>4, <2>1
    <2> QED BY <1>4, <2>1, <2>2, <2>3, <2>4 DEF UnprocessedFills
  <1> DEFINE Resumed ==
        /\ cur' \in DOMAIN trades \cup {NULL} /\ snap' \in Snapshot /\ pos' \in Int
        /\ \/ cur' = NULL /\ OpenTrades(trades, a) = {} /\ pos' = 0
           \/ /\ cur' \in DOMAIN trades /\ cur' \in OpenTrades(trades, a)
              /\ snap' = SnapshotOf(trades[cur'])
              /\ pos' = ResumedPosition(trades[cur'])
  <1>9. Resumed
    <2>1. CASE /\ OpenTrades(trades, a) = {}
               /\ cur' = NULL /\ snap' = NoSnapshot /\ pos' = 0
          BY <2>1 DEF NoSnapshot, Snapshot, Direction
    <2>2. CASE \E t \in DOMAIN trades :
                  /\ OpenTrades(trades, a) = {t}
                  /\ cur' = t
                  /\ snap' = SnapshotOf(trades[t])
                  /\ pos' = ResumedPosition(trades[t])
      <3>1. PICK t \in DOMAIN trades :
                  /\ OpenTrades(trades, a) = {t}
                  /\ cur' = t
                  /\ snap' = SnapshotOf(trades[t])
                  /\ pos' = ResumedPosition(trades[t])
            BY <2>2
      <3>2. trades[t] \in TradeRow /\ trades[t].status \in {"OPEN", "PARTIAL"}
            BY <1>3, <3>1 DEF TablesOK, OpenTrades
      <3>3. snap' \in Snapshot
            BY <3>1, <3>2 DEF SnapshotOf, TradeRow, Snapshot
      <3>4. pos' \in Int
            BY <3>1, <3>2 DEF ResumedPosition, TradeRow
      <3> QED BY <3>1, <3>3, <3>4
    <2> QED BY <2>1, <2>2
  <1>10. TypeOK'
         BY <1>4, <1>6, <1>7, <1>9 DEF IInv, TypeOK
  <1>11. DatabaseGood(fills', trades', excluded')
    <2>1. TradesGood(trades')
          BY DEF IInv, DatabaseGood
    <2>2. LinksGood(fills', trades')
          BY <1>3, <1>4 DEF IInv, DatabaseGood, LinksGood, TablesOK
    <2>3. ExclusionsGood(fills', trades', excluded')
          BY <1>3, <1>4 DEF IInv, DatabaseGood, ExclusionsGood, TablesOK
    <2> QED BY <2>1, <2>2, <2>3 DEF DatabaseGood
  <1>12. Extends(fills', trades', committed')
         BY <1>1, <1>4 DEF Extends, Tables
  <1>13. WorkList' /\ unit' \in Account
         BY <1>4, <1>7 DEF WorkList
  <1>14. RunAgreesWithTables'
         BY <1>9 DEF RunAgreesWithTables
  <1> QED BY <1>10, <1>11, <1>12, <1>13, <1>14 DEF IInv, NoOrphanFill

\* A rollback restores tables for which the invariant already held.
LEMMA RollbackIInv == ASSUME IInv, Rollback PROVE IInv'
  <1> USE DEF Rollback, EndRun
  <1>1. NoSnapshot \in Snapshot
        BY DEF NoSnapshot, Snapshot, Direction
  <1>2. TypeOK'
        BY <1>1 DEF IInv, TypeOK
  <1>3. DatabaseGood(fills', trades', excluded')
        BY DEF IInv
  <1>4. Extends(fills', trades', committed')
        BY DEF Extends
  <1>5. Idle' /\ committed' = Tables(fills', trades', lots', excluded')
        BY DEF IInv, TypeOK, Idle
  <1> QED BY <1>2, <1>3, <1>4, <1>5 DEF IInv, NoOrphanFill, RunAgreesWithTables

\* A commit makes the run's tables the committed ones, all its fills assigned.
LEMMA CommitIInv == ASSUME IInv, Commit PROVE IInv'
  <1> USE DEF Commit, EndRun, tables
  <1>1. NoSnapshot \in Snapshot
        BY DEF NoSnapshot, Snapshot, Direction
  <1>2. /\ committed'.fills = fills /\ committed'.trades = trades
        /\ committed'.lots = lots /\ committed'.excluded = excluded
        BY DEF Tables
  <1>3. TypeOK'
        BY <1>1, <1>2 DEF IInv, TypeOK, Tables
  <1>4. NoOrphanFill'
        BY <1>2 DEF IInv, WorkList, DatabaseGood, LinksGood, NoOrphanFill
  <1>5. Extends(fills', trades', committed')
        BY <1>2 DEF Extends
  <1>6. Idle'
        BY DEF Idle
  <1> QED BY <1>2, <1>3, <1>4, <1>5, <1>6 DEF IInv, RunAgreesWithTables

\* A deletion hides the trade and exactly the fills that are its own.
LEMMA SoftDeleteIInv ==
    ASSUME IInv, NEW t \in DOMAIN trades, SoftDelete(t) PROVE IInv'
  <1> USE DEF SoftDelete
  <1>1. /\ phase = "idle" /\ Idle
        /\ committed = Tables(fills, trades, lots, excluded)
        BY DEF IInv
  <1>2. /\ UNCHANGED <<fills, lots, phase, unit, pending, cur, snap, pos>>
        /\ committed'.fills = fills /\ committed'.trades = trades'
        /\ committed'.lots = lots /\ committed'.excluded = excluded'
        BY DEF Tables, run
  <1>3. TablesOK(fills, trades, lots, excluded)
        BY DEF IInv, TypeOK
  <1>4. /\ DOMAIN trades' = DOMAIN trades
        /\ \A u \in DOMAIN trades : u # t => trades'[u] = trades[u]
        /\ trades'[t] = [trades[t] EXCEPT !.deleted = TRUE]
        /\ trades' \in [DOMAIN trades -> TradeRow]
        BY <1>3 DEF TablesOK, TradeRow
  <1>5. /\ trades'[t].deleted
        /\ trades'[t].acct = trades[t].acct /\ trades'[t].dir = trades[t].dir
        /\ trades'[t].status = trades[t].status
        /\ trades'[t].entry = trades[t].entry /\ trades'[t].exit = trades[t].exit
        /\ trades'[t].net = trades[t].net
        BY <1>3, <1>4 DEF TablesOK, TradeRow
  <1>6. TablesOK(fills', trades', lots', excluded')
        BY <1>2, <1>3, <1>4 DEF TablesOK, FillsOf
  <1>7. TypeOK'
    <2>1. committed' = Tables(committed'.fills, committed'.trades,
                              committed'.lots, committed'.excluded)
          BY <1>2
    <2> QED BY <1>2, <1>4, <1>6, <2>1 DEF IInv, TypeOK
  <1>8. DatabaseGood(fills', trades', excluded')
    <2>1. TradesGood(trades')
      <3>1. TradesGood(trades)
            BY DEF IInv, DatabaseGood
      <3>2. ASSUME NEW u \in DOMAIN trades' PROVE QuantitiesAgree(trades'[u])
            BY <1>4, <1>5, <3>1 DEF TradesGood, QuantitiesAgree
      <3>3. ASSUME NEW u \in DOMAIN trades', NEW v \in DOMAIN trades',
                   trades'[u].acct = trades'[v].acct,
                   trades'[u].status # "CLOSED", trades'[v].status # "CLOSED",
                   ~trades'[u].deleted, ~trades'[v].deleted
            PROVE  u = v
        <4>1. u # t /\ v # t
              BY <1>5, <3>3
        <4>2. trades'[u] = trades[u] /\ trades'[v] = trades[v]
              BY <1>4, <3>3, <4>1
        <4> QED BY <1>4, <3>1, <3>3, <4>2 DEF TradesGood
      <3> DEFINE ts == trades'
      <3>4. \A u \in DOMAIN ts : QuantitiesAgree(ts[u])
            BY <3>2
      <3>5. \A u, v \in DOMAIN ts :
               /\ ts[u].acct = ts[v].acct
               /\ ts[u].status # "CLOSED" /\ ts[v].status # "CLOSED"
               /\ ~ts[u].deleted /\ ~ts[v].deleted
               => u = v
            BY <3>3
      <3> HIDE DEF ts
      <3>6. TradesGood(ts)
            BY <3>4, <3>5 DEF TradesGood
      <3> QED BY <3>6 DEF ts
    <2>2. LinksGood(fills', trades')
      <3>1. LinksGood(fills, trades)
            BY DEF IInv, DatabaseGood
      <3>2. \A u \in DOMAIN trades : trades'[u].acct = trades[u].acct
                                   /\ trades'[u].dir = trades[u].dir
            BY <1>4, <1>5
      <3> DEFINE ts == trades'
      <3>3. fills' = fills /\ DOMAIN ts = DOMAIN trades
            BY <1>2, <1>4
      <3>4. \A u \in DOMAIN trades : ts[u].acct = trades[u].acct /\ ts[u].dir = trades[u].dir
            BY <3>2
      <3> HIDE DEF ts
      <3>5. LinksGood(fills, ts)
            BY <3>1, <3>3, <3>4 DEF LinksGood
      <3> QED BY <3>3, <3>5 DEF ts
    <2>3. ExclusionsGood(fills', trades', excluded')
      <3> SUFFICES ASSUME NEW f \in DOMAIN fills
                   PROVE  f \in excluded' <=> (fills[f].trade # NULL
                                               /\ trades'[fills[f].trade].deleted)
          BY <1>2 DEF ExclusionsGood
      <3>1. fills[f].trade # NULL => fills[f].trade \in DOMAIN trades
            BY DEF IInv, DatabaseGood, LinksGood
      <3>2. t # NULL
            BY <1>3, NullAssumption DEF TablesOK
      <3> QED BY <1>4, <1>5, <3>1, <3>2
              DEF IInv, DatabaseGood, ExclusionsGood, FillsOf
    <2> QED BY <2>1, <2>2, <2>3 DEF DatabaseGood
  <1>9. NoOrphanFill'
        BY <1>1, <1>2, <1>4 DEF IInv, NoOrphanFill, Tables
  <1>10. Extends(fills', trades', committed')
         BY <1>2 DEF Extends
  <1>11. Idle' /\ phase' = "idle"
         BY <1>1, <1>2 DEF Idle
  <1> QED BY <1>2, <1>7, <1>8, <1>9, <1>10, <1>11 DEF IInv, RunAgreesWithTables
----------------------------------------------------------------------------
(* One iteration of the engine's loop *)

\* What every iteration has in common: the fill f is assigned to the trade t,
\* newly opened or current, whose row is the only one written.
LEMMA AssignIInv ==
    ASSUME IInv, phase = "running",
           NEW f \in pending, NEW t \in Fill, NEW role \in {"ENTRY", "EXIT"},
           Assign(f, t, role),
           DOMAIN trades' = DOMAIN trades \cup {t},
           trades' \in [DOMAIN trades' -> TradeRow],
           \A u \in DOMAIN trades : u # t => trades'[u] = trades[u],
           QuantitiesAgree(trades'[t]),
           trades'[t].acct = unit, ~trades'[t].deleted,
           role = FillRoleFor(trades'[t].dir, fills[f].side),
           \/ t = f /\ cur = NULL /\ role = "ENTRY"
           \/ t = cur /\ t \in DOMAIN trades /\ trades'[t].dir = trades[t].dir,
           DOMAIN lots' \subseteq DOMAIN trades', lots' \in [DOMAIN lots' -> LotRow],
           snap' \in Snapshot, pos' \in Int,
           \/ cur' = NULL /\ trades'[t].status = "CLOSED" /\ pos' = 0
           \/ /\ cur' = t /\ trades'[t].status # "CLOSED"
              /\ snap' = SnapshotOf(trades'[t])
              /\ pos' = ResumedPosition(trades'[t])
    PROVE  IInv'
  <1> USE DEF Assign
  <1>1. /\ TablesOK(fills, trades, lots, excluded)
        /\ pending \subseteq DOMAIN fills /\ f \in DOMAIN fills
        /\ fills[f] \in FillRow
        BY DEF IInv, TypeOK, TablesOK
  <1>2. /\ fills[f].trade = NULL /\ fills[f].acct = unit
        /\ pending = {g \in DOMAIN fills : fills[g].trade = NULL}
        /\ unit \in Account
        BY DEF IInv, WorkList
  <1>3. /\ TradesGood(trades) /\ LinksGood(fills, trades)
        /\ ExclusionsGood(fills, trades, excluded)
        BY DEF IInv, DatabaseGood
  <1>4. f \notin DOMAIN trades /\ t # NULL /\ f # NULL
        BY <1>1, <1>2, <1>3, NullAssumption DEF LinksGood, TablesOK
  <1>5. /\ DOMAIN fills' = DOMAIN fills
        /\ \A g \in DOMAIN fills : g # f => fills'[g] = fills[g]
        /\ fills'[f].trade = t /\ fills'[f].role = role
        /\ fills'[f].acct = unit /\ fills'[f].side = fills[f].side
        /\ fills' \in [DOMAIN fills -> FillRow]
    <2>1. \A x \in Fill : \A r \in {"ENTRY", "EXIT"} :
             [fills[f] EXCEPT !.trade = x, !.role = r] \in FillRow
          BY <1>1 DEF FillRow
    <2>2. AssignedTo(fills[f], t, role) \in FillRow
          BY <2>1 DEF AssignedTo
    <2>3. fills' = [fills EXCEPT ![f] = AssignedTo(fills[f], t, role)]
          OBVIOUS
    <2>4. fills'[f] = AssignedTo(fills[f], t, role)
          BY <1>1, <2>3
    <2>5. /\ fills'[f].trade = t /\ fills'[f].role = role
          /\ fills'[f].acct = fills[f].acct /\ fills'[f].side = fills[f].side
          BY <1>1, <2>4 DEF AssignedTo, FillRow
    <2> QED BY <1>1, <1>2, <2>2, <2>3, <2>5 DEF TablesOK
  <1>6. trades'[t] \in TradeRow
        OBVIOUS
  <1>7. \/ t = f /\ OpenTrades(trades, unit) = {}
        \/ t = cur /\ cur \in DOMAIN trades /\ cur \in OpenTrades(trades, unit)
    <2>1. \/ cur = NULL /\ OpenTrades(trades, unit) = {}
          \/ cur \in DOMAIN trades /\ cur \in OpenTrades(trades, unit)
          BY DEF IInv, RunAgreesWithTables
    <2>2. NULL \notin DOMAIN trades
          BY <1>1, NullAssumption DEF TablesOK
    <2> QED BY <2>1, <2>2
  <1>8. t \in DOMAIN fills /\ DOMAIN trades' \subseteq DOMAIN fills'
        BY <1>1, <1>5 DEF TablesOK
  <1>9. TablesOK(fills', trades', lots', excluded')
        BY <1>1, <1>5, <1>8 DEF TablesOK
  <1>10. pending' = {g \in DOMAIN fills' : fills'[g].trade = NULL}
        BY <1>2, <1>4, <1>5
  <1>11. TypeOK'
        BY <1>5, <1>9, <1>10 DEF IInv, TypeOK
  <1>12. TradesGood(trades')
    <2>1. \A u \in DOMAIN trades' : QuantitiesAgree(trades'[u])
          BY <1>3 DEF TradesGood
    <2>2. \A u \in DOMAIN trades : /\ u # t /\ trades[u].acct = unit
                                   /\ trades[u].status # "CLOSED"
                                   => trades[u].deleted
      <3> SUFFICES ASSUME NEW u \in DOMAIN trades, u # t, trades[u].acct = unit,
                          trades[u].status # "CLOSED", ~trades[u].deleted
                   PROVE  FALSE
          OBVIOUS
      <3>1. u \in OpenTrades(trades, unit)
            BY <1>1 DEF OpenTrades, TablesOK, TradeRow
      <3>2. t = cur /\ cur \in OpenTrades(trades, unit)
            BY <1>4, <1>7, <3>1
      <3> QED BY <1>3, <3>1, <3>2 DEF TradesGood, OpenTrades
    <2>3. \A u, w \in DOMAIN trades' :
             /\ trades'[u].acct = trades'[w].acct
             /\ trades'[u].status # "CLOSED" /\ trades'[w].status # "CLOSED"
             /\ ~trades'[u].deleted /\ ~trades'[w].deleted
             => u = w
      <3> SUFFICES ASSUME NEW u \in DOMAIN trades', NEW w \in DOMAIN trades',
                          trades'[u].acct = trades'[w].acct,
                          trades'[u].status # "CLOSED", trades'[w].status # "CLOSED",
                          ~trades'[u].deleted, ~trades'[w].deleted, u # w
                   PROVE  FALSE
          OBVIOUS
      <3>1. CASE u = t
            BY <2>2, <3>1
      <3>2. CASE w = t
            BY <2>2, <3>2
      <3>3. CASE u # t /\ w # t
            BY <1>3, <3>3 DEF TradesGood
      <3> QED BY <3>1, <3>2, <3>3
    <2> QED BY <2>1, <2>3 DEF TradesGood
  <1>13. LinksGood(fills', trades')
    <2>1. \A u \in DOMAIN trades' : fills'[u].trade = u
          BY <1>3, <1>4, <1>5 DEF LinksGood
    <2>2. ASSUME NEW g \in DOMAIN fills', fills'[g].trade # NULL
          PROVE  LET u == fills'[g].trade
                 IN  /\ u \in DOMAIN trades'
                     /\ fills'[g].acct = trades'[u].acct
                     /\ fills'[g].role = FillRoleFor(trades'[u].dir, fills'[g].side)
                     /\ g = u => fills'[g].role = "ENTRY"
      <3>1. CASE g = f
            BY <1>4, <1>5, <3>1
      <3>2. CASE g # f /\ fills[g].trade = t
            BY <1>3, <1>4, <1>5, <1>7, <2>2, <3>2 DEF LinksGood, OpenTrades
      <3>3. CASE g # f /\ fills[g].trade # t
            BY <1>3, <1>5, <2>2, <3>3 DEF LinksGood
      <3> QED BY <3>1, <3>2, <3>3
    <2> QED BY <2>1, <2>2 DEF LinksGood
  <1>14. ExclusionsGood(fills', trades', excluded')
    <2> SUFFICES ASSUME NEW g \in DOMAIN fills
                 PROVE  g \in excluded <=> (fills'[g].trade # NULL
                                            /\ trades'[fills'[g].trade].deleted)
        BY <1>5 DEF ExclusionsGood
    <2>1. CASE g = f
          BY <1>1, <1>2, <1>3, <1>5, <2>1 DEF ExclusionsGood
    <2>2. CASE g # f /\ fills[g].trade = t
      <3>1. t = cur /\ t \in DOMAIN trades
            BY <1>3, <1>4, <2>2 DEF LinksGood
      <3>2. ~trades[t].deleted
            BY <1>4, <1>7, <3>1 DEF OpenTrades
      <3> QED BY <1>3, <1>5, <2>2, <3>2 DEF ExclusionsGood
    <2>3. CASE g # f /\ fills[g].trade # t
          BY <1>3, <1>5, <2>3 DEF ExclusionsGood, LinksGood
    <2> QED BY <2>1, <2>2, <2>3
  <1>15. Extends(fills', trades', committed')
    <2>1. Extends(fills, trades, committed) /\ NoOrphanFill
          BY DEF IInv
    <2>2. f \notin DOMAIN committed.fills
      <3>1. ASSUME f \in DOMAIN committed.fills PROVE FALSE
        <4>1. fills[f].trade \in DOMAIN committed.trades
              BY <2>1, <3>1 DEF Extends, NoOrphanFill
        <4>2. DOMAIN committed.trades \subseteq Fill
              BY DEF IInv, TypeOK, TablesOK
        <4> QED BY <1>2, <4>1, <4>2, NullAssumption
      <3> QED BY <3>1
    <2>3. \A g \in DOMAIN committed.fills :
             g \in DOMAIN fills' /\ fills'[g] = committed.fills[g]
          BY <1>5, <2>1, <2>2 DEF Extends
    <2>4. ASSUME NEW u \in DOMAIN committed.trades
          PROVE  /\ u \in DOMAIN trades'
                 /\ trades'[u].deleted = committed.trades[u].deleted
                 /\ Settled(committed.trades[u]) => trades'[u] = committed.trades[u]
      <3>1. /\ u \in DOMAIN trades
            /\ trades[u].deleted = committed.trades[u].deleted
            /\ Settled(committed.trades[u]) => trades[u] = committed.trades[u]
            BY <2>1, <2>4 DEF Extends
      <3>2. CASE u # t
            BY <3>1, <3>2
      <3>3. CASE u = t
        <4>1. t = cur /\ cur \in OpenTrades(trades, unit)
              BY <1>4, <1>7, <3>1, <3>3
        <4>2. trades[u].status # "CLOSED" /\ trades[u].deleted = FALSE
              BY <1>1, <3>3, <4>1 DEF OpenTrades, TablesOK, TradeRow
        <4>3. trades[u] = committed.trades[u] => ~Settled(committed.trades[u])
              BY <4>2 DEF Settled
        <4>4. trades'[u].deleted = FALSE
              BY <1>6, <3>3 DEF TradeRow
        <4> QED BY <3>1, <3>3, <4>2, <4>3, <4>4
      <3> QED BY <3>2, <3>3
    <2> QED BY <2>3, <2>4 DEF Extends
  <1>16. WorkList'
        BY <1>2, <1>10 DEF IInv, WorkList
  <1>17. RunAgreesWithTables'
    <2>1. CASE cur' = NULL /\ trades'[t].status = "CLOSED" /\ pos' = 0
      <3>1. ASSUME NEW u \in OpenTrades(trades', unit) PROVE FALSE
        <4>1. u \in DOMAIN trades' /\ u # t /\ u \in DOMAIN trades
              BY <2>1, <3>1 DEF OpenTrades
        <4>2. u \in OpenTrades(trades, unit)
              BY <3>1, <4>1 DEF OpenTrades
        <4>3. t = cur /\ cur \in OpenTrades(trades, unit)
              BY <1>7, <4>2
        <4> QED BY <1>3, <4>1, <4>2, <4>3 DEF TradesGood, OpenTrades
      <3> QED BY <2>1, <3>1 DEF RunAgreesWithTables
    <2>2. CASE /\ cur' = t /\ trades'[t].status # "CLOSED"
               /\ snap' = SnapshotOf(trades'[t])
               /\ pos' = ResumedPosition(trades'[t])
      <3>1. t \in OpenTrades(trades', unit)
            BY <1>6, <2>2 DEF OpenTrades, TradeRow
      <3> QED BY <2>2, <3>1 DEF RunAgreesWithTables
    <2> QED BY <2>1, <2>2
  <1> QED BY <1>2, <1>11, <1>12, <1>13, <1>14, <1>15, <1>16, <1>17
          DEF IInv, DatabaseGood, NoOrphanFill

\* Opening a trade: the unit was flat, so no second open trade appears.
LEMMA OpenTradeIInv ==
    ASSUME IInv, NEW f \in pending, OpenTrade(f) PROVE IInv'
  <1> DEFINE s   == OpenedBy(fills[f])
             row == NewTrade(fills[f], s)
  <1>1. /\ TablesOK(fills, trades, lots, excluded)
        /\ fills[f] \in FillRow /\ f \in DOMAIN fills /\ f \in Fill
        BY DEF IInv, TypeOK, TablesOK
  <1>2. /\ phase = "running" /\ cur = NULL /\ cur' = f /\ snap' = s
        /\ trades' = [t \in DOMAIN trades \cup {f} |->
                          IF t = f THEN row ELSE trades[t]]
        /\ Assign(f, f, FillRoleFor(s.dir, fills[f].side))
        /\ lots' = IF Family = "DELIVERY"
                   THEN [t \in DOMAIN lots \cup {f} |->
                            IF t = f THEN NewLot(fills[f]) ELSE lots[t]]
                   ELSE lots
        BY DEF OpenTrade, Takes
  <1>3. /\ s \in Snapshot /\ row \in TradeRow /\ QuantitiesAgree(row)
        /\ SnapshotOf(row) = s /\ row.status = "OPEN" /\ row.dir = s.dir
        /\ row.acct = fills[f].acct /\ ~row.deleted
        /\ FillRoleFor(row.dir, fills[f].side) = "ENTRY"
        /\ ResumedPosition(row) = SignedQty(fills[f].side, fills[f].qty)
        BY <1>1, OpenStep
  <1>4. f \notin DOMAIN trades
        BY <1>1, NullAssumption DEF IInv, WorkList, DatabaseGood, LinksGood, OpenTrade, Takes
  <1>5. /\ DOMAIN trades' = DOMAIN trades \cup {f} /\ trades'[f] = row
        /\ \A u \in DOMAIN trades : u # f => trades'[u] = trades[u]
        /\ trades' \in [DOMAIN trades' -> TradeRow]
        BY <1>1, <1>2, <1>3 DEF TablesOK
  <1>6. NewLot(fills[f]) \in LotRow
    <2>1. /\ fills[f].qty \in Nat /\ fills[f].ts \in Nat
          BY <1>1, QtyAssumption, TimeAssumption DEF FillRow
    <2>2. TradeDate(fills[f].ts) \in Nat
          BY <2>1, TimeAssumption DEF TradeDate
    <2> QED BY <2>1, <2>2 DEF NewLot, LotRow
  <1>7. DOMAIN lots' \subseteq DOMAIN trades' /\ lots' \in [DOMAIN lots' -> LotRow]
        BY <1>1, <1>2, <1>5, <1>6 DEF TablesOK
  <1>8. pos = 0
    <2>1. NULL \notin DOMAIN trades
          BY <1>1, NullAssumption DEF TablesOK
    <2> QED BY <1>2, <2>1 DEF IInv, RunAgreesWithTables
  <1>9. pos' = ResumedPosition(row) /\ pos' \in Int
    <2>1. fills[f].qty \in Nat
          BY <1>1, QtyAssumption DEF FillRow
    <2>2. SignedQty(fills[f].side, fills[f].qty) \in Int
          BY <2>1 DEF SignedQty
    <2> QED BY <1>2, <1>3, <1>8, <2>2 DEF Assign, Delta
  <1>10. row.acct = unit
        BY <1>2, <1>3 DEF IInv, WorkList
  <1>11. row.status # "CLOSED" /\ Assign(f, f, "ENTRY")
        BY <1>2, <1>3
  <1> QED BY <1>1, <1>2, <1>3, <1>5, <1>7, <1>9, <1>10, <1>11, AssignIInv

\* What a fill of the current trade starts from.
LEMMA CurrentTrade ==
    ASSUME IInv, NEW f \in pending, NEW role, TakesAs(f, role)
    PROVE  /\ phase = "running"
           /\ f \in DOMAIN fills /\ fills[f] \in FillRow
           /\ cur \in DOMAIN trades /\ cur \in Fill
           /\ trades \in [DOMAIN trades -> TradeRow] /\ trades[cur] \in TradeRow
           /\ QuantitiesAgree(trades[cur])
           /\ trades[cur].acct = unit /\ trades[cur].status # "CLOSED"
           /\ ~trades[cur].deleted
           /\ snap = SnapshotOf(trades[cur])
           /\ pos = ResumedPosition(trades[cur]) /\ pos \in Int
           /\ Delta(f) = SignedQty(fills[f].side, fills[f].qty)
           /\ fills[f].qty \in Qty /\ fills[f].qty \in Nat /\ fills[f].side \in Side
           /\ FillRoleFor(trades[cur].dir, fills[f].side) = role
           /\ DOMAIN lots \subseteq DOMAIN trades /\ lots \in [DOMAIN lots -> LotRow]
  <1>1. /\ TablesOK(fills, trades, lots, excluded) /\ pending \subseteq DOMAIN fills
        /\ pos \in Int
        BY DEF IInv, TypeOK
  <1>2. /\ phase = "running" /\ cur # NULL /\ FillRoleFor(snap.dir, fills[f].side) = role
        BY DEF TakesAs, Takes
  <1>3. /\ cur \in DOMAIN trades /\ cur \in OpenTrades(trades, unit)
        /\ snap = SnapshotOf(trades[cur])
        /\ pos = ResumedPosition(trades[cur])
        BY <1>2 DEF IInv, RunAgreesWithTables
  <1>4. /\ trades[cur].acct = unit /\ trades[cur].status # "CLOSED"
        /\ ~trades[cur].deleted
        BY <1>3 DEF OpenTrades
  <1>5. QuantitiesAgree(trades[cur])
        BY <1>3 DEF IInv, DatabaseGood, TradesGood
  <1>6. fills[f] \in FillRow /\ trades[cur] \in TradeRow /\ cur \in Fill
        BY <1>1, <1>3 DEF TablesOK
  <1>7. fills[f].qty \in Qty /\ fills[f].qty \in Nat /\ fills[f].side \in Side
        BY <1>6, QtyAssumption DEF FillRow
  <1>8. snap.dir = trades[cur].dir
        BY <1>3 DEF SnapshotOf
  <1> QED BY <1>1, <1>2, <1>3, <1>4, <1>5, <1>6, <1>7, <1>8 DEF TablesOK, Delta

\* The lot table after a scale-in or an exit is still well typed.
LEMMA LotsTyped ==
    ASSUME NEW q \in Nat, lots \in [DOMAIN lots -> LotRow]
    PROVE  /\ \A c : LET ls == [lots EXCEPT ![c] = LotScaledIn(@, q)]
                     IN  DOMAIN ls = DOMAIN lots /\ ls \in [DOMAIN lots -> LotRow]
           /\ DecrementLot(q) => /\ DOMAIN lots' = DOMAIN lots
                                 /\ lots' \in [DOMAIN lots -> LotRow]
  <1>1. \A l \in DOMAIN lots : LotScaledIn(lots[l], q) \in LotRow
    <2> SUFFICES ASSUME NEW l \in DOMAIN lots PROVE LotScaledIn(lots[l], q) \in LotRow
        OBVIOUS
    <2>1. /\ lots[l] \in LotRow /\ lots[l].orig \in Nat /\ lots[l].rem \in Int
          BY DEF LotRow
    <2>2. \A x, y : x \in Nat /\ y \in Int
             => [lots[l] EXCEPT !.orig = x, !.rem = y] \in LotRow
          BY <2>1 DEF LotRow
    <2>3. /\ lots[l].orig + q \in Nat
          /\ (lots[l].orig + q) - (lots[l].orig - lots[l].rem) \in Int
          BY <2>1
    <2> QED BY <2>2, <2>3, Zenon DEF LotScaledIn
  <1>2. \A l \in DOMAIN lots : LotDecremented(lots[l], q) \in LotRow
    <2> SUFFICES ASSUME NEW l \in DOMAIN lots PROVE LotDecremented(lots[l], q) \in LotRow
        OBVIOUS
    <2>1. lots[l] \in LotRow /\ lots[l].rem \in Int
          BY DEF LotRow
    <2>2. \A x, y : x \in Int /\ y \in {"CLOSED", "PARTIALLY_CLOSED"}
             => [lots[l] EXCEPT !.rem = x, !.status = y] \in LotRow
          BY <2>1 DEF LotRow
    <2>3. /\ lots[l].rem - q \in Int
          /\ (IF lots[l].rem = q THEN "CLOSED" ELSE "PARTIALLY_CLOSED")
                \in {"CLOSED", "PARTIALLY_CLOSED"}
          BY <2>1
    <2> QED BY <2>2, <2>3, Zenon DEF LotDecremented
  <1>3. ASSUME NEW c
        PROVE  LET ls == [lots EXCEPT ![c] = LotScaledIn(@, q)]
               IN  DOMAIN ls = DOMAIN lots /\ ls \in [DOMAIN lots -> LotRow]
        BY <1>1
  <1>4. ASSUME DecrementLot(q)
        PROVE  DOMAIN lots' = DOMAIN lots /\ lots' \in [DOMAIN lots -> LotRow]
    <2>1. CASE Family = "DELIVERY"
      <3>1. PICK l \in OldestOpenLots(lots) : lots' = [lots EXCEPT ![l] = LotDecremented(@, q)]
            BY <1>4, <2>1 DEF DecrementLot, LotsAfterExit
      <3>2. l \in DOMAIN lots
            BY DEF OldestOpenLots, OpenLots
      <3> QED BY <1>2, <3>1, <3>2
    <2>2. CASE Family # "DELIVERY"
          BY <1>4, <2>2 DEF DecrementLot
    <2> QED BY <2>1, <2>2
  <1> QED BY <1>3, <1>4

\* A scale-in, as an assignment to the current trade by EntryStep.
LEMMA ScaleInIInv ==
    ASSUME IInv, NEW f \in pending, ScaleIn(f) PROVE IInv'
  <1> DEFINE row == trades[cur]
             s   == ScaledIn(snap, fills[f].qty)
             new == EntryWritten(row, s)
  <1>1. TakesAs(f, "ENTRY")
        BY DEF ScaleIn
  <1>2. /\ phase = "running"
        /\ f \in DOMAIN fills /\ fills[f] \in FillRow
        /\ cur \in DOMAIN trades /\ cur \in Fill
        /\ trades \in [DOMAIN trades -> TradeRow] /\ row \in TradeRow
        /\ QuantitiesAgree(row)
        /\ row.acct = unit /\ row.status # "CLOSED" /\ ~row.deleted
        /\ snap = SnapshotOf(row)
        /\ pos = ResumedPosition(row) /\ pos \in Int
        /\ Delta(f) = SignedQty(fills[f].side, fills[f].qty)
        /\ fills[f].qty \in Qty /\ fills[f].qty \in Nat /\ fills[f].side \in Side
        /\ FillRoleFor(row.dir, fills[f].side) = "ENTRY"
        /\ DOMAIN lots \subseteq DOMAIN trades /\ lots \in [DOMAIN lots -> LotRow]
        BY <1>1, CurrentTrade
  <1>3. /\ s \in Snapshot /\ new \in TradeRow /\ QuantitiesAgree(new)
        /\ SnapshotOf(new) = s /\ new.status # "CLOSED"
        /\ new.acct = row.acct /\ new.dir = row.dir /\ new.deleted = row.deleted
        /\ ResumedPosition(new) = pos + Delta(f)
        BY <1>2, EntryStep
  <1>4. /\ trades' = [trades EXCEPT ![cur] = new] /\ snap' = s /\ cur' = cur
        /\ Assign(f, cur, "ENTRY")
        BY DEF ScaleIn
  <1>5. /\ DOMAIN trades' = DOMAIN trades \cup {cur} /\ trades'[cur] = new
        /\ \A u \in DOMAIN trades : u # cur => trades'[u] = trades[u]
        /\ trades' \in [DOMAIN trades' -> TradeRow]
        BY <1>2, <1>3, <1>4
  <1>6. DOMAIN lots' = DOMAIN lots /\ lots' \in [DOMAIN lots' -> LotRow]
    <2>1. lots' = IF Family = "DELIVERY"
                  THEN [lots EXCEPT ![cur] = LotScaledIn(@, fills[f].qty)] ELSE lots
          BY DEF ScaleIn
    <2> QED BY <1>2, <2>1, LotsTyped
  <1>7. pos' = ResumedPosition(new) /\ pos' \in Int
    <2>1. Delta(f) \in Int
          BY <1>2 DEF SignedQty
    <2> QED BY <1>2, <1>3, <1>4, <2>1 DEF Assign
  <1> QED BY <1>2, <1>3, <1>4, <1>5, <1>6, <1>7, AssignIInv

\* A partial or full exit, as an assignment to the current trade by ExitStep.
LEMMA ExitIInv ==
    ASSUME IInv, NEW f \in pending, PartialExit(f) \/ FullExit(f) PROVE IInv'
  <1> DEFINE row == trades[cur]
             s   == ScaledOut(snap, fills[f].qty)
             new == ExitWritten(row, s)
  <1>1. /\ TakesAs(f, "EXIT") /\ DecrementLot(fills[f].qty)
        /\ ~CrossesZero(pos, pos + Delta(f))
        BY DEF PartialExit, FullExit, TakesAs, Takes
  <1>2. /\ phase = "running"
        /\ f \in DOMAIN fills /\ fills[f] \in FillRow
        /\ cur \in DOMAIN trades /\ cur \in Fill
        /\ trades \in [DOMAIN trades -> TradeRow] /\ row \in TradeRow
        /\ QuantitiesAgree(row)
        /\ row.acct = unit /\ row.status # "CLOSED" /\ ~row.deleted
        /\ snap = SnapshotOf(row)
        /\ pos = ResumedPosition(row) /\ pos \in Int
        /\ Delta(f) = SignedQty(fills[f].side, fills[f].qty)
        /\ fills[f].qty \in Qty /\ fills[f].qty \in Nat /\ fills[f].side \in Side
        /\ FillRoleFor(row.dir, fills[f].side) = "EXIT"
        /\ DOMAIN lots \subseteq DOMAIN trades /\ lots \in [DOMAIN lots -> LotRow]
        BY <1>1, CurrentTrade
  <1>3. /\ row.net # fills[f].qty => s \in Snapshot
        /\ new \in TradeRow /\ QuantitiesAgree(new)
        /\ SnapshotOf(new) = s /\ (new.status = "CLOSED" <=> row.net = fills[f].qty)
        /\ new.acct = row.acct /\ new.dir = row.dir /\ new.deleted = row.deleted
        /\ ResumedPosition(new) = pos + Delta(f)
        BY <1>1, <1>2, ExitStep
  <1>4. trades' = [trades EXCEPT ![cur] = new] /\ Assign(f, cur, "EXIT")
        BY DEF PartialExit, FullExit
  <1>5. /\ DOMAIN trades' = DOMAIN trades \cup {cur} /\ trades'[cur] = new
        /\ \A u \in DOMAIN trades : u # cur => trades'[u] = trades[u]
        /\ trades' \in [DOMAIN trades' -> TradeRow]
        BY <1>2, <1>3, <1>4
  <1>6. DOMAIN lots' = DOMAIN lots /\ lots' \in [DOMAIN lots' -> LotRow]
        BY <1>1, <1>2, LotsTyped
  <1>7. pos' = ResumedPosition(new) /\ pos' \in Int
    <2>1. Delta(f) \in Int
          BY <1>2 DEF SignedQty
    <2> QED BY <1>2, <1>3, <1>4, <2>1 DEF Assign
  <1>8. snap.net = row.net
        BY <1>2 DEF SnapshotOf
  <1> DEFINE Done == /\ snap' \in Snapshot
                     /\ \/ cur' = NULL /\ new.status = "CLOSED" /\ pos' = 0
                        \/ /\ cur' = cur /\ new.status # "CLOSED"
                           /\ snap' = SnapshotOf(new)
                           /\ pos' = ResumedPosition(new)
  <1>9. Done
    <2>1. CASE PartialExit(f)
          BY <1>3, <1>7, <1>8, <2>1 DEF PartialExit
    <2>2. CASE FullExit(f)
      <3>1. snap' = NoSnapshot /\ cur' = NULL /\ new.status = "CLOSED"
            BY <1>3, <1>8, <2>2 DEF FullExit
      <3>2. snap' \in Snapshot
            BY <3>1 DEF NoSnapshot, Snapshot, Direction
      <3>3. pos' = 0
            BY <1>3, <1>7, <3>1 DEF QuantitiesAgree, ResumedPosition, TradeRow
      <3> QED BY <3>1, <3>2, <3>3
    <2> QED BY <2>1, <2>2
  <1> QED BY <1>2, <1>3, <1>4, <1>5, <1>6, <1>7, <1>9, AssignIInv
----------------------------------------------------------------------------
(* The invariant, and what follows from it *)

\* Every way a request can begin.
LEMMA RequestBegins ==
    ASSUME IInv, Request
    PROVE  \/ \E t \in DOMAIN trades : SoftDelete(t)
           \/ \E a \in Account, F \in SUBSET (Fill \ DOMAIN fills), src \in Source :
                 \E new \in [F -> NewFill] : BeginRun(a, new, src)
  <1>1. CASE \E a \in Account : CreateTrade(a)
        BY <1>1 DEF CreateTrade, Batch, Source
  <1>2. CASE \E a \in Account : ImportFills(a)
        BY <1>2 DEF ImportFills, Batch, Source
  <1>3. ASSUME NEW t \in DOMAIN trades, AddFill(t)
        PROVE  \E a \in Account, F \in SUBSET (Fill \ DOMAIN fills), src \in Source :
                 \E new \in [F -> NewFill] : BeginRun(a, new, src)
    <2>1. trades[t].acct \in Account
          BY DEF IInv, TypeOK, TablesOK, TradeRow
    <2>2. PICK f \in Fill \ DOMAIN fills : \E new \in [{f} -> NewFill] :
                  BeginRun(trades[t].acct, new, "MANUAL")
          BY <1>3 DEF AddFill
    <2>3. {f} \in SUBSET (Fill \ DOMAIN fills) /\ "MANUAL" \in Source
          BY DEF Source
    <2> QED BY <2>1, <2>2, <2>3
  <1> QED BY <1>1, <1>2, <1>3 DEF Request

\* Every step keeps the inductive invariant.
LEMMA NextIInv == IInv /\ [Next]_vars => IInv'
  <1> SUFFICES ASSUME IInv, [Next]_vars PROVE IInv'
      OBVIOUS
  <1>1. CASE Request
        BY <1>1, RequestBegins, BeginIInv, SoftDeleteIInv
  <1>2. CASE ProcessFill
        BY <1>2, OpenTradeIInv, ScaleInIInv, ExitIInv DEF ProcessFill
  <1>3. CASE RaiseError
        BY <1>3, RollbackIInv DEF RaiseError, CrossingZero, LotInconsistent
  <1>4. CASE Commit
        BY <1>4, CommitIInv
  <1>5. CASE Abort
        BY <1>5, RollbackIInv DEF Abort
  <1>6. CASE UNCHANGED vars
        BY <1>6 DEF vars, IInv, TypeOK, NoOrphanFill, Idle, WorkList, RunAgreesWithTables,
                    OpenTrades
  <1> QED BY <1>1, <1>2, <1>3, <1>4, <1>5, <1>6 DEF Next

\* The inductive invariant holds in every reachable state.
THEOREM Invariance == Spec => []IInv
  BY InitIInv, NextIInv, PTL DEF Spec

\* Type correctness of the tables and of the run's locals.
THEOREM TypeCorrect == Spec => []TypeOK
  <1>1. IInv => TypeOK
        BY DEF IInv
  <1> QED BY <1>1, Invariance, PTL

\* No sequence of requests, failures and deletions makes a trade's quantities
\* disagree with each other or with its status.
THEOREM QuantitiesAlwaysAgree == Spec => []TradeQuantities
  <1>1. IInv => TradeQuantities
        BY DEF IInv, DatabaseGood, TradesGood, TradeQuantities
  <1> QED BY <1>1, Invariance, PTL

\* A unit never has two live open trades.
THEOREM OneOpenTradePerUnit == Spec => []OneOpenTrade
  <1>1. IInv => OneOpenTrade
        BY DEF IInv, DatabaseGood, TradesGood, OneOpenTrade
  <1> QED BY <1>1, Invariance, PTL

\* A run's snapshot and running_position never drift from the tables.
THEOREM SnapshotNeverStale == Spec => []RunAgreesWithTables
  <1>1. IInv => RunAgreesWithTables
        BY DEF IInv
  <1> QED BY <1>1, Invariance, PTL

\* No commit leaves an unassigned fill behind.
THEOREM CommitsAssignEveryFill == Spec => []NoOrphanFill
  <1>1. IInv => NoOrphanFill
        BY DEF IInv
  <1> QED BY <1>1, Invariance, PTL

\* Assigned fills carry the role of the direction table.
THEOREM RolesCorrect == Spec => []RolesMatchDirection
  <1>1. IInv => RolesMatchDirection
        BY DEF IInv, DatabaseGood, LinksGood, RolesMatchDirection
  <1> QED BY <1>1, Invariance, PTL

\* Exclusions and deletions always agree.
THEOREM ExclusionsCorrect == Spec => []ExcludedAreDeleted
  <1>1. IInv => ExcludedAreDeleted
        BY DEF IInv, DatabaseGood, ExclusionsGood, ExcludedAreDeleted
  <1> QED BY <1>1, Invariance, PTL

\* A fill's account, role and exclusion are always those its trade implies.
THEOREM FillsAlwaysMatchTrades == Spec => []FillsMatchTrades
  <1>1. RolesMatchDirection /\ ExcludedAreDeleted => FillsMatchTrades
        BY DEF FillsMatchTrades
  <1> QED BY <1>1, RolesCorrect, ExclusionsCorrect, PTL

\* One step leaves committed fills, settled trades and deletions as they are.
LEMMA CommittedStep ==
    ASSUME IInv, Next, committed' # committed
    PROVE  /\ \A f \in DOMAIN committed.fills :
                 /\ f \in DOMAIN committed'.fills
                 /\ committed'.fills[f] = committed.fills[f]
           /\ \A t \in DOMAIN committed.trades :
                 /\ t \in DOMAIN committed'.trades
                 /\ Settled(committed.trades[t]) =>
                       SnapshotOf(committed'.trades[t]) = SnapshotOf(committed.trades[t])
                 /\ committed.trades[t].deleted => committed'.trades[t].deleted
  <1>1. \/ Commit
        \/ \E t \in DOMAIN trades : SoftDelete(t)
    <2>1. CASE Request
          BY <2>1, RequestBegins DEF BeginRun
    <2>2. CASE ProcessFill
          BY <2>2 DEF ProcessFill, OpenTrade, ScaleIn, PartialExit, FullExit, Assign
    <2>3. CASE RaiseError \/ Abort
          BY <2>3 DEF RaiseError, CrossingZero, LotInconsistent, Abort, Rollback
    <2> QED BY <2>1, <2>2, <2>3 DEF Next
  <1>2. CASE Commit
    <2>1. committed'.fills = fills /\ committed'.trades = trades
          BY <1>2 DEF Commit, Tables
    <2> QED BY <2>1 DEF IInv, Extends
  <1>3. ASSUME NEW t \in DOMAIN trades, SoftDelete(t)
        PROVE  /\ committed.fills = fills /\ committed'.fills = fills
               /\ committed.trades = trades
               /\ committed'.trades = [trades EXCEPT ![t].deleted = TRUE]
        BY <1>3 DEF SoftDelete, Tables, IInv
  <1>4. ASSUME NEW t \in DOMAIN trades,
               committed.trades = trades,
               committed'.trades = [trades EXCEPT ![t].deleted = TRUE]
        PROVE  \A u \in DOMAIN trades :
                  /\ u \in DOMAIN committed'.trades
                  /\ SnapshotOf(committed'.trades[u]) = SnapshotOf(trades[u])
                  /\ trades[u].deleted => committed'.trades[u].deleted
    <2> SUFFICES ASSUME NEW u \in DOMAIN trades
                 PROVE  /\ u \in DOMAIN committed'.trades
                        /\ SnapshotOf(committed'.trades[u]) = SnapshotOf(trades[u])
                        /\ trades[u].deleted => committed'.trades[u].deleted
        OBVIOUS
    <2>1. CASE u # t
          BY <1>4, <2>1
    <2>2. CASE u = t
      <3>1. trades[t] \in TradeRow
            BY DEF IInv, TypeOK, TablesOK
      <3>2. committed'.trades[t] = [trades[t] EXCEPT !.deleted = TRUE]
            BY <1>4
      <3>3. /\ committed'.trades[t].dir = trades[t].dir
            /\ committed'.trades[t].status = trades[t].status
            /\ committed'.trades[t].entry = trades[t].entry
            /\ committed'.trades[t].exit = trades[t].exit
            /\ committed'.trades[t].net = trades[t].net
            /\ committed'.trades[t].deleted
            BY <3>1, <3>2 DEF TradeRow
      <3> QED BY <1>4, <2>2, <3>3 DEF SnapshotOf
    <2> QED BY <2>1, <2>2
  <1> QED BY <1>1, <1>2, <1>3, <1>4

\* Committed fills, closed trades and deletions are final.
THEOREM HistoryNeverRewritten == Spec => HistoryIsFinal
  <1> DEFINE A == /\ \A f \in DOMAIN committed.fills :
                        /\ f \in DOMAIN committed'.fills
                        /\ committed'.fills[f] = committed.fills[f]
                  /\ \A t \in DOMAIN committed.trades :
                        /\ t \in DOMAIN committed'.trades
                        /\ Settled(committed.trades[t]) =>
                              SnapshotOf(committed'.trades[t])
                                = SnapshotOf(committed.trades[t])
                        /\ committed.trades[t].deleted => committed'.trades[t].deleted
  <1>1. IInv /\ [Next]_vars => [A]_committed
        BY CommittedStep DEF vars
  <1>2. HistoryIsFinal <=> [][A]_committed
        BY DEF HistoryIsFinal
  <1> QED BY <1>1, <1>2, Invariance, PTL DEF Spec

----------------------------------------------------------------------------
(* Reconstruction implements PositionBook: the refinement mapping reads a  *)
(* unit's signed position off its one live open trade.                     *)

bookBar == [a \in Account |-> SignedNet(trades, a)]
keptBar == [a \in Account |-> SignedNet(committed.trades, a)]

\* With at most one live open trade per unit, the CHOOSE has no choice.
LEMMA SignedNetIs ==
    ASSUME NEW ts, NEW a, TradesGood(ts), NEW t \in OpenTrades(ts, a)
    PROVE  SignedNet(ts, a) = ResumedPosition(ts[t])
  <1>1. \A u \in OpenTrades(ts, a) : u = t
        BY DEF TradesGood, OpenTrades
  <1>2. (CHOOSE u \in OpenTrades(ts, a) : TRUE) = t
        BY <1>1
  <1> QED BY <1>2 DEF SignedNet

\* A unit whose open trades are untouched keeps its position.
LEMMA SignedNetSame ==
    ASSUME NEW ts, NEW us, NEW a, OpenTrades(us, a) = OpenTrades(ts, a),
           \A t \in OpenTrades(ts, a) : us[t] = ts[t]
    PROVE  SignedNet(us, a) = SignedNet(ts, a)
  <1>1. CASE OpenTrades(ts, a) = {}
        BY <1>1 DEF SignedNet
  <1>2. CASE OpenTrades(ts, a) # {}
    <2> DEFINE c == CHOOSE t \in OpenTrades(ts, a) : TRUE
    <2>1. c \in OpenTrades(ts, a)
          BY <1>2
    <2>2. us[c] = ts[c]
          BY <2>1
    <2>3. SignedNet(ts, a) = ResumedPosition(ts[c])
          BY <1>2 DEF SignedNet
    <2>4. SignedNet(us, a) = ResumedPosition(us[c])
          BY <1>2 DEF SignedNet
    <2> QED BY <2>2, <2>3, <2>4
  <1> QED BY <1>1, <1>2

\* running_position is the position the tables show.
LEMMA PosIsSignedNet ==
    ASSUME IInv, phase = "running" PROVE pos = SignedNet(trades, unit)
  <1>1. CASE OpenTrades(trades, unit) = {} /\ pos = 0
        BY <1>1 DEF SignedNet
  <1>2. CASE cur \in OpenTrades(trades, unit) /\ pos = ResumedPosition(trades[cur])
        BY <1>2, SignedNetIs DEF IInv, DatabaseGood
  <1> QED BY <1>1, <1>2 DEF IInv, RunAgreesWithTables

\* Empty tables read as an empty book.
LEMMA InitImplements == Init => Book!BookInit
  <1> SUFFICES ASSUME Init PROVE Book!BookInit
      OBVIOUS
  <1>1. DOMAIN NoRows = {}
        BY DEF NoRows
  <1>2. \A a : SignedNet(NoRows, a) = 0
        BY <1>1 DEF SignedNet, OpenTrades
  <1>3. committed.trades = NoRows /\ trades = NoRows /\ unit = NULL
        BY DEF Init, Tables, Idle
  <1> QED BY <1>2, <1>3 DEF Book!BookInit, Book!Flat

\* The trades of other units are no business of a fill.
LEMMA OthersUntouched ==
    ASSUME IInv, NEW f \in pending,
           OpenTrade(f) \/ ScaleIn(f) \/ PartialExit(f) \/ FullExit(f),
           NEW a \in Account, a # unit
    PROVE  SignedNet(trades', a) = SignedNet(trades, a)
  <1> DEFINE Same(t) == \A u \in DOMAIN trades : u # t => trades'[u] = trades[u]
  <1>1. \E t : /\ DOMAIN trades' = DOMAIN trades \cup {t}
               /\ Same(t)
               /\ t \in DOMAIN trades => trades[t].acct = unit
               /\ trades'[t].acct = unit
    <2>1. CASE OpenTrade(f)
      <3>1. /\ DOMAIN trades' = DOMAIN trades \cup {f} /\ Same(f)
            /\ trades'[f].acct = fills[f].acct
            BY <2>1 DEF OpenTrade, NewTrade
      <3>2. fills[f].acct = unit /\ fills[f].trade = NULL
            BY <2>1 DEF IInv, WorkList, OpenTrade, Takes
      <3>3. f \notin DOMAIN trades
            BY <3>2, NullAssumption
               DEF IInv, DatabaseGood, LinksGood, TypeOK, TablesOK
      <3> QED BY <3>1, <3>2, <3>3
    <2>2. CASE ScaleIn(f) \/ PartialExit(f) \/ FullExit(f)
      <3>1. \E role : TakesAs(f, role)
            BY <2>2 DEF ScaleIn, PartialExit, FullExit
      <3>2. /\ cur \in DOMAIN trades /\ trades[cur].acct = unit
            /\ trades[cur] \in TradeRow /\ trades \in [DOMAIN trades -> TradeRow]
            BY <3>1, CurrentTrade
      <3>3. \E s : \/ trades' = [trades EXCEPT ![cur] = EntryWritten(@, s)]
                   \/ trades' = [trades EXCEPT ![cur] = ExitWritten(@, s)]
            BY <2>2 DEF ScaleIn, PartialExit, FullExit
      <3>4. \A s : /\ EntryWritten(trades[cur], s).acct = unit
                   /\ ExitWritten(trades[cur], s).acct = unit
            BY <3>2 DEF EntryWritten, ExitWritten, TradeRow
      <3> QED BY <3>2, <3>3, <3>4
    <2> QED BY <2>1, <2>2
  <1>2. PICK t : /\ DOMAIN trades' = DOMAIN trades \cup {t}
                 /\ Same(t)
                 /\ t \in DOMAIN trades => trades[t].acct = unit
                 /\ trades'[t].acct = unit
        BY <1>1
  <1>3. OpenTrades(trades', a) = OpenTrades(trades, a)
        BY <1>2 DEF OpenTrades
  <1>4. \A u \in OpenTrades(trades, a) : trades'[u] = trades[u]
        BY <1>2 DEF OpenTrades
  <1> QED BY <1>3, <1>4, SignedNetSame

\* An iteration of the engine is a move of its unit by the fill's signed
\* quantity, which the check for E1 keeps from passing through zero.
LEMMA FillImplements ==
    ASSUME IInv, NEW f \in pending,
           OpenTrade(f) \/ ScaleIn(f) \/ PartialExit(f) \/ FullExit(f)
    PROVE  Book!BookNext
  <1>1. IInv'
        BY OpenTradeIInv, ScaleInIInv, ExitIInv
  <1>2. /\ phase = "running" /\ phase' = "running" /\ unit' = unit
        /\ committed' = committed /\ pos' = pos + Delta(f)
        /\ ~CrossesZero(pos, pos + Delta(f))
        BY DEF OpenTrade, ScaleIn, PartialExit, FullExit, TakesAs, Takes, Assign
  <1>3. unit \in Account /\ unit # NULL
        BY <1>2, NullAssumption DEF IInv
  <1>4. /\ fills[f].qty \in Qty /\ fills[f].qty \in Nat \ {0}
        /\ fills[f].side \in Side /\ pos \in Int
        BY QtyAssumption DEF IInv, TypeOK, TablesOK, FillRow
  <1>5. Delta(f) = fills[f].qty \/ Delta(f) = -fills[f].qty
        BY <1>4 DEF Delta, SignedQty
  <1>6. bookBar[unit] = pos
        BY <1>2, <1>3, PosIsSignedNet DEF bookBar
  <1>7. SignedNet(trades', unit) = pos'
    <2>1. CASE cur' = NULL /\ OpenTrades(trades', unit) = {} /\ pos' = 0
          BY <2>1 DEF SignedNet
    <2>2. CASE /\ cur' \in OpenTrades(trades', unit)
               /\ pos' = ResumedPosition(trades'[cur'])
      <3>1. TradesGood(trades')
            BY <1>1 DEF IInv, DatabaseGood
      <3> QED BY <2>2, <3>1, SignedNetIs
    <2> QED BY <1>1, <1>2, <2>1, <2>2 DEF IInv, RunAgreesWithTables
  <1>8. bookBar' = [bookBar EXCEPT ![unit] = @ + Delta(f)]
    <2>1. \A a \in Account : a # unit => SignedNet(trades', a) = SignedNet(trades, a)
          BY OthersUntouched
    <2>2. SignedNet(trades', unit) = bookBar[unit] + Delta(f)
          BY <1>2, <1>6, <1>7
    <2> QED BY <1>3, <2>1, <2>2 DEF bookBar
  <1>9. Book!Legal(bookBar[unit], bookBar[unit] + Delta(f))
        BY <1>2, <1>4, <1>5, <1>6 DEF Book!Legal, CrossesZero
  <1>10. keptBar' = keptBar
        BY <1>2 DEF keptBar
  <1>11. Book!Move(unit, Delta(f))
        BY <1>2, <1>8, <1>9, <1>10 DEF Book!Move, bookBar, keptBar
  <1> QED BY <1>3, <1>4, <1>5, <1>11 DEF Book!BookNext

\* Deleting the open trade flattens its unit; deleting a closed one stutters.
LEMMA SoftDeleteImplements ==
    ASSUME IInv, NEW t \in DOMAIN trades, SoftDelete(t)
    PROVE  [Book!BookNext]_Book!bvars
  <1> DEFINE a == trades[t].acct
  <1>1. /\ unit = NULL /\ unit' = unit
        /\ committed.trades = trades /\ committed'.trades = trades'
        /\ trades' = [trades EXCEPT ![t].deleted = TRUE]
        BY DEF IInv, SoftDelete, Idle, Tables, run
  <1>2. /\ trades[t] \in TradeRow /\ a \in Account
        /\ trades \in [DOMAIN trades -> TradeRow]
        BY DEF IInv, TypeOK, TablesOK, TradeRow
  <1>3. /\ DOMAIN trades' = DOMAIN trades
        /\ \A u \in DOMAIN trades : u # t => trades'[u] = trades[u]
        /\ trades'[t].deleted /\ trades'[t].acct = a
        BY <1>1, <1>2 DEF TradeRow
  <1>4. TradesGood(trades)
        BY DEF IInv, DatabaseGood
  <1>5. bookBar' = keptBar' /\ keptBar = bookBar
        BY <1>1 DEF bookBar, keptBar
  <1>6. \A b \in Account : b # a => SignedNet(trades', b) = SignedNet(trades, b)
    <2> SUFFICES ASSUME NEW b \in Account, b # a
                 PROVE  SignedNet(trades', b) = SignedNet(trades, b)
        OBVIOUS
    <2>1. /\ OpenTrades(trades', b) = OpenTrades(trades, b)
          /\ \A u \in OpenTrades(trades, b) : trades'[u] = trades[u]
          BY <1>3 DEF OpenTrades
    <2> QED BY <2>1, SignedNetSame
  <1>7. CASE t \in OpenTrades(trades, a)
    <2>1. OpenTrades(trades', a) = {}
          BY <1>3, <1>4, <1>7 DEF OpenTrades, TradesGood
    <2>2. SignedNet(trades', a) = 0
          BY <2>1 DEF SignedNet
    <2>3. bookBar' = [bookBar EXCEPT ![a] = 0]
          BY <1>2, <1>6, <2>2 DEF bookBar
    <2>4. Book!Flatten(a)
          BY <1>1, <1>5, <2>3 DEF Book!Flatten, bookBar, keptBar
    <2> QED BY <1>2, <2>4 DEF Book!BookNext
  <1>8. CASE t \notin OpenTrades(trades, a)
    <2>1. /\ OpenTrades(trades', a) = OpenTrades(trades, a)
          /\ \A u \in OpenTrades(trades, a) : trades'[u] = trades[u]
          BY <1>3, <1>8 DEF OpenTrades
    <2>2. SignedNet(trades', a) = SignedNet(trades, a)
          BY <2>1, SignedNetSame
    <2>3. bookBar' = bookBar
          BY <1>6, <2>2 DEF bookBar
    <2> QED BY <1>1, <1>5, <2>3 DEF Book!bvars, bookBar, keptBar
  <1> QED BY <1>7, <1>8

\* Every step of Reconstruction is a step of the book or leaves it alone.
LEMMA StepImplements == IInv /\ [Next]_vars => [Book!BookNext]_Book!bvars
  <1> SUFFICES ASSUME IInv, [Next]_vars PROVE [Book!BookNext]_Book!bvars
      OBVIOUS
  <1>1. ASSUME NEW a \in Account, NEW F, NEW new, NEW src, BeginRun(a, new, src)
        PROVE  Book!Begin(a)
        BY <1>1 DEF BeginRun, Book!Begin, IInv, Idle
  <1>2. CASE Request
        BY <1>1, <1>2, RequestBegins, SoftDeleteImplements DEF Book!BookNext
  <1>3. CASE ProcessFill
        BY <1>3, FillImplements DEF ProcessFill
  <1>4. phase = "running" => unit # NULL
        BY NullAssumption DEF IInv
  <1>5. ASSUME Rollback, phase = "running" PROVE Book!Discard
        BY <1>4, <1>5 DEF Rollback, EndRun, Book!Discard
  <1>6. CASE RaiseError \/ Abort
        BY <1>5, <1>6 DEF RaiseError, CrossingZero, LotInconsistent, TakesAs, Takes, Abort,
                          Book!BookNext
  <1>7. CASE Commit
    <2>1. Book!Keep
          BY <1>4, <1>7 DEF Commit, EndRun, tables, Tables, Book!Keep
    <2> QED BY <2>1 DEF Book!BookNext
  <1>8. CASE UNCHANGED vars
        BY <1>8 DEF vars, Book!bvars
  <1> QED BY <1>2, <1>3, <1>6, <1>7, <1>8 DEF Next

\* Every behaviour of Reconstruction, its tables read as signed positions, is
\* a behaviour of PositionBook.
THEOREM ReconstructionImplementsPositionBook == Spec => ImplementsPositionBook
  BY InitImplements, StepImplements, Invariance, PTL
     DEF Spec, ImplementsPositionBook, Book!BookSpec

----------------------------------------------------------------------------
(***************************************************************************)
(* Totals and tax lots.  A trade's quantities are the totals of its fills. *)
(* get_open_lot ignores the trade, so a lot may be drawn on by any trade   *)
(* of the instrument: a closed trade's lot is safe from that, and what all *)
(* the lots hold is what all the trades hold.  With one account and no     *)
(* deletions no other trade is open, so each lot is its trade's mirror     *)
(* image.                                                                  *)
(***************************************************************************)

\* What one fill of quantity q makes of the current trade's row and of the lots.
EntersRow(q) ==
    /\ cur \in DOMAIN trades /\ DOMAIN trades' = DOMAIN trades
    /\ \A t \in DOMAIN trades : t # cur => trades'[t] = trades[t]
    /\ q \in Nat \ {0} /\ trades[cur].entry \in Nat /\ trades[cur].net \in Int
    /\ trades[cur].status # "CLOSED"
    /\ trades'[cur].acct = trades[cur].acct /\ trades'[cur].deleted = trades[cur].deleted

LEMMA ScaleInRows ==
    ASSUME IInv, NEW f \in pending, ScaleIn(f), NEW q, q = fills[f].qty
    PROVE  /\ EntersRow(q) /\ UNCHANGED committed
           /\ trades'[cur].entry = trades[cur].entry + q
           /\ trades'[cur].exit = trades[cur].exit
           /\ trades'[cur].net = trades[cur].net + q
           /\ trades'[cur].status # "CLOSED"
           /\ lots' = IF Family = "DELIVERY"
                      THEN [lots EXCEPT ![cur] = LotScaledIn(@, q)] ELSE lots
  <1> DEFINE row == trades[cur]
             s   == ScaledIn(snap, q)
             new == EntryWritten(row, s)
  <1>1. TakesAs(f, "ENTRY")
        BY DEF ScaleIn
  <1>2. /\ cur \in DOMAIN trades /\ trades \in [DOMAIN trades -> TradeRow]
        /\ row \in TradeRow /\ row.status # "CLOSED" /\ snap = SnapshotOf(row)
        /\ q \in Qty
        BY <1>1, CurrentTrade
  <1>3. trades' = [trades EXCEPT ![cur] = new] /\ UNCHANGED committed
        BY DEF ScaleIn, Assign
  <1>4. /\ s.entry = row.entry + q /\ s.net = row.net + q /\ s.status # "CLOSED"
        BY <1>2 DEF ScaledIn, SnapshotOf
  <1>5. /\ new.acct = row.acct /\ new.deleted = row.deleted /\ new.entry = s.entry
        /\ new.exit = row.exit /\ new.net = s.net /\ new.status = s.status
        BY <1>2 DEF EntryWritten, TradeRow
  <1>6. q \in Nat \ {0} /\ row.entry \in Nat /\ row.net \in Int
        BY <1>2, QtyAssumption DEF TradeRow
  <1> HIDE DEF new, s
  <1> QED BY <1>2, <1>3, <1>4, <1>5, <1>6 DEF EntersRow, ScaleIn

LEMMA ExitRows ==
    ASSUME IInv, NEW f \in pending, PartialExit(f) \/ FullExit(f), NEW q, q = fills[f].qty
    PROVE  /\ EntersRow(q) /\ UNCHANGED committed
           /\ trades'[cur].entry = trades[cur].entry
           /\ trades'[cur].exit = trades[cur].exit + q
           /\ trades'[cur].net = trades[cur].net - q
           /\ trades'[cur].status = "CLOSED" <=> trades[cur].net = q
           /\ trades'[cur].status = "CLOSED" => OwnLotClosed(lots')
           /\ DecrementLot(q)
  <1> DEFINE row == trades[cur]
             s   == ScaledOut(snap, q)
             new == ExitWritten(row, s)
  <1>1. TakesAs(f, "EXIT")
        BY DEF PartialExit, FullExit
  <1>2. /\ cur \in DOMAIN trades /\ trades \in [DOMAIN trades -> TradeRow]
        /\ row \in TradeRow /\ row.status # "CLOSED" /\ snap = SnapshotOf(row)
        /\ q \in Qty
        BY <1>1, CurrentTrade
  <1>3. trades' = [trades EXCEPT ![cur] = new] /\ UNCHANGED committed /\ DecrementLot(q)
        BY DEF PartialExit, FullExit, Assign
  <1>4. /\ s.entry = row.entry /\ s.exit = row.exit + q /\ s.net = row.net - q
        /\ s.status = "CLOSED" <=> row.net = q
        BY <1>2 DEF ScaledOut, SnapshotOf
  <1>5. /\ new.acct = row.acct /\ new.deleted = row.deleted /\ new.entry = row.entry
        /\ new.exit = s.exit /\ new.net = s.net /\ new.status = s.status
        BY <1>2 DEF ExitWritten, TradeRow
  <1>6. q \in Nat \ {0} /\ row.entry \in Nat /\ row.net \in Int
        BY <1>2, QtyAssumption DEF TradeRow
  <1>7. row.net = q => OwnLotClosed(lots')
        BY <1>2 DEF PartialExit, FullExit, SnapshotOf
  <1> HIDE DEF new, s
  <1> QED BY <1>2, <1>3, <1>4, <1>5, <1>6, <1>7 DEF EntersRow

LEMMA OpenRows ==
    ASSUME IInv, NEW f \in pending, OpenTrade(f)
    PROVE  /\ UNCHANGED committed
           /\ DOMAIN trades' = DOMAIN trades \cup {f} /\ f \notin DOMAIN trades
           /\ \A t \in DOMAIN trades : trades'[t] = trades[t]
           /\ ~trades'[f].deleted /\ trades'[f].status = "OPEN"
           /\ trades'[f].entry = fills[f].qty /\ trades'[f].exit = 0
           /\ trades'[f].net = fills[f].qty
           /\ lots' = IF Family = "DELIVERY"
                      THEN [t \in DOMAIN lots \cup {f} |->
                               IF t = f THEN NewLot(fills[f]) ELSE lots[t]]
                      ELSE lots
  <1>1. f \in DOMAIN fills /\ fills[f].trade = NULL /\ NULL \notin DOMAIN fills
        BY NullAssumption DEF IInv, TypeOK, TablesOK, WorkList, OpenTrade, Takes
  <1>2. f \notin DOMAIN trades
        BY <1>1, NullAssumption DEF IInv, TypeOK, TablesOK, DatabaseGood, LinksGood
  <1> QED BY <1>2 DEF OpenTrade, Assign, NewTrade, OpenedBy

--------------------------------------------------------------------------------
(* A trade's quantities are the totals of its fills *)

Explained(fs, ts) ==
    /\ IsFiniteSet(DOMAIN fs)
    /\ \A t \in DOMAIN ts : /\ ts[t].entry = TotalIn(fs, t, "ENTRY")
                             /\ ts[t].exit = TotalIn(fs, t, "EXIT")

EInv == IInv /\ Explained(fills, trades) /\ Explained(committed.fills, committed.trades)

\* What a fill adds to the entry or exit quantity of a trade, new or current.
LEMMA FillEnters ==
    ASSUME IInv, NEW f \in pending,
           OpenTrade(f) \/ ScaleIn(f) \/ PartialExit(f) \/ FullExit(f)
    PROVE  \E t, role :
              /\ Assign(f, t, role)
              /\ DOMAIN trades' = DOMAIN trades \cup {t}
              /\ \A u \in DOMAIN trades : u # t => trades'[u] = trades[u]
              /\ \/ /\ t \notin DOMAIN trades /\ role = "ENTRY"
                    /\ trades'[t].entry = fills[f].qty /\ trades'[t].exit = 0
                 \/ /\ t \in DOMAIN trades /\ role = "ENTRY"
                    /\ trades'[t].entry = trades[t].entry + fills[f].qty
                    /\ trades'[t].exit = trades[t].exit
                 \/ /\ t \in DOMAIN trades /\ role = "EXIT"
                    /\ trades'[t].entry = trades[t].entry
                    /\ trades'[t].exit = trades[t].exit + fills[f].qty
  <1>1. CASE OpenTrade(f)
    <2>1. fills[f] \in FillRow
          BY DEF IInv, TypeOK, TablesOK
    <2>2. FillRoleFor(OpenedBy(fills[f]).dir, fills[f].side) = "ENTRY"
          BY <2>1, OpenStep
    <2>3. Assign(f, f, "ENTRY")
          BY <1>1, <2>2 DEF OpenTrade
    <2> QED BY <1>1, <2>3, OpenRows
  <1>2. CASE ScaleIn(f)
    <2>1. Assign(f, cur, "ENTRY")
          BY <1>2 DEF ScaleIn
    <2> QED BY <1>2, <2>1, ScaleInRows DEF EntersRow
  <1>3. CASE PartialExit(f) \/ FullExit(f)
    <2>1. Assign(f, cur, "EXIT")
          BY <1>3 DEF PartialExit, FullExit
    <2>2. /\ EntersRow(fills[f].qty)
          /\ trades'[cur].entry = trades[cur].entry
          /\ trades'[cur].exit = trades[cur].exit + fills[f].qty
          BY <1>3, ExitRows
    <2>3. cur \in DOMAIN trades /\ DOMAIN trades' = DOMAIN trades \cup {cur}
          BY <2>2 DEF EntersRow
    <2>4. \A u \in DOMAIN trades : u # cur => trades'[u] = trades[u]
          BY <2>2 DEF EntersRow
    <2> QED BY <2>1, <2>2, <2>3, <2>4
  <1> QED BY <1>1, <1>2, <1>3

LEMMA LoopExplains ==
    ASSUME EInv, NEW f \in pending,
           OpenTrade(f) \/ ScaleIn(f) \/ PartialExit(f) \/ FullExit(f)
    PROVE  Explained(fills', trades')
  <1> DEFINE q == fills[f].qty
  <1>1. PICK t, role :
              /\ Assign(f, t, role)
              /\ DOMAIN trades' = DOMAIN trades \cup {t}
              /\ \A u \in DOMAIN trades : u # t => trades'[u] = trades[u]
              /\ \/ /\ t \notin DOMAIN trades /\ role = "ENTRY"
                    /\ trades'[t].entry = q /\ trades'[t].exit = 0
                 \/ /\ t \in DOMAIN trades /\ role = "ENTRY"
                    /\ trades'[t].entry = trades[t].entry + q
                    /\ trades'[t].exit = trades[t].exit
                 \/ /\ t \in DOMAIN trades /\ role = "EXIT"
                    /\ trades'[t].entry = trades[t].entry
                    /\ trades'[t].exit = trades[t].exit + q
        BY FillEnters DEF EInv
  <1>2. IInv /\ IInv'
    <2>1. ProcessFill
          BY DEF ProcessFill
    <2> QED BY <2>1, NextIInv DEF EInv, Next
  <1>3. /\ fills \in [DOMAIN fills -> FillRow] /\ f \in DOMAIN fills
        /\ DOMAIN trades \subseteq DOMAIN fills /\ DOMAIN trades' \subseteq DOMAIN fills'
        /\ NULL \notin DOMAIN fills /\ DOMAIN fills' = DOMAIN fills
        BY <1>1, <1>2, NullAssumption DEF IInv, TypeOK, TablesOK, Assign
  <1>4. IsFiniteSet(DOMAIN fills) /\ \A g \in DOMAIN fills : fills[g].qty \in Nat
        BY <1>3, QtyAssumption DEF EInv, Explained, FillRow
  <1>5. fills[f].trade = NULL /\ t # NULL
        BY <1>1, <1>2, <1>3 DEF IInv, WorkList, OpenTrade, ScaleIn, PartialExit, FullExit,
                                TakesAs, Takes
  <1>6. /\ \A g \in DOMAIN fills : g # f => fills'[g] = fills[g]
        /\ fills'[f].qty = q /\ fills'[f].trade = t /\ fills'[f].role = role
        BY <1>1, <1>3 DEF Assign, AssignedTo, FillRow
  <1>7. ASSUME NEW u, u # NULL, NEW r
        PROVE  TotalIn(fills', u, r) =
                  TotalIn(fills, u, r) + IF u = t /\ r = role THEN q ELSE 0
    <2> DEFINE gs == fills'
    <2>1. /\ DOMAIN gs = DOMAIN fills
          /\ \A g \in DOMAIN fills : g # f => gs[g] = fills[g]
          /\ gs[f].qty = q /\ gs[f].trade = t /\ gs[f].role = role
          BY <1>3, <1>6
    <2> HIDE DEF gs
    <2>2. TotalIn(gs, u, r) = TotalIn(fills, u, r) + IF u = t /\ r = role THEN q ELSE 0
          BY <1>3, <1>4, <1>5, <1>7, <2>1, TotalAssigned
    <2> QED BY <2>2 DEF gs
  <1>8. \A u \in DOMAIN trades : /\ trades[u].entry = TotalIn(fills, u, "ENTRY")
                                 /\ trades[u].exit = TotalIn(fills, u, "EXIT")
                                 /\ trades[u].entry \in Nat /\ trades[u].exit \in Nat
        BY <1>2 DEF EInv, Explained, IInv, TypeOK, TablesOK, TradeRow
  <1>9. t \notin DOMAIN trades => \A r : TotalIn(fills, t, r) = 0
    <2> SUFFICES ASSUME t \notin DOMAIN trades, NEW r PROVE TotalIn(fills, t, r) = 0
        OBVIOUS
    <2>1. AssignedAs(fills, t, r) = {}
          BY <1>2, <1>5 DEF AssignedAs, IInv, DatabaseGood, LinksGood
    <2> QED BY <2>1, SumEmpty DEF TotalIn
  <1>10. ASSUME NEW u \in DOMAIN trades'
         PROVE  /\ trades'[u].entry = TotalIn(fills', u, "ENTRY")
                /\ trades'[u].exit = TotalIn(fills', u, "EXIT")
    <2>1. u # NULL /\ q \in Nat
          BY <1>3, <1>4
    <2>2. /\ TotalIn(fills', u, "ENTRY") =
                TotalIn(fills, u, "ENTRY") + IF u = t /\ role = "ENTRY" THEN q ELSE 0
          /\ TotalIn(fills', u, "EXIT") =
                TotalIn(fills, u, "EXIT") + IF u = t /\ role = "EXIT" THEN q ELSE 0
          BY <1>7, <2>1
    <2>3. CASE u # t
          BY <1>1, <1>8, <2>2, <2>3
    <2>4. CASE u = t /\ t \in DOMAIN trades
          BY <1>1, <1>8, <2>1, <2>2, <2>4
    <2>5. CASE u = t /\ t \notin DOMAIN trades
          BY <1>1, <1>9, <2>1, <2>2, <2>5
    <2> QED BY <2>3, <2>4, <2>5
  <1> QED BY <1>3, <1>4, <1>10 DEF Explained

\* The fills a request inserts are finitely many and assigned to no trade.
LEMMA RequestInserts ==
    ASSUME IInv, Request, IsFiniteSet(DOMAIN fills)
    PROVE  \/ \E t \in DOMAIN trades : SoftDelete(t)
           \/ /\ UNCHANGED <<trades, lots, committed>>
              /\ IsFiniteSet(DOMAIN fills') /\ DOMAIN fills \subseteq DOMAIN fills'
              /\ \A g \in DOMAIN fills : fills'[g] = fills[g]
              /\ \A g \in DOMAIN fills' \ DOMAIN fills : fills'[g].trade = NULL
  <1>1. ASSUME NEW a, NEW F, IsFiniteSet(F), F \cap DOMAIN fills = {},
               NEW new \in [F -> NewFill], NEW src, BeginRun(a, new, src)
        PROVE  /\ UNCHANGED <<trades, lots, committed>>
               /\ IsFiniteSet(DOMAIN fills') /\ DOMAIN fills \subseteq DOMAIN fills'
               /\ \A g \in DOMAIN fills : fills'[g] = fills[g]
               /\ \A g \in DOMAIN fills' \ DOMAIN fills : fills'[g].trade = NULL
    <2>1. fills' = Inserted(a, new, src) /\ UNCHANGED <<trades, lots, committed>>
          BY <1>1 DEF BeginRun
    <2>2. DOMAIN fills' = DOMAIN fills \cup F
          BY <1>1, <2>1 DEF Inserted
    <2>3. IsFiniteSet(DOMAIN fills \cup F)
          BY <1>1, FS_Union
    <2> QED BY <1>1, <2>1, <2>2, <2>3 DEF Inserted
  <1>2. CASE \E a \in Account : CreateTrade(a) \/ ImportFills(a)
    <2>1. PICK a \in Account, F \in Batch, src \in Source :
                  \E new \in [F -> NewFill] : BeginRun(a, new, src)
          BY <1>2 DEF CreateTrade, ImportFills, Source
    <2>2. IsFiniteSet(F) /\ F \cap DOMAIN fills = {}
          BY DEF Batch
    <2> QED BY <1>1, <2>1, <2>2
  <1>3. CASE \E t \in DOMAIN trades : AddFill(t)
    <2>1. PICK t \in DOMAIN trades, f \in Fill \ DOMAIN fills :
                  \E new \in [{f} -> NewFill] : BeginRun(trades[t].acct, new, "MANUAL")
          BY <1>3 DEF AddFill
    <2>2. IsFiniteSet({f}) /\ {f} \cap DOMAIN fills = {}
          BY FS_Singleton
    <2> QED BY <1>1, <2>1, <2>2
  <1> QED BY <1>2, <1>3 DEF Request

LEMMA NextExplains == EInv /\ [Next]_vars => EInv'
  <1> SUFFICES ASSUME EInv, [Next]_vars PROVE EInv'
      OBVIOUS
  <1>1. IInv /\ IInv'
        BY NextIInv DEF EInv
  <1>2. /\ DOMAIN trades \subseteq DOMAIN fills /\ NULL \notin DOMAIN fills
        /\ trades \in [DOMAIN trades -> TradeRow]
        BY <1>1, NullAssumption DEF IInv, TypeOK, TablesOK
  <1>3. CASE Request
    <2>1. CASE \E t \in DOMAIN trades : SoftDelete(t)
      <3>1. PICK t \in DOMAIN trades : SoftDelete(t)
            BY <2>1
      <3>2. /\ fills' = fills /\ committed'.fills = fills /\ committed'.trades = trades'
            /\ trades' = [trades EXCEPT ![t].deleted = TRUE]
            BY <3>1 DEF SoftDelete, Tables
      <3>3. /\ DOMAIN trades' = DOMAIN trades
            /\ \A u \in DOMAIN trades : /\ trades'[u].entry = trades[u].entry
                                         /\ trades'[u].exit = trades[u].exit
            BY <1>2, <3>2 DEF TradeRow
      <3> QED BY <1>1, <3>2, <3>3 DEF EInv, Explained
    <2>2. CASE /\ UNCHANGED <<trades, lots, committed>>
               /\ IsFiniteSet(DOMAIN fills') /\ DOMAIN fills \subseteq DOMAIN fills'
               /\ \A g \in DOMAIN fills : fills'[g] = fills[g]
               /\ \A g \in DOMAIN fills' \ DOMAIN fills : fills'[g].trade = NULL
      <3> DEFINE gs == fills'
      <3>1. /\ DOMAIN fills \subseteq DOMAIN gs
            /\ \A g \in DOMAIN fills : gs[g] = fills[g]
            /\ \A g \in DOMAIN gs \ DOMAIN fills : gs[g].trade = NULL
            BY <2>2
      <3> HIDE DEF gs
      <3>2. ASSUME NEW t \in DOMAIN trades, NEW r PROVE TotalIn(gs, t, r) = TotalIn(fills, t, r)
            BY <1>2, <3>1, TotalSame
      <3>3. \A t \in DOMAIN trades : \A r : TotalIn(fills', t, r) = TotalIn(fills, t, r)
            BY <3>2 DEF gs
      <3> QED BY <1>1, <2>2, <3>3 DEF EInv, Explained
    <2>3. IsFiniteSet(DOMAIN fills)
          BY DEF EInv, Explained
    <2> QED BY <1>1, <1>3, <2>1, <2>2, <2>3, RequestInserts
  <1>4. CASE ProcessFill
    <2>1. PICK f \in pending : OpenTrade(f) \/ ScaleIn(f) \/ PartialExit(f) \/ FullExit(f)
          BY <1>4 DEF ProcessFill
    <2>2. UNCHANGED committed
          BY <2>1 DEF OpenTrade, ScaleIn, PartialExit, FullExit, Assign
    <2> QED BY <1>1, <2>1, <2>2, LoopExplains DEF EInv
  <1>5. CASE RaiseError \/ Abort
        BY <1>1, <1>5 DEF RaiseError, CrossingZero, LotInconsistent, Abort, Rollback, EInv
  <1>6. CASE Commit
        BY <1>1, <1>6 DEF Commit, Tables, tables, EInv
  <1>7. CASE UNCHANGED vars
        BY <1>1, <1>7 DEF vars, EInv
  <1> QED BY <1>3, <1>4, <1>5, <1>6, <1>7 DEF Next

\* However many requests have added to it, been rolled back, resumed or deleted
\* it, a trade's entry and exit quantities are the totals of its own fills.
THEOREM FillsAlwaysExplainTrades == Spec => []FillsExplainTrade
  <1>1. Init => EInv
    <2> SUFFICES ASSUME Init PROVE EInv
        OBVIOUS
    <2>1. /\ trades = NoRows /\ committed.trades = NoRows /\ DOMAIN NoRows = {}
          /\ fills = NoRows /\ committed.fills = NoRows
          BY DEF Init, Tables, NoRows
    <2> QED BY <2>1, InitIInv, FS_EmptySet DEF EInv, Explained
  <1>2. EInv => FillsExplainTrade
    <2>1. \A t, r : FilledAs(t, r) = AssignedAs(fills, t, r)
          BY DEF FilledAs, FillsOf, AssignedAs
    <2>2. \A t, r : TotalAs(t, r) = TotalIn(fills, t, r)
          BY <2>1 DEF TotalAs, TotalIn, SumFunction
    <2> QED BY <2>2 DEF EInv, Explained, FillsExplainTrade
  <1> QED BY <1>1, <1>2, NextExplains, PTL DEF Spec

\* A trade's quantities and status are always what the sums of its fills make them.
THEOREM TradesAlwaysAddUp == Spec => []TradesAddUp
  <1>1. TradeQuantities /\ FillsExplainTrade => TradesAddUp
        BY DEF TradesAddUp
  <1> QED BY <1>1, QuantitiesAlwaysAgree, FillsAlwaysExplainTrades, PTL

--------------------------------------------------------------------------------
(* A closed trade's lot *)

ClosedLots(ls, ts) ==
    /\ \A t \in DOMAIN ls :
          ts[t].status = "CLOSED" => ls[t].rem = 0 /\ ls[t].status = "CLOSED"
    /\ Family # "DELIVERY" => DOMAIN ls = {}

CInv == IInv /\ ClosedLots(lots, trades) /\ ClosedLots(committed.lots, committed.trades)

LEMMA LoopKeepsClosed ==
    ASSUME CInv, NEW f \in pending,
           OpenTrade(f) \/ ScaleIn(f) \/ PartialExit(f) \/ FullExit(f)
    PROVE  ClosedLots(lots', trades')
  <1>1. /\ DOMAIN lots \subseteq DOMAIN trades /\ lots \in [DOMAIN lots -> LotRow]
        BY DEF CInv, IInv, TypeOK, TablesOK
  <1>2. CASE OpenTrade(f)
    <2>1. /\ \A t \in DOMAIN trades : t # f /\ trades'[t] = trades[t]
          /\ trades'[f].status # "CLOSED"
          /\ lots' = IF Family = "DELIVERY"
                     THEN [t \in DOMAIN lots \cup {f} |->
                              IF t = f THEN NewLot(fills[f]) ELSE lots[t]]
                     ELSE lots
          BY <1>2, OpenRows DEF CInv
    <2>2. \A t \in DOMAIN lots' : t = f \/ (t \in DOMAIN lots /\ lots'[t] = lots[t])
          BY <2>1
    <2>3. Family # "DELIVERY" => DOMAIN lots' = {}
          BY <2>1 DEF CInv, ClosedLots
    <2> QED BY <1>1, <2>1, <2>2, <2>3 DEF CInv, ClosedLots
  <1>3. CASE ScaleIn(f)
        BY <1>1, <1>3, ScaleInRows DEF CInv, ClosedLots, EntersRow
  <1>4. CASE PartialExit(f) \/ FullExit(f)
    <2>1. /\ EntersRow(fills[f].qty) /\ DecrementLot(fills[f].qty)
          /\ trades'[cur].status = "CLOSED" => OwnLotClosed(lots')
          BY <1>4, ExitRows DEF CInv
    <2>2. CASE Family = "DELIVERY"
      <3>1. PICK l \in OpenLots(lots) : lots' = LotsAfterExit(l, fills[f].qty)
            BY <2>1, <2>2 DEF DecrementLot, OldestOpenLots
      <3>2. /\ l \in DOMAIN lots /\ lots[l].status # "CLOSED" /\ DOMAIN lots' = DOMAIN lots
            /\ \A t \in DOMAIN lots : t # l => lots'[t] = lots[t]
            BY <3>1 DEF OpenLots, LotsAfterExit
      <3>3. trades[l].status # "CLOSED"
            BY <3>2 DEF CInv, ClosedLots
      <3> QED BY <1>1, <2>1, <2>2, <3>2, <3>3 DEF CInv, ClosedLots, EntersRow, OwnLotClosed
    <2>3. CASE Family # "DELIVERY"
          BY <2>1, <2>3 DEF DecrementLot, CInv, ClosedLots
    <2> QED BY <2>2, <2>3
  <1> QED BY <1>2, <1>3, <1>4

LEMMA NextKeepsClosed == CInv /\ [Next]_vars => CInv'
  <1> SUFFICES ASSUME CInv, [Next]_vars PROVE CInv'
      OBVIOUS
  <1>1. IInv /\ IInv'
        BY NextIInv DEF CInv
  <1>2. CASE Request
    <2>1. CASE \E t \in DOMAIN trades : SoftDelete(t)
      <3>1. PICK t \in DOMAIN trades : SoftDelete(t)
            BY <2>1
      <3>2. /\ lots' = lots /\ committed'.lots = lots /\ committed'.trades = trades'
            /\ \A u \in DOMAIN trades : trades'[u].status = trades[u].status
            BY <1>1, <3>1 DEF SoftDelete, Tables, IInv, TypeOK, TablesOK, TradeRow
      <3>3. DOMAIN lots \subseteq DOMAIN trades
            BY <1>1 DEF IInv, TypeOK, TablesOK
      <3> QED BY <1>1, <3>2, <3>3 DEF CInv, ClosedLots
    <2>2. CASE UNCHANGED <<trades, lots, committed>>
          BY <1>1, <2>2 DEF CInv, ClosedLots
    <2> QED BY <1>1, <1>2, <2>1, <2>2, RequestBegins DEF BeginRun
  <1>3. CASE ProcessFill
    <2>1. PICK f \in pending : OpenTrade(f) \/ ScaleIn(f) \/ PartialExit(f) \/ FullExit(f)
          BY <1>3 DEF ProcessFill
    <2>2. UNCHANGED committed
          BY <2>1 DEF OpenTrade, ScaleIn, PartialExit, FullExit, Assign
    <2> QED BY <1>1, <2>1, <2>2, LoopKeepsClosed DEF CInv
  <1>4. CASE RaiseError \/ Abort
        BY <1>1, <1>4 DEF RaiseError, CrossingZero, LotInconsistent, Abort, Rollback, CInv
  <1>5. CASE Commit
        BY <1>1, <1>5 DEF Commit, Tables, tables, CInv
  <1>6. CASE UNCHANGED vars
        BY <1>1, <1>6 DEF vars, CInv, ClosedLots
  <1> QED BY <1>2, <1>3, <1>4, <1>5, <1>6 DEF Next

\* Whatever trades of other accounts, or of a deleted trade's successor, draw on
\* the lots: those of closed trades stay closed and empty.
THEOREM ClosedLotsStayClosed == Spec => []ClosedTradeLotClosed
  <1>1. Init => CInv
    <2> SUFFICES ASSUME Init PROVE CInv
        OBVIOUS
    <2>1. lots = NoRows /\ committed.lots = NoRows /\ DOMAIN NoRows = {}
          BY DEF Init, Tables, NoRows
    <2> QED BY <2>1, InitIInv DEF CInv, ClosedLots
  <1>2. CInv => ClosedTradeLotClosed
        BY DEF CInv, ClosedLots, ClosedTradeLotClosed
  <1> QED BY <1>1, <1>2, NextKeepsClosed, PTL DEF Spec

--------------------------------------------------------------------------------
(* All lots together hold what all trades together hold *)

RemIn(ls) == [t \in DOMAIN ls |-> ls[t].rem]
NetIn(ts) == [t \in DOMAIN ts |-> ts[t].net]

Conserved(ls, ts) ==
    Family = "DELIVERY" =>
        /\ DOMAIN ls = DOMAIN ts /\ IsFiniteSet(DOMAIN ts)
        /\ SumFunctionOnSet(RemIn(ls), DOMAIN ts) = SumFunctionOnSet(NetIn(ts), DOMAIN ts)
        /\ \A t \in DOMAIN ls : ls[t].rem \in 0..ls[t].orig

VInv == IInv /\ Conserved(lots, trades) /\ Conserved(committed.lots, committed.trades)

LEMMA LoopConserves ==
    ASSUME VInv, NEW f \in pending, Family = "DELIVERY",
           OpenTrade(f) \/ ScaleIn(f) \/ PartialExit(f) \/ FullExit(f)
    PROVE  Conserved(lots', trades')
  <1> DEFINE q  == fills[f].qty
             S  == DOMAIN trades
             r  == RemIn(lots)
             n  == NetIn(trades)
             rn == RemIn(lots')
             nn == NetIn(trades')
  <1>1. /\ DOMAIN lots = S /\ IsFiniteSet(S)
        /\ SumFunctionOnSet(r, S) = SumFunctionOnSet(n, S)
        /\ \A t \in S : lots[t].rem \in 0..lots[t].orig
        BY DEF VInv, Conserved
  <1>2. /\ lots \in [S -> LotRow] /\ trades \in [S -> TradeRow]
        /\ \A t \in S : /\ r[t] = lots[t].rem /\ lots[t].orig \in Nat
                       /\ n[t] = trades[t].net
                       /\ r[t] \in Int /\ n[t] \in Int
        BY <1>1 DEF VInv, IInv, TypeOK, TablesOK, LotRow, TradeRow, RemIn, NetIn
  <1>3. q \in Nat \ {0}
        BY QtyAssumption DEF VInv, IInv, TypeOK, TablesOK, FillRow
  <1>4. CASE OpenTrade(f)
    <2>1. /\ DOMAIN trades' = S \cup {f} /\ f \notin S
          /\ \A t \in S : trades'[t] = trades[t]
          /\ trades'[f].net = q
          /\ lots' = [t \in DOMAIN lots \cup {f} |->
                           IF t = f THEN NewLot(fills[f]) ELSE lots[t]]
          BY <1>4, OpenRows DEF VInv
    <2>2. /\ DOMAIN lots' = S \cup {f} /\ lots'[f] = NewLot(fills[f])
          /\ \A t \in S : lots'[t] = lots[t]
          BY <1>1, <2>1
    <2>3. lots'[f].rem = q /\ lots'[f].orig = q
          BY <2>2 DEF NewLot
    <2>4. \A t \in S \cup {f} : lots'[t].rem \in 0..lots'[t].orig
          BY <1>1, <1>3, <2>2, <2>3
    <2>5. IsFiniteSet(S \cup {f})
          BY <1>1, FS_AddElement
    <2>6. /\ \A t \in S : rn[t] = r[t] /\ nn[t] = n[t]
          /\ rn[f] = q /\ nn[f] = q
          BY <1>1, <2>1, <2>2, <2>3 DEF RemIn, NetIn
    <2>7. SumFunctionOnSet(rn, S \cup {f}) = SumFunctionOnSet(nn, S \cup {f})
      <3>1. Extended(rn, r, S, f) /\ Extended(nn, n, S, f)
            BY <1>2, <1>3, <2>6 DEF Extended
      <3> HIDE DEF S, r, n, rn, nn
      <3> QED BY <1>1, <2>1, <2>6, <3>1, SumExtended
    <2> QED BY <2>1, <2>2, <2>4, <2>5, <2>7 DEF Conserved
  <1>5. CASE ScaleIn(f)
    <2>1. /\ EntersRow(q) /\ trades'[cur].net = trades[cur].net + q
          /\ lots' = [lots EXCEPT ![cur] = LotScaledIn(@, q)]
          BY <1>5, ScaleInRows DEF VInv
    <2>2. /\ cur \in S /\ DOMAIN trades' = S /\ DOMAIN lots' = S
          /\ \A t \in S : t # cur => trades'[t] = trades[t] /\ lots'[t] = lots[t]
          /\ lots'[cur] = LotScaledIn(lots[cur], q)
          BY <1>1, <2>1 DEF EntersRow
    <2>3. /\ lots'[cur].orig = lots[cur].orig + q
          /\ lots'[cur].rem = (lots[cur].orig + q) - (lots[cur].orig - lots[cur].rem)
          BY <1>2, <2>2 DEF LotScaledIn, LotRow
    <2>4. lots'[cur].rem = lots[cur].rem + q
          BY <1>2, <1>3, <2>2, <2>3
    <2>5. \A t \in S : lots'[t].rem \in 0..lots'[t].orig
          BY <1>1, <1>2, <1>3, <2>2, <2>3, <2>4
    <2>6. /\ \A t \in S : rn[t] = IF t = cur THEN r[t] + q ELSE r[t]
          /\ \A t \in S : nn[t] = IF t = cur THEN n[t] + q ELSE n[t]
          BY <1>1, <2>1, <2>2, <2>4 DEF RemIn, NetIn
    <2>7. SumFunctionOnSet(rn, S) = SumFunctionOnSet(nn, S)
      <3>1. Shifted(rn, r, S, cur, q) /\ Shifted(nn, n, S, cur, q) /\ q \in Int
            BY <1>2, <1>3, <2>6 DEF Shifted
      <3> HIDE DEF S, r, n, rn, nn, q
      <3> QED BY <1>1, <2>2, <3>1, SumShifted
    <2> QED BY <1>1, <2>2, <2>5, <2>7 DEF Conserved
  <1>6. CASE PartialExit(f) \/ FullExit(f)
    <2>1. /\ EntersRow(q) /\ trades'[cur].net = trades[cur].net - q
          /\ DecrementLot(q)
          BY <1>6, ExitRows DEF VInv
    <2>2. PICK l \in OpenLots(lots) : lots[l].rem >= q /\ lots' = LotsAfterExit(l, q)
          BY <2>1 DEF DecrementLot, OldestOpenLots
    <2>3. /\ cur \in S /\ l \in S /\ DOMAIN trades' = S /\ DOMAIN lots' = S
          /\ \A t \in S : t # cur => trades'[t] = trades[t]
          /\ \A t \in S : t # l => lots'[t] = lots[t]
          /\ lots'[l] = LotDecremented(lots[l], q)
          BY <1>1, <2>1, <2>2 DEF EntersRow, OpenLots, LotsAfterExit
    <2>4. lots'[l].orig = lots[l].orig /\ lots'[l].rem = lots[l].rem - q
          BY <1>2, <2>3 DEF LotDecremented, LotRow
    <2>5. \A t \in S : lots'[t].rem \in 0..lots'[t].orig
          BY <1>1, <1>2, <1>3, <2>2, <2>3, <2>4
    <2>6. /\ \A t \in S : rn[t] = IF t = l THEN r[t] + (-q) ELSE r[t]
          /\ \A t \in S : nn[t] = IF t = cur THEN n[t] + (-q) ELSE n[t]
          BY <1>1, <1>2, <1>3, <2>1, <2>3, <2>4 DEF RemIn, NetIn
    <2>7. SumFunctionOnSet(rn, S) = SumFunctionOnSet(nn, S)
      <3> DEFINE d == -q
      <3>1. Shifted(rn, r, S, l, d) /\ Shifted(nn, n, S, cur, d) /\ d \in Int
            BY <1>2, <1>3, <2>6 DEF Shifted
      <3> HIDE DEF S, r, n, rn, nn, q, d
      <3>2. SumFunctionOnSet(rn, S) = SumFunctionOnSet(r, S) + d
            BY <1>1, <2>3, <3>1, SumShifted
      <3>3. SumFunctionOnSet(nn, S) = SumFunctionOnSet(n, S) + d
            BY <1>1, <2>3, <3>1, SumShifted
      <3>4. SumFunctionOnSet(r, S) = SumFunctionOnSet(n, S)
            BY <1>1
      <3> QED BY <3>2, <3>3, <3>4
    <2> QED BY <1>1, <2>3, <2>5, <2>7 DEF Conserved
  <1> QED BY <1>4, <1>5, <1>6

LEMMA NextConserves == VInv /\ [Next]_vars => VInv'
  <1> SUFFICES ASSUME VInv, [Next]_vars PROVE VInv'
      OBVIOUS
  <1>1. IInv /\ IInv'
        BY NextIInv DEF VInv
  <1>2. CASE Request
    <2>1. CASE \E t \in DOMAIN trades : SoftDelete(t)
      <3>1. PICK t \in DOMAIN trades : SoftDelete(t)
            BY <2>1
      <3>2. /\ lots' = lots /\ committed'.lots = lots /\ committed'.trades = trades'
            /\ trades' = [trades EXCEPT ![t].deleted = TRUE]
            BY <3>1 DEF SoftDelete, Tables
      <3>3. /\ DOMAIN trades' = DOMAIN trades
            /\ \A u \in DOMAIN trades : trades'[u].net = trades[u].net
            BY <1>1, <3>2 DEF IInv, TypeOK, TablesOK, TradeRow
      <3>4. NetIn(trades') = NetIn(trades)
            BY <3>3 DEF NetIn
      <3> QED BY <1>1, <3>2, <3>3, <3>4 DEF VInv, Conserved
    <2>2. CASE UNCHANGED <<trades, lots, committed>>
          BY <1>1, <2>2 DEF VInv, Conserved
    <2> QED BY <1>1, <1>2, <2>1, <2>2, RequestBegins DEF BeginRun
  <1>3. CASE ProcessFill
    <2>1. PICK f \in pending : OpenTrade(f) \/ ScaleIn(f) \/ PartialExit(f) \/ FullExit(f)
          BY <1>3 DEF ProcessFill
    <2>2. UNCHANGED committed
          BY <2>1 DEF OpenTrade, ScaleIn, PartialExit, FullExit, Assign
    <2>3. Family # "DELIVERY" => Conserved(lots', trades')
          BY DEF Conserved
    <2> QED BY <1>1, <2>1, <2>2, <2>3, LoopConserves DEF VInv
  <1>4. CASE RaiseError \/ Abort
        BY <1>1, <1>4 DEF RaiseError, CrossingZero, LotInconsistent, Abort, Rollback, VInv
  <1>5. CASE Commit
        BY <1>1, <1>5 DEF Commit, Tables, tables, VInv
  <1>6. CASE UNCHANGED vars
        BY <1>1, <1>6 DEF vars, VInv
  <1> QED BY <1>2, <1>3, <1>4, <1>5, <1>6 DEF Next

\* Whichever lots the exits of whichever accounts draw on, nothing is consumed
\* twice or lost: all lots together hold what all trades together hold.
THEOREM LotsAlwaysConserved == Spec => []LotsConserved
  <1>1. Init => VInv
    <2> SUFFICES ASSUME Init PROVE VInv
        OBVIOUS
    <2>1. /\ trades = NoRows /\ committed.trades = NoRows /\ DOMAIN NoRows = {}
          /\ lots = NoRows /\ committed.lots = NoRows
          BY DEF Init, Tables, NoRows
    <2>2. RemIn(NoRows) = NetIn(NoRows)
          BY <2>1 DEF RemIn, NetIn
    <2> QED BY <2>1, <2>2, InitIInv, FS_EmptySet DEF VInv, Conserved
  <1>2. VInv => LotsConserved
    <2> SUFFICES ASSUME VInv, Family = "DELIVERY"
                 PROVE  /\ SumFunction([t \in DOMAIN lots |-> lots[t].rem])
                             = SumFunction([t \in DOMAIN trades |-> trades[t].net])
                        /\ \A t \in DOMAIN lots : lots[t].rem \in 0..lots[t].orig
        BY DEF LotsConserved
    <2>1. DOMAIN RemIn(lots) = DOMAIN trades /\ DOMAIN NetIn(trades) = DOMAIN trades
          BY DEF VInv, Conserved, RemIn, NetIn
    <2>2. SumFunction(RemIn(lots)) = SumFunction(NetIn(trades))
          BY <2>1 DEF SumFunction, VInv, Conserved
    <2> QED BY <2>2 DEF VInv, Conserved, RemIn, NetIn
  <1> QED BY <1>1, <1>2, NextConserves, PTL DEF Spec

--------------------------------------------------------------------------------
(* Lots of one owner *)

MInv == IInv /\ Mirrors(lots, trades) /\ Mirrors(committed.lots, committed.trades)

\* The lot that is found is the current trade's own, for want of others.
LEMMA OwnLotFound ==
    ASSUME MInv, OneOwner(trades), Family = "DELIVERY",
           cur \in DOMAIN trades, trades[cur].status # "CLOSED",
           NEW l \in OpenLots(lots)
    PROVE  l = cur
  <1>1. l \in DOMAIN trades /\ trades[l].status # "CLOSED"
        BY DEF MInv, Mirrors, IInv, TypeOK, TablesOK, OpenLots
  <1>2. /\ trades[l].acct = trades[cur].acct
        /\ ~trades[l].deleted /\ ~trades[cur].deleted
        BY <1>1 DEF OneOwner, MInv, IInv, TypeOK, TablesOK, TradeRow
  <1> QED BY <1>1, <1>2 DEF MInv, IInv, DatabaseGood, TradesGood

\* A run adds trades and deletes none: with one owner after it, there was before.
LEMMA OwnerBefore ==
    ASSUME MInv, NEW f \in pending, OneOwner(trades'),
           OpenTrade(f) \/ ScaleIn(f) \/ PartialExit(f) \/ FullExit(f)
    PROVE  OneOwner(trades)
  <1>1. CASE OpenTrade(f)
    <2>1. /\ DOMAIN trades' = DOMAIN trades \cup {f}
          /\ \A t \in DOMAIN trades : t # f /\ trades'[t] = trades[t]
          BY <1>1, OpenRows DEF MInv
    <2> QED BY <2>1 DEF OneOwner
  <1>2. CASE ScaleIn(f) \/ PartialExit(f) \/ FullExit(f)
    <2>1. EntersRow(fills[f].qty)
          BY <1>2, ScaleInRows, ExitRows DEF MInv
    <2>2. cur # NULL /\ phase = "running"
          BY <1>2 DEF ScaleIn, PartialExit, FullExit, TakesAs, Takes
    <2>3. ~trades[cur].deleted
          BY <2>2 DEF MInv, IInv, RunAgreesWithTables, OpenTrades
    <2>4. \A t \in DOMAIN trades :
             /\ trades'[t].acct = trades[t].acct
             /\ trades[t].deleted => trades'[t] = trades[t]
          BY <2>1, <2>3 DEF EntersRow
    <2>5. DOMAIN trades' = DOMAIN trades
          BY <2>1 DEF EntersRow
    <2> QED BY <2>4, <2>5 DEF OneOwner
  <1> QED BY <1>1, <1>2

LEMMA LoopKeepsMirror ==
    ASSUME MInv, NEW f \in pending,
           OpenTrade(f) \/ ScaleIn(f) \/ PartialExit(f) \/ FullExit(f)
    PROVE  Mirrors(lots', trades')
  <1> SUFFICES ASSUME Family = "DELIVERY", OneOwner(trades')
               PROVE  \A t \in DOMAIN trades' :
                         /\ t \in DOMAIN lots'
                         /\ lots'[t].orig = trades'[t].entry
                         /\ lots'[t].rem = trades'[t].net
                         /\ lots'[t].status = "CLOSED" <=> trades'[t].status = "CLOSED"
      BY DEF Mirrors
  <1> DEFINE q == fills[f].qty
  <1>0. /\ OneOwner(trades)
        /\ \A t \in DOMAIN trades :
              /\ t \in DOMAIN lots
              /\ lots[t].orig = trades[t].entry
              /\ lots[t].rem = trades[t].net
              /\ lots[t].status = "CLOSED" <=> trades[t].status = "CLOSED"
        BY OwnerBefore DEF MInv, Mirrors
  <1>1. /\ DOMAIN lots \subseteq DOMAIN trades /\ lots \in [DOMAIN lots -> LotRow]
        BY DEF MInv, IInv, TypeOK, TablesOK
  <1>2. CASE OpenTrade(f)
    <2>1. /\ DOMAIN trades' = DOMAIN trades \cup {f}
          /\ \A t \in DOMAIN trades : t # f /\ trades'[t] = trades[t]
          /\ trades'[f].status = "OPEN"
          /\ trades'[f].entry = q /\ trades'[f].net = q
          BY <1>2, OpenRows DEF MInv
    <2>2. /\ DOMAIN lots' = DOMAIN lots \cup {f} /\ lots'[f] = NewLot(fills[f])
          /\ \A t \in DOMAIN lots : t # f => lots'[t] = lots[t]
          BY <1>2, OpenRows DEF MInv
    <2>3. lots'[f].orig = q /\ lots'[f].rem = q /\ lots'[f].status # "CLOSED"
          BY <2>2 DEF NewLot
    <2> QED BY <1>0, <2>1, <2>2, <2>3
  <1>3. CASE ScaleIn(f)
    <2>1. /\ EntersRow(q)
          /\ trades'[cur].entry = trades[cur].entry + q
          /\ trades'[cur].net = trades[cur].net + q
          /\ trades'[cur].status # "CLOSED"
          BY <1>3, ScaleInRows DEF MInv
    <2>2. /\ cur \in DOMAIN lots /\ lots[cur] \in LotRow
          /\ lots[cur].orig = trades[cur].entry /\ lots[cur].rem = trades[cur].net
          /\ lots[cur].status # "CLOSED"
          BY <1>0, <1>1, <2>1 DEF EntersRow
    <2>3. /\ DOMAIN lots' = DOMAIN lots /\ lots'[cur] = LotScaledIn(lots[cur], q)
          /\ \A t \in DOMAIN lots : t # cur => lots'[t] = lots[t]
          BY <1>3, <2>2, ScaleInRows DEF MInv
    <2>4. /\ lots'[cur].orig = lots[cur].orig + q
          /\ lots'[cur].rem = (lots[cur].orig + q) - (lots[cur].orig - lots[cur].rem)
          /\ lots'[cur].status = lots[cur].status
          BY <2>2, <2>3 DEF LotScaledIn, LotRow
    <2>5. lots'[cur].rem = trades'[cur].net /\ lots'[cur].orig = trades'[cur].entry
          BY <2>1, <2>2, <2>4 DEF EntersRow
    <2> QED BY <1>0, <2>1, <2>2, <2>3, <2>4, <2>5 DEF EntersRow
  <1>4. CASE PartialExit(f) \/ FullExit(f)
    <2>1. /\ EntersRow(q) /\ DecrementLot(q)
          /\ trades'[cur].entry = trades[cur].entry
          /\ trades'[cur].net = trades[cur].net - q
          /\ trades'[cur].status = "CLOSED" <=> trades[cur].net = q
          BY <1>4, ExitRows DEF MInv
    <2>2. /\ cur \in DOMAIN lots /\ lots[cur] \in LotRow
          /\ lots[cur].orig = trades[cur].entry /\ lots[cur].rem = trades[cur].net
          BY <1>0, <1>1, <2>1 DEF EntersRow
    <2>3. PICK l \in OpenLots(lots) : lots' = LotsAfterExit(l, q)
          BY <2>1 DEF DecrementLot, OldestOpenLots
    <2>4. l = cur
          BY <1>0, <2>1, OwnLotFound DEF EntersRow
    <2>5. /\ DOMAIN lots' = DOMAIN lots /\ lots'[cur] = LotDecremented(lots[cur], q)
          /\ \A t \in DOMAIN lots : t # cur => lots'[t] = lots[t]
          BY <2>2, <2>3, <2>4 DEF LotsAfterExit
    <2>6. /\ lots'[cur].orig = lots[cur].orig /\ lots'[cur].rem = lots[cur].rem - q
          /\ lots'[cur].status = "CLOSED" <=> lots[cur].rem = q
          BY <2>2, <2>5 DEF LotDecremented, LotRow
    <2> QED BY <1>0, <2>1, <2>2, <2>5, <2>6 DEF EntersRow
  <1> QED BY <1>2, <1>3, <1>4

LEMMA NextKeepsMirror == MInv /\ [Next]_vars => MInv'
  <1> SUFFICES ASSUME MInv, [Next]_vars PROVE MInv'
      OBVIOUS
  <1>1. IInv /\ IInv'
        BY NextIInv DEF MInv
  <1>2. CASE Request
    <2>1. CASE \E t \in DOMAIN trades : SoftDelete(t)
      <3>1. PICK t \in DOMAIN trades : SoftDelete(t)
            BY <2>1
      <3>2. /\ lots' = lots /\ committed'.lots = lots /\ committed'.trades = trades'
            /\ trades' = [trades EXCEPT ![t].deleted = TRUE]
            BY <3>1 DEF SoftDelete, Tables
      <3>3. /\ DOMAIN trades' = DOMAIN trades
            /\ \A u \in DOMAIN trades :
                  /\ trades'[u].acct = trades[u].acct /\ trades'[u].status = trades[u].status
                  /\ trades'[u].entry = trades[u].entry /\ trades'[u].net = trades[u].net
                  /\ trades[u].deleted => trades'[u].deleted
            BY <1>1, <3>2 DEF IInv, TypeOK, TablesOK, TradeRow
      <3>4. OneOwner(trades') => OneOwner(trades)
            BY <3>3 DEF OneOwner
      <3>5. Mirrors(lots', trades')
            BY <3>2, <3>3, <3>4 DEF MInv, Mirrors
      <3> QED BY <1>1, <3>2, <3>5 DEF MInv
    <2>2. CASE UNCHANGED <<trades, lots, committed>>
          BY <1>1, <2>2 DEF MInv
    <2> QED BY <1>1, <1>2, <2>1, <2>2, RequestBegins DEF BeginRun
  <1>3. CASE ProcessFill
    <2>1. PICK f \in pending : OpenTrade(f) \/ ScaleIn(f) \/ PartialExit(f) \/ FullExit(f)
          BY <1>3 DEF ProcessFill
    <2>2. UNCHANGED committed
          BY <2>1 DEF OpenTrade, ScaleIn, PartialExit, FullExit, Assign
    <2> QED BY <1>1, <2>1, <2>2, LoopKeepsMirror DEF MInv
  <1>4. CASE RaiseError \/ Abort
        BY <1>1, <1>4 DEF RaiseError, CrossingZero, LotInconsistent, Abort, Rollback, MInv
  <1>5. CASE Commit
        BY <1>1, <1>5 DEF Commit, Tables, tables, MInv
  <1>6. CASE UNCHANGED vars
        BY <1>1, <1>6 DEF vars, MInv
  <1> QED BY <1>2, <1>3, <1>4, <1>5, <1>6 DEF Next

\* As long as the lots have one owner, who deletes none of the open trades: however
\* trades are scaled in and out of, resumed and rolled back, each lot is its
\* trade's mirror image.
THEOREM LotsMirrorTrades == Spec => []LotMirrorsTrade
  <1>1. Init => MInv
    <2> SUFFICES ASSUME Init PROVE MInv
        OBVIOUS
    <2>1. trades = NoRows /\ committed.trades = NoRows /\ DOMAIN NoRows = {}
          BY DEF Init, Tables, NoRows
    <2> QED BY <2>1, InitIInv DEF MInv, Mirrors
  <1>2. MInv => LotMirrorsTrade
        BY DEF MInv, LotMirrorsTrade
  <1> QED BY <1>1, <1>2, NextKeepsMirror, PTL DEF Spec
================================================================================
