---------------------------- MODULE SessionProofs ----------------------------
(***************************************************************************)
(* Safety of TradeSessions for every set of sessions, fills and quantities *)
(* and every bound on a request's fills: whatever statements of whichever  *)
(* requests come between two steps of a run.                               *)
(***************************************************************************)
EXTENDS TradeSessions, EngineProofs

----------------------------------------------------------------------------
(* The inductive invariant.  r is the session of s; fs, ts, xs and lk are  *)
(* the tables and the locks.                                                *)

TablesTyped(fs, ts, xs, lk) ==
    /\ fs \in [DOMAIN fs -> {row \in FillRow : row.trade \in DOMAIN ts /\ row.role # "NULL"}]
    /\ ts \in [DOMAIN ts -> TradeRow]
    /\ DOMAIN ts \subseteq DOMAIN fs /\ DOMAIN fs \subseteq Fill
    /\ IsFiniteSet(DOMAIN fs)
    /\ xs \subseteq DOMAIN fs
    /\ lk \in [DOMAIN ts -> Session \cup {NULL}]

Shaped(r) ==
    r = [at |-> r.at, mine |-> r.mine, seen |-> r.seen, found |-> r.found,
         open |-> r.open, rows |-> r.rows, left |-> r.left, cur |-> r.cur,
         snap |-> r.snap, pos |-> r.pos, target |-> r.target, hide |-> r.hide]

Typed(r, fs, ts) ==
    /\ r.at \in {"start", "scan", "lock", "run", "hide", "delete", "commit"}
    /\ r.mine \in [DOMAIN r.mine -> FillRow]
    /\ r.rows \in [DOMAIN r.rows -> TradeRow]
    /\ r.seen \in [DOMAIN r.seen -> TradeRow]
    /\ r.found \cup r.open \subseteq DOMAIN ts
    /\ r.left \subseteq DOMAIN r.mine
    /\ r.cur \in DOMAIN r.rows \cup {NULL}
    /\ r.snap \in Snapshot /\ r.pos \in Int
    /\ r.target \in DOMAIN ts \cup {NULL}
    /\ r.hide \subseteq DOMAIN fs

\* What is the session's own: the fills it has inserted, and the rows it has
\* locked or is about to insert.
Owns(s, r, fs, ts, lk) ==
    /\ IsFiniteSet(DOMAIN r.mine) /\ DOMAIN r.mine \subseteq Fill \ DOMAIN fs
    /\ DOMAIN r.rows \subseteq DOMAIN ts \cup (DOMAIN r.mine \ r.left)
    /\ \A t \in DOMAIN r.rows \cap DOMAIN ts : lk[t] = s
    /\ \A t \in r.open : lk[t] = s /\ t \in OpenTrades(ts, Unit)

\* A DELETE writes one row, as it found it but for the flag; a run writes no
\* row that it has not been given as open.
Writes(r, ts) ==
    /\ r.target # NULL =>
          /\ r.mine = NoRows /\ r.open = {} /\ r.cur = NULL
          /\ r.at \in {"hide", "delete", "commit"}
          /\ r.at # "commit" => r.rows = NoRows
          /\ r.at = "commit" =>
                r.rows = OneRow(r.target, [ts[r.target] EXCEPT !.deleted = TRUE])
    /\ r.target = NULL =>
          /\ r.at \notin {"hide", "delete"}
          /\ DOMAIN r.rows \cap DOMAIN ts \subseteq r.open
    /\ r.at \in {"start", "scan", "lock"} => r.rows = NoRows /\ r.cur = NULL
    /\ r.at \in {"start", "scan"} => r.open = {}
    /\ r.at \in {"start", "hide", "delete", "commit"} => r.left = {}

\* Where the run is: every fill taken has its trade, the position is that of
\* the snapshot, and the snapshot that of the current row unless the session had
\* loaded the row before it was locked.
Run(r) ==
    /\ \A f \in DOMAIN r.mine :
          IF f \in r.left THEN r.mine[f].trade = NULL
          ELSE r.mine[f].trade \in DOMAIN r.rows /\ r.mine[f].role # "NULL"
    /\ r.cur = NULL => r.pos = 0
    /\ r.cur # NULL => r.pos = ResumedPosition(r.snap)
    /\ r.cur # NULL /\ DOMAIN r.seen = {} => r.snap = SnapshotOf(r.rows[r.cur])
    /\ \A t \in DOMAIN r.seen : r.seen[t].status # "CLOSED"
    /\ DOMAIN r.seen # {} => \A f \in DOMAIN r.mine : r.mine[f].source = "MANUAL"

\* A row that is the sum of the fills assigned to its trade, if all are imported.
AddUp(fs, t, row) ==
    (\A f \in DOMAIN fs : fs[f].trade = t => fs[f].source = "CSV") =>
        /\ row.entry = TotalIn(fs, t, "ENTRY")
        /\ row.exit = TotalIn(fs, t, "EXIT")
        /\ QuantitiesAgree(row)

RowsAddUp(r, fs) ==
    r.target = NULL => \A t \in DOMAIN r.rows : AddUp(Stored(r.mine, fs), t, r.rows[t])

Good(s, r, fs, ts, lk) ==
    /\ Shaped(r) /\ Typed(r, fs, ts)
    /\ Owns(s, r, fs, ts, lk) /\ Writes(r, ts) /\ Run(r) /\ RowsAddUp(r, fs)

Inv ==
    /\ TablesTyped(fills, trades, excluded, lock)
    /\ \A t \in DOMAIN trades : AddUp(fills, t, trades[t])
    /\ sess = [s \in Session |-> sess[s]]
    /\ \A s, z \in Session : s # z => DOMAIN sess[s].mine \cap DOMAIN sess[z].mine = {}
    /\ \A s \in Session : Good(s, sess[s], fills, trades, lock)

----------------------------------------------------------------------------
(* Steps that change one session and, at most, locks that are free or its own *)

LEMMA UnitTyped == Unit \in Account
  BY SessionsAssumption DEF Unit

LEMMA NullsApart ==
    ASSUME Inv
    PROVE  NULL \notin DOMAIN fills /\ NULL \notin DOMAIN trades /\ NULL \notin Session
  BY NullAssumption, SessionsAssumption DEF Inv, TablesTyped

\* Such a step keeps the invariant if it does for the session that takes it.
LEMMA OneSession ==
    ASSUME Inv, NEW s \in Session, UNCHANGED tables,
           lock' \in [DOMAIN trades -> Session \cup {NULL}],
           \A t \in DOMAIN trades : lock'[t] = lock[t] \/ lock[t] \in {NULL, s},
           sess' = [z \in Session |-> IF z = s THEN sess'[s] ELSE sess[z]],
           Good(s, sess'[s], fills, trades, lock'),
           \A z \in Session : z # s => DOMAIN sess'[s].mine \cap DOMAIN sess[z].mine = {}
    PROVE  Inv'
  <1> USE DEF tables
  <1>1. TablesTyped(fills', trades', excluded', lock')
        BY DEF Inv, TablesTyped
  <1>2. \A t \in DOMAIN trades' : AddUp(fills', t, trades'[t])
        BY DEF Inv
  <1>3. sess' = [z \in Session |-> sess'[z]]
        OBVIOUS
  <1>4. \A y, z \in Session : y # z => DOMAIN sess'[y].mine \cap DOMAIN sess'[z].mine = {}
        BY DEF Inv
  <1>5. ASSUME NEW z \in Session PROVE Good(z, sess'[z], fills', trades', lock')
    <2>1. CASE z = s
          BY <2>1
    <2>2. CASE z # s
      <3>1. sess'[z] = sess[z] /\ Good(z, sess[z], fills, trades, lock)
            BY <2>2 DEF Inv
      <3>2. z # NULL
            BY NullsApart
      <3>3. \A t \in DOMAIN trades : lock[t] = z => lock'[t] = z
            BY <2>2, <3>2
      <3>4. \A t \in sess[z].open : t \in DOMAIN trades
            BY <3>1 DEF Good, Typed
      <3>5. Owns(z, sess[z], fills, trades, lock')
            BY <3>1, <3>3, <3>4 DEF Good, Owns
      <3> QED BY <3>1, <3>5 DEF Good
    <2> QED BY <2>1, <2>2
  <1> QED BY <1>1, <1>2, <1>3, <1>4, <1>5 DEF Inv

\* A session between requests.
LEMMA EndedGood == ASSUME NEW s, NEW fs, NEW ts, NEW lk PROVE Good(s, Ended, fs, ts, lk)
  <1>1. DOMAIN NoRows = {} /\ NoRows \in [{} -> FillRow] /\ NoRows \in [{} -> TradeRow]
        BY DEF NoRows
  <1>2. /\ Ended.at = "start" /\ Ended.mine = NoRows /\ Ended.seen = NoRows
        /\ Ended.found = {} /\ Ended.open = {} /\ Ended.rows = NoRows /\ Ended.left = {}
        /\ Ended.cur = NULL /\ Ended.snap = NoSnapshot /\ Ended.pos = 0
        /\ Ended.target = NULL /\ Ended.hide = {} /\ Shaped(Ended)
        BY DEF Ended, Shaped
  <1>3. NoSnapshot \in Snapshot
        BY DEF NoSnapshot, Snapshot, Direction
  <1>4. Typed(Ended, fs, ts)
        BY <1>1, <1>2, <1>3 DEF Typed
  <1>5. Owns(s, Ended, fs, ts, lk)
        BY <1>1, <1>2, FS_EmptySet DEF Owns
  <1>6. Writes(Ended, ts) /\ Run(Ended) /\ RowsAddUp(Ended, fs)
        BY <1>1, <1>2 DEF Writes, Run, RowsAddUp
  <1> QED BY <1>2, <1>4, <1>5, <1>6 DEF Good

LEMMA RollbackKeeps == ASSUME Inv, NEW s \in Session, Rollback(s) PROVE Inv'
  <1>1. /\ sess' = [z \in Session |-> IF z = s THEN sess'[s] ELSE sess[z]]
        /\ sess'[s] = Ended
        BY DEF Rollback, Inv
  <1>2. /\ lock' \in [DOMAIN trades -> Session \cup {NULL}]
        /\ \A t \in DOMAIN trades : lock'[t] = lock[t] \/ lock[t] \in {NULL, s}
        BY DEF Rollback, Released, Inv, TablesTyped
  <1>3. DOMAIN sess'[s].mine = {}
        BY <1>1 DEF Ended, NoRows
  <1>4. Good(s, sess'[s], fills, trades, lock')
    <2> DEFINE lk == lock'
    <2> HIDE DEF lk
    <2>1. Good(s, Ended, fills, trades, lk)
          BY EndedGood
    <2> QED BY <1>1, <2>1 DEF lk
  <1>5. \A z \in Session : z # s => DOMAIN sess'[s].mine \cap DOMAIN sess[z].mine = {}
        BY <1>3
  <1>6. UNCHANGED tables
        BY DEF Rollback
  <1> QED BY <1>1, <1>2, <1>4, <1>5, <1>6, OneSession

----------------------------------------------------------------------------
(* A request begins, and looks for the open trade *)

\* The session of a request that begins by inserting the fills new.
Begins(r, F, new, seen) ==
    /\ Shaped(r) /\ r.at = "scan" /\ r.mine = new /\ r.left = F /\ r.seen = seen
    /\ r.found = {} /\ r.open = {} /\ r.rows = NoRows /\ r.cur = NULL
    /\ r.snap = NoSnapshot /\ r.pos = 0 /\ r.target = NULL /\ r.hide = {}

LEMMA EndedBegins ==
    ASSUME NEW F, NEW new, NEW seen, NEW r,
           \/ r = [Ended EXCEPT !.at = "scan", !.mine = new, !.left = F, !.seen = seen]
           \/ /\ r = [Ended EXCEPT !.at = "scan", !.mine = new, !.left = F]
              /\ seen = NoRows
    PROVE  Begins(r, F, new, seen)
  <1>1. /\ r.at = "scan" /\ r.mine = new /\ r.left = F /\ r.seen = seen
        /\ r.found = {} /\ r.open = {} /\ r.rows = NoRows /\ r.cur = NULL
        /\ r.snap = NoSnapshot /\ r.pos = 0 /\ r.target = NULL /\ r.hide = {}
        BY DEF Ended
  <1>2. Shaped(r)
        BY DEF Ended, Shaped
  <1> QED BY <1>1, <1>2 DEF Begins

LEMMA BeginKeeps ==
    ASSUME Inv, NEW s \in Session, NEW src \in Source,
           NEW k \in 1..MaxBatch, NEW F \in NextIds(k), NEW new \in NewRows(F, src),
           NEW seen, seen \in [DOMAIN seen -> TradeRow],
           \A t \in DOMAIN seen : seen[t].status # "CLOSED",
           DOMAIN seen # {} => src = "MANUAL",
           NEW r, Begins(r, F, new, seen), sess' = [sess EXCEPT ![s] = r],
           UNCHANGED <<tables, lock>>
    PROVE  Inv'
  <1> DEFINE n == sess'[s]
  <1>1. /\ sess' = [z \in Session |-> IF z = s THEN sess'[s] ELSE sess[z]]
        /\ n = r
        BY DEF Inv
  <1>2. /\ n.at = "scan" /\ n.mine = new /\ n.seen = seen /\ n.found = {} /\ n.open = {}
        /\ n.rows = NoRows /\ n.left = F /\ n.cur = NULL /\ n.snap = NoSnapshot
        /\ n.pos = 0 /\ n.target = NULL /\ n.hide = {} /\ Shaped(n)
        BY <1>1 DEF Begins
  <1>3. DOMAIN NoRows = {} /\ NoRows \in [{} -> TradeRow]
        BY DEF NoRows
  <1>4. /\ DOMAIN new = F
        /\ \A f \in F : new[f].trade = NULL /\ new[f].source = src
        /\ new \in [F -> FillRow]
    <2>1. PICK given \in [F -> [side: Side, qty: Qty]] :
             new = [f \in F |-> [acct |-> Unit, side |-> given[f].side, qty |-> given[f].qty,
                                 ts |-> CHOOSE ts \in Time : TRUE, source |-> src,
                                 trade |-> NULL, role |-> "NULL"]]
          BY DEF NewRows
    <2>2. (CHOOSE ts \in Time : TRUE) \in Time
          BY SessionsAssumption
    <2>3. \A f \in F : new[f] \in FillRow
          BY <2>1, <2>2, UnitTyped DEF FillRow
    <2> QED BY <2>1, <2>3
  <1>5. NoSnapshot \in Snapshot
        BY DEF NoSnapshot, Snapshot, Direction
  <1>6. Typed(n, fills, trades)
    <2> HIDE DEF n
    <2> QED BY <1>2, <1>3, <1>4, <1>5 DEF Typed
  <1>7. /\ F \subseteq Fill \ DOMAIN fills /\ IsFiniteSet(F) /\ F # {}
        /\ \A z \in Session : F \cap DOMAIN sess[z].mine = {}
    <2>1. F \subseteq Fill \ Drawn /\ IsFiniteSet(F) /\ Cardinality(F) = k
          BY DEF NextIds
    <2>2. F # {}
          BY <2>1, FS_EmptySet, SessionsAssumption
    <2> QED BY <2>1, <2>2 DEF Drawn
  <1>8. Owns(s, n, fills, trades, lock)
        BY <1>2, <1>3, <1>4, <1>7 DEF Owns
  <1>9. Writes(n, trades) /\ RowsAddUp(n, fills)
        BY <1>2, <1>3 DEF Writes, RowsAddUp
  <1>10. Run(n)
        BY <1>2, <1>4 DEF Run
  <1>11. Good(s, n, fills, trades, lock')
        BY <1>2, <1>6, <1>8, <1>9, <1>10 DEF Good
  <1>12. lock' \in [DOMAIN trades -> Session \cup {NULL}]
        BY DEF Inv, TablesTyped
  <1>13. \A z \in Session : z # s => DOMAIN sess'[s].mine \cap DOMAIN sess[z].mine = {}
        BY <1>2, <1>4, <1>7
  <1>14. UNCHANGED tables /\ lock' = lock
        OBVIOUS
  <1> QED BY <1>1, <1>11, <1>12, <1>13, <1>14, OneSession

LEMMA InsertKeeps ==
    ASSUME Inv, NEW s \in Session,
           \/ \E src \in Source : InsertFills(s, src)
           \/ \E t \in DOMAIN trades : AddFill(s, t)
    PROVE  Inv'
  <1>1. CASE \E src \in Source : InsertFills(s, src)
    <2>1. PICK src \in Source : InsertFills(s, src)
          BY <1>1
    <2> DEFINE r(F, new) == [Ended EXCEPT !.at = "scan", !.mine = new, !.left = F]
    <2>2. PICK k \in 1..MaxBatch : \E F \in NextIds(k) : \E new \in NewRows(F, src) :
             sess' = [sess EXCEPT ![s] = r(F, new)]
          BY <2>1 DEF InsertFills
    <2>3. PICK F \in NextIds(k) : \E new \in NewRows(F, src) : sess' = [sess EXCEPT ![s] = r(F, new)]
          BY <2>2
    <2>4. PICK new \in NewRows(F, src) : sess' = [sess EXCEPT ![s] = r(F, new)]
          BY <2>3
    <2>5. Begins(r(F, new), F, new, NoRows)
          BY EndedBegins
    <2>6. /\ NoRows \in [DOMAIN NoRows -> TradeRow] /\ DOMAIN NoRows = {}
          /\ UNCHANGED <<tables, lock>>
          BY <2>1 DEF NoRows, InsertFills
    <2> HIDE DEF r
    <2> QED BY <2>4, <2>5, <2>6, BeginKeeps
  <1>2. CASE \E t \in DOMAIN trades : AddFill(s, t)
    <2>1. PICK t \in DOMAIN trades : AddFill(s, t)
          BY <1>2
    <2> DEFINE seen == OneRow(t, trades[t])
               r(F, new) == [Ended EXCEPT !.at = "scan", !.mine = new, !.left = F,
                                          !.seen = seen]
    <2>a. PICK F \in NextIds(1) : \E new \in NewRows(F, "MANUAL") :
             sess' = [sess EXCEPT ![s] = r(F, new)]
          BY <2>1 DEF AddFill
    <2>2. PICK new \in NewRows(F, "MANUAL") : sess' = [sess EXCEPT ![s] = r(F, new)]
          BY <2>a
    <2>3. /\ DOMAIN seen = {t} /\ seen[t] = trades[t] /\ trades[t] \in TradeRow
          /\ seen \in [DOMAIN seen -> TradeRow]
          BY DEF Inv, TablesTyped, OneRow
    <2>4. trades[t].status # "CLOSED" /\ UNCHANGED <<tables, lock>>
          BY <2>1 DEF AddFill
    <2>5. 1 \in 1..MaxBatch /\ "MANUAL" \in Source
          BY SessionsAssumption DEF Source
    <2>6. \A u \in DOMAIN seen : seen[u].status # "CLOSED"
          BY <2>3, <2>4
    <2> HIDE DEF seen
    <2>7. Begins(r(F, new), F, new, seen)
          BY EndedBegins
    <2> HIDE DEF r
    <2> QED BY <2>2, <2>3, <2>4, <2>5, <2>6, <2>7, BeginKeeps
  <1> QED BY <1>1, <1>2

\* What is known of one session.
LEMMA SessionGood ==
    ASSUME Inv, NEW s \in Session
    PROVE  /\ Shaped(sess[s]) /\ Typed(sess[s], fills, trades)
           /\ Owns(s, sess[s], fills, trades, lock) /\ Writes(sess[s], trades)
           /\ Run(sess[s]) /\ RowsAddUp(sess[s], fills)
  BY DEF Inv, Good

\* OneSession, for a session that inserts no fills.
LEMMA SameFills ==
    ASSUME Inv, NEW s \in Session, UNCHANGED tables,
           lock' \in [DOMAIN trades -> Session \cup {NULL}],
           \A t \in DOMAIN trades : lock'[t] = lock[t] \/ lock[t] \in {NULL, s},
           sess' = [z \in Session |-> IF z = s THEN sess'[s] ELSE sess[z]],
           DOMAIN sess'[s].mine \subseteq DOMAIN sess[s].mine,
           Good(s, sess'[s], fills, trades, lock')
    PROVE  Inv'
  <1>1. \A z \in Session : z # s => DOMAIN sess'[s].mine \cap DOMAIN sess[z].mine = {}
        BY DEF Inv
  <1> QED BY <1>1, OneSession

LEMMA LocksTyped ==
    ASSUME Inv, NEW s \in Session
    PROVE  /\ lock \in [DOMAIN trades -> Session \cup {NULL}]
           /\ \A t \in DOMAIN trades : lock[t] = NULL =>
                 /\ [lock EXCEPT ![t] = s] \in [DOMAIN trades -> Session \cup {NULL}]
                 /\ \A u \in DOMAIN trades :
                       \/ [lock EXCEPT ![t] = s][u] = lock[u]
                       \/ u = t /\ [lock EXCEPT ![t] = s][u] = s
  BY DEF Inv, TablesTyped

LEMMA ScanKeeps == ASSUME Inv, NEW s \in Session, Scan(s) PROVE Inv'
  <1> DEFINE r == sess[s]
             n == sess'[s]
  <1>1. /\ Shaped(r) /\ Typed(r, fills, trades) /\ Owns(s, r, fills, trades, lock)
        /\ Writes(r, trades) /\ Run(r) /\ RowsAddUp(r, fills) /\ r.at = "scan"
        BY SessionGood DEF Scan
  <1>2. /\ n = [r EXCEPT !.at = "lock", !.found = OpenTrades(trades, Unit)]
        /\ sess' = [z \in Session |-> IF z = s THEN sess'[s] ELSE sess[z]]
        /\ UNCHANGED tables /\ lock' = lock
        BY DEF Scan, Inv
  <1>3. /\ n.at = "lock" /\ n.mine = r.mine /\ n.seen = r.seen
        /\ n.found = OpenTrades(trades, Unit) /\ n.open = r.open /\ n.rows = r.rows
        /\ n.left = r.left /\ n.cur = r.cur /\ n.snap = r.snap /\ n.pos = r.pos
        /\ n.target = r.target /\ n.hide = r.hide
        BY <1>1, <1>2 DEF Shaped
  <1>4. Shaped(n)
        BY <1>1, <1>2 DEF Shaped
  <1>5. OpenTrades(trades, Unit) \subseteq DOMAIN trades
        BY DEF OpenTrades
  <1> HIDE DEF r, n
  <1>6. Typed(n, fills, trades)
        BY <1>1, <1>3, <1>5 DEF Typed
  <1>7. Owns(s, n, fills, trades, lock) /\ Run(n) /\ RowsAddUp(n, fills)
        BY <1>1, <1>3 DEF Owns, Run, RowsAddUp
  <1>8. Writes(n, trades)
        BY <1>1, <1>3 DEF Writes
  <1>9. Good(s, n, fills, trades, lock')
        BY <1>2, <1>4, <1>6, <1>7, <1>8 DEF Good
  <1> QED BY <1>2, <1>3, <1>9, LocksTyped, SameFills DEF r, n

LEMMA LockRowKeeps == ASSUME Inv, NEW s \in Session, LockRow(s) PROVE Inv'
  <1> DEFINE r == sess[s]
             n == sess'[s]
             O(t) == IF t \in OpenTrades(trades, Unit) THEN r.open \cup {t} ELSE r.open
  <1>1. /\ Shaped(r) /\ Typed(r, fills, trades) /\ Owns(s, r, fills, trades, lock)
        /\ Writes(r, trades) /\ Run(r) /\ RowsAddUp(r, fills) /\ r.at = "lock"
        BY SessionGood DEF LockRow
  <1>2. PICK t \in r.found :
           /\ lock[t] = NULL /\ lock' = [lock EXCEPT ![t] = s]
           /\ sess' = [sess EXCEPT ![s].found = @ \ {t},
                         ![s].open = IF t \in OpenTrades(trades, Unit) THEN @ \cup {t} ELSE @]
        BY DEF LockRow
  <1>3. /\ n = [r EXCEPT !.found = r.found \ {t}, !.open = O(t)]
        /\ sess' = [z \in Session |-> IF z = s THEN sess'[s] ELSE sess[z]]
        /\ UNCHANGED tables
        BY <1>2 DEF LockRow, Inv
  <1>4. /\ n.at = "lock" /\ n.mine = r.mine /\ n.seen = r.seen
        /\ n.found = r.found \ {t} /\ n.open = O(t) /\ n.rows = r.rows
        /\ n.left = r.left /\ n.cur = r.cur /\ n.snap = r.snap /\ n.pos = r.pos
        /\ n.target = r.target /\ n.hide = r.hide
        BY <1>1, <1>3 DEF Shaped
  <1>5. Shaped(n)
        BY <1>1, <1>3 DEF Shaped
  <1>6. t \in DOMAIN trades /\ s # NULL
        BY <1>1, <1>2, NullsApart DEF Typed
  <1>7. /\ lock' \in [DOMAIN trades -> Session \cup {NULL}]
        /\ \A u \in DOMAIN trades : lock'[u] = lock[u] \/ (u = t /\ lock'[u] = s)
        BY <1>2, <1>6, LocksTyped
  <1>8. \A u \in O(t) : u \in r.open \/ (u = t /\ t \in OpenTrades(trades, Unit))
        OBVIOUS
  <1> HIDE DEF r, n, O
  <1>9. Typed(n, fills, trades)
        BY <1>1, <1>4, <1>6, <1>8 DEF Typed
  <1>10. DOMAIN n.rows = {}
        BY <1>1, <1>4 DEF Writes, NoRows
  <1>11. Owns(s, n, fills, trades, lock')
    <2>1. \A u \in n.open : lock'[u] = s /\ u \in OpenTrades(trades, Unit)
          BY <1>1, <1>2, <1>4, <1>6, <1>7, <1>8 DEF Owns, Typed
    <2> QED BY <1>1, <1>4, <1>10, <2>1 DEF Owns
  <1>12. Run(n) /\ RowsAddUp(n, fills)
        BY <1>1, <1>4 DEF Run, RowsAddUp
  <1>13. Writes(n, trades)
        BY <1>1, <1>4, <1>10 DEF Writes
  <1>14. Good(s, n, fills, trades, lock')
        BY <1>5, <1>9, <1>11, <1>12, <1>13 DEF Good
  <1>15. \A u \in DOMAIN trades : lock'[u] = lock[u] \/ lock[u] \in {NULL, s}
        BY <1>2, <1>7
  <1> QED BY <1>3, <1>4, <1>7, <1>14, <1>15, SameFills DEF r, n

----------------------------------------------------------------------------
(* The run *)

\* The fills as the session will commit them.
LEMMA StoredFills ==
    ASSUME Inv, NEW s \in Session
    PROVE  LET F == Stored(sess[s].mine, fills)
           IN  /\ DOMAIN F = DOMAIN sess[s].mine \cup DOMAIN fills
               /\ \A f \in DOMAIN sess[s].mine : F[f] = sess[s].mine[f] /\ f \notin DOMAIN fills
               /\ \A f \in DOMAIN fills : F[f] = fills[f]
               /\ IsFiniteSet(DOMAIN F)
               /\ F \in [DOMAIN F -> FillRow]
  <1> DEFINE r == sess[s]
             F == Stored(r.mine, fills)
  <1>1. /\ IsFiniteSet(DOMAIN r.mine) /\ DOMAIN r.mine \subseteq Fill \ DOMAIN fills
        /\ r.mine \in [DOMAIN r.mine -> FillRow]
        BY SessionGood DEF Owns, Typed
  <1>2. IsFiniteSet(DOMAIN fills) /\ \A f \in DOMAIN fills : fills[f] \in FillRow
        BY DEF Inv, TablesTyped
  <1>3. /\ DOMAIN F = DOMAIN r.mine \cup DOMAIN fills
        /\ F = [f \in DOMAIN F |-> F[f]]
        /\ \A f \in DOMAIN r.mine : F[f] = r.mine[f] /\ f \notin DOMAIN fills
        /\ \A f \in DOMAIN fills : F[f] = fills[f]
        BY <1>1 DEF Stored
  <1>4. \A f \in DOMAIN F : F[f] \in FillRow
        BY <1>1, <1>2, <1>3
  <1> HIDE DEF F, r
  <1>5. IsFiniteSet(DOMAIN F)
    <2>1. IsFiniteSet(DOMAIN r.mine \cup DOMAIN fills)
          BY <1>1, <1>2, FS_Union
    <2> QED BY <1>3, <2>1
  <1>6. F \in [DOMAIN F -> FillRow]
        BY <1>3, <1>4
  <1> QED BY <1>3, <1>5, <1>6 DEF F, r

\* A trade that the session has assigned no fill to is the sum of the same fills.
LEMMA Untouched ==
    ASSUME Inv, NEW s \in Session, NEW t \in DOMAIN trades,
           \A f \in DOMAIN sess[s].mine : sess[s].mine[f].trade # t,
           NEW row, AddUp(fills, t, row)
    PROVE  AddUp(Stored(sess[s].mine, fills), t, row)
  <1> DEFINE F == Stored(sess[s].mine, fills)
  <1>1. /\ DOMAIN F = DOMAIN sess[s].mine \cup DOMAIN fills
        /\ \A f \in DOMAIN sess[s].mine : F[f] = sess[s].mine[f]
        /\ \A f \in DOMAIN fills : F[f] = fills[f]
        BY StoredFills
  <1> HIDE DEF F
  <1>2. ASSUME NEW role PROVE TotalIn(F, t, role) = TotalIn(fills, t, role)
        BY <1>1, TotalSame
  <1> QED BY <1>1, <1>2 DEF AddUp, F

\* The newest version of a locked row, or the object loaded before, is open.
LEMMA ObjectOpen ==
    ASSUME Inv, NEW s \in Session, NEW t \in sess[s].open
    PROVE  /\ t \in DOMAIN trades /\ t # NULL
           /\ SnapshotOf(RowObject(s, t)) \in Snapshot
           /\ ResumedPosition(RowObject(s, t)) = ResumedPosition(SnapshotOf(RowObject(s, t)))
           /\ ResumedPosition(RowObject(s, t)) \in Int
           /\ DOMAIN sess[s].seen = {} => RowObject(s, t) = trades[t]
  <1> DEFINE o == RowObject(s, t)
  <1>1. t \in DOMAIN trades /\ t # NULL /\ t \in OpenTrades(trades, Unit)
        BY SessionGood, NullsApart DEF Typed, Owns
  <1>2. trades[t] \in TradeRow /\ trades[t].status # "CLOSED"
        BY <1>1 DEF Inv, TablesTyped, OpenTrades
  <1>3. \A u \in DOMAIN sess[s].seen : sess[s].seen[u] \in TradeRow /\ sess[s].seen[u].status # "CLOSED"
        BY SessionGood DEF Typed, Run
  <1>4. o \in TradeRow /\ o.status # "CLOSED"
        BY <1>2, <1>3 DEF RowObject
  <1>5. DOMAIN sess[s].seen = {} => o = trades[t]
        BY DEF RowObject
  <1> HIDE DEF o
  <1>6. SnapshotOf(o) \in Snapshot
        BY <1>4 DEF SnapshotOf, Snapshot, TradeRow
  <1>7. ResumedPosition(o) = ResumedPosition(SnapshotOf(o)) /\ ResumedPosition(o) \in Int
        BY <1>4 DEF ResumedPosition, SnapshotOf, TradeRow
  <1> QED BY <1>1, <1>5, <1>6, <1>7 DEF o

LEMMA StartRunKeeps == ASSUME Inv, NEW s \in Session, StartRun(s) PROVE Inv'
  <1> DEFINE r == sess[s]
             n == sess'[s]
  <1>1. /\ Shaped(r) /\ Typed(r, fills, trades) /\ Owns(s, r, fills, trades, lock)
        /\ Writes(r, trades) /\ Run(r) /\ RowsAddUp(r, fills) /\ r.at = "lock"
        BY SessionGood DEF StartRun
  <1>2. /\ sess' = [z \in Session |-> IF z = s THEN sess'[s] ELSE sess[z]]
        /\ UNCHANGED tables /\ lock' = lock
        BY DEF StartRun, Inv
  <1>3. DOMAIN NoRows = {}
        BY DEF NoRows
  <1>4. /\ DOMAIN r.rows = {} /\ r.cur = NULL /\ r.target = NULL
        /\ \A f \in DOMAIN r.mine : f \in r.left /\ r.mine[f].trade = NULL
        BY <1>1, <1>3 DEF Writes, Run
  <1>5. CASE n = [r EXCEPT !.at = "run"]
    <2>1. /\ n.at = "run" /\ n.mine = r.mine /\ n.seen = r.seen /\ n.found = r.found
          /\ n.open = r.open /\ n.rows = r.rows /\ n.left = r.left /\ n.cur = r.cur
          /\ n.snap = r.snap /\ n.pos = r.pos /\ n.target = r.target /\ n.hide = r.hide
          BY <1>1, <1>5 DEF Shaped
    <2>2. Shaped(n)
          BY <1>1, <1>5 DEF Shaped
    <2> HIDE DEF r, n
    <2>3. Typed(n, fills, trades) /\ Owns(s, n, fills, trades, lock) /\ Run(n)
          BY <1>1, <2>1 DEF Typed, Owns, Run
    <2>4. RowsAddUp(n, fills) /\ Writes(n, trades)
          BY <1>1, <1>4, <2>1 DEF RowsAddUp, Writes
    <2> QED BY <1>2, <2>1, <2>2, <2>3, <2>4, LocksTyped, SameFills DEF r, n, Good
  <1>6. ASSUME NEW t \in r.open,
               n = [r EXCEPT !.at = "run", !.cur = t, !.snap = SnapshotOf(RowObject(s, t)),
                             !.pos = ResumedPosition(RowObject(s, t)),
                             !.rows = OneRow(t, trades[t])]
        PROVE  Inv'
    <2> DEFINE snap == SnapshotOf(RowObject(s, t))
    <2>1. /\ n.at = "run" /\ n.mine = r.mine /\ n.seen = r.seen /\ n.found = r.found
          /\ n.open = r.open /\ n.rows = OneRow(t, trades[t]) /\ n.left = r.left /\ n.cur = t
          /\ n.snap = snap /\ n.pos = ResumedPosition(RowObject(s, t))
          /\ n.target = r.target /\ n.hide = r.hide
          BY <1>1, <1>6 DEF Shaped
    <2>2. Shaped(n)
          BY <1>1, <1>6 DEF Shaped
    <2>3. /\ t \in DOMAIN trades /\ t # NULL /\ snap \in Snapshot
          /\ n.pos = ResumedPosition(snap) /\ n.pos \in Int
          /\ DOMAIN r.seen = {} => snap = SnapshotOf(trades[t])
          BY <2>1, ObjectOpen
    <2>4. DOMAIN n.rows = {t} /\ n.rows[t] = trades[t] /\ n.rows \in [DOMAIN n.rows -> TradeRow]
          BY <2>1, <2>3 DEF OneRow, Inv, TablesTyped
    <2>5. AddUp(Stored(r.mine, fills), t, trades[t])
      <3>1. AddUp(fills, t, trades[t])
            BY <2>3 DEF Inv
      <3> QED BY <1>4, <2>3, <3>1, Untouched
    <2>6. t \in r.open
          OBVIOUS
    <2> HIDE DEF r, n, snap
    <2>7. Typed(n, fills, trades)
          BY <1>1, <2>1, <2>3, <2>4 DEF Typed
    <2>8. Owns(s, n, fills, trades, lock)
          BY <1>1, <2>1, <2>3, <2>4, <2>6 DEF Owns
    <2>9. Writes(n, trades)
          BY <1>1, <1>4, <2>1, <2>4, <2>6 DEF Writes
    <2>10. Run(n)
          BY <1>1, <1>4, <2>1, <2>3, <2>4 DEF Run
    <2>11. RowsAddUp(n, fills)
          BY <2>1, <2>4, <2>5 DEF RowsAddUp
    <2> QED BY <1>2, <2>1, <2>2, <2>7, <2>8, <2>9, <2>10, <2>11, LocksTyped, SameFills
            DEF r, n, Good
  <1>7. \/ n = [r EXCEPT !.at = "run"]
        \/ \E t \in r.open :
              n = [r EXCEPT !.at = "run", !.cur = t, !.snap = SnapshotOf(RowObject(s, t)),
                            !.pos = ResumedPosition(RowObject(s, t)),
                            !.rows = OneRow(t, trades[t])]
        BY DEF StartRun, Inv
  <1> HIDE DEF n
  <1> QED BY <1>5, <1>6, <1>7
LEMMA QtyIsInt == ASSUME NEW fill \in FillRow PROVE fill.qty \in Int
  <1>1. fill.qty \in Nat \ {0}
        BY QtyAssumption DEF FillRow
  <1> QED BY <1>1

\* A fill that is assigned counts in one row, and in no other.
LEMMA OtherRowsAddUp ==
    ASSUME NEW fs, IsFiniteSet(DOMAIN fs), fs \in [DOMAIN fs -> FillRow],
           NEW f \in DOMAIN fs, fs[f].trade = NULL, NEW t, NEW role,
           NEW gs, DOMAIN gs = DOMAIN fs, \A g \in DOMAIN fs : g # f => gs[g] = fs[g],
           gs[f] = AssignedTo(fs[f], t, role),
           NEW u, u # NULL, u # t, NEW row, AddUp(fs, u, row)
    PROVE  AddUp(gs, u, row)
  <1>1. \A g \in DOMAIN fs : fs[g].qty \in Int /\ fs[g] \in FillRow
        BY QtyAssumption DEF FillRow
  <1>2. gs[f].qty = fs[f].qty /\ gs[f].trade = t /\ gs[f].role = role
        BY <1>1 DEF AssignedTo, FillRow
  <1>3. ASSUME NEW r PROVE TotalIn(gs, u, r) = TotalIn(fs, u, r)
    <2>1. TotalIn(gs, u, r) = TotalIn(fs, u, r) + 0
          BY <1>1, <1>2, TotalAssigned
    <2>2. TotalIn(fs, u, r) \in Int
          BY <1>1, TotalTyped
    <2> QED BY <2>1, <2>2
  <1>4. \A g \in DOMAIN fs : fs[g].trade = u => gs[g] = fs[g]
        OBVIOUS
  <1> QED BY <1>2, <1>3, <1>4 DEF AddUp

\* The fills of the session of s once f is assigned to t.
MineTaken(s, f, t, role) == [sess[s].mine EXCEPT ![f] = AssignedTo(@, t, role)]

LEMMA TakesKeeps ==
    ASSUME Inv, NEW s \in Session, NEW f, NEW t, NEW row \in TradeRow, NEW snap,
           NEW role \in {"ENTRY", "EXIT"}, Takes(s, f, t, row, snap, role),
           t = f \/ t \in DOMAIN sess[s].rows,
           snap.status # "CLOSED" =>
              /\ snap \in Snapshot /\ sess[s].pos + Delta(s, f) = ResumedPosition(snap)
              /\ DOMAIN sess[s].seen = {} => snap = SnapshotOf(row),
           snap.status = "CLOSED" => sess[s].pos + Delta(s, f) = 0,
           AddUp(Stored(MineTaken(s, f, t, role), fills), t, row)
    PROVE  Inv'
  <1> DEFINE r == sess[s]
             n == sess'[s]
             m == MineTaken(s, f, t, role)
             ended == snap.status = "CLOSED"
             F == Stored(r.mine, fills)
             G == Stored(m, fills)
  <1>1. /\ Shaped(r) /\ Typed(r, fills, trades) /\ Owns(s, r, fills, trades, lock)
        /\ Writes(r, trades) /\ Run(r) /\ RowsAddUp(r, fills)
        BY SessionGood
  <1>2. /\ r.at = "run" /\ f \in r.left /\ UNCHANGED tables /\ lock' = lock
        /\ sess' = [z \in Session |-> IF z = s THEN sess'[s] ELSE sess[z]]
        /\ n = [r EXCEPT
                  !.at   = IF r.left = {f} THEN "commit" ELSE "run",
                  !.left = r.left \ {f},
                  !.cur  = IF ended THEN NULL ELSE t,
                  !.snap = IF ended THEN NoSnapshot ELSE snap,
                  !.pos  = r.pos + Delta(s, f),
                  !.rows = Stored(OneRow(t, row), r.rows),
                  !.mine = m]
    <2>1. r.at = "run" /\ f \in r.left /\ UNCHANGED tables /\ lock' = lock
          BY DEF Takes, FirstLeft
    <2>2. sess = [z \in Session |-> sess[z]]
          BY DEF Inv
    <2>3. sess' = [sess EXCEPT ![s] = Taken(s, f, t, row, snap, role)]
          BY DEF Takes
    <2>4. /\ sess' = [z \in Session |-> IF z = s THEN sess'[s] ELSE sess[z]]
          /\ n = Taken(s, f, t, row, snap, role)
          BY <2>2, <2>3
    <2>5. n = [r EXCEPT
                  !.at   = IF r.left = {f} THEN "commit" ELSE "run",
                  !.left = r.left \ {f},
                  !.cur  = IF ended THEN NULL ELSE t,
                  !.snap = IF ended THEN NoSnapshot ELSE snap,
                  !.pos  = r.pos + Delta(s, f),
                  !.rows = Stored(OneRow(t, row), r.rows),
                  !.mine = m]
          BY <2>4 DEF Taken, MineTaken
    <2> QED BY <2>1, <2>4, <2>5
  <1>3. /\ n.at = (IF r.left = {f} THEN "commit" ELSE "run") /\ n.mine = m
        /\ n.seen = r.seen /\ n.found = r.found /\ n.open = r.open
        /\ n.rows = Stored(OneRow(t, row), r.rows) /\ n.left = r.left \ {f}
        /\ n.cur = (IF ended THEN NULL ELSE t)
        /\ n.snap = (IF ended THEN NoSnapshot ELSE snap)
        /\ n.pos = r.pos + Delta(s, f) /\ n.target = r.target /\ n.hide = r.hide
        /\ Shaped(n)
    <2> HIDE DEF r, n, m, ended
    <2> QED BY <1>1, <1>2 DEF Shaped
  <1>5. /\ f \in DOMAIN r.mine /\ r.mine[f] \in FillRow /\ r.mine[f].trade = NULL
        /\ f \in Fill /\ f \notin DOMAIN fills /\ f \notin DOMAIN trades /\ f # NULL
    <2>1. f \in DOMAIN r.mine /\ r.mine[f] \in FillRow
          BY <1>1, <1>2 DEF Typed
    <2>2. r.mine[f].trade = NULL
          BY <1>1, <1>2, <2>1 DEF Run
    <2>3. f \in Fill /\ f \notin DOMAIN fills
          BY <1>1, <2>1 DEF Owns
    <2>4. DOMAIN trades \subseteq DOMAIN fills
          BY DEF Inv, TablesTyped
    <2> QED BY <2>1, <2>2, <2>3, <2>4, NullAssumption
  <1>6. r.target = NULL
        BY <1>1, <1>2 DEF Writes
  <1>7. /\ DOMAIN r.rows \subseteq Fill /\ t \in Fill /\ t # NULL
        BY <1>1, <1>5, NullAssumption DEF Owns, Inv, TablesTyped
  <1>8. /\ DOMAIN m = DOMAIN r.mine /\ m[f] = AssignedTo(r.mine[f], t, role)
        /\ \A g \in DOMAIN m : g # f => m[g] = r.mine[g]
        BY <1>5 DEF MineTaken
  <1>9. /\ m[f] \in FillRow /\ m[f].trade = t /\ m[f].role = role
        /\ m[f].source = r.mine[f].source
        BY <1>5, <1>7, <1>8 DEF AssignedTo, FillRow
  <1>10. m = [g \in DOMAIN m |-> m[g]]
        BY <1>1 DEF MineTaken, Typed
  <1>11. /\ DOMAIN n.rows = DOMAIN r.rows \cup {t} /\ n.rows[t] = row
         /\ \A u \in DOMAIN r.rows : u # t => n.rows[u] = r.rows[u]
         /\ n.rows = [u \in DOMAIN n.rows |-> n.rows[u]]
        BY <1>3 DEF Stored, OneRow
  <1>12. Delta(s, f) \in Int
    <2>1. r.mine[f].qty \in Int
          BY <1>5, QtyIsInt
    <2> QED BY <2>1 DEF Delta, SignedQty
  <1>13. NoSnapshot \in Snapshot
        BY DEF NoSnapshot, Snapshot, Direction
  <1>14. Delta(s, f) \in Int /\ (ended => n.pos = 0)
         /\ (~ended => n.pos = ResumedPosition(snap) /\ snap \in Snapshot
                       /\ (DOMAIN r.seen = {} => snap = SnapshotOf(row)))
        BY <1>3, <1>12
  <1>15. AddUp(G, t, row)
        OBVIOUS
  <1>16. /\ DOMAIN F = DOMAIN r.mine \cup DOMAIN fills
         /\ \A g \in DOMAIN r.mine : F[g] = r.mine[g] /\ g \notin DOMAIN fills
         /\ \A g \in DOMAIN fills : F[g] = fills[g]
         /\ IsFiniteSet(DOMAIN F) /\ F \in [DOMAIN F -> FillRow]
        BY StoredFills
  <1>17. /\ DOMAIN G = DOMAIN F /\ f \in DOMAIN F /\ F[f].trade = NULL
         /\ G[f] = AssignedTo(F[f], t, role)
         /\ \A g \in DOMAIN F : g # f => G[g] = F[g]
    <2> HIDE DEF m
    <2> QED BY <1>5, <1>8, <1>16 DEF Stored
  <1> HIDE DEF r, n, m, ended, F, G
  <1>18. Typed(n, fills, trades)
    <2>1. /\ n.at \in {"run", "commit"} /\ n.left \subseteq DOMAIN n.mine
          BY <1>1, <1>3, <1>8 DEF Typed
    <2>2. n.mine \in [DOMAIN n.mine -> FillRow]
          BY <1>1, <1>3, <1>8, <1>9, <1>10 DEF Typed
    <2>3. n.rows \in [DOMAIN n.rows -> TradeRow]
      <3>1. \A u \in DOMAIN n.rows : n.rows[u] \in TradeRow
            BY <1>1, <1>11 DEF Typed
      <3> QED BY <1>11, <3>1
    <2>4. n.pos \in Int
          BY <1>1, <1>3, <1>12 DEF Typed
    <2>5. n.snap \in Snapshot
          BY <1>3, <1>13, <1>14
    <2>6. n.cur \in DOMAIN n.rows \cup {NULL}
          BY <1>3, <1>11
    <2> QED BY <1>1, <1>3, <2>1, <2>2, <2>3, <2>4, <2>5, <2>6 DEF Typed
  <1>19. t = f \/ t \in DOMAIN r.rows
        BY DEF r
  <1>20. Owns(s, n, fills, trades, lock)
        BY <1>1, <1>2, <1>3, <1>5, <1>8, <1>11, <1>19 DEF Owns
  <1>21. Writes(n, trades)
        BY <1>1, <1>2, <1>3, <1>5, <1>6, <1>11, <1>19 DEF Writes
  <1>22. Run(n)
    <2>1. \A g \in DOMAIN n.mine :
             IF g \in n.left THEN n.mine[g].trade = NULL
             ELSE n.mine[g].trade \in DOMAIN n.rows /\ n.mine[g].role # "NULL"
          BY <1>1, <1>2, <1>3, <1>8, <1>9, <1>11 DEF Run
    <2>2. /\ n.cur = NULL => n.pos = 0
          /\ n.cur # NULL => n.pos = ResumedPosition(n.snap)
          BY <1>3, <1>7, <1>14
    <2>3. n.cur # NULL /\ DOMAIN n.seen = {} => n.snap = SnapshotOf(n.rows[n.cur])
          BY <1>3, <1>11, <1>14
    <2>4. /\ \A u \in DOMAIN n.seen : n.seen[u].status # "CLOSED"
          /\ DOMAIN n.seen # {} => \A g \in DOMAIN n.mine : n.mine[g].source = "MANUAL"
          BY <1>1, <1>3, <1>8, <1>9 DEF Run
    <2> QED BY <2>1, <2>2, <2>3, <2>4 DEF Run
  <1>23. RowsAddUp(n, fills)
    <2>1. \A u \in DOMAIN r.rows : AddUp(F, u, r.rows[u])
          BY <1>1, <1>6 DEF RowsAddUp, F
    <2>2. ASSUME NEW u \in DOMAIN n.rows PROVE AddUp(G, u, n.rows[u])
      <3>1. CASE u = t
            BY <1>11, <1>15, <3>1
      <3>2. CASE u # t
        <4>1. u \in DOMAIN r.rows /\ u # NULL /\ n.rows[u] = r.rows[u]
              BY <1>7, <1>11, <3>2, NullAssumption
        <4>2. AddUp(F, u, r.rows[u])
              BY <2>1, <4>1
        <4>3. AddUp(G, u, r.rows[u])
              BY <1>16, <1>17, <3>2, <4>1, <4>2, OtherRowsAddUp
        <4> QED BY <4>1, <4>3
      <3> QED BY <3>1, <3>2
    <2> QED BY <1>3, <2>2 DEF RowsAddUp, G
  <1>24. Good(s, n, fills, trades, lock')
        BY <1>2, <1>3, <1>18, <1>20, <1>21, <1>22, <1>23 DEF Good
  <1>25. DOMAIN n.mine \subseteq DOMAIN r.mine
        BY <1>3, <1>8
  <1> QED BY <1>2, <1>24, <1>25, LocksTyped, SameFills DEF r, n

\* The totals of the trade that the next fill is assigned to.
LEMMA NextTotals ==
    ASSUME Inv, NEW s \in Session, NEW f \in sess[s].left, NEW t, t # NULL,
           NEW role \in {"ENTRY", "EXIT"}, NEW r
    PROVE  LET F == Stored(sess[s].mine, fills)
               G == Stored(MineTaken(s, f, t, role), fills)
           IN  /\ f \in DOMAIN sess[s].mine /\ sess[s].mine[f] \in FillRow
               /\ TotalIn(F, t, r) \in Int
               /\ TotalIn(G, t, r) =
                     TotalIn(F, t, r) + IF r = role THEN sess[s].mine[f].qty ELSE 0
               /\ (\A g \in DOMAIN G : G[g].trade = t => G[g].source = "CSV") =>
                     /\ sess[s].mine[f].source = "CSV"
                     /\ \A g \in DOMAIN F : F[g].trade = t => F[g].source = "CSV"
  <1> DEFINE m == sess[s].mine
             F == Stored(m, fills)
             G == Stored(MineTaken(s, f, t, role), fills)
  <1>1. f \in DOMAIN m /\ m[f] \in FillRow /\ m[f].trade = NULL
        BY SessionGood DEF Typed, Run
  <1>2. /\ DOMAIN F = DOMAIN m \cup DOMAIN fills
        /\ \A g \in DOMAIN m : F[g] = m[g] /\ g \notin DOMAIN fills
        /\ \A g \in DOMAIN fills : F[g] = fills[g]
        /\ IsFiniteSet(DOMAIN F) /\ F \in [DOMAIN F -> FillRow]
        BY StoredFills
  <1>3. /\ DOMAIN G = DOMAIN F /\ G[f] = AssignedTo(m[f], t, role)
        /\ \A g \in DOMAIN F : g # f => G[g] = F[g]
        BY <1>1, <1>2 DEF Stored, MineTaken
  <1> HIDE DEF m, F, G
  <1>4. /\ G[f].trade = t /\ G[f].role = role /\ G[f].qty = m[f].qty
        /\ G[f].source = m[f].source
        BY <1>1, <1>3 DEF AssignedTo, FillRow
  <1>5. /\ f \in DOMAIN F /\ F[f] = m[f]
        BY <1>1, <1>2
  <1>6. \A g \in DOMAIN F : F[g].qty \in Int
        BY <1>2, QtyIsInt
  <1>7. TotalIn(F, t, r) \in Int
        BY <1>2, <1>6, TotalTyped
  <1>8. TotalIn(G, t, r) = TotalIn(F, t, r) + IF r = role THEN m[f].qty ELSE 0
        BY <1>1, <1>2, <1>3, <1>4, <1>5, <1>6, TotalAssigned
  <1>9. (\A g \in DOMAIN G : G[g].trade = t => G[g].source = "CSV") =>
           /\ m[f].source = "CSV"
           /\ \A g \in DOMAIN F : F[g].trade = t => F[g].source = "CSV"
        BY <1>1, <1>3, <1>4, <1>5
  <1> QED BY <1>1, <1>7, <1>8, <1>9 DEF F, G, m

LEMMA OpenTradeKeeps == ASSUME Inv, NEW s \in Session, NEW f, OpenTrade(s, f) PROVE Inv'
  <1> DEFINE r == sess[s]
             x == r.mine[f]
             snap == OpenedBy(x)
             row == NewTrade(x, snap)
             G == Stored(MineTaken(s, f, f, "ENTRY"), fills)
             F == Stored(r.mine, fills)
  <1>1. /\ r.cur = NULL /\ f \in r.left /\ Takes(s, f, f, row, snap, "ENTRY")
        BY DEF OpenTrade, Takes, FirstLeft
  <1>2. /\ Typed(r, fills, trades) /\ Owns(s, r, fills, trades, lock) /\ Run(r)
        BY SessionGood
  <1>3. /\ f \in DOMAIN r.mine /\ x \in FillRow /\ f \notin DOMAIN fills /\ f \notin DOMAIN trades
        /\ f # NULL
        BY <1>1, <1>2, NullAssumption DEF Typed, Owns, Inv, TablesTyped
  <1>4. /\ snap \in Snapshot /\ row \in TradeRow /\ QuantitiesAgree(row)
        /\ SnapshotOf(row) = snap /\ row.status = "OPEN" /\ row.dir = snap.dir
        /\ ResumedPosition(row) = SignedQty(x.side, x.qty)
        BY <1>3, OpenStep
  <1>5. /\ snap.status = "OPEN" /\ row.entry = x.qty /\ row.exit = 0
        /\ ResumedPosition(snap) = ResumedPosition(row)
        BY <1>4 DEF SnapshotOf, OpenedBy, NewTrade, ResumedPosition
  <1>6. x.qty \in Int /\ SignedQty(x.side, x.qty) \in Int
        BY <1>3, QtyIsInt DEF SignedQty
  <1>7. Delta(s, f) = SignedQty(x.side, x.qty)
        BY DEF Delta
  <1>8. r.pos = 0
        BY <1>1, <1>2 DEF Run
  <1>9. \A g \in DOMAIN F : F[g].trade # f
    <2>1. /\ DOMAIN F = DOMAIN r.mine \cup DOMAIN fills
          /\ \A g \in DOMAIN r.mine : F[g] = r.mine[g]
          /\ \A g \in DOMAIN fills : F[g] = fills[g]
          BY StoredFills
    <2>2. \A g \in DOMAIN fills : fills[g].trade \in DOMAIN trades
          BY DEF Inv, TablesTyped
    <2>3. f \notin DOMAIN r.rows
          BY <1>1, <1>2, <1>3 DEF Owns
    <2>4. \A g \in DOMAIN r.mine : r.mine[g].trade = NULL \/ r.mine[g].trade \in DOMAIN r.rows
          BY <1>2 DEF Run
    <2> HIDE DEF F, r
    <2> QED BY <1>3, <2>1, <2>2, <2>3, <2>4
  <1>10. AddUp(G, f, row)
    <2>1. ASSUME NEW role \in {"ENTRY", "EXIT"} PROVE TotalIn(F, f, role) = 0
      <3>1. AssignedAs(F, f, role) = {}
            BY <1>9 DEF AssignedAs
      <3> QED BY <3>1, SumEmpty DEF TotalIn
    <2>2. TotalIn(G, f, "ENTRY") = TotalIn(F, f, "ENTRY") + x.qty
          BY <1>1, <1>3, NextTotals
    <2>3. TotalIn(G, f, "EXIT") = TotalIn(F, f, "EXIT") + 0
          BY <1>1, <1>3, NextTotals
    <2> HIDE DEF F, G, x, snap, row
    <2> QED BY <1>4, <1>5, <1>6, <2>1, <2>2, <2>3 DEF AddUp
  <1>11. r.pos + Delta(s, f) = ResumedPosition(snap)
        BY <1>4, <1>5, <1>6, <1>7, <1>8
  <1> HIDE DEF snap, row
  <1> QED BY <1>1, <1>4, <1>5, <1>10, <1>11, TakesKeeps DEF r, G

\* The current row, and what is known of it if all its fills are imported.
LEMMA CurrentTrade ==
    ASSUME Inv, NEW s \in Session, NEW f \in sess[s].left, sess[s].cur # NULL,
           sess[s].at = "run", NEW role \in {"ENTRY", "EXIT"}
    PROVE  LET r   == sess[s]
               t   == r.cur
               row == CurrentRow(s)
               G   == Stored(MineTaken(s, f, t, role), fills)
               F   == Stored(r.mine, fills)
           IN  /\ t \in DOMAIN r.rows /\ row = r.rows[t] /\ row \in TradeRow
               /\ r.snap \in Snapshot /\ r.pos = ResumedPosition(r.snap) /\ r.pos \in Int
               /\ DOMAIN r.seen = {} => r.snap = SnapshotOf(row)
               /\ Delta(s, f) = SignedQty(r.mine[f].side, r.mine[f].qty)
               /\ (\A g \in DOMAIN G : G[g].trade = t => G[g].source = "CSV") =>
                     /\ r.snap = SnapshotOf(row)
                     /\ row.entry = TotalIn(F, t, "ENTRY") /\ row.exit = TotalIn(F, t, "EXIT")
                     /\ QuantitiesAgree(row) /\ row.status # "CLOSED"
  <1> DEFINE r   == sess[s]
             t   == r.cur
             row == CurrentRow(s)
             G   == Stored(MineTaken(s, f, t, role), fills)
             F   == Stored(r.mine, fills)
  <1>1. /\ Typed(r, fills, trades) /\ Writes(r, trades) /\ Run(r) /\ RowsAddUp(r, fills)
        BY SessionGood
  <1>2. /\ t \in DOMAIN r.rows /\ row = r.rows[t] /\ row \in TradeRow
        /\ r.snap \in Snapshot /\ r.pos = ResumedPosition(r.snap) /\ r.pos \in Int
        /\ DOMAIN r.seen = {} => r.snap = SnapshotOf(row)
        BY <1>1 DEF Typed, Run, CurrentRow
  <1>3. Delta(s, f) = SignedQty(r.mine[f].side, r.mine[f].qty)
        BY DEF Delta
  <1>4. r.target = NULL
        BY <1>1 DEF Writes
  <1>5. ASSUME \A g \in DOMAIN G : G[g].trade = t => G[g].source = "CSV"
        PROVE  /\ r.snap = SnapshotOf(row)
               /\ row.entry = TotalIn(F, t, "ENTRY") /\ row.exit = TotalIn(F, t, "EXIT")
               /\ QuantitiesAgree(row) /\ row.status # "CLOSED"
    <2>1. /\ f \in DOMAIN r.mine /\ r.mine[f].source = "CSV"
          /\ \A g \in DOMAIN F : F[g].trade = t => F[g].source = "CSV"
      <3>1. /\ f \in DOMAIN r.mine
            /\ TotalIn(F, t, role) \in Int
            /\ (\A g \in DOMAIN G : G[g].trade = t => G[g].source = "CSV") =>
                  /\ r.mine[f].source = "CSV"
                  /\ \A g \in DOMAIN F : F[g].trade = t => F[g].source = "CSV"
            BY NextTotals
      <3> HIDE DEF F, G, t
      <3> QED BY <1>5, <3>1
    <2>2. DOMAIN r.seen = {}
          BY <1>1, <2>1 DEF Run
    <2>3. AddUp(F, t, row)
          BY <1>1, <1>2, <1>4 DEF RowsAddUp
    <2>4. r.snap = SnapshotOf(row)
          BY <1>2, <2>2
    <2>5. row.status # "CLOSED"
      <3> HIDE DEF r, row
      <3> QED BY <1>2, <2>4 DEF SnapshotOf, Snapshot
    <2> HIDE DEF F, row, t
    <2> QED BY <2>1, <2>3, <2>4, <2>5 DEF AddUp
  <1> QED BY <1>2, <1>3, <1>5

LEMMA ScaleInKeeps == ASSUME Inv, NEW s \in Session, NEW f, ScaleIn(s, f) PROVE Inv'
  <1> DEFINE r == sess[s]
             t == r.cur
             x == r.mine[f]
             p == r.snap
             row == CurrentRow(s)
             snap == EntrySnap(s, f)
             new == EntryWritten(row, snap)
             F == Stored(r.mine, fills)
             G == Stored(MineTaken(s, f, t, "ENTRY"), fills)
  <1>1. /\ t # NULL /\ f \in r.left /\ Takes(s, f, t, new, snap, "ENTRY") /\ r.at = "run"
        /\ FillRoleFor(p.dir, x.side) = "ENTRY" /\ snap = ScaledIn(p, x.qty)
        BY DEF ScaleIn, Takes, TakenAs, FirstLeft, EntrySnap
  <1>2. /\ t \in DOMAIN r.rows /\ row \in TradeRow /\ p \in Snapshot
        /\ r.pos = ResumedPosition(p) /\ (DOMAIN r.seen = {} => p = SnapshotOf(row))
        /\ Delta(s, f) = SignedQty(x.side, x.qty)
        BY <1>1, CurrentTrade
  <1>3. x \in FillRow
        BY <1>1, NextTotals
  <1>4. x.qty \in Qty /\ x.side \in Side
        BY <1>3 DEF FillRow
  <1>5. /\ snap \in Snapshot /\ snap.status # "CLOSED" /\ new \in TradeRow
        /\ p = SnapshotOf(row) => snap = SnapshotOf(new)
        /\ ResumedPosition(p) + SignedQty(x.side, x.qty) = ResumedPosition(snap)
    <2> HIDE DEF x, p, row, snap
    <2> QED BY <1>1, <1>2, <1>4, EntryTyped
  <1>6. AddUp(G, t, new)
    <2>1. SUFFICES ASSUME \A g \in DOMAIN G : G[g].trade = t => G[g].source = "CSV"
                   PROVE  /\ new.entry = TotalIn(G, t, "ENTRY")
                          /\ new.exit = TotalIn(G, t, "EXIT") /\ QuantitiesAgree(new)
          BY DEF AddUp
    <2>2. /\ p = SnapshotOf(row) /\ QuantitiesAgree(row) /\ row.status # "CLOSED"
          /\ row.entry = TotalIn(F, t, "ENTRY") /\ row.exit = TotalIn(F, t, "EXIT")
          BY <1>1, <2>1, CurrentTrade
    <2>3. /\ TotalIn(G, t, "ENTRY") = TotalIn(F, t, "ENTRY") + x.qty
          /\ TotalIn(G, t, "EXIT") = TotalIn(F, t, "EXIT")
      <3>1. TotalIn(G, t, "ENTRY") = TotalIn(F, t, "ENTRY") + IF "ENTRY" = "ENTRY" THEN x.qty ELSE 0
            BY <1>1, NextTotals
      <3>2. /\ TotalIn(G, t, "EXIT") = TotalIn(F, t, "EXIT") + IF "EXIT" = "ENTRY" THEN x.qty ELSE 0
            /\ TotalIn(F, t, "EXIT") \in Int
            BY <1>1, NextTotals
      <3> HIDE DEF x, F, G, t
      <3>3. TotalIn(G, t, "ENTRY") = TotalIn(F, t, "ENTRY") + x.qty
            BY <3>1
      <3>4. TotalIn(G, t, "EXIT") = TotalIn(F, t, "EXIT")
            BY <3>2
      <3> QED BY <3>3, <3>4
    <2> HIDE DEF x, p, row, F, G, snap, t
    <2>4. row.dir = p.dir
          BY <2>2 DEF SnapshotOf
    <2>5. QuantitiesAgree(new)
          BY <1>1, <1>2, <1>4, <2>2, <2>4, EntryStep
    <2>6. new.entry = row.entry + x.qty /\ new.exit = row.exit
          BY <1>1, <1>2, <2>2 DEF EntryWritten, ScaledIn, SnapshotOf, TradeRow
    <2> QED BY <2>2, <2>3, <2>5, <2>6
  <1>7. r.pos + Delta(s, f) = ResumedPosition(snap)
        BY <1>2, <1>5
  <1> HIDE DEF snap, new
  <1> QED BY <1>1, <1>2, <1>5, <1>6, <1>7, TakesKeeps DEF r, G, t, p

LEMMA ScaleOutKeeps == ASSUME Inv, NEW s \in Session, NEW f, ScaleOut(s, f) PROVE Inv'
  <1> DEFINE r == sess[s]
             t == r.cur
             x == r.mine[f]
             p == r.snap
             row == CurrentRow(s)
             snap == ExitSnap(s, f)
             new == ExitWritten(row, snap)
             F == Stored(r.mine, fills)
             G == Stored(MineTaken(s, f, t, "EXIT"), fills)
  <1>1. /\ t # NULL /\ f \in r.left /\ Takes(s, f, t, new, snap, "EXIT") /\ r.at = "run"
        /\ FillRoleFor(p.dir, x.side) = "EXIT" /\ snap = ScaledOut(p, x.qty)
        BY DEF ScaleOut, Takes, TakenAs, FirstLeft, ExitSnap
  <1>2. /\ t \in DOMAIN r.rows /\ row \in TradeRow /\ p \in Snapshot
        /\ r.pos = ResumedPosition(p) /\ (DOMAIN r.seen = {} => p = SnapshotOf(row))
        /\ Delta(s, f) = SignedQty(x.side, x.qty)
        BY <1>1, CurrentTrade
  <1>3. x \in FillRow
        BY <1>1, NextTotals
  <1>4. x.qty \in Qty /\ x.side \in Side
        BY <1>3 DEF FillRow
  <1>5. /\ snap.status # "CLOSED" => snap \in Snapshot
        /\ snap.status = "CLOSED" => ResumedPosition(p) + SignedQty(x.side, x.qty) = 0
        /\ new \in TradeRow
        /\ p = SnapshotOf(row) => snap = SnapshotOf(new)
        /\ ResumedPosition(p) + SignedQty(x.side, x.qty) = ResumedPosition(snap)
    <2> HIDE DEF x, p, row, snap
    <2> QED BY <1>1, <1>2, <1>4, ExitTyped
  <1>6. ~CrossesZero(ResumedPosition(p), ResumedPosition(p) + SignedQty(x.side, x.qty))
        BY <1>1, <1>2 DEF Takes, Crosses
  <1>7. AddUp(G, t, new)
    <2>1. SUFFICES ASSUME \A g \in DOMAIN G : G[g].trade = t => G[g].source = "CSV"
                   PROVE  /\ new.entry = TotalIn(G, t, "ENTRY")
                          /\ new.exit = TotalIn(G, t, "EXIT") /\ QuantitiesAgree(new)
          BY DEF AddUp
    <2>2. /\ p = SnapshotOf(row) /\ QuantitiesAgree(row) /\ row.status # "CLOSED"
          /\ row.entry = TotalIn(F, t, "ENTRY") /\ row.exit = TotalIn(F, t, "EXIT")
          BY <1>1, <2>1, CurrentTrade
    <2>3. /\ TotalIn(G, t, "EXIT") = TotalIn(F, t, "EXIT") + x.qty
          /\ TotalIn(G, t, "ENTRY") = TotalIn(F, t, "ENTRY")
      <3>1. TotalIn(G, t, "EXIT") = TotalIn(F, t, "EXIT") + IF "EXIT" = "EXIT" THEN x.qty ELSE 0
            BY <1>1, NextTotals
      <3>2. /\ TotalIn(G, t, "ENTRY") = TotalIn(F, t, "ENTRY") + IF "ENTRY" = "EXIT" THEN x.qty ELSE 0
            /\ TotalIn(F, t, "ENTRY") \in Int
            BY <1>1, NextTotals
      <3> HIDE DEF x, F, G, t
      <3>3. TotalIn(G, t, "EXIT") = TotalIn(F, t, "EXIT") + x.qty
            BY <3>1
      <3>4. TotalIn(G, t, "ENTRY") = TotalIn(F, t, "ENTRY")
            BY <3>2
      <3> QED BY <3>3, <3>4
    <2> HIDE DEF x, p, row, F, G, snap, t
    <2>4. row.dir = p.dir /\ ResumedPosition(p) = ResumedPosition(row)
          BY <2>2 DEF SnapshotOf, ResumedPosition
    <2>5. ~CrossesZero(ResumedPosition(row), ResumedPosition(row) + SignedQty(x.side, x.qty))
          BY <1>6, <2>4
    <2>6. QuantitiesAgree(new)
          BY <1>1, <1>2, <1>4, <2>2, <2>4, <2>5, ExitStep
    <2>7. new.exit = row.exit + x.qty /\ new.entry = row.entry
          BY <1>1, <1>2, <2>2 DEF ExitWritten, ScaledOut, SnapshotOf, TradeRow
    <2> QED BY <2>2, <2>3, <2>6, <2>7
  <1>8. /\ snap.status # "CLOSED" => r.pos + Delta(s, f) = ResumedPosition(snap)
        /\ snap.status = "CLOSED" => r.pos + Delta(s, f) = 0
        BY <1>2, <1>5
  <1> HIDE DEF snap, new
  <1> QED BY <1>1, <1>2, <1>5, <1>7, <1>8, TakesKeeps DEF r, G, t, p

----------------------------------------------------------------------------
(* A trade is deleted *)

LEMMA DeleteTradeKeeps ==
    ASSUME Inv, NEW s \in Session, NEW t \in DOMAIN trades, DeleteTrade(s, t) PROVE Inv'
  <1> DEFINE n == sess'[s]
  <1>1. /\ n = [Ended EXCEPT !.at = "hide", !.target = t]
        /\ sess' = [z \in Session |-> IF z = s THEN sess'[s] ELSE sess[z]]
        /\ UNCHANGED tables /\ lock' = lock
        BY DEF DeleteTrade, Inv
  <1>2. /\ n.at = "hide" /\ n.mine = NoRows /\ n.seen = NoRows /\ n.found = {} /\ n.open = {}
        /\ n.rows = NoRows /\ n.left = {} /\ n.cur = NULL /\ n.snap = NoSnapshot
        /\ n.pos = 0 /\ n.target = t /\ n.hide = {} /\ Shaped(n)
        BY <1>1 DEF Ended, Shaped
  <1>3. DOMAIN NoRows = {} /\ NoRows \in [{} -> FillRow] /\ NoRows \in [{} -> TradeRow]
        BY DEF NoRows
  <1>4. NoSnapshot \in Snapshot
        BY DEF NoSnapshot, Snapshot, Direction
  <1>5. t # NULL
        BY NullsApart
  <1> HIDE DEF n
  <1>6. Typed(n, fills, trades)
        BY <1>2, <1>3, <1>4 DEF Typed
  <1>7. Owns(s, n, fills, trades, lock)
        BY <1>2, <1>3, FS_EmptySet DEF Owns
  <1>8. Writes(n, trades) /\ Run(n) /\ RowsAddUp(n, fills)
        BY <1>2, <1>3, <1>5 DEF Writes, Run, RowsAddUp
  <1>9. Good(s, n, fills, trades, lock')
        BY <1>1, <1>2, <1>6, <1>7, <1>8 DEF Good
  <1>10. DOMAIN n.mine \subseteq DOMAIN sess[s].mine
        BY <1>2, <1>3
  <1> QED BY <1>1, <1>9, <1>10, LocksTyped, SameFills DEF n

LEMMA ReadFillsKeeps == ASSUME Inv, NEW s \in Session, ReadFills(s) PROVE Inv'
  <1> DEFINE r == sess[s]
             n == sess'[s]
             H == FillsOf(r.target) \ excluded
  <1>1. /\ Shaped(r) /\ Typed(r, fills, trades) /\ Owns(s, r, fills, trades, lock)
        /\ Writes(r, trades) /\ Run(r) /\ RowsAddUp(r, fills) /\ r.at = "hide"
        BY SessionGood DEF ReadFills
  <1>2. /\ n = [r EXCEPT !.at = "delete", !.hide = H]
        /\ sess' = [z \in Session |-> IF z = s THEN sess'[s] ELSE sess[z]]
        /\ UNCHANGED tables /\ lock' = lock
        BY DEF ReadFills, Inv
  <1>3. /\ n.at = "delete" /\ n.mine = r.mine /\ n.seen = r.seen /\ n.found = r.found
        /\ n.open = r.open /\ n.rows = r.rows /\ n.left = r.left /\ n.cur = r.cur
        /\ n.snap = r.snap /\ n.pos = r.pos /\ n.target = r.target /\ n.hide = H
        BY <1>1, <1>2 DEF Shaped
  <1>4. Shaped(n)
        BY <1>1, <1>2 DEF Shaped
  <1>5. H \subseteq DOMAIN fills
        BY DEF FillsOf
  <1> HIDE DEF r, n, H
  <1>6. Typed(n, fills, trades)
        BY <1>1, <1>3, <1>5 DEF Typed
  <1>7. Owns(s, n, fills, trades, lock) /\ Run(n) /\ RowsAddUp(n, fills)
        BY <1>1, <1>3 DEF Owns, Run, RowsAddUp
  <1>8. Writes(n, trades)
        BY <1>1, <1>3 DEF Writes
  <1>9. Good(s, n, fills, trades, lock')
        BY <1>2, <1>4, <1>6, <1>7, <1>8 DEF Good
  <1> QED BY <1>2, <1>3, <1>9, LocksTyped, SameFills DEF r, n

LEMMA WriteDeletedKeeps == ASSUME Inv, NEW s \in Session, WriteDeleted(s) PROVE Inv'
  <1> DEFINE r == sess[s]
             n == sess'[s]
             t == r.target
             row == [trades[t] EXCEPT !.deleted = TRUE]
  <1>1. /\ Shaped(r) /\ Typed(r, fills, trades) /\ Owns(s, r, fills, trades, lock)
        /\ Writes(r, trades) /\ Run(r) /\ r.at = "delete"
        BY SessionGood DEF WriteDeleted
  <1>2. /\ n = [r EXCEPT !.at = "commit", !.rows = OneRow(t, row)]
        /\ sess' = [z \in Session |-> IF z = s THEN sess'[s] ELSE sess[z]]
        /\ UNCHANGED tables /\ lock[t] = NULL /\ lock' = [lock EXCEPT ![t] = s]
        BY DEF WriteDeleted, Inv
  <1>3. /\ n.at = "commit" /\ n.mine = r.mine /\ n.seen = r.seen /\ n.found = r.found
        /\ n.open = r.open /\ n.rows = OneRow(t, row) /\ n.left = r.left /\ n.cur = r.cur
        /\ n.snap = r.snap /\ n.pos = r.pos /\ n.target = t /\ n.hide = r.hide
        BY <1>1, <1>2 DEF Shaped
  <1>4. Shaped(n)
        BY <1>1, <1>2 DEF Shaped
  <1>5. /\ t # NULL /\ r.mine = NoRows /\ r.open = {} /\ r.cur = NULL /\ r.left = {}
        BY <1>1 DEF Writes
  <1>6. t \in DOMAIN trades /\ trades[t] \in TradeRow
        BY <1>1, <1>5 DEF Typed, Inv, TablesTyped
  <1>7. row \in TradeRow
        BY <1>6 DEF TradeRow
  <1>8. DOMAIN n.rows = {t} /\ n.rows[t] = row /\ n.rows \in [DOMAIN n.rows -> TradeRow]
        BY <1>3, <1>7 DEF OneRow
  <1>9. /\ lock' \in [DOMAIN trades -> Session \cup {NULL}] /\ lock'[t] = s
        /\ \A u \in DOMAIN trades : lock'[u] = lock[u] \/ lock[u] \in {NULL, s}
        BY <1>2, <1>6, LocksTyped
  <1>10. DOMAIN NoRows = {}
        BY DEF NoRows
  <1>11. n.rows = OneRow(n.target, [trades[n.target] EXCEPT !.deleted = TRUE])
        BY <1>3
  <1> HIDE DEF r, n, t, row
  <1>12. Typed(n, fills, trades)
        BY <1>1, <1>3, <1>5, <1>6, <1>8 DEF Typed
  <1>13. Owns(s, n, fills, trades, lock')
        BY <1>1, <1>3, <1>5, <1>6, <1>8, <1>9 DEF Owns
  <1>14. Writes(n, trades)
        BY <1>3, <1>5, <1>11 DEF Writes
  <1>15. Run(n) /\ RowsAddUp(n, fills)
        BY <1>1, <1>3, <1>5, <1>10 DEF Run, RowsAddUp
  <1>16. Good(s, n, fills, trades, lock')
        BY <1>4, <1>12, <1>13, <1>14, <1>15 DEF Good
  <1> QED BY <1>2, <1>3, <1>9, <1>16, SameFills DEF r, n

----------------------------------------------------------------------------
(* The transaction commits *)

\* What is committed: the tables stay well typed ...
LEMMA CommitTables ==
    ASSUME Inv, NEW s \in Session, Commit(s)
    PROVE  /\ TablesTyped(fills', trades', excluded', lock')
           /\ DOMAIN trades' = DOMAIN sess[s].rows \cup DOMAIN trades
           /\ \A t \in DOMAIN sess[s].rows : trades'[t] = sess[s].rows[t]
           /\ \A t \in DOMAIN trades \ DOMAIN sess[s].rows : trades'[t] = trades[t]
           /\ DOMAIN fills' = DOMAIN sess[s].mine \cup DOMAIN fills
           /\ \A f \in DOMAIN sess[s].mine : fills'[f] = sess[s].mine[f]
           /\ \A f \in DOMAIN fills : fills'[f] = fills[f]
           /\ \A t \in DOMAIN trades : lock'[t] = IF lock[t] = s THEN NULL ELSE lock[t]
           /\ \A f \in DOMAIN sess[s].mine : sess[s].mine[f].trade \in DOMAIN sess[s].rows
  <1> DEFINE r == sess[s]
  <1>1. /\ Typed(r, fills, trades) /\ Owns(s, r, fills, trades, lock) /\ Writes(r, trades)
        /\ Run(r) /\ r.at = "commit"
        BY SessionGood DEF Commit
  <1>2. TablesTyped(fills, trades, excluded, lock)
        BY DEF Inv
  <1>3. /\ fills' = Stored(r.mine, fills) /\ trades' = Stored(r.rows, trades)
        /\ excluded' = excluded \cup r.hide
        /\ lock' = [t \in DOMAIN trades' |->
                       IF t \in DOMAIN lock THEN Released(s)[t] ELSE NULL]
        BY DEF Commit
  <1>4. r.left = {} /\ DOMAIN r.rows \subseteq DOMAIN trades \cup DOMAIN r.mine
        BY <1>1 DEF Writes, Owns
  <1>5. \A f \in DOMAIN r.mine : /\ r.mine[f].trade \in DOMAIN r.rows
                                 /\ r.mine[f].role # "NULL" /\ r.mine[f] \in FillRow
        BY <1>1, <1>4 DEF Run, Typed
  <1>6. /\ DOMAIN fills' = DOMAIN r.mine \cup DOMAIN fills
        /\ \A f \in DOMAIN r.mine : fills'[f] = r.mine[f]
        /\ \A f \in DOMAIN fills : fills'[f] = fills[f]
        /\ IsFiniteSet(DOMAIN fills')
        BY <1>3, StoredFills
  <1>7. /\ DOMAIN trades' = DOMAIN r.rows \cup DOMAIN trades
        /\ \A t \in DOMAIN r.rows : trades'[t] = r.rows[t]
        /\ \A t \in DOMAIN trades \ DOMAIN r.rows : trades'[t] = trades[t]
        /\ trades' = [t \in DOMAIN trades' |-> trades'[t]]
        BY <1>3 DEF Stored
  <1>8. fills' = [f \in DOMAIN fills' |-> fills'[f]]
        BY <1>3 DEF Stored
  <1>9. DOMAIN lock = DOMAIN trades /\ \A t \in DOMAIN trades : lock[t] \in Session \cup {NULL}
        BY <1>2 DEF TablesTyped
  <1>10. /\ \A t \in DOMAIN trades : lock'[t] = IF lock[t] = s THEN NULL ELSE lock[t]
         /\ \A t \in DOMAIN trades' \ DOMAIN trades : lock'[t] = NULL
         /\ lock' = [t \in DOMAIN trades' |-> lock'[t]]
        BY <1>3, <1>7, <1>9 DEF Released
  <1> HIDE DEF r
  <1>11. TablesTyped(fills', trades', excluded', lock')
    <2>1. fills' \in [DOMAIN fills' -> {row \in FillRow : row.trade \in DOMAIN trades'
                                                          /\ row.role # "NULL"}]
      <3>1. ASSUME NEW f \in DOMAIN fills'
            PROVE  fills'[f] \in FillRow /\ fills'[f].trade \in DOMAIN trades'
                   /\ fills'[f].role # "NULL"
        <4>1. CASE f \in DOMAIN r.mine
              BY <1>5, <1>6, <1>7, <4>1
        <4>2. CASE f \in DOMAIN fills
              BY <1>2, <1>6, <1>7, <4>2 DEF TablesTyped
        <4> QED BY <1>6, <4>1, <4>2
      <3> QED BY <1>8, <3>1
    <2>2. trades' \in [DOMAIN trades' -> TradeRow]
      <3>1. \A t \in DOMAIN trades' : trades'[t] \in TradeRow
            BY <1>1, <1>2, <1>7 DEF Typed, TablesTyped
      <3> QED BY <1>7, <3>1
    <2>3. /\ DOMAIN trades' \subseteq DOMAIN fills' /\ DOMAIN fills' \subseteq Fill
          /\ excluded' \subseteq DOMAIN fills'
          BY <1>1, <1>2, <1>3, <1>4, <1>6, <1>7 DEF Typed, Owns, TablesTyped
    <2>4. lock' \in [DOMAIN trades' -> Session \cup {NULL}]
      <3>1. \A t \in DOMAIN trades' : lock'[t] \in Session \cup {NULL}
            BY <1>9, <1>10
      <3> QED BY <1>10, <3>1
    <2> QED BY <1>6, <2>1, <2>2, <2>3, <2>4 DEF TablesTyped
  <1> QED BY <1>5, <1>6, <1>7, <1>10, <1>11 DEF r

\* ... each trade is the sum of its fills, those just committed among them ...
LEMMA CommitAddUp ==
    ASSUME Inv, NEW s \in Session, Commit(s), NEW t \in DOMAIN trades'
    PROVE  AddUp(fills', t, trades'[t])
  <1> DEFINE r == sess[s]
             F == Stored(r.mine, fills)
  <1>1. /\ Typed(r, fills, trades) /\ Writes(r, trades) /\ RowsAddUp(r, fills) /\ r.at = "commit"
        BY SessionGood DEF Commit
  <1>2. /\ DOMAIN trades' = DOMAIN r.rows \cup DOMAIN trades
        /\ \A u \in DOMAIN r.rows : trades'[u] = r.rows[u]
        /\ \A u \in DOMAIN trades \ DOMAIN r.rows : trades'[u] = trades[u]
        /\ \A f \in DOMAIN r.mine : r.mine[f].trade \in DOMAIN r.rows
        BY CommitTables
  <1>3. fills' = F
        BY DEF Commit
  <1>4. CASE t \notin DOMAIN r.rows
    <2>1. t \in DOMAIN trades /\ trades'[t] = trades[t] /\ AddUp(fills, t, trades[t])
          BY <1>2, <1>4 DEF Inv
    <2>2. AddUp(F, t, trades[t])
          BY <1>2, <1>4, <2>1, Untouched
    <2> QED BY <1>3, <2>1, <2>2
  <1>5. CASE t \in DOMAIN r.rows /\ r.target = NULL
        BY <1>1, <1>2, <1>3, <1>5 DEF RowsAddUp
  <1>6. CASE t \in DOMAIN r.rows /\ r.target # NULL
    <2>1. /\ r.mine = NoRows /\ r.target \in DOMAIN trades
          /\ r.rows = OneRow(r.target, [trades[r.target] EXCEPT !.deleted = TRUE])
          BY <1>1, <1>6 DEF Writes, Typed
    <2>2. t = r.target /\ trades'[t] = [trades[t] EXCEPT !.deleted = TRUE]
      <3>1. DOMAIN r.rows = {r.target}
            BY <2>1 DEF OneRow
      <3>2. t = r.target
            BY <1>6, <3>1
      <3>3. r.rows[t] = [trades[t] EXCEPT !.deleted = TRUE]
            BY <2>1, <3>2 DEF OneRow
      <3> QED BY <1>2, <1>6, <3>2, <3>3
    <2>3. AddUp(fills, t, trades[t]) /\ trades[t] \in TradeRow
          BY <2>1, <2>2 DEF Inv, TablesTyped
    <2>4. \A f \in DOMAIN r.mine : r.mine[f].trade # t
          BY <2>1 DEF NoRows
    <2>5. AddUp(F, t, trades[t])
          BY <2>1, <2>2, <2>3, <2>4, Untouched
    <2>6. /\ trades'[t].entry = trades[t].entry /\ trades'[t].exit = trades[t].exit
          /\ trades'[t].net = trades[t].net /\ trades'[t].status = trades[t].status
          BY <2>2, <2>3 DEF TradeRow
    <2>7. QuantitiesAgree(trades[t]) => QuantitiesAgree(trades'[t])
          BY <2>6 DEF QuantitiesAgree
    <2> HIDE DEF F
    <2> QED BY <1>3, <2>5, <2>6, <2>7 DEF AddUp
  <1> QED BY <1>4, <1>5, <1>6

\* ... and what the other sessions hold is theirs as before: the rows that were
\* written are those the session had locked or inserted.
LEMMA CommitOthers ==
    ASSUME Inv, NEW s \in Session, Commit(s), NEW z \in Session, z # s
    PROVE  Good(z, sess[z], fills', trades', lock')
  <1> DEFINE r == sess[s]
             o == sess[z]
  <1>1. /\ Owns(s, r, fills, trades, lock) /\ Writes(r, trades) /\ r.at = "commit"
        BY SessionGood DEF Commit
  <1>2. /\ Shaped(o) /\ Typed(o, fills, trades) /\ Owns(z, o, fills, trades, lock)
        /\ Writes(o, trades) /\ Run(o) /\ RowsAddUp(o, fills)
        BY SessionGood
  <1>3. /\ DOMAIN trades' = DOMAIN r.rows \cup DOMAIN trades
        /\ \A t \in DOMAIN trades \ DOMAIN r.rows : trades'[t] = trades[t]
        /\ DOMAIN fills' = DOMAIN r.mine \cup DOMAIN fills
        /\ \A f \in DOMAIN r.mine : fills'[f] = r.mine[f]
        /\ \A f \in DOMAIN fills : fills'[f] = fills[f]
        /\ \A t \in DOMAIN trades : lock'[t] = IF lock[t] = s THEN NULL ELSE lock[t]
        /\ \A f \in DOMAIN r.mine : r.mine[f].trade \in DOMAIN r.rows
        BY CommitTables
  <1>4. /\ DOMAIN r.mine \cap DOMAIN o.mine = {} /\ DOMAIN trades \subseteq DOMAIN fills
        /\ z # NULL
        BY NullsApart DEF Inv, TablesTyped
  <1>5. /\ DOMAIN r.rows \subseteq DOMAIN trades \cup DOMAIN r.mine
        /\ DOMAIN r.mine \cap DOMAIN fills = {}
        /\ \A t \in DOMAIN r.rows \cap DOMAIN trades : lock[t] = s
        BY <1>1 DEF Owns
  <1>6. /\ DOMAIN o.rows \subseteq DOMAIN trades \cup DOMAIN o.mine
        /\ DOMAIN o.mine \cap DOMAIN fills = {} /\ IsFiniteSet(DOMAIN o.mine)
        /\ DOMAIN o.mine \subseteq Fill
        /\ DOMAIN o.rows \subseteq DOMAIN trades \cup (DOMAIN o.mine \ o.left)
        /\ \A t \in DOMAIN o.rows \cap DOMAIN trades : lock[t] = z
        /\ \A t \in o.open : lock[t] = z /\ t \in OpenTrades(trades, Unit) /\ t \in DOMAIN trades
        BY <1>2 DEF Owns, Typed
  <1> HIDE DEF r, o
  <1>7. DOMAIN o.rows \cap DOMAIN r.rows = {}
        BY <1>4, <1>5, <1>6
  <1>8. DOMAIN o.rows \cap DOMAIN trades' = DOMAIN o.rows \cap DOMAIN trades
        BY <1>3, <1>7
  <1>9. \A t \in DOMAIN trades : lock[t] = z => lock'[t] = z /\ trades'[t] = trades[t]
        BY <1>3, <1>5
  <1>10. Typed(o, fills', trades')
        BY <1>2, <1>3 DEF Typed
  <1>11. Owns(z, o, fills', trades', lock')
    <2>1. \A t \in o.open : lock'[t] = z /\ t \in OpenTrades(trades', Unit)
          BY <1>3, <1>6, <1>9 DEF OpenTrades
    <2>2. \A t \in DOMAIN o.rows \cap DOMAIN trades' : lock'[t] = z
          BY <1>6, <1>8, <1>9
    <2>3. DOMAIN o.mine \subseteq Fill \ DOMAIN fills'
          BY <1>3, <1>4, <1>6
    <2>4. DOMAIN o.rows \subseteq DOMAIN trades' \cup (DOMAIN o.mine \ o.left)
          BY <1>3, <1>6
    <2> QED BY <1>6, <2>1, <2>2, <2>3, <2>4 DEF Owns
  <1>12. Writes(o, trades')
    <2>1. ASSUME o.target # NULL, o.at = "commit" PROVE trades'[o.target] = trades[o.target]
      <3>1. o.target \in DOMAIN o.rows /\ o.target \in DOMAIN trades
            BY <1>2, <2>1 DEF Writes, OneRow, Typed
      <3> QED BY <1>6, <1>9, <3>1
    <2> QED BY <1>2, <1>8, <2>1 DEF Writes
  <1>13. RowsAddUp(o, fills')
    <2> DEFINE F == Stored(o.mine, fills)
               G == Stored(o.mine, fills')
    <2>1. SUFFICES ASSUME o.target = NULL, NEW t \in DOMAIN o.rows
                   PROVE  AddUp(G, t, o.rows[t])
          BY DEF RowsAddUp
    <2>2. AddUp(F, t, o.rows[t])
          BY <1>2, <2>1 DEF RowsAddUp
    <2>3. /\ DOMAIN F \subseteq DOMAIN G /\ \A f \in DOMAIN F : G[f] = F[f]
          /\ \A f \in DOMAIN G \ DOMAIN F : f \in DOMAIN r.mine /\ G[f] = r.mine[f]
          BY <1>3, <1>4, <1>6 DEF Stored
    <2>4. \A f \in DOMAIN G \ DOMAIN F : G[f].trade # t
          BY <1>3, <1>7, <2>1, <2>3
    <2> HIDE DEF F, G
    <2>5. ASSUME NEW role PROVE TotalIn(G, t, role) = TotalIn(F, t, role)
          BY <2>3, <2>4, TotalSame
    <2> QED BY <2>2, <2>3, <2>5 DEF AddUp
  <1>14. Good(z, o, fills', trades', lock')
        BY <1>2, <1>10, <1>11, <1>12, <1>13 DEF Good
  <1> QED BY <1>14 DEF o

LEMMA CommitKeeps == ASSUME Inv, NEW s \in Session, Commit(s) PROVE Inv'
  <1>1. /\ sess' = [z \in Session |-> sess'[z]] /\ sess'[s] = Ended
        /\ \A z \in Session : z # s => sess'[z] = sess[z]
        BY DEF Commit, Inv
  <1>2. DOMAIN Ended.mine = {}
        BY DEF Ended, NoRows
  <1>3. \A y, z \in Session : y # z => DOMAIN sess'[y].mine \cap DOMAIN sess'[z].mine = {}
    <2> HIDE DEF Ended
    <2> QED BY <1>1, <1>2 DEF Inv
  <1>4. ASSUME NEW z \in Session PROVE Good(z, sess'[z], fills', trades', lock')
    <2>1. CASE z = s
      <3> DEFINE fs == fills'
                 ts == trades'
                 lk == lock'
      <3> HIDE DEF fs, ts, lk
      <3>1. Good(s, Ended, fs, ts, lk)
            BY EndedGood
      <3> QED BY <1>1, <2>1, <3>1 DEF fs, ts, lk
    <2>2. CASE z # s
          BY <1>1, <2>2, CommitOthers
    <2> QED BY <2>1, <2>2
  <1>5. \A t \in DOMAIN trades' : AddUp(fills', t, trades'[t])
        BY CommitAddUp
  <1>6. TablesTyped(fills', trades', excluded', lock')
        BY CommitTables
  <1> QED BY <1>1, <1>3, <1>4, <1>5, <1>6 DEF Inv

----------------------------------------------------------------------------
(* The theorems *)

LEMMA InitInv == ASSUME Init PROVE Inv
  <1>1. /\ DOMAIN fills = {} /\ DOMAIN trades = {} /\ DOMAIN lock = {} /\ excluded = {}
        /\ fills = [f \in {} |-> NULL] /\ trades = [f \in {} |-> NULL]
        /\ lock = [f \in {} |-> NULL]
        BY DEF Init, NoRows
  <1>2. TablesTyped(fills, trades, excluded, lock)
        BY <1>1, FS_EmptySet DEF TablesTyped
  <1>3. \A s \in Session : sess[s] = Ended /\ Good(s, sess[s], fills, trades, lock)
        BY EndedGood DEF Init
  <1>4. DOMAIN Ended.mine = {}
        BY DEF Ended, NoRows
  <1>5. sess = [s \in Session |-> sess[s]]
        BY DEF Init
  <1>6. \A s, z \in Session : s # z => DOMAIN sess[s].mine \cap DOMAIN sess[z].mine = {}
        BY <1>3, <1>4
  <1> QED BY <1>1, <1>2, <1>3, <1>5, <1>6 DEF Inv

LEMMA NextInv == ASSUME Inv, Next PROVE Inv'
  <1>1. PICK s \in Session : Request(s) \/ Advance(s) \/ Abort(s)
        BY DEF Next
  <1>2. ASSUME Request(s) PROVE Inv'
        BY <1>2, InsertKeeps, DeleteTradeKeeps DEF Request
  <1>3. ASSUME Advance(s) PROVE Inv'
    <2>1. TakeFill(s) => Inv'
          BY OpenTradeKeeps, ScaleInKeeps, ScaleOutKeeps DEF TakeFill
    <2>2. RunFails(s) \/ DeleteFails(s) => Inv'
          BY RollbackKeeps DEF RunFails, DeleteFails
    <2>3. DeadlockVictim(s) => Inv'
          BY RollbackKeeps DEF DeadlockVictim
    <2> QED BY <1>3, <2>1, <2>2, <2>3, ScanKeeps, LockRowKeeps, StartRunKeeps, ReadFillsKeeps,
               WriteDeletedKeeps, CommitKeeps DEF Advance
  <1>4. Abort(s) => Inv'
        BY RollbackKeeps DEF Abort
  <1> QED BY <1>1, <1>2, <1>3, <1>4

LEMMA StutterInv == ASSUME Inv, UNCHANGED vars PROVE Inv'
  BY DEF vars, Inv

LEMMA Invariance == Spec => []Inv
  <1>1. Init => Inv
        BY InitInv
  <1>2. Inv /\ [Next]_vars => Inv'
        BY NextInv, StutterInv
  <1> QED BY <1>1, <1>2, PTL DEF Spec

LEMMA InvTypeOK == ASSUME Inv PROVE TypeOK
  <1>1. TablesTyped(fills, trades, excluded, lock)
        BY DEF Inv
  <1>2. \A s \in Session : Typed(sess[s], fills, trades)
        BY SessionGood
  <1> QED BY <1>1, <1>2 DEF TablesTyped, Typed, TypeOK

LEMMA InvLocks == ASSUME Inv PROVE WritersHoldLocks
  <1>1. \A s \in Session : Owns(s, sess[s], fills, trades, lock)
        BY SessionGood
  <1> QED BY <1>1 DEF Owns, WritersHoldLocks

LEMMA InvAddUp == ASSUME Inv PROVE ImportedTradesAddUp
  <1>1. SUFFICES ASSUME NEW t \in DOMAIN trades, \A f \in FillsOf(t) : fills[f].source = "CSV"
                 PROVE  AddsUp(t)
        BY DEF ImportedTradesAddUp
  <1>2. ASSUME NEW role PROVE TotalAs(t, role) = TotalIn(fills, t, role)
    <2>1. FilledAs(t, role) = AssignedAs(fills, t, role)
          BY DEF FilledAs, FillsOf, AssignedAs
    <2>2. DOMAIN [f \in FilledAs(t, role) |-> fills[f].qty] = FilledAs(t, role)
          OBVIOUS
    <2> QED BY <2>1, <2>2 DEF TotalAs, TotalIn, SumFunction
  <1>3. AddUp(fills, t, trades[t])
        BY DEF Inv
  <1>4. \A f \in DOMAIN fills : fills[f].trade = t => fills[f].source = "CSV"
        BY <1>1 DEF FillsOf
  <1> QED BY <1>2, <1>3, <1>4 DEF AddUp, AddsUp

\* A run writes only trades that are still open; a DELETE only the flag.
LEMMA CommitSettles ==
    ASSUME Inv, NEW s \in Session, Commit(s), NEW t \in DOMAIN trades, Settled(trades[t])
    PROVE  /\ SnapshotOf(trades'[t]) = SnapshotOf(trades[t])
           /\ trades[t].deleted => trades'[t].deleted
  <1> DEFINE r == sess[s]
  <1>1. /\ Owns(s, r, fills, trades, lock) /\ Writes(r, trades) /\ r.at = "commit"
        BY SessionGood DEF Commit
  <1>2. /\ \A u \in DOMAIN r.rows : trades'[u] = r.rows[u]
        /\ \A u \in DOMAIN trades \ DOMAIN r.rows : trades'[u] = trades[u]
        BY CommitTables
  <1>3. CASE t \notin DOMAIN r.rows
        BY <1>2, <1>3
  <1>4. CASE t \in DOMAIN r.rows /\ r.target = NULL
    <2>1. t \in OpenTrades(trades, Unit)
          BY <1>1, <1>4 DEF Owns, Writes
    <2> QED BY <2>1 DEF OpenTrades, Settled
  <1>5. CASE t \in DOMAIN r.rows /\ r.target # NULL
    <2>1. r.rows = OneRow(r.target, [trades[r.target] EXCEPT !.deleted = TRUE])
          BY <1>1, <1>5 DEF Writes
    <2>2. trades'[t] = [trades[t] EXCEPT !.deleted = TRUE]
      <3>1. t = r.target
            BY <1>5, <2>1 DEF OneRow
      <3> HIDE DEF r
      <3> QED BY <1>2, <1>5, <2>1, <3>1 DEF OneRow
    <2>3. trades[t] \in TradeRow
          BY DEF Inv, TablesTyped
    <2>4. /\ trades'[t].entry = trades[t].entry /\ trades'[t].exit = trades[t].exit
          /\ trades'[t].net = trades[t].net /\ trades'[t].status = trades[t].status
          /\ trades'[t].dir = trades[t].dir /\ trades'[t].deleted = TRUE
          BY <2>2, <2>3 DEF TradeRow
    <2> QED BY <2>4 DEF SnapshotOf
  <1> QED BY <1>3, <1>4, <1>5

LEMMA OnlyCommitsWrite == ASSUME NEW s \in Session, Request(s) \/ Advance(s) \/ Abort(s)
                          PROVE  Commit(s) \/ UNCHANGED trades
  BY DEF Request, InsertFills, AddFill, DeleteTrade, Abort, Rollback, Advance, Scan, LockRow,
         StartRun, TakeFill, OpenTrade, ScaleIn, ScaleOut, Takes, RunFails, ReadFills,
         WriteDeleted, DeleteFails, DeadlockVictim, tables

----------------------------------------------------------------------------
(* Locks and waits, exclusions and deletions.  Given Inv, each of these two  *)
(* is inductive by itself.                                                   *)

\* A session whose next statement is a lookup, or a DELETE's, holds no lock yet;
\* one within a lookup holds none of the rows it still has to lock.
Patient(s, r, lk) ==
    /\ r.at \in {"start", "scan", "hide", "delete"} => \A t \in DOMAIN lk : lk[t] # s
    /\ r.at = "lock" => \A t \in r.found \cap DOMAIN lk : lk[t] # s

LockInv == \A s \in Session : Patient(s, sess[s], lock)

\* Exclusions are of deleted trades, or of the trade a DELETE is about to delete.
HideInv ==
    /\ \A f \in excluded : trades[fills[f].trade].deleted
    /\ \A s \in Session : \A f \in sess[s].hide : fills[f].trade = sess[s].target

\* What the end of a transaction leaves behind.
LEMMA EndLeavesNothing ==
    ASSUME Inv, NEW s \in Session, Rollback(s) \/ Commit(s)
    PROVE  /\ sess' = [sess EXCEPT ![s] = Ended] /\ sess'[s] = Ended
           /\ \A t \in DOMAIN lock' : lock'[t] # s
           /\ \A t \in DOMAIN lock' : lock'[t] # NULL => t \in DOMAIN lock /\ lock'[t] = lock[t]
  <1>1. sess' = [sess EXCEPT ![s] = Ended] /\ sess'[s] = Ended /\ s # NULL
        BY NullsApart DEF Rollback, Commit, Inv
  <1>2. CASE Rollback(s)
    <2>1. /\ DOMAIN lock' = DOMAIN lock
          /\ \A t \in DOMAIN lock : lock'[t] = IF lock[t] = s THEN NULL ELSE lock[t]
          BY <1>2 DEF Rollback, Released
    <2> QED BY <1>1, <2>1
  <1>3. CASE Commit(s)
    <2>1. DOMAIN Released(s) = DOMAIN lock /\ \A t \in DOMAIN lock :
              Released(s)[t] = IF lock[t] = s THEN NULL ELSE lock[t]
          BY DEF Released
    <2>2. \A t \in DOMAIN lock' : lock'[t] = IF t \in DOMAIN lock THEN Released(s)[t] ELSE NULL
          BY <1>3 DEF Commit
    <2> QED BY <1>1, <2>1, <2>2
  <1> QED BY <1>2, <1>3

\* What a step within a transaction does to its session, as far as it matters here.
LEMMA StepsWithin ==
    ASSUME Inv, NEW s \in Session, Request(s) \/ Advance(s) \/ Abort(s)
    PROVE  \/ Rollback(s) \/ Commit(s)
           \/ /\ \A z \in Session \ {s} : sess'[z] = sess[z]
              /\ UNCHANGED tables
              /\ \/ InsertFills(s, "CSV") \/ InsertFills(s, "MANUAL")
                 \/ \E t \in DOMAIN trades : AddFill(s, t) \/ DeleteTrade(s, t)
                 \/ Scan(s) \/ LockRow(s) \/ StartRun(s) \/ TakeFill(s)
                 \/ ReadFills(s) \/ WriteDeleted(s)
  <1>0. sess = [z \in Session |-> sess[z]]
        BY DEF Inv
  <1> DEFINE Alone == UNCHANGED tables /\ \A z \in Session \ {s} : sess'[z] = sess[z]
  <1>1. CASE Request(s)
    <2>1. ASSUME NEW src, InsertFills(s, src) PROVE Alone
          BY <2>1 DEF InsertFills
    <2>2. ASSUME NEW t, AddFill(s, t) PROVE Alone
          BY <2>2 DEF AddFill
    <2>3. ASSUME NEW t, DeleteTrade(s, t) PROVE Alone
          BY <2>3 DEF DeleteTrade
    <2> HIDE DEF Alone
    <2>4. CASE \E src \in Source : InsertFills(s, src)
      <3>1. Alone /\ (InsertFills(s, "CSV") \/ InsertFills(s, "MANUAL"))
            BY <2>1, <2>4 DEF Source
      <3> QED BY <3>1 DEF Alone
    <2>5. CASE \E t \in DOMAIN trades : AddFill(s, t) \/ DeleteTrade(s, t)
      <3>1. Alone
            BY <2>2, <2>3, <2>5
      <3> QED BY <2>5, <3>1 DEF Alone
    <2> QED BY <1>1, <2>4, <2>5 DEF Request
  <1>2. CASE Advance(s)
    <2>1. CASE RunFails(s) \/ DeleteFails(s) \/ DeadlockVictim(s) \/ Commit(s)
          BY <2>1 DEF RunFails, DeleteFails, DeadlockVictim
    <2>2. CASE TakeFill(s)
      <3>1. \E f, t, row, snap, role : Takes(s, f, t, row, snap, role)
            BY <2>2 DEF TakeFill, OpenTrade, ScaleIn, ScaleOut
      <3>2. Alone
            BY <3>1 DEF Takes
      <3> QED BY <2>2, <3>2 DEF Alone
    <2>3. CASE Scan(s) \/ ReadFills(s)
          BY <1>0, <2>3 DEF Scan, ReadFills
    <2>4. CASE LockRow(s)
          BY <1>0, <2>4 DEF LockRow
    <2>5. CASE StartRun(s)
          BY <1>0, <2>5 DEF StartRun
    <2>6. CASE WriteDeleted(s)
          BY <1>0, <2>6 DEF WriteDeleted
    <2> QED BY <1>2, <2>1, <2>2, <2>3, <2>4, <2>5, <2>6 DEF Advance
  <1>3. CASE Abort(s)
        BY <1>3 DEF Abort
  <1> QED BY <1>1, <1>2, <1>3

\* What the two kinds of step with several cases write in the session.
LEMMA StartWrites ==
    ASSUME Inv, NEW s \in Session, StartRun(s)
    PROVE  /\ UNCHANGED lock /\ sess'[s].at = "run"
           /\ sess'[s].hide = sess[s].hide /\ sess'[s].target = sess[s].target
  <1>1. Shaped(sess[s]) /\ sess = [z \in Session |-> sess[z]]
        BY SessionGood DEF Inv
  <1>2. UNCHANGED lock
        BY DEF StartRun
  <1>3. CASE sess' = [sess EXCEPT ![s].at = "run"]
        BY <1>1, <1>2, <1>3 DEF Shaped
  <1>4. CASE sess' # [sess EXCEPT ![s].at = "run"]
    <2>1. PICK t \in sess[s].open :
             sess' = [sess EXCEPT
                 ![s].at = "run", ![s].cur = t, ![s].snap = SnapshotOf(RowObject(s, t)),
                 ![s].pos = ResumedPosition(RowObject(s, t)),
                 ![s].rows = OneRow(t, trades[t])]
          BY <1>4 DEF StartRun
    <2>2. sess'[s] = [sess[s] EXCEPT
                 !.at = "run", !.cur = t, !.snap = SnapshotOf(RowObject(s, t)),
                 !.pos = ResumedPosition(RowObject(s, t)), !.rows = OneRow(t, trades[t])]
          BY <1>1, <2>1
    <2> QED BY <1>1, <1>2, <2>2 DEF Shaped
  <1> QED BY <1>3, <1>4

LEMMA TakeWrites ==
    ASSUME Inv, NEW s \in Session, TakeFill(s)
    PROVE  /\ UNCHANGED lock /\ sess'[s].at \in {"run", "commit"}
           /\ sess'[s].hide = sess[s].hide /\ sess'[s].target = sess[s].target
  <1>1. Shaped(sess[s]) /\ sess = [z \in Session |-> sess[z]]
        BY SessionGood DEF Inv
  <1>2. PICK f, t, row, snap, role : Takes(s, f, t, row, snap, role)
        BY DEF TakeFill, OpenTrade, ScaleIn, ScaleOut
  <1>3. UNCHANGED lock /\ sess'[s] = Taken(s, f, t, row, snap, role)
        BY <1>1, <1>2 DEF Takes
  <1> QED BY <1>1, <1>3 DEF Taken, Shaped

\* Only a lookup and a DELETE's update take locks, and they have something to
\* lock; a scan finds rows of which the session holds none.
LEMMA LockStep ==
    ASSUME Inv, LockInv, NEW s \in Session, Request(s) \/ Advance(s) \/ Abort(s)
    PROVE  LockInv'
  <1>1. CASE Rollback(s) \/ Commit(s)
    <2>1. Patient(s, sess'[s], lock')
          BY <1>1, EndLeavesNothing DEF Patient, Ended
    <2>2. ASSUME NEW z \in Session \ {s} PROVE Patient(z, sess'[z], lock')
      <3>1. sess'[z] = sess[z]
            BY <1>1, EndLeavesNothing DEF Inv
      <3>2. \A t \in DOMAIN lock' : lock'[t] = z => t \in DOMAIN lock /\ lock[t] = z
            BY <1>1, EndLeavesNothing, NullsApart
      <3> QED BY <3>1, <3>2 DEF LockInv, Patient
    <2> QED BY <2>1, <2>2 DEF LockInv
  <1>2. CASE /\ \A z \in Session \ {s} : sess'[z] = sess[z]
             /\ UNCHANGED lock
             /\ Patient(s, sess'[s], lock)
        BY <1>2 DEF LockInv
  <1>3. CASE /\ \A z \in Session \ {s} : sess'[z] = sess[z]
             /\ \E t \in DOMAIN trades : lock' = [lock EXCEPT ![t] = s]
             /\ Patient(s, sess'[s], lock')
    <2>1. ASSUME NEW z \in Session \ {s} PROVE Patient(z, sess'[z], lock')
      <3>1. \A t \in DOMAIN lock' : lock'[t] = z => t \in DOMAIN lock /\ lock[t] = z
            BY <1>3
      <3> QED BY <1>3, <3>1 DEF LockInv, Patient
    <2> QED BY <1>3, <2>1 DEF LockInv
  <1>4. sess = [z \in Session |-> sess[z]] /\ DOMAIN lock = DOMAIN trades
        BY DEF Inv, TablesTyped
  <1>5. Patient(s, sess[s], lock) /\ Typed(sess[s], fills, trades) /\ Writes(sess[s], trades)
        /\ Shaped(sess[s])
        BY SessionGood DEF LockInv
  <1>6. ASSUME NEW src, InsertFills(s, src)
        PROVE  UNCHANGED lock /\ Patient(s, sess'[s], lock)
    <2>1. UNCHANGED lock /\ sess[s].at = "start" /\ sess'[s].at = "scan"
          BY <1>4, <1>6 DEF InsertFills, Ended
    <2> QED BY <1>5, <2>1 DEF Patient
  <1>7. ASSUME NEW t \in DOMAIN trades, AddFill(s, t) \/ DeleteTrade(s, t)
        PROVE  UNCHANGED lock /\ Patient(s, sess'[s], lock)
    <2>1. UNCHANGED lock /\ sess[s].at = "start" /\ sess'[s].at \in {"scan", "hide"}
          BY <1>4, <1>7 DEF AddFill, DeleteTrade, Ended
    <2> QED BY <1>5, <2>1 DEF Patient
  <1>8. ASSUME Scan(s) \/ ReadFills(s) PROVE UNCHANGED lock /\ Patient(s, sess'[s], lock)
    <2>1. /\ UNCHANGED lock /\ sess[s].at \in {"scan", "hide"}
          /\ sess'[s].at \in {"lock", "delete"}
          BY <1>4, <1>5, <1>8 DEF Scan, ReadFills, Shaped
    <2> QED BY <1>5, <2>1 DEF Patient
  <1>9. ASSUME StartRun(s) \/ TakeFill(s) PROVE UNCHANGED lock /\ Patient(s, sess'[s], lock)
        BY <1>9, StartWrites, TakeWrites DEF Patient
  <1>10. ASSUME LockRow(s)
         PROVE  /\ \E t \in DOMAIN trades : lock' = [lock EXCEPT ![t] = s]
                /\ Patient(s, sess'[s], lock')
    <2>1. PICK t \in sess[s].found :
              /\ lock' = [lock EXCEPT ![t] = s]
              /\ sess'[s].at = "lock" /\ sess'[s].found = sess[s].found \ {t}
      <3>1. PICK t \in sess[s].found :
                /\ lock' = [lock EXCEPT ![t] = s]
                /\ sess' = [sess EXCEPT
                       ![s].found = @ \ {t},
                       ![s].open = IF t \in OpenTrades(trades, Unit) THEN @ \cup {t} ELSE @]
            BY <1>10 DEF LockRow
      <3>2. sess[s].at = "lock"
            BY <1>10 DEF LockRow
      <3>3. sess'[s].at = "lock" /\ sess'[s].found = sess[s].found \ {t}
            BY <1>4, <1>5, <3>1, <3>2 DEF Shaped
      <3> QED BY <3>1, <3>3
    <2>2. t \in DOMAIN trades /\ \A u \in DOMAIN lock' \ {t} : u \in DOMAIN lock /\ lock'[u] = lock[u]
          BY <1>5, <2>1 DEF Typed
    <2>3. sess[s].at = "lock"
          BY <1>10 DEF LockRow
    <2> QED BY <1>5, <2>1, <2>2, <2>3 DEF Patient
  <1>11. ASSUME WriteDeleted(s)
         PROVE  /\ \E t \in DOMAIN trades : lock' = [lock EXCEPT ![t] = s]
                /\ Patient(s, sess'[s], lock')
    <2>1. /\ sess[s].at = "delete" /\ sess'[s].at = "commit"
          /\ lock' = [lock EXCEPT ![sess[s].target] = s]
          BY <1>4, <1>5, <1>11 DEF WriteDeleted, Shaped
    <2>2. sess[s].target \in DOMAIN trades
          BY <1>5, <2>1 DEF Typed, Writes
    <2> QED BY <2>1, <2>2 DEF Patient
  <1> QED BY <1>1, <1>2, <1>3, <1>6, <1>7, <1>8, <1>9, <1>10, <1>11, StepsWithin

\* A DELETE excludes fills of its own trade, and deletes it in the same commit.
LEMMA HideStep ==
    ASSUME Inv, HideInv, NEW s \in Session, Request(s) \/ Advance(s) \/ Abort(s)
    PROVE  HideInv'
  <1>1. sess = [z \in Session |-> sess[z]] /\ TablesTyped(fills, trades, excluded, lock)
        BY DEF Inv
  <1>2. \A z \in Session : Typed(sess[z], fills, trades) /\ Writes(sess[z], trades)
                           /\ Shaped(sess[z])
        BY SessionGood
  <1>3. CASE Rollback(s)
    <2>1. UNCHANGED tables /\ sess'[s].hide = {} /\ \A z \in Session \ {s} : sess'[z] = sess[z]
          BY <1>1, <1>3 DEF Rollback, Ended
    <2> QED BY <2>1 DEF HideInv, tables
  <1>4. CASE Commit(s)
    <2> DEFINE r == sess[s]
    <2>1. /\ excluded' = excluded \cup r.hide /\ r.at = "commit"
          /\ sess'[s].hide = {} /\ \A z \in Session \ {s} : sess'[z] = sess[z]
          BY <1>1, <1>4 DEF Commit, Ended
    <2>2. \A f \in DOMAIN fills : fills'[f] = fills[f] /\ fills[f].trade \in DOMAIN trades
          BY <1>1, <1>4, CommitTables DEF TablesTyped
    <2>3. \A f \in excluded : trades'[fills[f].trade].deleted
      <3>1. SUFFICES ASSUME NEW f \in excluded PROVE trades'[fills[f].trade].deleted
            OBVIOUS
      <3>2. f \in DOMAIN fills /\ trades[fills[f].trade].deleted
            BY <1>1 DEF TablesTyped, HideInv
      <3> QED BY <1>4, <2>2, <3>2, CommitSettles DEF Settled
    <2>4. ASSUME NEW f \in r.hide PROVE trades'[fills[f].trade].deleted
      <3>1. f \in DOMAIN fills /\ fills[f].trade = r.target
            BY <1>2 DEF Typed, HideInv
      <3>2. r.target \in DOMAIN trades /\ r.target # NULL
            BY <2>2, <3>1, NullsApart
      <3>3. r.rows = OneRow(r.target, [trades[r.target] EXCEPT !.deleted = TRUE])
            BY <1>2, <2>1, <3>2 DEF Writes
      <3>4. trades'[r.target] = [trades[r.target] EXCEPT !.deleted = TRUE]
        <4>1. \A t \in DOMAIN r.rows : trades'[t] = r.rows[t]
              BY <1>4, CommitTables
        <4> QED BY <3>3, <4>1 DEF OneRow
      <3>5. trades[r.target] \in TradeRow
            BY <1>1, <3>2 DEF TablesTyped
      <3> QED BY <3>1, <3>4, <3>5 DEF TradeRow
    <2>5. excluded \subseteq DOMAIN fills /\ \A z \in Session : sess[z].hide \subseteq DOMAIN fills
          BY <1>1, <1>2 DEF TablesTyped, Typed
    <2> HIDE DEF r
    <2>6. \A f \in excluded' : trades'[fills'[f].trade].deleted
          BY <2>1, <2>2, <2>3, <2>4, <2>5 DEF r
    <2>7. \A z \in Session : \A f \in sess'[z].hide : fills'[f].trade = sess'[z].target
          BY <2>1, <2>2, <2>5 DEF HideInv
    <2> QED BY <2>6, <2>7 DEF HideInv
  <1>5. CASE /\ UNCHANGED tables /\ \A z \in Session \ {s} : sess'[z] = sess[z]
             /\ \A f \in sess'[s].hide : fills[f].trade = sess'[s].target
        BY <1>5 DEF HideInv, tables
  <1>6. ASSUME NEW src, InsertFills(s, src) PROVE sess'[s].hide = {}
        BY <1>1, <1>6 DEF InsertFills, Ended
  <1>7. ASSUME NEW t, AddFill(s, t) \/ DeleteTrade(s, t) PROVE sess'[s].hide = {}
        BY <1>1, <1>7 DEF AddFill, DeleteTrade, Ended
  <1>8. ASSUME ReadFills(s) PROVE \A f \in sess'[s].hide : fills[f].trade = sess'[s].target
    <2> DEFINE H == FillsOf(sess[s].target) \ excluded
    <2>1. sess' = [sess EXCEPT ![s].at = "delete", ![s].hide = H] /\ Shaped(sess[s])
          BY <1>2, <1>8 DEF ReadFills
    <2> HIDE DEF H
    <2>2. sess'[s].target = sess[s].target /\ sess'[s].hide = H
          BY <1>1, <2>1 DEF Shaped
    <2> QED BY <2>2 DEF FillsOf, H
  <1>9. ASSUME Scan(s) \/ LockRow(s) \/ StartRun(s) \/ TakeFill(s) \/ WriteDeleted(s)
        PROVE  sess'[s].hide = sess[s].hide /\ sess'[s].target = sess[s].target
    <2>1. Shaped(sess[s])
          BY <1>2
    <2>2. CASE Scan(s)
          BY <1>1, <2>1, <2>2 DEF Scan, Shaped
    <2>3. CASE LockRow(s)
      <3>1. \E found, open : sess' = [sess EXCEPT ![s].found = found, ![s].open = open]
            BY <2>3 DEF LockRow
      <3> QED BY <1>1, <2>1, <3>1 DEF Shaped
    <2>4. CASE WriteDeleted(s)
      <3>1. \E rows : sess' = [sess EXCEPT ![s].at = "commit", ![s].rows = rows]
            BY <2>4 DEF WriteDeleted
      <3> QED BY <1>1, <2>1, <3>1 DEF Shaped
    <2> QED BY <1>9, <2>2, <2>3, <2>4, StartWrites, TakeWrites
  <1>10. \A f \in sess[s].hide : fills[f].trade = sess[s].target
         BY DEF HideInv
  <1> QED BY <1>3, <1>4, <1>5, <1>6, <1>7, <1>8, <1>9, <1>10, StepsWithin

LEMMA LocksAndExclusions == Spec => [](LockInv /\ HideInv)
  <1>1. Init => LockInv /\ HideInv
    <2>1. Init => /\ excluded = {} /\ DOMAIN lock = {}
                  /\ \A s \in Session : sess[s] = Ended
          BY DEF Init, NoRows
    <2> QED BY <2>1 DEF LockInv, Patient, HideInv, Ended
  <1>2. Inv /\ LockInv /\ HideInv /\ [Next]_vars => (LockInv /\ HideInv)'
    <2>1. Inv /\ LockInv /\ HideInv /\ Next => (LockInv /\ HideInv)'
          BY LockStep, HideStep DEF Next
    <2>2. LockInv /\ HideInv /\ UNCHANGED vars => (LockInv /\ HideInv)'
          BY DEF vars, tables, LockInv, Patient, HideInv
    <2> QED BY <2>1, <2>2
  <1> QED BY <1>1, <1>2, Invariance, PTL DEF Spec

\* Who is waited for holds a lock, so a lookup if it also waits, and then for
\* another row than the one it holds.
LEMMA CirclesOfLookups == ASSUME Inv, LockInv PROVE DeadlockNeedsTwoTrades
  <1>1. SUFFICES ASSUME NEW C \in SUBSET Session, Circle(C), NEW s \in C
                 PROVE  /\ sess[s].at = "lock"
                        /\ \E t \in DOMAIN trades, u \in sess[s].found : lock[t] = s /\ t # u
        BY DEF DeadlockNeedsTwoTrades
  <1> DEFINE wanted(z) == CASE sess[z].at = "lock" -> sess[z].found
                            [] sess[z].at = "delete" -> {sess[z].target}
                            [] OTHER -> {}
  <1>2. \A z \in Session : WaitsFor(z) =
            {y \in Session \ {z} : \E t \in wanted(z) : lock[t] = y}
        BY DEF WaitsFor
  <1>3. PICK z \in C, y \in C : s \in WaitsFor(z) /\ y \in WaitsFor(s)
        BY <1>1 DEF Circle
  <1>4. wanted(z) \subseteq DOMAIN trades
    <2>1. Typed(sess[z], fills, trades) /\ Writes(sess[z], trades)
          BY SessionGood
    <2> QED BY <2>1 DEF Typed, Writes
  <1>5. PICK t \in DOMAIN trades : lock[t] = s
        BY <1>2, <1>3, <1>4
  <1>6. PICK u \in wanted(s) : lock[u] = y /\ y # s
        BY <1>2, <1>3
  <1>7. sess[s].at \in {"lock", "delete"}
        BY <1>6
  <1>8. DOMAIN lock = DOMAIN trades
        BY DEF Inv, TablesTyped
  <1>9. sess[s].at = "lock"
        BY <1>5, <1>7, <1>8 DEF LockInv, Patient
  <1> QED BY <1>5, <1>6, <1>9

\* Whatever requests overlap on one unit, only lookups that hold one of several
\* open trades and wait for another can deadlock; a DELETE never does.
THEOREM DeadlocksNeedTwoTrades == Spec => []DeadlockNeedsTwoTrades
  BY Invariance, LocksAndExclusions, CirclesOfLookups, PTL

\* No run brings back a trade whose fills a DELETE has excluded.
THEOREM ExcludedAlwaysDeleted == Spec => []ExcludedAreDeleted
  <1>1. HideInv => ExcludedAreDeleted
        BY DEF HideInv, ExcludedAreDeleted
  <1> QED BY <1>1, LocksAndExclusions, PTL

\* However many requests overlap, and whatever fills they bring, the rows stay
\* well typed and no session refers to a row or a fill that is not there.
THEOREM AlwaysTypeOK == Spec => []TypeOK
  BY Invariance, InvTypeOK, PTL

\* SELECT ... FOR UPDATE does what the engine relies on: from its lookup to its
\* commit a run holds the lock of every existing trade it will write, and that
\* trade stays open and live.
THEOREM WritersAlwaysHoldLocks == Spec => []WritersHoldLocks
  BY Invariance, InvLocks, PTL

\* No overlap of imports, new trades and deletions loses a fill or counts one
\* twice: a trade all of whose fills are imported is their sum.
THEOREM ImportedTradesAlwaysAddUp == Spec => []ImportedTradesAddUp
  BY Invariance, InvAddUp, PTL

\* No run that had seen a trade open writes to it after another request has
\* closed or deleted it.
THEOREM SettledTradesStay == Spec => SettledStaysSettled
  <1> DEFINE Kept == \A t \in DOMAIN trades :
                        Settled(trades[t]) =>
                            /\ SnapshotOf(trades'[t]) = SnapshotOf(trades[t])
                            /\ trades[t].deleted => trades'[t].deleted
  <1>1. Inv /\ [Next]_vars => [Kept]_trades
    <2>1. SUFFICES ASSUME Inv, Next PROVE [Kept]_trades
          BY DEF vars, tables
    <2>2. PICK s \in Session : Request(s) \/ Advance(s) \/ Abort(s)
          BY <2>1 DEF Next
    <2>3. Commit(s) \/ UNCHANGED trades
          BY <2>2, OnlyCommitsWrite
    <2> QED BY <2>1, <2>3, CommitSettles
  <1>2. SettledStaysSettled <=> [][Kept]_trades
        BY DEF SettledStaysSettled
  <1> QED BY <1>1, <1>2, Invariance, PTL DEF Spec
==============================================================================
