------------------------------ MODULE ImportProofs ------------------------------
(***************************************************************************)
(* No import passes over a fill it has inserted, for any files, accounts,  *)
(* units and number of overlapping uploads.                                *)
(*                                                                         *)
(* What is said of an upload is said of its record alone (Good), so that a *)
(* step of one upload concerns no other.                                   *)
(***************************************************************************)
EXTENDS ImportPipeline, FiniteSetTheorems, TLAPS

SessionRow ==
    [at: {"start", "check", "insert", "run", "commit"}, up: 0..MaxUploads,
     acct: Account \cup {NULL}, file: File \cup {NULL}, n: Nat,
     mine: SUBSET Fill, units: Seq(Unit), found: SUBSET Trade, locked: SUBSET Trade,
     closed: SUBSET Trade, opened: SUBSET Trade]

\* Each fill is assigned, or its unit is still to be reconstructed.
Awaited(mine, units) == \A fill \in mine : fill.trade \/ fill.unit \in ToSet(units)

Good(row) ==
    /\ row \in SessionRow
    /\ row.at # "start" => /\ row.up \in 1..MaxUploads /\ row.acct \in Account
                           /\ row.file \in File /\ row.n \in Nat \ {0}
    /\ row.at = "insert" => row.n <= Len(Rows[row.file])
    /\ row.at = "run" => row.units # <<>>
    /\ row.at = "commit" => row.units = <<>>
    /\ IsInjective(row.units)
    /\ Awaited(row.mine, row.units)

Tables ==
    /\ fills \subseteq Fill /\ open \subseteq Trade
    /\ records \subseteq File \X Account /\ uploads \in 0..MaxUploads

IInv ==
    /\ Tables
    /\ DOMAIN sess = Session /\ \A s \in Session : Good(sess[s])
    /\ NoFillLeftBehind

--------------------------------------------------------------------------------
(* The queue of units. *)

LEMMA UnitQueued ==
    ASSUME NEW units \in Seq(Unit), NEW u \in Unit, IsInjective(units)
    PROVE  /\ WithUnit(units, u) \in Seq(Unit) /\ IsInjective(WithUnit(units, u))
           /\ ToSet(WithUnit(units, u)) = ToSet(units) \cup {u}
  <1>1. CASE u \in ToSet(units)
        BY <1>1 DEF WithUnit
  <1>2. CASE u \notin ToSet(units)
    <2> DEFINE more == Append(units, u)
    <2>1. /\ more \in Seq(Unit) /\ DOMAIN more = 1..(Len(units) + 1)
          /\ DOMAIN units = 1..Len(units) /\ Len(units) \in Nat
          /\ \A i \in 1..Len(units) : more[i] = units[i]
          /\ more[Len(units) + 1] = u
          OBVIOUS
    <2> HIDE DEF more
    <2>2. \A i \in 1..Len(units) : units[i] # u
          BY <1>2, <2>1 DEF ToSet
    <2>3. IsInjective(more)
          BY <2>1, <2>2 DEF IsInjective
    <2>4. ToSet(more) = ToSet(units) \cup {u}
          BY <2>1 DEF ToSet
    <2>5. WithUnit(units, u) = more
          BY <1>2 DEF WithUnit, more
    <2> QED BY <2>1, <2>3, <2>4, <2>5
  <1> QED BY <1>1, <1>2

LEMMA UnitDone ==
    ASSUME NEW units \in Seq(Unit), units # <<>>, IsInjective(units)
    PROVE  /\ Tail(units) \in Seq(Unit) /\ IsInjective(Tail(units))
           /\ ToSet(units) = {Head(units)} \cup ToSet(Tail(units))
           /\ Head(units) \in Unit
  <1> DEFINE rest == Tail(units)
  <1>1. /\ rest \in Seq(Unit) /\ Head(units) \in Unit /\ Head(units) = units[1]
        /\ DOMAIN units = 1..Len(units) /\ Len(units) \in Nat \ {0}
        /\ DOMAIN rest = 1..(Len(units) - 1)
        /\ \A i \in 1..(Len(units) - 1) : rest[i] = units[i + 1]
        OBVIOUS
  <1> HIDE DEF rest
  <1>2. IsInjective(rest)
        BY <1>1 DEF IsInjective
  <1>3. ToSet(units) = {Head(units)} \cup ToSet(rest)
    <2>1. \A i \in DOMAIN units : i = 1 \/ (i - 1 \in DOMAIN rest /\ rest[i - 1] = units[i])
          BY <1>1
    <2>2. \A i \in DOMAIN rest : i + 1 \in DOMAIN units /\ rest[i] = units[i + 1]
          BY <1>1
    <2> QED BY <1>1, <2>1, <2>2 DEF ToSet
  <1> QED BY <1>1, <1>2, <1>3 DEF rest

--------------------------------------------------------------------------------
LEMMA EndedIsGood == Good(Ended)
  <1>1. <<>> \in Seq(Unit) /\ IsInjective(<<>>)
        BY DEF IsInjective
  <1> QED BY <1>1, ImportAssumption DEF Good, Ended, SessionRow, Awaited

LEMMA InitGood == Init => IInv
  BY EndedIsGood, ImportAssumption DEF Init, IInv, Tables, NoFillLeftBehind, Trade

\* A step of one session that leaves the tables alone.
LEMMA OneSession ==
    ASSUME IInv, NEW s \in Session, NEW row, Good(row), uploads' \in 0..MaxUploads,
           sess' = [sess EXCEPT ![s] = row], UNCHANGED tables
    PROVE  IInv'
  BY DEF IInv, Tables, NoFillLeftBehind, tables

LEMMA Rollbacks ==
    ASSUME IInv, NEW s \in Session, Rollback(s)
    PROVE  IInv'
  BY EndedIsGood, OneSession DEF Rollback, IInv, Tables

--------------------------------------------------------------------------------
(* The steps of an upload. *)

LEMMA UploadStep ==
    ASSUME IInv, NEW s \in Session, NEW f \in File, NEW a \in Account, Upload(s, f, a)
    PROVE  IInv'
  <1> DEFINE row == [Ended EXCEPT !.at = "check", !.up = uploads', !.acct = a, !.file = f, !.n = 1]
  <1>1. uploads' \in 1..MaxUploads /\ uploads' \in 0..MaxUploads
        BY ImportAssumption DEF Upload, IInv, Tables
  <1>2. Good(row)
    <2>1. Good(Ended) /\ Ended \in SessionRow
          BY EndedIsGood DEF Good
    <2>2. row \in SessionRow
          BY <1>1, <2>1 DEF SessionRow
    <2>3. /\ row.at = "check" /\ row.up = uploads' /\ row.acct = a /\ row.file = f /\ row.n = 1
          /\ row.units = Ended.units /\ row.mine = Ended.mine
          BY DEF Ended
    <2> HIDE DEF row
    <2> QED BY <1>1, <2>1, <2>2, <2>3 DEF Good
  <1>3. sess' = [sess EXCEPT ![s] = row] /\ UNCHANGED tables
        BY DEF Upload
  <1> HIDE DEF row
  <1> QED BY <1>1, <1>2, <1>3, OneSession

\* What the other steps have to start from.
LEMMA Current ==
    ASSUME IInv, NEW s \in Session
    PROVE  Good(sess[s]) /\ uploads \in 0..MaxUploads /\ s \in DOMAIN sess
  BY DEF IInv, Tables

LEMMA RowSteps ==
    ASSUME IInv, NEW s \in Session, CheckRow(s) \/ InsertRow(s)
    PROVE  IInv'
  <1> DEFINE old == sess[s]
             next == Rows[old.file][old.n]
  <1>1. Good(old)
        BY Current
  <1>2. CASE CheckRow(s) /\ FillExists(s, CurrentRow(s).bid)
    <2> DEFINE row == [old EXCEPT !.n = @ + 1]
    <2>1. old.at = "check" /\ sess' = [sess EXCEPT ![s] = row] /\ UNCHANGED <<tables, uploads>>
          BY <1>2 DEF CheckRow
    <2>2. Good(row)
          BY <1>1, <2>1 DEF Good, SessionRow
    <2> HIDE DEF row
    <2> QED BY <2>1, <2>2, OneSession, Current
  <1>3. CASE CheckRow(s) /\ ~FillExists(s, CurrentRow(s).bid)
    <2> DEFINE row == [old EXCEPT !.at = "insert"]
    <2>1. /\ old.at = "check" /\ old.n <= Len(Rows[old.file])
          /\ sess' = [sess EXCEPT ![s] = row] /\ UNCHANGED <<tables, uploads>>
          BY <1>3 DEF CheckRow, RowsLeft
    <2>2. Good(row)
          BY <1>1, <2>1 DEF Good, SessionRow
    <2> HIDE DEF row
    <2> QED BY <2>1, <2>2, OneSession, Current
  <1>4. CASE InsertRow(s)
    <2> DEFINE new == [acct |-> old.acct, bid |-> next.bid, unit |-> next.unit,
                       trade |-> FALSE, up |-> old.up, n |-> old.n]
               row == [old EXCEPT !.at = "check", !.n = @ + 1, !.mine = @ \cup {new},
                                  !.units = WithUnit(@, next.unit)]
    <2>1. old.at = "insert" /\ sess' = [sess EXCEPT ![s] = row] /\ UNCHANGED <<tables, uploads>>
          BY <1>4 DEF InsertRow, CurrentRow
    <2>2. next \in Row
          BY <1>1, <2>1, ImportAssumption DEF Good, SessionRow
    <2>3. new \in Fill /\ new.unit = next.unit
          BY <1>1, <2>1, <2>2 DEF Good, SessionRow, Fill, Row
    <2>4. /\ WithUnit(old.units, next.unit) \in Seq(Unit)
          /\ IsInjective(WithUnit(old.units, next.unit))
          /\ ToSet(WithUnit(old.units, next.unit)) = ToSet(old.units) \cup {next.unit}
          BY <1>1, <2>2, UnitQueued DEF Good, SessionRow, Row
    <2>5. Awaited(old.mine \cup {new}, WithUnit(old.units, next.unit))
          BY <1>1, <2>3, <2>4 DEF Good, Awaited
    <2> HIDE DEF new, next
    <2>6. row \in SessionRow
      <3>1. old \in SessionRow /\ old.mine \cup {new} \in SUBSET Fill /\ old.n + 1 \in Nat
            BY <1>1, <2>3 DEF Good, SessionRow
      <3> QED BY <2>4, <3>1 DEF SessionRow
    <2>7. /\ row.at = "check" /\ row.up = old.up /\ row.acct = old.acct /\ row.file = old.file
          /\ row.n = old.n + 1 /\ row.mine = old.mine \cup {new}
          /\ row.units = WithUnit(old.units, next.unit)
          BY <1>1 DEF Good, SessionRow
    <2>8. Good(row)
      <3> HIDE DEF row
      <3> QED BY <1>1, <2>1, <2>4, <2>5, <2>6, <2>7 DEF Good
    <2> HIDE DEF row
    <2> QED BY <2>1, <2>8, OneSession, Current
  <1> QED BY <1>2, <1>3, <1>4

\* A run assigns the fills of the unit it takes from the queue.
LEMMA UnitSteps ==
    ASSUME IInv, NEW s \in Session, ScanUnit(s) \/ RunUnit(s)
    PROVE  IInv'
  <1> DEFINE old == sess[s]
  <1>1. Good(old)
        BY Current
  <1>2. CASE ScanUnit(s)
    <2> DEFINE row == [old EXCEPT !.at = "run", !.found = OpenIn(old.acct, Head(old.units))]
    <2>1. /\ old.at = "check" /\ old.units # <<>>
          /\ sess' = [sess EXCEPT ![s] = row] /\ UNCHANGED <<tables, uploads>>
          BY <1>2 DEF ScanUnit
    <2>2. OpenIn(old.acct, Head(old.units)) \subseteq Trade
          BY DEF OpenIn, IInv, Tables
    <2>3. Good(row)
          BY <1>1, <2>1, <2>2 DEF Good, SessionRow
    <2> HIDE DEF row
    <2> QED BY <2>1, <2>3, OneSession, Current
  <1>3. CASE RunUnit(s)
    <2> DEFINE u == Head(old.units)
               held == old.found \cap open
               new == [acct |-> old.acct, unit |-> u, by |-> old.up]
    <2>1. old.at = "run" /\ UNCHANGED <<tables, uploads>>
          BY <1>3 DEF RunUnit
    <2>2. /\ old.units \in Seq(Unit) /\ old.units # <<>> /\ IsInjective(old.units)
          /\ old.up \in 1..MaxUploads /\ old.acct \in Account
          BY <1>1, <2>1 DEF Good, SessionRow
    <2>3. /\ Tail(old.units) \in Seq(Unit) /\ IsInjective(Tail(old.units))
          /\ ToSet(old.units) = {u} \cup ToSet(Tail(old.units))
          /\ u \in Unit
          BY <2>2, UnitDone
    <2>4. new \in Trade
          BY <2>2, <2>3 DEF Trade
    <2> HIDE DEF u
    <2>5. Assigned(old.mine, u) \subseteq Fill
      <3>1. old.mine \subseteq Fill
            BY <1>1 DEF Good, SessionRow
      <3>2. \A fill \in Fill : [fill EXCEPT !.trade = TRUE] \in Fill
            BY DEF Fill
      <3> QED BY <3>1, <3>2 DEF Assigned
    <2>6. Awaited(Assigned(old.mine, u), Tail(old.units))
      <3> SUFFICES ASSUME NEW fill \in old.mine
                   PROVE  IF fill.unit = u
                          THEN [fill EXCEPT !.trade = TRUE].trade
                          ELSE fill.trade \/ fill.unit \in ToSet(Tail(old.units))
          BY <1>1 DEF Good, SessionRow, Fill, Awaited, Assigned
      <3> QED BY <1>1, <2>3 DEF Good, SessionRow, Fill, Awaited
    <2>7. PICK closes \in SUBSET held, opens \in SUBSET {new} :
             sess' = [sess EXCEPT ![s].at = "check", ![s].units = Tail(@), ![s].found = {},
                                  ![s].locked = @ \cup held, ![s].mine = Assigned(@, u),
                                  ![s].closed = @ \cup closes, ![s].opened = @ \cup opens]
          BY <1>3, Zenon DEF RunUnit, u
    <2> DEFINE row == [old EXCEPT !.at = "check", !.units = Tail(@), !.found = {},
                                  !.locked = @ \cup held, !.mine = Assigned(@, u),
                                  !.closed = @ \cup closes, !.opened = @ \cup opens]
    <2>8. held \subseteq Trade /\ closes \subseteq Trade /\ opens \subseteq Trade
          BY <1>1, <2>4 DEF Good, SessionRow
    <2> HIDE DEF held, new
    <2>9. sess' = [sess EXCEPT ![s] = row]
          BY <2>7
    <2>10. row \in SessionRow
          BY <1>1, <2>3, <2>5, <2>8 DEF Good, SessionRow
    <2>11. /\ row.at = "check" /\ row.up = old.up /\ row.acct = old.acct /\ row.file = old.file
           /\ row.n = old.n /\ row.mine = Assigned(old.mine, u) /\ row.units = Tail(old.units)
          BY <1>1 DEF Good, SessionRow
    <2> HIDE DEF row
    <2>12. Good(row)
          BY <1>1, <2>1, <2>3, <2>6, <2>10, <2>11 DEF Good
    <2> QED BY <2>1, <2>9, <2>12, OneSession, Current
  <1> QED BY <1>2, <1>3

\* At the record no unit is left, so every fill is assigned.
LEMMA LastSteps ==
    ASSUME IInv, NEW s \in Session, WriteRecord(s) \/ Commit(s)
    PROVE  IInv'
  <1> DEFINE old == sess[s]
  <1>1. Good(old)
        BY Current
  <1>2. CASE WriteRecord(s)
    <2> DEFINE row == [old EXCEPT !.at = "commit"]
    <2>1. /\ old.at = "check" /\ old.units = <<>>
          /\ sess' = [sess EXCEPT ![s] = row] /\ UNCHANGED <<tables, uploads>>
          BY <1>2 DEF WriteRecord
    <2>2. Good(row)
          BY <1>1, <2>1 DEF Good, SessionRow
    <2> HIDE DEF row
    <2> QED BY <2>1, <2>2, OneSession, Current
  <1>3. CASE Commit(s)
    <2>1. old.at = "commit"
          BY <1>3 DEF Commit
    <2>2. /\ old.units = <<>> /\ old.file \in File /\ old.acct \in Account
          /\ old.mine \subseteq Fill /\ old.opened \subseteq Trade
          BY <1>1, <2>1 DEF Good, SessionRow
    <2>3. ToSet(old.units) = {}
          BY <2>2 DEF ToSet
    <2>4. \A fill \in old.mine : fill.trade
          BY <1>1, <2>3 DEF Good, Awaited
    <2>5. NoFillLeftBehind'
          BY <1>3, <2>4 DEF Commit, IInv, NoFillLeftBehind
    <2>6. Tables'
          BY <1>3, <2>2 DEF Commit, IInv, Tables
    <2>7. DOMAIN sess' = Session /\ \A r \in Session : Good(sess'[r])
          BY <1>3, EndedIsGood DEF Commit, IInv
    <2> QED BY <2>5, <2>6, <2>7 DEF IInv
  <1> QED BY <1>2, <1>3

LEMMA NextGood == IInv /\ [Next]_vars => IInv'
  <1> SUFFICES ASSUME IInv, [Next]_vars PROVE IInv'
      OBVIOUS
  <1>1. CASE UNCHANGED vars
        BY <1>1 DEF vars, tables, IInv, Tables, NoFillLeftBehind
  <1>2. ASSUME NEW s \in Session, NEW f \in File, NEW a \in Account, Upload(s, f, a)
        PROVE  IInv'
        BY <1>2, UploadStep
  <1>3. ASSUME NEW s \in Session, Advance(s) \/ Abort(s)
        PROVE  IInv'
        BY <1>3, RowSteps, UnitSteps, LastSteps, Rollbacks
           DEF Advance, Abort, RowClash, RunFails, DuplicateImport, DeadlockVictim
  <1> QED BY <1>1, <1>2, <1>3 DEF Next

\* The rows of the tables and of each upload are of their kind, and a unit waits
\* for its run once, whatever the files.
THEOREM ImportTypes == Spec => []TypeOK
  <1>1. IInv => TypeOK
    <2> SUFFICES ASSUME IInv PROVE TypeOK
        OBVIOUS
    <2>1. ASSUME NEW s \in Session
          PROVE  ToSet(sess[s].units) \subseteq Unit
          BY DEF IInv, Good, SessionRow, ToSet
    <2> QED BY <2>1 DEF IInv, Tables, Good, SessionRow, TypeOK
  <1> QED BY <1>1, InitGood, NextGood, PTL DEF Spec

\* Every fill an import commits is on a trade, however many units its file has,
\* in whatever order, and whatever was skipped, retried or overtaken.
THEOREM NothingLeftBehind == Spec => []NoFillLeftBehind
  <1>1. IInv => NoFillLeftBehind
        BY DEF IInv
  <1> QED BY <1>1, InitGood, NextGood, PTL DEF Spec

--------------------------------------------------------------------------------
(* The import of files implements ImportLedger: whatever files, accounts   *)
(* and overlapping uploads there are, a commit adds what its file reports  *)
(* and is not there, once, and nothing else changes the books.             *)

\* The ids a file reports.
Bids(f) == {row.bid : row \in ToSet(Rows[f])}

\* What an upload has inserted comes from its file and goes to its account, and
\* the rows it has passed are in the book it will leave, with what it adds.
Faithful(row, book) ==
    /\ \A fill \in row.mine : /\ row.at # "start" /\ fill.acct = row.acct
                              /\ fill.bid \in Bids(row.file)
    /\ row.at # "start" =>
          \A i \in DOMAIN Rows[row.file] :
              i < row.n => \E fill \in book \cup row.mine :
                               fill.acct = row.acct /\ fill.bid = Rows[row.file][i].bid
    /\ row.at = "insert" => \A fill \in row.mine : fill.bid # Rows[row.file][row.n].bid
    /\ row.at \in {"run", "commit"} => Len(Rows[row.file]) < row.n

\* An execution has one fill, in the book or in one upload.
OncePerBid(mine) == \A f, g \in mine : f.bid = g.bid => f = g

Apart(mine, others) == \A f \in mine, g \in others : f.bid # g.bid

LInv ==
    /\ IInv
    /\ OncePerBid(fills)
    /\ \A s \in Session : /\ Faithful(sess[s], fills)
                          /\ OncePerBid(sess[s].mine) /\ Apart(sess[s].mine, fills)
                          /\ sess[s].at = "commit" => <<sess[s].file, sess[s].acct>> \notin records
    /\ \A s, r \in Session : s # r =>
          /\ Apart(sess[s].mine, sess[r].mine)
          /\ sess[s].at = "commit" /\ sess[r].at = "commit" =>
                <<sess[s].file, sess[s].acct>> # <<sess[r].file, sess[r].acct>>

--------------------------------------------------------------------------------
LEMMA EndedIsFaithful == Faithful(Ended, fills) /\ Ended.mine = {} /\ Ended.at = "start"
  BY DEF Faithful, Ended

LEMMA InitLedger == Init => LInv
  BY InitGood, EndedIsFaithful DEF Init, LInv, OncePerBid, Apart

\* A step of one upload that commits nothing.
LEMMA OneUpload ==
    ASSUME LInv, IInv', NEW s \in Session, NEW row, sess' = [sess EXCEPT ![s] = row],
           UNCHANGED <<fills, records>>, Faithful(row, fills),
           OncePerBid(row.mine), Apart(row.mine, fills),
           \A r \in Session \ {s} : Apart(row.mine, sess[r].mine),
           row.at = "commit" =>
              /\ <<row.file, row.acct>> \notin records
              /\ \A r \in Session \ {s} : sess[r].at = "commit" =>
                    <<sess[r].file, sess[r].acct>> # <<row.file, row.acct>>
    PROVE  LInv'
  <1>1. DOMAIN sess = Session
        BY DEF LInv, IInv
  <1>2. sess'[s] = row /\ \A r \in Session \ {s} : sess'[r] = sess[r]
        BY <1>1
  <1>3. \A r \in Session \ {s} : Apart(sess[r].mine, row.mine)
        BY DEF Apart
  <1>4. OncePerBid(fills)'
        BY DEF LInv, OncePerBid
  <1>5. ASSUME NEW r \in Session
        PROVE  /\ Faithful(sess'[r], fills')
               /\ OncePerBid(sess'[r].mine) /\ Apart(sess'[r].mine, fills')
               /\ sess'[r].at = "commit" => <<sess'[r].file, sess'[r].acct>> \notin records'
    <2>1. CASE r = s
          BY <1>2, <2>1
    <2>2. CASE r # s
          BY <1>2, <2>2 DEF LInv
    <2> QED BY <2>1, <2>2
  <1>6. ASSUME NEW q \in Session, NEW r \in Session, q # r
        PROVE  /\ Apart(sess'[q].mine, sess'[r].mine)
               /\ sess'[q].at = "commit" /\ sess'[r].at = "commit" =>
                     <<sess'[q].file, sess'[q].acct>> # <<sess'[r].file, sess'[r].acct>>
    <2>1. CASE q = s
          BY <1>2, <1>6, <2>1
    <2>2. CASE r = s
          BY <1>2, <1>3, <1>6, <2>2
    <2>3. CASE q # s /\ r # s
          BY <1>2, <1>6, <2>3 DEF LInv
    <2> QED BY <2>1, <2>2, <2>3
  <1> QED BY <1>4, <1>5, <1>6 DEF LInv, Faithful, OncePerBid, Apart, Bids

\* ... and inserts nothing.
LEMMA NothingInserted ==
    ASSUME LInv, IInv', NEW s \in Session, NEW row, sess' = [sess EXCEPT ![s] = row],
           UNCHANGED <<fills, records>>, Faithful(row, fills),
           row.mine = sess[s].mine, row.at # "commit"
    PROVE  LInv'
  BY OneUpload DEF LInv

LEMMA RollbackKeeps ==
    ASSUME LInv, IInv', NEW s \in Session, Rollback(s)
    PROVE  LInv'
  BY OneUpload, EndedIsFaithful DEF Rollback, tables, OncePerBid, Apart

LEMMA UploadKeeps ==
    ASSUME LInv, IInv', NEW s \in Session, NEW f \in File, NEW a \in Account, Upload(s, f, a)
    PROVE  LInv'
  <1> DEFINE row == [Ended EXCEPT !.at = "check", !.up = uploads', !.acct = a, !.file = f, !.n = 1]
  <1>1. row.at = "check" /\ row.mine = {} /\ row.n = 1 /\ row.file = f /\ row.acct = a
        BY DEF Ended
  <1>2. sess' = [sess EXCEPT ![s] = row] /\ UNCHANGED <<fills, records>>
        BY DEF Upload, tables
  <1>3. \A i \in DOMAIN Rows[f] : ~(i < 1)
        BY ImportAssumption
  <1> HIDE DEF row
  <1>4. Faithful(row, fills)
        BY <1>1, <1>3 DEF Faithful
  <1>5. /\ OncePerBid(row.mine) /\ Apart(row.mine, fills)
        /\ \A r \in Session \ {s} : Apart(row.mine, sess[r].mine)
        BY <1>1 DEF OncePerBid, Apart
  <1> QED BY <1>1, <1>2, <1>4, <1>5, OneUpload

--------------------------------------------------------------------------------
(* The rows *)

\* A row that is passed over is in the book, or among what the upload adds.
LEMMA CheckKeeps ==
    ASSUME LInv, IInv', NEW s \in Session, CheckRow(s)
    PROVE  LInv'
  <1> DEFINE old == sess[s]
             bid == Rows[old.file][old.n].bid
  <1>1. Good(old) /\ Faithful(old, fills) /\ s \in DOMAIN sess
        BY Current DEF LInv
  <1>2. /\ old.at = "check" /\ old.n <= Len(Rows[old.file]) /\ UNCHANGED <<fills, records>>
        /\ old.n \in Nat \ {0} /\ DOMAIN Rows[old.file] = 1..Len(Rows[old.file])
        BY <1>1, ImportAssumption DEF CheckRow, RowsLeft, tables, Good
  <1>3. CASE FillExists(s, CurrentRow(s).bid)
    <2> DEFINE row == [old EXCEPT !.n = @ + 1]
    <2>1. sess' = [sess EXCEPT ![s] = row]
          BY <1>3 DEF CheckRow
    <2>2. /\ row.at = "check" /\ row.acct = old.acct /\ row.file = old.file
          /\ row.n = old.n + 1 /\ row.mine = old.mine
          BY <1>1, <1>2 DEF Good, SessionRow
    <2>3. \E fill \in fills \cup old.mine : fill.acct = old.acct /\ fill.bid = bid
          BY <1>3 DEF FillExists, CurrentRow
    <2> HIDE DEF row
    <2>4. \A i \in DOMAIN Rows[old.file] : i < old.n + 1 => i < old.n \/ i = old.n
          BY <1>2
    <2>5. Faithful(row, fills)
          BY <1>1, <1>2, <2>2, <2>3, <2>4 DEF Faithful
    <2> QED BY <1>2, <2>1, <2>2, <2>5, NothingInserted
  <1>4. CASE ~FillExists(s, CurrentRow(s).bid)
    <2> DEFINE row == [old EXCEPT !.at = "insert"]
    <2>1. sess' = [sess EXCEPT ![s] = row]
          BY <1>4 DEF CheckRow
    <2>2. /\ row.at = "insert" /\ row.acct = old.acct /\ row.file = old.file
          /\ row.n = old.n /\ row.mine = old.mine
          BY <1>1 DEF Good, SessionRow
    <2>3. \A fill \in old.mine : fill.bid # bid
          BY <1>1, <1>4 DEF FillExists, CurrentRow, Faithful
    <2> HIDE DEF row
    <2>4. Faithful(row, fills)
          BY <1>1, <1>2, <2>2, <2>3 DEF Faithful
    <2> QED BY <1>2, <2>1, <2>2, <2>4, NothingInserted
  <1> QED BY <1>3, <1>4

\* The id is free: no other upload has it, no account has it, and the upload
\* itself looked before, one step ago.
LEMMA InsertKeeps ==
    ASSUME LInv, IInv', NEW s \in Session, InsertRow(s)
    PROVE  LInv'
  <1> DEFINE old == sess[s]
             next == Rows[old.file][old.n]
             new == [acct |-> old.acct, bid |-> next.bid, unit |-> next.unit,
                     trade |-> FALSE, up |-> old.up, n |-> old.n]
             row == [old EXCEPT !.at = "check", !.n = @ + 1, !.mine = @ \cup {new},
                                !.units = WithUnit(@, next.unit)]
  <1>1. Good(old) /\ Faithful(old, fills) /\ OncePerBid(old.mine) /\ Apart(old.mine, fills)
        BY Current DEF LInv
  <1>2. /\ old.at = "insert" /\ sess' = [sess EXCEPT ![s] = row]
        /\ UNCHANGED <<fills, records>>
        BY DEF InsertRow, CurrentRow, tables
  <1>3. /\ \A fill \in fills : fill.bid # next.bid
        /\ \A r \in Session \ {s} : \A fill \in sess[r].mine : fill.bid # next.bid
        BY DEF InsertRow, CurrentRow, FillTaken, SameFillPending
  <1>4. \A fill \in old.mine : fill.bid # next.bid
        BY <1>1, <1>2 DEF Faithful
  <1>5. /\ old.n \in Nat \ {0} /\ old.n \in DOMAIN Rows[old.file]
        /\ DOMAIN Rows[old.file] = 1..Len(Rows[old.file])
        BY <1>1, <1>2, ImportAssumption DEF Good
  <1>6. next.bid \in Bids(old.file)
        BY <1>5 DEF Bids, ToSet
  <1>7. new.bid = next.bid /\ new.acct = old.acct
        OBVIOUS
  <1> HIDE DEF new, next
  <1>8. /\ row.at = "check" /\ row.acct = old.acct /\ row.file = old.file
        /\ row.n = old.n + 1 /\ row.mine = old.mine \cup {new}
        BY <1>1 DEF Good, SessionRow
  <1> HIDE DEF row
  <1>9. \A i \in DOMAIN Rows[old.file] : i < old.n + 1 => i < old.n \/ i = old.n
        BY <1>5
  <1>10. \A i \in DOMAIN Rows[old.file] :
            i < row.n => \E fill \in fills \cup row.mine :
                             fill.acct = row.acct /\ fill.bid = Rows[old.file][i].bid
    <2> SUFFICES ASSUME NEW i \in DOMAIN Rows[old.file], i < row.n
                 PROVE  \E fill \in fills \cup row.mine :
                             fill.acct = row.acct /\ fill.bid = Rows[old.file][i].bid
        OBVIOUS
    <2>1. CASE i < old.n
          BY <1>1, <1>2, <1>8, <2>1 DEF Faithful
    <2>2. CASE i = old.n
          BY <1>7, <1>8, <2>2 DEF next
    <2> QED BY <1>8, <1>9, <2>1, <2>2
  <1>11. Faithful(row, fills)
         BY <1>1, <1>6, <1>7, <1>8, <1>10 DEF Faithful
  <1>12. OncePerBid(row.mine)
         BY <1>1, <1>4, <1>7, <1>8 DEF OncePerBid
  <1>13. Apart(row.mine, fills)
         BY <1>1, <1>3, <1>7, <1>8 DEF Apart
  <1>14. \A r \in Session \ {s} : Apart(row.mine, sess[r].mine)
         BY <1>3, <1>7, <1>8 DEF Apart, LInv
  <1> QED BY <1>2, <1>8, <1>11, <1>12, <1>13, <1>14, OneUpload

--------------------------------------------------------------------------------
(* The units, and the record *)

\* A run changes nothing of a fill but its trade.
LEMMA AssignedAreTheSame ==
    ASSUME NEW mine, mine \subseteq Fill, NEW u
    PROVE  /\ \A f \in Assigned(mine, u) : \E g \in mine : f.acct = g.acct /\ f.bid = g.bid
           /\ \A g \in mine : \E f \in Assigned(mine, u) : f.acct = g.acct /\ f.bid = g.bid
           /\ OncePerBid(mine) => OncePerBid(Assigned(mine, u))
  <1> DEFINE After(g) == IF g.unit = u THEN [g EXCEPT !.trade = TRUE] ELSE g
  <1>1. \A g \in mine : After(g).acct = g.acct /\ After(g).bid = g.bid
        BY DEF Fill
  <1>2. Assigned(mine, u) = {After(g) : g \in mine}
        BY DEF Assigned
  <1> HIDE DEF After
  <1> QED BY <1>1, <1>2 DEF OncePerBid

LEMMA UnitKeeps ==
    ASSUME LInv, IInv', NEW s \in Session, ScanUnit(s) \/ RunUnit(s)
    PROVE  LInv'
  <1> DEFINE old == sess[s]
  <1>1. /\ Good(old) /\ Faithful(old, fills) /\ OncePerBid(old.mine) /\ Apart(old.mine, fills)
        /\ \A r \in Session \ {s} : Apart(old.mine, sess[r].mine)
        BY Current DEF LInv
  <1>2. CASE ScanUnit(s)
    <2> DEFINE row == [old EXCEPT !.at = "run", !.found = OpenIn(old.acct, Head(old.units))]
    <2>1. /\ old.at = "check" /\ ~(old.n <= Len(Rows[old.file]))
          /\ sess' = [sess EXCEPT ![s] = row] /\ UNCHANGED <<fills, records>>
          BY <1>2 DEF ScanUnit, RowsLeft, tables
    <2>2. /\ row.at = "run" /\ row.acct = old.acct /\ row.file = old.file
          /\ row.n = old.n /\ row.mine = old.mine
          BY <1>1 DEF Good, SessionRow
    <2>3. Len(Rows[old.file]) \in Nat /\ old.n \in Nat
          BY <1>1, <2>1, ImportAssumption DEF Good
    <2> HIDE DEF row
    <2>4. Faithful(row, fills)
          BY <1>1, <2>1, <2>2, <2>3 DEF Faithful
    <2> QED BY <2>1, <2>2, <2>4, NothingInserted
  <1>3. CASE RunUnit(s)
    <2> DEFINE u == Head(old.units)
               held == old.found \cap open
               new == [acct |-> old.acct, unit |-> u, by |-> old.up]
    <2>1. old.at = "run" /\ UNCHANGED <<fills, records>>
          BY <1>3 DEF RunUnit, tables
    <2>2. PICK closes \in SUBSET held, opens \in SUBSET {new} :
             sess' = [sess EXCEPT ![s].at = "check", ![s].units = Tail(@), ![s].found = {},
                                  ![s].locked = @ \cup held, ![s].mine = Assigned(@, u),
                                  ![s].closed = @ \cup closes, ![s].opened = @ \cup opens]
          BY <1>3, Zenon DEF RunUnit
    <2> HIDE DEF held, new, u
    <2> DEFINE row == [old EXCEPT !.at = "check", !.units = Tail(@), !.found = {},
                                  !.locked = @ \cup held, !.mine = Assigned(@, u),
                                  !.closed = @ \cup closes, !.opened = @ \cup opens]
    <2>3. sess' = [sess EXCEPT ![s] = row]
          BY <2>2
    <2>4. /\ row.at = "check" /\ row.acct = old.acct /\ row.file = old.file
          /\ row.n = old.n /\ row.mine = Assigned(old.mine, u)
          BY <1>1 DEF Good, SessionRow
    <2> HIDE DEF row
    <2>5. old.mine \subseteq Fill
          BY <1>1 DEF Good, SessionRow
    <2>6. /\ \A f \in row.mine : \E g \in old.mine : f.acct = g.acct /\ f.bid = g.bid
          /\ \A g \in old.mine : \E f \in row.mine : f.acct = g.acct /\ f.bid = g.bid
          /\ OncePerBid(row.mine)
          BY <1>1, <2>4, <2>5, AssignedAreTheSame
    <2>7. Faithful(row, fills)
      <3>1. \A i \in DOMAIN Rows[old.file] :
               i < old.n => \E fill \in fills \cup row.mine :
                                fill.acct = old.acct /\ fill.bid = Rows[old.file][i].bid
            BY <1>1, <2>1, <2>6 DEF Faithful
      <3>2. \A fill \in row.mine : fill.acct = old.acct /\ fill.bid \in Bids(old.file)
            BY <1>1, <2>6 DEF Faithful
      <3> QED BY <2>4, <3>1, <3>2 DEF Faithful
    <2>8. Apart(row.mine, fills) /\ \A r \in Session \ {s} : Apart(row.mine, sess[r].mine)
          BY <1>1, <2>6 DEF Apart
    <2> QED BY <2>1, <2>3, <2>4, <2>6, <2>7, <2>8, OneUpload
  <1> QED BY <1>2, <1>3

\* The unique key of the record lets one upload of a file and account write it.
LEMMA RecordKeeps ==
    ASSUME LInv, IInv', NEW s \in Session, WriteRecord(s)
    PROVE  LInv'
  <1> DEFINE old == sess[s]
             row == [old EXCEPT !.at = "commit"]
  <1>1. /\ Good(old) /\ Faithful(old, fills) /\ OncePerBid(old.mine) /\ Apart(old.mine, fills)
        /\ \A r \in Session \ {s} : Apart(old.mine, sess[r].mine)
        BY Current DEF LInv
  <1>2. /\ old.at = "check" /\ ~(old.n <= Len(Rows[old.file]))
        /\ <<old.file, old.acct>> \notin records
        /\ sess' = [sess EXCEPT ![s] = row] /\ UNCHANGED <<fills, records>>
        BY DEF WriteRecord, RowsLeft, tables
  <1>3. /\ row.at = "commit" /\ row.acct = old.acct /\ row.file = old.file
        /\ row.n = old.n /\ row.mine = old.mine
        BY <1>1 DEF Good, SessionRow
  <1>4. Len(Rows[old.file]) \in Nat /\ old.n \in Nat
        BY <1>1, <1>2, ImportAssumption DEF Good
  <1> HIDE DEF row
  <1>5. Faithful(row, fills)
        BY <1>1, <1>2, <1>3, <1>4 DEF Faithful
  <1>6. \A r \in Session \ {s} : sess[r].at = "commit" =>
            <<sess[r].file, sess[r].acct>> # <<row.file, row.acct>>
        BY <1>3 DEF WriteRecord, RecordPending
  <1> QED BY <1>1, <1>2, <1>3, <1>5, <1>6, OneUpload

--------------------------------------------------------------------------------
(* The commit *)

LEMMA CommitKeeps ==
    ASSUME LInv, IInv', NEW s \in Session, Commit(s)
    PROVE  LInv'
  <1> DEFINE old == sess[s]
  <1>1. /\ Faithful(old, fills) /\ OncePerBid(old.mine) /\ Apart(old.mine, fills)
        /\ OncePerBid(fills) /\ DOMAIN sess = Session
        BY DEF LInv, IInv
  <1>2. /\ fills' = fills \cup old.mine /\ records' = records \cup {<<old.file, old.acct>>}
        /\ sess'[s] = Ended /\ \A r \in Session \ {s} : sess'[r] = sess[r]
        /\ old.at = "commit"
        BY <1>1 DEF Commit
  <1>3. OncePerBid(fills)'
    <2> SUFFICES ASSUME NEW f \in fills \cup old.mine, NEW g \in fills \cup old.mine,
                        f.bid = g.bid
                 PROVE  f = g
        BY <1>2 DEF OncePerBid
    <2> QED BY <1>1 DEF OncePerBid, Apart
  <1>4. ASSUME NEW r \in Session
        PROVE  /\ Faithful(sess'[r], fills')
               /\ OncePerBid(sess'[r].mine) /\ Apart(sess'[r].mine, fills')
               /\ sess'[r].at = "commit" => <<sess'[r].file, sess'[r].acct>> \notin records'
    <2>1. CASE r = s
          BY <1>2, <2>1 DEF Ended, Faithful, OncePerBid, Apart
    <2>2. CASE r # s
      <3>1. /\ Faithful(sess[r], fills) /\ OncePerBid(sess[r].mine)
            /\ Apart(sess[r].mine, fills) /\ Apart(sess[r].mine, old.mine)
            /\ sess[r].at = "commit" =>
                  /\ <<sess[r].file, sess[r].acct>> \notin records
                  /\ <<sess[r].file, sess[r].acct>> # <<old.file, old.acct>>
            BY <1>2, <2>2 DEF LInv
      <3>2. Faithful(sess[r], fills')
            BY <1>2, <3>1 DEF Faithful
      <3>3. Apart(sess[r].mine, fills')
            BY <1>2, <3>1 DEF Apart
      <3> QED BY <1>2, <2>2, <3>1, <3>2, <3>3
    <2> QED BY <2>1, <2>2
  <1>5. ASSUME NEW q \in Session, NEW r \in Session, q # r
        PROVE  /\ Apart(sess'[q].mine, sess'[r].mine)
               /\ sess'[q].at = "commit" /\ sess'[r].at = "commit" =>
                     <<sess'[q].file, sess'[q].acct>> # <<sess'[r].file, sess'[r].acct>>
    <2>1. CASE q = s \/ r = s
          BY <1>2, <1>5, <2>1 DEF Ended, Apart
    <2>2. CASE q # s /\ r # s
          BY <1>2, <1>5, <2>2 DEF LInv
    <2> QED BY <2>1, <2>2
  <1> QED BY <1>3, <1>4, <1>5 DEF LInv, Faithful, OncePerBid, Apart, Bids

LEMMA NextKeeps == LInv /\ [Next]_vars => LInv'
  <1> SUFFICES ASSUME LInv, [Next]_vars PROVE LInv'
      OBVIOUS
  <1>1. IInv'
        BY NextGood DEF LInv
  <1>2. CASE UNCHANGED vars
        BY <1>1, <1>2 DEF vars, tables, LInv, Faithful, OncePerBid, Apart, Bids
  <1>3. ASSUME NEW s \in Session, NEW f \in File, NEW a \in Account, Upload(s, f, a)
        PROVE  LInv'
        BY <1>1, <1>3, UploadKeeps
  <1>4. ASSUME NEW s \in Session, Advance(s) \/ Abort(s)
        PROVE  LInv'
        BY <1>1, <1>4, CheckKeeps, InsertKeeps, UnitKeeps, RecordKeeps, CommitKeeps, RollbackKeeps
           DEF Advance, Abort, RowClash, RunFails, DuplicateImport, DeadlockVictim
  <1> QED BY <1>2, <1>3, <1>4 DEF Next

--------------------------------------------------------------------------------
(* The refinement *)

Booked(a, b) == {fill \in fills : fill.acct = a /\ fill.bid = b}

Book == [a \in Account |-> [b \in BrokerId |-> Cardinality(Booked(a, b))]]

Reported == [f \in File |-> Bids(f)]

LEMMA InitImplements == Init => Ledger!LedgerInit
  <1> SUFFICES ASSUME Init PROVE Book = [a \in Account |-> [b \in BrokerId |-> 0]]
      BY DEF Init, Ledger!LedgerInit, Book, Booked
  <1>1. \A a \in Account, b \in BrokerId : Booked(a, b) = {}
        BY DEF Init, Booked
  <1> QED BY <1>1, FS_EmptySet DEF Book

\* A commit brings each reported execution of its account to one, whether it was
\* there or is new, and leaves all others.
LEMMA CommitImplements ==
    ASSUME LInv, NEW s \in Session, Commit(s)
    PROVE  Ledger!LedgerNext
  <1> DEFINE old == sess[s]
  <1> SUFFICES ASSUME NEW f, f = old.file, NEW a, a = old.acct
               PROVE  Ledger!LedgerNext
      OBVIOUS
  <1>1. /\ Good(old) /\ Faithful(old, fills) /\ OncePerBid(fills)
        /\ OncePerBid(old.mine) /\ Apart(old.mine, fills) /\ <<f, a>> \notin records
        BY Current DEF LInv, Commit
  <1>2. /\ old.at = "commit" /\ fills' = fills \cup old.mine
        /\ records' = records \cup {<<f, a>>}
        BY DEF Commit
  <1>3. /\ f \in File /\ a \in Account /\ old.n \in Nat
        /\ Len(Rows[f]) < old.n
        /\ Len(Rows[f]) \in Nat /\ DOMAIN Rows[f] = 1..Len(Rows[f])
        /\ \A i \in DOMAIN Rows[f] : Rows[f][i] \in Row
        BY <1>1, <1>2, ImportAssumption DEF Good, Faithful
  <1>4. ASSUME NEW b \in Bids(f) PROVE Cardinality(Booked(a, b)') = 1
    <2>1. PICK i \in DOMAIN Rows[f] : b = Rows[f][i].bid
          BY DEF Bids, ToSet
    <2>2. i < old.n
          BY <1>3
    <2>3. PICK fill \in fills \cup old.mine : fill.acct = a /\ fill.bid = b
          BY <1>1, <1>2, <2>1, <2>2 DEF Faithful
    <2>4. \A g \in fills \cup old.mine : g.bid = b => g = fill
          BY <1>1, <2>3 DEF OncePerBid, Apart
    <2>5. Booked(a, b)' = {fill}
          BY <1>2, <2>3, <2>4 DEF Booked
    <2> QED BY <2>5, FS_Singleton
  <1>5. ASSUME NEW c \in Account, NEW b \in BrokerId, c # a \/ b \notin Bids(f)
        PROVE  Booked(c, b)' = Booked(c, b)
        BY <1>1, <1>2, <1>5 DEF Booked, Faithful
  <1>6. Book' = [Book EXCEPT ![a] = [b \in BrokerId |-> IF b \in Reported[f] THEN 1 ELSE @[b]]]
        BY <1>3, <1>4, <1>5 DEF Book, Reported
  <1>7. Ledger!Import(f, a)
        BY <1>1, <1>2, <1>6 DEF Ledger!Import, Book, Booked, Reported, Bids
  <1> QED BY <1>3, <1>7 DEF Ledger!LedgerNext

\* However uploads overlap, fail, wait for each other and are sent again, for any
\* files: each import goes into its account as a whole and once.
THEOREM ImportsImplementLedger == Spec => ImplementsLedger
  <1>1. LInv /\ [Next]_vars => [Ledger!LedgerNext]_(Ledger!lvars)
    <2> SUFFICES ASSUME LInv, [Next]_vars,
                        ~ UNCHANGED <<fills, records>>
                 PROVE  Ledger!LedgerNext
        BY DEF Ledger!lvars
    <2>1. ASSUME NEW s \in Session, ~Commit(s), Advance(s) \/ Abort(s)
          PROVE  FALSE
          BY <2>1 DEF Advance, Abort, Rollback, RowClash, RunFails, DuplicateImport,
             DeadlockVictim, CheckRow, InsertRow, ScanUnit, RunUnit, WriteRecord, tables
    <2>2. ASSUME NEW s \in Session, NEW f \in File, NEW a \in Account, Upload(s, f, a)
          PROVE  FALSE
          BY <2>2 DEF Upload, tables
    <2>3. \E s \in Session : Commit(s)
          BY <2>1, <2>2 DEF Next, vars, tables
    <2> QED BY <2>3, CommitImplements
  <1> QED BY <1>1, InitImplements, InitLedger, NextKeeps, PTL
          DEF Spec, ImplementsLedger, Ledger!LedgerSpec
================================================================================
