--------------------------- MODULE ImportPipeline ---------------------------
(***************************************************************************)
(* Uploads of broker files that overlap, each one transaction at READ      *)
(* COMMITTED: fills and files already imported are looked up first, and    *)
(* unique indexes decide what two uploads both missed.                     *)
(*   application/import_service.py, repositories/fill_repo.py,             *)
(*   repositories/import_record_repo.py, api/v1/accounts.py                *)
(*                                                                         *)
(* A unit here is what the rows of one account are reconstructed by: an    *)
(* instrument and a product type.  Reconstruction and TradeSessions say    *)
(* what a run does to the trades of one unit; here a run may leave the     *)
(* trade it found open or closed, and may leave a new one open.  Rows that *)
(* do not parse are only counted by the code and are left out, instruments *)
(* exist, and the accounts are active.                                     *)
(***************************************************************************)
EXTENDS Integers, Sequences, SequencesExt, FiniteSets

Relations == INSTANCE Relation

CONSTANTS
    Session,    \* concurrent uploads
    Account,    \* accounts of one broker
    File,       \* files
    BrokerId,   \* trade ids the broker gives to executions
    Unit,       \* pairs of instrument and product type
    Rows,       \* the parsed rows of each file, in order
    ByHand,     \* open trades entered by hand before the first import
    MaxUploads, \* bound: uploads ever begun
    NULL

Row == [bid: BrokerId, unit: Unit]

ASSUME ImportAssumption ==
    /\ Rows \in [File -> Seq(Row)]
    /\ ByHand \subseteq [acct: Account, unit: Unit, by: {0}]
    /\ MaxUploads \in Nat

\* trade: the row has been assigned to a trade.  up, n: which row of which
\* upload it is, in place of its primary key.
Fill == [acct: Account, bid: BrokerId, unit: Unit, trade: BOOLEAN,
         up: 1..MaxUploads, n: Nat]

\* by: the upload that opened the trade.
Trade == [acct: Account, unit: Unit, by: 1..MaxUploads] \cup ByHand

VARIABLES
    fills,   \* committed execution_fills
    open,    \* committed trades that are open
    records, \* committed import_records: <<file, account>>
    uploads, \* number of uploads begun
    sess     \* what each upload's transaction holds

tables == <<fills, open, records>>
vars   == <<fills, open, records, uploads, sess>>

\* at: the step the upload is at.     n: the row it has come to.
\* mine: the fills it has inserted.   units: units still to be reconstructed.
\* found: the open trades its lookup has yet to lock.   locked: row locks.
\* closed, opened: what its runs have done to the trades.
Ended == [at |-> "start", up |-> 0, acct |-> NULL, file |-> NULL, n |-> 0,
          mine |-> {}, units |-> <<>>, found |-> {}, locked |-> {},
          closed |-> {}, opened |-> {}]

Init ==
    /\ fills = {}
    /\ open = ByHand
    /\ records = {}
    /\ uploads = 0
    /\ sess = [s \in Session |-> Ended]

Rollback(s) ==
    /\ sess' = [sess EXCEPT ![s] = Ended]
    /\ UNCHANGED <<tables, uploads>>

----------------------------------------------------------------------------
(* The rows of the file *)

\* Sessions are interchangeable: a request takes the first that is idle.
FirstIdle == CHOOSE s \in Session : sess[s].at = "start"

\* import_fills up to the loop: DuplicateImportError if the file is on record.
Upload(s, f, a) ==
    /\ sess[s].at = "start"
    /\ s = FirstIdle
    /\ uploads < MaxUploads
    /\ <<f, a>> \notin records
    /\ uploads' = uploads + 1
    /\ sess' = [sess EXCEPT ![s] = [Ended EXCEPT !.at = "check", !.up = uploads',
                                         !.acct = a, !.file = f, !.n = 1]]
    /\ UNCHANGED tables

RowsLeft(s) == sess[s].n <= Len(Rows[sess[s].file])

CurrentRow(s) == Rows[sess[s].file][sess[s].n]

\* Mutation: the account is left out of the lookup.
FillExistsAnywhere(s, bid) == \E fill \in fills \cup sess[s].mine : fill.bid = bid

\* fill_exists: committed fills, and the upload's own, which are flushed first.
FillExists(s, bid) ==
    \E fill \in fills \cup sess[s].mine : fill.bid = bid /\ fill.acct = sess[s].acct

CheckRow(s) ==
    /\ sess[s].at = "check"
    /\ RowsLeft(s)
    /\ sess' = IF FillExists(s, CurrentRow(s).bid)
               THEN [sess EXCEPT ![s].n = @ + 1]
               ELSE [sess EXCEPT ![s].at = "insert"]
    /\ UNCHANGED <<tables, uploads>>

\* Mutations: a unit is added again for each of its fills; only the first
\* unit of the file is kept.
WithUnitAgain(units, u) == Append(units, u)

WithFirstUnit(units, u) == IF units = <<>> THEN <<u>> ELSE units

\* seen_units: each unit once, in the order of the file.
WithUnit(units, u) == IF u \in ToSet(units) THEN units ELSE Append(units, u)

\* The uploads whose uncommitted fills the unique index makes s wait for.  One
\* of the two indexes (0002) is on the broker and its trade id, of any account.
SameFillPending(s, bid) ==
    {r \in Session \ {s} : \E fill \in sess[r].mine : fill.bid = bid}

FillTaken(bid) == \E fill \in fills : fill.bid = bid

\* insert_normalized_fill, as it is flushed before the next statement.
InsertRow(s) ==
    /\ sess[s].at = "insert"
    /\ SameFillPending(s, CurrentRow(s).bid) = {}
    /\ ~FillTaken(CurrentRow(s).bid)
    /\ LET row == CurrentRow(s)
           new == [acct |-> sess[s].acct, bid |-> row.bid, unit |-> row.unit,
                   trade |-> FALSE, up |-> sess[s].up, n |-> sess[s].n]
       IN  sess' = [sess EXCEPT ![s].at = "check",
                                ![s].n = @ + 1,
                                ![s].mine = @ \cup {new},
                                ![s].units = WithUnit(@, row.unit)]
    /\ UNCHANGED <<tables, uploads>>

\* Mutation: the row is looked up again and again instead of failing.
RowClashRetried(s) ==
    /\ sess[s].at = "insert"
    /\ SameFillPending(s, CurrentRow(s).bid) = {}
    /\ FillTaken(CurrentRow(s).bid)
    /\ sess' = [sess EXCEPT ![s].at = "check"]
    /\ UNCHANGED <<tables, uploads>>

\* IntegrityError, which nothing between the flush and get_db catches.
RowClash(s) ==
    /\ sess[s].at = "insert"
    /\ SameFillPending(s, CurrentRow(s).bid) = {}
    /\ FillTaken(CurrentRow(s).bid)
    /\ Rollback(s)

----------------------------------------------------------------------------
(* The units of the file, in turn *)

OpenIn(a, u) == {t \in open : t.acct = a /\ t.unit = u}

\* The snapshot of SELECT ... FOR UPDATE for the next unit.
ScanUnit(s) ==
    /\ sess[s].at = "check"
    /\ ~RowsLeft(s)
    /\ sess[s].units # <<>>
    /\ sess' = [sess EXCEPT ![s].at = "run",
                            ![s].found = OpenIn(sess[s].acct, Head(sess[s].units))]
    /\ UNCHANGED <<tables, uploads>>

TradePending(s) ==
    {r \in Session \ {s} : sess[r].locked \cap sess[s].found # {}}

\* Every row of the unit is assigned to a trade when the run ends.
Assigned(mine, u) ==
    {IF fill.unit = u THEN [fill EXCEPT !.trade = TRUE] ELSE fill : fill \in mine}

\* Wait for the trade found, keep it if it is still open, and run the engine
\* over the unit's fills: the trade stays open, or is closed and another one
\* may follow it; on a flat unit a new trade may be left open.
RunUnit(s) ==
    /\ sess[s].at = "run"
    /\ TradePending(s) = {}
    /\ LET u == Head(sess[s].units)
           held == sess[s].found \cap open
           new == [acct |-> sess[s].acct, unit |-> u, by |-> sess[s].up]
       IN  /\ Cardinality(held) <= 1
           /\ \E closes \in SUBSET held, opens \in SUBSET {new} :
                 /\ held # closes => opens = {}
                 /\ sess' = [sess EXCEPT ![s].at = "check",
                                         ![s].units = Tail(@),
                                         ![s].found = {},
                                         ![s].locked = @ \cup held,
                                         ![s].mine = Assigned(@, u),
                                         ![s].closed = @ \cup closes,
                                         ![s].opened = @ \cup opens]
    /\ UNCHANGED <<tables, uploads>>

\* MultipleResultsFound: the unit has two open trades.  E1 and E4 are Abort.
RunFails(s) ==
    /\ sess[s].at = "run"
    /\ TradePending(s) = {}
    /\ Cardinality(sess[s].found \cap open) > 1
    /\ Rollback(s)

----------------------------------------------------------------------------
(* The import record, and the end of the transaction *)

RecordPending(s) ==
    {r \in Session \ {s} : /\ sess[r].at = "commit"
                           /\ sess[r].file = sess[s].file
                           /\ sess[r].acct = sess[s].acct}

\* ImportRecordRepository.create.
WriteRecord(s) ==
    /\ sess[s].at = "check"
    /\ ~RowsLeft(s)
    /\ sess[s].units = <<>>
    /\ RecordPending(s) = {}
    /\ <<sess[s].file, sess[s].acct>> \notin records
    /\ sess' = [sess EXCEPT ![s].at = "commit"]
    /\ UNCHANGED <<tables, uploads>>

\* IntegrityError turned into DuplicateImportError.
DuplicateImport(s) ==
    /\ sess[s].at = "check"
    /\ ~RowsLeft(s)
    /\ sess[s].units = <<>>
    /\ <<sess[s].file, sess[s].acct>> \in records
    /\ Rollback(s)

Commit(s) ==
    /\ sess[s].at = "commit"
    /\ fills' = fills \cup sess[s].mine
    /\ open' = (open \ sess[s].closed) \cup sess[s].opened
    /\ records' = records \cup {<<sess[s].file, sess[s].acct>>}
    /\ sess' = [sess EXCEPT ![s] = Ended]
    /\ UNCHANGED uploads

\* Any other failure: E1 or E4 in a run, a lost connection, a crash.
Abort(s) ==
    /\ sess[s].at # "start"
    /\ Rollback(s)

\* Whom s waits for.
WaitsFor(s) ==
    CASE sess[s].at = "insert" -> SameFillPending(s, CurrentRow(s).bid)
      [] sess[s].at = "run" -> TradePending(s)
      [] sess[s].at = "check" /\ ~RowsLeft(s) /\ sess[s].units = <<>> -> RecordPending(s)
      [] OTHER -> {}

\* PostgreSQL aborts a transaction that waits, through others, for itself.
DeadlockVictim(s) ==
    /\ WaitsFor(s) # {}
    /\ Relations!TransitiveClosure(
           [p \in Session \X Session |-> p[2] \in WaitsFor(p[1])], Session)[s, s]
    /\ Rollback(s)

Advance(s) ==
    \/ CheckRow(s)
    \/ InsertRow(s)
    \/ RowClash(s)
    \/ ScanUnit(s)
    \/ RunUnit(s)
    \/ RunFails(s)
    \/ WriteRecord(s)
    \/ DuplicateImport(s)
    \/ Commit(s)
    \/ DeadlockVictim(s)

Next ==
    \E s \in Session :
        \/ \E f \in File, a \in Account : Upload(s, f, a)
        \/ Advance(s)
        \/ Abort(s)

Spec == Init /\ [][Next]_vars

\* Waits end in turn, as in TradeSessions.
Fairness == \A s \in Session : SF_vars(Advance(s))

FairSpec == Spec /\ Fairness
----------------------------------------------------------------------------
(* Properties *)

\* Rows have the types of their columns; a unit waits for its run once, and
\* only while it is not yet the turn of the record.
TypeOK ==
    /\ fills \subseteq Fill
    /\ open \subseteq Trade
    /\ records \subseteq File \X Account
    /\ uploads \in 0..MaxUploads
    /\ \A s \in Session :
          /\ sess[s].at \in {"start", "check", "insert", "run", "commit"}
          /\ sess[s].acct \in Account \cup {NULL} /\ sess[s].file \in File \cup {NULL}
          /\ sess[s].mine \subseteq Fill
          /\ ToSet(sess[s].units) \subseteq Unit /\ IsInjective(sess[s].units)
          /\ sess[s].found \cup sess[s].locked \cup sess[s].closed \subseteq Trade
          /\ sess[s].opened \subseteq Trade
          /\ sess[s].at = "commit" => sess[s].units = <<>>

\* Several units per file, several uploads per unit: whatever the order and the
\* overlaps, no committed fill has been passed over by the runs of its import.
NoFillLeftBehind == \A fill \in fills : fill.trade

\* However uploads overlap, fail, deadlock and are repeated, a file goes into
\* an account as a whole and once, with each of its executions once.
Ledger ==
    INSTANCE ImportLedger WITH
        Reported <- [f \in File |-> {row.bid : row \in ToSet(Rows[f])}],
        book <- [a \in Account |-> [b \in BrokerId |->
                    Cardinality({fill \in fills : fill.acct = a /\ fill.bid = b})]],
        done <- records

ImplementsLedger == Ledger!LedgerSpec

\* Uploads that wait for each other's fills, trades and records all end.
ImportsEnd == \A s \in Session : sess[s].at # "start" ~> sess[s].at = "start"

\* "Per-fill dedup key: (fill_id, account_id)" (NORMALIZED-FILL-CONTRACT.md:269):
\* a row is never refused because of a fill in another account.
KeyedByAccount ==
    \A s \in Session :
        sess[s].at = "insert" /\ FillTaken(CurrentRow(s).bid) =>
            FillExists(s, CurrentRow(s).bid)
=============================================================================
