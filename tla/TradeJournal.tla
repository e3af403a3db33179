------------------------------ MODULE TradeJournal ------------------------------
(***************************************************************************)
(* One trade of one user with the rows that hang off it: its P&L row, its  *)
(* journal entry with the audit log of that entry, and the screenshots     *)
(* attached to it.  Requests overlap; each is one transaction at READ      *)
(* COMMITTED, split where another transaction may get in between: its      *)
(* writes are its own until it commits, an UPDATE or a unique key another  *)
(* transaction has written is waited for, and a later SELECT sees what was *)
(* committed meanwhile.                                                    *)
(*   application/pnl_service.py, application/journal/service.py,           *)
(*   application/trade_service.py (the planned stop), api/v1/journal.py    *)
(*                                                                         *)
(* The engine's run over the fills is one step (Reconstruction has it fill *)
(* by fill).  A partial exit changes nothing that is read here and is left *)
(* out: an exit closes the trade at its price.                             *)
(***************************************************************************)
EXTENDS Charges, Sequences, FiniteSetsExt

CONSTANTS
    Session,             \* requests under way at one time
    Editors,             \* those of them that may save the journal entry
    Writers,             \* those that may bring fills to the trade or delete it
    Uploaders,           \* those that may handle attachments
    Price, Stop, Date,   \* prices of fills, planned stops, trade dates
    MaxQty,              \* bound: the quantity a trade grows to
    Note, Places,        \* texts of the notes; decimals a price is sent with
    MaxAudit,            \* bound: rows of the audit log when a save begins
    Migrations,          \* the charge schedules each release adds, in order
    Attachment, Size,    \* attachment ids and file sizes
    MaxBytes, TradeQuota, UserQuota, OtherBytes  \* limits; bytes on other trades

ASSUME JournalAssumption ==
    /\ Editors \subseteq Session /\ Writers \subseteq Session /\ Uploaders \subseteq Session
    /\ Price \subseteq Nat \ {0} /\ Stop \subseteq Nat \ {0} /\ Date \subseteq Nat
    /\ Size \subseteq Nat \ {0} /\ {MaxBytes, TradeQuota, UserQuota, OtherBytes} \subseteq Nat
    /\ MaxQty \in Nat \ {0} /\ MaxAudit \in Nat /\ Places \subseteq Nat
    /\ Attachment \cap {"trade", "pnl", "entry"} = {}

\* The CHECK constraint on the brokerage columns.
ASSUME MigrationsAssumption ==
    /\ Migrations \in Seq(SUBSET {cs \in ChargeScheduleRow : BrokerageColumns(cs)})
    /\ Migrations # <<>>

\* journal_attachments.
AttachmentRow == [status: {"PENDING", "CONFIRMED", "EXPIRED", "REJECTED"},
                  byte_size: Size, deleted: BOOLEAN]

\* trades, journal_entries, trade_pnl.
TradeRow == [status: {"OPEN", "CLOSED"}, direction: {"LONG", "SHORT"}, trade_date: Date,
             average_entry: Nat, total_entry_quantity: Nat, average_exit: Nat \cup {NULL},
             planned_stop: Stop \cup {NULL}, planned_risk_amount: Nat \cup {NULL},
             is_deleted: BOOLEAN, broker: Brokers, manual: BOOLEAN,
             trade_type: TradeTypes, exchange_segment: Segments]

EntryRow == [planned_stop: Stop \cup {NULL}, notes: Note \cup {NULL},
             planned_risk_amount: Nat \cup {NULL}]

PnlRow == [gross_pnl: Int, net_pnl: Int, total_charges: Int, charges: [Components -> Nat],
           r_multiple: Int \cup {NULL}, schedule: Brokers \X TradeTypes \X Segments \X Nat]

\* str() of a value in the audit log.
TextRow == [value: Stop \cup Note, places: Nat]

ASSUME NullAssumption ==
    /\ NULL \notin Attachment \cup Session \cup Stop \cup Note \cup Nat
    /\ NULL \notin AttachmentRow /\ NULL \notin TradeRow /\ NULL \notin EntryRow
    /\ NULL \notin PnlRow /\ NULL \notin TextRow /\ NULL \notin ChargeScheduleRow

VARIABLES
    trade,     \* the row of trades, or NULL
    pnl,       \* its row of trade_pnl, or NULL
    entry,     \* its row of journal_entries, or NULL
    audit,     \* journal_audit_log of that entry
    atts,      \* journal_attachments
    schedules, \* charge_schedules
    object,    \* external: the object store, the size of each object or NULL
    sent,      \* external: the sizes the browser has uploaded for each attachment
    age,       \* external: how long ago each attachment was presigned
    lock,      \* which session has written each row and not yet ended
    sess       \* what each session holds

tables   == <<trade, pnl, entry, audit, atts>>
external == <<object, sent, age>>
vars     == <<tables, schedules, external, lock, sess>>

Row == {"trade", "pnl", "entry"} \cup Attachment

\* What a transaction has written: whole rows, and the audit rows it adds.
NothingWritten == [trade |-> NULL, pnl |-> NULL, entry |-> NULL, audit |-> <<>>,
                   att |-> NULL, row |-> NULL]

\* at: what comes next.  req: the request.  seen: what it has read and kept.
Idle == [at |-> "idle", req |-> NULL, seen |-> NULL, own |-> NothingWritten]

Init ==
    /\ trade = NULL /\ pnl = NULL /\ entry = NULL /\ audit = <<>>
    /\ atts = [a \in Attachment |-> NULL]
    /\ schedules = Migrations[1]
    /\ object = [a \in Attachment |-> NULL]
    /\ sent = [a \in Attachment |-> {}]
    /\ age = [a \in Attachment |-> 0]
    /\ lock = [r \in Row |-> NULL]
    /\ sess = [s \in Session |-> Idle]

-----------------------------------------------------------------------------
(* Transactions *)

Or(x, y) == IF x # NULL THEN x ELSE y

\* A session sees its own rows before the committed ones.
TradeOf(s) == Or(sess[s].own.trade, trade)
PnlOf(s)   == Or(sess[s].own.pnl, pnl)
EntryOf(s) == Or(sess[s].own.entry, entry)

Free(s, r) == lock[r] \in {NULL, s}
Released(s) == [r \in Row |-> IF lock[r] = s THEN NULL ELSE lock[r]]

Goto(s, at) == sess' = [sess EXCEPT ![s].at = at]

Rollback(s) ==
    /\ sess' = [sess EXCEPT ![s] = Idle]
    /\ lock' = Released(s)
    /\ UNCHANGED <<tables, schedules, external>>

\* The connection is lost, or the process is.
Fail(s) == sess[s].at # "idle" /\ Rollback(s)

\* A new row, or the columns an UPDATE sets.
\* Mutation: the columns an UPDATE does not name are lost.
WrittenAnew(row, old) == row
Written(row, old) ==
    IF old = NULL THEN row
    ELSE [c \in DOMAIN old |-> IF c \in DOMAIN row THEN row[c] ELSE old[c]]

Commit(s) ==
    LET own == sess[s].own IN
    /\ sess[s].at = "commit"
    /\ trade' = Or(own.trade, trade)
    /\ pnl' = Or(own.pnl, pnl)
    /\ entry' = Or(own.entry, entry)
    /\ audit' = audit \o own.audit
    /\ atts' = [a \in Attachment |-> IF a = own.att THEN Written(own.row, atts[a]) ELSE atts[a]]
    /\ sess' = [sess EXCEPT ![s] = Idle]
    /\ lock' = Released(s)
    /\ UNCHANGED <<schedules, external>>

\* A release migrates the database before the new process takes requests.
Deploy ==
    /\ \A s \in Session : sess[s].at = "idle"
    /\ \E i \in 2..Len(Migrations) :
          /\ schedules = UNION {Migrations[j] : j \in 1..i - 1}
          /\ schedules' = schedules \cup Migrations[i]
    /\ UNCHANGED <<tables, external, lock, sess>>

-----------------------------------------------------------------------------
(* P&L *)

\* The journal's copy of the risk comes first, the trade's own is the fallback.
\* Mutation: the trade's own comes first.
PlannedRiskOfTradeFirst(s, tr) ==
    LET e == EntryOf(s) IN
    IF tr.planned_risk_amount # NULL THEN tr.planned_risk_amount
    ELSE IF e # NULL THEN e.planned_risk_amount ELSE NULL

get_planned_risk(s, tr) ==
    LET e == EntryOf(s) IN
    IF e # NULL /\ e.planned_risk_amount # NULL THEN e.planned_risk_amount
    ELSE tr.planned_risk_amount

\* The P&L row for a trade, NULL if it is not closed or has no charge schedule.
calculate_and_store(s, tr) ==
    LET cs == get_for_date(schedules, tr) IN
    IF tr.status # "CLOSED" \/ cs = NULL THEN NULL
    ELSE compute_pnl(tr, get_planned_risk(s, tr), cs)

-----------------------------------------------------------------------------
(* Requests that change the trade *)

Fills == [side: {"ENTRY", "EXIT"}, price: Price]

\* The fills of one request for this trade; nothing comes after its close.
Batches == {b \in UNION {[1..n -> Fills] : n \in 0..MaxQty} :
               \A i \in DOMAIN b : b[i].side = "EXIT" => i = Len(b)}

Entries(batch) == Len(SelectSeq(batch, LAMBDA f : f.side = "ENTRY"))
Fits(batch) ==
    Entries(batch) + (IF trade = NULL THEN 0 ELSE trade.total_entry_quantity) <= MaxQty

Requests ==
    [kind: {"create"}, batch: Batches \ {<<>>}, planned_stop: Stop \cup {NULL}]
    \cup [kind: {"add_fill"}, batch: {b \in Batches : Len(b) = 1}]
    \cup [kind: {"import"}, batch: Batches]

NewTrade(kind, direction, date, price) ==
    [status |-> "OPEN", direction |-> direction, trade_date |-> date,
     average_entry |-> price, total_entry_quantity |-> 1, average_exit |-> NULL,
     planned_stop |-> NULL, planned_risk_amount |-> NULL, is_deleted |-> FALSE,
     broker |-> IF kind = "import" THEN "ZERODHA" ELSE "MANUAL", manual |-> kind # "import",
     trade_type |-> "MIS", exchange_segment |-> "NSE_EQ"]

WithFill(tr, f) ==
    IF f.side = "EXIT" THEN [tr EXCEPT !.status = "CLOSED", !.average_exit = f.price]
    ELSE LET q == tr.total_entry_quantity
         IN  [tr EXCEPT !.total_entry_quantity = q + 1,
                        !.average_entry = RoundHalfUp(tr.average_entry * q + f.price, q + 1)]

\* The trade after the loop over the fills of a batch.
WithFills(tr, batch) ==
    LET after[n \in 0..Len(batch)] ==
            IF n = 0 THEN tr ELSE WithFill(after[n - 1], batch[n])
    IN  after[Len(batch)]

\* What the engine makes of a batch: fills join the open trade, or open one.
Outcomes(kind, batch) ==
    CASE batch = <<>> -> {NULL}
      [] batch # <<>> /\ trade = NULL ->
            {WithFills(NewTrade(kind, direction, date, batch[1].price), Tail(batch)) :
                direction \in {"LONG", "SHORT"}, date \in Date}
      [] OTHER -> {WithFills([trade EXCEPT !.manual = @ /\ kind # "import"], batch)}

\* The stop given with a new trade, or the one an added fill finds on the row.
PlannedStop(req) ==
    CASE req.kind = "create"   -> req.planned_stop
      [] req.kind = "add_fill" -> trade.planned_stop
      [] OTHER -> NULL

WrongSide(tr, stop) ==
    IF tr.direction = "LONG" THEN stop >= tr.average_entry ELSE stop <= tr.average_entry

RiskOf(tr, stop) == Abs(tr.average_entry - stop) * tr.total_entry_quantity

\* The stop on the row, and its risk at the average the engine has left there.
Planned(tr, stop) ==
    IF stop = NULL THEN tr
    ELSE [tr EXCEPT !.planned_stop = stop, !.planned_risk_amount = RiskOf(tr, stop)]

Holding(tr, row, at) == [Idle EXCEPT !.at = at, !.own.trade = tr, !.own.pnl = row]

\* create_trade, add_fill, an import: the engine runs over the batch, and
\* stores the P&L of a trade it closes; the planned risk is written after that,
\* and a stop on the wrong side of the average rolls the request back.
Run(s) ==
    /\ s \in Writers /\ sess[s].at = "idle" /\ lock["trade"] = NULL
    /\ \E req \in Requests :
        /\ Fits(req.batch)
        /\ trade = NULL => req.kind # "add_fill" /\ (req.batch # <<>> => req.batch[1].side = "ENTRY")
        /\ trade # NULL /\ req.batch # <<>> => trade.status = "OPEN" /\ ~trade.is_deleted
        /\ \E tr \in Outcomes(req.kind, req.batch) :
            LET row == IF tr = NULL THEN NULL ELSE calculate_and_store(s, tr)
                stop == PlannedStop(req)
                backfills == req.kind = "import" \/ tr.status = "CLOSED"
            IN  /\ stop # NULL => ~WrongSide(tr, stop)
                /\ sess' = [sess EXCEPT ![s] =
                       Holding(Planned(tr, stop), row, IF backfills THEN "backfill" ELSE "commit")]
                /\ lock' = [lock EXCEPT !["trade"] = IF tr = NULL THEN @ ELSE s,
                                        !["pnl"] = IF row = NULL THEN @ ELSE s]
    /\ UNCHANGED <<tables, schedules, external>>

\* A trade of the user that is closed, not deleted and without a P&L row.
LacksPnl(s) ==
    /\ TradeOf(s) # NULL /\ TradeOf(s).status = "CLOSED" /\ ~TradeOf(s).is_deleted
    /\ PnlOf(s) = NULL

\* backfill_all_closed reads, and computes.
Backfill(s) ==
    LET row == IF LacksPnl(s) THEN calculate_and_store(s, TradeOf(s)) ELSE NULL IN
    /\ sess[s].at = "backfill"
    /\ sess' = [sess EXCEPT ![s].at = IF row = NULL THEN "commit" ELSE "store",
                            ![s].seen = row]
    /\ UNCHANGED <<tables, schedules, external, lock>>

\* INSERT .. ON CONFLICT (trade_id) DO UPDATE: it waits for the key, and then
\* writes every column.
Store(s) ==
    /\ sess[s].at = "store" /\ Free(s, "pnl")
    /\ lock' = [lock EXCEPT !["pnl"] = s]
    /\ sess' = [sess EXCEPT ![s].at = "commit", ![s].own.pnl = sess[s].seen, ![s].seen = NULL]
    /\ UNCHANGED <<tables, schedules, external>>

\* soft_delete_trade: all of its fills must be manual.
Delete(s) ==
    /\ s \in Writers /\ sess[s].at = "idle" /\ lock["trade"] = NULL
    /\ trade # NULL /\ ~trade.is_deleted /\ trade.manual
    /\ sess' = [sess EXCEPT ![s] =
           [Idle EXCEPT !.at = "commit", !.own.trade = [trade EXCEPT !.is_deleted = TRUE]]]
    /\ lock' = [lock EXCEPT !["trade"] = s]
    /\ UNCHANGED <<tables, schedules, external>>

-----------------------------------------------------------------------------
(* Saving the journal entry *)

\* The fields of an entry; Places is how many decimals a price is sent with.
JournalEntryWrite == [planned_stop: Stop \cup {NULL}, places: Places, notes: Note \cup {NULL}]

\* str() of a value: a price read from its NUMERIC(18,4) column has 4 decimals.
Text(value, places) == IF value = NULL THEN NULL ELSE [value |-> value, places |-> places]

AuditRow(field, old, new) == [field_name |-> field, previous_value |-> old, new_value |-> new]

\* _diff_for_audit: one row per field whose text differs.
\* Mutation: a field that is cleared is taken to be left alone.
DiffOfSetField(field, old, new) ==
    IF old = new \/ new = NULL THEN <<>> ELSE <<AuditRow(field, old, new)>>

DiffOfField(field, old, new) ==
    IF old = new THEN <<>> ELSE <<AuditRow(field, old, new)>>

DiffForAudit(was, data) ==
    DiffOfField("planned_stop", Text(was.planned_stop, 4), Text(data.planned_stop, data.places))
    \o DiffOfField("notes", Text(was.notes, 0), Text(data.notes, 0))

BlankEntry == [planned_stop |-> NULL, notes |-> NULL, planned_risk_amount |-> NULL]

\* The row an upsert writes; the risk is that of the trade as it was read.
EntryFrom(data, tr) ==
    [planned_stop |-> data.planned_stop, notes |-> data.notes,
     planned_risk_amount |->
        IF data.planned_stop = NULL THEN NULL ELSE RiskOf(tr, data.planned_stop)]

Visible == trade # NULL /\ ~trade.is_deleted

\* upsert_entry reads the trade and the entry as they are committed.
ReadForUpsert(s) ==
    /\ s \in Editors /\ sess[s].at = "idle" /\ Visible /\ Len(audit) < MaxAudit
    /\ \E data \in JournalEntryWrite :
          sess' = [sess EXCEPT ![s] = [Idle EXCEPT !.at = "write", !.req = data,
                      !.seen = [was |-> entry, now |-> EntryFrom(data, trade)]]]
    /\ UNCHANGED <<tables, schedules, external, lock>>

\* ... and inserts the entry, or updates it and appends the audit rows.
WriteEntry(s) ==
    LET was == sess[s].seen.was IN
    /\ sess[s].at = "write" /\ Free(s, "entry")
    /\ was = NULL => entry = NULL
    /\ lock' = [lock EXCEPT !["entry"] = s]
    /\ sess' = [sess EXCEPT ![s].at = "r_multiple", ![s].own.entry = sess[s].seen.now,
                   ![s].req = NULL, ![s].seen = NULL,
                   ![s].own.audit = IF was = NULL THEN <<>> ELSE DiffForAudit(was, sess[s].req)]
    /\ UNCHANGED <<tables, schedules, external>>

\* recalculate_r_multiple, when there is a P&L row and the stop was given.
Recalculate(s) ==
    /\ sess[s].at = "r_multiple"
    /\ \/ /\ pnl # NULL /\ sess[s].own.entry.planned_stop # NULL
          /\ Free(s, "pnl") /\ lock' = [lock EXCEPT !["pnl"] = s]
          /\ sess' = [sess EXCEPT ![s].at = "commit",
                ![s].own.pnl = [pnl EXCEPT !.r_multiple =
                    compute_r_multiple(pnl.net_pnl, get_planned_risk(s, trade))]]
       \/ /\ pnl = NULL \/ sess[s].own.entry.planned_stop = NULL
          /\ Goto(s, "commit") /\ UNCHANGED lock
    /\ UNCHANGED <<tables, schedules, external>>

\* IntegrityError: another transaction has created the entry meanwhile.
EntryExists(s) ==
    /\ sess[s].at \in {"write", "presign"} /\ sess[s].seen.was = NULL
    /\ Free(s, "entry") /\ entry # NULL
    /\ Rollback(s)

-----------------------------------------------------------------------------
(* Attachments *)

PendingRow(n) == [status |-> "PENDING", byte_size |-> n, deleted |-> FALSE]

Live(a) == atts[a] # NULL /\ atts[a].status = "CONFIRMED" /\ ~atts[a].deleted

sum_confirmed_bytes_for_trade ==
    MapThenSumSet(LAMBDA a : atts[a].byte_size, {a \in Attachment : Live(a)})
sum_confirmed_bytes_for_user == OtherBytes + sum_confirmed_bytes_for_trade

\* Ids drawn by requests under way.
Drawn == {sess[s].own.att : s \in Session} \cup {sess[s].req : s \in Session}

\* presign_attachment: the checks.  What fails them changes nothing.
Presign(s) ==
    /\ s \in Uploaders /\ sess[s].at = "idle" /\ Visible
    /\ \E a \in Attachment, n \in Size :
        /\ atts[a] = NULL /\ a \notin Drawn
        /\ n <= MaxBytes
        /\ sum_confirmed_bytes_for_trade + n <= TradeQuota
        /\ sum_confirmed_bytes_for_user + n <= UserQuota
        /\ sess' = [sess EXCEPT ![s] = [Idle EXCEPT !.at = "presign", !.req = a,
                        !.seen = [was |-> entry, row |-> PendingRow(n)]]]
    /\ UNCHANGED <<tables, schedules, external, lock>>

\* ... the rows: a blank entry if the trade has none, and the PENDING attachment.
InsertPending(s) ==
    LET creates == sess[s].seen.was = NULL IN
    /\ sess[s].at = "presign"
    /\ creates => Free(s, "entry") /\ entry = NULL
    /\ lock' = IF creates THEN [lock EXCEPT !["entry"] = s] ELSE lock
    /\ sess' = [sess EXCEPT ![s].at = "commit", ![s].own.att = sess[s].req,
                   ![s].own.row = sess[s].seen.row, ![s].req = NULL, ![s].seen = NULL,
                   ![s].own.entry = IF creates THEN BlankEntry ELSE NULL]
    /\ UNCHANGED <<tables, schedules, external>>

\* External: while the URL is good it takes any number of uploads, of any size,
\* before or after the confirm; the last one is what the store holds.
Put(a) ==
    /\ atts[a] # NULL /\ age[a] = 0
    /\ \E n \in Size : /\ object' = [object EXCEPT ![a] = n]
                      /\ sent' = [sent EXCEPT ![a] = @ \cup {n}]
    /\ UNCHANGED <<tables, schedules, age, lock, sess>>

\* External: 15 minutes end the URL, 30 minutes the pending row.
Expired == 2
Wait(a) ==
    /\ atts[a] # NULL /\ age[a] < Expired
    /\ age' = [age EXCEPT ![a] = @ + 1]
    /\ UNCHANGED <<tables, schedules, object, sent, lock, sess>>

\* update_attachment_status sets the status and nothing else of the row read.
\* Mutation: the whole row is written back as it was read.
SettingWholeRow(read, status) == [read EXCEPT !.status = status]
Setting(read, status) == [status |-> status]

Update(s, a, status) ==
    /\ Free(s, a) /\ lock' = [lock EXCEPT ![a] = s]
    /\ sess' = [sess EXCEPT ![s].at = IF status = "CONFIRMED" THEN "commit" ELSE "raise",
                   ![s].own.att = a, ![s].own.row = Setting(sess[s].seen, status)]

\* confirm_attachment reads the pending row ...
Confirm(s) ==
    /\ s \in Uploaders /\ sess[s].at = "idle"
    /\ \E a \in Attachment :
        /\ atts[a] # NULL /\ atts[a].status = "PENDING"
        /\ sess' = [sess EXCEPT ![s] = [Idle EXCEPT !.req = a, !.seen = atts[a],
                        !.at = IF age[a] = Expired THEN "expire" ELSE "head"]]
    /\ UNCHANGED <<tables, schedules, external, lock>>

\* ... and asks the object store about the upload.
\* Mutation: an upload that cannot be found is let pass.
HeadAbsentOrSmall(s) ==
    LET a == sess[s].req IN
    /\ sess[s].at = "head" /\ (object[a] # NULL => object[a] <= MaxBytes)
    /\ Update(s, a, "CONFIRMED")
    /\ UNCHANGED <<tables, schedules, external>>

HeadFound(s) ==
    LET a == sess[s].req IN
    /\ sess[s].at = "head" /\ object[a] # NULL /\ object[a] <= MaxBytes
    /\ Update(s, a, "CONFIRMED")
    /\ UNCHANGED <<tables, schedules, external>>

HeadMissing(s) ==
    /\ sess[s].at = "head" /\ object[sess[s].req] = NULL
    /\ Update(s, sess[s].req, "REJECTED")
    /\ UNCHANGED <<tables, schedules, external>>

\* A file over the limit is deleted from the store, by a call of its own.
HeadTooLarge(s) ==
    LET a == sess[s].req IN
    /\ sess[s].at = "head" /\ object[a] # NULL /\ object[a] > MaxBytes
    /\ Goto(s, "discard")
    /\ UNCHANGED <<tables, schedules, external, lock>>

Discard(s) ==
    /\ sess[s].at = "discard"
    /\ object' = [object EXCEPT ![sess[s].req] = NULL]
    /\ Goto(s, "raise")
    /\ UNCHANGED <<tables, schedules, sent, age, lock>>

Expire(s) ==
    /\ sess[s].at = "expire"
    /\ Update(s, sess[s].req, "EXPIRED")
    /\ UNCHANGED <<tables, schedules, external>>

\* The route turns the error into a response and never commits.
Raise(s) == sess[s].at = "raise" /\ Rollback(s)

\* delete_attachment hides a confirmed attachment; the object stays.
DeleteAttachment(s) ==
    /\ s \in Uploaders /\ sess[s].at = "idle"
    /\ \E a \in Attachment :
        /\ Live(a) /\ Free(s, a)
        /\ lock' = [lock EXCEPT ![a] = s]
        /\ sess' = [sess EXCEPT ![s] = [Idle EXCEPT !.at = "commit", !.own.att = a,
                        !.own.row = [deleted |-> TRUE]]]
    /\ UNCHANGED <<tables, schedules, external>>

-----------------------------------------------------------------------------
TradeStep(s) == Run(s) \/ Backfill(s) \/ Store(s) \/ Delete(s)
EntryStep(s) == ReadForUpsert(s) \/ WriteEntry(s) \/ Recalculate(s) \/ EntryExists(s)
AttachmentStep(s) == Presign(s) \/ InsertPending(s) \/ Confirm(s) \/ HeadFound(s)
                     \/ HeadMissing(s) \/ HeadTooLarge(s) \/ Discard(s) \/ Expire(s)
                     \/ Raise(s) \/ DeleteAttachment(s)

Next ==
    \/ \E s \in Session : TradeStep(s) \/ EntryStep(s) \/ AttachmentStep(s)
                          \/ Commit(s) \/ Fail(s)
    \/ \E a \in Attachment : Put(a) \/ Wait(a)
    \/ Deploy

Spec == Init /\ [][Next]_vars

-----------------------------------------------------------------------------
(* Properties *)

\* Every table holds rows of its kind whichever columns were written by whom, and
\* every schedule row passes the CHECK on its brokerage columns; a session that
\* has written the trade or its P&L holds the lock of that row.
TypeOK ==
    /\ trade \in TradeRow \cup {NULL}
    /\ pnl \in PnlRow \cup {NULL}
    /\ entry \in EntryRow \cup {NULL}
    /\ atts \in [Attachment -> AttachmentRow \cup {NULL}]
    /\ \A cs \in schedules : cs \in ChargeScheduleRow /\ BrokerageColumns(cs)
    /\ \A r \in Row : lock[r] # NULL => sess[lock[r]].at # "idle"
    /\ \A s \in Session : (sess[s].own.trade # NULL => lock["trade"] = s)
                          /\ (sess[s].own.pnl # NULL => lock["pnl"] = s)

\* A P&L row belongs to a closed trade and is explained by it: its gross P&L is
\* that of the trade's averages, every charge is the statute's to within half a
\* unit per component under the schedule in force, and the parts add up.
PnlExplained ==
    pnl # NULL =>
        /\ trade.status = "CLOSED"
        /\ pnl.gross_pnl = compute_gross_pnl(trade)
        /\ pnl.net_pnl + pnl.total_charges = pnl.gross_pnl
        /\ pnl.total_charges = TotalCharges(pnl.charges)
        /\ \E cs \in schedules :
              /\ LookupKey(cs) = pnl.schedule
              /\ 2 * Abs(pnl.total_charges * RateScale * RateScale - ExactCharges(trade, cs))
                    <= Cardinality(Components) * RateScale * RateScale

\* A commit that closes the trade leaves it with its P&L whenever a schedule of
\* its broker, type and segment was in force on its date, however the request closed it.
ScheduledCloseHasPnl ==
    [][LET closes == /\ trade' # NULL /\ trade'.status = "CLOSED"
                     /\ trade = NULL \/ trade.status = "OPEN"
           known  == \E cs \in Candidates(schedules, trade') :
                     cs.effective_from <= trade'.trade_date
       IN  closes /\ known => pnl' # NULL]_vars

\* R is net P&L over the risk the journal holds.
InLine == pnl.r_multiple = compute_r_multiple(pnl.net_pnl, entry.planned_risk_amount)

\* A save past its look for a P&L row: it was not there, and may be by now.
LookedTooEarly(s) ==
    /\ sess[s].at = "commit" /\ sess[s].own.entry # NULL
    /\ sess[s].own.entry.planned_stop # NULL /\ sess[s].own.pnl = NULL

\* With one request on the trade at a time, and any number that save: once R agrees
\* with the journal, no import, deletion or save leaves it disagreeing, except a save
\* that removes the stop and one that looked for the P&L row before it was there.
RFollowsEdits ==
    [][pnl # NULL /\ entry # NULL /\ entry.planned_stop # NULL /\ InLine
        => InLine' \/ entry'.planned_stop = NULL \/ \E s \in Session : LookedTooEarly(s)]_vars

ValueOf(text) == IF text = NULL THEN NULL ELSE text.value

\* Rows i and j of the log are about one field, and none between them is.
Consecutive(i, j) ==
    /\ i < j /\ audit[i].field_name = audit[j].field_name
    /\ \A k \in i + 1 .. j - 1 : audit[k].field_name # audit[i].field_name

LastOfField(i) == \A j \in DOMAIN audit : ~Consecutive(i, j)

\* The audit log tells the whole story of an entry after its creation: each row
\* of a field starts where the one before it ended, and the last one ends at the
\* value the entry has now (docs/design/JOURNAL-API-SPEC.md:274).
AuditExplainsEntry ==
    \A i \in DOMAIN audit :
        /\ \A j \in DOMAIN audit : Consecutive(i, j) =>
              ValueOf(audit[j].previous_value) = ValueOf(audit[i].new_value)
        /\ LastOfField(i) => ValueOf(audit[i].new_value) = entry[audit[i].field_name]

\* Whatever the browser uploads and when, however often a confirm is retried: an
\* attachment is confirmed only if a file within the limit was uploaded for it, and
\* if no other kind was, its object is in the store for good.
ConfirmedUploaded ==
    \A a \in Attachment : atts[a] # NULL /\ atts[a].status = "CONFIRMED" =>
        /\ \E n \in sent[a] : n <= MaxBytes
        /\ (\A n \in sent[a] : n <= MaxBytes) => object[a] \in sent[a]

\* A confirmed attachment stays confirmed and a deleted one stays deleted, though
\* a second confirm that read it as PENDING may write after both.
DeletedStaysDeleted ==
    [][\A a \in Attachment : atts[a] # NULL =>
            /\ atts[a].status = "CONFIRMED" => atts'[a].status = "CONFIRMED"
            /\ atts[a].deleted => atts'[a].deleted]_vars

\* A trade entered with its stop and without a journal entry gets an R-multiple
\* when it is closed (docs/project-status/STEP-16-EXECUTION-PLAN.md:525).
PlannedStopGivesR ==
    pnl # NULL /\ entry = NULL /\ trade.planned_stop # NULL => pnl.r_multiple # NULL

\* The store "rejects uploads smaller than 1 byte or larger than 15 MB"
\* (docs/design/JOURNAL-API-SPEC.md:455), so no confirmed one is larger.
ConfirmedWithinLimit ==
    \A a \in Attachment : atts[a] # NULL /\ atts[a].status = "CONFIRMED" /\ object[a] # NULL
        => object[a] <= MaxBytes

\* A confirm that finds no upload leaves the attachment REJECTED
\* (docs/design/JOURNAL-API-SPEC.md:504).
MissingUploadIsRejected ==
    [][\A s \in Session : sess[s].own.row # NULL /\ sess[s].own.row.status = "REJECTED"
            /\ sess'[s].at = "idle" => atts'[sess[s].own.att].status = "REJECTED"]_vars
================================================================================
