------------------------------ MODULE JournalProofs ------------------------------
(***************************************************************************)
(* What TradeJournal promises, for any number of sessions, attachments,    *)
(* prices and rates.                                                       *)
(*                                                                         *)
(* None of it can be seen from the committed rows alone: a request may     *)
(* have read a row long ago and write it now.  Each invariant here says of *)
(* each request what it is about to write, and why that is still right:    *)
(*   IInv  an attachment it marks was uploaded, one it adds is its own;    *)
(*   JInv  a P&L row is that of the trade it sees, under its locks;        *)
(*   RInv  an R is that of the entry saved with it (one writer);           *)
(*   AInv  audit rows tell what its save changes (one editor).             *)
(***************************************************************************)
EXTENDS TradeJournal, FiniteSetTheorems, WellFoundedInduction, TLAPS

\* The records have the fields that are spoken of here.
Filled == /\ DOMAIN sess = Session
          /\ \A s \in Session : /\ {"at", "req", "seen", "own"} \subseteq DOMAIN sess[s]
                                /\ DOMAIN NothingWritten \subseteq DOMAIN sess[s].own

\* A good file came, and the store still has it unless a bad one came, too.
Uploaded(a) ==
    /\ \E n \in sent[a] : n <= MaxBytes
    /\ (\A n \in sent[a] : n <= MaxBytes) => object[a] \in sent[a]

NewRows == {PendingRow(n) : n \in Size}

\* What a session will write at its commit.
WritesRight(s) ==
    LET own == sess[s].own IN
    /\ own.att \in Attachment
    /\ \/ own.row \in NewRows /\ atts[own.att] = NULL
       \/ own.row = [status |-> "CONFIRMED"] /\ atts[own.att] # NULL /\ Uploaded(own.att)
       \/ own.row = [deleted |-> TRUE] /\ atts[own.att] # NULL

SessionRight(s) ==
    /\ sess[s].at = "presign" =>
          sess[s].req \in Attachment /\ atts[sess[s].req] = NULL /\ sess[s].seen.row \in NewRows
    /\ sess[s].at \in {"head", "expire", "discard"} =>
          sess[s].req \in Attachment /\ atts[sess[s].req] # NULL
    /\ sess[s].at = "discard" => \E n \in sent[sess[s].req] : n > MaxBytes
    /\ sess[s].own.att # NULL => sess[s].at \in {"commit", "raise"}
    /\ sess[s].own.att # NULL /\ sess[s].at = "commit" => WritesRight(s)

\* The session is going to insert the attachment.
Claims(s, a) ==
    \/ sess[s].at = "presign" /\ sess[s].req = a
    \/ sess[s].at = "commit" /\ sess[s].own.att = a /\ sess[s].own.row \in NewRows

IInv ==
    /\ Filled
    /\ atts \in [Attachment -> AttachmentRow \cup {NULL}]
    /\ object \in [Attachment -> Size \cup {NULL}]
    /\ sent \in [Attachment -> SUBSET Size]
    /\ \A a \in Attachment : object[a] # NULL => object[a] \in sent[a]
    /\ \A s \in Session : SessionRight(s)
    /\ \A s, t \in Session, a \in Attachment : Claims(s, a) /\ Claims(t, a) => s = t
    /\ \A a \in Attachment : atts[a] # NULL /\ atts[a].status = "CONFIRMED" => Uploaded(a)

LEMMA NewRowIsPending ==
    ASSUME NEW row \in NewRows
    PROVE  /\ row \in AttachmentRow /\ "status" \in DOMAIN row
           /\ row.status = "PENDING"
  <1>1. PICK n \in Size : row = [status |-> "PENDING", byte_size |-> n, deleted |-> FALSE]
        BY DEF NewRows, PendingRow
  <1> QED BY <1>1 DEF AttachmentRow

LEMMA InitRight == Init => IInv
  <1> SUFFICES ASSUME Init PROVE IInv
      OBVIOUS
  <1>1. Filled /\ \A s \in Session : SessionRight(s)
        BY DEF Init, Filled, Idle, NothingWritten, SessionRight
  <1>2. \A s \in Session, a \in Attachment : ~Claims(s, a)
        BY DEF Init, Claims, Idle
  <1> QED BY <1>1, <1>2 DEF Init, IInv

\* A step of one session that leaves the rows and the objects alone.
LEMMA SessionMoves ==
    ASSUME IInv, NEW s \in Session, UNCHANGED <<atts, object, sent>>, Filled',
           \A t \in Session \ {s} : sess'[t] = sess[t],
           SessionRight(s)',
           \A t \in Session \ {s}, a \in Attachment : Claims(s, a)' => ~Claims(t, a)
    PROVE  IInv'
  <1>1. \A t \in Session \ {s} : SessionRight(t)'
        BY DEF IInv, SessionRight, WritesRight, Uploaded
  <1>2. \A t \in Session \ {s}, a \in Attachment : Claims(t, a)' <=> Claims(t, a)
        BY DEF Claims
  <1>3. \A t, u \in Session, a \in Attachment : Claims(t, a)' /\ Claims(u, a)' => t = u
        BY <1>2 DEF IInv
  <1> QED BY <1>1, <1>3 DEF IInv, Uploaded

\* ... and after which the session is not concerned with an attachment.
LEMMA Unconcerned ==
    ASSUME IInv, NEW s \in Session, UNCHANGED <<atts, object, sent>>, Filled',
           \A t \in Session \ {s} : sess'[t] = sess[t],
           sess'[s].at \notin {"presign", "head", "expire", "discard"}, sess'[s].own.att = NULL
    PROVE  IInv'
  <1>1. SessionRight(s)'
        BY DEF SessionRight
  <1>2. \A a \in Attachment : ~Claims(s, a)'
        BY NullAssumption DEF Claims
  <1> QED BY <1>1, <1>2, SessionMoves

--------------------------------------------------------------------------------
(* The steps, each with what it makes of its session. *)

LEMMA RunHolds ==
    ASSUME NEW s \in Session, Run(s)
    PROVE  \E tr, row, at : /\ at \in {"backfill", "commit"}
                           /\ sess' = [sess EXCEPT ![s] = Holding(tr, row, at)]
  <1>1. \E req \in Requests : \E tr \in Outcomes(req.kind, req.batch) :
           sess' = [sess EXCEPT ![s] =
                       Holding(Planned(tr, PlannedStop(req)),
                               IF tr = NULL THEN NULL ELSE calculate_and_store(s, tr),
                               IF req.kind = "import" \/ tr.status = "CLOSED"
                               THEN "backfill" ELSE "commit")]
        BY Zenon DEF Run
  <1> QED BY <1>1

LEMMA TradeAndEntrySteps ==
    ASSUME IInv, NEW s \in Session,
           TradeStep(s) \/ EntryStep(s) \/ Raise(s) \/ Fail(s)
    PROVE  IInv'
  <1> USE DEF Filled, Idle, NothingWritten, tables, external
  <1>1. CASE Run(s) \/ Delete(s) \/ ReadForUpsert(s)
    <2>1. /\ UNCHANGED <<atts, object, sent>> /\ Filled'
          /\ \A t \in Session \ {s} : sess'[t] = sess[t]
          /\ sess'[s].at \in {"backfill", "commit", "write"} /\ sess'[s].own.att = NULL
      <3> USE DEF IInv
      <3>1. CASE Run(s)
        <4>1. PICK tr, row, at : /\ at \in {"backfill", "commit"}
                                     /\ sess' = [sess EXCEPT ![s] = Holding(tr, row, at)]
              BY <3>1, RunHolds
        <4> QED BY <3>1, <4>1 DEF Run, Holding
      <3>2. CASE Delete(s)
            BY <3>2 DEF Delete
      <3>3. CASE ReadForUpsert(s)
            BY <3>3 DEF ReadForUpsert
      <3> QED BY <1>1, <3>1, <3>2, <3>3
    <2> QED BY <2>1, Unconcerned
  <1>2. CASE Backfill(s) \/ Store(s) \/ WriteEntry(s) \/ Recalculate(s)
    <2>1. sess[s].own.att = NULL
          BY <1>2 DEF IInv, SessionRight, Backfill, Store, WriteEntry, Recalculate
    <2>2. /\ UNCHANGED <<atts, object, sent>> /\ Filled'
          /\ \A t \in Session \ {s} : sess'[t] = sess[t]
          /\ sess'[s].at \in {"commit", "store", "r_multiple"} /\ sess'[s].own.att = NULL
      <3> USE <2>1 DEF IInv
      <3>1. CASE Backfill(s)
            BY <3>1 DEF Backfill
      <3>2. CASE Store(s)
            BY <3>2 DEF Store
      <3>3. CASE WriteEntry(s)
        <4>1. UNCHANGED <<atts, object, sent>>
              BY <3>3 DEF WriteEntry
        <4> DEFINE new == sess[s].seen.now
                   edits == IF sess[s].seen.was = NULL THEN <<>>
                            ELSE DiffForAudit(sess[s].seen.was, sess[s].req)
        <4>2. sess' = [sess EXCEPT ![s].at = "r_multiple", ![s].own.entry = new,
                           ![s].req = NULL, ![s].seen = NULL, ![s].own.audit = edits]
              BY <3>3 DEF WriteEntry
        <4> HIDE DEF new, edits
        <4>3. sess'[s] = [sess[s] EXCEPT !.at = "r_multiple", !.own.entry = new,
                              !.req = NULL, !.seen = NULL, !.own.audit = edits]
              BY <4>2
        <4>4. DOMAIN sess'[s] = DOMAIN sess[s] /\ sess'[s].at = "r_multiple"
              BY <4>3
        <4>5. sess'[s].own = [sess[s].own EXCEPT !.entry = new, !.audit = edits]
              BY <4>3
        <4>6. DOMAIN sess'[s].own = DOMAIN sess[s].own /\ sess'[s].own.att = NULL
              BY <4>5
        <4>7. DOMAIN sess' = Session /\ \A t \in Session \ {s} : sess'[t] = sess[t]
              BY <4>2
        <4> QED BY <4>1, <4>4, <4>6, <4>7
      <3>4. CASE Recalculate(s)
        <4>1. UNCHANGED <<atts, object, sent>>
              BY <3>4 DEF Recalculate
        <4>2. \/ Goto(s, "commit")
              \/ \E new : sess' = [sess EXCEPT ![s].at = "commit", ![s].own.pnl = new]
              BY <3>4 DEF Recalculate
        <4>3. CASE Goto(s, "commit")
              BY <4>1, <4>3 DEF Goto
        <4>4. ASSUME NEW new, sess' = [sess EXCEPT ![s].at = "commit", ![s].own.pnl = new]
              PROVE  /\ Filled' /\ \A t \in Session \ {s} : sess'[t] = sess[t]
                     /\ sess'[s].at = "commit" /\ sess'[s].own.att = NULL
              BY <4>4
        <4> QED BY <4>1, <4>2, <4>3, <4>4
      <3> QED BY <1>2, <3>1, <3>2, <3>3, <3>4
    <2> QED BY <2>2, Unconcerned
  <1>3. CASE EntryExists(s) \/ Raise(s) \/ Fail(s)
    <2>1. /\ UNCHANGED <<atts, object, sent>> /\ Filled'
          /\ \A t \in Session \ {s} : sess'[t] = sess[t]
          /\ sess'[s].at = "idle" /\ sess'[s].own.att = NULL
          BY <1>3 DEF IInv, EntryExists, Raise, Fail, Rollback
    <2> QED BY <2>1, Unconcerned
  <1> QED BY <1>1, <1>2, <1>3 DEF TradeStep, EntryStep

LEMMA InsertResult ==
    ASSUME Filled, NEW s \in Session, InsertPending(s)
    PROVE  /\ Filled' /\ \A t \in Session \ {s} : sess'[t] = sess[t]
           /\ sess'[s].at = "commit"
           /\ sess'[s].own.att = sess[s].req /\ sess'[s].own.row = sess[s].seen.row
           /\ sess'[s].own.entry = IF sess[s].seen.was = NULL THEN BlankEntry ELSE NULL
           /\ sess'[s].own.trade = sess[s].own.trade /\ sess'[s].own.pnl = sess[s].own.pnl
           /\ sess'[s].own.audit = sess[s].own.audit
  <1> DEFINE new == IF sess[s].seen.was = NULL THEN BlankEntry ELSE NULL
  <1>1. sess' = [sess EXCEPT ![s].at = "commit", ![s].own.att = sess[s].req,
                    ![s].own.row = sess[s].seen.row, ![s].req = NULL, ![s].seen = NULL,
                    ![s].own.entry = new]
        BY DEF InsertPending
  <1> HIDE DEF new
  <1>2. /\ DOMAIN sess = Session /\ {"at", "req", "seen", "own"} \subseteq DOMAIN sess[s]
        /\ {"trade", "pnl", "entry", "audit", "att", "row"} \subseteq DOMAIN sess[s].own
        BY DEF Filled, NothingWritten
  <1>3. DOMAIN sess' = Session /\ \A t \in Session \ {s} : sess'[t] = sess[t]
        BY <1>1, <1>2
  <1>4. sess'[s] = [sess[s] EXCEPT !.at = "commit", !.own.att = sess[s].req,
                        !.own.row = sess[s].seen.row, !.req = NULL, !.seen = NULL,
                        !.own.entry = new]
        BY <1>1, <1>2
  <1>5. DOMAIN sess'[s] = DOMAIN sess[s] /\ sess'[s].at = "commit"
        BY <1>2, <1>4
  <1>6. sess'[s].own = [sess[s].own EXCEPT !.att = sess[s].req, !.row = sess[s].seen.row,
                            !.entry = new]
        BY <1>2, <1>4
  <1>7. DOMAIN sess'[s].own = DOMAIN sess[s].own
        BY <1>6
  <1>8. Filled'
        BY <1>3, <1>5, <1>7 DEF Filled
  <1>9. /\ sess'[s].own.att = sess[s].req /\ sess'[s].own.row = sess[s].seen.row
        /\ sess'[s].own.entry = new
        BY <1>2, <1>6
  <1>10. /\ sess'[s].own.trade = sess[s].own.trade /\ sess'[s].own.pnl = sess[s].own.pnl
         /\ sess'[s].own.audit = sess[s].own.audit
         BY <1>2, <1>6
  <1> QED BY <1>3, <1>5, <1>8, <1>9, <1>10 DEF new

\* The id that is drawn is nobody else's.
LEMMA PresignSteps ==
    ASSUME IInv, NEW s \in Session, Presign(s) \/ InsertPending(s)
    PROVE  IInv'
  <1> USE DEF Filled, Idle, NothingWritten, tables, external
  <1>1. CASE Presign(s)
    <2>1. PICK a \in Attachment, n \in Size :
             /\ atts[a] = NULL /\ a \notin Drawn
             /\ sess' = [sess EXCEPT ![s] = [Idle EXCEPT !.at = "presign", !.req = a,
                             !.seen = [was |-> entry, row |-> PendingRow(n)]]]
          BY <1>1 DEF Presign
    <2>2. UNCHANGED <<atts, object, sent>> /\ Filled' /\ \A t \in Session \ {s} : sess'[t] = sess[t]
          BY <1>1, <2>1 DEF IInv, Presign
    <2>3. /\ sess'[s].at = "presign" /\ sess'[s].req = a
          /\ sess'[s].seen.row = PendingRow(n) /\ sess'[s].own.att = NULL
          BY <2>1 DEF IInv
    <2>4. SessionRight(s)'
      <3>1. atts' = atts /\ PendingRow(n) \in NewRows
            BY <2>2 DEF NewRows
      <3> QED BY <2>1, <2>3, <3>1 DEF SessionRight
    <2>5. \A t \in Session, b \in Attachment : Claims(s, b)' => b = a /\ ~Claims(t, b)
          BY <2>1, <2>3 DEF Claims, Drawn
    <2> QED BY <2>2, <2>4, <2>5, SessionMoves
  <1>2. CASE InsertPending(s)
    <2>1. /\ sess[s].at = "presign" /\ sess[s].req \in Attachment
          /\ atts[sess[s].req] = NULL /\ sess[s].seen.row \in NewRows
          BY <1>2 DEF IInv, SessionRight, InsertPending
    <2>2. UNCHANGED <<atts, object, sent>>
          BY <1>2 DEF InsertPending
    <2>3. /\ Filled' /\ \A t \in Session \ {s} : sess'[t] = sess[t]
          /\ sess'[s].at = "commit" /\ sess'[s].own.att = sess[s].req
          /\ sess'[s].own.row = sess[s].seen.row
          BY <1>2, InsertResult DEF IInv
    <2>4. SessionRight(s)'
          BY <2>1, <2>2, <2>3 DEF SessionRight, WritesRight
    <2>5. \A b \in Attachment : Claims(s, b)' => Claims(s, b)
          BY <2>1, <2>3 DEF Claims
    <2> QED BY <2>2, <2>3, <2>4, <2>5, SessionMoves DEF IInv
  <1> QED BY <1>1, <1>2

\* A row that is there stays there, so a confirm may write it later.
LEMMA ConfirmSteps ==
    ASSUME IInv, NEW s \in Session,
           Confirm(s) \/ HeadFound(s) \/ HeadMissing(s) \/ HeadTooLarge(s) \/ Expire(s)
           \/ DeleteAttachment(s)
    PROVE  IInv'
  <1> USE DEF Filled, Idle, NothingWritten, tables, external
  <1>1. UNCHANGED <<atts, object, sent>>
        BY DEF Confirm, HeadFound, HeadMissing, HeadTooLarge, Expire, DeleteAttachment
  <1>2. Filled' /\ \A t \in Session \ {s} : sess'[t] = sess[t]
    <2>1. CASE Confirm(s)
      <3>1. PICK a \in Attachment, at \in {"expire", "head"} :
               sess' = [sess EXCEPT ![s] = [Idle EXCEPT !.req = a, !.seen = atts[a], !.at = at]]
            BY <2>1 DEF Confirm
      <3>2. sess'[s] = [Idle EXCEPT !.req = a, !.seen = atts[a], !.at = at]
            BY <3>1 DEF IInv
      <3>3. DOMAIN sess' = Session /\ \A t \in Session \ {s} : sess'[t] = sess[t]
            BY <3>1 DEF IInv
      <3>4. /\ {"at", "req", "seen", "own"} \subseteq DOMAIN sess'[s]
            /\ sess'[s].own = NothingWritten
            BY <3>2
      <3> QED BY <3>3, <3>4 DEF IInv
    <2>2. CASE HeadFound(s) \/ HeadMissing(s) \/ Expire(s)
      <3>1. PICK status : Update(s, sess[s].req, status)
            BY <2>2 DEF HeadFound, HeadMissing, Expire
      <3> DEFINE at == IF status = "CONFIRMED" THEN "commit" ELSE "raise"
                 row == Setting(sess[s].seen, status)
      <3>2. sess' = [sess EXCEPT ![s].at = at, ![s].own.att = sess[s].req, ![s].own.row = row]
            BY <3>1 DEF Update
      <3> HIDE DEF at, row
      <3> QED BY <3>2 DEF IInv
    <2>3. CASE HeadTooLarge(s)
          BY <2>3 DEF HeadTooLarge, Goto, IInv
    <2>4. CASE DeleteAttachment(s)
      <3>1. PICK a \in Attachment :
               sess' = [sess EXCEPT ![s] = [Idle EXCEPT !.at = "commit", !.own.att = a,
                                                        !.own.row = [deleted |-> TRUE]]]
            BY <2>4 DEF DeleteAttachment
      <3> QED BY <3>1 DEF IInv
    <2> QED BY <2>1, <2>2, <2>3, <2>4
  <1>3. SessionRight(s)' /\ \A b \in Attachment : ~Claims(s, b)'
    <2>1. CASE Confirm(s)
      <3>1. PICK a \in Attachment, at \in {"expire", "head"} :
               /\ atts[a] # NULL
               /\ sess' = [sess EXCEPT ![s] = [Idle EXCEPT !.req = a, !.seen = atts[a], !.at = at]]
            BY <2>1 DEF Confirm
      <3>2. sess'[s].req = a /\ sess'[s].at = at /\ sess'[s].own.att = NULL
            BY <3>1 DEF IInv
      <3> QED BY <3>1, <3>2, <1>1 DEF SessionRight, Claims
    <2>2. CASE HeadFound(s)
      <3>1. /\ sess[s].req \in Attachment /\ atts[sess[s].req] # NULL
            /\ Uploaded(sess[s].req)
        <4>1. sess[s].req \in Attachment /\ atts[sess[s].req] # NULL
              BY <2>2 DEF IInv, SessionRight, HeadFound
        <4>2. object[sess[s].req] \in sent[sess[s].req] /\ object[sess[s].req] <= MaxBytes
              BY <2>2, <4>1 DEF IInv, HeadFound
        <4> QED BY <4>1, <4>2 DEF Uploaded
      <3>2. /\ sess'[s].at = "commit" /\ sess'[s].own.att = sess[s].req
            /\ sess'[s].own.row = [status |-> "CONFIRMED"]
            BY <2>2 DEF IInv, HeadFound, Update, Setting
      <3>3. sess'[s].own.row \notin NewRows
            BY <3>2, NewRowIsPending
      <3> QED BY <3>1, <3>2, <3>3, <1>1 DEF SessionRight, WritesRight, Claims, Uploaded
    <2>3. CASE HeadMissing(s) \/ Expire(s)
      <3>1. sess'[s].at = "raise"
            BY <2>3 DEF IInv, HeadMissing, Expire, Update
      <3> QED BY <3>1 DEF SessionRight, Claims
    <2>4. CASE DeleteAttachment(s)
      <3>1. PICK a \in Attachment :
               /\ Live(a)
               /\ sess' = [sess EXCEPT ![s] = [Idle EXCEPT !.at = "commit", !.own.att = a,
                                                           !.own.row = [deleted |-> TRUE]]]
            BY <2>4 DEF DeleteAttachment
      <3>2. /\ sess'[s].at = "commit" /\ sess'[s].own.att = a
            /\ sess'[s].own.row = [deleted |-> TRUE]
            BY <3>1 DEF IInv
      <3>3. sess'[s].own.row \notin NewRows
        <4>1. "status" \notin DOMAIN [deleted |-> TRUE]
              OBVIOUS
        <4> QED BY <4>1, <3>2, NewRowIsPending
      <3> QED BY <3>1, <3>2, <3>3, <1>1 DEF SessionRight, WritesRight, Claims, Live
    <2>5. CASE HeadTooLarge(s)
      <3>1. /\ sess[s].req \in Attachment /\ atts[sess[s].req] # NULL
            /\ sess[s].own.att = NULL
            BY <2>5 DEF IInv, SessionRight, HeadTooLarge
      <3>2. object[sess[s].req] \in sent[sess[s].req] /\ object[sess[s].req] > MaxBytes
            BY <2>5, <3>1 DEF IInv, HeadTooLarge
      <3>3. /\ sess'[s].at = "discard" /\ sess'[s].req = sess[s].req
            /\ sess'[s].own.att = NULL
            BY <2>5, <3>1 DEF IInv, HeadTooLarge, Goto
      <3> QED BY <3>1, <3>2, <3>3, <1>1 DEF SessionRight, Claims
    <2> QED BY <2>1, <2>2, <2>3, <2>4, <2>5
  <1> QED BY <1>1, <1>2, <1>3, SessionMoves

\* An upload replaces what the store has by a file that was sent, and only where a
\* file over the limit was sent is anything deleted.
LEMMA ObjectSteps ==
    ASSUME IInv,
           \/ \E a \in Attachment : Put(a)
           \/ \E s \in Session : Discard(s)
    PROVE  IInv'
  <1>1. /\ atts' = atts /\ Filled'
        /\ object' \in [Attachment -> Size \cup {NULL}]
        /\ sent' \in [Attachment -> SUBSET Size]
        /\ \A a \in Attachment : sent[a] \subseteq sent'[a]
        /\ \A a \in Attachment : object'[a] # NULL => object'[a] \in sent'[a]
        /\ \A a \in Attachment : Uploaded(a) => Uploaded(a)'
        /\ \A s \in Session :
              \/ sess'[s] = sess[s]
              \/ sess'[s].at = "raise"
    <2>1. CASE \E a \in Attachment : Put(a)
      <3>1. PICK a \in Attachment, n \in Size :
               /\ object' = [object EXCEPT ![a] = n]
               /\ sent' = [sent EXCEPT ![a] = @ \cup {n}]
               /\ atts' = atts /\ sess' = sess
            BY <2>1 DEF Put, tables
      <3>2. /\ object'[a] = n /\ sent'[a] = sent[a] \cup {n}
            /\ \A b \in Attachment \ {a} : object'[b] = object[b] /\ sent'[b] = sent[b]
            BY <3>1 DEF IInv
      <3>3. \A b \in Attachment : Uploaded(b) => Uploaded(b)'
            BY <3>2 DEF Uploaded
      <3>4. /\ object' \in [Attachment -> Size \cup {NULL}]
            /\ sent' \in [Attachment -> SUBSET Size]
            BY <3>1 DEF IInv
      <3> QED BY <3>1, <3>2, <3>3, <3>4 DEF IInv, Filled
    <2>2. CASE \E s \in Session : Discard(s)
      <3>1. PICK s \in Session : Discard(s)
            BY <2>2
      <3> DEFINE a == sess[s].req
      <3>2. /\ a \in Attachment /\ \E n \in sent[a] : n > MaxBytes
            /\ object' = [object EXCEPT ![a] = NULL] /\ atts' = atts /\ sent' = sent
            /\ sess' = [sess EXCEPT ![s].at = "raise"]
            BY <3>1 DEF IInv, SessionRight, Discard, Goto, tables
      <3>3. ~\A n \in sent[a] : n <= MaxBytes
            BY <3>2, JournalAssumption DEF IInv
      <3> HIDE DEF a
      <3>4. \A b \in Attachment : Uploaded(b) => Uploaded(b)'
            BY <3>2, <3>3 DEF IInv, Uploaded
      <3> QED BY <3>2, <3>4 DEF IInv, Filled
    <2> QED BY <2>1, <2>2
  <1>2. \A s \in Session : SessionRight(s)'
    <2> SUFFICES ASSUME NEW s \in Session PROVE SessionRight(s)'
        OBVIOUS
    <2>1. CASE sess'[s] = sess[s]
      <3>1. SessionRight(s)
            BY DEF IInv
      <3> QED BY <1>1, <2>1, <3>1 DEF SessionRight, WritesRight
    <2>2. CASE sess'[s].at = "raise"
          BY <2>2 DEF SessionRight
    <2> QED BY <1>1, <2>1, <2>2
  <1>3. \A s \in Session, a \in Attachment : Claims(s, a)' => Claims(s, a)
        BY <1>1 DEF Claims
  <1>4. \A a \in Attachment : atts'[a] # NULL /\ atts'[a].status = "CONFIRMED" => Uploaded(a)'
        BY <1>1 DEF IInv
  <1> QED BY <1>1, <1>2, <1>3, <1>4 DEF IInv

--------------------------------------------------------------------------------
(* The commit. *)

\* A row that is there keeps what is final in it.
Settled ==
    \A a \in Attachment : atts[a] # NULL =>
        /\ atts'[a] # NULL
        /\ atts[a].status = "CONFIRMED" => atts'[a].status = "CONFIRMED"
        /\ atts[a].deleted => atts'[a].deleted

LEMMA CommitWrites ==
    ASSUME IInv, NEW s \in Session, Commit(s)
    PROVE  /\ Settled
           /\ atts' \in [Attachment -> AttachmentRow \cup {NULL}]
           /\ \A a \in Attachment : atts[a] = NULL /\ atts'[a] # NULL => Claims(s, a)
           /\ \A a \in Attachment :
                 atts'[a] # NULL /\ atts'[a].status = "CONFIRMED" => Uploaded(a)
  <1> DEFINE own == sess[s].own
             at == own.att
             new == Written(own.row, atts[at])
  <1>1. atts' = [a \in Attachment |-> IF a = at THEN new ELSE atts[a]]
    <2>1. \A a \in Attachment : a = at => Written(own.row, atts[a]) = new
          OBVIOUS
    <2> QED BY <2>1, Zenon DEF Commit
  <1>2. CASE at = NULL
    <2>1. atts' = atts
          BY <1>1, <1>2, NullAssumption DEF IInv
    <2> QED BY <2>1 DEF IInv, Settled
  <1>3. CASE at # NULL
    <2>1. at \in Attachment /\ WritesRight(s)
          BY <1>3 DEF IInv, SessionRight, WritesRight, Commit
    <2>2. /\ new \in AttachmentRow
          /\ atts[at] = NULL => own.row \in NewRows
          /\ atts[at] # NULL =>
                /\ atts[at].status = "CONFIRMED" => new.status = "CONFIRMED"
                /\ atts[at].deleted => new.deleted
          /\ new.status = "CONFIRMED" => Uploaded(at)
      <3>1. CASE own.row \in NewRows /\ atts[at] = NULL
        <4>1. new = own.row
              BY <3>1 DEF Written
        <4> QED BY <4>1, <3>1, NewRowIsPending
      <3>2. CASE own.row = [status |-> "CONFIRMED"] /\ atts[at] # NULL /\ Uploaded(at)
        <4>1. atts[at] \in AttachmentRow
              BY <3>2, <2>1 DEF IInv
        <4>2. new = [atts[at] EXCEPT !.status = "CONFIRMED"]
              BY <4>1, <3>2 DEF Written, AttachmentRow
        <4> QED BY <4>1, <4>2, <3>2 DEF AttachmentRow
      <3>3. CASE own.row = [deleted |-> TRUE] /\ atts[at] # NULL
        <4>1. atts[at] \in AttachmentRow
              BY <3>3, <2>1 DEF IInv
        <4>2. new = [c \in DOMAIN atts[at] |-> IF c = "deleted" THEN TRUE ELSE atts[at][c]]
          <5>1. \A c : c \in DOMAIN own.row <=> c = "deleted"
                BY <3>3
          <5>2. own.row["deleted"] = TRUE
                BY <3>3
          <5> HIDE DEF own, at
          <5> QED BY <5>1, <5>2, <3>3, Zenon DEF Written
        <4> QED BY <4>1, <4>2, <3>3, <2>1 DEF AttachmentRow, IInv
      <3> QED BY <2>1, <3>1, <3>2, <3>3 DEF WritesRight
    <2>3. new # NULL /\ (atts[at] = NULL => Claims(s, at))
          BY <2>2, NullAssumption DEF Claims, Commit
    <2> HIDE DEF new, at
    <2>4. \A a \in Attachment : atts'[a] = IF a = at THEN new ELSE atts[a]
          BY <1>1
    <2>5. Settled
      <3> SUFFICES ASSUME NEW a \in Attachment, atts[a] # NULL
                   PROVE  /\ atts'[a] # NULL
                          /\ atts[a].status = "CONFIRMED" => atts'[a].status = "CONFIRMED"
                          /\ atts[a].deleted => atts'[a].deleted
          BY DEF Settled
      <3>1. CASE a # at
        <4>1. atts'[a] = atts[a]
              BY <3>1, <2>4
        <4> QED BY <4>1, Zenon
      <3>2. CASE a = at
        <4>1. atts'[a] = new /\ atts[a] = atts[at]
              BY <3>2, <2>4
        <4>2. /\ atts[at].status = "CONFIRMED" => new.status = "CONFIRMED"
              /\ atts[at].deleted => new.deleted
              BY <4>1, <2>2, Zenon
        <4>3. atts[a].status = "CONFIRMED" => atts'[a].status = "CONFIRMED"
              BY <4>1, <4>2
        <4>4. atts[a].deleted => atts'[a].deleted
              BY <4>1, <4>2, Zenon
        <4> QED BY <4>1, <4>3, <4>4, <2>3, Zenon
      <3> QED BY <3>1, <3>2
    <2>6. atts' \in [Attachment -> AttachmentRow \cup {NULL}]
          BY <1>1, <2>1, <2>2 DEF IInv
    <2>7. \A a \in Attachment : atts[a] = NULL /\ atts'[a] # NULL => Claims(s, a)
          BY <2>3, <2>4
    <2>8. \A a \in Attachment :
             atts'[a] # NULL /\ atts'[a].status = "CONFIRMED" => Uploaded(a)
          BY <2>2, <2>4 DEF IInv
    <2> QED BY <2>5, <2>6, <2>7, <2>8
  <1> QED BY <1>2, <1>3

\* No other session was going to insert what this one has inserted.
LEMMA CommitStep ==
    ASSUME IInv, NEW s \in Session, Commit(s)
    PROVE  IInv'
  <1>1. /\ object' = object /\ sent' = sent /\ Filled' /\ sess'[s] = Idle
        /\ \A t \in Session \ {s} : sess'[t] = sess[t]
        BY DEF IInv, Commit, Filled, Idle, NothingWritten, external
  <1>2. \A t \in Session, a \in Attachment : Claims(t, a)' => t # s /\ Claims(t, a)
        BY <1>1 DEF Claims, Idle
  <1>3. \A t \in Session : SessionRight(t)'
    <2> SUFFICES ASSUME NEW t \in Session PROVE SessionRight(t)'
        OBVIOUS
    <2>1. CASE t = s
          BY <2>1, <1>1 DEF SessionRight, Idle, NothingWritten
    <2>2. CASE t # s
      <3>1. sess'[t] = sess[t] /\ SessionRight(t)
            BY <2>2, <1>1 DEF IInv
      <3>2. \A a \in Attachment : Claims(t, a) /\ atts[a] = NULL => atts'[a] = NULL
            BY <2>2, CommitWrites DEF IInv
      <3>3. \A a \in Attachment : atts[a] # NULL => atts'[a] # NULL
            BY CommitWrites DEF Settled
      <3>4. \A a \in Attachment : Uploaded(a)' <=> Uploaded(a)
            BY <1>1 DEF Uploaded
      <3>5. sent' = sent
            BY <1>1
      <3>6. CASE sess[t].at = "commit"
            BY <3>1, <3>2, <3>3, <3>4, <3>6 DEF SessionRight, WritesRight, Claims
      <3>7. CASE sess[t].at # "commit"
            BY <3>1, <3>2, <3>3, <3>5, <3>7 DEF SessionRight, Claims
      <3> QED BY <3>6, <3>7
    <2> QED BY <2>1, <2>2
  <1> QED BY <1>1, <1>2, <1>3, CommitWrites DEF IInv, Uploaded

--------------------------------------------------------------------------------
LEMMA NextRight == IInv /\ [Next]_vars => IInv'
  <1> SUFFICES ASSUME IInv, [Next]_vars PROVE IInv'
      OBVIOUS
  <1>1. CASE UNCHANGED vars \/ Deploy \/ \E a \in Attachment : Wait(a)
    <2>1. UNCHANGED <<atts, object, sent, sess>>
          BY <1>1 DEF vars, tables, external, Deploy, Wait
    <2> QED BY <2>1 DEF IInv, Filled, SessionRight, WritesRight, Claims, Uploaded
  <1>2. ASSUME NEW s \in Session,
               TradeStep(s) \/ EntryStep(s) \/ AttachmentStep(s) \/ Commit(s) \/ Fail(s)
        PROVE  IInv'
        BY <1>2, TradeAndEntrySteps, PresignSteps, ConfirmSteps, ObjectSteps, CommitStep
           DEF AttachmentStep
  <1>3. CASE \E a \in Attachment : Put(a)
        BY <1>3, ObjectSteps
  <1> QED BY <1>1, <1>2, <1>3 DEF Next

\* However uploads that come twice or late, confirms that do, deletions and failures
\* overlap: what the database calls confirmed was uploaded within the limit, and is in
\* the store unless a file over the limit was uploaded for it as well.
THEOREM ConfirmedIsUploaded == Spec => []ConfirmedUploaded
  <1>1. IInv => ConfirmedUploaded
        BY DEF IInv, ConfirmedUploaded, Uploaded
  <1> QED BY <1>1, InitRight, NextRight, PTL DEF Spec

\* Nobody takes back a confirmation or a deletion, though a second confirm may
\* have read the attachment before either.
THEOREM DeletedForGood == Spec => DeletedStaysDeleted
  <1> DEFINE Kept == \A a \in Attachment : atts[a] # NULL =>
                        /\ atts[a].status = "CONFIRMED" => atts'[a].status = "CONFIRMED"
                        /\ atts[a].deleted => atts'[a].deleted
  <1>1. IInv /\ [Next]_vars => [Kept]_vars
    <2> SUFFICES ASSUME IInv, Next PROVE Kept
        BY DEF vars
    <2>1. CASE \E s \in Session : Commit(s)
          BY <2>1, CommitWrites DEF Settled
    <2>2. CASE atts' = atts
          BY <2>2
    <2>3. (\E s \in Session : Commit(s)) \/ atts' = atts
      <3>1. ASSUME NEW s \in Session, TradeStep(s) PROVE atts' = atts
            BY <3>1 DEF TradeStep, Run, Backfill, Store, Delete, tables
      <3>2. ASSUME NEW s \in Session, EntryStep(s) \/ Fail(s) PROVE atts' = atts
            BY <3>2 DEF EntryStep, ReadForUpsert, WriteEntry, Recalculate, EntryExists,
               Fail, Rollback, tables
      <3>3. ASSUME NEW s \in Session, AttachmentStep(s) PROVE atts' = atts
            BY <3>3 DEF AttachmentStep, Presign, InsertPending, Confirm, HeadFound,
               HeadMissing, HeadTooLarge, Discard, Expire, Raise, Rollback, DeleteAttachment, tables
      <3>4. CASE Deploy \/ \E a \in Attachment : Put(a) \/ Wait(a)
            BY <3>4 DEF Deploy, Put, Wait, tables
      <3> QED BY <3>1, <3>2, <3>3, <3>4 DEF Next
    <2> QED BY <2>1, <2>2, <2>3
  <1>2. [][Kept]_vars => DeletedStaysDeleted
        BY PTL DEF DeletedStaysDeleted
  <1> QED BY <1>1, <1>2, InitRight, NextRight, PTL DEF Spec

--------------------------------------------------------------------------------
(* Charges: each component is rounded once, and so is off by half a unit. *)

LEMMA DivBounds ==
    ASSUME NEW a \in Nat, NEW b \in Nat \ {0}
    PROVE  /\ a \div b \in Nat
           /\ (a \div b) * b <= a
           /\ a < (a \div b) * b + b
  OBVIOUS

LEMMA AbsProperties ==
    ASSUME NEW n \in Int
    PROVE  Abs(n) \in Nat /\ (n >= 0 => Abs(n) = n) /\ (n < 0 => Abs(n) = -n)
  BY DEF Abs

\* x is the fraction n / d to within half a unit.
Rounds(x, n, d) == 2 * (x * d) - 2 * n <= d /\ 2 * n - 2 * (x * d) <= d

\* Rounding is off by half a unit at most, and never changes the sign.
LEMMA RoundHalfUpBounds ==
    ASSUME NEW n \in Int, NEW d \in Nat \ {0}
    PROVE  /\ RoundHalfUp(n, d) \in Int
           /\ n >= 0 => RoundHalfUp(n, d) \in Nat
           /\ Rounds(RoundHalfUp(n, d), n, d)
  <1> DEFINE a == 2 * Abs(n) + d
             size == a \div (2 * d)
  <1>1. a \in Nat /\ 2 * d \in Nat \ {0}
        BY AbsProperties
  <1>2. size \in Nat /\ size * (2 * d) <= a /\ a < size * (2 * d) + 2 * d
        BY <1>1, DivBounds
  <1>3. RoundHalfUp(n, d) = IF n < 0 THEN -size ELSE size
        BY DEF RoundHalfUp
  <1>4. size * (2 * d) = 2 * (size * d) /\ (-size) * d = -(size * d) /\ size * d \in Nat
        BY <1>2
  <1> HIDE DEF size
  <1> QED BY <1>2, <1>3, <1>4, AbsProperties DEF Rounds

LEMMA RoundsScaled ==
    ASSUME NEW x \in Int, NEW n \in Int, NEW d \in Nat \ {0}, Rounds(x, n, d)
    PROVE  Rounds(x, n * d, d * d)
  <1> DEFINE y == x * d
             k == d - (2 * y - 2 * n)
             j == d - (2 * n - 2 * y)
  <1>1. y \in Int /\ k \in Nat /\ j \in Nat
        BY DEF Rounds
  <1>2. k * d \in Nat /\ j * d \in Nat
        BY <1>1
  <1>3. /\ k * d = d * d - (2 * (y * d) - 2 * (n * d))
        /\ j * d = d * d - (2 * (n * d) - 2 * (y * d))
        BY <1>1
  <1>4. y * d = x * (d * d) /\ y * d \in Int /\ n * d \in Int /\ d * d \in Int
        BY <1>1
  <1> HIDE DEF y, k, j
  <1> QED BY <1>2, <1>3, <1>4 DEF Rounds

LEMMA Brokerage ==
    ASSUME NEW cs \in ChargeScheduleRow, BrokerageColumns(cs), NEW turnover \in Nat
    PROVE  /\ BrokeragePerSide(turnover, cs) \in Nat
           /\ BrokeragePerSide(turnover, cs) =
                 CASE cs.brokerage_pct # NULL ->
                        Lesser(cs.brokerage_pct * turnover, cs.brokerage_cap_per_order * RateScale)
                   [] cs.brokerage_flat_per_order # NULL -> cs.brokerage_flat_per_order * RateScale
                   [] OTHER -> 0
  <1>1. CASE cs.brokerage_type = "ZERO"
        BY <1>1 DEF BrokerageColumns, BrokeragePerSide
  <1>2. CASE cs.brokerage_type = "FLAT"
    <2>1. cs.brokerage_flat_per_order \in Nat
          BY <1>2 DEF BrokerageColumns, ChargeScheduleRow
    <2>2. cs.brokerage_flat_per_order * RateScale \in Nat
          BY <2>1, ChargesAssumption
    <2> QED BY <1>2, <2>2 DEF BrokerageColumns, BrokeragePerSide
  <1>3. CASE cs.brokerage_type = "PERCENT_CAP"
    <2>1. cs.brokerage_pct \in Nat /\ cs.brokerage_cap_per_order \in Nat
          BY <1>3 DEF BrokerageColumns, ChargeScheduleRow
    <2>2. /\ cs.brokerage_pct * turnover \in Nat
          /\ cs.brokerage_cap_per_order * RateScale \in Nat
          BY <2>1, ChargesAssumption
    <2>3. Lesser(cs.brokerage_pct * turnover, cs.brokerage_cap_per_order * RateScale) \in Nat
          BY <2>2 DEF Lesser
    <2> QED BY <1>3, <2>3 DEF BrokerageColumns, BrokeragePerSide
  <1> QED BY <1>1, <1>2, <1>3 DEF ChargeScheduleRow, BrokerageTypes

LEMMA SevenComponents == Cardinality(Components) = 7
  <1> DEFINE A == {"brokerage"}
             B == A \cup {"stt"}
             C == B \cup {"exchange_charges"}
             D == C \cup {"sebi_charges"}
             E == D \cup {"stamp_duty"}
             F == E \cup {"gst"}
             G == F \cup {"ipft"}
  <1>1. IsFiniteSet(A) /\ Cardinality(A) = 1
        BY FS_Singleton
  <1>2. IsFiniteSet(B) /\ Cardinality(B) = 2
        BY <1>1, FS_AddElement
  <1>3. IsFiniteSet(C) /\ Cardinality(C) = 3
        BY <1>2, FS_AddElement
  <1>4. IsFiniteSet(D) /\ Cardinality(D) = 4
        BY <1>3, FS_AddElement
  <1>5. IsFiniteSet(E) /\ Cardinality(E) = 5
        BY <1>4, FS_AddElement
  <1>6. IsFiniteSet(F) /\ Cardinality(F) = 6
        BY <1>5, FS_AddElement
  <1>7. IsFiniteSet(G) /\ Cardinality(G) = 7
        BY <1>6, FS_AddElement
  <1> QED BY <1>7 DEF Components

PricedTrade == {tr \in TradeRow : tr.average_exit \in Nat}
Schedule == {cs \in ChargeScheduleRow : BrokerageColumns(cs)}

LEMMA ChargesExact ==
    ASSUME NEW tr \in PricedTrade, NEW cs \in Schedule
    PROVE  LET c == compute_charges(tr, cs)
               error == TotalCharges(c) * RateScale * RateScale - ExactCharges(tr, cs)
           IN  /\ c \in [Components -> Nat] /\ TotalCharges(c) \in Int
               /\ 2 * Abs(error) <= Cardinality(Components) * RateScale * RateScale
  <1> DEFINE R == RateScale
             q == tr.total_entry_quantity
             e == tr.average_entry * q
             x == tr.average_exit * q
             b1 == BrokeragePerSide(e, cs)
             b2 == BrokeragePerSide(x, cs)
             ex == cs.exchange_charge_rate
             se == cs.sebi_charge_rate
             ip == cs.ipft_rate
             sb == cs.stt_buy_rate
             ss == cs.stt_sell_rate
             st == cs.stamp_duty_rate
             g  == cs.gst_rate
             n1 == b1 + b2
             n2 == sb * e + ss * x
             n3 == ex * (e + x)
             n4 == se * (e + x)
             n5 == st * e
             n6 == g * (n1 + n3 + n4)
             n7 == ip * (e + x)
             c1 == RoundHalfUp(n1, R)
             c2 == RoundHalfUp(n2, R)
             c3 == RoundHalfUp(n3, R)
             c4 == RoundHalfUp(n4, R)
             c5 == RoundHalfUp(n5, R)
             c6 == RoundHalfUp(n6, R * R)
             c7 == RoundHalfUp(n7, R)
             c  == compute_charges(tr, cs)
  <1>1. R \in Nat \ {0} /\ R * R \in Nat \ {0}
        BY ChargesAssumption
  <1>2. /\ ex \in Nat /\ se \in Nat /\ ip \in Nat /\ sb \in Nat /\ ss \in Nat
        /\ st \in Nat /\ g \in Nat
        BY DEF Schedule, ChargeScheduleRow
  <1>3. e \in Nat /\ x \in Nat
    <2>1. q \in Nat /\ tr.average_entry \in Nat /\ tr.average_exit \in Nat
          BY DEF PricedTrade, TradeRow
    <2> QED BY <2>1
  <1>4. b1 \in Nat /\ b2 \in Nat
        BY <1>3, Brokerage DEF Schedule
  <1>5. c = [brokerage |-> c1, stt |-> c2, exchange_charges |-> c3, sebi_charges |-> c4,
             stamp_duty |-> c5, gst |-> c6, ipft |-> c7]
        BY DEF compute_charges
  <1>6. ExactCharges(tr, cs) =
           (R * (b1 + (ex + se) * e + (sb + st + ip) * e) + g * (b1 + (ex + se) * e))
           + (R * (b2 + (ex + se) * x + (ss + ip) * x) + g * (b2 + (ex + se) * x))
        BY <1>3, Brokerage DEF Schedule, ExactCharges
  <1> HIDE DEF b1, b2, ex, se, ip, sb, ss, st, g, e, x, R, c
  <1>7. /\ n1 \in Nat /\ n2 \in Nat /\ n3 \in Nat /\ n4 \in Nat /\ n5 \in Nat /\ n7 \in Nat
        BY <1>2, <1>3, <1>4
  <1>8. n6 \in Nat
        BY <1>2, <1>7
  <1>9. ExactCharges(tr, cs) = n1 * R + n2 * R + n3 * R + n4 * R + n5 * R + n6 + n7 * R
        BY <1>1, <1>2, <1>3, <1>4, <1>6
  <1> HIDE DEF n1, n2, n3, n4, n5, n6, n7
  <1>10. /\ c1 \in Nat /\ c2 \in Nat /\ c3 \in Nat /\ c4 \in Nat /\ c5 \in Nat
         /\ c6 \in Nat /\ c7 \in Nat
         BY <1>1, <1>7, <1>8, RoundHalfUpBounds
  <1>11. /\ Rounds(c1, n1, R) /\ Rounds(c2, n2, R) /\ Rounds(c3, n3, R) /\ Rounds(c4, n4, R)
         /\ Rounds(c5, n5, R) /\ Rounds(c6, n6, R * R) /\ Rounds(c7, n7, R)
         BY <1>1, <1>7, <1>8, RoundHalfUpBounds
  <1> HIDE DEF c1, c2, c3, c4, c5, c6, c7
  <1>12. /\ Rounds(c1, n1 * R, R * R) /\ Rounds(c2, n2 * R, R * R) /\ Rounds(c3, n3 * R, R * R)
         /\ Rounds(c4, n4 * R, R * R) /\ Rounds(c5, n5 * R, R * R) /\ Rounds(c7, n7 * R, R * R)
         BY <1>1, <1>7, <1>10, <1>11, RoundsScaled
  <1>13. c \in [Components -> Nat] /\ TotalCharges(c) = c1 + c2 + c3 + c4 + c5 + c6 + c7
         BY <1>5, <1>10 DEF Components, TotalCharges
  <1> DEFINE T == c1 + c2 + c3 + c4 + c5 + c6 + c7
             N == ExactCharges(tr, cs)
             D == R * R
  <1>14. 2 * Abs(T * R * R - N) <= 7 * D
    <2> DEFINE m1 == n1 * R
               m2 == n2 * R
               m3 == n3 * R
               m4 == n4 * R
               m5 == n5 * R
               m7 == n7 * R
               d1 == c1 * D
               d2 == c2 * D
               d3 == c3 * D
               d4 == c4 * D
               d5 == c5 * D
               d6 == c6 * D
               d7 == c7 * D
    <2>1. /\ m1 \in Int /\ m2 \in Int /\ m3 \in Int /\ m4 \in Int /\ m5 \in Int /\ m7 \in Int
          /\ n6 \in Int /\ D \in Int
          BY <1>1, <1>7, <1>8
    <2>2. /\ d1 \in Int /\ d2 \in Int /\ d3 \in Int /\ d4 \in Int /\ d5 \in Int /\ d6 \in Int
          /\ d7 \in Int
          BY <1>1, <1>10
    <2>3. T * R * R = d1 + d2 + d3 + d4 + d5 + d6 + d7
          BY <1>1, <1>10
    <2>4. N = m1 + m2 + m3 + m4 + m5 + n6 + m7
          BY <1>9
    <2>5. /\ 2 * d1 - 2 * m1 <= D /\ 2 * m1 - 2 * d1 <= D
          /\ 2 * d2 - 2 * m2 <= D /\ 2 * m2 - 2 * d2 <= D
          /\ 2 * d3 - 2 * m3 <= D /\ 2 * m3 - 2 * d3 <= D
          /\ 2 * d4 - 2 * m4 <= D /\ 2 * m4 - 2 * d4 <= D
          /\ 2 * d5 - 2 * m5 <= D /\ 2 * m5 - 2 * d5 <= D
          /\ 2 * d6 - 2 * n6 <= D /\ 2 * n6 - 2 * d6 <= D
          /\ 2 * d7 - 2 * m7 <= D /\ 2 * m7 - 2 * d7 <= D
          BY <1>11, <1>12 DEF Rounds
    <2> HIDE DEF m1, m2, m3, m4, m5, m7, d1, d2, d3, d4, d5, d6, d7, D, T, N
    <2> DEFINE z == T * R * R - N
    <2>6. z \in Int /\ 2 * z <= 7 * D /\ 2 * (-z) <= 7 * D
          BY <2>1, <2>2, <2>3, <2>4, <2>5
    <2> HIDE DEF z
    <2>7. 2 * Abs(z) <= 7 * D
          BY <2>6, AbsProperties
    <2> QED BY <2>7 DEF z
  <1>15. Cardinality(Components) * R * R = 7 * D
         BY <1>1, SevenComponents
  <1>16. TotalCharges(c) \in Int
         BY <1>10, <1>13
  <1> QED BY <1>13, <1>14, <1>15, <1>16 DEF c, R

--------------------------------------------------------------------------------
(* The schedule, the engine's outcome and the row computed from them. *)

\* A set of numbers that is not empty has a least one.
LEMMA Least ==
    ASSUME NEW T, T \subseteq Nat, T # {}
    PROVE  \E n \in T : \A m \in T : n <= m
  <1>1. PICK n \in T : \A m \in T : <<m, n>> \notin OpToRel(<, Nat)
        BY NatLessThanWellFounded, WFMin
  <1>2. \A m \in T : ~ (m < n)
        BY <1>1 DEF OpToRel
  <1> QED BY <1>2

\* The latest schedule not after a date is one of the schedules.
LEMMA LatestExists ==
    ASSUME NEW rows, rows \subseteq Schedule, rows # {}, NEW date \in Nat,
           \A cs \in rows : cs.effective_from <= date
    PROVE  Latest(rows) \in rows
  <1> DEFINE T == {date - cs.effective_from : cs \in rows}
  <1>1. \A cs \in rows : cs.effective_from \in Nat
        BY DEF Schedule, ChargeScheduleRow
  <1>2. T \subseteq Nat /\ T # {}
        BY <1>1
  <1>3. PICK n \in T : \A m \in T : n <= m
    <2> HIDE DEF T
    <2> QED BY <1>2, Least
  <1>4. PICK cs \in rows : n = date - cs.effective_from
        BY <1>3
  <1>5. \A other \in rows : other.effective_from <= cs.effective_from
    <2> SUFFICES ASSUME NEW other \in rows PROVE other.effective_from <= cs.effective_from
        OBVIOUS
    <2>1. date - cs.effective_from <= date - other.effective_from
          BY <1>3, <1>4
    <2> QED BY <2>1, <1>1
  <1> QED BY <1>5 DEF Latest

--------------------------------------------------------------------------------
(* The engine's outcome. *)

Priced(tr) == tr.status = "CLOSED" => tr.average_exit \in Nat
GoodTrade == {tr \in TradeRow : Priced(tr)}

LEMMA WithFillTyped ==
    ASSUME NEW tr \in GoodTrade, NEW f \in Fills
    PROVE  WithFill(tr, f) \in GoodTrade
  <1>1. f.side \in {"ENTRY", "EXIT"} /\ f.price \in Nat
        BY JournalAssumption DEF Fills
  <1>2. CASE f.side = "EXIT"
        BY <1>1, <1>2 DEF GoodTrade, Priced, TradeRow, WithFill
  <1>3. CASE f.side = "ENTRY"
    <2> DEFINE q == tr.total_entry_quantity
               n == tr.average_entry * q + f.price
    <2>1. q \in Nat /\ n \in Nat /\ q + 1 \in Nat \ {0}
          BY <1>1 DEF GoodTrade, TradeRow
    <2>2. RoundHalfUp(n, q + 1) \in Nat
      <3> HIDE DEF q, n
      <3> QED BY <2>1, RoundHalfUpBounds
    <2> QED BY <1>3, <2>1, <2>2 DEF GoodTrade, Priced, TradeRow, WithFill
  <1> QED BY <1>1, <1>2, <1>3

Folded(g, tr, batch, m) ==
    g = [n \in 0..m |-> IF n = 0 THEN tr ELSE WithFill(g[n - 1], batch[n])]

LEMMA FoldExists ==
    ASSUME NEW tr, NEW batch, NEW L \in Nat
    PROVE  \E g : Folded(g, tr, batch, L)
  <1> DEFINE T == {m \in Nat : ~ \E g : Folded(g, tr, batch, m)}
  <1> SUFFICES ASSUME T # {} PROVE FALSE
      OBVIOUS
  <1>1. PICK m \in T : \A k \in T : m <= k
    <2>1. T \subseteq Nat
          OBVIOUS
    <2> HIDE DEF T
    <2> QED BY <2>1, Least
  <1>2. CASE m = 0
    <2> DEFINE g == [n \in 0..0 |-> tr]
    <2>1. Folded(g, tr, batch, 0)
          BY DEF Folded
    <2> QED BY <2>1, <1>2
  <1>3. CASE m # 0
    <2>1. m \in Nat /\ m - 1 \in Nat /\ m - 1 \notin T
          BY <1>1, <1>3
    <2>2. PICK g : Folded(g, tr, batch, m - 1)
          BY <2>1
    <2> DEFINE h == [n \in 0..m |-> IF n = m THEN WithFill(g[m - 1], batch[m]) ELSE g[n]]
    <2>3. \A n \in 0..m-1 : g[n] = IF n = 0 THEN tr ELSE WithFill(g[n - 1], batch[n])
          BY <2>2 DEF Folded
    <2>4. \A n \in 0..m : h[n] = IF n = 0 THEN tr ELSE WithFill(h[n - 1], batch[n])
      <3> SUFFICES ASSUME NEW n \in 0..m
                   PROVE  h[n] = IF n = 0 THEN tr ELSE WithFill(h[n - 1], batch[n])
          OBVIOUS
      <3>1. CASE n = m
            BY <3>1, <2>1, <1>3
      <3>2. CASE n # m
            BY <3>2, <2>1, <2>3
      <3> QED BY <3>1, <3>2
    <2>5. h = [n \in 0..m |-> h[n]]
          OBVIOUS
    <2> HIDE DEF h
    <2>6. Folded(h, tr, batch, m)
          BY <2>4, <2>5, Zenon DEF Folded
    <2> QED BY <2>6, <1>1
  <1> QED BY <1>2, <1>3

\* What the engine makes of a trade that is typed is typed.
LEMMA WithFillsTyped ==
    ASSUME NEW tr \in GoodTrade, NEW batch \in Seq(Fills)
    PROVE  WithFills(tr, batch) \in GoodTrade
  <1> DEFINE L == Len(batch)
             a == CHOOSE g : Folded(g, tr, batch, L)
  <1>1. L \in Nat /\ \A n \in 1..L : batch[n] \in Fills
        OBVIOUS
  <1>2. WithFills(tr, batch) = a[L]
        BY DEF WithFills, Folded
  <1> HIDE DEF L
  <1>3. Folded(a, tr, batch, L)
        BY <1>1, FoldExists
  <1> HIDE DEF a
  <1> DEFINE T == {m \in 0..L : a[m] \notin GoodTrade}
  <1>4. T = {}
    <2> SUFFICES ASSUME T # {} PROVE FALSE
        OBVIOUS
    <2>1. PICK m \in T : \A k \in T : m <= k
      <3>1. T \subseteq Nat
            BY <1>1
      <3> HIDE DEF T
      <3> QED BY <3>1, Least
    <2>2. m \in 0..L /\ a[m] \notin GoodTrade
          BY <2>1
    <2>3. a[m] = IF m = 0 THEN tr ELSE WithFill(a[m - 1], batch[m])
          BY <2>2, <1>3 DEF Folded
    <2>4. m # 0
          BY <2>2, <2>3
    <2>5. m - 1 \in 0..L /\ m \in 1..L /\ m - 1 \notin T
          BY <2>1, <2>2, <2>4, <1>1
    <2>6. a[m - 1] \in GoodTrade
          BY <2>5
    <2>7. WithFill(a[m - 1], batch[m]) \in GoodTrade
          BY <2>5, <2>6, <1>1, WithFillTyped
    <2> QED BY <2>2, <2>3, <2>4, <2>7
  <1> QED BY <1>1, <1>2, <1>4

Explains(row, tr, scheds) ==
    /\ tr # NULL /\ tr.status = "CLOSED"
    /\ row.gross_pnl = compute_gross_pnl(tr)
    /\ row.net_pnl + row.total_charges = row.gross_pnl
    /\ row.total_charges = TotalCharges(row.charges)
    /\ \E cs \in scheds :
          /\ LookupKey(cs) = row.schedule
          /\ 2 * Abs(row.total_charges * RateScale * RateScale - ExactCharges(tr, cs))
                <= Cardinality(Components) * RateScale * RateScale

Known(tr, scheds) == \E cs \in Candidates(scheds, tr) : cs.effective_from <= tr.trade_date

Risks == Nat \cup {NULL}

LEMMA GrossTyped ==
    ASSUME NEW tr \in PricedTrade
    PROVE  compute_gross_pnl(tr) \in Int
  <1>1. tr.average_entry \in Int /\ tr.average_exit \in Int /\ tr.total_entry_quantity \in Int
        BY DEF PricedTrade, TradeRow
  <1>2. /\ (tr.average_exit - tr.average_entry) * tr.total_entry_quantity \in Int
        /\ (tr.average_entry - tr.average_exit) * tr.total_entry_quantity \in Int
        BY <1>1
  <1> QED BY <1>2 DEF compute_gross_pnl

LEMMA RMultipleTyped ==
    ASSUME NEW net \in Int, NEW risk \in Risks
    PROVE  compute_r_multiple(net, risk) \in Int \cup {NULL}
  <1>1. CASE risk \in {NULL, 0}
        BY <1>1 DEF compute_r_multiple
  <1>2. CASE risk \notin {NULL, 0}
    <2>1. risk \in Nat \ {0} /\ net * RScale \in Int
          BY <1>2, ChargesAssumption DEF Risks
    <2>2. RoundHalfUp(net * RScale, risk) \in Int
          BY <2>1, RoundHalfUpBounds
    <2> QED BY <1>2, <2>2 DEF compute_r_multiple
  <1> QED BY <1>1, <1>2

LEMMA ScheduleTyped ==
    ASSUME NEW cs \in Schedule
    PROVE  LookupKey(cs) \in Brokers \X TradeTypes \X Segments \X Nat
  BY DEF LookupKey, Schedule, ChargeScheduleRow

\* The row computed for a closed trade is one of the table, and explained.
LEMMA PnlComputed ==
    ASSUME NEW tr \in PricedTrade, tr.status = "CLOSED", tr # NULL, NEW risk \in Risks,
           NEW scheds, NEW cs \in scheds, cs \in Schedule
    PROVE  compute_pnl(tr, risk, cs) \in PnlRow /\ Explains(compute_pnl(tr, risk, cs), tr, scheds)
  <1> DEFINE c == compute_charges(tr, cs)
             gross == compute_gross_pnl(tr)
             total == TotalCharges(c)
             row == compute_pnl(tr, risk, cs)
             r == compute_r_multiple(gross - total, risk)
             key == LookupKey(cs)
  <1>1. /\ c \in [Components -> Nat] /\ total \in Int
        /\ 2 * Abs(total * RateScale * RateScale - ExactCharges(tr, cs))
              <= Cardinality(Components) * RateScale * RateScale
        BY ChargesExact
  <1>2. gross \in Int
        BY GrossTyped
  <1>3. row = [gross_pnl |-> gross, net_pnl |-> gross - total, charges |-> c,
               total_charges |-> total, r_multiple |-> r, schedule |-> key]
        BY DEF compute_pnl
  <1> HIDE DEF c, gross, total, row
  <1>4. gross - total \in Int /\ (gross - total) + total = gross
        BY <1>1, <1>2
  <1>5. r \in Int \cup {NULL}
        BY <1>4, RMultipleTyped
  <1>6. key \in Brokers \X TradeTypes \X Segments \X Nat
        BY ScheduleTyped
  <1>7. total = TotalCharges(c) /\ gross = compute_gross_pnl(tr) /\ key = LookupKey(cs)
        BY DEF total, gross
  <1> HIDE DEF r, key
  <1>8. row \in PnlRow
        BY <1>1, <1>2, <1>3, <1>4, <1>5, <1>6 DEF PnlRow
  <1>9. /\ row.gross_pnl = gross /\ row.net_pnl = gross - total /\ row.charges = c
        /\ row.total_charges = total /\ row.schedule = key
        BY <1>3
  <1>10. Explains(row, tr, scheds)
        BY <1>1, <1>4, <1>7, <1>9 DEF Explains
  <1> QED BY <1>8, <1>10 DEF row

\* A trade is the same to its P&L.
SameToPnl(a, b) ==
    /\ a.status = b.status /\ a.direction = b.direction /\ a.trade_date = b.trade_date
    /\ a.average_entry = b.average_entry /\ a.average_exit = b.average_exit
    /\ a.total_entry_quantity = b.total_entry_quantity
    /\ a.broker = b.broker /\ a.trade_type = b.trade_type
    /\ a.exchange_segment = b.exchange_segment

LEMMA SameExplains ==
    ASSUME NEW a, NEW b, SameToPnl(a, b), b # NULL, NEW scheds, NEW more, scheds \subseteq more,
           NEW row, Explains(row, a, scheds)
    PROVE  Explains(row, b, more)
  <1>1. compute_gross_pnl(a) = compute_gross_pnl(b)
        BY DEF SameToPnl, compute_gross_pnl
  <1>2. \A cs : ExactCharges(a, cs) = ExactCharges(b, cs)
        BY DEF SameToPnl, ExactCharges
  <1>3. PICK cs \in more :
          /\ LookupKey(cs) = row.schedule
          /\ 2 * Abs(row.total_charges * RateScale * RateScale - ExactCharges(a, cs))
                <= Cardinality(Components) * RateScale * RateScale
        BY DEF Explains
  <1>4. 2 * Abs(row.total_charges * RateScale * RateScale - ExactCharges(b, cs))
                <= Cardinality(Components) * RateScale * RateScale
        BY <1>2, <1>3, Zenon
  <1> QED BY <1>1, <1>3, <1>4 DEF Explains, SameToPnl

LEMMA SameKnown ==
    ASSUME NEW a, NEW b, SameToPnl(a, b), NEW scheds, Known(b, scheds)
    PROVE  Known(a, scheds)
  BY DEF SameToPnl, Known, Candidates

\* What the P&L service returns for a trade.
LEMMA Calculated ==
    ASSUME NEW s, NEW tr \in GoodTrade, schedules \subseteq Schedule,
           get_planned_risk(s, tr) \in Risks
    PROVE  LET row == calculate_and_store(s, tr) IN
           /\ row # NULL => row \in PnlRow /\ Explains(row, tr, schedules)
           /\ tr.status = "CLOSED" /\ Known(tr, schedules) => row # NULL
  <1> DEFINE rows == {cs \in Candidates(schedules, tr) : cs.effective_from <= tr.trade_date}
             cs == Latest(rows)
             row == calculate_and_store(s, tr)
             risk == get_planned_risk(s, tr)
  <1>1. row = IF tr.status # "CLOSED" \/ cs = NULL THEN NULL ELSE compute_pnl(tr, risk, cs)
        BY DEF calculate_and_store, get_for_date
  <1>2. tr # NULL /\ tr \in TradeRow /\ tr.trade_date \in Nat
        BY NullAssumption, JournalAssumption DEF GoodTrade, TradeRow
  <1>3. rows \subseteq schedules /\ rows \subseteq Schedule
        BY DEF Candidates
  <1>4. CASE tr.status = "CLOSED" /\ rows # {}
    <2>1. cs \in rows
      <3>1. \A x \in rows : x.effective_from <= tr.trade_date
            OBVIOUS
      <3> HIDE DEF rows
      <3> QED BY <3>1, <1>2, <1>3, <1>4, LatestExists
    <2>2. tr \in PricedTrade
          BY <1>2, <1>4 DEF GoodTrade, Priced, PricedTrade
    <2>3. cs \in schedules /\ cs \in Schedule
          BY <2>1, <1>3
    <2> HIDE DEF cs, risk
    <2>4. /\ compute_pnl(tr, risk, cs) \in PnlRow
          /\ Explains(compute_pnl(tr, risk, cs), tr, schedules)
          BY <2>2, <2>3, <1>2, <1>4, PnlComputed DEF risk
    <2>5. CASE cs # NULL
          BY <2>4, <2>5, <1>1, <1>4, NullAssumption
    <2>6. cs # NULL
          BY <2>3, NullAssumption DEF Schedule
    <2> QED BY <2>5, <2>6
  <1>5. CASE tr.status # "CLOSED"
        BY <1>1, <1>5
  <1>6. CASE rows = {}
    <2>1. cs = NULL
          BY <1>6 DEF Latest
    <2>2. ~ Known(tr, schedules)
          BY <1>6 DEF Known
    <2> QED BY <2>1, <2>2, <1>1
  <1> QED BY <1>4, <1>5, <1>6

--------------------------------------------------------------------------------
(* The P&L of the trade. *)

Closed(tr) == tr # NULL /\ tr.status = "CLOSED"

GoodEntry == {e \in EntryRow : e.planned_stop # NULL => e.planned_risk_amount # NULL}

\* What a session has written is of its table, and under the lock of its row.
Holds(s) ==
    LET own == sess[s].own IN
    /\ own.trade \in GoodTrade \cup {NULL}
    /\ own.pnl \in PnlRow \cup {NULL}
    /\ own.entry \in GoodEntry \cup {NULL}
    /\ own.trade # NULL => lock["trade"] = s
    /\ own.pnl # NULL <=> lock["pnl"] = s
    /\ own.entry # NULL => lock["entry"] = s
    /\ sess[s].at = "idle" => own.trade = NULL /\ \A r \in Row : lock[r] # s
    /\ sess[s].at = "write" => own.trade = NULL /\ sess[s].seen.now \in GoodEntry
    /\ sess[s].at = "r_multiple" => own.trade = NULL /\ own.entry # NULL
    /\ sess[s].at \in {"head", "expire"} => sess[s].req \in Attachment

\* The P&L it has written or is going to write is that of the trade as it sees
\* it; a trade that is closed keeps what its P&L depends on; and a trade that it
\* closes has its P&L.
PnlRight(s) ==
    LET own == sess[s].own IN
    /\ own.pnl # NULL => Explains(own.pnl, TradeOf(s), schedules)
    /\ sess[s].at = "store" =>
          sess[s].seen \in PnlRow /\ Explains(sess[s].seen, TradeOf(s), schedules)
    /\ own.trade # NULL /\ Closed(trade) => SameToPnl(trade, own.trade)
    /\ Closed(own.trade) /\ ~Closed(trade) /\ Known(own.trade, schedules) => own.pnl # NULL

RowsTyped ==
    /\ trade \in GoodTrade \cup {NULL}
    /\ pnl \in PnlRow \cup {NULL}
    /\ entry \in GoodEntry \cup {NULL}
    /\ schedules \subseteq Schedule
    /\ lock \in [Row -> Session \cup {NULL}]

JInv ==
    /\ Filled
    /\ RowsTyped
    /\ pnl # NULL => Explains(pnl, trade, schedules)
    /\ \A s \in Session : Holds(s) /\ PnlRight(s)

LEMMA Nulls ==
    /\ NULL \notin GoodTrade /\ NULL \notin PnlRow /\ NULL \notin GoodEntry
    /\ NULL \notin Session /\ NULL \notin Schedule
    /\ Row = {"trade", "pnl", "entry"} \cup Attachment
    /\ \A a \in Attachment : a # "trade" /\ a # "pnl" /\ a # "entry"
  BY NullAssumption, JournalAssumption DEF GoodTrade, GoodEntry, Schedule, Row

LEMMA JInit == Init => JInv
  <1> SUFFICES ASSUME Init PROVE JInv
      OBVIOUS
  <1>1. Filled
        BY DEF Init, Filled, Idle, NothingWritten
  <1>2. RowsTyped
    <2>1. schedules \subseteq Schedule
          BY MigrationsAssumption DEF Init, Schedule
    <2> QED BY <2>1 DEF Init, RowsTyped
  <1>3. \A s \in Session : Holds(s)
        BY Nulls DEF Init, Holds, Idle, NothingWritten
  <1>4. \A s \in Session : PnlRight(s)
        BY DEF Init, PnlRight, Closed, Idle, NothingWritten
  <1> QED BY <1>1, <1>2, <1>3, <1>4 DEF Init, JInv

\* A step of one session that commits nothing.
LEMMA OneSession ==
    ASSUME JInv, NEW s \in Session, UNCHANGED <<trade, pnl, entry, schedules>>, Filled',
           \A t \in Session \ {s} : sess'[t] = sess[t],
           lock' \in [Row -> Session \cup {NULL}],
           \A r \in Row : lock'[r] = lock[r] \/ {lock[r], lock'[r]} \subseteq {NULL, s},
           Holds(s)', PnlRight(s)'
    PROVE  JInv'
  <1>1. \A t \in Session \ {s} : Holds(t)'
    <2> SUFFICES ASSUME NEW t \in Session \ {s} PROVE Holds(t)'
        OBVIOUS
    <2>1. \A r \in Row : lock'[r] = t <=> lock[r] = t
          BY Nulls
    <2>2. Holds(t) /\ sess'[t] = sess[t] /\ {"trade", "pnl", "entry"} \subseteq Row
          BY Nulls DEF JInv
    <2> QED BY <2>1, <2>2 DEF Holds
  <1>2. \A t \in Session \ {s} : PnlRight(t)'
    <2> SUFFICES ASSUME NEW t \in Session \ {s} PROVE PnlRight(t)'
        OBVIOUS
    <2>1. PnlRight(t) /\ sess'[t] = sess[t]
          BY DEF JInv
    <2>2. \A row : Explains(row, TradeOf(t), schedules)' <=> Explains(row, TradeOf(t), schedules)
          BY <2>1 DEF TradeOf, Or
    <2> QED BY <2>1, <2>2 DEF PnlRight, TradeOf, Or, Closed
  <1> QED BY <1>1, <1>2 DEF JInv, RowsTyped

\* A session that gives up lets go of its locks.
LEMMA RollbackRight ==
    ASSUME JInv, NEW s \in Session, Rollback(s)
    PROVE  JInv'
  <1>1. /\ UNCHANGED <<trade, pnl, entry, schedules>> /\ Filled' /\ sess'[s] = Idle
        /\ \A t \in Session \ {s} : sess'[t] = sess[t]
        BY DEF JInv, Filled, Rollback, Idle, NothingWritten, tables
  <1>2. \A r \in Row : lock'[r] = IF lock[r] = s THEN NULL ELSE lock[r]
        BY DEF Rollback, Released
  <1>3. lock' \in [Row -> Session \cup {NULL}]
        BY DEF JInv, RowsTyped, Rollback, Released
  <1>4. Holds(s)'
        BY <1>1, <1>2, Nulls DEF Holds, Idle, NothingWritten
  <1>5. PnlRight(s)'
        BY <1>1 DEF PnlRight, Closed, Idle, NothingWritten
  <1> QED BY <1>1, <1>2, <1>3, <1>4, <1>5, OneSession

LEMMA RiskTyped ==
    ASSUME NEW tr \in TradeRow, NEW stop \in Stop
    PROVE  RiskOf(tr, stop) \in Nat
  <1>1. tr.average_entry \in Nat /\ tr.total_entry_quantity \in Nat /\ stop \in Nat
        BY JournalAssumption DEF TradeRow
  <1>2. tr.average_entry - stop \in Int
        BY <1>1
  <1>3. Abs(tr.average_entry - stop) \in Nat
        BY <1>2, AbsProperties
  <1> HIDE DEF Abs
  <1> QED BY <1>1, <1>3 DEF RiskOf

LEMMA PlannedTyped ==
    ASSUME NEW tr \in GoodTrade, NEW stop \in Stop \cup {NULL}
    PROVE  Planned(tr, stop) \in GoodTrade /\ SameToPnl(tr, Planned(tr, stop))
  <1>1. CASE stop = NULL
        BY <1>1 DEF Planned, SameToPnl
  <1>2. CASE stop # NULL
    <2>1. stop \in Stop /\ RiskOf(tr, stop) \in Nat
          BY <1>2, RiskTyped DEF GoodTrade
    <2> QED BY <1>2, <2>1 DEF Planned, GoodTrade, Priced, TradeRow, SameToPnl
  <1> QED BY <1>1, <1>2

LEMMA RiskRead ==
    ASSUME JInv, NEW s \in Session, NEW tr \in GoodTrade
    PROVE  get_planned_risk(s, tr) \in Risks
  <1>1. EntryOf(s) \in GoodEntry \cup {NULL}
        BY DEF JInv, RowsTyped, Holds, EntryOf, Or
  <1>2. EntryOf(s) # NULL => EntryOf(s).planned_risk_amount \in Risks
        BY <1>1 DEF GoodEntry, EntryRow, Risks
  <1>3. tr.planned_risk_amount \in Risks
        BY DEF GoodTrade, TradeRow, Risks
  <1> QED BY <1>2, <1>3 DEF get_planned_risk

LEMMA BatchesTyped ==
    ASSUME NEW b \in Batches
    PROVE  /\ b \in Seq(Fills)
           /\ b # <<>> => b[1] \in Fills /\ Tail(b) \in Seq(Fills)
  <1>1. PICK n \in 0..MaxQty : b \in [1..n -> Fills]
        BY DEF Batches
  <1>2. n \in Nat
        BY <1>1, JournalAssumption
  <1>3. b \in Seq(Fills)
        BY <1>1, <1>2
  <1> QED BY <1>3

LEMMA OutcomesTyped ==
    ASSUME NEW kind, NEW batch \in Batches, NEW tr \in Outcomes(kind, batch),
           trade \in GoodTrade \cup {NULL}
    PROVE  IF batch = <<>> THEN tr = NULL ELSE tr \in GoodTrade
  <1>1. CASE batch = <<>>
        BY <1>1 DEF Outcomes
  <1>2. CASE batch # <<>> /\ trade = NULL
    <2>1. PICK direction \in {"LONG", "SHORT"}, date \in Date :
             tr = WithFills(NewTrade(kind, direction, date, batch[1].price), Tail(batch))
          BY <1>2 DEF Outcomes
    <2>2. batch[1].price \in Nat
          BY <1>2, BatchesTyped, JournalAssumption DEF Fills
    <2>3. NewTrade(kind, direction, date, batch[1].price) \in GoodTrade
      <3> DEFINE manual == kind # "import"
                 broker == IF kind = "import" THEN "ZERODHA" ELSE "MANUAL"
                 new == NewTrade(kind, direction, date, batch[1].price)
      <3>1. manual \in BOOLEAN /\ broker \in Brokers
            BY DEF Brokers
      <3>2. new = [status |-> "OPEN", direction |-> direction, trade_date |-> date,
                   average_entry |-> batch[1].price, total_entry_quantity |-> 1,
                   average_exit |-> NULL, planned_stop |-> NULL, planned_risk_amount |-> NULL,
                   is_deleted |-> FALSE, broker |-> broker, manual |-> manual,
                   trade_type |-> "MIS", exchange_segment |-> "NSE_EQ"]
            BY DEF NewTrade
      <3> HIDE DEF manual, broker, new
      <3>3. new \in TradeRow /\ new.status = "OPEN"
            BY <2>1, <2>2, <3>1, <3>2 DEF TradeRow, TradeTypes, Segments
      <3> QED BY <3>3 DEF GoodTrade, Priced, new
    <2> QED BY <1>2, <2>1, <2>3, BatchesTyped, WithFillsTyped
  <1>3. CASE batch # <<>> /\ trade # NULL
    <2> DEFINE tr1 == [trade EXCEPT !.manual = @ /\ kind # "import"]
    <2>1. tr = WithFills(tr1, batch)
          BY <1>3 DEF Outcomes
    <2>2. tr1 \in GoodTrade
          BY <1>3 DEF GoodTrade, Priced, TradeRow
    <2> HIDE DEF tr1
    <2> QED BY <1>3, <2>1, <2>2, BatchesTyped, WithFillsTyped
  <1> QED BY <1>1, <1>2, <1>3

LEMMA HoldingFields ==
    ASSUME NEW tr, NEW row, NEW at
    PROVE  LET h == Holding(tr, row, at) IN
           /\ {"at", "req", "seen", "own"} \subseteq DOMAIN h
           /\ DOMAIN NothingWritten \subseteq DOMAIN h.own
           /\ h.at = at /\ h.own.trade = tr /\ h.own.pnl = row
           /\ h.own.entry = NULL /\ h.own.audit = <<>> /\ h.own.att = NULL
  <1> DEFINE h1 == [Idle EXCEPT !.at = at]
             h2 == [h1 EXCEPT !.own.trade = tr]
             h3 == [h2 EXCEPT !.own.pnl = row]
             own == [trade |-> tr, pnl |-> NULL, entry |-> NULL, audit |-> <<>>,
                     att |-> NULL, row |-> NULL]
  <1>1. Holding(tr, row, at) = h3
        BY DEF Holding
  <1>2. h1 = [at |-> at, req |-> NULL, seen |-> NULL, own |-> NothingWritten]
        BY DEF Idle
  <1> HIDE DEF h1
  <1>3. h2 = [at |-> at, req |-> NULL, seen |-> NULL, own |-> own]
        BY <1>2 DEF NothingWritten
  <1> HIDE DEF h2
  <1>4. h3 = [at |-> at, req |-> NULL, seen |-> NULL, own |-> [own EXCEPT !.pnl = row]]
        BY <1>3
  <1> HIDE DEF h3
  <1> QED BY <1>1, <1>4 DEF NothingWritten

\* What a run of the engine leaves in its session.
Ran(s, tr, row, at) ==
    /\ at \in {"backfill", "commit"}
    /\ sess' = [sess EXCEPT ![s] = Holding(tr, row, at)]
    /\ lock' = [lock EXCEPT !["trade"] = IF tr = NULL THEN @ ELSE s,
                            !["pnl"] = IF row = NULL THEN @ ELSE s]
    /\ tr = NULL => row = NULL
    /\ tr # NULL => tr \in GoodTrade /\ ~Closed(trade)
    /\ row # NULL => row \in PnlRow /\ Explains(row, tr, schedules)
    /\ Closed(tr) /\ Known(tr, schedules) => row # NULL

LEMMA RunResult ==
    ASSUME JInv, NEW s \in Session, Run(s)
    PROVE  \E tr, row, at : Ran(s, tr, row, at)
  <1>0. PICK req \in Requests : \E tr \in Outcomes(req.kind, req.batch) :
           /\ trade # NULL /\ req.batch # <<>> => trade.status = "OPEN" /\ ~trade.is_deleted
           /\ trade = NULL => req.kind # "add_fill"
           /\ sess' = [sess EXCEPT ![s] =
                  Holding(Planned(tr, PlannedStop(req)),
                          IF tr = NULL THEN NULL ELSE calculate_and_store(s, tr),
                          IF req.kind = "import" \/ tr.status = "CLOSED"
                          THEN "backfill" ELSE "commit")]
           /\ lock' = [lock EXCEPT
                  !["trade"] = IF tr = NULL THEN @ ELSE s,
                  !["pnl"] = IF (IF tr = NULL THEN NULL ELSE calculate_and_store(s, tr)) = NULL
                             THEN @ ELSE s]
        BY Zenon DEF Run
  <1>1. PICK tr \in Outcomes(req.kind, req.batch) :
           /\ trade # NULL /\ req.batch # <<>> => trade.status = "OPEN" /\ ~trade.is_deleted
           /\ trade = NULL => req.kind # "add_fill"
           /\ sess' = [sess EXCEPT ![s] =
                  Holding(Planned(tr, PlannedStop(req)),
                          IF tr = NULL THEN NULL ELSE calculate_and_store(s, tr),
                          IF req.kind = "import" \/ tr.status = "CLOSED"
                          THEN "backfill" ELSE "commit")]
           /\ lock' = [lock EXCEPT
                  !["trade"] = IF tr = NULL THEN @ ELSE s,
                  !["pnl"] = IF (IF tr = NULL THEN NULL ELSE calculate_and_store(s, tr)) = NULL
                             THEN @ ELSE s]
        BY <1>0, Zenon
  <1> DEFINE row == IF tr = NULL THEN NULL ELSE calculate_and_store(s, tr)
             stop == PlannedStop(req)
             at == IF req.kind = "import" \/ tr.status = "CLOSED" THEN "backfill" ELSE "commit"
             tr1 == Planned(tr, stop)
  <1>2. req.batch \in Batches /\ stop \in Stop \cup {NULL} /\ (req.batch = <<>> => stop = NULL)
    <2>1. CASE req.kind = "create"
          BY <2>1, <1>1 DEF Requests, PlannedStop
    <2>2. CASE req.kind = "add_fill"
      <3>1. req.batch \in Batches /\ Len(req.batch) = 1
            BY <2>2 DEF Requests
      <3>2. trade \in TradeRow
            BY <1>1, <2>2 DEF JInv, RowsTyped, GoodTrade
      <3>3. trade.planned_stop \in Stop \cup {NULL}
            BY <3>2 DEF TradeRow
      <3>4. stop = trade.planned_stop
            BY <2>2 DEF PlannedStop
      <3>5. req.batch # <<>>
            BY <3>1
      <3> QED BY <3>1, <3>3, <3>4, <3>5
    <2>3. CASE req.kind = "import"
          BY <2>3 DEF Requests, PlannedStop
    <2> QED BY <2>1, <2>2, <2>3 DEF Requests
  <1>3. IF req.batch = <<>> THEN tr = NULL ELSE tr \in GoodTrade
        BY <1>2, OutcomesTyped DEF JInv, RowsTyped
  <1>4. /\ sess' = [sess EXCEPT ![s] = Holding(tr1, row, at)]
        /\ lock' = [lock EXCEPT !["trade"] = IF tr = NULL THEN @ ELSE s,
                                !["pnl"] = IF row = NULL THEN @ ELSE s]
        BY <1>1
  <1>5. at \in {"backfill", "commit"}
        OBVIOUS
  <1> HIDE DEF stop, at
  <1>6. CASE req.batch = <<>>
    <2>1. tr = NULL /\ tr1 = NULL /\ row = NULL
          BY <1>2, <1>3, <1>6 DEF Planned
    <2> QED BY <2>1, <1>4, <1>5 DEF Ran, Closed
  <1>7. CASE req.batch # <<>>
    <2>1. tr \in GoodTrade /\ tr # NULL /\ ~Closed(trade)
          BY <1>1, <1>3, <1>7, Nulls DEF Closed
    <2>2. tr1 \in GoodTrade /\ SameToPnl(tr, tr1) /\ tr1 # NULL
          BY <2>1, <1>2, PlannedTyped, Nulls
    <2>3. /\ row # NULL => row \in PnlRow /\ Explains(row, tr, schedules)
          /\ tr.status = "CLOSED" /\ Known(tr, schedules) => row # NULL
          BY <2>1, RiskRead, Calculated DEF JInv, RowsTyped
    <2> HIDE DEF row, tr1
    <2>4. row # NULL => Explains(row, tr1, schedules)
          BY <2>2, <2>3, SameExplains
    <2>5. Closed(tr1) /\ Known(tr1, schedules) => row # NULL
          BY <2>2, <2>3, SameKnown DEF Closed, SameToPnl
    <2>6. (tr1 = NULL) = (tr = NULL)
          BY <2>1, <2>2
    <2> QED BY <2>1, <2>2, <2>3, <2>4, <2>5, <2>6, <1>4, <1>5 DEF Ran
  <1> QED BY <1>6, <1>7

\* Nobody has written the P&L of a trade that is not closed and not locked.
LEMMA RunRight ==
    ASSUME JInv, NEW s \in Session, Run(s)
    PROVE  JInv'
  <1>1. PICK tr, row, at : Ran(s, tr, row, at)
        BY RunResult
  <1>2. UNCHANGED <<trade, pnl, entry, schedules>> /\ sess[s].at = "idle" /\ lock["trade"] = NULL
        BY DEF Run, tables
  <1>3. /\ Filled' /\ sess'[s] = Holding(tr, row, at)
        /\ \A t \in Session \ {s} : sess'[t] = sess[t]
        BY <1>1 DEF JInv, Filled, Ran, Holding, Idle, NothingWritten
  <1>4. /\ sess'[s].at = at /\ sess'[s].own.trade = tr /\ sess'[s].own.pnl = row
        /\ sess'[s].own.entry = NULL
        BY <1>3, HoldingFields
  <1>5. row # NULL => lock["pnl"] = NULL
    <2> SUFFICES ASSUME row # NULL, lock["pnl"] # NULL PROVE FALSE
        OBVIOUS
    <2> DEFINE t == lock["pnl"]
    <2>1. t \in Session /\ sess[t].own.pnl # NULL
          BY Nulls DEF JInv, RowsTyped, Holds
    <2>2. sess[t].own.trade = NULL
          BY <2>1, <1>2, Nulls DEF JInv, Holds
    <2>3. Explains(sess[t].own.pnl, trade, schedules)
          BY <2>1, <2>2 DEF JInv, PnlRight, TradeOf, Or
    <2> QED BY <2>3, <1>1 DEF Ran, Explains, Closed
  <1>6. /\ lock \in [Row -> Session \cup {NULL}] /\ {"trade", "pnl", "entry"} \subseteq Row
        /\ \A r \in Row : lock[r] # s
        BY <1>2, Nulls DEF JInv, RowsTyped, Holds
  <1>7. /\ lock' \in [Row -> Session \cup {NULL}]
        /\ lock'["trade"] = IF tr = NULL THEN lock["trade"] ELSE s
        /\ lock'["pnl"] = IF row = NULL THEN lock["pnl"] ELSE s
        /\ \A r \in Row \ {"trade", "pnl"} : lock'[r] = lock[r]
        BY <1>1, <1>6 DEF Ran
  <1>8. \A r \in Row : lock'[r] = lock[r] \/ {lock[r], lock'[r]} \subseteq {NULL, s}
        BY <1>2, <1>5, <1>7
  <1>9. Holds(s)'
        BY <1>1, <1>4, <1>6, <1>7 DEF Ran, Holds
  <1>10. PnlRight(s)'
        BY <1>1, <1>2, <1>4 DEF Ran, PnlRight, TradeOf, Or, Closed
  <1> QED BY <1>2, <1>3, <1>7, <1>8, <1>9, <1>10, OneSession

LEMMA BackfillRight ==
    ASSUME JInv, NEW s \in Session, Backfill(s)
    PROVE  JInv'
  <1> DEFINE row == IF LacksPnl(s) THEN calculate_and_store(s, TradeOf(s)) ELSE NULL
             at == IF row = NULL THEN "commit" ELSE "store"
  <1>1. /\ UNCHANGED <<trade, pnl, entry, schedules, lock>>
        /\ sess' = [sess EXCEPT ![s].at = at, ![s].seen = row]
        BY DEF Backfill, tables
  <1>2. row # NULL => row \in PnlRow /\ Explains(row, TradeOf(s), schedules)
    <2>1. CASE LacksPnl(s)
      <3>1. TradeOf(s) \in GoodTrade
            BY <2>1 DEF LacksPnl, JInv, RowsTyped, Holds, TradeOf, Or
      <3> QED BY <2>1, <3>1, RiskRead, Calculated DEF JInv, RowsTyped
    <2> QED BY <2>1
  <1> HIDE DEF row
  <1>3. /\ Filled' /\ sess'[s].at = at /\ sess'[s].seen = row /\ sess'[s].own = sess[s].own
        /\ \A t \in Session \ {s} : sess'[t] = sess[t]
        BY <1>1 DEF JInv, Filled
  <1>4. Holds(s)'
        BY <1>1, <1>3 DEF JInv, Holds
  <1>5. PnlRight(s)'
        BY <1>1, <1>2, <1>3 DEF JInv, PnlRight, TradeOf, Or
  <1>6. lock' \in [Row -> Session \cup {NULL}]
        BY <1>1 DEF JInv, RowsTyped
  <1> QED BY <1>1, <1>3, <1>4, <1>5, <1>6, OneSession

\* A lock taken on a row that is free.
LEMMA Locking ==
    ASSUME JInv, NEW s \in Session, NEW r \in Row, Free(s, r),
           lock' = [lock EXCEPT ![r] = s]
    PROVE  /\ lock' \in [Row -> Session \cup {NULL}]
           /\ lock'[r] = s /\ \A q \in Row \ {r} : lock'[q] = lock[q]
           /\ \A q \in Row : lock'[q] = lock[q] \/ {lock[q], lock'[q]} \subseteq {NULL, s}
  BY DEF JInv, RowsTyped, Free

LEMMA StoreRight ==
    ASSUME JInv, NEW s \in Session, Store(s)
    PROVE  JInv'
  <1>1. /\ UNCHANGED <<trade, pnl, entry, schedules>> /\ sess[s].at = "store"
        /\ Free(s, "pnl") /\ lock' = [lock EXCEPT !["pnl"] = s]
        /\ sess' = [sess EXCEPT ![s].at = "commit", ![s].own.pnl = sess[s].seen, ![s].seen = NULL]
        BY DEF Store, tables
  <1>2. /\ Filled' /\ \A t \in Session \ {s} : sess'[t] = sess[t]
        BY <1>1 DEF JInv, Filled
  <1>3. /\ sess'[s].at = "commit" /\ sess'[s].own.pnl = sess[s].seen
        /\ sess'[s].own.trade = sess[s].own.trade /\ sess'[s].own.entry = sess[s].own.entry
        BY <1>1 DEF JInv, Filled, NothingWritten
  <1>4. sess[s].seen \in PnlRow /\ Explains(sess[s].seen, TradeOf(s), schedules)
        BY <1>1 DEF JInv, PnlRight
  <1>5. {"trade", "pnl", "entry"} \subseteq Row
        BY Nulls
  <1>6. /\ lock' \in [Row -> Session \cup {NULL}]
        /\ lock'["pnl"] = s /\ \A q \in Row \ {"pnl"} : lock'[q] = lock[q]
        /\ \A q \in Row : lock'[q] = lock[q] \/ {lock[q], lock'[q]} \subseteq {NULL, s}
        BY <1>1, <1>5, Locking
  <1>7. Holds(s)'
        BY <1>3, <1>4, <1>5, <1>6, Nulls DEF JInv, Holds
  <1>8. PnlRight(s)'
        BY <1>1, <1>3, <1>4, Nulls DEF JInv, PnlRight, TradeOf, Or
  <1> QED BY <1>1, <1>2, <1>6, <1>7, <1>8, OneSession

LEMMA DeleteRight ==
    ASSUME JInv, NEW s \in Session, Delete(s)
    PROVE  JInv'
  <1> DEFINE tr == [trade EXCEPT !.is_deleted = TRUE]
  <1>1. /\ UNCHANGED <<trade, pnl, entry, schedules>> /\ sess[s].at = "idle"
        /\ lock["trade"] = NULL /\ lock' = [lock EXCEPT !["trade"] = s] /\ trade # NULL
        /\ sess' = [sess EXCEPT ![s] = [Idle EXCEPT !.at = "commit", !.own.trade = tr]]
        BY DEF Delete, tables
  <1>2. tr \in GoodTrade /\ SameToPnl(trade, tr)
        BY <1>1 DEF JInv, RowsTyped, GoodTrade, Priced, TradeRow, SameToPnl
  <1> HIDE DEF tr
  <1>3. /\ Filled' /\ \A t \in Session \ {s} : sess'[t] = sess[t]
        BY <1>1 DEF JInv, Filled, Idle, NothingWritten
  <1>4. /\ sess'[s].at = "commit" /\ sess'[s].own.trade = tr
        /\ sess'[s].own.pnl = NULL /\ sess'[s].own.entry = NULL
        BY <1>1 DEF JInv, Filled, Idle, NothingWritten
  <1>5. {"trade", "pnl", "entry"} \subseteq Row /\ \A r \in Row : lock[r] # s
        BY <1>1, Nulls DEF JInv, Holds
  <1>6. /\ lock' \in [Row -> Session \cup {NULL}]
        /\ lock'["trade"] = s /\ \A q \in Row \ {"trade"} : lock'[q] = lock[q]
        /\ \A q \in Row : lock'[q] = lock[q] \/ {lock[q], lock'[q]} \subseteq {NULL, s}
        BY <1>1, <1>5, Locking DEF Free
  <1>7. Holds(s)'
        BY <1>2, <1>4, <1>5, <1>6 DEF Holds
  <1>8. PnlRight(s)'
        BY <1>1, <1>2, <1>4 DEF PnlRight, Closed, SameToPnl
  <1> QED BY <1>1, <1>3, <1>6, <1>7, <1>8, OneSession

--------------------------------------------------------------------------------
(* The entry. *)

LEMMA EntryFromTyped ==
    ASSUME NEW data \in JournalEntryWrite, NEW tr \in TradeRow
    PROVE  EntryFrom(data, tr) \in GoodEntry
  <1>1. data.planned_stop \in Stop \cup {NULL} /\ data.notes \in Note \cup {NULL}
        BY DEF JournalEntryWrite
  <1>2. CASE data.planned_stop = NULL
        BY <1>1, <1>2 DEF EntryFrom, GoodEntry, EntryRow
  <1>3. CASE data.planned_stop # NULL
    <2>1. RiskOf(tr, data.planned_stop) \in Nat
          BY <1>1, <1>3, RiskTyped
    <2> QED BY <1>1, <1>3, <2>1, NullAssumption DEF EntryFrom, GoodEntry, EntryRow
  <1> QED BY <1>2, <1>3

LEMMA ReadRight ==
    ASSUME JInv, NEW s \in Session, ReadForUpsert(s)
    PROVE  JInv'
  <1>1. PICK data \in JournalEntryWrite :
           sess' = [sess EXCEPT ![s] = [Idle EXCEPT !.at = "write", !.req = data,
                       !.seen = [was |-> entry, now |-> EntryFrom(data, trade)]]]
        BY DEF ReadForUpsert
  <1>2. /\ UNCHANGED <<trade, pnl, entry, schedules, lock>> /\ sess[s].at = "idle"
        /\ trade \in TradeRow
        BY DEF ReadForUpsert, Visible, tables, JInv, RowsTyped, GoodTrade
  <1>3. EntryFrom(data, trade) \in GoodEntry
        BY <1>2, EntryFromTyped
  <1>4. /\ Filled' /\ \A t \in Session \ {s} : sess'[t] = sess[t]
        BY <1>1 DEF JInv, Filled, Idle, NothingWritten
  <1>5. /\ sess'[s].at = "write" /\ sess'[s].own = NothingWritten
        /\ sess'[s].seen.now = EntryFrom(data, trade)
        BY <1>1 DEF JInv, Filled, Idle
  <1>6. {"trade", "pnl", "entry"} \subseteq Row /\ \A r \in Row : lock[r] # s
        BY <1>2, Nulls DEF JInv, Holds
  <1>7. Holds(s)'
        BY <1>2, <1>3, <1>5, <1>6 DEF Holds, NothingWritten
  <1>8. PnlRight(s)'
        BY <1>5 DEF PnlRight, NothingWritten, Closed
  <1>9. lock' \in [Row -> Session \cup {NULL}]
        BY <1>2 DEF JInv, RowsTyped
  <1> QED BY <1>2, <1>4, <1>7, <1>8, <1>9, OneSession

LEMMA WriteRight ==
    ASSUME JInv, NEW s \in Session, WriteEntry(s)
    PROVE  JInv'
  <1> DEFINE rows == IF sess[s].seen.was = NULL THEN <<>>
                     ELSE DiffForAudit(sess[s].seen.was, sess[s].req)
  <1>1. /\ UNCHANGED <<trade, pnl, entry, schedules>> /\ sess[s].at = "write"
        /\ Free(s, "entry") /\ lock' = [lock EXCEPT !["entry"] = s]
        /\ sess' = [sess EXCEPT ![s].at = "r_multiple", ![s].own.entry = sess[s].seen.now,
                       ![s].req = NULL, ![s].seen = NULL, ![s].own.audit = rows]
        BY DEF WriteEntry, tables
  <1> HIDE DEF rows
  <1>2. /\ Filled' /\ \A t \in Session \ {s} : sess'[t] = sess[t]
        BY <1>1 DEF JInv, Filled
  <1>3. /\ sess'[s].at = "r_multiple" /\ sess'[s].own.entry = sess[s].seen.now
        /\ sess'[s].own.trade = sess[s].own.trade /\ sess'[s].own.pnl = sess[s].own.pnl
        BY <1>1 DEF JInv, Filled, NothingWritten
  <1>4. sess[s].seen.now \in GoodEntry /\ sess[s].own.trade = NULL
        BY <1>1 DEF JInv, Holds
  <1>5. {"trade", "pnl", "entry"} \subseteq Row
        BY Nulls
  <1>6. /\ lock' \in [Row -> Session \cup {NULL}]
        /\ lock'["entry"] = s /\ \A q \in Row \ {"entry"} : lock'[q] = lock[q]
        /\ \A q \in Row : lock'[q] = lock[q] \/ {lock[q], lock'[q]} \subseteq {NULL, s}
        BY <1>1, <1>5, Locking
  <1>7. Holds(s)'
        BY <1>3, <1>4, <1>5, <1>6, Nulls DEF JInv, Holds
  <1>8. PnlRight(s)'
        BY <1>1, <1>3, <1>4 DEF JInv, PnlRight, TradeOf, Or, Closed
  <1> QED BY <1>1, <1>2, <1>6, <1>7, <1>8, OneSession

\* Another R changes nothing that explains a P&L row.
LEMMA RExplained ==
    ASSUME NEW row \in PnlRow, NEW r \in Int \cup {NULL}, NEW tr, NEW scheds,
           Explains(row, tr, scheds)
    PROVE  LET new == [row EXCEPT !.r_multiple = r] IN
           new \in PnlRow /\ Explains(new, tr, scheds)
  <1> DEFINE new == [row EXCEPT !.r_multiple = r]
  <1>1. /\ new \in PnlRow /\ new.gross_pnl = row.gross_pnl /\ new.net_pnl = row.net_pnl
        /\ new.total_charges = row.total_charges /\ new.charges = row.charges
        /\ new.schedule = row.schedule
        BY DEF PnlRow
  <1> HIDE DEF new
  <1>2. Explains(new, tr, scheds)
        BY <1>1, Zenon DEF Explains
  <1> QED BY <1>1, <1>2 DEF new

LEMMA RecalculateRight ==
    ASSUME JInv, NEW s \in Session, Recalculate(s)
    PROVE  JInv'
  <1>1. UNCHANGED <<trade, pnl, entry, schedules>> /\ sess[s].at = "r_multiple"
        BY DEF Recalculate, tables
  <1>2. CASE /\ Goto(s, "commit") /\ UNCHANGED lock
    <2>1. /\ Filled' /\ sess'[s].at = "commit" /\ sess'[s].own = sess[s].own
          /\ \A t \in Session \ {s} : sess'[t] = sess[t]
          BY <1>2 DEF Goto, JInv, Filled
    <2>2. Holds(s)'
          BY <1>1, <1>2, <2>1 DEF JInv, Holds
    <2>3. PnlRight(s)'
          BY <1>1, <1>2, <2>1 DEF JInv, PnlRight, TradeOf, Or
    <2>4. lock' \in [Row -> Session \cup {NULL}]
          BY <1>2 DEF JInv, RowsTyped
    <2> QED BY <1>1, <1>2, <2>1, <2>2, <2>3, <2>4, OneSession
  <1>3. CASE ~ (Goto(s, "commit") /\ UNCHANGED lock)
    <2> DEFINE r == compute_r_multiple(pnl.net_pnl, get_planned_risk(s, trade))
               new == [pnl EXCEPT !.r_multiple = r]
    <2>1. /\ pnl # NULL /\ Free(s, "pnl") /\ lock' = [lock EXCEPT !["pnl"] = s]
          /\ sess' = [sess EXCEPT ![s].at = "commit", ![s].own.pnl = new]
          BY <1>3 DEF Recalculate
    <2>2. new \in PnlRow /\ Explains(new, trade, schedules)
      <3>1. pnl \in PnlRow /\ pnl.net_pnl \in Int /\ Explains(pnl, trade, schedules)
            BY <2>1 DEF JInv, RowsTyped, PnlRow
      <3>2. trade \in GoodTrade
            BY <3>1 DEF Explains, JInv, RowsTyped
      <3>3. r \in Int \cup {NULL}
            BY <3>1, <3>2, RiskRead, RMultipleTyped
      <3> HIDE DEF r
      <3> QED BY <3>1, <3>3, RExplained
    <2> HIDE DEF new
    <2>3. /\ Filled' /\ \A t \in Session \ {s} : sess'[t] = sess[t]
          BY <2>1 DEF JInv, Filled
    <2>4. /\ sess'[s].at = "commit" /\ sess'[s].own.pnl = new
          /\ sess'[s].own.trade = sess[s].own.trade /\ sess'[s].own.entry = sess[s].own.entry
          BY <2>1 DEF JInv, Filled, NothingWritten
    <2>5. sess[s].own.trade = NULL
          BY <1>1 DEF JInv, Holds
    <2>6. {"trade", "pnl", "entry"} \subseteq Row
          BY Nulls
    <2>7. /\ lock' \in [Row -> Session \cup {NULL}]
          /\ lock'["pnl"] = s /\ \A q \in Row \ {"pnl"} : lock'[q] = lock[q]
          /\ \A q \in Row : lock'[q] = lock[q] \/ {lock[q], lock'[q]} \subseteq {NULL, s}
          BY <2>1, <2>6, Locking
    <2>8. Holds(s)'
          BY <2>2, <2>4, <2>5, <2>6, <2>7, Nulls DEF JInv, Holds
    <2>9. PnlRight(s)'
          BY <1>1, <2>2, <2>4, <2>5 DEF PnlRight, TradeOf, Or, Closed
    <2> QED BY <1>1, <2>3, <2>7, <2>8, <2>9, OneSession
  <1> QED BY <1>2, <1>3

\* A request about an attachment begins, or goes on to its commit.
LEMMA PresignRight ==
    ASSUME JInv, NEW s \in Session, Presign(s) \/ Confirm(s) \/ DeleteAttachment(s)
    PROVE  JInv'
  <1> USE DEF Filled, Idle
  <1>1. UNCHANGED <<trade, pnl, entry, schedules>> /\ sess[s].at = "idle"
        BY DEF Presign, Confirm, DeleteAttachment, tables
  <1>2. /\ Filled' /\ \A t \in Session \ {s} : sess'[t] = sess[t]
        /\ sess'[s].at \in {"presign", "head", "expire", "commit"}
        /\ sess'[s].at \in {"head", "expire"} => sess'[s].req \in Attachment
        /\ sess'[s].own.trade = NULL /\ sess'[s].own.pnl = NULL /\ sess'[s].own.entry = NULL
    <2>1. CASE Presign(s)
      <3>1. PICK a \in Attachment, n \in Size :
               sess' = [sess EXCEPT ![s] = [Idle EXCEPT !.at = "presign", !.req = a,
                               !.seen = [was |-> entry, row |-> PendingRow(n)]]]
            BY <2>1 DEF Presign
      <3> QED BY <3>1 DEF JInv, NothingWritten
    <2>2. CASE Confirm(s)
      <3>1. PICK a \in Attachment, at \in {"expire", "head"} :
               sess' = [sess EXCEPT ![s] = [Idle EXCEPT !.req = a, !.seen = atts[a], !.at = at]]
            BY <2>2 DEF Confirm
      <3> QED BY <3>1 DEF JInv, NothingWritten
    <2>3. CASE DeleteAttachment(s)
      <3>1. PICK a \in Attachment :
               sess' = [sess EXCEPT ![s] = [Idle EXCEPT !.at = "commit", !.own.att = a,
                                                        !.own.row = [deleted |-> TRUE]]]
            BY <2>3 DEF DeleteAttachment
      <3> QED BY <3>1 DEF JInv, NothingWritten
    <2> QED BY <2>1, <2>2, <2>3
  <1>3. /\ lock' \in [Row -> Session \cup {NULL}]
        /\ \A r \in {"trade", "pnl", "entry"} : lock'[r] = lock[r]
        /\ \A r \in Row : lock'[r] = lock[r] \/ {lock[r], lock'[r]} \subseteq {NULL, s}
    <2>1. CASE lock' = lock
          BY <2>1 DEF JInv, RowsTyped
    <2>2. CASE DeleteAttachment(s)
      <3>1. PICK a \in Attachment : Free(s, a) /\ lock' = [lock EXCEPT ![a] = s]
            BY <2>2 DEF DeleteAttachment
      <3>2. a \in Row /\ a \notin {"trade", "pnl", "entry"} /\ {"trade", "pnl", "entry"} \subseteq Row
            BY Nulls
      <3>3. \A r \in Row \ {a} : lock'[r] = lock[r]
            BY <3>1, <3>2, Locking
      <3> QED BY <3>1, <3>2, <3>3, Locking
    <2> QED BY <2>1, <2>2 DEF Presign, Confirm
  <1>4. Holds(s)'
    <2>1. {"trade", "pnl", "entry"} \subseteq Row /\ \A r \in Row : lock[r] # s
          BY <1>1, Nulls DEF JInv, Holds
    <2> QED BY <1>2, <1>3, <2>1 DEF Holds
  <1>5. PnlRight(s)'
        BY <1>2 DEF PnlRight, Closed
  <1> QED BY <1>1, <1>2, <1>3, <1>4, <1>5, OneSession

LEMMA InsertRight ==
    ASSUME JInv, NEW s \in Session, InsertPending(s)
    PROVE  JInv'
  <1> DEFINE creates == sess[s].seen.was = NULL
             new == IF creates THEN BlankEntry ELSE NULL
  <1>1. /\ UNCHANGED <<trade, pnl, entry, schedules>> /\ sess[s].at = "presign"
        /\ creates => Free(s, "entry")
        /\ lock' = IF creates THEN [lock EXCEPT !["entry"] = s] ELSE lock
        /\ sess' = [sess EXCEPT ![s].at = "commit", ![s].own.att = sess[s].req,
                       ![s].own.row = sess[s].seen.row, ![s].req = NULL, ![s].seen = NULL,
                       ![s].own.entry = new]
        BY DEF InsertPending, tables
  <1>2. new \in GoodEntry \cup {NULL}
    <2>1. BlankEntry \in GoodEntry
          BY DEF BlankEntry, GoodEntry, EntryRow
    <2> QED BY <2>1
  <1>3. new # NULL => creates
        OBVIOUS
  <1> HIDE DEF new, creates
  <1>4. /\ Filled' /\ \A t \in Session \ {s} : sess'[t] = sess[t]
        BY InsertResult DEF JInv
  <1>5. /\ sess'[s].at = "commit" /\ sess'[s].own.entry = new
        /\ sess'[s].own.trade = sess[s].own.trade /\ sess'[s].own.pnl = sess[s].own.pnl
        BY InsertResult DEF JInv, new, creates
  <1>6. {"trade", "pnl", "entry"} \subseteq Row
        BY Nulls
  <1>7. /\ lock' \in [Row -> Session \cup {NULL}]
        /\ new # NULL => lock'["entry"] = s
        /\ \A q \in Row \ {"entry"} : lock'[q] = lock[q]
        /\ \A q \in Row : lock'[q] = lock[q] \/ {lock[q], lock'[q]} \subseteq {NULL, s}
    <2>1. CASE creates
          BY <1>1, <1>6, <2>1, Locking
    <2>2. CASE ~creates
          BY <1>1, <1>3, <2>2 DEF JInv, RowsTyped
    <2> QED BY <2>1, <2>2
  <1>8. Holds(s)'
        BY <1>2, <1>5, <1>6, <1>7 DEF JInv, Holds
  <1>9. PnlRight(s)'
        BY <1>1, <1>5 DEF JInv, PnlRight, TradeOf, Or
  <1> QED BY <1>1, <1>4, <1>7, <1>8, <1>9, OneSession

LEMMA HeadRight ==
    ASSUME JInv, NEW s \in Session,
           HeadFound(s) \/ HeadMissing(s) \/ HeadTooLarge(s) \/ Discard(s) \/ Expire(s)
    PROVE  JInv'
  <1>1. /\ UNCHANGED <<trade, pnl, entry, schedules>>
        /\ sess[s].at \in {"head", "expire", "discard"}
        BY DEF HeadFound, HeadMissing, HeadTooLarge, Discard, Expire, tables
  <1> DEFINE a == sess[s].req
             Taken(status) == Update(s, a, status)
  <1>2. \/ lock' = lock /\ \E at \in {"discard", "raise"} : Goto(s, at)
        \/ /\ sess[s].at \in {"head", "expire"}
           /\ \E status \in {"CONFIRMED", "REJECTED", "EXPIRED"} : Taken(status)
    <2>1. CASE HeadFound(s) \/ HeadMissing(s) \/ Expire(s)
          BY <2>1 DEF HeadFound, HeadMissing, Expire
    <2>2. CASE HeadTooLarge(s) \/ Discard(s)
          BY <2>2 DEF HeadTooLarge, Discard
    <2> QED BY <2>1, <2>2
  <1> DEFINE Apart == /\ Filled' /\ \A t \in Session \ {s} : sess'[t] = sess[t]
                      /\ sess'[s].at \in {"discard", "raise", "commit"}
                      /\ sess'[s].own.trade = sess[s].own.trade
                      /\ sess'[s].own.pnl = sess[s].own.pnl
                      /\ sess'[s].own.entry = sess[s].own.entry
  <1>3. Apart
    <2>1. CASE \E at \in {"discard", "raise"} : Goto(s, at)
          BY <2>1 DEF Goto, JInv, Filled
    <2>2. ASSUME NEW status \in {"CONFIRMED", "REJECTED", "EXPIRED"}, Taken(status)
          PROVE  Apart
      <3> DEFINE at == IF status = "CONFIRMED" THEN "commit" ELSE "raise"
                 row == Setting(sess[s].seen, status)
      <3>1. /\ sess' = [sess EXCEPT ![s].at = at, ![s].own.att = a, ![s].own.row = row]
            /\ at \in {"raise", "commit"}
            BY <2>2 DEF Update
      <3> HIDE DEF at, row, a
      <3> QED BY <3>1 DEF JInv, Filled, NothingWritten
    <2> QED BY <1>2, <2>1, <2>2
  <1>4. /\ lock' \in [Row -> Session \cup {NULL}]
        /\ \A r \in {"trade", "pnl", "entry"} : lock'[r] = lock[r]
        /\ \A r \in Row : lock'[r] = lock[r] \/ {lock[r], lock'[r]} \subseteq {NULL, s}
    <2>1. CASE lock' = lock
          BY <2>1 DEF JInv, RowsTyped
    <2>2. CASE lock' # lock
      <3>1. a \in Attachment /\ Free(s, a) /\ lock' = [lock EXCEPT ![a] = s]
            BY <1>1, <1>2, <2>2 DEF Update, JInv, Holds
      <3> HIDE DEF a
      <3>2. a \in Row /\ a \notin {"trade", "pnl", "entry"} /\ {"trade", "pnl", "entry"} \subseteq Row
            BY <3>1, Nulls
      <3>3. \A r \in Row \ {a} : lock'[r] = lock[r]
            BY <3>1, <3>2, Locking
      <3> QED BY <3>1, <3>2, <3>3, Locking
    <2> QED BY <2>1, <2>2
  <1>5. Holds(s)'
        BY <1>3, <1>4, Nulls DEF JInv, Holds
  <1>6. PnlRight(s)'
        BY <1>1, <1>3 DEF JInv, PnlRight, TradeOf, Or
  <1> QED BY <1>1, <1>3, <1>4, <1>5, <1>6, OneSession

--------------------------------------------------------------------------------
\* A trade that is closed stays closed, with what its P&L depends on.
LEMMA CommitKeeps ==
    ASSUME JInv, NEW s \in Session, Commit(s)
    PROVE  /\ trade' = Or(sess[s].own.trade, trade) /\ trade' = TradeOf(s)
           /\ Closed(trade) => Closed(trade') /\ SameToPnl(trade, trade')
           /\ trade # NULL => trade' # NULL
           /\ pnl' = Or(sess[s].own.pnl, pnl) /\ entry' = Or(sess[s].own.entry, entry)
           /\ schedules' = schedules /\ sess'[s] = Idle /\ Filled'
           /\ \A t \in Session \ {s} : sess'[t] = sess[t]
           /\ lock' \in [Row -> Session \cup {NULL}]
           /\ \A r \in Row : lock'[r] = IF lock[r] = s THEN NULL ELSE lock[r]
  <1>1. /\ trade' = Or(sess[s].own.trade, trade) /\ pnl' = Or(sess[s].own.pnl, pnl)
        /\ entry' = Or(sess[s].own.entry, entry) /\ schedules' = schedules
        /\ sess' = [sess EXCEPT ![s] = Idle] /\ lock' = Released(s)
        BY DEF Commit
  <1>2. sess'[s] = Idle /\ Filled' /\ \A t \in Session \ {s} : sess'[t] = sess[t]
        BY <1>1 DEF JInv, Filled, Idle, NothingWritten
  <1>3. /\ lock' \in [Row -> Session \cup {NULL}]
        /\ \A r \in Row : lock'[r] = IF lock[r] = s THEN NULL ELSE lock[r]
        BY <1>1 DEF JInv, RowsTyped, Released
  <1>4. Closed(trade) => Closed(trade') /\ SameToPnl(trade, trade')
    <2>1. CASE sess[s].own.trade = NULL
          BY <1>1, <2>1 DEF Or, SameToPnl
    <2>2. CASE sess[s].own.trade # NULL
      <3>1. trade' = sess[s].own.trade
            BY <1>1, <2>2 DEF Or
      <3>2. Closed(trade) => SameToPnl(trade, trade')
            BY <3>1, <2>2 DEF JInv, PnlRight
      <3> QED BY <3>1, <3>2, <2>2 DEF Closed, SameToPnl
    <2> QED BY <2>1, <2>2
  <1> QED BY <1>1, <1>2, <1>3, <1>4 DEF Or, TradeOf

LEMMA CommitRight ==
    ASSUME JInv, NEW s \in Session, Commit(s)
    PROVE  JInv'
  <1>0. /\ trade' = Or(sess[s].own.trade, trade) /\ trade' = TradeOf(s)
        /\ Closed(trade) => Closed(trade') /\ SameToPnl(trade, trade')
        /\ trade # NULL => trade' # NULL
        /\ pnl' = Or(sess[s].own.pnl, pnl) /\ entry' = Or(sess[s].own.entry, entry)
        /\ schedules' = schedules /\ sess'[s] = Idle /\ Filled'
        /\ \A t \in Session \ {s} : sess'[t] = sess[t]
        /\ lock' \in [Row -> Session \cup {NULL}]
        /\ \A r \in Row : lock'[r] = IF lock[r] = s THEN NULL ELSE lock[r]
        BY CommitKeeps
  <1>1. RowsTyped'
        BY <1>0 DEF JInv, RowsTyped, Holds, Or
  <1>2. pnl' # NULL => Explains(pnl', trade', schedules')
    <2>1. CASE sess[s].own.pnl # NULL
          BY <2>1, <1>0 DEF JInv, PnlRight, Or
    <2>2. CASE sess[s].own.pnl = NULL /\ pnl # NULL
      <3>1. Explains(pnl, trade, schedules) /\ Closed(trade) /\ pnl' = pnl
            BY <2>2, <1>0 DEF JInv, Or, Explains, Closed
      <3> QED BY <3>1, <1>0, SameExplains DEF Closed
    <2>3. CASE sess[s].own.pnl = NULL /\ pnl = NULL
          BY <2>3, <1>0 DEF Or
    <2> QED BY <2>1, <2>2, <2>3
  <1>3. ASSUME NEW t \in Session PROVE (Holds(t) /\ PnlRight(t))'
    <2>1. CASE t = s
      <3>1. \A r \in Row : lock'[r] # s
            BY <1>0, Nulls
      <3>2. Holds(s)'
            BY <3>1, <1>0, Nulls DEF Holds, Idle, NothingWritten
      <3>3. PnlRight(s)'
            BY <1>0 DEF PnlRight, Closed, Idle, NothingWritten
      <3> QED BY <2>1, <3>2, <3>3
    <2>2. CASE t # s
      <3>1. sess'[t] = sess[t] /\ \A r \in Row : lock'[r] = t <=> lock[r] = t
            BY <2>2, <1>0, Nulls
      <3>2. Holds(t)'
            BY <3>1, Nulls DEF JInv, Holds
      <3>3. CASE sess[t].own.trade # NULL
        <4>1. sess[s].own.trade = NULL
              BY <2>2, <3>3 DEF JInv, Holds
        <4>2. trade' = trade
              BY <4>1, <1>0 DEF Or
        <4>3. \A row : Explains(row, TradeOf(t), schedules)'
                       <=> Explains(row, TradeOf(t), schedules)
              BY <4>2, <3>1, <1>0 DEF TradeOf, Or
        <4>4. PnlRight(t)'
              BY <4>2, <4>3, <3>1, <1>0 DEF JInv, PnlRight, Closed
        <4> QED BY <3>2, <4>4
      <3>4. CASE sess[t].own.trade = NULL
        <4>1. TradeOf(t) = trade /\ TradeOf(t)' = trade'
              BY <3>1, <3>4 DEF TradeOf, Or
        <4>2. ASSUME NEW row, Explains(row, TradeOf(t), schedules)
              PROVE  Explains(row, TradeOf(t)', schedules')
          <5>1. Explains(row, trade, schedules) /\ Closed(trade)
                BY <4>1, <4>2 DEF Explains, Closed
          <5>2. Explains(row, trade', schedules')
                BY <5>1, <1>0, SameExplains DEF Closed
          <5> QED BY <4>1, <5>2
        <4>3. PnlRight(t)'
              BY <4>2, <3>1, <3>4 DEF JInv, PnlRight, Closed
        <4> QED BY <3>2, <4>3
      <3> QED BY <3>3, <3>4
    <2> QED BY <2>1, <2>2
  <1> QED BY <1>0, <1>1, <1>2, <1>3 DEF JInv

\* A release comes when nobody holds anything.
LEMMA DeployRight ==
    ASSUME JInv, Deploy
    PROVE  JInv'
  <1>1. PICK i \in 2..Len(Migrations) : schedules' = schedules \cup Migrations[i]
        BY DEF Deploy
  <1>2. /\ UNCHANGED <<trade, pnl, entry, lock, sess>>
        /\ \A s \in Session : sess[s].at = "idle"
        BY DEF Deploy, tables
  <1>3. schedules \subseteq schedules' /\ schedules' \subseteq Schedule
        BY <1>1, MigrationsAssumption DEF JInv, RowsTyped, Schedule
  <1>4. pnl' # NULL => Explains(pnl', trade', schedules')
    <2> SUFFICES ASSUME pnl # NULL PROVE Explains(pnl, trade, schedules')
        BY <1>2
    <2>1. Explains(pnl, trade, schedules) /\ trade # NULL /\ SameToPnl(trade, trade)
          BY DEF JInv, Explains, SameToPnl
    <2> QED BY <2>1, <1>3, SameExplains
  <1>5. \A s \in Session : Holds(s)'
        BY <1>2 DEF JInv, Holds
  <1>6. ASSUME NEW s \in Session PROVE PnlRight(s)'
    <2>1. sess[s].own.trade = NULL /\ sess[s].at = "idle"
          BY <1>2 DEF JInv, Holds
    <2>2. sess[s].own.pnl = NULL
          BY <2>1, Nulls DEF JInv, Holds
    <2> QED BY <2>1, <2>2, <1>2 DEF PnlRight, Closed
  <1> QED BY <1>2, <1>3, <1>4, <1>5, <1>6 DEF JInv, RowsTyped, Filled

LEMMA JNext == JInv /\ [Next]_vars => JInv'
  <1> SUFFICES ASSUME JInv, [Next]_vars PROVE JInv'
      OBVIOUS
  <1>1. CASE UNCHANGED vars \/ \E a \in Attachment : Put(a) \/ Wait(a)
    <2>1. UNCHANGED <<trade, pnl, entry, schedules, lock, sess>>
          BY <1>1 DEF vars, tables, Put, Wait
    <2>2. Filled' /\ RowsTyped' /\ (pnl' # NULL => Explains(pnl', trade', schedules'))
          BY <2>1 DEF JInv, RowsTyped, Filled, Explains
    <2>3. ASSUME NEW s \in Session PROVE Holds(s)'
          BY <2>1 DEF JInv, Holds
    <2>4. ASSUME NEW s \in Session PROVE PnlRight(s)'
          BY <2>1 DEF JInv, PnlRight, Explains, TradeOf, Closed
    <2> QED BY <2>2, <2>3, <2>4 DEF JInv
  <1>2. ASSUME NEW s \in Session,
               TradeStep(s) \/ EntryStep(s) \/ AttachmentStep(s) \/ Commit(s) \/ Fail(s)
        PROVE  JInv'
    <2>1. CASE TradeStep(s)
          BY <2>1, RunRight, BackfillRight, StoreRight, DeleteRight DEF TradeStep
    <2>2. CASE EntryStep(s)
          BY <2>2, ReadRight, WriteRight, RecalculateRight, RollbackRight
             DEF EntryStep, EntryExists
    <2>3. CASE AttachmentStep(s)
          BY <2>3, PresignRight, InsertRight, HeadRight, RollbackRight DEF AttachmentStep, Raise
    <2>4. CASE Commit(s) \/ Fail(s)
          BY <2>4, CommitRight, RollbackRight DEF Fail
    <2> QED BY <1>2, <2>1, <2>2, <2>3, <2>4
  <1> QED BY <1>1, <1>2, DeployRight DEF Next

\* A stored P&L row is that of a closed trade, its charges are the statute's under a
\* schedule that was in force, and its parts add up, whoever edits or deploys meanwhile.
THEOREM PnlIsExplained == Spec => []PnlExplained
  <1>1. JInv => PnlExplained
        BY DEF JInv, PnlExplained, Explains
  <1> QED BY <1>1, JInit, JNext, PTL DEF Spec

\* Rows, schedules, attachments and locks keep their types, and only a session that
\* is in a transaction holds a lock.
THEOREM TypesHold == Spec => []TypeOK
  <1>1. ASSUME IInv, JInv PROVE TypeOK
    <2>1. /\ trade \in TradeRow \cup {NULL} /\ pnl \in PnlRow \cup {NULL}
          /\ entry \in EntryRow \cup {NULL}
          BY <1>1 DEF JInv, RowsTyped, GoodTrade, GoodEntry
    <2>2. atts \in [Attachment -> AttachmentRow \cup {NULL}]
          BY <1>1 DEF IInv
    <2>3. \A cs \in schedules : cs \in ChargeScheduleRow /\ BrokerageColumns(cs)
          BY <1>1 DEF JInv, RowsTyped, Schedule
    <2>4. ASSUME NEW r \in Row, lock[r] # NULL PROVE sess[lock[r]].at # "idle"
      <3>1. lock[r] \in Session
            BY <1>1, <2>4 DEF JInv, RowsTyped
      <3> QED BY <1>1, <3>1 DEF JInv, Holds
    <2>5. ASSUME NEW s \in Session
          PROVE  /\ sess[s].own.trade # NULL => lock["trade"] = s
                 /\ sess[s].own.pnl # NULL => lock["pnl"] = s
          BY <1>1 DEF JInv, Holds
    <2> QED BY <2>1, <2>2, <2>3, <2>4, <2>5 DEF TypeOK
  <1> QED BY <1>1, InitRight, NextRight, JInit, JNext, PTL DEF Spec

\* The commit that closes a trade some schedule prices leaves a P&L row behind it.
THEOREM ClosedWithPnl == Spec => ScheduledCloseHasPnl
  <1> DEFINE Kept == LET closes == /\ trade' # NULL /\ trade'.status = "CLOSED"
                                   /\ trade = NULL \/ trade.status = "OPEN"
                         known  == \E cs \in Candidates(schedules, trade') :
                                      cs.effective_from <= trade'.trade_date
                     IN  closes /\ known => pnl' # NULL
  <1>1. JInv /\ [Next]_vars => [Kept]_vars
    <2> SUFFICES ASSUME JInv, Next, Closed(trade'), trade = NULL \/ trade.status = "OPEN",
                        Known(trade', schedules)
                 PROVE  pnl' # NULL
        BY DEF Closed, Known
    <2>1. trade' # trade
          BY DEF Closed
    <2>2. PICK s \in Session : Commit(s)
      <3>1. ASSUME NEW s \in Session, TradeStep(s) PROVE trade' = trade
            BY <3>1 DEF TradeStep, Run, Backfill, Store, Delete, tables
      <3>2. ASSUME NEW s \in Session, EntryStep(s) \/ Fail(s) PROVE trade' = trade
            BY <3>2 DEF EntryStep, ReadForUpsert, WriteEntry, Recalculate, EntryExists,
               Fail, Rollback, tables
      <3>3. ASSUME NEW s \in Session, AttachmentStep(s) PROVE trade' = trade
            BY <3>3 DEF AttachmentStep, Presign, InsertPending, Confirm, HeadFound,
               HeadMissing, HeadTooLarge, Discard, Expire, Raise, Rollback, DeleteAttachment, tables
      <3>4. CASE Deploy \/ \E a \in Attachment : Put(a) \/ Wait(a)
            BY <3>4, <2>1 DEF Deploy, Put, Wait, tables
      <3> QED BY <2>1, <3>1, <3>2, <3>3, <3>4 DEF Next
    <2>3. trade' = sess[s].own.trade /\ pnl' = Or(sess[s].own.pnl, pnl)
          BY <2>1, <2>2, CommitKeeps DEF Or
    <2>4. sess[s].own.pnl # NULL
          BY <2>3 DEF JInv, PnlRight, Closed
    <2> QED BY <2>3, <2>4 DEF Or
  <1>2. [][Kept]_vars => ScheduledCloseHasPnl
        BY PTL DEF ScheduledCloseHasPnl
  <1> QED BY <1>1, <1>2, JInit, JNext, PTL DEF Spec

--------------------------------------------------------------------------------
(* Kinds of steps. *)

(* What a step that is not a commit makes of its session. *)

\* It is about something else, or over.
Aside(s) ==
    /\ sess'[s].at \in {"idle", "presign", "head", "expire", "commit"}
    /\ sess'[s].own.pnl = NULL /\ sess'[s].own.entry = NULL /\ sess'[s].own.audit = <<>>

Attaches(s) ==
    /\ sess[s].at \in {"head", "expire", "discard"}
    /\ sess'[s].at \in {"discard", "raise", "commit"}
    /\ sess'[s].own.pnl = sess[s].own.pnl /\ sess'[s].own.entry = sess[s].own.entry
    /\ sess'[s].own.audit = sess[s].own.audit

Inserts(s) ==
    /\ sess[s].at = "presign" /\ sess'[s].at = "commit"
    /\ sess'[s].own.entry = NULL \/ (sess'[s].own.entry = BlankEntry /\ entry = NULL)
    /\ sess'[s].own.pnl = sess[s].own.pnl /\ sess'[s].own.audit = sess[s].own.audit

Reads(s) ==
    /\ s \in Editors /\ sess'[s].at = "write" /\ sess'[s].own = NothingWritten
    /\ sess'[s].req \in JournalEntryWrite
    /\ sess'[s].seen = [was |-> entry, now |-> EntryFrom(sess'[s].req, trade)]

Writes(s) ==
    /\ sess[s].at = "write" /\ sess'[s].at = "r_multiple"
    /\ sess[s].seen.was = NULL => entry = NULL
    /\ sess'[s].own.pnl = sess[s].own.pnl /\ sess'[s].own.entry = sess[s].seen.now
    /\ sess'[s].own.audit = IF sess[s].seen.was = NULL THEN <<>>
                            ELSE DiffForAudit(sess[s].seen.was, sess[s].req)

Recalculates(s) ==
    /\ sess[s].at = "r_multiple" /\ sess'[s].at = "commit"
    /\ sess'[s].own.entry = sess[s].own.entry /\ sess'[s].own.audit = sess[s].own.audit
    /\ \/ sess'[s].own.pnl = sess[s].own.pnl
       \/ /\ pnl # NULL /\ sess[s].own.entry.planned_stop # NULL
          /\ sess'[s].own.pnl = [pnl EXCEPT !.r_multiple =
                compute_r_multiple(pnl.net_pnl, get_planned_risk(s, trade))]

Runs(s) ==
    /\ s \in Writers /\ sess'[s].at \in {"backfill", "commit"}
    /\ sess'[s].own.pnl # NULL => pnl = NULL
    /\ sess'[s].own.entry = NULL /\ sess'[s].own.audit = <<>>

Backfills(s) ==
    /\ sess[s].at = "backfill" /\ sess'[s].own = sess[s].own
    /\ sess'[s].at = "commit" \/ (sess'[s].at = "store" /\ pnl = NULL)

Stores(s) ==
    /\ sess[s].at = "store" /\ sess'[s].at = "commit"
    /\ sess'[s].own.entry = sess[s].own.entry /\ sess'[s].own.audit = sess[s].own.audit

Does(s) ==
    \/ Aside(s) \/ Attaches(s) \/ Inserts(s) \/ Reads(s) \/ Writes(s)
    \/ Recalculates(s) \/ Runs(s) \/ Backfills(s) \/ Stores(s)

Alone(s) ==
    /\ UNCHANGED <<trade, pnl, entry, audit>>
    /\ \A t \in Session \ {s} : sess'[t] = sess[t]

LEMMA TradeFrame ==
    ASSUME JInv, NEW s \in Session, TradeStep(s)
    PROVE  Alone(s) /\ Does(s)
  <1> USE DEF Filled, NothingWritten
  <1>1. CASE Run(s)
    <2>1. PICK tr, row, at : Ran(s, tr, row, at)
          BY <1>1, RunResult
    <2>2. Alone(s) /\ sess'[s] = Holding(tr, row, at)
          BY <1>1, <2>1 DEF Ran, JInv, Run, tables, Alone
    <2>3. row # NULL => pnl = NULL
          BY <2>1 DEF Ran, JInv, Explains, Closed
    <2>4. Runs(s)
          BY <1>1, <2>1, <2>2, <2>3, HoldingFields DEF Ran, Runs, Run
    <2> QED BY <2>2, <2>4 DEF Does
  <1>2. CASE Backfill(s)
    <2> DEFINE row == IF LacksPnl(s) THEN calculate_and_store(s, TradeOf(s)) ELSE NULL
               at == IF row = NULL THEN "commit" ELSE "store"
    <2>1. /\ UNCHANGED <<trade, pnl, entry, audit>> /\ sess[s].at = "backfill"
          /\ sess' = [sess EXCEPT ![s].at = at, ![s].seen = row]
          BY <1>2 DEF Backfill, tables
    <2>2. row # NULL => pnl = NULL
          BY DEF LacksPnl, PnlOf, Or
    <2> HIDE DEF row
    <2>3. at = "commit" \/ (at = "store" /\ pnl = NULL)
          BY <2>2
    <2> HIDE DEF at
    <2>4. Alone(s) /\ Backfills(s)
          BY <2>1, <2>3 DEF JInv, Alone, Backfills
    <2> QED BY <2>4 DEF Does
  <1>3. CASE Store(s)
    <2>1. Alone(s) /\ Stores(s)
          BY <1>3 DEF JInv, Alone, Stores, Store, tables
    <2> QED BY <2>1 DEF Does
  <1>4. CASE Delete(s)
    <2> DEFINE tr == [trade EXCEPT !.is_deleted = TRUE]
    <2>1. sess' = [sess EXCEPT ![s] = [Idle EXCEPT !.at = "commit", !.own.trade = tr]]
          BY <1>4 DEF Delete
    <2> HIDE DEF tr
    <2>2. Alone(s) /\ Aside(s)
          BY <1>4, <2>1 DEF JInv, Alone, Aside, Delete, tables, Idle
    <2> QED BY <2>2 DEF Does
  <1> QED BY <1>1, <1>2, <1>3, <1>4 DEF TradeStep

LEMMA RollbackFrame ==
    ASSUME JInv, NEW s \in Session, Rollback(s)
    PROVE  Alone(s) /\ Does(s)
  <1>1. Alone(s) /\ Aside(s)
        BY DEF JInv, Filled, NothingWritten, Alone, Aside, Rollback, tables, Idle
  <1> QED BY <1>1 DEF Does

LEMMA EntryFrame ==
    ASSUME JInv, NEW s \in Session, EntryStep(s)
    PROVE  Alone(s) /\ Does(s)
  <1> USE DEF Filled, NothingWritten
  <1>1. CASE ReadForUpsert(s)
    <2>1. PICK data \in JournalEntryWrite :
             sess' = [sess EXCEPT ![s] = [Idle EXCEPT !.at = "write", !.req = data,
                         !.seen = [was |-> entry, now |-> EntryFrom(data, trade)]]]
          BY <1>1 DEF ReadForUpsert
    <2>2. /\ Alone(s) /\ sess'[s].at = "write" /\ sess'[s].own = NothingWritten
          /\ sess'[s].req = data
          /\ sess'[s].seen = [was |-> entry, now |-> EntryFrom(data, trade)]
          BY <1>1, <2>1 DEF JInv, Alone, ReadForUpsert, tables, Idle
    <2>3. Reads(s)
          BY <1>1, <2>2 DEF Reads, ReadForUpsert
    <2> QED BY <2>2, <2>3 DEF Does
  <1>2. CASE WriteEntry(s)
    <2> DEFINE rows == IF sess[s].seen.was = NULL THEN <<>>
                       ELSE DiffForAudit(sess[s].seen.was, sess[s].req)
    <2>1. /\ UNCHANGED <<trade, pnl, entry, audit>> /\ sess[s].at = "write"
          /\ sess[s].seen.was = NULL => entry = NULL
          /\ sess' = [sess EXCEPT ![s].at = "r_multiple", ![s].own.entry = sess[s].seen.now,
                         ![s].req = NULL, ![s].seen = NULL, ![s].own.audit = rows]
          BY <1>2 DEF WriteEntry, tables
    <2> HIDE DEF rows
    <2>2. /\ Alone(s) /\ sess'[s].at = "r_multiple" /\ sess'[s].own.audit = rows
          /\ sess'[s].own.pnl = sess[s].own.pnl /\ sess'[s].own.entry = sess[s].seen.now
          BY <2>1 DEF JInv, Alone
    <2>3. Writes(s)
          BY <2>1, <2>2 DEF Writes, rows
    <2> QED BY <2>2, <2>3 DEF Does
  <1>3. CASE Recalculate(s)
    <2>1. UNCHANGED <<trade, pnl, entry, audit>> /\ sess[s].at = "r_multiple"
          BY <1>3 DEF Recalculate, tables
    <2>2. CASE Goto(s, "commit")
      <3>1. Alone(s) /\ Recalculates(s)
            BY <2>1, <2>2 DEF JInv, Alone, Recalculates, Goto
      <3> QED BY <3>1 DEF Does
    <2>3. CASE ~Goto(s, "commit")
      <3> DEFINE new == [pnl EXCEPT !.r_multiple =
                            compute_r_multiple(pnl.net_pnl, get_planned_risk(s, trade))]
      <3>1. /\ pnl # NULL /\ sess[s].own.entry.planned_stop # NULL
            /\ sess' = [sess EXCEPT ![s].at = "commit", ![s].own.pnl = new]
            BY <1>3, <2>3 DEF Recalculate
      <3> HIDE DEF new
      <3>2. /\ Alone(s) /\ sess'[s].at = "commit" /\ sess'[s].own.pnl = new
            /\ sess'[s].own.entry = sess[s].own.entry /\ sess'[s].own.audit = sess[s].own.audit
            BY <2>1, <3>1 DEF JInv, Alone
      <3>3. Recalculates(s)
            BY <2>1, <3>1, <3>2 DEF Recalculates, new
      <3> QED BY <3>2, <3>3 DEF Does
    <2> QED BY <2>2, <2>3
  <1>4. CASE EntryExists(s)
        BY <1>4, RollbackFrame DEF EntryExists
  <1> QED BY <1>1, <1>2, <1>3, <1>4 DEF EntryStep

LEMMA AttachmentFrame ==
    ASSUME JInv, NEW s \in Session, AttachmentStep(s)
    PROVE  Alone(s) /\ Does(s)
  <1> USE DEF Filled, NothingWritten
  <1>1. UNCHANGED <<trade, pnl, entry, audit>>
        BY DEF AttachmentStep, Presign, InsertPending, Confirm, HeadFound,
           HeadMissing, HeadTooLarge, Discard, Expire, Raise, Rollback, DeleteAttachment, tables
  <1>2. CASE Presign(s)
    <2>1. PICK a \in Attachment, n \in Size :
             sess' = [sess EXCEPT ![s] = [Idle EXCEPT !.at = "presign", !.req = a,
                             !.seen = [was |-> entry, row |-> PendingRow(n)]]]
          BY <1>2 DEF Presign
    <2>2. Alone(s) /\ Aside(s)
          BY <1>1, <2>1 DEF JInv, Alone, Aside, Idle
    <2> QED BY <2>2 DEF Does
  <1>3. CASE Confirm(s)
    <2>1. PICK a \in Attachment, at \in {"expire", "head"} :
             sess' = [sess EXCEPT ![s] = [Idle EXCEPT !.req = a, !.seen = atts[a], !.at = at]]
          BY <1>3 DEF Confirm
    <2>2. Alone(s) /\ Aside(s)
          BY <1>1, <2>1 DEF JInv, Alone, Aside, Idle
    <2> QED BY <2>2 DEF Does
  <1>4. CASE DeleteAttachment(s)
    <2>1. PICK a \in Attachment :
             sess' = [sess EXCEPT ![s] = [Idle EXCEPT !.at = "commit", !.own.att = a,
                                                      !.own.row = [deleted |-> TRUE]]]
          BY <1>4 DEF DeleteAttachment
    <2>2. Alone(s) /\ Aside(s)
          BY <1>1, <2>1 DEF JInv, Alone, Aside, Idle
    <2> QED BY <2>2 DEF Does
  <1>5. CASE InsertPending(s)
    <2>1. sess[s].at = "presign" /\ (sess[s].seen.was = NULL => entry = NULL)
          BY <1>5 DEF InsertPending
    <2>2. Inserts(s)
          BY <1>5, <2>1, InsertResult DEF JInv, Inserts
    <2>3. Alone(s)
          BY <1>1, <1>5, InsertResult DEF JInv, Alone
    <2> QED BY <2>2, <2>3 DEF Does
  <1>6. CASE HeadFound(s) \/ HeadMissing(s) \/ HeadTooLarge(s) \/ Discard(s) \/ Expire(s)
    <2> DEFINE a == sess[s].req
    <2>1. \/ \E at \in {"discard", "raise"} : Goto(s, at)
          \/ \E status \in {"CONFIRMED", "REJECTED", "EXPIRED"} : Update(s, a, status)
      <3>1. CASE HeadFound(s) \/ HeadMissing(s) \/ Expire(s)
            BY <3>1 DEF HeadFound, HeadMissing, Expire
      <3>2. CASE HeadTooLarge(s) \/ Discard(s)
            BY <3>2 DEF HeadTooLarge, Discard
      <3> QED BY <1>6, <3>1, <3>2
    <2>2. sess[s].at \in {"head", "expire", "discard"}
          BY <1>6 DEF HeadFound, HeadMissing, HeadTooLarge, Discard, Expire
    <2>3. CASE \E at \in {"discard", "raise"} : Goto(s, at)
      <3>1. Alone(s) /\ Attaches(s)
            BY <1>1, <2>2, <2>3 DEF JInv, Alone, Attaches, Goto
      <3> QED BY <3>1 DEF Does
    <2>4. ASSUME NEW status \in {"CONFIRMED", "REJECTED", "EXPIRED"}, Update(s, a, status)
          PROVE  Alone(s) /\ Does(s)
      <3> DEFINE at == IF status = "CONFIRMED" THEN "commit" ELSE "raise"
                 row == Setting(sess[s].seen, status)
      <3>1. /\ sess' = [sess EXCEPT ![s].at = at, ![s].own.att = a, ![s].own.row = row]
            /\ at \in {"raise", "commit"}
            BY <2>4 DEF Update
      <3> HIDE DEF at, row, a
      <3>2. Alone(s) /\ Attaches(s)
            BY <1>1, <2>2, <3>1 DEF JInv, Alone, Attaches
      <3> QED BY <3>2 DEF Does
    <2> QED BY <2>1, <2>3, <2>4
  <1>7. CASE Raise(s)
        BY <1>7, RollbackFrame DEF Raise
  <1> QED BY <1>2, <1>3, <1>4, <1>5, <1>6, <1>7 DEF AttachmentStep

\* Only a commit changes the rows that are spoken of here.
LEMMA StepKinds ==
    ASSUME JInv, [Next]_vars
    PROVE  \/ UNCHANGED <<trade, pnl, entry, audit, sess>>
           \/ \E s \in Session : Alone(s) /\ Does(s)
           \/ \E s \in Session : Commit(s)
  <1>1. ASSUME NEW s \in Session,
               TradeStep(s) \/ EntryStep(s) \/ AttachmentStep(s) \/ Fail(s)
        PROVE  Alone(s) /\ Does(s)
        BY <1>1, TradeFrame, EntryFrame, AttachmentFrame, RollbackFrame DEF Fail
  <1>2. CASE Deploy \/ UNCHANGED vars \/ \E a \in Attachment : Put(a) \/ Wait(a)
        BY <1>2 DEF Deploy, vars, Put, Wait, tables
  <1> QED BY <1>1, <1>2 DEF Next

--------------------------------------------------------------------------------
(* R and the journal. *)

\* An R that a session is about to write is that of the entry it saves with it,
\* and a P&L row it adds without one is the first.
RRight(s) ==
    LET own == sess[s].own IN
    /\ sess[s].at \in {"idle", "presign", "head", "expire", "write", "r_multiple"}
          => own.pnl = NULL
    /\ sess[s].at \in {"idle", "presign", "head", "expire", "backfill", "store"}
          => own.entry = NULL
    /\ sess[s].at \in {"backfill", "store"} => s \in Writers
    /\ sess[s].at = "store" => pnl = NULL
    /\ own.pnl # NULL /\ own.entry = NULL => s \in Writers /\ pnl = NULL
    /\ own.pnl # NULL /\ own.entry # NULL =>
          /\ pnl # NULL
          /\ own.pnl.r_multiple =
                compute_r_multiple(own.pnl.net_pnl, own.entry.planned_risk_amount)

RInv == \A s \in Session : RRight(s)

LEMMA RInit == Init => RInv
  BY DEF Init, RInv, RRight, Idle, NothingWritten

\* A save reads the risk of the entry it has just written.
LEMMA RiskOfOwnEntry ==
    ASSUME JInv, NEW s \in Session, sess[s].own.entry # NULL,
           sess[s].own.entry.planned_stop # NULL, NEW tr
    PROVE  get_planned_risk(s, tr) = sess[s].own.entry.planned_risk_amount
  <1>1. sess[s].own.entry \in GoodEntry
        BY DEF JInv, Holds
  <1> QED BY <1>1 DEF get_planned_risk, EntryOf, Or, GoodEntry

LEMMA RStep ==
    ASSUME JInv, RInv, NEW s \in Session, Alone(s), Does(s)
    PROVE  RInv'
  <1>1. RRight(s) /\ pnl' = pnl
        BY DEF RInv, Alone
  <1>2. RRight(s)'
    <2>1. CASE Aside(s) \/ Attaches(s)
          BY <1>1, <2>1 DEF RRight, Aside, Attaches
    <2>2. CASE Inserts(s) \/ Writes(s)
          BY <1>1, <2>2 DEF RRight, Inserts, Writes
    <2>3. CASE Reads(s) \/ Runs(s)
          BY <1>1, <2>3 DEF RRight, Reads, Runs, NothingWritten
    <2>4. CASE Backfills(s) \/ Stores(s)
          BY <1>1, <2>4 DEF RRight, Backfills, Stores
    <2>5. CASE Recalculates(s)
      <3> DEFINE r == compute_r_multiple(pnl.net_pnl, get_planned_risk(s, trade))
      <3>1. sess[s].own.pnl = NULL /\ sess[s].own.entry # NULL /\ sess'[s].at = "commit"
            /\ sess'[s].own.entry = sess[s].own.entry
            BY <1>1, <2>5 DEF RRight, Recalculates, JInv, Holds
      <3>2. CASE sess'[s].own.pnl = sess[s].own.pnl
            BY <3>1, <3>2 DEF RRight
      <3>3. CASE sess'[s].own.pnl # sess[s].own.pnl
        <4>1. /\ pnl # NULL /\ sess[s].own.entry.planned_stop # NULL
              /\ sess'[s].own.pnl = [pnl EXCEPT !.r_multiple = r]
              BY <2>5, <3>3 DEF Recalculates
        <4>2. pnl \in PnlRow
              BY <4>1 DEF JInv, RowsTyped
        <4>3. r = compute_r_multiple(pnl.net_pnl, sess[s].own.entry.planned_risk_amount)
              BY <3>1, <4>1, RiskOfOwnEntry
        <4> HIDE DEF r
        <4>4. sess'[s].own.pnl.r_multiple = r /\ sess'[s].own.pnl.net_pnl = pnl.net_pnl
              BY <4>1, <4>2 DEF PnlRow
        <4> QED BY <1>1, <3>1, <4>1, <4>3, <4>4 DEF RRight
      <3> QED BY <3>2, <3>3
    <2> QED BY <2>1, <2>2, <2>3, <2>4, <2>5 DEF Does
  <1>3. \A t \in Session \ {s} : RRight(t)'
    <2> SUFFICES ASSUME NEW t \in Session \ {s} PROVE RRight(t)'
        OBVIOUS
    <2>1. RRight(t) /\ sess'[t] = sess[t] /\ pnl' = pnl
          BY DEF RInv, Alone
    <2> QED BY <2>1 DEF RRight
  <1> QED BY <1>2, <1>3 DEF RInv

LEMMA RCommit ==
    ASSUME NEW w, Writers \subseteq {w}, JInv, RInv, NEW s \in Session, Commit(s)
    PROVE  RInv'
  <1>1. /\ pnl' = Or(sess[s].own.pnl, pnl) /\ sess'[s] = Idle
        /\ \A t \in Session \ {s} : sess'[t] = sess[t]
        BY CommitKeeps
  <1>2. RRight(s)'
        BY <1>1 DEF RRight, Idle, NothingWritten
  <1>3. ASSUME NEW t \in Session \ {s} PROVE RRight(t)'
    <2>1. RRight(t) /\ RRight(s) /\ sess'[t] = sess[t] /\ (pnl # NULL => pnl' # NULL)
          BY <1>1 DEF RInv, Or
    <2>2. t \in Writers /\ pnl = NULL => pnl' = NULL
      <3> SUFFICES ASSUME t \in Writers, pnl = NULL PROVE sess[s].own.pnl = NULL
          BY <1>1 DEF Or
      <3>1. s \notin Writers
            OBVIOUS
      <3> QED BY <2>1, <3>1 DEF RRight
    <2> QED BY <2>1, <2>2 DEF RRight
  <1> QED BY <1>2, <1>3 DEF RInv

LEMMA RNext ==
    ASSUME NEW w, Writers \subseteq {w}
    PROVE  JInv /\ RInv /\ [Next]_vars => RInv'
  <1> SUFFICES ASSUME JInv, RInv, [Next]_vars PROVE RInv'
      OBVIOUS
  <1>1. CASE UNCHANGED <<trade, pnl, entry, audit, sess>>
        BY <1>1 DEF RInv, RRight
  <1> QED BY <1>1, StepKinds, RStep, RCommit

\* One request at a time on the trade: whatever else goes on, R stays that of the journal.
THEOREM RStaysInLine ==
    ASSUME NEW w, Writers \subseteq {w}
    PROVE  Spec => RFollowsEdits
  <1> DEFINE Kept == pnl # NULL /\ entry # NULL /\ entry.planned_stop # NULL /\ InLine
                     => InLine' \/ entry'.planned_stop = NULL
                        \/ \E s \in Session : LookedTooEarly(s)
  <1>1. JInv /\ RInv /\ [Next]_vars => [Kept]_vars
    <2> SUFFICES ASSUME JInv, RInv, [Next]_vars,
                        pnl # NULL, entry # NULL, entry.planned_stop # NULL, InLine
                 PROVE  InLine' \/ entry'.planned_stop = NULL
                        \/ \E s \in Session : LookedTooEarly(s)
        OBVIOUS
    <2>1. CASE UNCHANGED <<pnl, entry>>
          BY <2>1 DEF InLine
    <2>2. ASSUME NEW s \in Session, Commit(s)
          PROVE  InLine' \/ entry'.planned_stop = NULL \/ LookedTooEarly(s)
      <3>1. /\ pnl' = Or(sess[s].own.pnl, pnl) /\ entry' = Or(sess[s].own.entry, entry)
            /\ sess[s].at = "commit"
            BY <2>2, CommitKeeps DEF Commit
      <3>2. RRight(s)
            BY DEF RInv
      <3>3. CASE sess[s].own.entry = NULL
        <4>1. sess[s].own.pnl = NULL
              BY <3>2, <3>3 DEF RRight
        <4> QED BY <3>1, <3>3, <4>1 DEF Or, InLine
      <3>4. CASE sess[s].own.entry # NULL /\ sess[s].own.pnl # NULL
            BY <3>1, <3>2, <3>4 DEF Or, InLine, RRight
      <3>5. CASE sess[s].own.entry # NULL /\ sess[s].own.pnl = NULL
            BY <3>1, <3>5 DEF Or, LookedTooEarly
      <3> QED BY <3>3, <3>4, <3>5
    <2> QED BY <2>1, <2>2, StepKinds DEF Alone
  <1>2. [][Kept]_vars => RFollowsEdits
        BY PTL DEF RFollowsEdits
  <1> QED BY <1>1, <1>2, JInit, JNext, RInit, RNext, PTL DEF Spec

--------------------------------------------------------------------------------
(* The audit log. *)

Fields == {"planned_stop", "notes"}
AuditRows == [field_name: Fields, previous_value: TextRow \cup {NULL},
              new_value: TextRow \cup {NULL}]

\* The rows of a save tell what it changes: a field at most once, from the value
\* it had to the one it gets, and a field without a row keeps its value.
Tells(rows, old, new) ==
    /\ rows \in Seq(AuditRows)
    /\ \A i, j \in DOMAIN rows : rows[i].field_name = rows[j].field_name => i = j
    /\ \A i \in DOMAIN rows :
          /\ ValueOf(rows[i].previous_value) = old[rows[i].field_name]
          /\ ValueOf(rows[i].new_value) = new[rows[i].field_name]
    /\ \A field \in Fields :
          (\A i \in DOMAIN rows : rows[i].field_name # field) => old[field] = new[field]

LEMMA TextTells ==
    ASSUME NEW v \in Stop \cup Note \cup {NULL}, NEW p \in Nat
    PROVE  Text(v, p) \in TextRow \cup {NULL} /\ ValueOf(Text(v, p)) = v
  <1>1. CASE v = NULL
        BY <1>1 DEF Text, ValueOf
  <1>2. CASE v # NULL
    <2>1. Text(v, p) = [value |-> v, places |-> p] /\ Text(v, p) \in TextRow
          BY <1>2 DEF Text, TextRow
    <2>2. Text(v, p) # NULL
          BY <2>1, NullAssumption
    <2> QED BY <2>1, <2>2 DEF ValueOf
  <1> QED BY <1>1, <1>2

\* d has a row for a field that changes from v to u, and none if it does not.
FieldTold(d, field, v, u) ==
    \/ d = <<>> /\ v = u
    \/ \E row \in AuditRows :
          /\ d = <<row>> /\ row.field_name = field
          /\ ValueOf(row.previous_value) = v /\ ValueOf(row.new_value) = u

LEMMA DiffOfFieldTells ==
    ASSUME NEW field \in Fields, NEW v \in Stop \cup Note \cup {NULL},
           NEW u \in Stop \cup Note \cup {NULL}, NEW p \in Nat, NEW q \in Nat
    PROVE  FieldTold(DiffOfField(field, Text(v, p), Text(u, q)), field, v, u)
  <1> DEFINE row == AuditRow(field, Text(v, p), Text(u, q))
  <1>1. /\ Text(v, p) \in TextRow \cup {NULL} /\ Text(u, q) \in TextRow \cup {NULL}
        /\ ValueOf(Text(v, p)) = v /\ ValueOf(Text(u, q)) = u
        BY TextTells
  <1>2. /\ row \in AuditRows /\ row.field_name = field
        /\ row.previous_value = Text(v, p) /\ row.new_value = Text(u, q)
        BY <1>1 DEF AuditRow, AuditRows
  <1>3. CASE Text(v, p) = Text(u, q)
        BY <1>1, <1>3 DEF DiffOfField, FieldTold
  <1>4. CASE Text(v, p) # Text(u, q)
    <2>1. DiffOfField(field, Text(v, p), Text(u, q)) = <<row>>
          BY <1>4 DEF DiffOfField
    <2> HIDE DEF row
    <2> QED BY <1>1, <1>2, <2>1 DEF FieldTold
  <1> QED BY <1>3, <1>4

LEMMA DiffTells ==
    ASSUME NEW was \in GoodEntry, NEW data \in JournalEntryWrite, NEW new,
           new.planned_stop = data.planned_stop, new.notes = data.notes
    PROVE  Tells(DiffForAudit(was, data), was, new)
  <1> DEFINE d1 == DiffOfField("planned_stop", Text(was.planned_stop, 4),
                               Text(data.planned_stop, data.places))
             d2 == DiffOfField("notes", Text(was.notes, 0), Text(data.notes, 0))
             d == d1 \o d2
  <1>1. /\ was.planned_stop \in Stop \cup {NULL} /\ was.notes \in Note \cup {NULL}
        /\ data.planned_stop \in Stop \cup {NULL} /\ data.notes \in Note \cup {NULL}
        /\ data.places \in Nat
        BY JournalAssumption DEF GoodEntry, EntryRow, JournalEntryWrite
  <1>2. FieldTold(d1, "planned_stop", was.planned_stop, new.planned_stop)
        BY <1>1, DiffOfFieldTells DEF Fields
  <1>3. FieldTold(d2, "notes", was.notes, new.notes)
        BY <1>1, DiffOfFieldTells DEF Fields
  <1>4. DiffForAudit(was, data) = d
        BY DEF DiffForAudit
  <1> HIDE DEF d1, d2
  <1>5. CASE d1 = <<>> /\ d2 = <<>>
    <2>1. d = <<>>
          BY <1>5
    <2>2. was.planned_stop = new.planned_stop /\ was.notes = new.notes
          BY <1>2, <1>3, <1>5 DEF FieldTold
    <2> HIDE DEF d
    <2> QED BY <2>1, <2>2, <1>4 DEF Tells, Fields
  <1>6. CASE d1 # <<>> /\ d2 = <<>>
    <2>1. PICK row \in AuditRows :
             /\ d1 = <<row>> /\ row.field_name = "planned_stop"
             /\ ValueOf(row.previous_value) = was.planned_stop
             /\ ValueOf(row.new_value) = new.planned_stop
          BY <1>2, <1>6 DEF FieldTold
    <2>2. d = <<row>>
          BY <2>1, <1>6
    <2>3. was.notes = new.notes
          BY <1>3, <1>6 DEF FieldTold
    <2> HIDE DEF d
    <2>4. d \in Seq(AuditRows) /\ DOMAIN d = {1} /\ d[1] = row
          BY <2>1, <2>2
    <2> QED BY <2>1, <2>3, <2>4, <1>4 DEF Tells, Fields
  <1>7. CASE d1 = <<>> /\ d2 # <<>>
    <2>1. PICK row \in AuditRows :
             /\ d2 = <<row>> /\ row.field_name = "notes"
             /\ ValueOf(row.previous_value) = was.notes /\ ValueOf(row.new_value) = new.notes
          BY <1>3, <1>7 DEF FieldTold
    <2>2. d = <<row>>
          BY <2>1, <1>7
    <2>3. was.planned_stop = new.planned_stop
          BY <1>2, <1>7 DEF FieldTold
    <2> HIDE DEF d
    <2>4. d \in Seq(AuditRows) /\ DOMAIN d = {1} /\ d[1] = row
          BY <2>1, <2>2
    <2> QED BY <2>1, <2>3, <2>4, <1>4 DEF Tells, Fields
  <1>8. CASE d1 # <<>> /\ d2 # <<>>
    <2>1. PICK row \in AuditRows :
             /\ d1 = <<row>> /\ row.field_name = "planned_stop"
             /\ ValueOf(row.previous_value) = was.planned_stop
             /\ ValueOf(row.new_value) = new.planned_stop
          BY <1>2, <1>8 DEF FieldTold
    <2>2. PICK row2 \in AuditRows :
             /\ d2 = <<row2>> /\ row2.field_name = "notes"
             /\ ValueOf(row2.previous_value) = was.notes
             /\ ValueOf(row2.new_value) = new.notes
          BY <1>3, <1>8 DEF FieldTold
    <2>3. d1 \in Seq(AuditRows) /\ d2 \in Seq(AuditRows) /\ Len(d1) = 1 /\ Len(d2) = 1
          BY <2>1, <2>2
    <2>4. d \in Seq(AuditRows) /\ Len(d) = 2 /\ d[1] = row /\ d[2] = row2
          BY <2>1, <2>2, <2>3
    <2> HIDE DEF d
    <2>5. \A i : i \in DOMAIN d <=> i = 1 \/ i = 2
          BY <2>4
    <2> QED BY <2>5, <2>1, <2>2, <2>4, <1>4 DEF Tells, Fields
  <1> QED BY <1>5, <1>6, <1>7, <1>8

--------------------------------------------------------------------------------
(* A log to which such rows are added. *)

Adjacent(log, i, j) ==
    /\ i < j /\ log[i].field_name = log[j].field_name
    /\ \A k \in i + 1 .. j - 1 : log[k].field_name # log[i].field_name

\* Every row starts where the one before it ended, and the last one ends at the entry.
Story(log, ent) ==
    \A i \in DOMAIN log :
        /\ \A j \in DOMAIN log : Adjacent(log, i, j) =>
              ValueOf(log[j].previous_value) = ValueOf(log[i].new_value)
        /\ (\A j \in DOMAIN log : ~Adjacent(log, i, j)) =>
              ValueOf(log[i].new_value) = ent[log[i].field_name]

\* No row after the last one of a field is about it.
LEMMA LastIsLast ==
    ASSUME NEW log \in Seq(AuditRows), NEW i \in DOMAIN log,
           \A j \in DOMAIN log : ~Adjacent(log, i, j)
    PROVE  \A j \in DOMAIN log : i < j => log[j].field_name # log[i].field_name
  <1> DEFINE T == {j \in DOMAIN log : i < j /\ log[j].field_name = log[i].field_name}
  <1> SUFFICES ASSUME T # {} PROVE FALSE
      OBVIOUS
  <1>1. DOMAIN log = 1..Len(log) /\ Len(log) \in Nat /\ i \in Nat
        OBVIOUS
  <1>2. PICK j \in T : \A k \in T : j <= k
    <2>1. T \subseteq Nat
          BY <1>1
    <2> HIDE DEF T
    <2> QED BY <2>1, Least
  <1>3. ASSUME NEW k \in i + 1 .. j - 1 PROVE log[k].field_name # log[i].field_name
    <2>1. k \in DOMAIN log /\ i < k /\ ~(j <= k)
          BY <1>1, <1>2
    <2> QED BY <2>1, <1>2
  <1> QED BY <1>2, <1>3 DEF Adjacent

LEMMA StoryGoesOn ==
    ASSUME NEW log \in Seq(AuditRows), NEW rows, NEW old, NEW new,
           Story(log, old), Tells(rows, old, new)
    PROVE  Story(log \o rows, new)
  <1> DEFINE n == Len(log)
             m == Len(rows)
             all == log \o rows
  <1>1. rows \in Seq(AuditRows)
        BY DEF Tells
  <1>2. /\ n \in Nat /\ m \in Nat /\ DOMAIN log = 1..n /\ DOMAIN rows = 1..m
        /\ DOMAIN all = 1..n + m
        /\ \A i \in 1..n : all[i] = log[i] /\ all[i] \in AuditRows
        /\ \A i \in n + 1 .. n + m : all[i] = rows[i - n] /\ i - n \in 1..m
        BY <1>1
  <1> HIDE DEF n, m, all
  <1>3. ASSUME NEW i \in 1..n, NEW j \in 1..n
        PROVE  Adjacent(all, i, j) <=> Adjacent(log, i, j)
    <2>1. \A k \in i + 1 .. j - 1 : all[k] = log[k]
          BY <1>2
    <2>2. all[i] = log[i] /\ all[j] = log[j]
          BY <1>2
    <2> QED BY <2>1, <2>2 DEF Adjacent
  <1>4. ASSUME NEW i \in 1..n, NEW j \in n + 1 .. n + m, Adjacent(all, i, j)
        PROVE  \A k \in 1..n : ~Adjacent(log, i, k)
    <2> SUFFICES ASSUME NEW k \in 1..n, Adjacent(log, i, k) PROVE FALSE
        OBVIOUS
    <2>1. k \in i + 1 .. j - 1 /\ log[k].field_name = log[i].field_name
          BY <1>2, <1>4 DEF Adjacent
    <2>2. all[k] = log[k] /\ all[i] = log[i]
          BY <1>2
    <2> QED BY <2>1, <2>2, <1>4 DEF Adjacent
  <1>5. ASSUME NEW i \in 1..n, \A k \in 1..n : ~Adjacent(log, i, k)
        PROVE  ValueOf(all[i].new_value) = old[all[i].field_name]
        BY <1>2, <1>5 DEF Story
  <1>6. ASSUME NEW j \in n + 1 .. n + m
        PROVE  /\ ValueOf(all[j].previous_value) = old[all[j].field_name]
               /\ ValueOf(all[j].new_value) = new[all[j].field_name]
        BY <1>2 DEF Tells
  <1>7. ASSUME NEW i \in 1..n + m, NEW j \in 1..n + m, Adjacent(all, i, j)
        PROVE  ValueOf(all[j].previous_value) = ValueOf(all[i].new_value)
    <2>1. CASE j \in 1..n
      <3>1. i \in 1..n
            BY <1>2, <1>7, <2>1 DEF Adjacent
      <3>2. Adjacent(log, i, j) /\ all[i] = log[i] /\ all[j] = log[j]
            BY <3>1, <2>1, <1>2, <1>3, <1>7
      <3> QED BY <3>1, <3>2, <2>1, <1>2 DEF Story
    <2>2. CASE i \in 1..n /\ j \in n + 1 .. n + m
      <3>1. ValueOf(all[i].new_value) = old[all[i].field_name]
            BY <2>2, <1>4, <1>5, <1>7
      <3>2. all[i].field_name = all[j].field_name
            BY <1>7 DEF Adjacent
      <3> QED BY <3>1, <3>2, <2>2, <1>6
    <2>3. CASE i \in n + 1 .. n + m /\ j \in n + 1 .. n + m
      <3>1. i - n \in DOMAIN rows /\ j - n \in DOMAIN rows
            /\ rows[i - n].field_name = rows[j - n].field_name
            BY <1>2, <1>7, <2>3 DEF Adjacent
      <3>2. i - n = j - n
            BY <3>1 DEF Tells
      <3> QED BY <3>2, <1>2, <1>7, <2>3 DEF Adjacent
    <2>4. i < j
          BY <1>7 DEF Adjacent
    <2> QED BY <2>1, <2>2, <2>3, <2>4, <1>2
  <1>8. ASSUME NEW i \in 1..n + m, \A j \in 1..n + m : ~Adjacent(all, i, j)
        PROVE  ValueOf(all[i].new_value) = new[all[i].field_name]
    <2>1. CASE i \in n + 1 .. n + m
          BY <2>1, <1>6
    <2>2. CASE i \in 1..n
      <3> DEFINE field == all[i].field_name
      <3>1. field \in Fields /\ log[i] = all[i]
            BY <2>2, <1>2 DEF AuditRows
      <3>2. \A j \in 1..n : ~Adjacent(log, i, j)
        <4>1. \A j \in 1..n : j \in 1..n + m
              BY <1>2
        <4> QED BY <4>1, <2>2, <1>3, <1>8
      <3>3. ValueOf(all[i].new_value) = old[field]
            BY <2>2, <3>2, <1>5
      <3>4. \A j \in 1..n : i < j => log[j].field_name # field
            BY <2>2, <3>1, <3>2, <1>2, LastIsLast
      <3>5. \A k \in 1..m : rows[k].field_name # field
        <4> SUFFICES ASSUME NEW k \in 1..m, rows[k].field_name = field PROVE FALSE
            OBVIOUS
        <4> DEFINE j == n + k
        <4>1. j \in n + 1 .. n + m /\ j \in 1..n + m /\ i < j /\ j - n = k /\ all[j] = rows[k]
              BY <2>2, <1>2
        <4>2. ASSUME NEW q \in i + 1 .. j - 1 PROVE all[q].field_name # field
          <5>1. CASE q \in 1..n
                BY <5>1, <3>4, <1>2, <2>2
          <5>2. CASE q \notin 1..n
            <6>1. q \in n + 1 .. n + m /\ q - n \in 1..m /\ q - n # k /\ all[q] = rows[q - n]
                  BY <5>2, <4>1, <1>2, <2>2
            <6> QED BY <6>1, <1>2 DEF Tells
          <5> QED BY <5>1, <5>2
        <4>3. Adjacent(all, i, j)
              BY <4>1, <4>2 DEF Adjacent
        <4> QED BY <4>1, <4>3, <1>8
      <3>6. old[field] = new[field]
            BY <3>1, <3>5, <1>2 DEF Tells
      <3> QED BY <3>3, <3>6
    <2> QED BY <2>1, <2>2, <1>2
  <1>9. Story(all, new)
        BY <1>2, <1>7, <1>8 DEF Story
  <1> QED BY <1>9 DEF all

\* What a save has read is still so when it is written, as nobody else edits;
\* and a request creates an entry only where there is none.
ARight(s) ==
    LET own == sess[s].own
        seen == sess[s].seen
    IN  /\ own.entry = NULL => own.audit = <<>>
        /\ own.entry # NULL => s \in Editors \/ entry = NULL
        /\ own.entry # NULL /\ entry = NULL => own.audit = <<>>
        /\ own.entry # NULL /\ entry # NULL => Tells(own.audit, entry, own.entry)
        /\ sess[s].at = "write" =>
              /\ s \in Editors /\ sess[s].req \in JournalEntryWrite
              /\ seen.now.planned_stop = sess[s].req.planned_stop
              /\ seen.now.notes = sess[s].req.notes
              /\ seen.was \in {NULL, entry}
        /\ sess[s].at \in {"presign", "write"} => own.entry = NULL

AInv ==
    /\ audit \in Seq(AuditRows)
    /\ entry = NULL => audit = <<>>
    /\ Story(audit, entry)
    /\ \A s \in Session : ARight(s)

LEMMA StoryIsExplained == Story(audit, entry) <=> AuditExplainsEntry
  BY DEF Story, AuditExplainsEntry, Adjacent, Consecutive, LastOfField

LEMMA AInit == Init => AInv
  <1> SUFFICES ASSUME Init PROVE AInv
      OBVIOUS
  <1>1. audit \in Seq(AuditRows) /\ audit = <<>> /\ DOMAIN audit = {}
        BY DEF Init
  <1>2. \A s \in Session : ARight(s)
        BY DEF Init, ARight, Idle, NothingWritten
  <1> QED BY <1>1, <1>2 DEF AInv, Story

LEMMA AStep ==
    ASSUME JInv, AInv, NEW s \in Session, Alone(s), Does(s)
    PROVE  AInv'
  <1>1. ARight(s) /\ entry' = entry /\ audit' = audit /\ trade' = trade
        BY DEF AInv, Alone
  <1>2. ARight(s)'
    <2>1. CASE Aside(s) \/ Runs(s)
      <3>1. sess'[s].own.entry = NULL /\ sess'[s].own.audit = <<>> /\ sess'[s].at # "write"
            BY <2>1 DEF Aside, Runs
      <3> QED BY <3>1 DEF ARight
    <2>2. CASE Attaches(s) \/ Backfills(s) \/ Stores(s) \/ Recalculates(s)
      <3>1. /\ sess'[s].own.entry = sess[s].own.entry /\ sess'[s].own.audit = sess[s].own.audit
            /\ sess'[s].at \notin {"presign", "write"}
            BY <2>2 DEF Attaches, Backfills, Stores, Recalculates
      <3> QED BY <1>1, <3>1 DEF ARight
    <2>3. CASE Inserts(s)
      <3>1. sess[s].own.entry = NULL /\ sess[s].own.audit = <<>>
            BY <1>1, <2>3 DEF ARight, Inserts
      <3>2. /\ sess'[s].own.audit = <<>> /\ sess'[s].at = "commit"
            /\ sess'[s].own.entry = NULL \/ entry = NULL
            BY <2>3, <3>1 DEF Inserts
      <3> QED BY <1>1, <3>2 DEF ARight
    <2>4. CASE Reads(s)
      <3> DEFINE data == sess'[s].req
      <3>1. /\ sess'[s].own = NothingWritten /\ s \in Editors /\ sess'[s].at = "write"
            /\ data \in JournalEntryWrite
            /\ sess'[s].seen = [was |-> entry, now |-> EntryFrom(data, trade)]
            BY <2>4 DEF Reads
      <3>2. /\ EntryFrom(data, trade).planned_stop = data.planned_stop
            /\ EntryFrom(data, trade).notes = data.notes
            BY DEF EntryFrom
      <3>3. /\ sess'[s].seen.was = entry
            /\ sess'[s].seen.now.planned_stop = data.planned_stop
            /\ sess'[s].seen.now.notes = data.notes
            BY <3>1, <3>2
      <3> HIDE DEF data
      <3> QED BY <1>1, <3>1, <3>3 DEF ARight, NothingWritten, data
    <2>5. CASE Writes(s)
      <3> DEFINE was == sess[s].seen.was
                 now == sess[s].seen.now
                 data == sess[s].req
      <3>1. /\ s \in Editors /\ data \in JournalEntryWrite /\ now.notes = data.notes
            /\ now.planned_stop = data.planned_stop /\ was \in {NULL, entry}
            BY <1>1, <2>5 DEF ARight, Writes
      <3>2. /\ sess'[s].own.entry = now /\ sess'[s].at = "r_multiple"
            /\ was = NULL => entry = NULL
            /\ sess'[s].own.audit = IF was = NULL THEN <<>> ELSE DiffForAudit(was, data)
            BY <2>5 DEF Writes
      <3>3. now # NULL
            BY <2>5, Nulls DEF Writes, JInv, Holds
      <3> HIDE DEF was, now, data
      <3>4. CASE was = NULL
            BY <1>1, <3>1, <3>2, <3>3, <3>4 DEF ARight
      <3>5. CASE was # NULL
        <4>1. was = entry /\ was \in GoodEntry
              BY <3>1, <3>5 DEF JInv, RowsTyped
        <4>2. Tells(DiffForAudit(was, data), was, now)
              BY <3>1, <4>1, DiffTells
        <4> QED BY <1>1, <3>1, <3>2, <3>3, <3>5, <4>1, <4>2 DEF ARight
      <3> QED BY <3>4, <3>5
    <2> QED BY <2>1, <2>2, <2>3, <2>4, <2>5 DEF Does
  <1>3. \A t \in Session \ {s} : ARight(t)'
    <2> SUFFICES ASSUME NEW t \in Session \ {s} PROVE ARight(t)'
        OBVIOUS
    <2>1. ARight(t) /\ sess'[t] = sess[t]
          BY DEF AInv, Alone
    <2> QED BY <1>1, <2>1 DEF ARight
  <1> QED BY <1>1, <1>2, <1>3 DEF AInv

LEMMA ACommit ==
    ASSUME NEW e, Editors \subseteq {e}, JInv, AInv, NEW s \in Session, Commit(s)
    PROVE  AInv'
  <1> DEFINE own == sess[s].own
  <1>1. /\ entry' = Or(own.entry, entry) /\ sess'[s] = Idle
        /\ \A t \in Session \ {s} : sess'[t] = sess[t]
        BY CommitKeeps
  <1>2. audit' = audit \o own.audit /\ ARight(s)
        BY DEF Commit, AInv
  <1>3. audit' \in Seq(AuditRows) /\ (entry' = NULL => audit' = <<>>) /\ Story(audit', entry')
    <2>1. CASE own.entry = NULL
      <3>1. own.audit = <<>> /\ entry' = entry
            BY <1>1, <1>2, <2>1 DEF ARight, Or
      <3>2. audit' = audit
            BY <1>2, <3>1 DEF AInv
      <3> QED BY <3>1, <3>2 DEF AInv
    <2>2. CASE own.entry # NULL /\ entry = NULL
      <3>1. audit = <<>> /\ own.audit = <<>> /\ entry' # NULL
            BY <1>1, <1>2, <2>2 DEF AInv, ARight, Or
      <3>2. audit' = <<>>
            BY <1>2, <3>1
      <3> QED BY <3>1, <3>2 DEF Story
    <2>3. CASE own.entry # NULL /\ entry # NULL
      <3>1. Tells(own.audit, entry, entry') /\ entry' # NULL
            BY <1>1, <1>2, <2>3 DEF ARight, Or
      <3>2. own.audit \in Seq(AuditRows) /\ audit \in Seq(AuditRows) /\ Story(audit, entry)
            BY <3>1 DEF Tells, AInv
      <3>3. Story(audit \o own.audit, entry')
            BY <3>1, <3>2, StoryGoesOn
      <3> QED BY <1>2, <3>1, <3>2, <3>3
    <2> QED BY <2>1, <2>2, <2>3
  <1>4. ARight(s)'
        BY <1>1 DEF ARight, Idle, NothingWritten
  <1>5. ASSUME NEW t \in Session \ {s} PROVE ARight(t)'
    <2>1. ARight(t) /\ sess'[t] = sess[t]
          BY <1>1 DEF AInv
    <2>2. CASE own.entry = NULL
      <3>1. entry' = entry
            BY <1>1, <2>2 DEF Or
      <3> QED BY <2>1, <3>1 DEF ARight
    <2>3. CASE own.entry # NULL
      <3>1. sess[t].own.entry = NULL
            BY <2>3 DEF JInv, Holds
      <3>2. sess[t].at = "write" => sess[t].seen.was = NULL
        <4> SUFFICES ASSUME sess[t].at = "write" PROVE sess[t].seen.was = NULL
            OBVIOUS
        <4>1. t \in Editors /\ sess[t].seen.was \in {NULL, entry}
              BY <2>1 DEF ARight
        <4>2. entry = NULL
              BY <1>2, <2>3, <4>1 DEF ARight
        <4> QED BY <4>1, <4>2
      <3> QED BY <2>1, <3>1, <3>2 DEF ARight
    <2> QED BY <2>2, <2>3
  <1> QED BY <1>3, <1>4, <1>5 DEF AInv

LEMMA ANext ==
    ASSUME NEW e, Editors \subseteq {e}
    PROVE  JInv /\ AInv /\ [Next]_vars => AInv'
  <1> SUFFICES ASSUME JInv, AInv, [Next]_vars PROVE AInv'
      OBVIOUS
  <1>1. CASE UNCHANGED <<trade, pnl, entry, audit, sess>>
        BY <1>1 DEF AInv, ARight
  <1> QED BY <1>1, StepKinds, AStep, ACommit

\* One editor at a time: each field's audit rows form a chain from its first value to
\* the one the entry now holds.
THEOREM AuditIsComplete ==
    ASSUME NEW e, Editors \subseteq {e}
    PROVE  Spec => []AuditExplainsEntry
  <1>1. AInv => AuditExplainsEntry
        BY StoryIsExplained DEF AInv
  <1> QED BY <1>1, JInit, JNext, AInit, ANext, PTL DEF Spec
================================================================================
