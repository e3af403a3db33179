---------------------------- MODULE ImportLedger ----------------------------
(***************************************************************************)
(* What the import of broker files promises: a file goes into an account   *)
(* as a whole and at most once, and an execution that several files report *)
(* is in the account's book once.  Accounts know nothing of each other.    *)
(***************************************************************************)
EXTENDS Integers

CONSTANTS
    Account, \* trading accounts
    File,    \* files, told apart by their bytes
    BrokerId, \* ids the broker gives to executions
    Reported \* the executions each file reports: File -> SUBSET BrokerId

VARIABLES
    book, \* how often each execution is in each account
    done  \* <<file, account>>: the imports that have succeeded

lvars == <<book, done>>

LedgerInit ==
    /\ book = [a \in Account |-> [b \in BrokerId |-> 0]]
    /\ done = {}

Import(f, a) ==
    /\ <<f, a>> \notin done
    /\ book' = [book EXCEPT ![a] =
                   [b \in BrokerId |-> IF b \in Reported[f] THEN 1 ELSE @[b]]]
    /\ done' = done \cup {<<f, a>>}

LedgerNext == \E f \in File, a \in Account : Import(f, a)

LedgerSpec == LedgerInit /\ [][LedgerNext]_lvars
=============================================================================
