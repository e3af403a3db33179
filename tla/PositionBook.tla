---------------------------- MODULE PositionBook ----------------------------
(***************************************************************************)
(* What reconstruction promises, without trades, lots, roles or snapshots: *)
(* one signed position per processing unit, moved by exactly the signed    *)
(* quantity of each fill, never through zero in one fill, and kept or      *)
(* discarded as a whole at the end of a request.  Deleting the open trade  *)
(* of a unit makes the unit flat.                                          *)
(***************************************************************************)
EXTENDS Integers

CONSTANTS
    Account, \* processing units
    Qty,     \* positive quantities
    NULL     \* no unit

VARIABLES
    book,  \* signed position of each unit, as the open request sees it
    kept,  \* signed position of each unit at the last commit
    owner  \* the unit a request is moving, or NULL

bvars == <<book, kept, owner>>

Flat == [a \in Account |-> 0]

BookInit == book = Flat /\ kept = Flat /\ owner = NULL

Begin(a) ==
    /\ owner = NULL
    /\ owner' = a
    /\ UNCHANGED <<book, kept>>

\* From flat, up or down; otherwise never to the other side of zero.
Legal(p, q) == (p > 0 => q >= 0) /\ (p < 0 => q <= 0)

Move(a, d) ==
    /\ owner = a
    /\ Legal(book[a], book[a] + d)
    /\ book' = [book EXCEPT ![a] = @ + d]
    /\ UNCHANGED <<kept, owner>>

Keep ==
    /\ owner # NULL
    /\ kept' = book
    /\ owner' = NULL
    /\ UNCHANGED book

Discard ==
    /\ owner # NULL
    /\ book' = kept
    /\ owner' = NULL
    /\ UNCHANGED kept

Flatten(a) ==
    /\ owner = NULL
    /\ book' = [book EXCEPT ![a] = 0]
    /\ kept' = book'
    /\ UNCHANGED owner

BookNext ==
    \/ \E a \in Account : Begin(a) \/ Flatten(a)
    \/ \E a \in Account, q \in Qty : Move(a, q) \/ Move(a, -q)
    \/ Keep
    \/ Discard

BookSpec == BookInit /\ [][BookNext]_bvars
=============================================================================
