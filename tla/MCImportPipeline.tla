-------------------------- MODULE MCImportPipeline --------------------------
(***************************************************************************)
(* Files for ImportPipeline: b reports the executions of a in the opposite *)
(* order, and one more, so that the two wait for each other's fills; c     *)
(* reports others of the same units, one of them twice, in the opposite    *)
(* order of a, so that the two wait for each other's trades.               *)
(***************************************************************************)
EXTENDS ImportPipeline, TLC

OneRow(b, u) == [bid |-> b, unit |-> u]

MCRows ==
    [f \in {"a", "b", "c"} |->
        CASE f = "a" -> <<OneRow(1, "u"), OneRow(2, "v")>>
          [] f = "b" -> <<OneRow(2, "v"), OneRow(1, "u"), OneRow(5, "v")>>
          [] f = "c" -> <<OneRow(3, "v"), OneRow(4, "u"), OneRow(3, "v")>>]

\* One account starts with an open trade in each unit, the other is flat.
MCByHand == [acct: {CHOOSE a \in Account : TRUE}, unit: Unit, by: {0}]
=============================================================================
