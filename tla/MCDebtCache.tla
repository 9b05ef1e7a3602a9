--------------------------- MODULE MCDebtCache ---------------------------
(* Writes of every kind against one or two requests for the summary.       *)
EXTENDS DebtCache, TLC

CONSTANTS create, update, delete, share, settle, r1, r2

Readers == Permutations(Reader)

MCKind ==
    [w \in Write |->
        CASE w = create -> "create"
          [] w = update -> "update"
          [] w = delete -> "delete"
          [] w = share -> "share"
          [] w = settle -> "settle"]

MCRaise == [w \in Write |-> IF w \in {update, share} THEN 1 ELSE 0]
=============================================================================
