------------------------ MODULE MCDebtSimplification ------------------------
(* Amounts small enough for many ties and partial payments.                  *)
EXTENDS DebtSimplification

MCBalance == -5..5
=============================================================================
