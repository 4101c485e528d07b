--------------------------- MODULE MCInvoiceTotals ---------------------------
(* InvoiceTotals on a small instance.                                      *)
EXTENDS InvoiceTotals

\* Two negative factors have a positive product; 3 times 7 exceeds four bits.
QuantitiesHere == {-1, 1, 3}
AmountsHere == {-2, 2, 7}
=============================================================================
