------------------------- MODULE MCInvoiceLifecycle -------------------------
(* InvoiceLifecycle on a small instance.                                   *)
EXTENDS InvoiceLifecycle, TLC

\* Calls differ only in what they ask, which is chosen freely.
Symmetry == Permutations(Calls)
=============================================================================
