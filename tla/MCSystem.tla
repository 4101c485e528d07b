------------------------------ MODULE MCSystem ------------------------------
(* System on a small instance.                                             *)
EXTENDS System, TLC

\* Finalize, void, and edits of the business's own invoice that move the due date and
\* replace the line items.  Of two calls one finalizes the invoice, or nothing is ever
\* paid: so edits and voids that matter come first, with version 1.  A finalize may
\* guess, up to the version a claim leaves behind.  InvoiceLifecycle is checked with
\* all calls.
AskedHere ==
  {L!Plain("finalize", v) : v \in 1..3} \cup {L!Plain("void", 1)} \cup
  [op : {"edit"}, versioning : {1}, own : {TRUE}, due : {"valid"}, items : {TRUE}]

Symmetry == Permutations(Calls) \cup Permutations(Requests) \cup Permutations(Keys)
=============================================================================
