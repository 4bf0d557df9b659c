------------------------------ MODULE MCInvoices ------------------------------
(* Small instances of Invoices for TLC; the bounds are in the .cfg files. *)
EXTENDS Invoices, TLC
=============================================================================
