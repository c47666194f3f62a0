--------------------------- MODULE MCPdfDelivery ---------------------------
(***************************************************************************)
(* A small instance of PdfDelivery: two workers, an invoice and a          *)
(* reminder, attempts and batches cut down from ten to two.                *)
(***************************************************************************)
EXTENDS PdfDelivery

CONSTANTS w1, w2, k1, k2
=============================================================================
