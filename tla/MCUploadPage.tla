------------------------------ MODULE MCUploadPage ------------------------------
(***************************************************************************)
(* UploadPage on a small instance: two chunks of one unit each; the videos *)
(* differ in the second.                                                   *)
(***************************************************************************)
EXTENDS UploadPage

CONSTANTS f1, f2

Contents == [f \in Files |-> IF f = f1 THEN <<1, 1>> ELSE <<1, 2>>]
===============================================================================
