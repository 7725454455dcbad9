-------------------------------- MODULE MCUpload --------------------------------
(***************************************************************************)
(* Two windows of a browser, on small instances: they transfer videos to   *)
(* one upload session, or their users log in and out.  The two share no    *)
(* state; one of them, chosen in the beginning, is at work, and the other  *)
(* stays as it is.                                                         *)
(*                                                                         *)
(* A video has two chunks, the first of two units; the videos differ from  *)
(* the second unit on.                                                     *)
(***************************************************************************)
EXTENDS UploadTransfer, Sessions, TLC

CONSTANTS f1, f2

Contents == [f \in Files |-> IF f = f1 THEN <<1, 1, 1>> ELSE <<1, 2, 2>>]

VARIABLE part

Alike == Permutations(Tabs) \cup Permutations(Windows) \cup Permutations(Users)

-------------------------------------------------------------------------------
all == <<part, vars, sessionVars>>

WindowsInit == part \in {"transfer", "accounts"} /\ Init /\ SessionsInit

WindowsNext ==
    \/ part = "transfer" /\ Next /\ UNCHANGED <<part, sessionVars>>
    \/ part = "accounts" /\ SessionsNext /\ UNCHANGED <<part, vars>>

WindowsSpec == WindowsInit /\ [][WindowsNext]_all
===============================================================================
