----------------------------- MODULE MCAccounts -----------------------------
(* Small instances of the accounts for TLC.                                  *)
EXTENDS AccountsProperties, TLC

CONSTANTS FirstAdmin, SecondAdmin, FirstUser

\* Two admins, the first with one API user.
MCManager == (FirstAdmin :> Root) @@ (SecondAdmin :> Root) @@ (FirstUser :> FirstAdmin)
\* An admin and an API user of its own.
MCManagerOne == (FirstAdmin :> Root) @@ (FirstUser :> FirstAdmin)

ThreadSymmetry == Permutations(Threads)
=============================================================================
