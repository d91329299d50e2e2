--------------------------- MODULE MCAuthDatabase ---------------------------
(***************************************************************************)
(* AuthDatabase on small instances.  The names of accounts, addresses,     *)
(* passwords, tokens and requests are interchangeable.                     *)
(***************************************************************************)
EXTENDS AuthDatabase, TLC

Symmetry == Permutations(Ids) \cup Permutations(Emails) \cup Permutations(Passwords)
            \cup Permutations(Tokens) \cup Permutations(Requests)
=============================================================================
