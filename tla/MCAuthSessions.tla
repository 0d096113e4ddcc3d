--------------------------- MODULE MCAuthSessions ---------------------------
(* An instance of AuthSessions for TLC: one address, typed in two ways.      *)
EXTENDS AuthSessions, TLC

CONSTANTS adaLower, adaMixed

TwoCases == {adaLower, adaMixed}

LowerTwoCases == [m \in TwoCases |-> adaLower]

\* Requests, accounts and tokens are interchangeable; addresses are not.
Symmetry == Permutations(Request) \cup Permutations(User) \cup Permutations(Token)

=============================================================================
