-------------------------- MODULE MCCinderOperator --------------------------
EXTENDS CinderOperator, TLC

CONSTANTS A, B, C, M, N, X, Y

One   == {1}
Two   == {2}
None  == {}
AB    == {A, B}
ABC   == {A, B, C}
OnlyA == {A}
OnlyM == {M}
MN    == {M, N}
OnlyX == {X}
XY    == {X, Y}

Rotate         == {"rotate"}
RotateRestart  == {"rotate", "restart"}
RotateNotify   == {"rotate", "restart", "notifications"}
RotateService  == {"rotate", "service"}
RotateServiceRestart == {"rotate", "service", "restart"}
Credential     == {"credential"}
Lifecycle      == {"rotate", "credential", "delete", "restart"}
Everything     == {"rotate", "credential", "notifications", "service",
                   "delete"}

\* Secrets of one kind are interchangeable (safety properties only).
Symmetry == Permutations(TransportSecrets) \cup Permutations(NotifSecrets)
              \cup Permutations(ACSecrets)

=============================================================================
