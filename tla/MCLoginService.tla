--------------------------- MODULE MCLoginService ---------------------------
EXTENDS LoginService, TLC

\* Requests, users and servers are interchangeable.
Symmetry == Permutations(Requests) \cup Permutations(Users) \cup Permutations(Servers)
=============================================================================
