------------------------------- MODULE MCAuth -------------------------------
(* An instance of Auth for TLC: links and access tokens last one step of the *)
(* clock, which makes two.                                                   *)
EXTENDS Auth, TLC

CONSTANTS e1, e2, r1, r2, p1, p2

AuthSymmetry ==
  Permutations(Emails) \cup Permutations(Passwords) \cup Permutations(Requests)

MCRoles == {"ADMIN", "CUSTOMER"}

=============================================================================
