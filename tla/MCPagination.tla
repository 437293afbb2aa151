----------------------------- MODULE MCPagination ---------------------------
(* Instances of Pagination for TLC.                                          *)
EXTENDS Pagination

MCLimits == {-1, 0, 1, 2, 5, NoLimit}
=============================================================================
