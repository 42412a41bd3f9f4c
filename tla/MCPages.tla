------------------------------- MODULE MCPages --------------------------------
(* A small site for TLC.  Administrators, elements and pages are             *)
(* interchangeable.                                                          *)
EXTENDS Pages

Alike == Permutations(Admins) \cup Permutations(Elements) \cup Permutations(PageIds)

=============================================================================
