----------------------------- MODULE MCPagedSim -----------------------------
(***************************************************************************)
(* PagedSim as the page runs it: the constants of Motion.tsx, and what its *)
(* seeded generator makes of ORDER and of the first lengths of FINAL.      *)
(***************************************************************************)
EXTENDS SiteSimulations, TLC

PageOrder == <<30, 23, 25, 17, 28, 14, 33, 19, 15, 45, 3, 39, 0, 2, 43, 13, 44, 8, 35, 27, 18, 1, 7,
               42, 4, 22, 12, 34, 46, 16, 41, 20, 38, 47, 32, 10, 21, 26, 24, 5, 37, 11, 29, 31,
               36, 6, 40, 9>>
PageFinals == {<<10, 11, 5, 9, 4, 9, 10, 7, 13, 5, 11, 11, 10, 4, 7, 6, 13, 5, 11, 10>>}
OneStream == {<<3, 5, 2>>}
=============================================================================
