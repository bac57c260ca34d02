----------------------------- MODULE MCSeedStore ----------------------------
(* As many random seeds as the overlapping populates of two starts and the *)
(* texts that are kept can hold.                                           *)
EXTENDS SeedStore

MCRandom == {"r1", "r2", "r3", "r4", "r5", "r6", "r7", "r8", "r9", "r10"}
=============================================================================
