---------------------------- MODULE MCMetaPointer ----------------------------
(* Two map entries p1, p2 and one raw buffer p3 for deep_copy(); two pool *)
(* objects, so a load can hold one while the other is hooked; one caller *)
(* guard, whose set_obj() can beat the load to the hook; one loader; one  *)
(* spare address, so the checkpoint moves a block once.                   *)
EXTENDS MetaPointer, TLC

CONSTANTS p1, p2, p3, o1, o2, g1, l1, l2, a1, a2, a3, a4

MCInitAddr == (p1 :> a1) @@ (p2 :> a2) @@ (p3 :> NoAddr)
=============================================================================
