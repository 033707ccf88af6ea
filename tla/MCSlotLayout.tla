---------------------------- MODULE MCSlotLayout -----------------------------
(* Constants of SlotLayout for model checking: the sizes of the code, and   *)
(* closures, arguments and results at the edges of the two blocks.          *)
EXTENDS SlotLayout

(* The record ends at 48, the primary block at 128, the slot at 1152.       *)
EdgeSizes == {1, 8, 80, 81, 96, 1024, 1025, 1104, 1105}

(* size_of is a multiple of align_of.                                       *)
Layouts(sizes, aligns) ==
  {l \in [size : sizes, align : aligns] : l.size % l.align = 0}

EdgeLayouts ==
  Layouts(EdgeSizes, {1, 2, 4, 8}) \cup Layouts({16, 80, 96, 112, 128, 1024}, {16})

WideLayouts == Layouts({64}, {16, 32, 64})

(* Captures that have no size.                                              *)
ZeroLayouts == Layouts({0}, {1, 8, 16})

Pointer == [size |-> 8, align |-> 8]

AllLayouts == EdgeLayouts \cup ZeroLayouts

=============================================================================
