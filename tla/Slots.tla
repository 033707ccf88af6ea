-------------------------------- MODULE Slots --------------------------------
(***************************************************************************)
(* The header word at the start of every request and response slot         *)
(* (src/runtime/slots.rs, mod header): bit 0 is the ready bit, the other   *)
(* bits carry a record count.  The word is an AtomicU32; WordSize is the   *)
(* number of its values, 2^32 in the code.                                 *)
(***************************************************************************)
EXTENDS Integers

CONSTANT WordSize

(* A word has a ready bit and room for at least the count 1.               *)
ASSUME WordSizeAssumption ==
  /\ WordSize \in Nat
  /\ WordSize >= 4
  /\ WordSize % 2 = 0

Word == 0 .. (WordSize - 1)

(* (count << 1) & COUNT_MASK | ready: the shift of a u32 loses the top bit *)
(* of the count, and the mask keeps bit 0 free for the ready bit.          *)
pack_ready_count(ready_bit, n) ==
  ((2 * n) % WordSize) + (IF ready_bit THEN 1 ELSE 0)

ready(word) == word % 2 # 0

count(word) == word \div 2

=============================================================================
