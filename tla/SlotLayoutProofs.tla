-------------------------- MODULE SlotLayoutProofs ---------------------------
(* Machine-checked proofs about SlotLayout.                                 *)
EXTENDS SlotLayout, TLAPS

-----------------------------------------------------------------------------
(* Arithmetic of alignments.                                                *)

(* Division with remainder.                                                 *)
LEMMA DivMod ==
  ASSUME NEW y \in Int, NEW a \in Nat \ {0}
  PROVE  /\ y \div a \in Int
         /\ y = a * (y \div a) + (y % a)
         /\ y % a \in 0 .. (a - 1)
  BY SMT

(* Multiples of a leave no remainder.                                       *)
LEMMA MultipleMod ==
  ASSUME NEW a \in Nat \ {0}, NEW k \in Int
  PROVE  (a * k) % a = 0
  BY SMT

(* Two of them are at least a apart.                                        *)
LEMMA MultiplesApart ==
  ASSUME NEW a \in Nat \ {0}, NEW q \in Nat, NEW r \in Nat,
         q % a = 0, r % a = 0, q < r
  PROVE  q + a <= r
<1> DEFINE j == q \div a
           k == r \div a
<1>1. j \in Int /\ k \in Int /\ q = a * j /\ r = a * k
  BY DivMod
<1> HIDE DEF j, k
<1>2. j + 1 <= k
  BY <1>1
<1>3. a * (j + 1) <= a * k
  BY <1>1, <1>2
<1>4. a * (j + 1) = a * j + a
  BY <1>1
<1> QED
  BY <1>1, <1>3, <1>4

(* What an alignment of 0 counts as.                                        *)
Align(align) == IF align = 0 THEN 1 ELSE align

(* RoundUp returns the least multiple that is not below x.                  *)
LEMMA RoundUpIsLeast ==
  ASSUME NEW x \in Nat, NEW align \in Nat
  PROVE  /\ RoundUp(x, align) \in Nat
         /\ RoundUp(x, align) >= x
         /\ RoundUp(x, align) % Align(align) = 0
         /\ \A q \in x .. (RoundUp(x, align) - 1) : q % Align(align) # 0
<1> DEFINE a == Align(align)
           y == x + (a - 1)
           r == y - (y % a)
<1>1. a \in Nat \ {0} /\ y \in Nat /\ y = x + (a - 1) /\ RoundUp(x, align) = r
  BY DEF Align, RoundUp
<1> HIDE DEF a, y
<1>2. y = a * (y \div a) + (y % a) /\ y \div a \in Int /\ y % a \in 0 .. (a - 1)
  BY <1>1, DivMod
<1>3. r = a * (y \div a)
  BY <1>1, <1>2
<1>4. r % a = 0
  BY <1>1, <1>2, <1>3, MultipleMod
<1>5. r \in Nat /\ r >= x /\ r < x + a
  BY <1>1, <1>2
<1>6. ASSUME NEW q \in x .. (r - 1), q % a = 0 PROVE FALSE
  <2>1. q \in Nat /\ q < r
    BY <1>5
  <2>2. q + a <= r
    BY <1>1, <1>4, <1>5, <1>6, <2>1, MultiplesApart
  <2> QED
    BY <1>1, <1>5, <2>1, <2>2
<1> QED
  BY <1>1, <1>4, <1>5, <1>6 DEF a

(* next_boundary_offset returns the first place at or behind `from` that is *)
(* aligned and does not straddle the two blocks.                            *)
LEMMA OffsetIsFirstFit ==
  ASSUME NEW from \in Nat, NEW size \in Nat, NEW align \in Nat
  PROVE  /\ next_boundary_offset(from, size, align) \in Nat
         /\ FirstFit(from, size, Align(align), next_boundary_offset(from, size, align))
<1> DEFINE a == Align(align)
           start == RoundUp(from, align)
           next == RoundUp(PrimaryBytes, align)
           p == next_boundary_offset(from, size, align)
<1>1. /\ start \in Nat /\ start >= from /\ start % a = 0
      /\ \A q \in from .. (start - 1) : q % a # 0
  BY RoundUpIsLeast
<1>2. /\ next \in Nat /\ next >= PrimaryBytes /\ next % a = 0
      /\ \A q \in PrimaryBytes .. (next - 1) : q % a # 0
  BY RoundUpIsLeast, LayoutAssumption
<1>3. p = IF start < PrimaryBytes /\ start + size > PrimaryBytes THEN next ELSE start
  BY DEF next_boundary_offset
<1> HIDE DEF start, next, p, a
<1>4. CASE start < PrimaryBytes /\ start + size > PrimaryBytes
  <2>1. p = next /\ p >= from /\ Fits(p, size, a)
    BY <1>1, <1>2, <1>3, <1>4, LayoutAssumption DEF Fits
  <2>2. ASSUME NEW q \in from .. (p - 1), Fits(q, size, a) PROVE FALSE
    <3>1. q % a = 0 /\ ~(q < PrimaryBytes /\ q + size > PrimaryBytes) /\ q \in Nat
      BY <2>2 DEF Fits
    <3>2. q >= start
      BY <1>1, <2>2, <3>1
    <3>3. q < PrimaryBytes
      BY <1>2, <2>1, <2>2, <3>1, LayoutAssumption
    <3> QED
      BY <1>1, <1>4, <3>1, <3>2, <3>3, LayoutAssumption
  <2> QED
    BY <1>2, <2>1, <2>2 DEF FirstFit, p, a
<1>5. CASE ~(start < PrimaryBytes /\ start + size > PrimaryBytes)
  <2>1. p = start /\ Fits(p, size, a)
    BY <1>1, <1>3, <1>5 DEF Fits
  <2>2. \A q \in from .. (p - 1) : ~Fits(q, size, a)
    BY <1>1, <2>1 DEF Fits
  <2> QED
    BY <1>1, <2>1, <2>2 DEF FirstFit, p, a
<1> QED
  BY <1>4, <1>5

(* The record lies behind the header word, in one block or beyond it.       *)
LEMMA RecordPlace ==
  /\ hdr_offset \in Nat
  /\ hdr_offset >= HeaderBytes
  /\ ~(hdr_offset < PrimaryBytes /\ hdr_offset + RecordSize > PrimaryBytes)
<1>1. HeaderBytes \in Nat /\ RecordSize \in Nat /\ RecordAlign \in Nat
  BY LayoutAssumption
<1>2. /\ hdr_offset \in Nat
      /\ FirstFit(HeaderBytes, RecordSize, Align(RecordAlign), hdr_offset)
  BY <1>1, OffsetIsFirstFit DEF hdr_offset
<1> QED
  BY <1>2 DEF FirstFit, Fits

(* An allocation: its place is at or behind the cursor, aligned, and if it  *)
(* is in the slot it is in one of its blocks.                               *)
LEMMA AllocPlace ==
  ASSUME cursor \in Nat, NEW size \in Nat, NEW align \in Nat
  PROVE  /\ alloc_aligned(size, align).pos \in Nat
         /\ alloc_aligned(size, align).pos >= cursor
         /\ alloc_aligned(size, align).pos % Align(align) = 0
         /\ FirstFit(cursor, size, Align(align), alloc_aligned(size, align).pos)
         /\ alloc_aligned(size, align).ok =>
              /\ alloc_aligned(size, align).pos + size <= SlotBytes
              /\ \/ alloc_aligned(size, align).pos + size <= PrimaryBytes
                 \/ PrimaryBytes <= alloc_aligned(size, align).pos
<1> DEFINE p == next_boundary_offset(cursor, size, align)
<1>1. p \in Nat /\ FirstFit(cursor, size, Align(align), p)
  BY OffsetIsFirstFit
<1>2. /\ alloc_aligned(size, align).pos = p
      /\ alloc_aligned(size, align).ok <=> p + size <= SlotBytes
  BY DEF alloc_aligned
<1> HIDE DEF p
<1> QED
  BY <1>1, <1>2, LayoutAssumption DEF FirstFit, Fits

-----------------------------------------------------------------------------
(* Type correctness.                                                        *)

(* Ranges are made of natural numbers.                                      *)
LEMMA SpanType ==
  ASSUME NEW what, NEW lo \in Nat, NEW size \in Nat
  PROVE  /\ Span(what, lo, size) = [what |-> what, lo |-> lo, hi |-> lo + size]
         /\ Span(what, lo, size).lo = lo
         /\ Span(what, lo, size).hi = lo + size
         /\ lo + size \in Nat
  BY DEF Span

(* A write adds its range to what is there, or less.                        *)
LEMMA WriteAddsAtMost ==
  ASSUME NEW mem, NEW s
  PROVE  Write(mem, s) \subseteq mem \cup {s}
  BY DEF Write

(* If it overlaps nothing it destroys nothing, and is found whole.          *)
LEMMA WriteBeside ==
  ASSUME NEW mem, NEW s, \A t \in mem : Disjoint(s, t)
  PROVE  mem \subseteq Write(mem, s) /\ Whole(Write(mem, s), s)
  BY DEF Write, Whole

(* The records whose closure is called once.                                *)
CalledOnce == {"CallMutOutPtr", "CallMutArgsOutPtr", "Launch"}

(* What every operation does first: it sets up a writer, for a closure that *)
(* has a layout, and that owns something only if it is called once.         *)
SetsUp(property_ptr, repeat_count, r) ==
  /\ SetUp(property_ptr, repeat_count, r)
  /\ layout'.size \in Nat /\ layout'.align \in Nat
  /\ owns' \in BOOLEAN /\ args_len' \in Nat
  /\ owns' => property_ptr \in CalledOnce

(* Every operation does that.                                               *)
LEMMA BeginSetsUp ==
  ASSUME Begin \/ \E k \in Repeats : apply_batch_mut(k)
  PROVE  \E property_ptr \in PropertyPtrs, repeat_count \in 0 .. 255, r \in Nat :
           SetsUp(property_ptr, repeat_count, r)
<1> USE LayoutAssumption DEF Encoding, PropertyPtrs, SetsUp, CalledOnce
<1>1. ASSUME NEW r \in ResultSizes, NEW l \in EnvLayouts, apply(l, r)
      PROVE  SetsUp("CallMutOutPtr", 1, r)
  BY <1>1 DEF apply
<1>2. ASSUME NEW r \in ResultSizes, NEW l \in EnvLayouts, launch(l, r)
      PROVE  SetsUp("Launch", 1, r)
  BY <1>2 DEF launch
<1>3. ASSUME NEW r \in ResultSizes, NEW l \in EnvLayouts, NEW n \in ArgLens, apply_with(l, n, r)
      PROVE  SetsUp("CallMutArgsOutPtr", 1, r)
  BY <1>3 DEF apply_with
<1>4. ASSUME NEW r \in ResultSizes, into_inner(r) PROVE SetsUp("IntoInner", 1, r)
  BY <1>4 DEF into_inner
<1>5. ASSUME NEW k \in Repeats, apply_batch_mut(k) PROVE SetsUp("CallMutRetUnit", k, 0)
  BY <1>5 DEF apply_batch_mut
<1>6. ResultSizes \subseteq Nat /\ Repeats \subseteq 0 .. 255 /\ 1 \in 0 .. 255 /\ 0 \in Nat
  OBVIOUS
<1> HIDE LayoutAssumption DEF SetsUp, Encoding
<1>7. CASE Begin
  BY <1>1, <1>2, <1>3, <1>4, <1>6, <1>7 DEF Begin
<1>8. CASE \E k \in Repeats : apply_batch_mut(k)
  BY <1>5, <1>6, <1>8
<1> QED
  BY <1>7, <1>8

(* What a record may look like when it is begun.                            *)
LEMMA RecordTypes ==
  /\ NoRecord \in RecordHeaders
  /\ \A p \in PropertyPtrs, k \in 0 .. 255 :
       [NoRecord EXCEPT !.property_ptr = p, !.repeat_count = k] \in RecordHeaders
<1>1. NoRecord \in RecordHeaders
  <2>1. "none" \in PropertyPtrs \cup {"none"} /\ 0 \in Nat /\ 0 \in 0 .. 255
    OBVIOUS
  <2> QED
    BY <2>1 DEF NoRecord, RecordHeaders
<1>2. ASSUME NEW p \in PropertyPtrs, NEW k \in 0 .. 255
      PROVE  [NoRecord EXCEPT !.property_ptr = p, !.repeat_count = k] \in RecordHeaders
  BY <1>1 DEF RecordHeaders
<1> QED
  BY <1>1, <1>2

(* An empty channel has its types.                                          *)
LEMMA LayoutTypeInit == Init => TypeOK
<1> SUFFICES ASSUME Init PROVE TypeOK
  OBVIOUS
<1>1. FlagsWord \in [what : {"flags"}, lo : Nat, hi : Nat]
  BY LayoutAssumption DEF FlagsWord, Span
<1> QED
  <2>1. /\ base \in Bases /\ pc = "idle" /\ cursor = 0 /\ owns \in BOOLEAN /\ args_len = 0
        /\ layout.size = 0 /\ layout.align = 1 /\ res_size = 0 /\ calls = 0 /\ ends = 0
    BY DEF Init
  <2>2. hdr \in RecordHeaders
    BY RecordTypes DEF Init
  <2>3. /\ request \subseteq [what : {"flags", "env", "args", "record"}, lo : Nat, hi : Nat]
        /\ response \subseteq [what : {"flags", "result"}, lo : Nat, hi : Nat]
    BY <1>1 DEF Init
  <2> QED
    BY <2>1, <2>2, <2>3 DEF TypeOK

(* Encoding, reading and answering keep the types.                          *)
LEMMA LayoutTypeStep == TypeOK /\ [Next]_vars => TypeOK'
<1> SUFFICES ASSUME TypeOK, [Next]_vars PROVE TypeOK'
  OBVIOUS
<1> USE LayoutAssumption
<1>0. FlagsWord \in [what : {"flags"}, lo : Nat, hi : Nat]
  BY DEF FlagsWord, Span
<1>1. ASSUME NEW p \in PropertyPtrs, NEW k \in 0 .. 255, NEW r \in Nat, SetsUp(p, k, r)
      PROVE  TypeOK'
  <2>1. cursor' \in Nat
    BY <1>1, RecordPlace DEF SetsUp, SetUp
  <2>2. hdr' \in RecordHeaders
    BY <1>1, RecordTypes DEF SetsUp, SetUp
  <2>3. /\ request' \subseteq [what : {"flags", "env", "args", "record"}, lo : Nat, hi : Nat]
        /\ response' \subseteq [what : {"flags", "result"}, lo : Nat, hi : Nat]
    BY <1>0, <1>1 DEF SetsUp, SetUp
  <2>4. /\ base' \in Bases /\ pc' = "env" /\ layout'.size \in Nat /\ layout'.align \in Nat
        /\ owns' \in BOOLEAN /\ args_len' \in Nat /\ res_size' \in Nat
        /\ calls' = 0 /\ ends' = 0
    BY <1>1 DEF SetsUp, SetUp, TypeOK
  <2> QED
    BY <2>1, <2>2, <2>3, <2>4 DEF TypeOK
<1>2. CASE AllocEnv
  <2> DEFINE a == alloc_aligned(layout.size, layout.align)
             s == Span("env", a.pos, layout.size)
  <2>1. a.pos \in Nat /\ (a.ok => a.pos + layout.size <= SlotBytes)
    BY AllocPlace DEF TypeOK
  <2>2. s \in [what : {"env"}, lo : Nat, hi : Nat]
    BY <2>1 DEF Span, TypeOK
  <2>3. Write(request, s) \subseteq request \cup {s}
    BY WriteAddsAtMost
  <2>4. /\ pc = "env" /\ cursor' = a.pos + layout.size
        /\ \/ pc' = "panicked" /\ ends' = ends + 1 /\ UNCHANGED <<hdr, request>>
           \/ /\ a.ok /\ pc' = "args" /\ hdr' = [hdr EXCEPT !.data = a.pos]
              /\ request' = Write(request, s)
              /\ ends' \in {ends, ends + 1}
        /\ UNCHANGED <<base, callVars, response, calls>>
    BY <1>2 DEF AllocEnv
  <2> HIDE DEF a, s
  <2>5. hdr' \in RecordHeaders
    <3>1. hdr \in RecordHeaders /\ layout.size \in Nat /\ args_len \in Nat
      BY DEF TypeOK
    <3> QED
      BY <2>1, <2>4, <3>1 DEF RecordHeaders
  <2>6. request' \subseteq [what : {"flags", "env", "args", "record"}, lo : Nat, hi : Nat]
    BY <2>2, <2>3, <2>4 DEF TypeOK
  <2>7. cursor' \in Nat /\ (pc' # "panicked" => cursor' <= SlotBytes)
    BY <2>1, <2>4 DEF TypeOK
  <2> QED
    BY <2>4, <2>5, <2>6, <2>7 DEF TypeOK, callVars
<1>3. CASE AllocArgs
  <2> DEFINE a == alloc_aligned(args_len, 1)
             s == Span("args", a.pos, args_len)
  <2>1. a.pos \in Nat /\ (a.ok => a.pos + args_len <= SlotBytes)
    BY AllocPlace DEF TypeOK
  <2>2. s \in [what : {"args"}, lo : Nat, hi : Nat]
    BY <2>1 DEF Span, TypeOK
  <2>3. Write(request, s) \subseteq request \cup {s}
    BY WriteAddsAtMost
  <2>4. /\ pc = "args" /\ cursor' = a.pos + args_len
        /\ \/ pc' = "panicked" /\ UNCHANGED <<hdr, request>>
           \/ /\ a.ok /\ pc' = "record"
              /\ hdr' = [hdr EXCEPT !.args_offset = a.pos, !.args_len = args_len]
              /\ request' = Write(request, s)
        /\ UNCHANGED <<base, callVars, response, calls, ends>>
    BY <1>3 DEF AllocArgs
  <2> HIDE DEF a, s
  <2>5. hdr' \in RecordHeaders
    <3>1. hdr \in RecordHeaders /\ layout.size \in Nat /\ args_len \in Nat
      BY DEF TypeOK
    <3> QED
      BY <2>1, <2>4, <3>1 DEF RecordHeaders
  <2>6. request' \subseteq [what : {"flags", "env", "args", "record"}, lo : Nat, hi : Nat]
    BY <2>2, <2>3, <2>4 DEF TypeOK
  <2>7. cursor' \in Nat /\ (pc' # "panicked" => cursor' <= SlotBytes)
    BY <2>1, <2>4 DEF TypeOK
  <2> QED
    BY <2>4, <2>5, <2>6, <2>7 DEF TypeOK, callVars
<1>4. CASE WriteRecord
  <2> DEFINE s == Span("record", hdr_offset, RecordSize)
  <2>1. s \in [what : {"record"}, lo : Nat, hi : Nat]
    BY RecordPlace DEF Span
  <2>2. Write(request, s) \subseteq request \cup {s}
    BY WriteAddsAtMost
  <2> QED
    BY <1>4, <2>1, <2>2 DEF WriteRecord, TypeOK, callVars
<1>5. CASE Execute \/ MoveOut
  <2> DEFINE s == Span("result", HeaderBytes, res_size)
  <2>1. s \in [what : {"result"}, lo : Nat, hi : Nat]
    BY DEF Span, TypeOK
  <2>2. Write(response, s) \subseteq response \cup {s}
    BY WriteAddsAtMost
  <2>3. response' = Write(response, s) /\ pc = "sent" /\ pc' \in {"sent", "served"}
    BY <1>5 DEF Execute, MoveOut
  <2>4. UNCHANGED <<base, cursor, callVars, hdr, request>>
    BY <1>5 DEF Execute, MoveOut
  <2> HIDE DEF s
  <2>5. response' \subseteq [what : {"flags", "result"}, lo : Nat, hi : Nat]
    BY <2>1, <2>2, <2>3 DEF TypeOK
  <2>6. TimesToCall \in 0 .. 255
    BY DEF TimesToCall, TypeOK, RecordHeaders
  <2>7. calls' \in 0 .. 255 /\ ends' \in Nat
    BY <1>5, <2>6 DEF Execute, MoveOut, decode_and_call, TypeOK
  <2> QED
    BY <2>3, <2>4, <2>5, <2>7 DEF TypeOK, callVars
<1>6. CASE Return
  BY <1>6, RecordTypes DEF Return, TypeOK, callVars
<1>7. CASE Answer
  BY <1>7 DEF Answer, TypeOK, callVars
<1>8. CASE UNCHANGED vars
  BY <1>8 DEF vars, callVars, TypeOK
<1> QED
  BY BeginSetsUp, <1>1, <1>2, <1>3, <1>4, <1>5, <1>6, <1>7, <1>8 DEF Next

(* Every variable stays in its type, and the cursor in the slot until an    *)
(* allocation has panicked, for all sizes, alignments and lengths.          *)
THEOREM LayoutTypeCorrect == Spec => []TypeOK
  BY LayoutTypeInit, LayoutTypeStep, PTL DEF Spec

-----------------------------------------------------------------------------
(* What lies where.                                                         *)

RecordSpan == Span("record", hdr_offset, RecordSize)
EnvSpan == Span("env", hdr.data, layout.size)
ArgsSpan == Span("args", hdr.args_offset, hdr.args_len)

(* Until the record is written its place is kept free, and everything else  *)
(* that was written lies below the cursor; so that no write of a call       *)
(* overlaps an earlier one.                                                 *)
PlaceInv ==
  /\ FlagsWord \in request
  /\ pc \in {"env", "args", "record"} =>
       /\ cursor >= hdr_offset + RecordSize
       /\ \A s \in request : Disjoint(RecordSpan, s)
  /\ pc \in {"env", "args"} => \A s \in request : s.hi <= cursor
  /\ pc \in {"args", "record", "sent"} => Whole(request, EnvSpan)
  /\ pc \in {"record", "sent"} => Whole(request, ArgsSpan) /\ hdr.args_len = args_len
  /\ pc = "sent" => Whole(request, RecordSpan)
  /\ RequestInOneBlock

(* Nothing has been placed yet.                                             *)
LEMMA PlaceInit == Init => PlaceInv
<1> SUFFICES ASSUME Init PROVE PlaceInv
  OBVIOUS
<1>1. InOneBlock(FlagsWord)
  BY LayoutAssumption DEF InOneBlock, FlagsWord, Span
<1> QED
  BY <1>1 DEF Init, PlaceInv, RequestInOneBlock

(* Every write of a record, capture or argument goes where alloc_aligned    *)
(* put it, beside what was written before.                                  *)
LEMMA PlaceStep == TypeOK /\ PlaceInv /\ [Next]_vars => PlaceInv'
<1> SUFFICES ASSUME TypeOK, PlaceInv, [Next]_vars PROVE PlaceInv'
  OBVIOUS
<1> USE LayoutAssumption
<1>0. /\ InOneBlock(FlagsWord) /\ FlagsWord.lo = 0 /\ FlagsWord.hi = HeaderBytes
      /\ RecordSpan.lo = hdr_offset /\ RecordSpan.hi = hdr_offset + RecordSize
  BY DEF InOneBlock, FlagsWord, Span, RecordSpan
<1>1. ASSUME NEW p \in PropertyPtrs, NEW k \in 0 .. 255, NEW r \in Nat, SetsUp(p, k, r)
      PROVE  PlaceInv'
  <2>1. Disjoint(RecordSpan, FlagsWord) /\ HeaderBytes <= hdr_offset + RecordSize
    BY <1>0, RecordPlace DEF Disjoint
  <2>2. /\ request' = {FlagsWord} /\ pc' = "env" /\ cursor' = hdr_offset + RecordSize
    BY <1>1 DEF SetsUp, SetUp
  <2> QED
    BY <1>0, <2>1, <2>2, RecordPlace
    DEF PlaceInv, RequestInOneBlock, RecordSpan, InOneBlock, Disjoint
<1>2. CASE AllocEnv
  <2> DEFINE a == alloc_aligned(layout.size, layout.align)
             s == Span("env", a.pos, layout.size)
  <2>1. /\ a.pos \in Nat /\ a.pos >= cursor /\ layout.size \in Nat
        /\ a.ok => /\ a.pos + layout.size <= SlotBytes
                   /\ a.pos + layout.size <= PrimaryBytes \/ PrimaryBytes <= a.pos
    BY AllocPlace DEF TypeOK
  <2>2. s.lo = a.pos /\ s.hi = a.pos + layout.size
    BY DEF Span
  <2>3. CASE pc' = "panicked" /\ UNCHANGED request
    BY <2>3 DEF PlaceInv, RequestInOneBlock, InOneBlock
  <2>4. CASE a.ok /\ pc' = "args"
    <3>1. /\ cursor' = a.pos + layout.size /\ hdr'.data = a.pos
          /\ request' = Write(request, s) /\ layout' = layout /\ pc = "env"
      BY <1>2, <2>4 DEF AllocEnv, TypeOK, callVars, RecordHeaders
    <3>2. s = EnvSpan'
      BY <3>1 DEF EnvSpan, Span
    <3> HIDE DEF a, s
    <3>3. \A t \in request : t.lo \in Nat /\ t.hi \in Nat /\ t.hi <= a.pos
      BY <2>1, <3>1 DEF PlaceInv, TypeOK
    <3>4. \A t \in request : Disjoint(s, t)
      BY <2>2, <3>3 DEF Disjoint
    <3>5. /\ request' \subseteq request \cup {s} /\ request \subseteq request'
          /\ Whole(request', s)
      BY <3>1, <3>4, WriteAddsAtMost, WriteBeside
    <3>6. Disjoint(RecordSpan, s) /\ a.pos >= hdr_offset + RecordSize
      BY <1>0, <2>1, <2>2, <3>1, RecordPlace DEF PlaceInv, Disjoint, TypeOK
    <3>7. InOneBlock(s)
      BY <2>1, <2>2, <2>4 DEF InOneBlock
    <3>8. cursor' >= hdr_offset + RecordSize /\ \A t \in request' : t.hi <= cursor'
      BY <2>1, <2>2, <3>1, <3>3, <3>5, <3>6, RecordPlace
    <3>9. \A t \in request' : Disjoint(RecordSpan, t) /\ InOneBlock(t)
      BY <3>1, <3>5, <3>6, <3>7 DEF PlaceInv, RequestInOneBlock
    <3> QED
      BY <2>4, <3>2, <3>5, <3>8, <3>9
         DEF PlaceInv, RequestInOneBlock, RecordSpan, InOneBlock, Disjoint
  <2> QED
    BY <1>2, <2>3, <2>4 DEF AllocEnv
<1>3. CASE AllocArgs
  <2> DEFINE a == alloc_aligned(args_len, 1)
             s == Span("args", a.pos, args_len)
  <2>1. /\ a.pos \in Nat /\ a.pos >= cursor /\ args_len \in Nat
        /\ a.ok => /\ a.pos + args_len <= SlotBytes
                   /\ a.pos + args_len <= PrimaryBytes \/ PrimaryBytes <= a.pos
    BY AllocPlace DEF TypeOK
  <2>2. s.lo = a.pos /\ s.hi = a.pos + args_len
    BY DEF Span
  <2>3. CASE pc' = "panicked" /\ UNCHANGED request
    BY <2>3 DEF PlaceInv, RequestInOneBlock, InOneBlock
  <2>4. CASE a.ok /\ pc' = "record"
    <3>1. /\ cursor' = a.pos + args_len /\ hdr'.data = hdr.data
          /\ hdr'.args_offset = a.pos /\ hdr'.args_len = args_len /\ args_len' = args_len
          /\ request' = Write(request, s) /\ layout' = layout /\ pc = "args"
      BY <1>3, <2>4 DEF AllocArgs, TypeOK, callVars, RecordHeaders
    <3>2. s = ArgsSpan' /\ EnvSpan' = EnvSpan
      BY <3>1 DEF ArgsSpan, EnvSpan, Span
    <3> HIDE DEF a, s
    <3>3. \A t \in request : t.lo \in Nat /\ t.hi \in Nat /\ t.hi <= a.pos
      BY <2>1, <3>1 DEF PlaceInv, TypeOK
    <3>4. \A t \in request : Disjoint(s, t)
      BY <2>2, <3>3 DEF Disjoint
    <3>5. /\ request' \subseteq request \cup {s} /\ request \subseteq request'
          /\ Whole(request', s)
      BY <3>1, <3>4, WriteAddsAtMost, WriteBeside
    <3>6. Disjoint(RecordSpan, s) /\ a.pos >= hdr_offset + RecordSize
      BY <1>0, <2>1, <2>2, <3>1, RecordPlace DEF PlaceInv, Disjoint, TypeOK
    <3>7. InOneBlock(s)
      BY <2>1, <2>2, <2>4 DEF InOneBlock
    <3>8. cursor' >= hdr_offset + RecordSize
      BY <2>1, <3>1, <3>6, RecordPlace
    <3>9. \A t \in request' : Disjoint(RecordSpan, t) /\ InOneBlock(t)
      BY <3>1, <3>5, <3>6, <3>7 DEF PlaceInv, RequestInOneBlock
    <3>10. Whole(request', EnvSpan')
      BY <3>1, <3>2, <3>5 DEF PlaceInv, Whole
    <3> QED
      BY <2>4, <3>1, <3>2, <3>5, <3>8, <3>9, <3>10
         DEF PlaceInv, RequestInOneBlock, RecordSpan, InOneBlock, Disjoint
  <2> QED
    BY <1>3, <2>3, <2>4 DEF AllocArgs
<1>4. CASE WriteRecord
  <2>1. /\ pc = "record" /\ pc' = "sent" /\ request' = Write(request, RecordSpan)
        /\ UNCHANGED <<cursor, layout, args_len, hdr>>
    BY <1>4 DEF WriteRecord, RecordSpan, callVars
  <2>2. \A t \in request : Disjoint(RecordSpan, t)
    BY <2>1 DEF PlaceInv
  <2>3. /\ request' \subseteq request \cup {RecordSpan} /\ request \subseteq request'
        /\ Whole(request', RecordSpan)
    BY <2>1, <2>2, WriteAddsAtMost, WriteBeside
  <2>4. InOneBlock(RecordSpan)
    BY <1>0, <2>1, RecordPlace DEF PlaceInv, TypeOK, InOneBlock, SlotBytes
  <2>5. EnvSpan' = EnvSpan /\ ArgsSpan' = ArgsSpan
    BY <2>1 DEF EnvSpan, ArgsSpan
  <2>6. Whole(request', EnvSpan') /\ Whole(request', ArgsSpan')
    BY <2>1, <2>3, <2>5 DEF PlaceInv, Whole
  <2>7. \A t \in request' : InOneBlock(t)
    BY <2>3, <2>4 DEF PlaceInv, RequestInOneBlock
  <2> QED
    BY <2>1, <2>3, <2>6, <2>7 DEF PlaceInv, RequestInOneBlock, RecordSpan, InOneBlock
<1>5. CASE Execute \/ Answer \/ MoveOut
  <2>1. /\ pc = "sent" /\ pc' \in {"sent", "served"}
        /\ UNCHANGED <<layout, args_len, hdr, request>>
    BY <1>5 DEF Execute, Answer, MoveOut, callVars
  <2>2. EnvSpan' = EnvSpan /\ ArgsSpan' = ArgsSpan /\ RecordSpan' = RecordSpan
    BY <2>1 DEF EnvSpan, ArgsSpan, RecordSpan
  <2>3. RequestInOneBlock'
    BY <2>1 DEF PlaceInv, RequestInOneBlock, InOneBlock
  <2> QED
    BY <2>1, <2>2, <2>3 DEF PlaceInv
<1>6. CASE Return
  BY <1>6 DEF Return, PlaceInv, RequestInOneBlock, InOneBlock
<1>7. CASE UNCHANGED vars
  BY <1>7 DEF vars, callVars, PlaceInv, RequestInOneBlock, InOneBlock, EnvSpan, ArgsSpan, RecordSpan
<1> QED
  BY BeginSetsUp, <1>1, <1>2, <1>3, <1>4, <1>5, <1>6, <1>7 DEF Next

(* Types and places together.                                               *)
LEMMA PlaceInvariant == Spec => [](TypeOK /\ PlaceInv)
<1>1. Init => TypeOK /\ PlaceInv
  BY LayoutTypeInit, PlaceInit
<1>2. TypeOK /\ PlaceInv /\ [Next]_vars => (TypeOK /\ PlaceInv)'
  BY LayoutTypeStep, PlaceStep
<1> QED
  BY <1>1, <1>2, PTL DEF Spec

(* Whatever the sizes and alignments of record, capture and arguments, what *)
(* is written in a request slot lies in one of its two blocks: nothing      *)
(* straddles the boundary between them, or the end of the slot.             *)
THEOREM RequestNeverStraddles == Spec => []RequestInOneBlock
<1>1. PlaceInv => RequestInOneBlock
  BY DEF PlaceInv
<1> QED
  BY PlaceInvariant, <1>1, PTL

(* A request that was sent is whole: the record, the capture and the        *)
(* arguments overlap neither one another nor the header word that both      *)
(* sides poll, and the record says where they are.                          *)
THEOREM RequestIsWhole == Spec => []RequestArrivesWhole
<1>1. PlaceInv => RequestArrivesWhole
  BY DEF PlaceInv, RequestArrivesWhole, RecordSpan, EnvSpan, ArgsSpan, Whole
<1> QED
  BY PlaceInvariant, <1>1, PTL

-----------------------------------------------------------------------------
(* next_boundary_offset in its two uses.                                    *)

(* The first place that is aligned and does not straddle is the one that    *)
(* capture and arguments get.                                               *)
THEOREM LayoutFirstFit == Spec => AllocatesFirstFit
<1> DEFINE A ==
      /\ pc = "env" => FirstFit(cursor, layout.size,
                                IF layout.align = 0 THEN 1 ELSE layout.align,
                                cursor' - layout.size)
      /\ pc = "args" => FirstFit(cursor, args_len, 1, cursor' - args_len)
<1>1. TypeOK /\ [Next]_vars => [A]_vars
  <2> SUFFICES ASSUME TypeOK, Next PROVE A
    OBVIOUS
  <2>1. CASE pc = "env"
    <3>1. cursor' = alloc_aligned(layout.size, layout.align).pos + layout.size
      BY <2>1 DEF Next, Begin, apply, apply_with, launch, apply_batch_mut, into_inner, SetUp, AllocEnv,
             AllocArgs, WriteRecord, Execute, Answer, MoveOut, Return
    <3>2. /\ alloc_aligned(layout.size, layout.align).pos \in Nat /\ layout.size \in Nat
          /\ FirstFit(cursor, layout.size, Align(layout.align),
                      alloc_aligned(layout.size, layout.align).pos)
      BY AllocPlace DEF TypeOK
    <3>3. cursor' - layout.size = alloc_aligned(layout.size, layout.align).pos
      BY <3>1, <3>2
    <3> QED
      BY <2>1, <3>2, <3>3 DEF Align
  <2>2. CASE pc = "args"
    <3>1. cursor' = alloc_aligned(args_len, 1).pos + args_len
      BY <2>2 DEF Next, Begin, apply, apply_with, launch, apply_batch_mut, into_inner, SetUp, AllocEnv,
             AllocArgs, WriteRecord, Execute, Answer, MoveOut, Return
    <3>2. /\ alloc_aligned(args_len, 1).pos \in Nat /\ args_len \in Nat
          /\ FirstFit(cursor, args_len, Align(1), alloc_aligned(args_len, 1).pos)
      BY AllocPlace DEF TypeOK
    <3>3. cursor' - args_len = alloc_aligned(args_len, 1).pos /\ Align(1) = 1
      BY <3>1, <3>2 DEF Align
    <3> QED
      BY <2>2, <3>2, <3>3
  <2> QED
    BY <2>1, <2>2
<1> QED
  BY LayoutTypeCorrect, <1>1, PTL DEF Spec, AllocatesFirstFit

-----------------------------------------------------------------------------
(* Who owns the capture.                                                    *)

(* A capture that owns something has a record that is called once.  It      *)
(* belongs to encode_closure or to the slot until it is called, or dropped  *)
(* with the panic of the allocation.                                        *)
OwnedInv ==
  owns =>
    /\ pc \in {"env", "args", "record", "sent"} => hdr.property_ptr \in CalledOnce
    /\ pc \in {"env", "args", "record"} => calls = 0
    /\ pc = "sent" => calls \in 0 .. 1
    /\ layout.size > 0 =>
         /\ pc \in {"env", "args", "record", "sent"} => ends = calls
         /\ pc = "served" => ends = 1
         /\ ends <= 1

(* A capture has one owner: it is moved into the slot, and out of it by the *)
(* one call of its record.                                                  *)
LEMMA OwnedStep == TypeOK /\ OwnedInv /\ [Next]_vars => OwnedInv'
<1> SUFFICES ASSUME TypeOK, OwnedInv, [Next]_vars PROVE OwnedInv'
  OBVIOUS
<1> USE DEF CalledOnce, callVars
<1>1. ASSUME NEW p \in PropertyPtrs, NEW k \in 0 .. 255, NEW r \in Nat, SetsUp(p, k, r)
      PROVE  OwnedInv'
  BY <1>1 DEF SetsUp, SetUp, NoRecord, OwnedInv
<1>2. CASE AllocEnv
  <2>1. /\ layout' = layout /\ owns' = owns /\ calls' = calls
        /\ pc = "env" /\ pc' \in {"args", "panicked"}
        /\ ends' = ends + 1 \/ ends' = ends
        /\ layout.size > 0 /\ pc' = "args" => ends' = ends
        /\ hdr'.property_ptr = hdr.property_ptr
    BY <1>2 DEF AllocEnv, TypeOK, RecordHeaders
  <2> QED
    BY <2>1 DEF OwnedInv, TypeOK
<1>3. CASE AllocArgs
  <2>1. /\ UNCHANGED <<layout, owns, calls, ends>>
        /\ pc = "args" /\ pc' \in {"record", "panicked"}
        /\ hdr'.property_ptr = hdr.property_ptr
    BY <1>3 DEF AllocArgs, TypeOK, RecordHeaders
  <2> QED
    BY <2>1 DEF OwnedInv, TypeOK
<1>4. CASE Execute
  <2>1. owns => TimesToCall = 1
    BY <1>4 DEF Execute, TimesToCall, OwnedInv
  <2> QED
    BY <1>4, <2>1 DEF Execute, decode_and_call, OwnedInv, TypeOK
<1>5. CASE Answer
  <2>1. owns => TimesToCall = 1
    BY <1>5 DEF Answer, TimesToCall, OwnedInv
  <2> QED
    BY <1>5, <2>1 DEF Answer, OwnedInv, TypeOK
<1>6. CASE MoveOut
  BY <1>6 DEF MoveOut, OwnedInv
<1>7. CASE WriteRecord
  BY <1>7 DEF WriteRecord, OwnedInv
<1>8. CASE Return
  <2>1. UNCHANGED <<layout, owns, ends>> /\ pc' \in {"idle", "closed"}
    BY <1>8 DEF Return
  <2> QED
    BY <2>1 DEF OwnedInv
<1>9. CASE UNCHANGED vars
  BY <1>9 DEF vars, OwnedInv
<1> QED
  BY BeginSetsUp, <1>1, <1>2, <1>3, <1>4, <1>5, <1>6, <1>7, <1>8, <1>9 DEF Next

(* No capture that owns something and has bytes is consumed twice, and one  *)
(* whose request was served was consumed, for all layouts and all repeat    *)
(* counts: the records that the worker runs n times, or not at all, are     *)
(* those of captures that own nothing.                                      *)
THEOREM CaptureHasOneOwner == Spec => []OwningCaptureEndedOnce
<1>1. Init => OwnedInv
  BY DEF Init, OwnedInv
<1>2. OwnedInv => OwningCaptureEndedOnce
  BY DEF OwnedInv, OwningCaptureEndedOnce
<1> QED
  BY <1>1, <1>2, OwnedStep, LayoutTypeCorrect, PTL DEF Spec

=============================================================================
