------------------------------ MODULE SlotLayout -----------------------------
(***************************************************************************)
(* Where things lie inside a slot, and who owns what lies there: the       *)
(* layout of src/runtime/slots.rs, SlotWriter and encode_closure of        *)
(* src/runtime/serialization.rs, and the two sides that use them, a call   *)
(* of src/trust/remote.rs and the dispatch of src/runtime/runtime.rs.      *)
(*                                                                         *)
(* The request slot is the header word, one RequestRecordHeader, the       *)
(* closure's capture (env) and the serialized arguments; the last three    *)
(* are placed by next_boundary_offset.  The slot is two blocks, primary    *)
(* then trailing.  Memory is abstracted to the byte ranges written in the  *)
(* current call: writing a range destroys the ranges it overlaps, and a    *)
(* read is good if it finds its range whole.  Delegation has the order of  *)
(* the accesses of the two sides, and what a panic of the closure does;    *)
(* here the two sides simply alternate, and closures return.               *)
(***************************************************************************)
EXTENDS Integers

CONSTANTS
  PrimaryBytes,   (* 128                                                   *)
  TrailingBytes,  (* 1024                                                  *)
  HeaderBytes,    (* 4, the flags word                                     *)
  RecordSize,     (* size_of::<RequestRecordHeader>(), 40                  *)
  RecordAlign,    (* and its alignment, 8                                  *)
  EnvLayouts,     (* [size, align] of the closures used: what Layout::new  *)
                  (* gives for F                                           *)
  ArgLens,        (* lengths of serialized arguments; {0} without any      *)
  ResultSizes,    (* size_of::<R>() of the results, or size_of::<T>()      *)
  FnPointer,      (* [size, align] of the function pointer that            *)
                  (* apply_batch_mut captures: Copy, it owns nothing       *)
  Repeats,        (* the n of apply_batch_mut, a u8                        *)
  Bases           (* addresses the request slot may have                   *)

ASSUME LayoutAssumption ==
  /\ PrimaryBytes \in Nat
  /\ TrailingBytes \in Nat
  /\ HeaderBytes \in 0 .. PrimaryBytes
  /\ RecordSize \in Nat
  /\ RecordAlign \in Nat
  /\ \A l \in EnvLayouts : l.size \in Nat /\ l.align \in Nat
  /\ ArgLens \subseteq Nat
  /\ ResultSizes \subseteq Nat
  /\ FnPointer.size \in Nat /\ FnPointer.align \in Nat
  /\ Repeats \subseteq 0 .. 255
  /\ Bases \subseteq Nat

SlotBytes == PrimaryBytes + TrailingBytes

VARIABLES
  base,      (* address of the request slot, for the life of the channel   *)
  pc,        (* where the call in progress is                              *)
  cursor,    (* SlotWriter::cursor                                         *)
  layout,    (* the Layout of the closure being sent                       *)
  owns,      (* whether its capture may own something: F is any FnOnce     *)
  args_len,  (* the length of its serialized arguments                     *)
  res_size,  (* the size of its result                                     *)
  hdr,       (* the fields of the RequestRecordHeader it is described by   *)
  request,   (* ranges of the request slot written in this call            *)
  response,  (* and of the response slot                                   *)
  calls,     (* how often the worker has called the closure                *)
  ends       (* history: how often the capture was consumed or dropped     *)

callVars == <<layout, owns, args_len, res_size>>
vars == <<base, pc, cursor, callVars, hdr, request, response, calls, ends>>

-----------------------------------------------------------------------------
(* The layout computation.                                                 *)

(* (x + mask) & !mask rounds up to a multiple of align, a power of two;    *)
(* 0 counts as 1.                                                          *)
RoundUp(x, align) ==
  LET mask == (IF align = 0 THEN 1 ELSE align) - 1
  IN (x + mask) - ((x + mask) % (mask + 1))

(* Mutant: >= where the code has >, so that an exact fit is moved too.     *)
next_boundary_offset_eager(from, size, align) ==
  LET start == RoundUp(from, align)
  IN IF start < PrimaryBytes /\ start + size >= PrimaryBytes
       THEN RoundUp(PrimaryBytes, align) ELSE start

(* Mutant: only the start is looked at.                                    *)
next_boundary_offset_short(from, size, align) == RoundUp(from, align)

next_boundary_offset(from, size, align) ==
  LET start == RoundUp(from, align)
  IN IF start < PrimaryBytes /\ start + size > PrimaryBytes
       THEN RoundUp(PrimaryBytes, align) ELSE start

(* Both sides compute the place of the one record of a request.            *)
hdr_offset == next_boundary_offset(HeaderBytes, RecordSize, RecordAlign)

-----------------------------------------------------------------------------
(* Byte ranges.                                                            *)

Span(what, lo, size) == [what |-> what, lo |-> lo, hi |-> lo + size]

Disjoint(s, t) == s.hi <= t.lo \/ t.hi <= s.lo

(* Writing s: an empty range writes nothing.                               *)
Write(mem, s) ==
  IF s.lo = s.hi THEN mem ELSE {t \in mem : Disjoint(s, t)} \cup {s}

Whole(mem, s) == s.lo = s.hi \/ s \in mem

FlagsWord == Span("flags", 0, HeaderBytes)

PropertyPtrs ==
  {"CallMutRetUnit", "CallMutOutPtr", "CallMutArgsOutPtr", "IntoInner", "Launch"}

RecordHeaders ==
  [property_ptr : PropertyPtrs \cup {"none"}, data : Nat, args_offset : Nat,
   args_len : Nat, repeat_count : 0 .. 255]

NoRecord ==
  [property_ptr |-> "none", data |-> 0, args_offset |-> 0, args_len |-> 0, repeat_count |-> 0]

-----------------------------------------------------------------------------
Init ==
  /\ base \in Bases
  /\ pc = "idle"
  /\ cursor = 0
  /\ layout = [size |-> 0, align |-> 1]
  /\ owns = FALSE
  /\ args_len = 0
  /\ res_size = 0
  /\ hdr = NoRecord
  /\ request = {FlagsWord}
  /\ response = {FlagsWord}
  /\ calls = 0
  /\ ends = 0

(* Mutant: the payload starts where the record does.                       *)
SetUpAtRecord(property_ptr, repeat_count, r) ==
  /\ pc = "idle"
  /\ pc' = "env"
  /\ cursor' = hdr_offset
  /\ res_size' = r
  /\ hdr' = [NoRecord EXCEPT !.property_ptr = property_ptr, !.repeat_count = repeat_count]
  /\ request' = {FlagsWord}
  /\ response' = {FlagsWord}
  /\ calls' = 0
  /\ ends' = 0
  /\ UNCHANGED base

(* An operation of a handle sets up its SlotWriter behind the record, and  *)
(* decides what its record will ask for.                                   *)
SetUp(property_ptr, repeat_count, r) ==
  /\ pc = "idle"
  /\ pc' = "env"
  /\ cursor' = hdr_offset + RecordSize
  /\ res_size' = r
  /\ hdr' = [NoRecord EXCEPT !.property_ptr = property_ptr, !.repeat_count = repeat_count]
  /\ request' = {FlagsWord}
  /\ response' = {FlagsWord}
  /\ calls' = 0
  /\ ends' = 0
  /\ UNCHANGED base

(* The closure and the arguments given to encode_closure.                  *)
Encoding(l, o, n) == layout' = l /\ owns' = o /\ args_len' = n

(* Also `with`, which differs in the & of its closure only.                *)
apply(l, r) == SetUp("CallMutOutPtr", 1, r) /\ Encoding(l, TRUE, 0)

apply_with(l, n, r) == SetUp("CallMutArgsOutPtr", 1, r) /\ Encoding(l, TRUE, n)

launch(l, r) == SetUp("Launch", 1, r) /\ Encoding(l, TRUE, 0)

(* Mutant: a batch of any closure, as apply takes it.                      *)
apply_batch_any(k) ==
  /\ SetUp("CallMutRetUnit", k, 0)
  /\ \E l \in EnvLayouts : Encoding(l, TRUE, 0)

(* One record, and repeat_count set to n in it.                            *)
apply_batch_mut(k) == SetUp("CallMutRetUnit", k, 0) /\ Encoding(FnPointer, FALSE, 0)

(* The closure of into_inner captures nothing; r is the size of T.         *)
into_inner(r) ==
  SetUp("IntoInner", 1, r) /\ Encoding([size |-> 0, align |-> 1], FALSE, 0)

(* Mutant: no assert.                                                      *)
alloc_aligned_unchecked(size, align) ==
  [pos |-> next_boundary_offset(cursor, size, align), ok |-> TRUE]

(* SlotWriter::alloc_aligned: the place reserved, and whether it is in the *)
(* slot; if not, "slot overflow" panics after the cursor has moved.        *)
alloc_aligned(size, align) ==
  LET pos == next_boundary_offset(cursor, size, align)
  IN [pos |-> pos, ok |-> pos + size <= SlotBytes]

(* encode_closure up to the arguments: the capture's place, ptr::write of  *)
(* F.  A panic unwinds through encode_closure, which still owns f and      *)
(* drops it.  A zero-sized f is not written: it is dropped when            *)
(* encode_closure ends.                                                    *)
AllocEnv ==
  LET a == alloc_aligned(layout.size, layout.align)
  IN /\ pc = "env"
     /\ cursor' = a.pos + layout.size
     /\ \/ /\ ~a.ok
           /\ pc' = "panicked"
           /\ ends' = ends + 1
           /\ UNCHANGED <<hdr, request>>
        \/ /\ a.ok
           /\ pc' = "args"
           /\ hdr' = [hdr EXCEPT !.data = a.pos]
           /\ request' = Write(request, Span("env", a.pos, layout.size))
           /\ ends' = IF layout.size = 0 THEN ends + 1 ELSE ends
     /\ UNCHANGED <<base, callVars, response, calls>>

(* The arguments are placed behind it and copied; a panic here finds the   *)
(* capture already moved into the slot.                                    *)
AllocArgs ==
  LET a == alloc_aligned(args_len, 1)
  IN /\ pc = "args"
     /\ cursor' = a.pos + args_len
     /\ \/ /\ ~a.ok
           /\ pc' = "panicked"
           /\ UNCHANGED <<hdr, request>>
        \/ /\ a.ok
           /\ pc' = "record"
           /\ hdr' = [hdr EXCEPT !.args_offset = a.pos, !.args_len = args_len]
           /\ request' = Write(request, Span("args", a.pos, args_len))
     /\ UNCHANGED <<base, callVars, response, calls, ends>>

(* The record is written in front of the payload, and the request sent.    *)
WriteRecord ==
  /\ pc = "record"
  /\ pc' = "sent"
  /\ request' = Write(request, Span("record", hdr_offset, RecordSize))
  /\ UNCHANGED <<base, cursor, callVars, hdr, response, calls, ends>>

(* How often the worker calls the closure of the record it has read.       *)
TimesToCall ==
  CASE hdr.property_ptr = "CallMutRetUnit" -> hdr.repeat_count
    [] hdr.property_ptr = "IntoInner" -> 0
    [] OTHER -> 1

(* call_once_shim: ptr::read moves the capture out of the slot, and the    *)
(* closure consumes it.                                                    *)
decode_and_call == ends' = ends + 1

(* One call by the worker, or by the fiber of a launch; the closure writes *)
(* its result behind the response word, wherever that ends.                *)
Execute ==
  /\ pc = "sent"
  /\ calls < TimesToCall
  /\ calls' = calls + 1
  /\ response' = Write(response, Span("result", HeaderBytes, res_size))
  /\ decode_and_call
  /\ UNCHANGED <<base, pc, cursor, callVars, hdr, request>>

(* The record is done with, and the request answered.                      *)
Answer ==
  /\ pc = "sent"
  /\ hdr.property_ptr # "IntoInner"
  /\ calls = TimesToCall
  /\ pc' = "served"
  /\ UNCHANGED <<base, cursor, callVars, hdr, request, response, calls, ends>>

(* T is moved behind the response word; the closure is not looked at.      *)
MoveOut ==
  /\ pc = "sent"
  /\ hdr.property_ptr = "IntoInner"
  /\ pc' = "served"
  /\ response' = Write(response, Span("result", HeaderBytes, res_size))
  /\ UNCHANGED <<base, cursor, callVars, hdr, request, calls, ends>>

(* The caller reads its result back, or has caught the panic of a call     *)
(* that sent nothing.  into_inner has used up its handle; any other leaves *)
(* it free for the next call.                                              *)
Return ==
  /\ pc \in {"served", "panicked"}
  /\ pc' = IF hdr.property_ptr = "IntoInner" THEN "closed" ELSE "idle"
  /\ hdr' = NoRecord
  /\ UNCHANGED <<base, cursor, callVars, request, response, calls, ends>>

Begin ==
  \E r \in ResultSizes :
    \/ \E l \in EnvLayouts : apply(l, r) \/ launch(l, r)
    \/ \E l \in EnvLayouts, n \in ArgLens : apply_with(l, n, r)
    \/ into_inner(r)

Next ==
  \/ Begin
  \/ \E k \in Repeats : apply_batch_mut(k)
  \/ AllocEnv \/ AllocArgs \/ WriteRecord
  \/ Execute \/ Answer \/ MoveOut
  \/ Return

Spec == Init /\ [][Next]_vars

-----------------------------------------------------------------------------
(* Properties.                                                             *)

(* Every variable stays in its type, and the cursor inside the slot until  *)
(* a "slot overflow".                                                      *)
TypeOK ==
  /\ base \in Bases
  /\ pc \in {"idle", "env", "args", "record", "sent", "served", "panicked",
            "closed"}
  /\ cursor \in Nat
  /\ pc \in {"args", "record", "sent", "served"} => cursor <= SlotBytes
  /\ layout.size \in Nat /\ layout.align \in Nat
  /\ owns \in BOOLEAN
  /\ args_len \in Nat
  /\ res_size \in Nat
  /\ hdr \in RecordHeaders
  /\ request \subseteq [what : {"flags", "env", "args", "record"}, lo : Nat, hi : Nat]
  /\ response \subseteq [what : {"flags", "result"}, lo : Nat, hi : Nat]
  /\ calls \in 0 .. 255
  /\ ends \in Nat

(* The worker finds a request as its caller wrote it: where it looks for   *)
(* them the record, the capture and the arguments are all whole, and no    *)
(* write of a record or a payload has touched the header word that both    *)
(* sides poll.                                                             *)
RequestArrivesWhole ==
  /\ Whole(request, FlagsWord)
  /\ pc = "sent" =>
       /\ Whole(request, Span("record", hdr_offset, RecordSize))
       /\ Whole(request, Span("env", hdr.data, layout.size))
       /\ Whole(request, Span("args", hdr.args_offset, hdr.args_len))
       /\ hdr.args_len = args_len

InOneBlock(s) ==
  \/ 0 <= s.lo /\ s.hi <= PrimaryBytes
  \/ PrimaryBytes <= s.lo /\ s.hi <= SlotBytes

(* "no single allocation straddles the boundary" (slots.rs), nor the end   *)
(* of the slot: what is in the request slot lies in one of its two blocks. *)
RequestInOneBlock == \A s \in request : InOneBlock(s)

(* The same of the response slot: "each record is fully in primary or      *)
(* fully in trailing" (slots.rs).                                          *)
ResponseInOneBlock == \A s \in response : InOneBlock(s)

(* The result stays inside the response slot, and next to its header word. *)
ResponseInSlot ==
  /\ FlagsWord \in response
  /\ \A s \in response : s.hi <= SlotBytes

(* ptr::write and ptr::read of the capture are given an address that is    *)
(* aligned for F.                                                          *)
EnvAligned ==
  pc \in {"args", "record", "sent"} /\ layout.size > 0 /\ layout.align > 0
    => (base + hdr.data) % layout.align = 0

(* A capture that owns something and has bytes is never consumed twice,    *)
(* and is consumed once its request has been served: what ptr::write gave  *)
(* to the slot is taken back by exactly one ptr::read, although the worker *)
(* reads the capture of a batch as often as its record says, or never.     *)
OwningCaptureEndedOnce ==
  owns /\ layout.size > 0 => ends <= 1 /\ (pc = "served" => ends = 1)

(* Every capture that owns something is consumed once: run, or dropped if  *)
(* it was never sent.                                                      *)
CaptureConsumedOnce == owns /\ pc \in {"served", "idle"} => ends = 1

(* Fits(p): a place for size bytes that next_boundary_offset may return.   *)
Fits(p, size, align) ==
  p % align = 0 /\ ~(p < PrimaryBytes /\ p + size > PrimaryBytes)

FirstFit(from, size, align, p) ==
  /\ p >= from
  /\ Fits(p, size, align)
  /\ \A q \in from .. (p - 1) : ~Fits(q, size, align)

(* next_boundary_offset returns the first place that is aligned and does   *)
(* not straddle: no space is lost to a skip that was not needed.           *)
AllocatesFirstFit ==
  [][/\ pc = "env" => FirstFit(cursor, layout.size,
                               IF layout.align = 0 THEN 1 ELSE layout.align,
                               cursor' - layout.size)
     /\ pc = "args" => FirstFit(cursor, args_len, 1, cursor' - args_len)]_vars

=============================================================================
