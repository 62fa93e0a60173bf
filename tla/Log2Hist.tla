------------------------------ MODULE Log2Hist ------------------------------
(***************************************************************************)
(* The two halves of a power-of-two histogram, written in different files  *)
(* and languages: log2 and log2l of plugin/libbpf-test/tcprtt.bpf.c choose *)
(* the slot of a round-trip time inside the kernel, print_log2_hist and    *)
(* print_stars of plugin/libbpf-test/trace_helpers.c label and draw the    *)
(* slots in user space.  Shifts are divisions and multiplications by       *)
(* powers of two; unsigned int is arithmetic modulo UIntMod.               *)
(***************************************************************************)
EXTENDS Integers, FiniteSets, FiniteSetsExt

CONSTANTS
    Times,      \* round-trip times to classify
    targ_ms,    \* -m: milliseconds
    MAX_SLOTS,
    UIntMod,    \* 2^32 in the code: the width of unsigned int
    Counts,     \* values of a slot
    Width       \* columns of a full bar (40, or 20 for wide histograms)

ASSUME HistAssumption ==
    /\ Times \subseteq Nat
    /\ \A t \in Times : t \div 65536 < 65536        \* srtt is a u32
    /\ Counts \subseteq 0 .. UIntMod - 1
    /\ MAX_SLOTS \in Nat \ {0} /\ UIntMod \in Nat \ {0} /\ Width \in Nat
    /\ targ_ms \in BOOLEAN

SlotIdx == 0 .. MAX_SLOTS - 1

(* 1 << n                                                                  *)
Pow2[n \in Nat] == IF n = 0 THEN 1 ELSE 2 * Pow2[n - 1]

-----------------------------------------------------------------------------
(* The kernel side.  srtt_us counts eighths of a microsecond.              *)
Srtt(srtt_us) == IF targ_ms THEN (srtt_us \div 8) \div 1000 ELSE srtt_us \div 8

(* Five comparisons, each halving the bits left.                           *)
Shift(v, limit, n) == IF v > limit THEN n ELSE 0

log2(v) ==
    LET r16 == Shift(v, 65535, 16)  v16 == v \div Pow2[r16]
        r8  == Shift(v16, 255, 8)   v8  == v16 \div Pow2[r8]
        r4  == Shift(v8, 15, 4)     v4  == v8 \div Pow2[r4]
        r2  == Shift(v4, 3, 2)      v2  == v4 \div Pow2[r2]
    IN  r16 + r8 + r4 + r2 + v2 \div 2

(* tcp_rcv's slot of a 32-bit time.                                        *)
Slot(v) == IF log2(v) >= MAX_SLOTS THEN MAX_SLOTS - 1 ELSE log2(v)

-----------------------------------------------------------------------------
\* Fault: the upper bound belongs to the next row.
HighInclusive(i) == Pow2[i + 1]

(* The user side: the label of slot i, and the slots that are shown.       *)
High(i) == Pow2[i + 1] - 1

Low(i)  == LET low == Pow2[i + 1] \div 2 IN IF low = High(i) THEN low - 1 ELSE low

ValMax(v) == Max({v[i] : i \in SlotIdx} \cup {0})

(* The rows 0 .. idx_max; none for an empty histogram.                     *)
Shown(v) == {i \in SlotIdx : \E j \in SlotIdx : j >= i /\ v[j] > 0}

\* Fault: the number of stars is rounded up past a full bar.
StarsRounded(val, max) ==
    IF max = 0 THEN Width + 1 ELSE (((Min({val, max}) * Width) % UIntMod) + max) \div max

(* print_stars: the product is unsigned and wraps; a zero val_max would    *)
(* divide by zero, shown here as a bar that does not fit.                  *)
Stars(val, max) ==
    IF max = 0 THEN Width + 1 ELSE ((Min({val, max}) * Width) % UIntMod) \div max

-----------------------------------------------------------------------------
(* Kernel and user space agree: the row a time is counted in is the only   *)
(* one labelled with a range that contains it, the last row taking all     *)
(* larger times.                                                           *)
LabelsMatch ==
    \A t \in Times :
        LET rows == {i \in SlotIdx : Low(i) <= t /\ t <= High(i)}
        IN  rows = {Slot(t)} \/ (rows = {} /\ Slot(t) = MAX_SLOTS - 1
                                           /\ t > High(MAX_SLOTS - 1))

(* No bar of a row shown is wider than its column or divides by zero.  A   *)
(* bar depends on its own slot and on the largest only, so two slots in    *)
(* use are every case.                                                     *)
StarsFit ==
    \A i, j \in SlotIdx, x, y \in Counts :
        LET v == [k \in SlotIdx |-> IF k = i THEN x ELSE IF k = j THEN y ELSE 0]
        IN  \A k \in Shown(v) : Stars(v[k], ValMax(v)) <= Width
=============================================================================
