----------------------------- MODULE RandSource -----------------------------
(***************************************************************************)
(* The package-global generator of src/rand/rand.pkg.go: `random` is made  *)
(* once by init() with rand.New(rand.NewSource(seed)) and every exported   *)
(* function (Intn, IntRange, String, ChoiceString, ChoiceInt) draws from   *)
(* it, on whatever goroutine calls it.  math/rand's source is documented   *)
(* as not safe for concurrent use; each draw moves its two ring indices,   *)
(* tap and feed, with plain loads and stores:                              *)
(*     tap--;  if tap < 0 { tap += len };                                  *)
(*     feed--; if feed < 0 { feed += len };                                *)
(*     x := vec[feed] + vec[tap]                                           *)
(* The model keeps the indices, not the values: each load, store and test  *)
(* is a step, so that draws of several goroutines interleave.             *)
(***************************************************************************)
EXTENDS Integers

CONSTANTS
    Goroutines,  \* goroutines calling into randpkg
    RngLen,      \* length of the source's ring (607 in math/rand)
    RngTap,      \* distance between the two indices (273 in math/rand)
    Ints,        \* the min/max arguments callers pass to IntRange
    MaxLen       \* the longest String a caller asks for

ASSUME RngLen > RngTap /\ RngTap > 0 /\ MaxLen \in Nat

Idle   == [step |-> "idle", field |-> "tap", left |-> 0]

VARIABLES
    idx,    \* idx.tap, idx.feed: the source's indices
    pc,     \* pc[g]: the step of g's current draw and the index it updates
    reg,    \* reg[g]: the value g loaded and has not stored yet
    drawn   \* drawn[g]: the <<feed, tap>> pair g's last draw indexed

vars == <<idx, pc, reg, drawn>>

\* init(): rand.NewSource seeds a fresh source (tap 0, feed len - tap).
Init ==
    /\ idx = [tap |-> 0, feed |-> RngLen - RngTap]
    /\ pc = [g \in Goroutines |-> Idle]
    /\ reg = [g \in Goroutines |-> 0]
    /\ drawn = [g \in Goroutines |-> <<>>]

\* After tap, the draw updates feed; after feed, it reads the ring.
AfterField(p) ==
    IF p.field = "tap" THEN [p EXCEPT !.step = "dec_load", !.field = "feed"]
    ELSE [p EXCEPT !.step = "index", !.field = "tap"]

\* A call that makes k draws (k > 0) starts its first one.
Draw(g, k) ==
    /\ pc[g].step = "idle"
    /\ k > 0
    /\ pc' = [pc EXCEPT ![g] = [step |-> "dec_load", field |-> "tap", left |-> k]]
    /\ UNCHANGED <<idx, reg, drawn>>

Goto(g, s) == pc' = [pc EXCEPT ![g].step = s]

\* Intn: one draw.
Intn(g) == Draw(g, 1)

\* IntRange: min > max returns 0 and min = max returns min, without a
\* draw; otherwise one draw of random.Intn(max - min).
IntRange(g, min, max) ==
    /\ min < max
    /\ Draw(g, 1)

\* String(n, charset) (and Alphanumeric, AlphabetLower, Alphabet,
\* NumeralStr, HexStr): one draw per character.
String(g, n) == Draw(g, n)

\* ChoiceString, ChoiceInt: one draw over a non-empty slice.
Choice(g) == Draw(g, 1)

\* The decrement: a load, then a store.
DecLoad(g) ==
    /\ pc[g].step = "dec_load"
    /\ reg' = [reg EXCEPT ![g] = idx[pc[g].field]]
    /\ Goto(g, "dec_store")
    /\ UNCHANGED <<idx, drawn>>

DecStore(g) ==
    /\ pc[g].step = "dec_store"
    /\ idx' = [idx EXCEPT ![pc[g].field] = reg[g] - 1]
    /\ Goto(g, "test")
    /\ UNCHANGED <<reg, drawn>>

\* if idx < 0: wrap it.
Test(g) ==
    /\ pc[g].step = "test"
    /\ pc' = [pc EXCEPT ![g] = IF idx[pc[g].field] < 0
                                THEN [@ EXCEPT !.step = "add_load"]
                                ELSE AfterField(pc[g])]
    /\ UNCHANGED <<idx, reg, drawn>>

\* idx += len: a load, then a store.
AddLoad(g) ==
    /\ pc[g].step = "add_load"
    /\ reg' = [reg EXCEPT ![g] = idx[pc[g].field]]
    /\ Goto(g, "add_store")
    /\ UNCHANGED <<idx, drawn>>

AddStore(g) ==
    /\ pc[g].step = "add_store"
    /\ idx' = [idx EXCEPT ![pc[g].field] = reg[g] + RngLen]
    /\ pc' = [pc EXCEPT ![g] = AfterField(pc[g])]
    /\ UNCHANGED <<reg, drawn>>

\* x := vec[feed] + vec[tap]; the draw returns, and the call makes its
\* next draw or returns.
Index(g) ==
    /\ pc[g].step = "index"
    /\ drawn' = [drawn EXCEPT ![g] = <<idx.feed, idx.tap>>]
    /\ pc' = [pc EXCEPT ![g] = IF @.left > 1
                                THEN [step |-> "dec_load", field |-> "tap", left |-> @.left - 1]
                                ELSE Idle]
    /\ UNCHANGED <<idx, reg>>

Next ==
    \E g \in Goroutines :
        \/ Intn(g)
        \/ \E min, max \in Ints : IntRange(g, min, max)
        \/ \E n \in 0..MaxLen : String(g, n)
        \/ Choice(g)
        \/ DecLoad(g) \/ DecStore(g) \/ Test(g)
        \/ AddLoad(g) \/ AddStore(g) \/ Index(g)

Spec == Init /\ [][Next]_vars

-----------------------------------------------------------------------------
(* Properties.                                                             *)

\* A draw indexes the ring only at positions inside it: vec[feed] and
\* vec[tap] never panic with an index out of range.
IndexInRange ==
    \A g \in Goroutines :
        pc[g].step = "index" => {idx.tap, idx.feed} \subseteq 0..(RngLen - 1)

=============================================================================
