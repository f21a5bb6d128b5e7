----------------------------- MODULE SharedBuffer -----------------------------
(* Typed buffers (volas-core buffer.rs): shared storage, copied when it is *)
(* written, with a remembered fact about the values. Owned storage is an   *)
(* Arc of a vector; a borrowed range is a range of foreign memory, or of a *)
(* slab several columns were copied into.                                  *)
EXTENDS Naturals, Sequences, FiniteSets, FiniteSetsExt

CONSTANTS
  Buffers,     \* names of the buffers the program holds
  Allocs,      \* allocations
  NoAlloc,     \* the storage of a name that holds no buffer
  MaxLen       \* bound: the longest buffer

ASSUME BoundsAssumption == MaxLen \in Nat /\ IsFiniteSet(Buffers)
ASSUME EnoughMemory == Cardinality(Allocs) >= Cardinality(Buffers) + 1

Values == {"number", "inf", "nan"}
SeqsUpTo(n) == UNION {[1..k -> Values] : k \in 0..n}

VARIABLES
  heap,      \* the values of every allocation
  buffer,    \* what every name holds
  answer     \* the answer to the last question

vars == <<heap, buffer, answer>>

(* Facts: "immutable" is unknown, but rememberable, of a slab's range.     *)
Facts == {"unknown", "no", "some", "immutable"}
Rank(f) == CASE f = "unknown" -> 0 [] f = "no" -> 1 [] f = "some" -> 2 [] f = "immutable" -> 3
MaxFact(f, g) == IF Rank(f) >= Rank(g) THEN f ELSE g
FactOf(found) == IF found THEN "some" ELSE "no"

Nans == {"nan"}
Missing == {"nan", "inf"}
AnyNan(s) == \E i \in DOMAIN s : s[i] \in Nans
AnyMissing(s) == \E i \in DOMAIN s : s[i] \in Missing

With(kind, owner, from, to, fact) ==
  [kind |-> kind, owner |-> owner, from |-> from, to |-> to, nan |-> fact,
   missing |-> IF fact = "immutable" THEN "immutable" ELSE "unknown"]
Gone == With("gone", NoAlloc, 1, 0, "unknown")
Borrowed(r) == r.kind \in {"foreign", "slab"}
AsSlice(h, r) == SubSeq(h[r.owner], r.from, r.to)
Live(b) == buffer[b].kind \notin {"gone", "lent"}
Shown(b) == AsSlice(heap, buffer[b])

(* Arc::strong_count, as far as it is told apart: who else holds a.        *)
Sharers(bufs, a, b) == {c \in Buffers \ {b} : bufs[c].owner = a}
Unused == CHOOSE a \in Allocs : \A b \in Buffers : buffer[b].owner # a

(* Take the new handles and memory; what nobody holds any more is freed.   *)
Becomes(bufs, h, reply) ==
  /\ buffer' = bufs
  /\ heap' = [a \in Allocs |-> IF \E b \in Buffers : bufs[b].owner = a THEN h[a] ELSE <<>>]
  /\ answer' = reply
Hold(b, r, h) == Becomes([buffer EXCEPT ![b] = r], h, "none")
InPlace(b, r) == Hold(b, r, heap)

FromVec(b, s) == Hold(b, With("owned", Unused, 1, Len(s), "unknown"), [heap EXCEPT ![Unused] = s])
FromForeign(b, s) == Hold(b, With("foreign", Unused, 1, Len(s), "unknown"), [heap EXCEPT ![Unused] = s])

(* The owned storage a write goes to: borrowed values are copied in, and   *)
(* owned ones are when anybody else holds them (Arc::make_mut).            *)
WriteShared(b) == IF Borrowed(buffer[b]) THEN Unused ELSE buffer[b].owner
WriteTarget(b) ==
  IF Borrowed(buffer[b]) \/ Sharers(buffer, buffer[b].owner, b) # {} THEN Unused ELSE buffer[b].owner
Rewritten(b, s, nan, missing) ==
  LET at == WriteTarget(b)
  IN  Hold(b, [With("owned", at, 1, Len(s), nan) EXCEPT !.missing = missing], [heap EXCEPT ![at] = s])

(* make_mut, and whatever its caller writes: the facts are forgotten.      *)
MakeMut(b, s) == Rewritten(b, s, "unknown", "unknown")

(* own, copy_in: the facts a tracked write starts from.                    *)
OwnedNan(b) == IF Borrowed(buffer[b]) THEN FactOf(AnyNan(Shown(b))) ELSE buffer[b].nan
OwnedMissing(b) == IF Borrowed(buffer[b]) THEN FactOf(AnyMissing(Shown(b))) ELSE buffer[b].missing

AppendValues(b, s) ==
  Rewritten(b, Shown(b) \o s,
            MaxFact(OwnedNan(b), IF AnyNan(s) THEN "some" ELSE "unknown"),
            MaxFact(OwnedMissing(b), IF AnyMissing(s) THEN "some" ELSE "unknown"))
AppendRepeated(b, v, n) ==
  Rewritten(b, Shown(b) \o [i \in 1..n |-> v],
            MaxFact(OwnedNan(b), IF n > 0 /\ v \in Nans THEN "some" ELSE "unknown"),
            MaxFact(OwnedMissing(b), IF n > 0 /\ v \in Missing THEN "some" ELSE "unknown"))

(* scatter: what the written positions hold afterwards decides the fact,   *)
(* and an old bad value a write covered makes a known one unknown.         *)
FactLeftAnyway(before, old, new, ps, bad) ==
  IF \E k \in DOMAIN ps : new[ps[k]] \in bad THEN "some" ELSE before
FactLeft(before, old, new, ps, bad) ==
  CASE \E k \in DOMAIN ps : new[ps[k]] \in bad -> "some"
    [] OTHER -> IF before = "some" /\ \E k \in DOMAIN ps : old[ps[k]] \in bad THEN "unknown" ELSE before
Scattered(s, ps, vs) ==
  [i \in DOMAIN s |-> LET writes == {k \in DOMAIN ps : ps[k] = i}
                      IN  IF writes = {} THEN s[i] ELSE vs[Max(writes)]]
Scatter(b, ps, vs) ==
  LET new == Scattered(Shown(b), ps, vs)
  IN  Rewritten(b, new, FactLeft(OwnedNan(b), Shown(b), new, ps, Nans),
                        FactLeft(OwnedMissing(b), Shown(b), new, ps, Missing))

Clone(b, c) == InPlace(c, buffer[b])

(* A slice of what is known to hold no bad value holds none either.        *)
Absence(fact) == IF fact = "no" THEN "no" ELSE "unknown"
SliceWithSpare(b, c, i, j) ==
  LET s == SubSeq(Shown(b), i + 1, j)
      r == With("owned", Unused, 1, Len(s), Absence(buffer[b].nan))
  IN  Hold(c, [r EXCEPT !.missing = Absence(buffer[b].missing)], [heap EXCEPT ![Unused] = s])

(* compact_range: in place when nobody else holds the owned values and the *)
(* capacity, which is not modelled, allows it.                             *)
CompactRange(b, i, j) ==
  \/ /\ buffer[b].kind = "owned"
     /\ Sharers(buffer, buffer[b].owner, b) = {}
     /\ LET s == SubSeq(Shown(b), i + 1, j)
            r == With("owned", buffer[b].owner, 1, Len(s), Absence(buffer[b].nan))
        IN  Hold(b, [r EXCEPT !.missing = Absence(buffer[b].missing)], [heap EXCEPT ![buffer[b].owner] = s])
  \/ SliceWithSpare(b, b, i, j)

(* from_shared_known_range: only absence is carried into a copied range.   *)
SlabRange(owner, from, to, nanFree, allFinite) ==
  LET r == With("slab", owner, from, to, "immutable")
  IN  [r EXCEPT !.nan = IF nanFree \/ allFinite THEN "no" ELSE @,
                !.missing = IF allFinite THEN "no" ELSE @]

(* A row selection copies a column's visible rows and the rows before them *)
(* that its cached columns read, its lead, into one slab.                  *)
CopySlabVisible(g, lead, rows, i, j, k) ==
  Becomes([buffer EXCEPT ![lead] = SlabRange(Unused, 1, j - i, FALSE, FALSE),
                         ![rows] = SlabRange(Unused, j - i + 1, k - i, FALSE, FALSE)],
          [heap EXCEPT ![Unused] = SubSeq(Shown(g), j + 1, k)], "none")
CopySlab(g, lead, rows, i, j, k) ==
  LET clean == buffer[g].nan = "no"
      finite == buffer[g].missing = "no"
  IN  Becomes([buffer EXCEPT ![lead] = SlabRange(Unused, 1, j - i, clean, finite),
                             ![rows] = SlabRange(Unused, j - i + 1, k - i, clean, finite)],
              [heap EXCEPT ![Unused] = SubSeq(Shown(g), i + 1, k)], "none")

(* into_vec: the values leave the buffer; a new owned one takes them.      *)
IntoVec(b, c) ==
  LET at == WriteTarget(b)
  IN  Becomes([buffer EXCEPT ![b] = Gone, ![c] = With("owned", at, 1, Len(Shown(b)), "unknown")],
              [heap EXCEPT ![at] = Shown(b)], "none")

Drop(b) == InPlace(b, Gone)

(* Questions. A fact is remembered of the library's own bytes only.        *)
Rememberable(b, fact) == fact = "immutable" \/ ~Borrowed(buffer[b])
HasNan(b) ==
  LET fact == buffer[b].nan
      found == AnyNan(Shown(b))
      known == IF fact \in {"no", "some"} THEN fact = "some" ELSE found
      learnt == IF fact \in {"no", "some"} \/ ~Rememberable(b, fact) THEN fact ELSE FactOf(found)
  IN  Becomes([buffer EXCEPT ![b].nan = learnt], heap, IF known THEN "yes" ELSE "no")
HasNonfinite(b) ==
  LET fact == buffer[b].missing
      found == AnyMissing(Shown(b))
      known == IF fact \in {"no", "some"} THEN fact = "some" ELSE found
      learns == fact \notin {"no", "some"} /\ Rememberable(b, fact)
      nan == CASE ~learns -> buffer[b].nan
               [] learns /\ ~found -> "no"
               [] learns /\ found /\ buffer[b].nan \in {"no", "some"} -> buffer[b].nan
               [] OTHER -> FactOf(AnyNan(Shown(b)))
  IN  Becomes([buffer EXCEPT ![b].missing = IF learns THEN FactOf(found) ELSE @, ![b].nan = nan],
              heap, IF known THEN "yes" ELSE "no")

(* keepalive: a consumer reads the range zero-copy, under the other name,  *)
(* until it lets go of it.                                                 *)
Lend(b, c) == InPlace(c, With("lent", buffer[b].owner, buffer[b].from, buffer[b].to, "unknown"))

Init ==
  /\ heap = [a \in Allocs |-> <<>>]
  /\ buffer = [b \in Buffers |-> Gone]
  /\ answer = "none"

Write(b) ==
  \/ \E s \in [DOMAIN Shown(b) -> Values] : MakeMut(b, s)
  \/ \E s \in SeqsUpTo(MaxLen - Len(Shown(b))) : AppendValues(b, s)
  \/ \E v \in Values, n \in 0..(MaxLen - Len(Shown(b))) : AppendRepeated(b, v, n)
  \/ \E n \in 1..2 : \E ps \in [1..n -> DOMAIN Shown(b)], vs \in [1..n -> Values] : Scatter(b, ps, vs)

Free(c) == buffer[c].kind # "lent"
Derive(b) ==
  \/ \E c \in {d \in Buffers \ {b} : Free(d)} : Clone(b, c) \/ IntoVec(b, c) \/ Lend(b, c)
  \/ \E i, j \in 0..Len(Shown(b)) :
       i <= j /\ (CompactRange(b, i, j) \/ \E c \in {d \in Buffers \ {b} : Free(d)} : SliceWithSpare(b, c, i, j))
  \/ \E lead, rows \in {d \in Buffers : Free(d)} : \E i, j, k \in 0..Len(Shown(b)) :
       lead # rows /\ i <= j /\ j <= k /\ CopySlab(b, lead, rows, i, j, k)
  \/ Drop(b)

Next ==
  \/ \E b \in Buffers : buffer[b].kind = "gone" /\ \E s \in SeqsUpTo(MaxLen) : FromVec(b, s) \/ FromForeign(b, s)
  \/ \E b \in Buffers : Live(b) /\ (Write(b) \/ Derive(b) \/ HasNan(b) \/ HasNonfinite(b))
  \/ \E b \in Buffers : buffer[b].kind = "lent" /\ Drop(b)

Spec == Init /\ [][Next]_vars

-----------------------------------------------------------------------------
(* Every buffer's range lies in its allocation, and what nobody holds is   *)
(* freed.                                                                  *)
TypeOK ==
  /\ \A b \in Buffers :
       /\ buffer[b].kind \in {"gone", "lent", "owned", "foreign", "slab"}
       /\ buffer[b].nan \in Facts /\ buffer[b].missing \in Facts
       /\ buffer[b].kind # "gone" => buffer[b].to <= Len(heap[buffer[b].owner])
       /\ buffer[b].kind = "owned" => buffer[b].from = 1 /\ buffer[b].to = Len(heap[buffer[b].owner])
  /\ answer \in {"none", "yes", "no"}

(* The NaN fact and the non-finite fact a buffer remembers are true of its *)
(* values as they are now (buffer.rs: "computed on the first query and     *)
(* kept until the values change"), also where a write was tracked instead  *)
(* of scanned, and nothing is remembered of foreign bytes.                 *)
FactsTrue ==
  \A b \in Buffers : Live(b) =>
    /\ buffer[b].nan \in {"no", "some"} => (buffer[b].nan = "some") = AnyNan(Shown(b))
    /\ buffer[b].missing \in {"no", "some"} => (buffer[b].missing = "some") = AnyMissing(Shown(b))
    /\ buffer[b].kind = "foreign" => buffer[b].nan = "unknown" /\ buffer[b].missing = "unknown"
    /\ buffer[b].kind = "owned" => buffer[b].nan # "immutable" /\ buffer[b].missing # "immutable"

(* Sharing is invisible: the buffers behave as if each had values of its   *)
(* own, every question is answered from them, and what was lent out        *)
(* zero-copy reads as it did until it is given back (buffer.rs keepalive). *)
NoValues == <<"none">>
Contents == [b \in Buffers |-> IF buffer[b].kind = "gone" THEN NoValues ELSE Shown(b)]
Private == INSTANCE PrivateBuffers WITH content <- Contents, loaned <- {b \in Buffers : buffer[b].kind = "lent"}, reply <- answer
PrivateSpec == Private!Spec
=============================================================================
