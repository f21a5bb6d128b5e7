-------------------------- MODULE SharedBufferProofs --------------------------
(* What sharing, slabs, loans and tracked facts keep of the buffers, for   *)
(* every number of buffers and allocations and every length. The           *)
(* strengthening is that every handle ranges over an allocation that is    *)
(* there, and remembers only what is true of that range: a write that      *)
(* copies first (Arc::make_mut) goes to an allocation no other name holds, *)
(* so it can make nothing another name remembers false. Each step is then  *)
(* shown to be one of PrivateBuffers, where nothing is shared.             *)
EXTENDS SharedBuffer, FiniteSetTheorems, SequenceTheorems, TLAPS

Kinds   == {"gone", "lent", "owned", "foreign", "slab"}
Answers == {"none", "yes", "no"}
Handles == [kind : Kinds, owner : Allocs \cup {NoAlloc}, from : Nat, to : Nat,
            nan : Facts, missing : Facts]

Told(fact, bad, s) ==
  fact \in {"no", "some"} => (fact = "some") = (\E i \in DOMAIN s : s[i] \in bad)

(* A handle's range lies in its allocation.                                *)
InRange(h, r) ==
  r.kind # "gone" =>
    /\ r.owner \in Allocs
    /\ 1 <= r.from /\ r.from <= r.to + 1 /\ r.to <= Len(h[r.owner])
    /\ r.kind = "owned" => r.from = 1 /\ r.to = Len(h[r.owner])

(* What it remembers is true of the values s.                              *)
Remembers(r, s) ==
  /\ Told(r.nan, Nans, s) /\ Told(r.missing, Missing, s)
  /\ r.kind = "foreign" => r.nan = "unknown" /\ r.missing = "unknown"
  /\ r.kind = "owned" => r.nan # "immutable" /\ r.missing # "immutable"

HandleOK(h, r) ==
  /\ InRange(h, r)
  /\ r.kind \notin {"gone", "lent"} => Remembers(r, AsSlice(h, r))

BInv ==
  /\ heap \in [Allocs -> Seq(Values)]
  /\ buffer \in [Buffers -> Handles]
  /\ \A b \in Buffers : HandleOK(heap, buffer[b])
  /\ answer \in Answers

Loaned == {b \in Buffers : buffer[b].kind = "lent"}

-----------------------------------------------------------------------------
(* There is always an allocation that no name holds.                       *)
LEMMA UnusedIsFree == Unused \in Allocs /\ \A b \in Buffers : buffer[b].owner # Unused
<1> DEFINE f == [b \in Buffers |-> buffer[b].owner]
           T == {buffer[b].owner : b \in Buffers}
<1>1. f \in Surjection(Buffers, T)
  BY DEF Surjection
<1>2. IsFiniteSet(T) /\ Cardinality(T) <= Cardinality(Buffers)
  BY <1>1, BoundsAssumption, FS_Surjection
<1>3. ASSUME Allocs \subseteq T
      PROVE  FALSE
  <2>1. Cardinality(Allocs) <= Cardinality(T) /\ IsFiniteSet(Allocs)
    BY <1>2, <1>3, FS_Subset
  <2>2. Cardinality(Allocs) \in Nat /\ Cardinality(T) \in Nat /\ Cardinality(Buffers) \in Nat
    BY <1>2, <2>1, BoundsAssumption, FS_CardinalityType
  <2> QED
    BY <1>2, <2>1, <2>2, EnoughMemory
<1>4. \E a \in Allocs : \A b \in Buffers : buffer[b].owner # a
  BY <1>3
<1> QED
  BY <1>4 DEF Unused

(* A range of a sequence.                                                  *)
LEMMA Part ==
  ASSUME NEW S, NEW s \in Seq(S), NEW m \in Nat, NEW n \in Nat,
         1 <= m, m <= n + 1, n <= Len(s)
  PROVE  /\ SubSeq(s, m, n) \in Seq(S)
         /\ Len(SubSeq(s, m, n)) = (n - m) + 1
         /\ \A i \in 1 .. (n - m) + 1 : SubSeq(s, m, n)[i] = s[(m + i) - 1]
<1>1. SubSeq(s, m, n) = [i \in 1 .. (n - m) + 1 |-> s[(m + i) - 1]]
  OBVIOUS
<1>2. \A i \in 1 .. (n - m) + 1 : s[(m + i) - 1] \in S
  OBVIOUS
<1>3. (n - m) + 1 \in Nat
  OBVIOUS
<1> QED
  BY <1>1, <1>2, <1>3

LEMMA Whole ==
  ASSUME NEW S, NEW s \in Seq(S)
  PROVE  SubSeq(s, 1, Len(s)) = s
OBVIOUS

(* The values a buffer shows.                                              *)
LEMMA ShownType ==
  ASSUME NEW h \in [Allocs -> Seq(Values)], NEW r \in Handles, InRange(h, r), r.kind # "gone"
  PROVE  /\ AsSlice(h, r) \in Seq(Values)
         /\ Len(AsSlice(h, r)) = (r.to - r.from) + 1
BY Part DEF AsSlice, InRange, Handles

(* Handles in order over a heap make a state in order; what nobody holds   *)
(* and is freed shows nowhere.                                             *)
LEMMA BecomesInv ==
  ASSUME NEW bufs \in [Buffers -> Handles], NEW h \in [Allocs -> Seq(Values)],
         NEW reply \in Answers, \A b \in Buffers : HandleOK(h, bufs[b]),
         Becomes(bufs, h, reply)
  PROVE  /\ BInv'
         /\ Contents' = [b \in Buffers |-> IF bufs[b].kind = "gone" THEN NoValues
                                           ELSE AsSlice(h, bufs[b])]
         /\ Loaned' = {b \in Buffers : bufs[b].kind = "lent"}
         /\ answer' = reply
<1>1. buffer' = bufs /\ answer' = reply
  BY DEF Becomes
<1>2. heap' \in [Allocs -> Seq(Values)]
  <2>1. <<>> \in Seq(Values)
    OBVIOUS
  <2> QED
    BY <2>1 DEF Becomes
<1>3. ASSUME NEW b \in Buffers, bufs[b].kind # "gone"
      PROVE  heap'[bufs[b].owner] = h[bufs[b].owner]
  BY <1>3 DEF Becomes, HandleOK, InRange
<1>4. ASSUME NEW b \in Buffers
      PROVE  HandleOK(heap', bufs[b])
  <2>1. CASE bufs[b].kind = "gone"
    BY <2>1 DEF HandleOK, InRange
  <2>2. CASE bufs[b].kind # "gone"
    BY <1>3, <2>2 DEF HandleOK, InRange, AsSlice
  <2> QED
    BY <2>1, <2>2
<1>5. BInv'
  BY <1>1, <1>2, <1>4 DEF BInv
<1>6. Contents' = [b \in Buffers |-> IF bufs[b].kind = "gone" THEN NoValues
                                     ELSE AsSlice(h, bufs[b])]
  BY <1>1, <1>3 DEF Contents, Shown, AsSlice
<1> QED
  BY <1>1, <1>5, <1>6 DEF Loaned

(* New values in an allocation that no other name holds.                   *)
LEMMA SoleWrite ==
  ASSUME BInv, NEW c \in Buffers, NEW at \in Allocs,
         \A d \in Buffers \ {c} : buffer[d].owner # at,
         NEW s \in Seq(Values), NEW r \in Handles,
         r.kind \in {"owned", "foreign"}, r.owner = at, r.from = 1, r.to = Len(s),
         Remembers(r, s), Hold(c, r, [heap EXCEPT ![at] = s])
  PROVE  /\ BInv' /\ Contents' = [Contents EXCEPT ![c] = s]
         /\ Loaned' = Loaned \ {c} /\ answer' = "none"
<1> DEFINE bufs == [buffer EXCEPT ![c] = r]
           h == [heap EXCEPT ![at] = s]
<1>1. bufs \in [Buffers -> Handles] /\ h \in [Allocs -> Seq(Values)]
  BY DEF BInv
<1>2. AsSlice(h, r) = s
  BY Whole DEF AsSlice, BInv
<1>3. HandleOK(h, r)
  BY <1>2 DEF HandleOK, InRange, BInv
<1>4. ASSUME NEW d \in Buffers \ {c}
      PROVE  /\ HandleOK(h, buffer[d])
             /\ buffer[d].kind # "gone" => AsSlice(h, buffer[d]) = Shown(d)
  BY DEF BInv, HandleOK, InRange, AsSlice, Shown
<1>5. \A b \in Buffers : HandleOK(h, bufs[b])
  BY <1>3, <1>4 DEF BInv
<1>6. Becomes(bufs, h, "none")
  BY DEF Hold
<1>7. /\ BInv' /\ answer' = "none"
      /\ Contents' = [b \in Buffers |-> IF bufs[b].kind = "gone" THEN NoValues
                                        ELSE AsSlice(h, bufs[b])]
      /\ Loaned' = {b \in Buffers : bufs[b].kind = "lent"}
  <2> HIDE DEF bufs, h
  <2> QED
    BY <1>1, <1>5, <1>6, BecomesInv DEF Answers
<1>8. bufs[c] = r /\ \A d \in Buffers \ {c} : bufs[d] = buffer[d]
  BY DEF BInv
<1> HIDE DEF bufs, h
<1>9. Contents' = [Contents EXCEPT ![c] = s]
  <2>1. Contents = [b \in Buffers |-> IF buffer[b].kind = "gone" THEN NoValues ELSE Shown(b)]
    BY DEF Contents
  <2>2. ASSUME NEW b \in Buffers
        PROVE  (IF bufs[b].kind = "gone" THEN NoValues ELSE AsSlice(h, bufs[b]))
                 = IF b = c THEN s ELSE Contents[b]
    BY <1>2, <1>4, <1>8, <2>1
  <2> QED
    BY <1>7, <2>1, <2>2
<1>10. Loaned' = Loaned \ {c}
  BY <1>7, <1>8 DEF Loaned
<1> QED
  BY <1>7, <1>9, <1>10

LEMMA TargetIsFree ==
  ASSUME BInv, NEW b \in Buffers, Live(b)
  PROVE  /\ WriteTarget(b) \in Allocs
         /\ \A d \in Buffers \ {b} : buffer[d].owner # WriteTarget(b)
<1>1. buffer[b].owner \in Allocs
  BY DEF BInv, HandleOK, InRange, Live
<1>2. CASE Borrowed(buffer[b]) \/ Sharers(buffer, buffer[b].owner, b) # {}
  BY <1>2, UnusedIsFree DEF WriteTarget
<1>3. CASE ~(Borrowed(buffer[b]) \/ Sharers(buffer, buffer[b].owner, b) # {})
  BY <1>1, <1>3 DEF WriteTarget, Sharers
<1> QED
  BY <1>2, <1>3

(* A write through copy-on-write.                                          *)
LEMMA RewrittenInv ==
  ASSUME BInv, NEW b \in Buffers, Live(b), NEW s \in Seq(Values),
         NEW nan \in {"unknown", "no", "some"}, NEW missing \in {"unknown", "no", "some"},
         Told(nan, Nans, s), Told(missing, Missing, s), Rewritten(b, s, nan, missing)
  PROVE  /\ BInv' /\ Contents' = [Contents EXCEPT ![b] = s]
         /\ Loaned' = Loaned /\ answer' = "none"
<1> DEFINE at == WriteTarget(b)
           r == [With("owned", at, 1, Len(s), nan) EXCEPT !.missing = missing]
<1>1. at \in Allocs /\ \A d \in Buffers \ {b} : buffer[d].owner # at
  BY TargetIsFree
<1>2. /\ r \in Handles /\ r.kind = "owned" /\ r.owner = at /\ r.from = 1 /\ r.to = Len(s)
      /\ r.nan = nan /\ r.missing = missing
  BY <1>1 DEF With, Handles, Kinds, Facts
<1>3. Remembers(r, s)
  BY <1>2 DEF Remembers
<1>4. Hold(b, r, [heap EXCEPT ![at] = s])
  BY DEF Rewritten
<1> HIDE DEF at, r
<1>5. /\ BInv' /\ Contents' = [Contents EXCEPT ![b] = s]
      /\ Loaned' = Loaned \ {b} /\ answer' = "none"
  BY <1>1, <1>2, <1>3, <1>4, SoleWrite
<1>6. b \notin Loaned
  BY DEF Loaned, Live
<1> QED
  BY <1>5, <1>6

-----------------------------------------------------------------------------
(* Names that come to hold ranges of what is there.                        *)
LEMMA HandlesInv ==
  ASSUME BInv, NEW c \in Buffers, NEW r \in Handles, HandleOK(heap, r), InPlace(c, r)
  PROVE  /\ BInv' /\ answer' = "none"
         /\ Contents' = [Contents EXCEPT ![c] = IF r.kind = "gone" THEN NoValues ELSE AsSlice(heap, r)]
         /\ Loaned' = IF r.kind = "lent" THEN Loaned \cup {c} ELSE Loaned \ {c}
<1> DEFINE bufs == [buffer EXCEPT ![c] = r]
<1>1. bufs \in [Buffers -> Handles] /\ heap \in [Allocs -> Seq(Values)]
  BY DEF BInv
<1>2. bufs[c] = r /\ \A d \in Buffers \ {c} : bufs[d] = buffer[d]
  BY DEF BInv
<1>3. \A b \in Buffers : HandleOK(heap, bufs[b])
  BY <1>2 DEF BInv
<1>4. Becomes(bufs, heap, "none")
  BY DEF InPlace, Hold
<1> HIDE DEF bufs
<1>5. /\ BInv' /\ answer' = "none"
      /\ Contents' = [b \in Buffers |-> IF bufs[b].kind = "gone" THEN NoValues
                                        ELSE AsSlice(heap, bufs[b])]
      /\ Loaned' = {b \in Buffers : bufs[b].kind = "lent"}
  BY <1>1, <1>3, <1>4, BecomesInv DEF Answers
<1>6. Contents' = [Contents EXCEPT ![c] = IF r.kind = "gone" THEN NoValues ELSE AsSlice(heap, r)]
  <2>1. Contents = [b \in Buffers |-> IF buffer[b].kind = "gone" THEN NoValues
                                      ELSE AsSlice(heap, buffer[b])]
    BY DEF Contents, Shown
  <2> QED
    BY <1>2, <1>5, <2>1
<1>7. Loaned' = IF r.kind = "lent" THEN Loaned \cup {c} ELSE Loaned \ {c}
  BY <1>2, <1>5 DEF Loaned
<1> QED
  BY <1>5, <1>6, <1>7

(* A buffer's own facts.                                                   *)
LEMMA LiveFacts ==
  ASSUME BInv, NEW b \in Buffers, Live(b)
  PROVE  /\ buffer[b] \in Handles /\ InRange(heap, buffer[b])
         /\ Remembers(buffer[b], Shown(b)) /\ Shown(b) \in Seq(Values)
         /\ Contents[b] = Shown(b) /\ b \notin Loaned
         /\ Contents[b] # NoValues
<1>1. /\ buffer[b] \in Handles /\ InRange(heap, buffer[b])
      /\ Remembers(buffer[b], Shown(b))
      /\ Contents[b] = Shown(b) /\ b \notin Loaned
  BY DEF BInv, HandleOK, Live, Shown, Contents, Loaned
<1>2. Shown(b) \in Seq(Values)
  BY <1>1, ShownType DEF BInv, Shown, Live
<1>3. NoValues \notin Seq(Values)
  BY DEF NoValues, Values
<1> QED
  BY <1>1, <1>2, <1>3

LEMMA OwnedFacts ==
  ASSUME BInv, NEW b \in Buffers, Live(b)
  PROVE  /\ OwnedNan(b) \in {"unknown", "no", "some"}
         /\ OwnedMissing(b) \in {"unknown", "no", "some"}
         /\ Told(OwnedNan(b), Nans, Shown(b)) /\ Told(OwnedMissing(b), Missing, Shown(b))
<1>1. CASE Borrowed(buffer[b])
  BY <1>1 DEF OwnedNan, OwnedMissing, FactOf, AnyNan, AnyMissing, Told
<1>2. CASE ~Borrowed(buffer[b])
  <2>1. buffer[b].kind = "owned"
    BY <1>2, LiveFacts DEF Borrowed, Live, Handles, Kinds
  <2> QED
    BY <1>2, <2>1, LiveFacts DEF OwnedNan, OwnedMissing, Remembers, Handles, Facts
<1> QED
  BY <1>1, <1>2

(* What is known of appended values and of those before them is known of   *)
(* all.                                                                    *)
LEMMA AppendFact ==
  ASSUME NEW bad, NEW s \in Seq(Values), NEW t \in Seq(Values),
         NEW fact \in {"unknown", "no", "some"}, Told(fact, bad, s),
         NEW new \in {"unknown", "some"}, new = "some" <=> \E i \in DOMAIN t : t[i] \in bad,
         NEW after, after = MaxFact(fact, new)
  PROVE  after \in {"unknown", "no", "some"} /\ Told(after, bad, s \o t)
<1>1. /\ s \o t \in Seq(Values) /\ Len(s \o t) = Len(s) + Len(t)
      /\ \A i \in 1 .. Len(s) : (s \o t)[i] = s[i]
      /\ \A i \in 1 .. Len(t) : (s \o t)[Len(s) + i] = t[i]
  OBVIOUS
<1>2. (\E i \in DOMAIN (s \o t) : (s \o t)[i] \in bad)
        <=> (\E i \in DOMAIN s : s[i] \in bad) \/ new = "some"
  <2> DEFINE u == s \o t
  <2>1. DOMAIN u = 1 .. Len(u) /\ DOMAIN s = 1 .. Len(s) /\ DOMAIN t = 1 .. Len(t)
        /\ Len(s) \in Nat /\ Len(t) \in Nat
    BY <1>1
  <2>2. /\ Len(u) = Len(s) + Len(t)
        /\ \A i \in 1 .. Len(s) : u[i] = s[i]
        /\ \A i \in 1 .. Len(t) : u[Len(s) + i] = t[i]
    BY <1>1
  <2> HIDE DEF u
  <2>3. ASSUME NEW i \in 1 .. Len(u), u[i] \in bad
        PROVE  (\E k \in 1 .. Len(s) : s[k] \in bad) \/ new = "some"
    <3>1. CASE i <= Len(s)
      BY <2>1, <2>2, <2>3, <3>1
    <3>2. CASE i > Len(s)
      <4>1. i - Len(s) \in 1 .. Len(t) /\ Len(s) + (i - Len(s)) = i
        BY <2>1, <2>2, <3>2
      <4>2. t[i - Len(s)] \in bad
        BY <2>2, <2>3, <4>1
      <4> QED
        BY <2>1, <4>1, <4>2
    <3> QED
      BY <2>1, <2>2, <3>1, <3>2
  <2>4. ASSUME NEW i \in 1 .. Len(s), s[i] \in bad
        PROVE  \E k \in 1 .. Len(u) : u[k] \in bad
    BY <2>1, <2>2, <2>4
  <2>5. ASSUME NEW i \in 1 .. Len(t), t[i] \in bad
        PROVE  \E k \in 1 .. Len(u) : u[k] \in bad
    <3>1. Len(s) + i \in 1 .. Len(u) /\ u[Len(s) + i] = t[i]
      BY <2>1, <2>2
    <3> QED
      BY <2>5, <3>1
  <2> QED
    BY <2>1, <2>3, <2>4, <2>5 DEF u
<1>3. after = IF fact = "some" \/ new = "some" THEN "some" ELSE fact
  BY DEF MaxFact, Rank
<1> QED
  BY <1>2, <1>3 DEF Told

-----------------------------------------------------------------------------
(* The steps of the abstract specification.                                *)
LEMMA WrittenMaps ==
  ASSUME NEW b \in Buffers, b \notin Loaned, NEW s, Contents' = [Contents EXCEPT ![b] = s],
         Loaned' = Loaned, answer' = "none"
  PROVE  Private!Next
<1>1. Contents' = [Contents EXCEPT ![b] = Contents'[b]]
  BY DEF Contents
<1>2. Private!Written(b)
  BY <1>1 DEF Private!Written
<1> QED
  BY <1>2 DEF Private!Next, Loaned

LEMMA CopiedMaps ==
  ASSUME BInv, NEW b \in Buffers, Live(b), NEW c \in Buffers, c \notin Loaned,
         NEW i \in 0 .. Len(Shown(b)), NEW j \in 0 .. Len(Shown(b)),
         Contents' = [Contents EXCEPT ![c] = SubSeq(Shown(b), i + 1, j)],
         Loaned' = Loaned, answer' = "none"
  PROVE  Private!Next
<1>1. Contents[b] = Shown(b) /\ Contents[b] # NoValues /\ b \notin Loaned
  BY LiveFacts
<1>2. Private!Copied(b, c)
  BY <1>1 DEF Private!Copied
<1>3. b \in Private!Own
  BY <1>1 DEF Private!Own, Loaned
<1> QED
  BY <1>2, <1>3 DEF Private!Next, Loaned

LEMMA MovedMaps ==
  ASSUME BInv, NEW b \in Buffers, Live(b), NEW c \in Buffers, c \notin Loaned,
         Contents' = [Contents EXCEPT ![b] = NoValues, ![c] = Shown(b)],
         Loaned' = Loaned, answer' = "none"
  PROVE  Private!Next
<1>1. Contents[b] = Shown(b) /\ Contents[b] # NoValues /\ b \notin Loaned
  BY LiveFacts
<1>2. Private!Moved(b, c)
  BY <1>1 DEF Private!Moved
<1>3. b \in Private!Own
  BY <1>1 DEF Private!Own, Loaned
<1> QED
  BY <1>2, <1>3 DEF Private!Next, Loaned

LEMMA CutMaps ==
  ASSUME BInv, NEW g \in Buffers, Live(g), NEW b \in Buffers, b \notin Loaned,
         NEW c \in Buffers, c \notin Loaned, b # c,
         NEW i \in 0 .. Len(Shown(g)), NEW j \in 0 .. Len(Shown(g)),
         NEW k \in 0 .. Len(Shown(g)), i <= j, j <= k,
         Contents' = [Contents EXCEPT ![b] = SubSeq(Shown(g), i + 1, j),
                                      ![c] = SubSeq(Shown(g), j + 1, k)],
         Loaned' = Loaned, answer' = "none"
  PROVE  Private!Next
<1>1. Contents[g] = Shown(g) /\ Contents[g] # NoValues /\ g \notin Loaned
  BY LiveFacts
<1>2. Private!Cut(g, b, c)
  BY <1>1 DEF Private!Cut
<1>3. g \in Private!Own
  BY <1>1 DEF Private!Own, Loaned
<1> QED
  BY <1>2, <1>3 DEF Private!Next, Loaned

LEMMA LendMaps ==
  ASSUME BInv, NEW b \in Buffers, Live(b), NEW c \in Buffers, c \notin Loaned, b # c,
         Contents' = [Contents EXCEPT ![c] = Shown(b)],
         Loaned' = Loaned \cup {c}, answer' = "none"
  PROVE  Private!Next
<1>1. Contents[b] = Shown(b) /\ Contents[b] # NoValues /\ b \notin Loaned
  BY LiveFacts
<1>2. Private!Lend(b, c)
  BY <1>1 DEF Private!Lend, Loaned
<1>3. b \in Private!Own
  BY <1>1 DEF Private!Own, Loaned
<1> QED
  BY <1>2, <1>3 DEF Private!Next, Loaned

LEMMA ReturnMaps ==
  ASSUME NEW c \in Buffers, c \in Loaned, Contents' = [Contents EXCEPT ![c] = NoValues],
         Loaned' = Loaned \ {c}, answer' = "none"
  PROVE  Private!Next
<1>1. Private!Return(c)
  BY DEF Private!Return, Loaned
<1> QED
  BY <1>1 DEF Private!Next, Loaned

LEMMA AskMaps ==
  ASSUME BInv, NEW b \in Buffers, Live(b), UNCHANGED <<Contents, Loaned>>,
         \/ answer' = IF AnyNan(Shown(b)) THEN "yes" ELSE "no"
         \/ answer' = IF AnyMissing(Shown(b)) THEN "yes" ELSE "no"
  PROVE  Private!Next
<1>1. /\ Contents[b] = Shown(b) /\ Contents[b] # NoValues /\ b \notin Loaned
      /\ Shown(b) \in Seq(Values)
  BY LiveFacts
<1>2. AnyNan(Shown(b)) = Private!HasNan(Contents[b])
  BY <1>1 DEF AnyNan, Nans, Private!HasNan
<1>3. AnyMissing(Shown(b)) = Private!HasNonfinite(Contents[b])
  BY <1>1 DEF AnyMissing, Missing, Values, Private!HasNonfinite
<1>4. \/ Private!Ask(b, Private!HasNan(Contents[b]))
      \/ Private!Ask(b, Private!HasNonfinite(Contents[b]))
  BY <1>2, <1>3 DEF Private!Ask, Loaned
<1>5. b \in Private!Own
  BY <1>1 DEF Private!Own, Loaned
<1> QED
  BY <1>4, <1>5 DEF Private!Next

-----------------------------------------------------------------------------
(* New buffers.                                                            *)
LEMMA SeqsType ==
  ASSUME NEW n \in Int, NEW s \in SeqsUpTo(n)
  PROVE  s \in Seq(Values)
<1>1. PICK k \in 0 .. n : s \in [1 .. k -> Values]
  BY DEF SeqsUpTo
<1> QED
  BY <1>1

LEMMA FromStep ==
  ASSUME BInv, NEW b \in Buffers, buffer[b].kind = "gone", NEW s \in SeqsUpTo(MaxLen),
         FromVec(b, s) \/ FromForeign(b, s)
  PROVE  BInv' /\ Private!Next
<1>1. s \in Seq(Values)
  BY SeqsType, BoundsAssumption
<1>2. PICK kind \in {"owned", "foreign"} :
        Hold(b, With(kind, Unused, 1, Len(s), "unknown"), [heap EXCEPT ![Unused] = s])
  BY DEF FromVec, FromForeign
<1> DEFINE r == With(kind, Unused, 1, Len(s), "unknown")
<1>3. Unused \in Allocs /\ \A d \in Buffers \ {b} : buffer[d].owner # Unused
  BY UnusedIsFree
<1>4. /\ r \in Handles /\ r.kind = kind /\ r.owner = Unused /\ r.from = 1 /\ r.to = Len(s)
      /\ Remembers(r, s)
  BY <1>1, <1>3 DEF With, Handles, Kinds, Facts, Remembers, Told
<1> HIDE DEF r
<1>5. /\ BInv' /\ Contents' = [Contents EXCEPT ![b] = s]
      /\ Loaned' = Loaned \ {b} /\ answer' = "none"
  BY <1>1, <1>2, <1>3, <1>4, SoleWrite DEF r
<1>6. b \notin Loaned
  BY DEF Loaned
<1> QED
  BY <1>5, <1>6, WrittenMaps

(* A write leaves the facts true and shows in no other buffer.             *)
LEMMA RewrittenStep ==
  ASSUME BInv, NEW b \in Buffers, Live(b), NEW s \in Seq(Values),
         NEW nan \in {"unknown", "no", "some"}, NEW missing \in {"unknown", "no", "some"},
         Told(nan, Nans, s), Told(missing, Missing, s), Rewritten(b, s, nan, missing)
  PROVE  BInv' /\ Private!Next
<1>1. b \notin Loaned
  BY DEF Loaned, Live
<1> QED
  BY <1>1, RewrittenInv, WrittenMaps

LEMMA MakeMutStep ==
  ASSUME BInv, NEW b \in Buffers, Live(b), NEW s \in [DOMAIN Shown(b) -> Values], MakeMut(b, s)
  PROVE  BInv' /\ Private!Next
<1>1. s \in Seq(Values)
  BY LiveFacts
<1> QED
  BY <1>1, RewrittenStep DEF MakeMut, Told

LEMMA AppendValuesStep ==
  ASSUME BInv, NEW b \in Buffers, Live(b), NEW s \in Seq(Values), AppendValues(b, s)
  PROVE  BInv' /\ Private!Next
<1> DEFINE nan0 == OwnedNan(b)
           missing0 == OwnedMissing(b)
           newNan == IF AnyNan(s) THEN "some" ELSE "unknown"
           newMissing == IF AnyMissing(s) THEN "some" ELSE "unknown"
           nan == MaxFact(nan0, newNan)
           missing == MaxFact(missing0, newMissing)
           old == Shown(b)
           all == old \o s
<1>1. old \in Seq(Values) /\ all \in Seq(Values)
  BY LiveFacts
<1>2. /\ nan0 \in {"unknown", "no", "some"} /\ Told(nan0, Nans, old)
      /\ missing0 \in {"unknown", "no", "some"} /\ Told(missing0, Missing, old)
  BY OwnedFacts
<1>3. /\ newNan \in {"unknown", "some"} /\ (newNan = "some" <=> \E i \in DOMAIN s : s[i] \in Nans)
      /\ newMissing \in {"unknown", "some"} /\ (newMissing = "some" <=> \E i \in DOMAIN s : s[i] \in Missing)
  BY DEF AnyNan, AnyMissing
<1>4. Rewritten(b, all, nan, missing)
  BY DEF AppendValues
<1> HIDE DEF nan0, missing0, newNan, newMissing, old
<1>5. nan \in {"unknown", "no", "some"} /\ Told(nan, Nans, all)
  BY <1>1, <1>2, <1>3, AppendFact
<1>6. missing \in {"unknown", "no", "some"} /\ Told(missing, Missing, all)
  BY <1>1, <1>2, <1>3, AppendFact
<1> HIDE DEF nan, missing, all
<1> QED
  BY <1>1, <1>4, <1>5, <1>6, RewrittenStep

LEMMA AppendRepeatedStep ==
  ASSUME BInv, NEW b \in Buffers, Live(b), NEW v \in Values, NEW n \in Nat, AppendRepeated(b, v, n)
  PROVE  BInv' /\ Private!Next
<1> DEFINE s == [i \in 1 .. n |-> v]
<1>1. s \in Seq(Values) /\ DOMAIN s = 1 .. n /\ \A i \in 1 .. n : s[i] = v
  OBVIOUS
<1>2. \A bad : (\E i \in DOMAIN s : s[i] \in bad) <=> n > 0 /\ v \in bad
  BY <1>1
<1>3. AppendRepeated(b, v, n) <=>
        Rewritten(b, Shown(b) \o s,
                  MaxFact(OwnedNan(b), IF AnyNan(s) THEN "some" ELSE "unknown"),
                  MaxFact(OwnedMissing(b), IF AnyMissing(s) THEN "some" ELSE "unknown"))
  <2>1. AnyNan(s) <=> n > 0 /\ v \in Nans
    BY <1>2 DEF AnyNan
  <2>2. AnyMissing(s) <=> n > 0 /\ v \in Missing
    BY <1>2 DEF AnyMissing
  <2> HIDE DEF s
  <2> QED
    BY <2>1, <2>2 DEF AppendRepeated, s
<1> HIDE DEF s
<1>4. AppendValues(b, s)
  BY <1>3 DEF AppendValues
<1> QED
  BY <1>1, <1>4, AppendValuesStep

(* What a scatter leaves of a fact: the values written decide it, and an   *)
(* old bad value they cover makes it unknown.                              *)
LEMMA ScatterFact ==
  ASSUME NEW bad, NEW old \in Seq(Values), NEW n \in Nat, NEW ps \in [1 .. n -> DOMAIN old],
         NEW new \in Seq(Values), DOMAIN new = DOMAIN old,
         \A i \in DOMAIN old : (\A k \in 1 .. n : ps[k] # i) => new[i] = old[i],
         NEW fact \in {"unknown", "no", "some"}, Told(fact, bad, old)
  PROVE  /\ FactLeft(fact, old, new, ps, bad) \in {"unknown", "no", "some"}
         /\ Told(FactLeft(fact, old, new, ps, bad), bad, new)
<1>1. DOMAIN ps = 1 .. n /\ \A k \in 1 .. n : ps[k] \in DOMAIN new
  OBVIOUS
<1>2. CASE \E k \in DOMAIN ps : new[ps[k]] \in bad
  BY <1>1, <1>2 DEF FactLeft, Told
<1>3. CASE ~ \E k \in DOMAIN ps : new[ps[k]] \in bad
  <2>1. \A i \in DOMAIN new : new[i] \in bad => old[i] \in bad /\ \A k \in 1 .. n : ps[k] # i
    BY <1>1, <1>3
  <2>2. FactLeft(fact, old, new, ps, bad) =
          IF fact = "some" /\ \E k \in DOMAIN ps : old[ps[k]] \in bad THEN "unknown" ELSE fact
    BY <1>3 DEF FactLeft
  <2>3. CASE fact = "some" /\ \E k \in DOMAIN ps : old[ps[k]] \in bad
    BY <2>2, <2>3 DEF Told
  <2>4. CASE fact = "some" /\ ~ \E k \in DOMAIN ps : old[ps[k]] \in bad
    <3>1. PICK i \in DOMAIN old : old[i] \in bad
      BY <2>4 DEF Told
    <3>2. \A k \in 1 .. n : ps[k] # i
      BY <1>1, <2>4, <3>1
    <3>3. i \in DOMAIN new /\ new[i] \in bad
      BY <3>1, <3>2
    <3> QED
      BY <2>2, <2>4, <3>3 DEF Told
  <2>5. CASE fact = "no"
    BY <2>1, <2>2, <2>5 DEF Told
  <2>6. CASE fact = "unknown"
    BY <2>2, <2>6 DEF Told
  <2> QED
    BY <2>3, <2>4, <2>5, <2>6
<1> QED
  BY <1>2, <1>3

LEMMA ScatterStep ==
  ASSUME BInv, NEW b \in Buffers, Live(b), NEW n \in 1 .. 2, NEW ps \in [1 .. n -> DOMAIN Shown(b)],
         NEW vs \in [1 .. n -> Values], Scatter(b, ps, vs)
  PROVE  BInv' /\ Private!Next
<1> DEFINE old == Shown(b)
           new == Scattered(old, ps, vs)
           nan == FactLeft(OwnedNan(b), old, new, ps, Nans)
           missing == FactLeft(OwnedMissing(b), old, new, ps, Missing)
<1>1. old \in Seq(Values)
  BY LiveFacts
<1>2. ASSUME NEW i \in DOMAIN old
      PROVE  /\ new[i] \in Values
             /\ (\A k \in 1 .. n : ps[k] # i) => new[i] = old[i]
  <2> DEFINE writes == {k \in DOMAIN ps : ps[k] = i}
  <2>1. new[i] = IF writes = {} THEN old[i] ELSE vs[Max(writes)]
    BY DEF Scattered
  <2>2. writes # {} => Max(writes) \in writes
    <3>1. writes \subseteq {1, 2} /\ \A x, y \in {1, 2} : x >= y \/ y >= x
      OBVIOUS
    <3>2. writes # {} => \E x \in writes : \A y \in writes : x >= y
      <4> HIDE DEF writes
      <4>1. CASE 2 \in writes
        BY <3>1, <4>1
      <4>2. CASE 2 \notin writes
        BY <3>1, <4>2
      <4> QED
        BY <4>1, <4>2
    <3> HIDE DEF writes
    <3> QED
      BY <3>2 DEF Max
  <2>3. DOMAIN ps = 1 .. n /\ old[i] \in Values
    BY <1>1
  <2> QED
    BY <2>1, <2>2, <2>3
<1>3. new \in Seq(Values) /\ DOMAIN new = DOMAIN old
  <2>1. new = [i \in DOMAIN old |-> new[i]] /\ DOMAIN old = 1 .. Len(old)
    BY <1>1 DEF Scattered
  <2>2. new \in [1 .. Len(old) -> Values]
    <3> HIDE DEF new, old
    <3> QED
      BY <1>2, <2>1
  <2> HIDE DEF new, old
  <2> QED
    BY <1>1, <2>1, <2>2
<1>4. n \in Nat /\ ps \in [1 .. n -> DOMAIN old]
  OBVIOUS
<1>5. Rewritten(b, new, nan, missing)
  BY DEF Scatter
<1>6. /\ OwnedNan(b) \in {"unknown", "no", "some"} /\ Told(OwnedNan(b), Nans, old)
      /\ OwnedMissing(b) \in {"unknown", "no", "some"} /\ Told(OwnedMissing(b), Missing, old)
  BY OwnedFacts
<1> HIDE DEF old, new
<1>7. nan \in {"unknown", "no", "some"} /\ Told(nan, Nans, new)
  BY <1>1, <1>2, <1>3, <1>4, <1>6, ScatterFact
<1>8. missing \in {"unknown", "no", "some"} /\ Told(missing, Missing, new)
  BY <1>1, <1>2, <1>3, <1>4, <1>6, ScatterFact
<1> HIDE DEF nan, missing
<1> QED
  BY <1>3, <1>5, <1>7, <1>8, RewrittenStep

-----------------------------------------------------------------------------
(* Buffers made of others.                                                 *)
LEMMA CloneStep ==
  ASSUME BInv, NEW b \in Buffers, Live(b), NEW c \in Buffers, Free(c), Clone(b, c)
  PROVE  BInv' /\ Private!Next
<1>1. buffer[b] \in Handles /\ HandleOK(heap, buffer[b]) /\ buffer[b].kind \notin {"gone", "lent"}
  BY DEF BInv, Live
<1>2. c \notin Loaned
  BY DEF Free, Loaned
<1>3. /\ BInv' /\ answer' = "none" /\ Contents' = [Contents EXCEPT ![c] = Shown(b)]
      /\ Loaned' = Loaned \ {c}
  BY <1>1, HandlesInv DEF Clone, Shown
<1>4. Shown(b) \in Seq(Values)
  BY LiveFacts
<1>5. /\ 0 \in 0 .. Len(Shown(b)) /\ Len(Shown(b)) \in 0 .. Len(Shown(b))
      /\ SubSeq(Shown(b), 0 + 1, Len(Shown(b))) = Shown(b)
  BY <1>4, Whole
<1> QED
  BY <1>2, <1>3, <1>5, CopiedMaps

LEMMA LendStep ==
  ASSUME BInv, NEW b \in Buffers, Live(b), NEW c \in Buffers \ {b}, Free(c), Lend(b, c)
  PROVE  BInv' /\ Private!Next
<1> DEFINE r == With("lent", buffer[b].owner, buffer[b].from, buffer[b].to, "unknown")
<1>1. /\ buffer[b] \in Handles /\ HandleOK(heap, buffer[b])
      /\ buffer[b].kind \notin {"gone", "lent"}
  BY DEF BInv, Live
<1>2. r \in Handles /\ HandleOK(heap, r) /\ r.kind = "lent"
  BY <1>1 DEF With, Handles, Kinds, Facts, HandleOK, InRange
<1>3. AsSlice(heap, r) = Shown(b)
  BY DEF AsSlice, Shown, With
<1>4. InPlace(c, r)
  BY DEF Lend
<1> HIDE DEF r
<1>5. /\ BInv' /\ answer' = "none" /\ Contents' = [Contents EXCEPT ![c] = Shown(b)]
      /\ Loaned' = Loaned \cup {c}
  BY <1>2, <1>3, <1>4, HandlesInv
<1>6. c \notin Loaned
  BY DEF Free, Loaned
<1> QED
  BY <1>5, <1>6, LendMaps

LEMMA DropStep ==
  ASSUME BInv, NEW b \in Buffers, Drop(b)
  PROVE  BInv' /\ Private!Next
<1>1. Gone \in Handles /\ HandleOK(heap, Gone) /\ Gone.kind = "gone"
  BY DEF Gone, With, Handles, Kinds, Facts, HandleOK, InRange
<1>2. /\ BInv' /\ answer' = "none" /\ Contents' = [Contents EXCEPT ![b] = NoValues]
      /\ Loaned' = Loaned \ {b}
  BY <1>1, HandlesInv DEF Drop
<1>3. CASE b \in Loaned
  BY <1>2, <1>3, ReturnMaps
<1>4. CASE b \notin Loaned
  <2>1. Loaned' = Loaned
    BY <1>2, <1>4
  <2> QED
    BY <1>2, <1>4, <2>1, WrittenMaps
<1> QED
  BY <1>3, <1>4

(* A part of values without bad ones has none.                             *)
LEMMA PartFact ==
  ASSUME NEW bad, NEW s \in Seq(Values), NEW m \in Nat, NEW n \in Nat,
         1 <= m, m <= n + 1, n <= Len(s), NEW fact \in Facts, Told(fact, bad, s)
  PROVE  /\ Told(Absence(fact), bad, SubSeq(s, m, n))
         /\ Absence(fact) \in {"unknown", "no"}
         /\ fact = "no" => \A i \in DOMAIN SubSeq(s, m, n) : SubSeq(s, m, n)[i] \notin bad
<1> DEFINE part == SubSeq(s, m, n)
<1>1. /\ part \in Seq(Values) /\ Len(part) = (n - m) + 1
      /\ \A i \in 1 .. (n - m) + 1 : part[i] = s[(m + i) - 1]
  BY Part
<1> HIDE DEF part
<1>2. DOMAIN part = 1 .. (n - m) + 1 /\ DOMAIN s = 1 .. Len(s)
  BY <1>1
<1>3. ASSUME fact = "no"
      PROVE  \A i \in DOMAIN part : part[i] \notin bad
  <2>1. \A i \in 1 .. Len(s) : s[i] \notin bad
    BY <1>2, <1>3 DEF Told
  <2>2. \A i \in DOMAIN part : (m + i) - 1 \in 1 .. Len(s)
    BY <1>2
  <2> QED
    BY <1>1, <1>2, <2>1, <2>2
<1>4. Told(Absence(fact), bad, part) /\ Absence(fact) \in {"unknown", "no"}
  BY <1>3 DEF Absence, Told
<1> QED
  BY <1>3, <1>4 DEF part

(* A new owned buffer of the values of a part of another.                  *)
LEMMA OwnedPart ==
  ASSUME BInv, NEW b \in Buffers, Live(b), NEW c \in Buffers, Free(c),
         NEW i \in 0 .. Len(Shown(b)), NEW j \in 0 .. Len(Shown(b)), i <= j,
         NEW at \in Allocs, \A d \in Buffers \ {c} : buffer[d].owner # at,
         NEW s, s = SubSeq(Shown(b), i + 1, j),
         Hold(c, [With("owned", at, 1, Len(s), Absence(buffer[b].nan))
                    EXCEPT !.missing = Absence(buffer[b].missing)],
              [heap EXCEPT ![at] = s])
  PROVE  BInv' /\ Private!Next
<1> DEFINE nan == Absence(buffer[b].nan)
           missing == Absence(buffer[b].missing)
           r == [With("owned", at, 1, Len(s), nan) EXCEPT !.missing = missing]
<1>1. /\ buffer[b] \in Handles /\ Remembers(buffer[b], Shown(b)) /\ Shown(b) \in Seq(Values)
  BY LiveFacts
<1>2. /\ i + 1 \in Nat /\ j \in Nat /\ 1 <= i + 1 /\ i + 1 <= j + 1 /\ j <= Len(Shown(b))
      /\ buffer[b].nan \in Facts /\ buffer[b].missing \in Facts
  BY <1>1 DEF Handles
<1>3. s \in Seq(Values)
  BY <1>1, <1>2, Part
<1>4. /\ Told(nan, Nans, s) /\ nan \in {"unknown", "no"}
      /\ Told(missing, Missing, s) /\ missing \in {"unknown", "no"}
  BY <1>1, <1>2, PartFact DEF Remembers
<1>5. Hold(c, r, [heap EXCEPT ![at] = s])
  OBVIOUS
<1> HIDE DEF nan, missing
<1>6. /\ r \in Handles /\ r.kind = "owned" /\ r.owner = at /\ r.from = 1 /\ r.to = Len(s)
      /\ r.nan = nan /\ r.missing = missing
  BY <1>3, <1>4 DEF With, Handles, Kinds, Facts
<1> HIDE DEF r
<1>7. Remembers(r, s)
  BY <1>4, <1>6 DEF Remembers
<1>8. at \in Allocs /\ \A d \in Buffers \ {c} : buffer[d].owner # at
  OBVIOUS
<1>9. /\ BInv' /\ Contents' = [Contents EXCEPT ![c] = s]
      /\ Loaned' = Loaned \ {c} /\ answer' = "none"
  BY ONLY BInv, <1>3, <1>5, <1>6, <1>7, <1>8, SoleWrite
<1>10. c \notin Loaned
  BY DEF Free, Loaned
<1> QED
  BY <1>9, <1>10, CopiedMaps

LEMMA SliceStep ==
  ASSUME BInv, NEW b \in Buffers, Live(b), NEW c \in Buffers, Free(c),
         NEW i \in 0 .. Len(Shown(b)), NEW j \in 0 .. Len(Shown(b)), i <= j,
         SliceWithSpare(b, c, i, j)
  PROVE  BInv' /\ Private!Next
BY UnusedIsFree, OwnedPart DEF SliceWithSpare

LEMMA CompactStep ==
  ASSUME BInv, NEW b \in Buffers, Live(b),
         NEW i \in 0 .. Len(Shown(b)), NEW j \in 0 .. Len(Shown(b)), i <= j,
         CompactRange(b, i, j)
  PROVE  BInv' /\ Private!Next
<1>1. Free(b)
  BY DEF Live, Free
<1>2. CASE SliceWithSpare(b, b, i, j)
  BY <1>1, <1>2, SliceStep
<1>3. CASE ~SliceWithSpare(b, b, i, j)
  <2> DEFINE at == buffer[b].owner
             s == SubSeq(Shown(b), i + 1, j)
  <2>1. at \in Allocs /\ \A d \in Buffers \ {b} : buffer[d].owner # at
    BY <1>3, LiveFacts DEF CompactRange, Sharers, InRange, Live
  <2>2. Hold(b, [With("owned", at, 1, Len(s), Absence(buffer[b].nan))
                   EXCEPT !.missing = Absence(buffer[b].missing)],
             [heap EXCEPT ![at] = s])
    BY <1>3 DEF CompactRange
  <2> HIDE DEF at, s
  <2> QED
    BY <1>1, <2>1, <2>2, OwnedPart DEF s
<1> QED
  BY <1>2, <1>3

NoneOf(bad, s) == \A i \in DOMAIN s : s[i] \notin bad

(* A slab's range: absence of bad values is all that is remembered.        *)
LEMMA SlabHandle ==
  ASSUME NEW h \in [Allocs -> Seq(Values)], NEW r \in Handles, r.kind = "slab", r.owner \in Allocs,
         1 <= r.from, r.from <= r.to + 1, r.to <= Len(h[r.owner]),
         r.nan \in {"no", "immutable"}, r.missing \in {"no", "immutable"},
         r.nan = "no" => NoneOf(Nans, AsSlice(h, r)),
         r.missing = "no" => NoneOf(Missing, AsSlice(h, r))
  PROVE  HandleOK(h, r)
<1>1. InRange(h, r)
  BY DEF InRange
<1>2. Told(r.nan, Nans, AsSlice(h, r)) /\ Told(r.missing, Missing, AsSlice(h, r))
  BY DEF Told, NoneOf
<1> QED
  BY <1>1, <1>2 DEF HandleOK, Remembers

(* A part of a part.                                                       *)
LEMMA PartOfPart ==
  ASSUME NEW S, NEW s \in Seq(S), NEW i \in Nat, NEW k \in Nat, i <= k, k <= Len(s),
         NEW m \in Nat, NEW n \in Nat, 1 <= m, m <= n + 1, n <= k - i
  PROVE  SubSeq(SubSeq(s, i + 1, k), m, n) = SubSeq(s, i + m, i + n)
<1> DEFINE t == SubSeq(s, i + 1, k)
<1>1. /\ t \in Seq(S) /\ Len(t) = k - i
      /\ \A x \in 1 .. k - i : t[x] = s[i + x]
  <2>1. /\ t \in Seq(S) /\ Len(t) = (k - (i + 1)) + 1
        /\ \A x \in 1 .. (k - (i + 1)) + 1 : t[x] = s[((i + 1) + x) - 1]
    BY Part
  <2> HIDE DEF t
  <2> QED
    BY <2>1
<1> HIDE DEF t
<1>2. SubSeq(t, m, n) = [x \in 1 .. (n - m) + 1 |-> t[(m + x) - 1]]
  BY <1>1
<1>3. SubSeq(s, i + m, i + n) = [x \in 1 .. ((i + n) - (i + m)) + 1 |-> s[((i + m) + x) - 1]]
  OBVIOUS
<1>4. ((i + n) - (i + m)) + 1 = (n - m) + 1
  OBVIOUS
<1>5. \A x \in 1 .. (n - m) + 1 : t[(m + x) - 1] = s[((i + m) + x) - 1]
  <2> SUFFICES ASSUME NEW x \in 1 .. (n - m) + 1
               PROVE  t[(m + x) - 1] = s[((i + m) + x) - 1]
    OBVIOUS
  <2>1. (m + x) - 1 \in 1 .. k - i /\ i + ((m + x) - 1) = ((i + m) + x) - 1
    OBVIOUS
  <2> QED
    BY <1>1, <2>1
<1> QED
  BY <1>2, <1>3, <1>4, <1>5 DEF t

(* The lead and the visible rows of a selection, cut from one buffer.      *)
LEMMA CopySlabStep ==
  ASSUME BInv, NEW g \in Buffers, Live(g), NEW lead \in Buffers, Free(lead),
         NEW rows \in Buffers, Free(rows), lead # rows,
         NEW i \in 0 .. Len(Shown(g)), NEW j \in 0 .. Len(Shown(g)),
         NEW k \in 0 .. Len(Shown(g)), i <= j, j <= k, CopySlab(g, lead, rows, i, j, k)
  PROVE  BInv' /\ Private!Next
<1> DEFINE nan == buffer[g].nan
           missing == buffer[g].missing
           s == SubSeq(Shown(g), i + 1, k)
           at == Unused
           h == [heap EXCEPT ![at] = s]
           rl == SlabRange(at, 1, j - i, nan = "no", missing = "no")
           rr == SlabRange(at, j - i + 1, k - i, nan = "no", missing = "no")
           bufs == [buffer EXCEPT ![lead] = rl, ![rows] = rr]
           sl == SubSeq(Shown(g), i + 1, j)
           sr == SubSeq(Shown(g), j + 1, k)
<1>1. Becomes(bufs, h, "none")
  BY DEF CopySlab
<1>2. /\ Shown(g) \in Seq(Values) /\ Remembers(buffer[g], Shown(g)) /\ buffer[g] \in Handles
  BY LiveFacts
<1>3. /\ i \in Nat /\ j \in Nat /\ k \in Nat /\ k <= Len(Shown(g)) /\ j <= Len(Shown(g))
      /\ Len(Shown(g)) \in Nat
  BY <1>2
<1>4. at \in Allocs /\ \A d \in Buffers : buffer[d].owner # at
  BY UnusedIsFree
<1>5. s \in Seq(Values) /\ Len(s) = k - i
  <2>1. s \in Seq(Values) /\ Len(s) = (k - (i + 1)) + 1
    BY <1>2, <1>3, Part
  <2> HIDE DEF s
  <2> QED
    BY <1>3, <2>1
<1>6. SubSeq(s, 1, j - i) = sl
  <2>1. SubSeq(s, 1, j - i) = SubSeq(Shown(g), i + 1, i + (j - i))
    BY <1>2, <1>3, PartOfPart
  <2>2. i + (j - i) = j
    BY <1>3
  <2> QED
    BY <2>1, <2>2
<1>7. SubSeq(s, j - i + 1, k - i) = sr
  <2>1. SubSeq(s, j - i + 1, k - i) = SubSeq(Shown(g), i + (j - i + 1), i + (k - i))
    <3>1. /\ j - i + 1 \in Nat /\ k - i \in Nat /\ 1 <= j - i + 1
          /\ j - i + 1 <= (k - i) + 1 /\ k - i <= k - i /\ i <= k
      BY <1>3
    <3> QED
      BY <1>2, <1>3, <3>1, PartOfPart
  <2>2. i + (j - i + 1) = j + 1 /\ i + (k - i) = k
    BY <1>3
  <2> QED
    BY <2>1, <2>2
<1>8. /\ nan = "no" => NoneOf(Nans, sl) /\ NoneOf(Nans, sr)
      /\ missing = "no" => NoneOf(Missing, sl) /\ NoneOf(Missing, sr)
  <2>1. /\ Told(buffer[g].nan, Nans, Shown(g)) /\ Told(buffer[g].missing, Missing, Shown(g))
        /\ buffer[g].nan \in Facts /\ buffer[g].missing \in Facts
    BY <1>2 DEF Remembers, Handles
  <2>2. /\ i + 1 \in Nat /\ j + 1 \in Nat /\ 1 <= i + 1 /\ i + 1 <= j + 1
        /\ 1 <= j + 1 /\ j + 1 <= k + 1
    BY <1>3
  <2> DEFINE all == Shown(g)
  <2>3. /\ all \in Seq(Values) /\ nan \in Facts /\ missing \in Facts
        /\ Told(nan, Nans, all) /\ Told(missing, Missing, all)
        /\ j <= Len(all) /\ k <= Len(all)
        /\ sl = SubSeq(all, i + 1, j) /\ sr = SubSeq(all, j + 1, k)
    BY <1>2, <1>3, <2>1
  <2> HIDE DEF all, nan, missing, sl, sr
  <2>4. nan = "no" => NoneOf(Nans, sl) /\ NoneOf(Nans, sr)
    BY <1>3, <2>2, <2>3, PartFact DEF NoneOf
  <2>5. missing = "no" => NoneOf(Missing, sl) /\ NoneOf(Missing, sr)
    BY <1>3, <2>2, <2>3, PartFact DEF NoneOf
  <2> QED
    BY <2>3, <2>4, <2>5
<1>9. h \in [Allocs -> Seq(Values)] /\ h[at] = s
  BY <1>4, <1>5 DEF BInv
<1>10. nan \in Facts /\ missing \in Facts
  BY <1>2 DEF Handles
<1>11. \A d \in Buffers : HandleOK(h, buffer[d])
                          /\ (buffer[d].kind # "gone" => AsSlice(h, buffer[d]) = Shown(d))
  BY <1>4 DEF BInv, HandleOK, InRange, AsSlice, Shown
<1>12. /\ bufs[lead] = rl /\ bufs[rows] = rr
       /\ \A d \in Buffers \ {lead, rows} : bufs[d] = buffer[d]
  BY DEF BInv
<1> HIDE DEF nan, missing, s, at, h, sl, sr
<1>13. rl \in Handles /\ rl.kind = "slab" /\ HandleOK(h, rl) /\ AsSlice(h, rl) = sl
  <2> DEFINE from == 1  to == j - i
  <2>1. from \in Nat /\ to \in Nat /\ 1 <= from /\ from <= to + 1 /\ to <= Len(h[at])
    BY <1>3, <1>5, <1>9
  <2>2. sl = SubSeq(h[at], from, to)
    BY <1>6, <1>9
  <2> HIDE DEF from, to
  <2> DEFINE q == [kind |-> "slab", owner |-> at, from |-> from, to |-> to,
                   nan |-> "immutable", missing |-> "immutable"]
  <2>0. rl = [q EXCEPT !.nan = IF nan = "no" \/ missing = "no" THEN "no" ELSE q.nan,
                       !.missing = IF missing = "no" THEN "no" ELSE q.missing]
    BY DEF SlabRange, With, from, to
  <2> HIDE DEF rl
  <2>3. /\ rl \in Handles /\ rl.kind = "slab" /\ rl.owner = at /\ rl.from = from /\ rl.to = to
        /\ rl.nan \in {"no", "immutable"} /\ rl.missing \in {"no", "immutable"}
        /\ rl.nan = "no" => nan = "no" \/ missing = "no"
        /\ rl.missing = "no" => missing = "no"
    BY <1>4, <1>10, <2>0, <2>1 DEF Handles, Kinds, Facts
  <2>4. AsSlice(h, rl) = sl
    BY <2>2, <2>3 DEF AsSlice
  <2>5. NoneOf(Missing, sl) => NoneOf(Nans, sl)
    BY DEF NoneOf, Nans, Missing
  <2>6. HandleOK(h, rl)
    BY <1>4, <1>8, <1>9, <2>1, <2>3, <2>4, <2>5, SlabHandle
  <2> QED
    BY <2>3, <2>4, <2>6
<1>14. rr \in Handles /\ rr.kind = "slab" /\ HandleOK(h, rr) /\ AsSlice(h, rr) = sr
  <2> DEFINE from == j - i + 1  to == k - i
  <2>1. from \in Nat /\ to \in Nat /\ 1 <= from /\ from <= to + 1 /\ to <= Len(h[at])
    BY <1>3, <1>5, <1>9
  <2>2. sr = SubSeq(h[at], from, to)
    BY <1>7, <1>9
  <2> HIDE DEF from, to
  <2> DEFINE q == [kind |-> "slab", owner |-> at, from |-> from, to |-> to,
                   nan |-> "immutable", missing |-> "immutable"]
  <2>0. rr = [q EXCEPT !.nan = IF nan = "no" \/ missing = "no" THEN "no" ELSE q.nan,
                       !.missing = IF missing = "no" THEN "no" ELSE q.missing]
    BY DEF SlabRange, With, from, to
  <2> HIDE DEF rr
  <2>3. /\ rr \in Handles /\ rr.kind = "slab" /\ rr.owner = at /\ rr.from = from /\ rr.to = to
        /\ rr.nan \in {"no", "immutable"} /\ rr.missing \in {"no", "immutable"}
        /\ rr.nan = "no" => nan = "no" \/ missing = "no"
        /\ rr.missing = "no" => missing = "no"
    BY <1>4, <1>10, <2>0, <2>1 DEF Handles, Kinds, Facts
  <2>4. AsSlice(h, rr) = sr
    BY <2>2, <2>3 DEF AsSlice
  <2>5. NoneOf(Missing, sr) => NoneOf(Nans, sr)
    BY DEF NoneOf, Nans, Missing
  <2>6. HandleOK(h, rr)
    BY <1>4, <1>8, <1>9, <2>1, <2>3, <2>4, <2>5, SlabHandle
  <2> QED
    BY <2>3, <2>4, <2>6
<1>15. bufs \in [Buffers -> Handles]
  <2> HIDE DEF rl, rr
  <2> QED
    BY <1>13, <1>14 DEF BInv
<1> HIDE DEF bufs, rl, rr
<1>16. \A d \in Buffers : HandleOK(h, bufs[d])
  BY <1>11, <1>12, <1>13, <1>14
<1>17. /\ BInv' /\ answer' = "none"
       /\ Contents' = [b \in Buffers |-> IF bufs[b].kind = "gone" THEN NoValues
                                         ELSE AsSlice(h, bufs[b])]
       /\ Loaned' = {b \in Buffers : bufs[b].kind = "lent"}
  BY <1>1, <1>9, <1>15, <1>16, BecomesInv DEF Answers
<1>18. Contents' = [Contents EXCEPT ![lead] = sl, ![rows] = sr]
  <2>1. Contents = [b \in Buffers |-> IF buffer[b].kind = "gone" THEN NoValues ELSE Shown(b)]
    BY DEF Contents
  <2>2. ASSUME NEW b \in Buffers
        PROVE  (IF bufs[b].kind = "gone" THEN NoValues ELSE AsSlice(h, bufs[b]))
                 = IF b = rows THEN sr ELSE IF b = lead THEN sl ELSE Contents[b]
    BY <1>11, <1>12, <1>13, <1>14, <2>1
  <2> QED
    BY <1>17, <2>1, <2>2
<1>19. /\ lead \notin Loaned /\ rows \notin Loaned /\ Loaned' = Loaned
  BY <1>12, <1>13, <1>14, <1>17 DEF Free, Loaned
<1> QED
  BY <1>17, <1>18, <1>19, CutMaps DEF sl, sr

(* The values of one buffer become another's.                              *)
LEMMA IntoVecStep ==
  ASSUME BInv, NEW b \in Buffers, Live(b), NEW c \in Buffers, c # b, Free(c), IntoVec(b, c)
  PROVE  BInv' /\ Private!Next
<1> DEFINE at == WriteTarget(b)
           s == Shown(b)
           h == [heap EXCEPT ![at] = s]
           r == With("owned", at, 1, Len(s), "unknown")
           bufs == [buffer EXCEPT ![b] = Gone, ![c] = r]
<1>1. Becomes(bufs, h, "none")
  BY DEF IntoVec
<1>2. s \in Seq(Values)
  BY LiveFacts
<1>3. at \in Allocs /\ \A d \in Buffers \ {b} : buffer[d].owner # at
  BY TargetIsFree
<1>4. h \in [Allocs -> Seq(Values)] /\ h[at] = s
  BY <1>2, <1>3 DEF BInv
<1>5. /\ bufs[b] = Gone /\ bufs[c] = r
      /\ \A d \in Buffers \ {b, c} : bufs[d] = buffer[d]
  BY DEF BInv
<1>6. \A d \in Buffers \ {b} : HandleOK(h, buffer[d])
                             /\ (buffer[d].kind # "gone" => AsSlice(h, buffer[d]) = Shown(d))
  BY <1>3 DEF BInv, HandleOK, InRange, AsSlice, Shown
<1>7. Gone \in Handles /\ HandleOK(h, Gone) /\ Gone.kind = "gone"
  BY DEF Gone, With, Handles, Kinds, Facts, HandleOK, InRange
<1> HIDE DEF h, s, at
<1>8. /\ r \in Handles /\ r.kind = "owned" /\ r.owner = at /\ r.from = 1 /\ r.to = Len(s)
      /\ Remembers(r, s)
  BY <1>2, <1>3 DEF With, Handles, Kinds, Facts, Remembers, Told
<1>9. bufs \in [Buffers -> Handles]
  <2> HIDE DEF r
  <2> QED
    BY <1>7, <1>8 DEF BInv
<1> HIDE DEF r, bufs
<1>10. AsSlice(h, r) = s /\ HandleOK(h, r)
  <2>1. AsSlice(h, r) = s
    BY <1>2, <1>4, <1>8, Whole DEF AsSlice
  <2>2. InRange(h, r)
    BY <1>2, <1>3, <1>4, <1>8 DEF InRange
  <2> QED
    BY <1>8, <2>1, <2>2 DEF HandleOK
<1>11. \A d \in Buffers : HandleOK(h, bufs[d])
  BY <1>5, <1>6, <1>7, <1>10
<1>12. /\ BInv' /\ answer' = "none"
       /\ Contents' = [d \in Buffers |-> IF bufs[d].kind = "gone" THEN NoValues
                                         ELSE AsSlice(h, bufs[d])]
       /\ Loaned' = {d \in Buffers : bufs[d].kind = "lent"}
  BY <1>1, <1>4, <1>9, <1>11, BecomesInv DEF Answers
<1>13. Contents' = [Contents EXCEPT ![b] = NoValues, ![c] = s]
  <2>1. Contents = [d \in Buffers |-> IF buffer[d].kind = "gone" THEN NoValues ELSE Shown(d)]
    BY DEF Contents
  <2>2. ASSUME NEW d \in Buffers
        PROVE  (IF bufs[d].kind = "gone" THEN NoValues ELSE AsSlice(h, bufs[d]))
                 = IF d = c THEN s ELSE IF d = b THEN NoValues ELSE Contents[d]
    BY <1>5, <1>6, <1>7, <1>8, <1>10, <2>1
  <2> QED
    BY <1>12, <2>1, <2>2
<1>14. c \notin Loaned /\ Loaned' = Loaned
  BY <1>5, <1>7, <1>8, <1>12 DEF Free, Live, Loaned
<1> QED
  BY <1>12, <1>13, <1>14, MovedMaps DEF s

-----------------------------------------------------------------------------
(* A question changes no value, and what is remembered of its answer is    *)
(* true.                                                                   *)
LEMMA AskedInv ==
  ASSUME BInv, NEW b \in Buffers, Live(b), NEW nan \in Facts, NEW missing \in Facts,
         NEW reply \in Answers,
         Remembers([buffer[b] EXCEPT !.nan = nan, !.missing = missing], Shown(b)),
         Becomes([buffer EXCEPT ![b] = [buffer[b] EXCEPT !.nan = nan, !.missing = missing]],
                 heap, reply)
  PROVE  BInv' /\ UNCHANGED <<Contents, Loaned>> /\ answer' = reply
<1> DEFINE r == [buffer[b] EXCEPT !.nan = nan, !.missing = missing]
           bufs == [buffer EXCEPT ![b] = r]
<1>1. /\ buffer[b] \in Handles /\ InRange(heap, buffer[b])
      /\ heap \in [Allocs -> Seq(Values)] /\ buffer[b].kind \notin {"gone", "lent"}
  BY LiveFacts DEF BInv, Live
<1>2. /\ r \in Handles /\ r.kind = buffer[b].kind /\ r.owner = buffer[b].owner
      /\ r.from = buffer[b].from /\ r.to = buffer[b].to
  BY <1>1 DEF Handles
<1>3. Becomes(bufs, heap, reply) /\ Remembers(r, Shown(b))
  OBVIOUS
<1> HIDE DEF r
<1>4. bufs \in [Buffers -> Handles]
  BY <1>2 DEF BInv
<1>5. bufs[b] = r /\ \A d \in Buffers \ {b} : bufs[d] = buffer[d]
  BY DEF BInv
<1> HIDE DEF bufs
<1>6. AsSlice(heap, r) = Shown(b) /\ HandleOK(heap, r)
  BY <1>1, <1>2, <1>3 DEF AsSlice, Shown, HandleOK, InRange
<1>7. \A d \in Buffers : HandleOK(heap, bufs[d])
  BY <1>5, <1>6 DEF BInv
<1>8. /\ BInv' /\ answer' = reply
      /\ Contents' = [d \in Buffers |-> IF bufs[d].kind = "gone" THEN NoValues
                                        ELSE AsSlice(heap, bufs[d])]
      /\ Loaned' = {d \in Buffers : bufs[d].kind = "lent"}
  BY <1>1, <1>3, <1>4, <1>7, BecomesInv
<1>9. Contents' = Contents
  <2>1. Contents = [d \in Buffers |-> IF buffer[d].kind = "gone" THEN NoValues ELSE Shown(d)]
    BY DEF Contents
  <2>2. ASSUME NEW d \in Buffers
        PROVE  (IF bufs[d].kind = "gone" THEN NoValues ELSE AsSlice(heap, bufs[d]))
                 = IF buffer[d].kind = "gone" THEN NoValues ELSE Shown(d)
    BY <1>1, <1>2, <1>5, <1>6 DEF AsSlice, Shown
  <2> QED
    BY <1>8, <2>1, <2>2
<1>10. Loaned' = Loaned
  BY <1>2, <1>5, <1>8 DEF Loaned
<1> QED
  BY <1>8, <1>9, <1>10

LEMMA HasNanStep ==
  ASSUME BInv, NEW b \in Buffers, Live(b), HasNan(b)
  PROVE  BInv' /\ Private!Next
<1> DEFINE fact == buffer[b].nan
           missing == buffer[b].missing
           found == AnyNan(Shown(b))
           known == IF fact \in {"no", "some"} THEN fact = "some" ELSE found
           learnt == IF fact \in {"no", "some"} \/ ~Rememberable(b, fact) THEN fact ELSE FactOf(found)
           reply == IF known THEN "yes" ELSE "no"
           r == [buffer[b] EXCEPT !.nan = learnt, !.missing = missing]
<1>1. buffer[b] \in Handles /\ Remembers(buffer[b], Shown(b))
  BY LiveFacts
<1>2. learnt \in Facts /\ missing \in Facts /\ reply \in Answers
  BY <1>1 DEF Handles, Facts, FactOf, Answers
<1>3. Becomes([buffer EXCEPT ![b] = r], heap, reply)
  <2>1. [buffer EXCEPT ![b] = r] = [buffer EXCEPT ![b].nan = learnt]
    BY <1>1 DEF BInv, Handles
  <2> QED
    BY <2>1 DEF HasNan
<1>4. Told(learnt, Nans, Shown(b))
  BY <1>1 DEF Remembers, Told, FactOf, AnyNan
<1>5. learnt = fact \/ (learnt \in {"no", "some"} /\ (fact = "immutable" \/ ~Borrowed(buffer[b])))
  BY DEF FactOf, Rememberable
<1>6. known = AnyNan(Shown(b))
  BY <1>1 DEF Remembers, Told, AnyNan
<1> HIDE DEF learnt, known
<1>7. Remembers(r, Shown(b))
  <2>1. /\ r.kind = buffer[b].kind /\ r.nan = learnt /\ r.missing = buffer[b].missing
    BY <1>1 DEF Handles
  <2> HIDE DEF r
  <2> QED
    BY <1>1, <1>4, <1>5, <2>1 DEF Remembers, Borrowed
<1>8. BInv' /\ UNCHANGED <<Contents, Loaned>> /\ answer' = reply
  <2> HIDE DEF reply, missing
  <2> QED
    BY <1>2, <1>3, <1>7, AskedInv
<1> QED
  BY <1>6, <1>8, AskMaps

LEMMA HasNonfiniteStep ==
  ASSUME BInv, NEW b \in Buffers, Live(b), HasNonfinite(b)
  PROVE  BInv' /\ Private!Next
<1> DEFINE fact == buffer[b].missing
           before == buffer[b].nan
           found == AnyMissing(Shown(b))
           known == IF fact \in {"no", "some"} THEN fact = "some" ELSE found
           learns == fact \notin {"no", "some"} /\ Rememberable(b, fact)
           nan == CASE ~learns -> before
                    [] learns /\ ~found -> "no"
                    [] learns /\ found /\ before \in {"no", "some"} -> before
                    [] OTHER -> FactOf(AnyNan(Shown(b)))
           missing == IF learns THEN FactOf(found) ELSE fact
           reply == IF known THEN "yes" ELSE "no"
           r == [buffer[b] EXCEPT !.nan = nan, !.missing = missing]
<1>1. buffer[b] \in Handles /\ Remembers(buffer[b], Shown(b))
  BY LiveFacts
<1>2. /\ nan = IF ~learns THEN before
               ELSE IF ~found THEN "no"
               ELSE IF before \in {"no", "some"} THEN before ELSE FactOf(AnyNan(Shown(b)))
  OBVIOUS
<1>3. Becomes([buffer EXCEPT ![b] = r], heap, reply)
  <2>1. [buffer EXCEPT ![b] = r] = [buffer EXCEPT ![b].missing = missing, ![b].nan = nan]
    <3> HIDE DEF nan, missing
    <3> QED
      BY <1>1 DEF BInv, Handles
  <2> QED
    BY <2>1 DEF HasNonfinite
<1> HIDE DEF nan
<1>4. nan \in Facts /\ missing \in Facts /\ reply \in Answers
  BY <1>1, <1>2 DEF Handles, Facts, FactOf, Answers
<1>5. Told(missing, Missing, Shown(b))
  BY <1>1 DEF Remembers, Told, FactOf, AnyMissing
<1>6. Told(nan, Nans, Shown(b))
  <2>1. ~found => ~AnyNan(Shown(b))
    BY DEF AnyNan, AnyMissing, Nans, Missing
  <2>2. Told(before, Nans, Shown(b))
    BY <1>1 DEF Remembers
  <2>3. Told(FactOf(AnyNan(Shown(b))), Nans, Shown(b))
    BY DEF Told, FactOf, AnyNan
  <2>4. ~found => Told("no", Nans, Shown(b))
    BY <2>1 DEF Told, AnyNan
  <2> HIDE DEF found, before, learns
  <2> QED
    BY <1>2, <2>2, <2>3, <2>4
<1>7. known = AnyMissing(Shown(b))
  BY <1>1 DEF Remembers, Told, AnyMissing
<1>8. /\ ~learns => nan = before /\ missing = fact
      /\ learns => /\ nan \in {"no", "some"} /\ missing \in {"no", "some"}
                   /\ fact = "immutable" \/ ~Borrowed(buffer[b])
  BY <1>2 DEF FactOf, Rememberable
<1> HIDE DEF known, missing, learns
<1>9. Remembers(r, Shown(b))
  <2>1. r.kind = buffer[b].kind /\ r.nan = nan /\ r.missing = missing
    BY <1>1 DEF Handles
  <2> HIDE DEF r
  <2> QED
    BY <1>1, <1>5, <1>6, <1>8, <2>1 DEF Remembers, Borrowed
<1>10. BInv' /\ UNCHANGED <<Contents, Loaned>> /\ answer' = reply
  <2> HIDE DEF reply
  <2> QED
    BY <1>3, <1>4, <1>9, AskedInv
<1> QED
  BY <1>7, <1>10, AskMaps

-----------------------------------------------------------------------------
(* Every step of a program.                                                *)
LEMMA WriteStep ==
  ASSUME BInv, NEW b \in Buffers, Live(b), Write(b)
  PROVE  BInv' /\ Private!Next
<1> DEFINE room == MaxLen - Len(Shown(b))
<1>1. room \in Int /\ 0 .. room \subseteq Nat
  BY LiveFacts, BoundsAssumption
<1> HIDE DEF room
<1>2. CASE \E s \in [DOMAIN Shown(b) -> Values] : MakeMut(b, s)
  BY <1>2, MakeMutStep
<1>3. CASE \E s \in SeqsUpTo(room) : AppendValues(b, s)
  BY <1>1, <1>3, SeqsType, AppendValuesStep
<1>4. CASE \E v \in Values, n \in 0 .. room : AppendRepeated(b, v, n)
  BY <1>1, <1>4, AppendRepeatedStep
<1>5. CASE \E n \in 1 .. 2 : \E ps \in [1 .. n -> DOMAIN Shown(b)], vs \in [1 .. n -> Values] :
             Scatter(b, ps, vs)
  BY <1>5, ScatterStep
<1> QED
  BY <1>2, <1>3, <1>4, <1>5 DEF Write, room

LEMMA DeriveStep ==
  ASSUME BInv, NEW b \in Buffers, Live(b), Derive(b)
  PROVE  BInv' /\ Private!Next
<1>1. CASE \E c \in {d \in Buffers \ {b} : Free(d)} : Clone(b, c) \/ IntoVec(b, c) \/ Lend(b, c)
  BY <1>1, CloneStep, IntoVecStep, LendStep
<1>2. CASE \E i, j \in 0 .. Len(Shown(b)) :
             i <= j /\ (CompactRange(b, i, j)
                       \/ \E c \in {d \in Buffers \ {b} : Free(d)} : SliceWithSpare(b, c, i, j))
  BY <1>2, CompactStep, SliceStep
<1>3. CASE \E lead, rows \in {d \in Buffers : Free(d)} : \E i, j, k \in 0 .. Len(Shown(b)) :
             lead # rows /\ i <= j /\ j <= k /\ CopySlab(b, lead, rows, i, j, k)
  <2>1. PICK lead \in Buffers, rows \in Buffers :
          /\ Free(lead) /\ Free(rows) /\ lead # rows
          /\ \E i, j, k \in 0 .. Len(Shown(b)) :
               i <= j /\ j <= k /\ CopySlab(b, lead, rows, i, j, k)
    BY <1>3
  <2>2. PICK i \in 0 .. Len(Shown(b)), j \in 0 .. Len(Shown(b)), k \in 0 .. Len(Shown(b)) :
          i <= j /\ j <= k /\ CopySlab(b, lead, rows, i, j, k)
    BY <2>1
  <2> QED
    BY <2>1, <2>2, CopySlabStep
<1>4. CASE Drop(b)
  BY <1>4, DropStep
<1> QED
  BY <1>1, <1>2, <1>3, <1>4 DEF Derive

LEMMA Step ==
  ASSUME BInv, [Next]_vars
  PROVE  BInv' /\ [Private!Next]_<<Contents, Loaned, answer>>
<1>1. ASSUME NEW b \in Buffers, buffer[b].kind = "gone", NEW s \in SeqsUpTo(MaxLen),
             FromVec(b, s) \/ FromForeign(b, s)
      PROVE  BInv' /\ Private!Next
  BY <1>1, FromStep
<1>2. ASSUME NEW b \in Buffers, Live(b), Write(b) \/ Derive(b) \/ HasNan(b) \/ HasNonfinite(b)
      PROVE  BInv' /\ Private!Next
  BY <1>2, WriteStep, DeriveStep, HasNanStep, HasNonfiniteStep
<1>3. ASSUME NEW b \in Buffers, buffer[b].kind = "lent", Drop(b)
      PROVE  BInv' /\ Private!Next
  BY <1>3, DropStep
<1>4. ASSUME UNCHANGED vars
      PROVE  BInv' /\ UNCHANGED <<Contents, Loaned, answer>>
  BY <1>4 DEF vars, BInv, Contents, Loaned, Shown
<1> QED
  BY <1>1, <1>2, <1>3, <1>4 DEF Next

LEMMA Start ==
  ASSUME Init
  PROVE  BInv /\ Private!Init
<1>1. Gone \in Handles /\ HandleOK(heap, Gone) /\ Gone.kind = "gone"
  BY DEF Gone, With, Handles, Kinds, Facts, HandleOK, InRange
<1>2. heap \in [Allocs -> Seq(Values)]
  <2>1. <<>> \in Seq(Values)
    OBVIOUS
  <2> QED
    BY <2>1 DEF Init
<1>3. BInv
  BY <1>1, <1>2 DEF Init, BInv, Answers
<1>4. Private!Init
  BY <1>1 DEF Init, Contents, Private!Init
<1> QED
  BY <1>3, <1>4

(* Sharing, slabs, loans and tracked facts keep every handle in order,     *)
(* however many buffers and allocations there are and however long: its    *)
(* range lies in its allocation, and what it remembers is true of the      *)
(* values of that range.                                                   *)
THEOREM BufferInvariance == Spec => []BInv
<1>1. Init => BInv
  BY Start
<1>2. BInv /\ [Next]_vars => BInv'
  BY Step
<1> QED
  BY <1>1, <1>2, PTL DEF Spec

(* No write, cut, move or loan leaves a range that reaches past its        *)
(* allocation, and an owned buffer always spans its whole vector.          *)
THEOREM BufferTypes == Spec => []TypeOK
<1>1. BInv => TypeOK
  BY DEF BInv, HandleOK, InRange, Handles, Kinds, Answers, TypeOK
<1> QED
  BY <1>1, BufferInvariance, PTL

(* The NaN and non-finite facts that writes track instead of scanning are  *)
(* true of the values as they are now, in every buffer and after every     *)
(* sequence of calls, and none is kept of foreign bytes.                   *)
THEOREM FactsHold == Spec => []FactsTrue
<1>1. BInv => FactsTrue
  <2> SUFFICES ASSUME BInv, NEW b \in Buffers, Live(b)
               PROVE  /\ buffer[b].nan \in {"no", "some"} => (buffer[b].nan = "some") = AnyNan(Shown(b))
                      /\ buffer[b].missing \in {"no", "some"}
                           => (buffer[b].missing = "some") = AnyMissing(Shown(b))
                      /\ buffer[b].kind = "foreign" => buffer[b].nan = "unknown" /\ buffer[b].missing = "unknown"
                      /\ buffer[b].kind = "owned" => buffer[b].nan # "immutable" /\ buffer[b].missing # "immutable"
    BY DEF FactsTrue
  <2>1. Remembers(buffer[b], Shown(b))
    BY LiveFacts
  <2> QED
    BY <2>1 DEF Remembers, Told, AnyNan, AnyMissing
<1> QED
  BY <1>1, BufferInvariance, PTL

(* Sharing is invisible: whatever is cloned, cut, lent, written and        *)
(* dropped, the buffers behave as if each had values of its own, and a     *)
(* consumer's range reads as it was lent until it is given back.           *)
THEOREM Implements == Spec => PrivateSpec
<1>1. Init => Private!Init
  BY Start
<1>2. BInv /\ [Next]_vars => [Private!Next]_<<Contents, Loaned, answer>>
  BY Step
<1> QED
  BY <1>1, <1>2, BufferInvariance, PTL DEF Spec, PrivateSpec, Private!Spec, Loaned
=============================================================================
