------------------------------ MODULE AnchorBanks ------------------------------
(* The anchors of a cached column (volas-core dataframe/history.rs,        *)
(* Anchors): checkpoints at increasing rows, kept in banks that copies of  *)
(* the column share. A handle holds a store it publishes to, shared with   *)
(* its clones, and the frozen snapshot a derived frame was given. Both     *)
(* index chunks, each a range of a bank; a bank grows in place only while  *)
(* nothing but the last chunk of one store refers to it.                   *)
EXTENDS Naturals, Sequences, SequencesExt, FiniteSets, FiniteSetsExt

CONSTANTS
  MaxHandles,    \* bound: Anchors values
  MaxBanks,      \* bound: bank allocations
  Spacing,       \* ANCHOR_SPACING
  ChunkPoints,   \* ANCHOR_CHUNK_POINTS
  ChunkWords,    \* ANCHOR_CHUNK_WORDS
  WideRows,      \* the rows whose state takes two words instead of one
  MaxRow,        \* bound: the last row that has an anchor
  None

Rows == 0..MaxRow
Banks == 1..MaxBanks
Handles == 1..MaxHandles
Copies == Handles \ {1}     \* bound: handle 1 is not derived; the others are, also from each other
Words(row) == IF row \in WideRows THEN 2 ELSE 1
SumWords(rows) == Cardinality(rows) + Cardinality(rows \cap WideRows)
Sorted(rows) == [i \in 1..Cardinality(rows) |-> CHOOSE r \in rows : Cardinality({q \in rows : q < r}) = i - 1]

VARIABLES
  bank,        \* the rows of the checkpoints of every bank
  store,       \* the stores published to, each named after the handle that made it
  held,        \* the store of every handle, None before its first publication
  frozen,      \* the snapshot of every handle, None where it has none
  published,   \* history variable: the rows given to every store
  given        \* history variable: the rows of every snapshot

vars == <<bank, store, held, frozen, published, given>>

(* A store: its chunks, each a range of a bank and the number of points    *)
(* through its end; grid is its first row when its rows are regular, and   *)
(* stride the points of every full chunk while that is uniform.            *)
EmptyStore == [grid |-> None, chunks |-> <<>>, len |-> 0, stride |-> 0]
Chunk(b, start, end) == [bank |-> b, start |-> start, end |-> end]
Base(chunks, i) == IF i = 1 THEN 0 ELSE chunks[i - 1].end

(* --- reading an index; slots count from 0 -------------------------------*)
LastBase(chunks) == Base(chunks, Len(chunks))
ChunkOf(s, slot) ==
  IF s.stride # 0 THEN slot \div s.stride + 1
  ELSE IF slot >= LastBase(s.chunks) THEN Len(s.chunks)
  ELSE Cardinality({i \in DOMAIN s.chunks : s.chunks[i].end <= slot}) + 1
Locate(s, slot) ==
  LET i == ChunkOf(s, slot)
      base == IF s.stride # 0 THEN (i - 1) * s.stride ELSE Base(s.chunks, i)
  IN  [bank |-> s.chunks[i].bank, slot |-> s.chunks[i].start + slot - base]
PointAt(bk, s, slot) == LET p == Locate(s, slot) IN bk[p.bank][p.slot + 1]
Position(bk, s, slot) == IF s.grid # None THEN s.grid + slot * Spacing ELSE PointAt(bk, s, slot)
Slots(s) == 0..(s.len - 1)

Least(a, b) == IF a <= b THEN a ELSE b
Greatest(a, b) == IF a >= b THEN a ELSE b
GridSteps(first, at) == IF at <= first THEN 0 ELSE (at - first + Spacing - 1) \div Spacing
Before(bk, s, at) ==
  IF s.grid # None THEN Least(GridSteps(s.grid, at), s.len)
  ELSE Cardinality({slot \in Slots(s) : Position(bk, s, slot) < at})
NearestSlot(bk, s, at) == Before(bk, s, at + 1)

(* --- building a store ---------------------------------------------------*)
NextGrid(s, row) ==
  IF s.len = 0 THEN IF row % Spacing = Spacing - 1 THEN row ELSE None
  ELSE IF s.grid # None /\ s.grid + s.len * Spacing = row THEN s.grid ELSE None
Weight(rows) == SumWords(ToSet(rows))

(* The chunks of stores and of snapshots that refer to a bank.             *)
ChunkRefs(s, b) == IF s = None THEN {} ELSE {i \in DOMAIN s.chunks : s.chunks[i].bank = b}
RefsFrom(f, b) == UNION {{h} \X ChunkRefs(f[h], b) : h \in Handles}
SoleOwner(b) == Cardinality(RefsFrom(store, b)) + Cardinality(RefsFrom(frozen, b)) = 1
Unused == {b \in Banks : bank[b] = <<>>}

(* AnchorStore::append, to the last bank or to a new one.                  *)
TailHasRoom(s, row) ==
  /\ s.chunks # <<>>
  /\ LET last == s.chunks[Len(s.chunks)]
         rows == bank[last.bank]
     IN  /\ last.start = 0
         /\ SoleOwner(last.bank)
         /\ Len(rows) = last.end - LastBase(s.chunks)
         /\ Len(rows) < ChunkPoints
         /\ Weight(rows) + Words(row) <= ChunkWords
AppendInPlace(s, row) ==
  LET tail == s.chunks[Len(s.chunks)].bank
  IN  [bank |-> [bank EXCEPT ![tail] = Append(@, row)],
       store |-> [s EXCEPT !.grid = NextGrid(s, row),
                           !.len = @ + 1,
                           !.stride = IF Len(bank[tail]) + 1 > @ THEN 0 ELSE @,
                           !.chunks[Len(s.chunks)].end = s.len + 1]]
AppendChunk(s, row) ==
  LET b == Min(Unused)
  IN  [bank |-> [bank EXCEPT ![b] = <<row>>],
       store |-> [s EXCEPT !.grid = NextGrid(s, row),
                           !.len = @ + 1,
                           !.stride = IF @ # 0 /\ s.len % @ # 0 THEN 0 ELSE @,
                           !.chunks = Append(@, Chunk(b, 0, s.len + 1))]]
(* A replay or a boundary may hold a checkpoint of the last bank: then it  *)
(* is not written either.                                                  *)
AppendPoint(s, row) == (IF TailHasRoom(s, row) THEN {AppendInPlace(s, row)} ELSE {}) \cup {AppendChunk(s, row)}

(* from_points: ordered rows into banks of bounded points and words.       *)
FitsOver(rows, row) == Len(rows) <= ChunkPoints /\ Weight(rows) + Words(row) <= ChunkWords + 1
Fits(rows, row) == Len(rows) < ChunkPoints /\ Weight(rows) + Words(row) <= ChunkWords
Banked(rows) ==
  FoldLeft(LAMBDA bs, r : IF bs # <<>> /\ Fits(Last(bs), r) THEN Front(bs) \o <<Append(Last(bs), r)>>
                          ELSE Append(bs, <<r>>), <<>>, rows)
Through(bs, i) == FoldLeft(LAMBDA n, rows : n + Len(rows), 0, SubSeq(bs, 1, i))
DenseGrid(rows) ==
  IF rows[1] % Spacing = Spacing - 1 /\ \A i \in 1..(Len(rows) - 1) : rows[i] + Spacing = rows[i + 1]
  THEN rows[1] ELSE None
FromPoints(rows) ==
  LET bs == Banked(rows)
      at == Sorted(Unused)
      width == Len(bs[1])
      uniform == \A i \in DOMAIN bs : Through(bs, i) = Least(i * width, Len(rows))
  IN  [bank |-> [b \in Banks |-> IF \E i \in DOMAIN bs : at[i] = b
                                 THEN bs[CHOOSE i \in DOMAIN bs : at[i] = b] ELSE bank[b]],
       store |-> [grid |-> DenseGrid(rows), len |-> Len(rows), stride |-> IF uniform THEN width ELSE 0,
                  chunks |-> [i \in DOMAIN bs |-> Chunk(at[i], 0, Through(bs, i))]]]

(* from_handles: points of existing banks, re-indexed; neighbours in one   *)
(* bank share a chunk.                                                     *)
WithHandle(bk, s, p) ==
  LET grid == NextGrid(s, bk[p.bank][p.slot + 1])
      last == s.chunks[Len(s.chunks)]
      joins == /\ s.chunks # <<>>
               /\ last.bank = p.bank
               /\ last.start + last.end - LastBase(s.chunks) = p.slot
  IN  IF joins
      THEN [s EXCEPT !.grid = grid, !.len = @ + 1, !.chunks[Len(s.chunks)].end = s.len + 1]
      ELSE [s EXCEPT !.grid = grid, !.len = @ + 1, !.chunks = Append(@, Chunk(p.bank, p.slot, s.len + 1))]
FromHandles(bk, points) == FoldLeft(LAMBDA s, p : WithHandle(bk, s, p), EmptyStore, points)
Selected(s) == [i \in 1..s.len |-> Locate(s, i - 1)]

(* extend: the chunks of a later store behind those of an earlier one.     *)
KeepsStride(s, t) ==
  \/ s.stride = 0
  \/ /\ s.len % s.stride = 0
     /\ t.stride = s.stride \/ (Len(t.chunks) = 1 /\ t.len <= s.stride)
Extended(s, t) ==
  IF s.len = 0 THEN t
  ELSE [grid |-> IF s.grid # None /\ t.grid = s.grid + s.len * Spacing THEN s.grid ELSE None,
        len |-> s.len + t.len,
        stride |-> IF KeepsStride(s, t) THEN s.stride ELSE 0,
        chunks |-> s.chunks \o [i \in DOMAIN t.chunks |-> [t.chunks[i] EXCEPT !.end = @ + s.len]]]

(* Two ordered stores into one; of equal rows the first store's is kept.   *)
MergedBehind(bk, s, t) == Extended(s, t)
Merged(bk, s, t) ==
  IF Position(bk, s, s.len - 1) < Position(bk, t, 0) THEN Extended(s, t)
  ELSE LET RowOf(p) == bk[p.bank][p.slot + 1]
           old == ToSet(Selected(s))
           all == old \cup {p \in ToSet(Selected(t)) : \A q \in old : RowOf(q) # RowOf(p)}
       IN  FromHandles(bk, [i \in 1..Cardinality(all) |->
                              CHOOSE p \in all : Cardinality({q \in all : RowOf(q) < RowOf(p)}) = i - 1])

(* --- snapshots ----------------------------------------------------------*)
(* A snapshot of one chunk is a range of a bank, without a stride.         *)
OneRange(bk, dense, b, start, len) ==
  [grid |-> IF dense THEN bk[b][start + 1] ELSE None, chunks |-> <<Chunk(b, start, len)>>, len |-> len, stride |-> 0]
FromStore(bk, s) ==
  IF Len(s.chunks) = 1 THEN OneRange(bk, s.grid # None, s.chunks[1].bank, s.chunks[1].start, s.len) ELSE s

(* range_slots: the chunks that intersect the slots start..end-1.          *)
RangeSlots(bk, s, start, end) ==
  LET first == IF s.stride # 0 THEN start \div s.stride + 1
               ELSE Cardinality({i \in DOMAIN s.chunks : s.chunks[i].end <= start}) + 1
      last == IF s.stride # 0 THEN (end - 1) \div s.stride + 1
              ELSE Cardinality({i \in DOMAIN s.chunks : s.chunks[i].end < end}) + 1
      Skip(i) == IF start > Base(s.chunks, i) THEN start - Base(s.chunks, i) ELSE 0
      chunk(i) == Chunk(s.chunks[i].bank, s.chunks[i].start + Skip(i), Least(s.chunks[i].end, end) - start)
  IN  IF first = last
      THEN OneRange(bk, s.grid # None, s.chunks[first].bank, s.chunks[first].start + start - Base(s.chunks, first), end - start)
      ELSE [grid |-> IF s.grid = None THEN None ELSE s.grid + start * Spacing,
            len |-> end - start,
            stride |-> IF s.stride # 0 /\ start % s.stride = 0 THEN s.stride ELSE 0,
            chunks |-> [i \in 1..(last - first + 1) |-> chunk(first + i - 1)]]
RowRange(bk, s, first, upto) ==
  LET start == Before(bk, s, first)
      end == Greatest(Before(bk, s, upto), start)
  IN  IF start = end THEN None ELSE RangeSlots(bk, s, start, end)

(* selection: the anchors on the rows first..upto-1 of a handle, frozen,   *)
(* and the row of the latest anchor before them.                           *)
Combined(bk, a, b) ==
  CASE a = None -> b [] b = None -> a [] OTHER -> FromStore(bk, Merged(bk, a, b))
StoreOf(h) == IF held[h] = None THEN EmptyStore ELSE store[held[h]]
FrozenOf(h) == IF frozen[h] = None THEN EmptyStore ELSE frozen[h]
Selection(h, first, upto) ==
  Combined(bank, RowRange(bank, FrozenOf(h), first, upto), RowRange(bank, StoreOf(h), first, upto))
LastBefore(s, at) == IF NearestSlot(bank, s, at) = 0 THEN None ELSE Locate(s, NearestSlot(bank, s, at) - 1)
LatestPublished(p, q) == IF q = None THEN p ELSE q
Latest(p, q) ==
  CASE p = None -> q [] q = None -> p
    [] OTHER -> IF bank[p.bank][p.slot + 1] >= bank[q.bank][q.slot + 1] THEN p ELSE q
Nearest(h, at) == Latest(LastBefore(FrozenOf(h), at), LastBefore(StoreOf(h), at))
FrozenContains(h, row) ==
  LET slot == Before(bank, FrozenOf(h), row)
  IN  slot < FrozenOf(h).len /\ Position(bank, FrozenOf(h), slot) = row

(* --- the calls ----------------------------------------------------------*)
(* Banks nothing refers to are freed; the others are numbered in the order *)
(* of the chunks that refer to them (an address means nothing).            *)
BanksOf(s) == IF s = None THEN <<>> ELSE [i \in DOMAIN s.chunks |-> s.chunks[i].bank]
InOrder(f) == FoldLeftDomain(LAMBDA ids, h : ids \o BanksOf(f[h]), <<>>, f)
Compact(bk, stores, helds, frozens) ==
  LET live == [o \in Handles |-> IF \E h \in Handles : helds[h] = o THEN stores[o] ELSE EmptyStore]
      refs == FoldLeft(LAMBDA ids, b : IF \E i \in DOMAIN ids : ids[i] = b THEN ids ELSE Append(ids, b), <<>>,
                       InOrder(live) \o InOrder(frozens))
      number == [b \in ToSet(refs) |-> CHOOSE i \in DOMAIN refs : refs[i] = b]
      Renamed(s) == IF s = None THEN None
                    ELSE [s EXCEPT !.chunks = [i \in DOMAIN @ |-> [@[i] EXCEPT !.bank = number[@]]]]
  IN  [bank |-> [i \in Banks |-> IF i \in DOMAIN refs THEN bk[refs[i]] ELSE <<>>],
       store |-> [o \in Handles |-> Renamed(live[o])],
       frozen |-> [h \in Handles |-> Renamed(frozens[h])]]
Becomes(bk, stores, helds, frozens, rows) ==
  /\ held' = helds
  /\ published' = [o \in Handles |-> IF \E h \in Handles : helds[h] = o THEN rows[o] ELSE {}]
  /\ \E new \in {Compact(bk, stores, helds, frozens)} :
       bank' = new.bank /\ store' = new.store /\ frozen' = new.frozen

(* The store of a handle, made on its first publication under a name no    *)
(* handle uses.                                                            *)
StoreName(h) == IF held[h] # None THEN held[h] ELSE CHOOSE o \in Handles : \A g \in Handles : held[g] # o
Publish(h, built, rows) ==
  LET o == StoreName(h)
  IN  /\ Becomes(built.bank, [store EXCEPT ![o] = built.store], [held EXCEPT ![h] = o], frozen,
                 [published EXCEPT ![o] = @ \cup rows])
      /\ UNCHANGED given
Stay == UNCHANGED vars

Keep(h, row) ==
  LET s == StoreOf(h)
      slot == Before(bank, s, row)
      b == Min(Unused)
      bk == [bank EXCEPT ![b] = <<row>>]
  IN  IF FrozenContains(h, row) THEN Stay
      ELSE IF slot = s.len THEN \E built \in AppendPoint(s, row) : Publish(h, built, {row})
      ELSE IF Position(bank, s, slot) = row THEN Stay
      ELSE Publish(h, [bank |-> bk, store |-> FromHandles(bk, InsertAt(Selected(s), slot + 1, [bank |-> b, slot |-> 0]))], {row})

(* keep_all: one pass's checkpoints, ordered, those already frozen left out.*)
KeepAll(h, rows) ==
  LET new == IF frozen[h] # None /\ Position(bank, frozen[h], frozen[h].len - 1) >= Min(rows)
             THEN {r \in rows : ~FrozenContains(h, r)} ELSE rows
      built == FromPoints(Sorted(new))
      s == StoreOf(h)
  IN  IF new = {} THEN Stay
      ELSE IF Cardinality(new) = 1 THEN Keep(h, Min(new))
      ELSE IF s.len = 0 THEN Publish(h, built, new)
      ELSE Publish(h, [built EXCEPT !.store = Merged(built.bank, s, @)], new)

(* Clone: the store is shared, made now if it was not.                     *)
Clone(h, g) ==
  LET o == StoreName(h)
  IN  /\ Becomes(bank, [store EXCEPT ![o] = StoreOf(h)], [held EXCEPT ![h] = o, ![g] = o], [frozen EXCEPT ![g] = frozen[h]], published)
      /\ given' = [given EXCEPT ![g] = given[h]]

(* The rows a handle can read.                                             *)
Known(h) == given[h] \cup (IF held[h] = None THEN {} ELSE published[held[h]])
Derive(h, g, first, upto) ==
  /\ Becomes(bank, store, [held EXCEPT ![g] = None], [frozen EXCEPT ![g] = Selection(h, first, upto)], published)
  /\ given' = [given EXCEPT ![g] = {r \in Known(h) : first <= r /\ r < upto}]

(* A write to the inputs drops every anchor of the column.                 *)
Forget(h) ==
  /\ Becomes(bank, store, [held EXCEPT ![h] = None], [frozen EXCEPT ![h] = None], published)
  /\ given' = [given EXCEPT ![h] = {}]

Init ==
  /\ bank = [b \in Banks |-> <<>>]
  /\ store = [h \in Handles |-> EmptyStore]
  /\ held = [h \in Handles |-> None]
  /\ frozen = [h \in Handles |-> None]
  /\ published = [h \in Handles |-> {}]
  /\ given = [h \in Handles |-> {}]

HasMemory(n) == Cardinality(Unused) >= n
Next ==
  \/ \E h \in Handles, row \in Rows : HasMemory(1) /\ Keep(h, row)
  \/ \E h \in Handles : \E rows \in SUBSET Rows : HasMemory(Cardinality(rows)) /\ Cardinality(rows) > 1 /\ KeepAll(h, rows)
  \/ \E g \in Copies : Clone(1, g)
  \/ \E h \in Handles, g \in Copies, first, upto \in 0..(MaxRow + 1) : first < upto /\ Derive(h, g, first, upto)
  \/ \E h \in Handles : Forget(h)

Spec == Init /\ [][Next]_vars

-----------------------------------------------------------------------------
(* The rows of an index, in order, read chunk by chunk.                    *)
Listed(s) ==
  [k \in 1..s.len |-> LET i == CHOOSE j \in DOMAIN s.chunks : Base(s.chunks, j) < k /\ k <= s.chunks[j].end
                      IN  bank[s.chunks[i].bank][s.chunks[i].start + k - Base(s.chunks, i)]]

Indexes == {store[o] : o \in Handles} \cup {frozen[h] : h \in {g \in Handles : frozen[g] # None}}

(* Banks are bounded in points and, but for a single wide state, in words, *)
(* and every index ends where its chunks do.                               *)
TypeOK ==
  /\ \A b \in Banks : Len(bank[b]) <= ChunkPoints /\ (Len(bank[b]) > 1 => Weight(bank[b]) <= ChunkWords)
  /\ \A h \in Handles : held[h] \in Handles \cup {None}
  /\ \A s \in Indexes :
       /\ s.chunks # <<>> => s.len = Last(s.chunks).end
       /\ \A i \in DOMAIN s.chunks :
            LET c == s.chunks[i]
            IN  Base(s.chunks, i) < c.end /\ c.start + c.end - Base(s.chunks, i) <= Len(bank[c.bank])

(* The chunks list these rows, and the arithmetic of a regular grid and of *)
(* uniform chunks finds each where they have it (AnchorIndex::locate).     *)
Lists(s, listed) ==
  /\ Listed(s) = listed
  /\ \A slot \in Slots(s) : {PointAt(bank, s, slot), Position(bank, s, slot)} = {listed[slot + 1]}

(* A store holds exactly the rows published to it and a snapshot exactly   *)
(* the rows it was cut from, in order, each once: nothing a copy publishes *)
(* shows in another's snapshot and no publication is lost, although they   *)
(* share banks (history.rs, Anchors).                                      *)
RowsExact ==
  /\ \A h \in Handles : held[h] # None => Lists(store[held[h]], Sorted(published[held[h]]))
  /\ \A h \in Handles : Lists(FrozenOf(h), Sorted(given[h]))

(* A replay to a row starts at the latest anchor at or before it, of those *)
(* a handle was cut with and those published to it, none of them twice.    *)
NearestExact ==
  \A h \in Handles :
    /\ \A at \in Rows :
         LET upto == {r \in Known(h) : r <= at}
             p == Nearest(h, at)
         IN  IF upto = {} THEN p = None ELSE p # None /\ bank[p.bank][p.slot + 1] = Max(upto)
    /\ held[h] # None => given[h] \cap published[held[h]] = {}
=============================================================================
