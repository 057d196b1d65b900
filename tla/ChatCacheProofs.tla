-------------------------- MODULE ChatCacheProofs ---------------------------
(***************************************************************************)
(* The chat queue of src/core/cache/chat_cache.go, for any chats, tracks   *)
(* and bounds: the slices' machinery keeps a track in every cell of the    *)
(* window and nil outside it, copies and loses none, and is, method by     *)
(* method, the queue of ChatQueue.                                         *)
(*                                                                         *)
(* All methods but AddSongs and SetLoopCount rearrange: position k of the  *)
(* new window shows what position m[k] of the old one showed, for an       *)
(* injective m that brings no head into what is up next.  The invariant    *)
(* is preserved by any such step; each method supplies its m.              *)
(***************************************************************************)
EXTENDS ChatCache, ListProofs

Cells == Track \cup {Nil}

Fits(s) == /\ s \in Slice
           /\ s.off + s.len <= Len(s.cells)
           /\ Len(s.cells) <= MaxCap

Tight(s) == \A i \in DOMAIN s.cells : (s.cells[i] # Nil) <=> InWindow(s, i)

\* One half of Tight: nothing is left behind outside the window.
Clean(s) == \A i \in DOMAIN s.cells : s.cells[i] # Nil => InWindow(s, i)

Distinct(s) == \A i, j \in DOMAIN s.cells :
    s.cells[i] # Nil /\ s.cells[i] = s.cells[j] => i = j

Sound(s) == Fits(s) /\ Tight(s) /\ Distinct(s)

Rearranges(r, s, m) ==
    /\ Fits(r) /\ Clean(r)
    /\ m \in [1 .. r.len -> 1 .. s.len] /\ IsInjective(m)
    /\ \A k \in 1 .. r.len : View(r)[k] = View(s)[m[k]] /\ (m[k] = 1 => k = 1)

IInv == TypeOK /\ WindowHoldsTheTracks /\ NoTrackTwice /\ OnlyTheHeadRepeats

-----------------------------------------------------------------------------
(* Slices.                                                                 *)

LEMMA SliceFacts ==
  ASSUME NEW s, Fits(s)
  PROVE  /\ s.cells \in Seq(Cells) /\ Len(s.cells) \in Nat /\ s.off \in Nat /\ s.len \in Nat
         /\ DOMAIN s.cells = 1 .. Len(s.cells)
         /\ \A i \in 1 .. Len(s.cells) : s.cells[i] \in Cells
         /\ DOMAIN View(s) = 1 .. s.len
         /\ View(s) \in [1 .. s.len -> Cells] /\ View(s) \in Seq(Cells) /\ Len(View(s)) = s.len
         /\ \A k \in 1 .. s.len :
                s.off + k \in 1 .. Len(s.cells) /\ View(s)[k] = s.cells[s.off + k]
<1>1. /\ s.cells \in Seq(Cells) /\ Len(s.cells) \in Nat /\ s.off \in Nat /\ s.len \in Nat
      /\ DOMAIN s.cells = 1 .. Len(s.cells)
      /\ \A i \in 1 .. Len(s.cells) : s.cells[i] \in Cells
      /\ s.off + s.len <= Len(s.cells)
  BY DEF Fits, Slice, Cells
<1>2. \A k \in 1 .. s.len : s.off + k \in 1 .. Len(s.cells)
  BY <1>1
<1>3. View(s) \in [1 .. s.len -> Cells]
  BY <1>1, <1>2 DEF View
<1>4. View(s) \in Seq(Cells) /\ Len(View(s)) = s.len
  BY <1>1, <1>3
<1> QED
  BY <1>1, <1>2, <1>3, <1>4 DEF View

\* In a sound slice the window shows tracks, each at one place.
LEMMA ViewOfSound ==
  ASSUME NEW s, Sound(s)
  PROVE  /\ \A k \in 1 .. s.len : View(s)[k] \in Track
         /\ \A k, l \in 1 .. s.len : View(s)[k] = View(s)[l] => k = l
         /\ \A i \in DOMAIN s.cells : s.cells[i] # Nil =>
                i - s.off \in 1 .. s.len /\ s.cells[i] = View(s)[i - s.off]
<1>1. /\ s.off \in Nat /\ s.len \in Nat /\ Len(s.cells) \in Nat
      /\ DOMAIN s.cells = 1 .. Len(s.cells)
      /\ \A i \in 1 .. Len(s.cells) : s.cells[i] \in Cells
      /\ \A k \in 1 .. s.len :
             s.off + k \in 1 .. Len(s.cells) /\ View(s)[k] = s.cells[s.off + k]
  BY SliceFacts DEF Sound
<1>2. \A k \in 1 .. s.len : s.cells[s.off + k] # Nil
  BY <1>1 DEF Sound, Tight, InWindow
<1>3. \A k, l \in 1 .. s.len : View(s)[k] = View(s)[l] => k = l
  <2> SUFFICES ASSUME NEW k \in 1 .. s.len, NEW l \in 1 .. s.len, View(s)[k] = View(s)[l]
               PROVE  k = l
    OBVIOUS
  <2>1. s.off + k = s.off + l
    BY <1>1, <1>2 DEF Sound, Distinct
  <2> QED
    BY <1>1, <2>1
<1>4. \A i \in DOMAIN s.cells : s.cells[i] # Nil =>
          i - s.off \in 1 .. s.len /\ s.cells[i] = View(s)[i - s.off]
  <2> SUFFICES ASSUME NEW i \in 1 .. Len(s.cells), s.cells[i] # Nil
               PROVE  i - s.off \in 1 .. s.len /\ s.cells[i] = View(s)[i - s.off]
    BY <1>1
  <2>1. InWindow(s, i)
    BY <1>1 DEF Sound, Tight
  <2>2. i - s.off \in 1 .. s.len /\ s.off + (i - s.off) = i
    BY <1>1, <2>1 DEF InWindow
  <2> QED
    BY <1>1, <2>2
<1> QED
  BY <1>1, <1>2, <1>3, <1>4 DEF Cells

LEMMA EmptyIsSound == Sound(EmptySlice) /\ EmptySlice.len = 0 /\ EmptySlice.off = 0
                      /\ EmptySlice.cells = <<>>
<1>1. <<>> \in Seq(Track \cup {Nil}) /\ Len(<<>>) = 0 /\ DOMAIN <<>> = {}
  OBVIOUS
<1> QED
  BY <1>1, BoundsAreNaturals DEF EmptySlice, Sound, Fits, Tight, Distinct, Slice

LEMMA EntryFacts ==
  ASSUME IInv, NEW c \in Chats
  PROVE  /\ Sound(Entry(c))
         /\ chatCache[c] # Absent => Entry(c) = chatCache[c]
         /\ chatCache[c] = Absent => Entry(c) = EmptySlice
<1>1. CASE chatCache[c] = Absent
  BY <1>1, EmptyIsSound DEF Entry
<1>2. CASE chatCache[c] # Absent
  <2>1. Fits(chatCache[c])
    BY <1>2 DEF IInv, TypeOK, Fits
  <2>2. Tight(chatCache[c])
    BY <1>2 DEF IInv, WindowHoldsTheTracks, Tight
  <2>3. Distinct(chatCache[c])
    BY <1>2 DEF IInv, NoTrackTwice, Distinct
  <2> QED
    BY <1>2, <2>1, <2>2, <2>3 DEF Entry, Sound
<1> QED
  BY <1>1, <1>2

\* Overwriting n cells, at a place inside the window.
Overwritten(r, s, at, n, f) ==
    /\ Fits(r) /\ r.off = s.off /\ r.len = s.len
    /\ Len(r.cells) = Len(s.cells) /\ DOMAIN r.cells = 1 .. Len(s.cells)
    /\ \A i \in 1 .. Len(s.cells) : r.cells[i] =
           IF i - s.off - at \in 1 .. n THEN f[i - s.off - at] ELSE s.cells[i]

LEMMA OverwriteFacts ==
  ASSUME NEW s, Fits(s), NEW at \in Nat, NEW n \in Nat, NEW f \in [1 .. n -> Cells]
  PROVE  Overwritten(Overwrite(s, at, f), s, at, n, f)
<1> DEFINE r == Overwrite(s, at, f)
<1>1. /\ s.cells \in Seq(Cells) /\ Len(s.cells) \in Nat /\ s.off \in Nat /\ s.len \in Nat
      /\ DOMAIN s.cells = 1 .. Len(s.cells)
      /\ \A i \in 1 .. Len(s.cells) : s.cells[i] \in Cells
  BY SliceFacts
<1>2. s \in [cells : Seq(Track \cup {Nil}), off : Nat, len : Nat] /\ DOMAIN f = 1 .. n
  BY DEF Fits, Slice
<1> DEFINE g == [i \in DOMAIN s.cells |->
                    IF i - s.off - at \in DOMAIN f THEN f[i - s.off - at] ELSE s.cells[i]]
<1>3. r = [s EXCEPT !.cells = g]
  BY DEF Overwrite
<1>4. g = [i \in 1 .. Len(s.cells) |->
             IF i - s.off - at \in 1 .. n THEN f[i - s.off - at] ELSE s.cells[i]]
  BY <1>1, <1>2
<1> HIDE DEF r, g
<1>5. r.cells = g /\ r.off = s.off /\ r.len = s.len
       /\ r = [cells |-> g, off |-> s.off, len |-> s.len]
  BY <1>2, <1>3
<1>6. /\ r.cells = [i \in 1 .. Len(s.cells) |->
             IF i - s.off - at \in 1 .. n THEN f[i - s.off - at] ELSE s.cells[i]]
      /\ r.off = s.off /\ r.len = s.len
      /\ r = [cells |-> r.cells, off |-> s.off, len |-> s.len]
  BY <1>4, <1>5
<1>7. r.cells \in [1 .. Len(s.cells) -> Cells]
  BY <1>1, <1>6
<1>8. r.cells \in Seq(Cells) /\ Len(r.cells) = Len(s.cells)
  BY <1>1, <1>7
<1>9. r \in Slice
  BY <1>1, <1>6, <1>8 DEF Slice, Cells
<1>10. Fits(r)
  BY <1>6, <1>8, <1>9 DEF Fits
<1> QED
  BY <1>6, <1>7, <1>8, <1>10 DEF r, Overwritten

\* The same, seen through the window: n cells written from position at on.
MayOverwrite(s, at, n, f) ==
    /\ Fits(s) /\ Clean(s)
    /\ at \in Nat /\ n \in Nat /\ f \in [1 .. n -> Cells] /\ at + n <= s.len
Overlaid(r, s, at, n, f) ==
    /\ Fits(r) /\ Clean(r) /\ r.off = s.off /\ r.len = s.len
    /\ \A k \in 1 .. s.len : View(r)[k] = IF k - at \in 1 .. n THEN f[k - at] ELSE View(s)[k]

LEMMA OverwriteView ==
  ASSUME NEW s, NEW at, NEW n, NEW f, MayOverwrite(s, at, n, f)
  PROVE  Overlaid(Overwrite(s, at, f), s, at, n, f)
<1> DEFINE r == Overwrite(s, at, f)
<1> SUFFICES ASSUME Fits(s), Clean(s), at \in Nat, n \in Nat, f \in [1 .. n -> Cells],
                    at + n <= s.len
             PROVE  Overlaid(r, s, at, n, f)
  BY DEF MayOverwrite
<1>1. /\ Fits(r) /\ r.off = s.off /\ r.len = s.len
      /\ Len(r.cells) = Len(s.cells) /\ DOMAIN r.cells = 1 .. Len(s.cells)
      /\ \A i \in 1 .. Len(s.cells) : r.cells[i] =
             IF i - s.off - at \in 1 .. n THEN f[i - s.off - at] ELSE s.cells[i]
  BY OverwriteFacts DEF Overwritten
<1> HIDE DEF r
<1>2. /\ s.off \in Nat /\ s.len \in Nat /\ Len(s.cells) \in Nat
      /\ DOMAIN s.cells = 1 .. Len(s.cells)
      /\ \A k \in 1 .. s.len :
             s.off + k \in 1 .. Len(s.cells) /\ View(s)[k] = s.cells[s.off + k]
  BY SliceFacts
<1>3. \A k \in 1 .. s.len : View(r)[k] = r.cells[s.off + k]
  <2>1. \A k \in 1 .. r.len : View(r)[k] = r.cells[r.off + k]
    BY <1>1, SliceFacts
  <2> QED
    BY <1>1, <2>1
<1>4. Clean(r)
  <2> SUFFICES ASSUME NEW i \in 1 .. Len(s.cells), r.cells[i] # Nil
               PROVE  s.off < i /\ i <= s.off + s.len
    BY <1>1, SMTT(30) DEF Clean, InWindow
  <2>1. CASE i - s.off - at \in 1 .. n
    BY <1>2, <2>1, SMTT(30)
  <2>2. CASE i - s.off - at \notin 1 .. n
    BY <1>1, <1>2, <2>2 DEF Clean, InWindow
  <2> QED
    BY <2>1, <2>2
<1>5. ASSUME NEW k \in 1 .. s.len
      PROVE  View(r)[k] = IF k - at \in 1 .. n THEN f[k - at] ELSE View(s)[k]
  <2>1. s.off + k \in 1 .. Len(s.cells) /\ (s.off + k) - s.off - at = k - at
    BY <1>2
  <2>2. r.cells[s.off + k] = IF k - at \in 1 .. n THEN f[k - at] ELSE s.cells[s.off + k]
    BY <1>1, <2>1
  <2> QED
    BY <1>2, <1>3, <2>2
<1> QED
  BY <1>1, <1>4, <1>5 DEF r, Overlaid

-----------------------------------------------------------------------------
(* The methods, slice by slice.                                            *)

LEMMA SoundIsClean == ASSUME NEW s, Sound(s) PROVE Fits(s) /\ Clean(s)
BY DEF Sound, Tight, Clean

\* Copying q[from:to] to dst stays inside the window, and does this to it.
MayCopy(s, dst, from, to) ==
    /\ Fits(s) /\ Clean(s)
    /\ dst \in Nat /\ from \in Nat /\ to \in Nat
    /\ from <= to /\ to <= s.len /\ dst + (to - from) <= s.len
Copied(r, s, dst, from, to) ==
    /\ Fits(r) /\ Clean(r) /\ r.off = s.off /\ r.len = s.len
    /\ \A k \in 1 .. s.len : View(r)[k] =
           IF k - dst \in 1 .. (to - from) THEN View(s)[(k - dst) + from] ELSE View(s)[k]

LEMMA CopyView ==
  ASSUME NEW s, NEW dst, NEW from, NEW to, MayCopy(s, dst, from, to)
  PROVE  Copied(CopyWithin(s, dst, from, to), s, dst, from, to)
<1> USE DEF MayCopy
<1> DEFINE n == to - from
           f == [k \in 1 .. n |-> s.cells[s.off + from + k]]
           r == Overwrite(s, dst, f)
<1>1. /\ s.off \in Nat /\ s.len \in Nat
      /\ View(s) \in [1 .. s.len -> Cells]
      /\ \A k \in 1 .. s.len : View(s)[k] = s.cells[s.off + k]
  BY SliceFacts DEF MayCopy
<1>2. n \in Nat /\ \A k \in 1 .. n : k + from \in 1 .. s.len /\ s.off + from + k = s.off + (k + from)
  BY <1>1
<1>3. \A k \in 1 .. n : f[k] = View(s)[k + from]
  BY <1>1, <1>2
<1>4. f \in [1 .. n -> Cells]
  BY <1>1, <1>2, <1>3
<1> HIDE DEF f, n
<1>5. dst + n <= s.len
  BY DEF n
<1>6. /\ Fits(r) /\ Clean(r) /\ r.off = s.off /\ r.len = s.len
      /\ \A k \in 1 .. s.len : View(r)[k] =
             IF k - dst \in 1 .. n THEN f[k - dst] ELSE View(s)[k]
  <2>1. MayOverwrite(s, dst, n, f)
    BY <1>2, <1>4, <1>5 DEF MayOverwrite
  <2>2. Overlaid(r, s, dst, n, f)
    BY <2>1, OverwriteView
  <2> QED
    BY <2>2 DEF Overlaid
<1> HIDE DEF r
<1>7. \A k \in 1 .. s.len : View(r)[k] =
          IF k - dst \in 1 .. n THEN View(s)[(k - dst) + from] ELSE View(s)[k]
  BY <1>3, <1>6
<1> QED
  BY <1>6, <1>7 DEF r, f, n, CopyWithin, Copied

LEMMA SetView ==
  ASSUME NEW s, Fits(s), Clean(s), NEW at \in Nat, at < s.len, NEW t \in Cells
  PROVE  LET r == SetCell(s, at, t)
         IN /\ Fits(r) /\ Clean(r) /\ r.off = s.off /\ r.len = s.len
            /\ \A k \in 1 .. s.len : View(r)[k] = IF k = at + 1 THEN t ELSE View(s)[k]
<1> DEFINE f == <<t>>
           r == Overwrite(s, at, f)
<1>1. f \in [1 .. 1 -> Cells] /\ 1 \in Nat /\ f[1] = t
  OBVIOUS
<1>2. s.len \in Nat /\ at + 1 <= s.len
  BY SliceFacts
<1> HIDE DEF f
<1>3. /\ Fits(r) /\ Clean(r) /\ r.off = s.off /\ r.len = s.len
      /\ \A k \in 1 .. s.len : View(r)[k] =
             IF k - at \in 1 .. 1 THEN f[k - at] ELSE View(s)[k]
  <2> PICK n : n = 1
    OBVIOUS
  <2>1. MayOverwrite(s, at, n, f)
    BY <1>1, <1>2 DEF MayOverwrite
  <2>2. Overlaid(r, s, at, n, f)
    BY <2>1, OverwriteView
  <2> HIDE DEF r
  <2> QED
    BY <2>2 DEF Overlaid
<1> HIDE DEF r
<1>4. \A k \in 1 .. s.len : (k - at \in 1 .. 1) <=> (k = at + 1)
  BY <1>2
<1>5. \A k \in 1 .. s.len : k = at + 1 => k - at = 1
  BY <1>2
<1>6. \A k \in 1 .. s.len : View(r)[k] = IF k = at + 1 THEN t ELSE View(s)[k]
  BY <1>1, <1>3, <1>4, <1>5
<1> QED
  BY <1>3, <1>6 DEF r, f, SetCell

\* A window narrowed by one cell that holds nil, at its end or at its start.
LEMMA NarrowView ==
  ASSUME NEW s, Fits(s), Clean(s), s.len > 0
  PROVE  /\ View(s)[s.len] = Nil =>
                LET r == [s EXCEPT !.len = @ - 1]
                IN /\ Fits(r) /\ Clean(r) /\ r.len = s.len - 1
                   /\ \A k \in 1 .. r.len : View(r)[k] = View(s)[k]
         /\ View(s)[1] = Nil =>
                LET r == [s EXCEPT !.off = @ + 1, !.len = @ - 1]
                IN /\ Fits(r) /\ Clean(r) /\ r.len = s.len - 1
                   /\ \A k \in 1 .. r.len : View(r)[k] = View(s)[k + 1]
<1>1. /\ s.off \in Nat /\ s.len \in Nat /\ Len(s.cells) \in Nat
      /\ DOMAIN s.cells = 1 .. Len(s.cells)
      /\ \A k \in 1 .. s.len :
             s.off + k \in 1 .. Len(s.cells) /\ View(s)[k] = s.cells[s.off + k]
  BY SliceFacts
<1>2. s \in [cells : Seq(Track \cup {Nil}), off : Nat, len : Nat]
      /\ s.off + s.len <= Len(s.cells) /\ Len(s.cells) <= MaxCap
  BY DEF Fits, Slice
<1>3. ASSUME View(s)[s.len] = Nil
      PROVE  LET r == [s EXCEPT !.len = @ - 1]
             IN /\ Fits(r) /\ Clean(r) /\ r.len = s.len - 1
                /\ \A k \in 1 .. r.len : View(r)[k] = View(s)[k]
  <2> DEFINE r == [s EXCEPT !.len = @ - 1]
  <2>1. r \in Slice /\ r.cells = s.cells /\ r.off = s.off /\ r.len = s.len - 1
    BY <1>1, <1>2 DEF Slice
  <2> HIDE DEF r
  <2>2. Fits(r)
    BY <1>1, <1>2, <2>1 DEF Fits
  <2>3. s.cells[s.off + s.len] = Nil
    <3>1. s.len \in 1 .. s.len
      BY <1>1
    <3> QED
      BY <1>1, <1>3, <3>1, Zenon
  <2>4. Clean(r)
    <3> SUFFICES ASSUME NEW i \in DOMAIN s.cells, s.cells[i] # Nil
                 PROVE  InWindow(r, i)
      BY <2>1 DEF Clean
    <3>1. InWindow(s, i) /\ i # s.off + s.len /\ i \in Nat
      BY <1>1, <2>3 DEF Clean
    <3> QED
      BY <1>1, <2>1, <3>1 DEF InWindow
  <2>5. \A k \in 1 .. r.len : View(r)[k] = r.cells[r.off + k]
    BY <2>2, SliceFacts
  <2>6. \A k \in 1 .. r.len : View(r)[k] = View(s)[k]
    BY <1>1, <2>1, <2>5
  <2> QED
    BY <2>1, <2>2, <2>4, <2>6 DEF r
<1>4. ASSUME View(s)[1] = Nil
      PROVE  LET r == [s EXCEPT !.off = @ + 1, !.len = @ - 1]
             IN /\ Fits(r) /\ Clean(r) /\ r.len = s.len - 1
                /\ \A k \in 1 .. r.len : View(r)[k] = View(s)[k + 1]
  <2> DEFINE r == [s EXCEPT !.off = @ + 1, !.len = @ - 1]
  <2>0. r = [cells |-> s.cells, off |-> s.off + 1, len |-> s.len - 1]
    <3>1. s = [cells |-> s.cells, off |-> s.off, len |-> s.len]
      BY <1>2
    <3> DEFINE x == [s EXCEPT !.off = @ + 1]
    <3>2. x = [cells |-> s.cells, off |-> s.off + 1, len |-> s.len]
      BY <3>1
    <3>3. r = [x EXCEPT !.len = @ - 1]
      OBVIOUS
    <3> HIDE DEF x
    <3> QED
      BY <3>2, <3>3
  <2>1. r \in Slice /\ r.cells = s.cells /\ r.off = s.off + 1 /\ r.len = s.len - 1
    <3>1. s.len - 1 \in Nat /\ s.off + 1 \in Nat /\ s.cells \in Seq(Track \cup {Nil})
      BY <1>1, <1>2
    <3> QED
      BY <2>0, <3>1 DEF Slice
  <2> HIDE DEF r
  <2>2. Fits(r)
    BY <1>1, <1>2, <2>1 DEF Fits
  <2>3. s.cells[s.off + 1] = Nil
    BY <1>1, <1>4
  <2>4. Clean(r)
    <3> SUFFICES ASSUME NEW i \in 1 .. Len(s.cells), s.cells[i] # Nil
                 PROVE  s.off + 1 < i /\ i <= (s.off + 1) + (s.len - 1)
      BY <1>1, <2>1 DEF Clean, InWindow
    <3>1. s.off \in Nat /\ s.len \in Nat /\ i \in Int
      BY <1>1
    <3>2. s.off < i /\ i <= s.off + s.len /\ i # s.off + 1
      BY <1>1, <2>3 DEF Clean, InWindow
    <3> QED
      BY <3>1, <3>2
  <2>5. \A k \in 1 .. r.len : View(r)[k] = r.cells[r.off + k]
    BY <2>2, SliceFacts
  <2>6. \A k \in 1 .. (s.len - 1) : k + 1 \in 1 .. s.len /\ (s.off + 1) + k = s.off + (k + 1)
    <3>1. s.off \in Nat /\ s.len \in Nat
      BY <1>1
    <3> QED
      BY <3>1
  <2>7. \A k \in 1 .. r.len : View(r)[k] = View(s)[k + 1]
    BY <1>1, <2>1, <2>5, <2>6, SMTT(30)
  <2> QED
    BY <2>1, <2>2, <2>4, <2>7 DEF r
<1> QED
  BY <1>3, <1>4

\* A new array that holds exactly the window.
LEMMA NewArrayView ==
  ASSUME NEW n \in Nat, n <= MaxCap, NEW f \in [1 .. n -> Cells]
  PROVE  LET r == [cells |-> f, off |-> 0, len |-> n]
         IN Fits(r) /\ Clean(r) /\ \A k \in 1 .. n : View(r)[k] = f[k]
<1> DEFINE r == [cells |-> f, off |-> 0, len |-> n]
<1>1. f \in Seq(Cells) /\ Len(f) = n /\ DOMAIN f = 1 .. n
  OBVIOUS
<1>2. Fits(r) /\ r.len = n /\ r.cells = f /\ r.off = 0
  BY <1>1 DEF Fits, Slice, Cells
<1> HIDE DEF r
<1>3. Clean(r)
  BY <1>1, <1>2 DEF Clean, InWindow
<1>4. \A k \in 1 .. n : View(r)[k] = f[0 + k]
  BY <1>2, SliceFacts
<1> QED
  BY <1>2, <1>3, <1>4 DEF r

-----------------------------------------------------------------------------
(* Each method rearranges.                                                 *)

\* What the maps of the methods have in common.
Places(m, k, n) ==
    /\ m \in [1 .. k -> 1 .. n] /\ IsInjective(m)
    /\ \A i \in 1 .. k : m[i] = 1 => i = 1

LEMMA RemovalPlaces ==
  ASSUME NEW n \in Nat, NEW i \in Nat, i < n
  PROVE  Places(AfterRemoval(n, i), n - 1, n)
<1> DEFINE m == AfterRemoval(n, i)
<1>1. m = [k \in 1 .. (n - 1) |-> IF k <= i THEN k ELSE k + 1]
  BY DEF AfterRemoval
<1>2. DOMAIN m = 1 .. (n - 1) /\ \A k \in 1 .. (n - 1) : m[k] = IF k <= i THEN k ELSE k + 1
  BY <1>1
<1> HIDE DEF m
<1>3. m \in [1 .. (n - 1) -> 1 .. n]
  BY <1>1
<1>4. \A k, l \in 1 .. (n - 1) : m[k] = m[l] => k = l
  BY <1>2
<1>5. \A k \in 1 .. (n - 1) : m[k] = 1 => k = 1
  BY <1>2
<1> QED
  BY <1>2, <1>3, <1>4, <1>5 DEF Places, IsInjective, m

LEMMA TrimPlaces ==
  ASSUME NEW n \in Nat, NEW pos \in Nat, pos > 1, pos < n
  PROVE  Places(AfterTrim(n, pos), n - pos + 1, n)
<1> DEFINE m == AfterTrim(n, pos)
           w == n - pos + 1
<1>1. m = [k \in 1 .. w |-> IF k = 1 THEN 1 ELSE pos + k - 1]
  BY DEF AfterTrim
<1>2. DOMAIN m = 1 .. w /\ \A k \in 1 .. w : m[k] = IF k = 1 THEN 1 ELSE pos + k - 1
  BY <1>1
<1> HIDE DEF m
<1>3. m \in [1 .. w -> 1 .. n]
  BY <1>1
<1>4. \A k, l \in 1 .. w : m[k] = m[l] => k = l
  BY <1>2
<1>5. \A k \in 1 .. w : m[k] = 1 => k = 1
  BY <1>2
<1> QED
  BY <1>2, <1>3, <1>4, <1>5 DEF Places, IsInjective, m

LEMMA ReversePlaces ==
  ASSUME NEW n \in Nat
  PROVE  Places(AfterReverse(n), n, n)
<1> DEFINE m == AfterReverse(n)
<1>1. m = [k \in 1 .. n |-> IF k = 1 THEN 1 ELSE n + 2 - k]
  BY DEF AfterReverse
<1>2. DOMAIN m = 1 .. n /\ \A k \in 1 .. n : m[k] = IF k = 1 THEN 1 ELSE n + 2 - k
  BY <1>1
<1> HIDE DEF m
<1>3. m \in [1 .. n -> 1 .. n]
  BY <1>1
<1>4. \A k, l \in 1 .. n : m[k] = m[l] => k = l
  BY <1>2
<1>5. \A k \in 1 .. n : m[k] = 1 => k = 1
  BY <1>2
<1> QED
  BY <1>2, <1>3, <1>4, <1>5 DEF Places, IsInjective, m

LEMMA MovePlaces ==
  ASSUME NEW n \in Nat, NEW from \in Nat, NEW to \in Nat,
         from # to, from > 0, to > 0, from < n, to < n
  PROVE  Places(AfterMove(n, from, to), n, n)
<1> DEFINE m == AfterMove(n, from, to)
<1>1. m = [k \in 1 .. n |->
              IF k = to + 1 THEN from + 1
              ELSE IF from < to /\ k \in (from + 1) .. to THEN k + 1
              ELSE IF to < from /\ k \in (to + 2) .. (from + 1) THEN k - 1
              ELSE k]
  BY DEF AfterMove
<1>2. DOMAIN m = 1 .. n /\ \A k \in 1 .. n : m[k] =
          IF k = to + 1 THEN from + 1
          ELSE IF from < to /\ k \in (from + 1) .. to THEN k + 1
          ELSE IF to < from /\ k \in (to + 2) .. (from + 1) THEN k - 1
          ELSE k
  BY <1>1
<1> HIDE DEF m
<1>3. m \in [1 .. n -> 1 .. n]
  BY <1>1
<1>4. ASSUME NEW k \in 1 .. n, NEW l \in 1 .. n, m[k] = m[l]
      PROVE  k = l
  <2>1. CASE from < to
    BY <1>2, <1>4, <2>1
  <2>2. CASE to < from
    BY <1>2, <1>4, <2>2
  <2> QED
    BY <2>1, <2>2
<1>5. \A k \in 1 .. n : m[k] = 1 => k = 1
  BY <1>2
<1> QED
  BY <1>2, <1>3, <1>4, <1>5 DEF Places, IsInjective, m

LEMMA ShufflePlaces ==
  ASSUME NEW n \in Nat, n > 2, NEW p \in Injection(2 .. n, 2 .. n)
  PROVE  Places(AfterShuffle(n, p), n, n)
<1> DEFINE m == AfterShuffle(n, p)
<1>1. m = [k \in 1 .. n |-> IF k = 1 THEN 1 ELSE p[k]]
  BY DEF AfterShuffle
<1>2. DOMAIN m = 1 .. n /\ \A k \in 1 .. n : m[k] = IF k = 1 THEN 1 ELSE p[k]
  BY <1>1
<1> HIDE DEF m
<1>3. /\ p \in [2 .. n -> 2 .. n]
      /\ \A i, j \in 2 .. n : p[i] = p[j] => i = j
  BY DEF Injection, IsInjective
<1>4. \A k \in 1 .. n : k # 1 => k \in 2 .. n /\ p[k] \in 2 .. n
  BY <1>3
<1>5. m \in [1 .. n -> 1 .. n]
  BY <1>1, <1>4
<1>6. \A k, l \in 1 .. n : m[k] = m[l] => k = l
  BY <1>2, <1>3, <1>4, SMTT(30)
<1>7. \A k \in 1 .. n : m[k] = 1 => k = 1
  BY <1>2, <1>4
<1> QED
  BY <1>2, <1>5, <1>6, <1>7 DEF Places, IsInjective, m

LEMMA PlacesRearrange ==
  ASSUME NEW s, NEW r, NEW m, Fits(r), Clean(r), Places(m, r.len, s.len),
         \A k \in 1 .. r.len : View(r)[k] = View(s)[m[k]]
  PROVE  Rearranges(r, s, m)
BY DEF Places, Rearranges

LEMMA StoredSlice ==
  ASSUME IInv, NEW c \in Chats, chatCache[c] # Absent
  PROVE  /\ Sound(chatCache[c]) /\ Fits(chatCache[c]) /\ Clean(chatCache[c])
         /\ chatCache[c].len \in Nat /\ chatCache[c].len <= MaxCap
<1>1. Sound(chatCache[c]) /\ Fits(chatCache[c]) /\ Clean(chatCache[c])
  BY EntryFacts, SoundIsClean DEF Sound
<1> QED
  BY <1>1, SliceFacts, BoundsAreNaturals DEF Fits

LEMMA RemoveCurrentRearranges ==
  ASSUME IInv, NEW c \in Chats, RemoveCurrentSong(c)
  PROVE  /\ chatCache[c] # Absent /\ chatCache[c].len > 0
         /\ \E r : /\ Store(c, r)
                   /\ Rearranges(r, chatCache[c], AfterRemoval(chatCache[c].len, 0))
<1> DEFINE q == chatCache[c]
           s == SetCell(q, 0, Nil)
           r == [s EXCEPT !.off = @ + 1, !.len = @ - 1]
           m == AfterRemoval(q.len, 0)
<1>1. q # Absent /\ q.len > 0 /\ Store(c, r)
  BY DEF RemoveCurrentSong, HasTracks
<1>2. Fits(q) /\ Clean(q) /\ q.len \in Nat
  BY <1>1, StoredSlice
<1>3. Nil \in Cells
  BY DEF Cells
<1>4. /\ Fits(s) /\ Clean(s) /\ s.len = q.len
      /\ \A k \in 1 .. q.len : View(s)[k] = IF k = 0 + 1 THEN Nil ELSE View(q)[k]
  BY <1>1, <1>2, <1>3, SetView
<1> HIDE DEF s, q
<1>5. View(s)[1] = Nil
  BY <1>1, <1>2, <1>4
<1>6. /\ Fits(r) /\ Clean(r) /\ r.len = s.len - 1
      /\ \A k \in 1 .. r.len : View(r)[k] = View(s)[k + 1]
  BY <1>1, <1>4, <1>5, NarrowView
<1>7. \A k \in 1 .. (q.len - 1) : m[k] = k + 1
  BY <1>2 DEF AfterRemoval
<1>8. Places(m, q.len - 1, q.len)
  BY <1>1, <1>2, RemovalPlaces
<1> HIDE DEF r, m
<1>9. \A k \in 1 .. r.len : View(r)[k] = View(q)[m[k]]
  BY <1>2, <1>4, <1>6, <1>7
<1>10. Rearranges(r, q, m)
  BY <1>4, <1>6, <1>8, <1>9, PlacesRearrange
<1> QED
  BY <1>1, <1>10 DEF q, m

LEMMA RemoveTrackRearranges ==
  ASSUME IInv, NEW c \in Chats, NEW i \in Nat, RemoveTrack(c, i)
  PROVE  /\ chatCache[c] # Absent /\ i < chatCache[c].len
         /\ \E r : /\ Store(c, r)
                   /\ Rearranges(r, chatCache[c], AfterRemoval(chatCache[c].len, i))
<1> DEFINE q == chatCache[c]
           a == CopyWithin(q, i, i + 1, q.len)
           s == SetCell(a, q.len - 1, Nil)
           r == [s EXCEPT !.len = @ - 1]
           m == AfterRemoval(q.len, i)
<1>1. q # Absent /\ i < q.len /\ Store(c, r)
  BY DEF RemoveTrack
<1>2. Fits(q) /\ Clean(q) /\ q.len \in Nat
  BY <1>1, StoredSlice
<1>3. Nil \in Cells /\ q.len - 1 \in Nat /\ q.len - 1 < q.len
      /\ i + 1 \in Nat /\ i + 1 <= q.len /\ q.len <= q.len /\ i + (q.len - (i + 1)) <= q.len
  BY <1>1, <1>2 DEF Cells
<1> HIDE DEF q
<1>4. /\ Fits(a) /\ Clean(a) /\ a.len = q.len
      /\ \A k \in 1 .. q.len : View(a)[k] =
             IF k - i \in 1 .. (q.len - (i + 1)) THEN View(q)[(k - i) + (i + 1)] ELSE View(q)[k]
  <2>1. MayCopy(q, i, i + 1, q.len)
    BY <1>2, <1>3 DEF MayCopy
  <2>2. Copied(a, q, i, i + 1, q.len)
    BY <2>1, CopyView
  <2> QED
    BY <2>2 DEF Copied
<1> HIDE DEF a
<1>5. /\ Fits(s) /\ Clean(s) /\ s.len = q.len
      /\ \A k \in 1 .. q.len : View(s)[k] = IF k = (q.len - 1) + 1 THEN Nil ELSE View(a)[k]
  BY <1>3, <1>4, SetView
<1> HIDE DEF s
<1>6. View(s)[s.len] = Nil /\ s.len > 0
  BY <1>1, <1>2, <1>5
<1>7. /\ Fits(r) /\ Clean(r) /\ r.len = s.len - 1
      /\ \A k \in 1 .. r.len : View(r)[k] = View(s)[k]
  BY <1>5, <1>6, NarrowView
<1>8. \A k \in 1 .. (q.len - 1) : m[k] = IF k <= i THEN k ELSE k + 1
  BY <1>2 DEF AfterRemoval
<1>9. Places(m, q.len - 1, q.len)
  BY <1>1, <1>2, RemovalPlaces
<1> HIDE DEF r, m
<1>10. \A k \in 1 .. (q.len - 1) : View(r)[k] = View(q)[m[k]]
  <2> SUFFICES ASSUME NEW k \in 1 .. (q.len - 1)
               PROVE  View(r)[k] = View(q)[m[k]]
    OBVIOUS
  <2>1. k \in 1 .. q.len /\ k # (q.len - 1) + 1 /\ (k - i) + (i + 1) = k + 1
    BY <1>2
  <2>2. View(r)[k] = View(a)[k]
    BY <1>5, <1>7, <2>1
  <2>3. (k - i \in 1 .. (q.len - (i + 1))) <=> ~(k <= i)
    BY <1>2
  <2> QED
    BY <1>4, <1>8, <2>1, <2>2, <2>3
<1>11. Rearranges(r, q, m)
  BY <1>5, <1>7, <1>9, <1>10, PlacesRearrange
<1> QED
  BY <1>1, <1>11 DEF q, m

LEMMA ShuffleRearranges ==
  ASSUME IInv, NEW c \in Chats, ShuffleQueue(c)
  PROVE  /\ chatCache[c] # Absent /\ chatCache[c].len > 2
         /\ \E p \in Injection(2 .. chatCache[c].len, 2 .. chatCache[c].len) : \E r :
                /\ Store(c, r)
                /\ Rearranges(r, chatCache[c], AfterShuffle(chatCache[c].len, p))
<1> DEFINE q == chatCache[c]
<1>1. q # Absent /\ q.len > 2
  BY DEF ShuffleQueue
<1>2. PICK p \in Injection(2 .. q.len, 2 .. q.len) :
          Store(c, Overwrite(q, 1, [k \in 1 .. (q.len - 1) |-> View(q)[p[k + 1]]]))
  BY DEF ShuffleQueue
<1> DEFINE f == [k \in 1 .. (q.len - 1) |-> View(q)[p[k + 1]]]
           r == Overwrite(q, 1, f)
           m == AfterShuffle(q.len, p)
<1>3. Fits(q) /\ Clean(q) /\ q.len \in Nat /\ View(q) \in [1 .. q.len -> Cells]
  BY <1>1, StoredSlice, SliceFacts
<1>4. Store(c, r)
  BY <1>2
<1> HIDE DEF q
<1>5. Places(m, q.len, q.len)
  BY <1>1, <1>3, ShufflePlaces
<1>6. \A k \in 1 .. q.len : m[k] = IF k = 1 THEN 1 ELSE p[k]
  BY DEF AfterShuffle
<1>7. f \in [1 .. (q.len - 1) -> Cells]
  <2>1. p \in [2 .. q.len -> 2 .. q.len]
    BY DEF Injection
  <2>2. \A k \in 1 .. (q.len - 1) : k + 1 \in 2 .. q.len
    BY <1>3
  <2>3. \A k \in 2 .. q.len : k \in 1 .. q.len
    BY <1>3
  <2>4. \A k \in 1 .. (q.len - 1) : View(q)[p[k + 1]] \in Cells
    BY <1>3, <2>1, <2>2, <2>3
  <2> QED
    BY <2>4
<1>8. \A k \in 1 .. (q.len - 1) : f[k] = View(q)[p[k + 1]]
  OBVIOUS
<1> HIDE DEF f
<1>9. q.len - 1 \in Nat /\ 1 \in Nat /\ 1 + (q.len - 1) <= q.len
  BY <1>1, <1>3
<1>10. /\ Fits(r) /\ Clean(r) /\ r.len = q.len
       /\ \A k \in 1 .. q.len : View(r)[k] =
              IF k - 1 \in 1 .. (q.len - 1) THEN f[k - 1] ELSE View(q)[k]
  <2>1. MayOverwrite(q, 1, q.len - 1, f)
    BY <1>3, <1>7, <1>9 DEF MayOverwrite
  <2>2. Overlaid(r, q, 1, q.len - 1, f)
    BY <2>1, OverwriteView
  <2> HIDE DEF r
  <2> QED
    BY <2>2 DEF Overlaid
<1> HIDE DEF r, m
<1>11. \A k \in 1 .. q.len : View(r)[k] = View(q)[m[k]]
  <2> SUFFICES ASSUME NEW k \in 1 .. q.len
               PROVE  View(r)[k] = View(q)[m[k]]
    OBVIOUS
  <2>1. CASE k = 1
    BY <1>6, <1>10, <2>1
  <2>2. CASE k # 1
    <3>1. k - 1 \in 1 .. (q.len - 1) /\ (k - 1) + 1 = k
      BY <1>3, <2>2
    <3> QED
      BY <1>6, <1>8, <1>10, <2>2, <3>1
  <2> QED
    BY <2>1, <2>2
<1>12. Rearranges(r, q, m)
  BY <1>5, <1>10, <1>11, PlacesRearrange
<1> QED
  BY <1>1, <1>4, <1>12 DEF q, m

LEMMA ReverseRearranges ==
  ASSUME IInv, NEW c \in Chats, ReverseQueue(c)
  PROVE  /\ chatCache[c] # Absent /\ chatCache[c].len > 2
         /\ \E r : /\ Store(c, r)
                   /\ Rearranges(r, chatCache[c], AfterReverse(chatCache[c].len))
<1> DEFINE q == chatCache[c]
           f == [k \in 1 .. (q.len - 1) |-> q.cells[q.off + q.len + 1 - k]]
           r == Overwrite(q, 1, f)
           m == AfterReverse(q.len)
<1>1. q # Absent /\ q.len > 2 /\ Store(c, r)
  BY DEF ReverseQueue
<1>2. /\ Fits(q) /\ Clean(q) /\ q.len \in Nat /\ q.off \in Nat /\ View(q) \in [1 .. q.len -> Cells]
      /\ \A k \in 1 .. q.len : View(q)[k] = q.cells[q.off + k]
  BY <1>1, StoredSlice, SliceFacts
<1>3. Places(m, q.len, q.len)
  BY <1>2, ReversePlaces
<1> HIDE DEF q
<1>4. \A k \in 1 .. q.len : m[k] = IF k = 1 THEN 1 ELSE q.len + 2 - k
  BY DEF AfterReverse
<1>5. \A k \in 1 .. (q.len - 1) : q.len + 1 - k \in 1 .. q.len
                                  /\ q.off + q.len + 1 - k = q.off + (q.len + 1 - k)
  <2>1. q.len \in Nat /\ q.off \in Nat
    BY <1>2
  <2> QED
    BY <2>1
<1>6. \A k \in 1 .. (q.len - 1) : f[k] = View(q)[q.len + 1 - k]
  BY <1>2, <1>5
<1>7. f \in [1 .. (q.len - 1) -> Cells]
  <2>1. \A k \in 1 .. q.len : View(q)[k] \in Cells
    BY <1>2
  <2>2. \A k \in 1 .. (q.len - 1) : f[k] \in Cells
    <3> HIDE DEF f
    <3> QED
      BY <1>5, <1>6, <2>1
  <2> QED
    BY <2>2
<1> HIDE DEF f
<1>8. q.len - 1 \in Nat /\ 1 \in Nat /\ 1 + (q.len - 1) <= q.len
  BY <1>1, <1>2
<1>9. /\ Fits(r) /\ Clean(r) /\ r.len = q.len
      /\ \A k \in 1 .. q.len : View(r)[k] =
             IF k - 1 \in 1 .. (q.len - 1) THEN f[k - 1] ELSE View(q)[k]
  <2>1. MayOverwrite(q, 1, q.len - 1, f)
    BY <1>2, <1>7, <1>8 DEF MayOverwrite
  <2>2. Overlaid(r, q, 1, q.len - 1, f)
    BY <2>1, OverwriteView
  <2> HIDE DEF r
  <2> QED
    BY <2>2 DEF Overlaid
<1> HIDE DEF r, m
<1>10. \A k \in 1 .. q.len : View(r)[k] = View(q)[m[k]]
  <2> SUFFICES ASSUME NEW k \in 1 .. q.len
               PROVE  View(r)[k] = View(q)[m[k]]
    OBVIOUS
  <2>1. CASE k = 1
    BY <1>4, <1>9, <2>1
  <2>2. CASE k # 1
    <3>1. k - 1 \in 1 .. (q.len - 1) /\ q.len + 1 - (k - 1) = q.len + 2 - k
      BY <1>2, <2>2
    <3> QED
      BY <1>4, <1>6, <1>9, <2>2, <3>1
  <2> QED
    BY <2>1, <2>2
<1>11. Rearranges(r, q, m)
  BY <1>3, <1>9, <1>10, PlacesRearrange
<1> QED
  BY <1>1, <1>11 DEF q, m

LEMMA MoveRearranges ==
  ASSUME IInv, NEW c \in Chats, NEW from \in Nat, NEW to \in Nat, MoveTrack(c, from, to)
  PROVE  /\ chatCache[c] # Absent /\ from # to /\ from > 0 /\ to > 0
         /\ from < chatCache[c].len /\ to < chatCache[c].len
         /\ \E r : /\ Store(c, r)
                   /\ Rearranges(r, chatCache[c], AfterMove(chatCache[c].len, from, to))
<1> DEFINE q == chatCache[c]
           t == q.cells[q.off + from + 1]
           a == IF from < to THEN CopyWithin(q, from, from + 1, to + 1)
                             ELSE CopyWithin(q, to + 1, to, from)
           r == SetCell(a, to, t)
           m == AfterMove(q.len, from, to)
<1>1. q # Absent /\ from # to /\ from > 0 /\ to > 0 /\ from < q.len /\ to < q.len /\ Store(c, r)
  BY DEF MoveTrack
<1>2. /\ Fits(q) /\ Clean(q) /\ q.len \in Nat /\ q.off \in Nat /\ View(q) \in [1 .. q.len -> Cells]
      /\ \A k \in 1 .. q.len : View(q)[k] = q.cells[q.off + k]
  BY <1>1, StoredSlice, SliceFacts
<1>3. Places(m, q.len, q.len)
  BY <1>1, <1>2, MovePlaces
<1> HIDE DEF q
<1>4. \A k \in 1 .. q.len : m[k] =
          IF k = to + 1 THEN from + 1
          ELSE IF from < to /\ k \in (from + 1) .. to THEN k + 1
          ELSE IF to < from /\ k \in (to + 2) .. (from + 1) THEN k - 1
          ELSE k
  BY DEF AfterMove
<1>5. t = View(q)[from + 1] /\ t \in Cells
  <2>1. from + 1 \in 1 .. q.len /\ q.off + from + 1 = q.off + (from + 1)
    BY <1>1, <1>2
  <2> QED
    BY <1>2, <2>1
<1> HIDE DEF t, m
<1>6. /\ Fits(a) /\ Clean(a) /\ a.len = q.len
      /\ \A k \in 1 .. q.len : k # to + 1 => View(a)[k] = View(q)[m[k]]
  <2>1. CASE from < to
    <3>1. from + 1 \in Nat /\ to + 1 \in Nat /\ from + 1 <= to + 1 /\ to + 1 <= q.len
          /\ from + ((to + 1) - (from + 1)) <= q.len
      BY <1>1, <1>2, <2>1
    <3> DEFINE x == CopyWithin(q, from, from + 1, to + 1)
    <3>2. /\ Fits(x) /\ Clean(x) /\ x.len = q.len
          /\ \A k \in 1 .. q.len : View(x)[k] =
                 IF k - from \in 1 .. ((to + 1) - (from + 1))
                 THEN View(q)[(k - from) + (from + 1)] ELSE View(q)[k]
      <4>1. MayCopy(q, from, from + 1, to + 1)
        BY <1>2, <3>1 DEF MayCopy
      <4>2. Copied(x, q, from, from + 1, to + 1)
        BY <4>1, CopyView
      <4> QED
        BY <4>2 DEF Copied
    <3> HIDE DEF x
    <3>3. a = x
      BY <2>1 DEF x
    <3>4. ASSUME NEW k \in 1 .. q.len, k # to + 1
          PROVE  View(x)[k] = View(q)[m[k]]
      <4>1. (k - from \in 1 .. ((to + 1) - (from + 1))) <=> k \in (from + 1) .. to
        BY <1>2
      <4>2. (k - from) + (from + 1) = k + 1
        OBVIOUS
      <4>3. m[k] = IF k \in (from + 1) .. to THEN k + 1 ELSE k
        BY <1>4, <2>1, <3>4
      <4> QED
        BY <3>2, <4>1, <4>2, <4>3
    <3> HIDE DEF a
    <3> QED
      BY <3>2, <3>3, <3>4
  <2>2. CASE ~(from < to)
    <3>1. to + 1 \in Nat /\ to <= from /\ from <= q.len /\ (to + 1) + (from - to) <= q.len /\ to < from
      BY <1>1, <1>2, <2>2
    <3> DEFINE x == CopyWithin(q, to + 1, to, from)
    <3>2. /\ Fits(x) /\ Clean(x) /\ x.len = q.len
          /\ \A k \in 1 .. q.len : View(x)[k] =
                 IF k - (to + 1) \in 1 .. (from - to)
                 THEN View(q)[(k - (to + 1)) + to] ELSE View(q)[k]
      <4>1. MayCopy(q, to + 1, to, from)
        BY <1>2, <3>1 DEF MayCopy
      <4>2. Copied(x, q, to + 1, to, from)
        BY <4>1, CopyView
      <4> QED
        BY <4>2 DEF Copied
    <3> HIDE DEF x
    <3>3. a = x
      BY <2>2 DEF x
    <3>4. ASSUME NEW k \in 1 .. q.len, k # to + 1
          PROVE  View(x)[k] = View(q)[m[k]]
      <4>1. (k - (to + 1) \in 1 .. (from - to)) <=> k \in (to + 2) .. (from + 1)
        BY <1>2
      <4>2. (k - (to + 1)) + to = k - 1
        OBVIOUS
      <4>3. m[k] = IF k \in (to + 2) .. (from + 1) THEN k - 1 ELSE k
        BY <1>4, <2>2, <3>1, <3>4
      <4> QED
        BY <3>2, <4>1, <4>2, <4>3
    <3> HIDE DEF a
    <3> QED
      BY <3>2, <3>3, <3>4
  <2> QED
    BY <2>1, <2>2
<1> HIDE DEF a
<1>7. /\ Fits(r) /\ Clean(r) /\ r.len = q.len
      /\ \A k \in 1 .. q.len : View(r)[k] = IF k = to + 1 THEN t ELSE View(a)[k]
  BY <1>1, <1>5, <1>6, SetView
<1> HIDE DEF r
<1>8. \A k \in 1 .. q.len : View(r)[k] = View(q)[m[k]]
  BY <1>4, <1>5, <1>6, <1>7
<1>9. Rearranges(r, q, m)
  BY <1>3, <1>7, <1>8, PlacesRearrange
<1> QED
  BY <1>1, <1>9 DEF q, m

LEMMA TrimRearranges ==
  ASSUME IInv, NEW c \in Chats, NEW pos \in Nat, TrimQueueBefore(c, pos)
  PROVE  /\ chatCache[c] # Absent /\ pos > 1 /\ pos < chatCache[c].len
         /\ \E r : /\ Store(c, r)
                   /\ Rearranges(r, chatCache[c], AfterTrim(chatCache[c].len, pos))
<1> DEFINE q == chatCache[c]
           n == q.len - pos + 1
           f == [i \in 1 .. n |-> View(q)[IF i = 1 THEN 1 ELSE pos + i - 1]]
           r == [cells |-> f, off |-> 0, len |-> n]
           m == AfterTrim(q.len, pos)
<1>1. q # Absent /\ pos > 1 /\ pos < q.len /\ Store(c, r)
  BY DEF TrimQueueBefore
<1>2. q.len \in Nat /\ q.len <= MaxCap /\ View(q) \in [1 .. q.len -> Cells]
  BY <1>1, StoredSlice, SliceFacts
<1>3. Places(m, n, q.len)
  BY <1>1, <1>2, TrimPlaces
<1> HIDE DEF q
<1>4. \A k \in 1 .. n : m[k] = IF k = 1 THEN 1 ELSE pos + k - 1
  BY DEF AfterTrim
<1>5. \A k \in 1 .. n : (IF k = 1 THEN 1 ELSE pos + k - 1) \in 1 .. q.len
  BY <1>1, <1>2
<1>6. f \in [1 .. n -> Cells] /\ \A k \in 1 .. n : f[k] = View(q)[m[k]]
  BY <1>2, <1>4, <1>5
<1>7. n \in Nat /\ n <= MaxCap
  BY <1>1, <1>2, BoundsAreNaturals
<1> HIDE DEF f, n
<1>8. Fits(r) /\ Clean(r) /\ \A k \in 1 .. n : View(r)[k] = f[k]
  BY <1>6, <1>7, NewArrayView
<1>9. r.len = n
  OBVIOUS
<1> HIDE DEF r, m
<1>10. \A k \in 1 .. r.len : View(r)[k] = View(q)[m[k]]
  BY <1>6, <1>8, <1>9
<1>11. Rearranges(r, q, m)
  BY <1>3, <1>8, <1>9, <1>10, PlacesRearrange
<1> QED
  BY <1>1, <1>11 DEF q, m, r, f, n

-----------------------------------------------------------------------------
(* The invariant.                                                          *)

LEMMA SoundByView ==
  ASSUME NEW r, Fits(r), Clean(r),
         \A k \in 1 .. r.len : View(r)[k] \in Track,
         \A k, l \in 1 .. r.len : View(r)[k] = View(r)[l] => k = l
  PROVE  /\ Sound(r)
         /\ \A i \in DOMAIN r.cells : r.cells[i] # Nil =>
                i - r.off \in 1 .. r.len /\ r.cells[i] = View(r)[i - r.off]
<1>1. /\ r.off \in Nat /\ r.len \in Nat /\ Len(r.cells) \in Nat
      /\ DOMAIN r.cells = 1 .. Len(r.cells)
      /\ \A k \in 1 .. r.len : View(r)[k] = r.cells[r.off + k]
  BY SliceFacts
<1>2. ASSUME NEW i \in DOMAIN r.cells, InWindow(r, i)
      PROVE  i - r.off \in 1 .. r.len /\ r.cells[i] = View(r)[i - r.off]
  <2>1. r.off \in Nat /\ r.len \in Nat /\ i \in Int
    BY <1>1
  <2>2. i - r.off \in 1 .. r.len /\ r.off + (i - r.off) = i
    BY <1>2, <2>1 DEF InWindow
  <2> QED
    BY <1>1, <2>2
<1>3. Tight(r)
  BY <1>2, NilIsNoTrack DEF Clean, Tight
<1>4. Distinct(r)
  <2> SUFFICES ASSUME NEW i \in DOMAIN r.cells, NEW j \in DOMAIN r.cells,
                      r.cells[i] # Nil, r.cells[i] = r.cells[j]
               PROVE  i = j
    BY DEF Distinct
  <2>1. InWindow(r, i) /\ InWindow(r, j)
    BY DEF Clean
  <2>2. i - r.off = j - r.off
    BY <1>2, <2>1
  <2>3. r.off \in Nat /\ i \in Int /\ j \in Int
    BY <1>1
  <2> QED
    BY <2>2, <2>3
<1> QED
  BY <1>2, <1>3, <1>4 DEF Sound, Clean

LEMMA RearrangedSlice ==
  ASSUME NEW s, Sound(s), NEW r, NEW m, Rearranges(r, s, m)
  PROVE  /\ Sound(r)
         /\ \A i \in DOMAIN r.cells : r.cells[i] # Nil =>
                \E j \in DOMAIN s.cells : s.cells[j] = r.cells[i]
         /\ \A k \in 2 .. r.len : \E l \in 2 .. s.len : View(r)[k] = View(s)[l]
<1>1. /\ Fits(r) /\ Clean(r) /\ m \in [1 .. r.len -> 1 .. s.len]
      /\ \A k \in 1 .. r.len : View(r)[k] = View(s)[m[k]] /\ (m[k] = 1 => k = 1)
      /\ \A k, l \in 1 .. r.len : m[k] = m[l] => k = l
  BY DEF Rearranges, IsInjective
<1>2. /\ s.len \in Nat /\ r.len \in Nat
      /\ \A k \in 1 .. s.len : s.off + k \in DOMAIN s.cells /\ View(s)[k] = s.cells[s.off + k]
  BY <1>1, SliceFacts DEF Sound
<1>3. /\ \A k \in 1 .. s.len : View(s)[k] \in Track
      /\ \A k, l \in 1 .. s.len : View(s)[k] = View(s)[l] => k = l
  BY ViewOfSound
<1>4. /\ \A k \in 1 .. r.len : View(r)[k] \in Track
      /\ \A k, l \in 1 .. r.len : View(r)[k] = View(r)[l] => k = l
  BY <1>1, <1>3
<1>5. /\ Sound(r)
      /\ \A i \in DOMAIN r.cells : r.cells[i] # Nil =>
             i - r.off \in 1 .. r.len /\ r.cells[i] = View(r)[i - r.off]
  BY <1>1, <1>4, SoundByView
<1>6. ASSUME NEW i \in DOMAIN r.cells, r.cells[i] # Nil
      PROVE  \E j \in DOMAIN s.cells : s.cells[j] = r.cells[i]
  BY <1>1, <1>2, <1>5, <1>6
<1>7. ASSUME NEW k \in 2 .. r.len
      PROVE  \E l \in 2 .. s.len : View(r)[k] = View(s)[l]
  <2>1. k \in 1 .. r.len /\ k # 1
    BY <1>2
  <2>2. m[k] \in 1 .. s.len /\ m[k] # 1
    BY <1>1, <2>1
  <2>3. m[k] \in 2 .. s.len
    BY <1>2, <2>2
  <2> QED
    BY <1>1, <2>1, <2>3
<1> QED
  BY <1>5, <1>6, <1>7

\* A sound slice stored for c that shares no track with the other chats and
\* puts no repeating track behind the head.
LEMMA StoreKeeps ==
  ASSUME IInv, NEW c \in Chats, NEW r, Sound(r),
         chatCache' = [chatCache EXCEPT ![c] = r],
         loop' \in [Track -> 0 .. MaxLoop],
         \A t \in Track : loop[t] = 0 => loop'[t] = 0,
         \A d \in Chats \ {c} : chatCache[d] # Absent =>
             \A i \in DOMAIN r.cells, j \in DOMAIN chatCache[d].cells :
                 r.cells[i] # Nil => r.cells[i] # chatCache[d].cells[j],
         \A k \in 2 .. r.len : loop'[View(r)[k]] = 0
  PROVE  IInv'
<1>1. chatCache \in [Chats -> Slice \cup {Absent}]
  BY DEF IInv, TypeOK
<1>2. chatCache'[c] = r /\ \A d \in Chats \ {c} : chatCache'[d] = chatCache[d]
  BY <1>1
<1>3. /\ r \in Slice /\ r.off + r.len <= Len(r.cells) /\ Len(r.cells) <= MaxCap
      /\ Tight(r) /\ Distinct(r)
  BY DEF Sound, Fits
<1>4. TypeOK'
  <2>1. chatCache' \in [Chats -> Slice \cup {Absent}]
    BY <1>1, <1>3
  <2>2. \A d \in Chats : chatCache'[d] # Absent =>
           /\ chatCache'[d].off + chatCache'[d].len <= Len(chatCache'[d].cells)
           /\ Len(chatCache'[d].cells) <= MaxCap
    BY <1>2, <1>3 DEF IInv, TypeOK
  <2> QED
    BY <2>1, <2>2 DEF TypeOK
<1>5. WindowHoldsTheTracks'
  <2>1. \A d \in Chats : chatCache'[d] # Absent => Tight(chatCache'[d])
    BY <1>2, <1>3 DEF IInv, WindowHoldsTheTracks, Tight
  <2> QED
    BY <2>1 DEF WindowHoldsTheTracks, Tight
<1>6. NoTrackTwice'
  <2> SUFFICES ASSUME NEW d \in Chats, NEW e \in Chats, chatCache'[d] # Absent, chatCache'[e] # Absent,
                      NEW i \in DOMAIN chatCache'[d].cells, NEW j \in DOMAIN chatCache'[e].cells,
                      chatCache'[d].cells[i] # Nil,
                      chatCache'[d].cells[i] = chatCache'[e].cells[j]
               PROVE  d = e /\ i = j
    BY DEF NoTrackTwice
  <2>1. CASE d = c /\ e = c
    BY <1>2, <1>3, <2>1 DEF Distinct
  <2>2. CASE d = c /\ e # c
    BY <1>2, <2>2
  <2>3. CASE d # c /\ e = c
    BY <1>2, <2>3
  <2>4. CASE d # c /\ e # c
    BY <1>2, <2>4 DEF IInv, NoTrackTwice
  <2> QED
    BY <2>1, <2>2, <2>3, <2>4
<1>7. OnlyTheHeadRepeats'
  <2> SUFFICES ASSUME NEW d \in Chats, chatCache'[d] # Absent, NEW k \in 2 .. chatCache'[d].len
               PROVE  loop'[View(chatCache'[d])[k]] = 0
    BY DEF OnlyTheHeadRepeats
  <2>1. CASE d = c
    BY <1>2, <2>1
  <2>2. CASE d # c
    <3>1. chatCache'[d] = chatCache[d] /\ Sound(chatCache[d]) /\ chatCache[d].len \in Nat
      BY <1>2, <2>2, StoredSlice
    <3>2. k \in 2 .. chatCache[d].len /\ k \in 1 .. chatCache[d].len
      BY <3>1
    <3>3. View(chatCache[d])[k] \in Track /\ loop[View(chatCache[d])[k]] = 0
      BY <3>1, <3>2, ViewOfSound DEF IInv, OnlyTheHeadRepeats
    <3> QED
      BY <3>1, <3>3
  <2> QED
    BY <2>1, <2>2
<1> QED
  BY <1>4, <1>5, <1>6, <1>7 DEF IInv

LEMMA RearrangingKeeps ==
  ASSUME IInv, NEW c \in Chats, chatCache[c] # Absent,
         NEW r, NEW m, Rearranges(r, chatCache[c], m), Store(c, r)
  PROVE  IInv'
<1>1. Sound(chatCache[c])
  BY StoredSlice
<1>2. /\ Sound(r)
      /\ \A i \in DOMAIN r.cells : r.cells[i] # Nil =>
             \E j \in DOMAIN chatCache[c].cells : chatCache[c].cells[j] = r.cells[i]
      /\ \A k \in 2 .. r.len : \E l \in 2 .. chatCache[c].len :
             View(r)[k] = View(chatCache[c])[l]
  BY <1>1, RearrangedSlice
<1>3. chatCache' = [chatCache EXCEPT ![c] = r] /\ loop' = loop /\ loop \in [Track -> 0 .. MaxLoop]
  BY DEF Store, IInv, TypeOK
<1>4. \A d \in Chats \ {c} : chatCache[d] # Absent =>
          \A i \in DOMAIN r.cells, j \in DOMAIN chatCache[d].cells :
              r.cells[i] # Nil => r.cells[i] # chatCache[d].cells[j]
  <2> SUFFICES ASSUME NEW d \in Chats \ {c}, chatCache[d] # Absent,
                      NEW i \in DOMAIN r.cells, NEW j \in DOMAIN chatCache[d].cells,
                      r.cells[i] # Nil, r.cells[i] = chatCache[d].cells[j]
               PROVE  FALSE
    OBVIOUS
  <2>1. PICK l \in DOMAIN chatCache[c].cells : chatCache[c].cells[l] = r.cells[i]
    BY <1>2
  <2> QED
    BY <2>1 DEF IInv, NoTrackTwice
<1>5. \A k \in 2 .. r.len : loop'[View(r)[k]] = 0
  BY <1>2, <1>3 DEF IInv, OnlyTheHeadRepeats
<1> QED
  BY <1>2, <1>3, <1>4, <1>5, StoreKeeps

\* append: the window grows by the songs, in place or in a new array.
LEMMA AppendedView ==
  ASSUME NEW s, Sound(s), NEW songs \in Seq(Track), NEW r \in Appended(s, songs)
  PROVE  /\ Fits(r) /\ Clean(r) /\ r.len = s.len + Len(songs)
         /\ \A k \in 1 .. r.len : View(r)[k] =
                IF k <= s.len THEN View(s)[k] ELSE songs[k - s.len]
         /\ View(r) = View(s) \o songs
<1> DEFINE l == Len(songs)
           n == s.len + l
           new == View(s) \o songs
           o == Overwrite(s, s.len, songs)
<1>1. /\ Fits(s) /\ Clean(s)
      /\ s.off \in Nat /\ s.len \in Nat /\ Len(s.cells) \in Nat
      /\ DOMAIN s.cells = 1 .. Len(s.cells)
      /\ \A k \in 1 .. s.len : s.off + k \in 1 .. Len(s.cells) /\ View(s)[k] = s.cells[s.off + k]
      /\ View(s) \in Seq(Cells) /\ Len(View(s)) = s.len
  BY SoundIsClean, SliceFacts
<1>2. l \in Nat /\ songs \in [1 .. l -> Cells] /\ songs \in Seq(Cells)
  BY DEF Cells
<1>3. /\ new \in Seq(Cells) /\ Len(new) = n
      /\ \A k \in 1 .. n : new[k] = IF k <= s.len THEN View(s)[k] ELSE songs[k - s.len]
  BY <1>1, <1>2, ConcatProperties
<1>4. ASSUME s.off + n <= Len(s.cells)
      PROVE  /\ Fits(r) /\ Clean(r) /\ r.len = n
             /\ \A k \in 1 .. r.len : View(r)[k] =
                    IF k <= s.len THEN View(s)[k] ELSE songs[k - s.len]
  <2>1. r = [o EXCEPT !.len = n]
    BY <1>4 DEF Appended
  <2> HIDE DEF l
  <2>2. /\ Fits(o) /\ o.off = s.off /\ Len(o.cells) = Len(s.cells) /\ DOMAIN o.cells = 1 .. Len(s.cells)
        /\ \A i \in 1 .. Len(s.cells) : o.cells[i] =
               IF i - s.off - s.len \in 1 .. l THEN songs[i - s.off - s.len] ELSE s.cells[i]
    <3>1. Fits(s) /\ s.len \in Nat /\ l \in Nat /\ songs \in [1 .. l -> Cells]
      BY <1>1, <1>2
    <3>2. Overwritten(o, s, s.len, l, songs)
      BY <3>1, OverwriteFacts
    <3> QED
      BY <3>2 DEF Overwritten
  <2>3. o \in [cells : Seq(Track \cup {Nil}), off : Nat, len : Nat] /\ Len(o.cells) <= MaxCap
    BY <2>2 DEF Fits, Slice
  <2> HIDE DEF o
  <2>4. r = [cells |-> o.cells, off |-> s.off, len |-> n]
    BY <2>1, <2>2, <2>3
  <2>5. r.cells = o.cells /\ r.off = s.off /\ r.len = n
    BY <2>4
  <2>6. Fits(r)
    <3>1. n \in Nat /\ s.off \in Nat /\ o.cells \in Seq(Track \cup {Nil})
      BY <1>1, <1>2, <2>3
    <3>2. r \in Slice
      BY <2>4, <3>1 DEF Slice
    <3> QED
      BY <1>4, <2>2, <2>3, <2>5, <3>2 DEF Fits
  <2> HIDE DEF n
  <2>7. s.off \in Nat /\ s.len \in Nat /\ l \in Nat /\ n = s.len + l
    BY <1>1, <1>2 DEF n
  <2>8. Clean(r)
    <3> SUFFICES ASSUME NEW i \in 1 .. Len(s.cells), o.cells[i] # Nil
                 PROVE  s.off < i /\ i <= s.off + n
      BY <2>2, <2>5 DEF Clean, InWindow
    <3>1. CASE i - s.off - s.len \in 1 .. l
      BY <2>7, <3>1, SMTT(30)
    <3>2. CASE i - s.off - s.len \notin 1 .. l
      <4>1. s.cells[i] # Nil
        BY <2>2, <3>2
      <4>2. s.off < i /\ i <= s.off + s.len
        BY <1>1, <4>1 DEF Clean, InWindow
      <4> QED
        BY <2>7, <4>2
    <3> QED
      BY <3>1, <3>2
  <2>9. \A k \in 1 .. r.len : s.off + k \in 1 .. Len(s.cells) /\ View(r)[k] = o.cells[s.off + k]
    <3>1. \A k \in 1 .. r.len :
              r.off + k \in 1 .. Len(r.cells) /\ View(r)[k] = r.cells[r.off + k]
      BY <2>6, SliceFacts
    <3> QED
      BY <2>2, <2>5, <3>1
  <2>10. ASSUME NEW k \in 1 .. r.len
         PROVE  View(r)[k] = IF k <= s.len THEN View(s)[k] ELSE songs[k - s.len]
    <3>1. (s.off + k) - s.off - s.len = k - s.len
      BY <2>7
    <3>2. (k - s.len \in 1 .. l) <=> ~(k <= s.len)
      BY <2>5, <2>7
    <3>3. View(r)[k] = IF k - s.len \in 1 .. l THEN songs[k - s.len] ELSE s.cells[s.off + k]
      BY <2>2, <2>9, <3>1
    <3>4. k <= s.len => k \in 1 .. s.len
      BY <2>7
    <3> QED
      BY <1>1, <3>2, <3>3, <3>4
  <2> QED
    BY <2>5, <2>6, <2>8, <2>10 DEF n, l
<1>5. ASSUME ~(s.off + n <= Len(s.cells))
      PROVE  /\ Fits(r) /\ Clean(r) /\ r.len = n
             /\ \A k \in 1 .. r.len : View(r)[k] =
                    IF k <= s.len THEN View(s)[k] ELSE songs[k - s.len]
  <2>1. PICK cap \in n .. MaxCap :
            r = [cells |-> [i \in 1 .. cap |-> IF i <= n THEN new[i] ELSE Nil],
                 off |-> 0, len |-> n]
    BY <1>5 DEF Appended
  <2> DEFINE f == [i \in 1 .. cap |-> IF i <= n THEN new[i] ELSE Nil]
  <2> HIDE DEF new, n, l
  <2>2. n \in Nat /\ cap \in Nat /\ n <= cap /\ cap <= MaxCap
    BY <1>1, <1>2, BoundsAreNaturals DEF n
  <2>3. \A i \in 1 .. cap : f[i] = IF i <= n THEN new[i] ELSE Nil
    OBVIOUS
  <2>4. f \in [1 .. cap -> Cells]
    <3>1. \A i \in 1 .. n : new[i] \in Cells
      BY <1>3, ElementOfSeq
    <3> QED
      BY <2>2, <3>1 DEF Cells
  <2>5. f \in Seq(Cells) /\ Len(f) = cap /\ DOMAIN f = 1 .. cap
    BY <2>2, <2>4
  <2> HIDE DEF f
  <2>6. r.cells = f /\ r.off = 0 /\ r.len = n
    BY <2>1 DEF f
  <2>7. Fits(r)
    <3>1. r = [cells |-> f, off |-> 0, len |-> n]
      BY <2>1 DEF f
    <3>2. r \in Slice
      BY <2>2, <2>5, <3>1 DEF Slice, Cells
    <3> QED
      BY <2>2, <2>5, <2>6, <3>2 DEF Fits
  <2>8. Clean(r)
    BY <2>2, <2>3, <2>5, <2>6 DEF Clean, InWindow
  <2>9. \A k \in 1 .. n : View(r)[k] = f[0 + k]
    BY <2>6, <2>7, SliceFacts
  <2>10. \A k \in 1 .. r.len : View(r)[k] =
             IF k <= s.len THEN View(s)[k] ELSE songs[k - s.len]
    <3>1. \A k \in 1 .. n : 0 + k = k /\ k \in 1 .. cap /\ k <= n
      BY <2>2
    <3>2. \A k \in 1 .. n : View(r)[k] = new[k]
      BY <2>3, <2>9, <3>1
    <3> QED
      BY <1>3, <2>6, <3>2
  <2> QED
    BY <2>6, <2>7, <2>8, <2>10 DEF n, l
<1>6. /\ Fits(r) /\ Clean(r) /\ r.len = n
      /\ \A k \in 1 .. r.len : View(r)[k] = IF k <= s.len THEN View(s)[k] ELSE songs[k - s.len]
  BY <1>4, <1>5
<1>7. View(r) = new
  <2>1. View(r) \in Seq(Cells) /\ Len(View(r)) = n
    BY <1>6, SliceFacts
  <2> HIDE DEF new, n
  <2>2. \A k \in 1 .. n : View(r)[k] = new[k]
    BY <1>3, <1>6
  <2> QED
    BY <1>3, <2>1, <2>2, SeqEqual
<1> QED
  BY <1>6, <1>7

LEMMA BatchFacts ==
  ASSUME NEW songs \in Batches
  PROVE  /\ songs \in Seq(Track) /\ Len(songs) \in Nat
         /\ DOMAIN songs = 1 .. Len(songs)
         /\ \A i \in 1 .. Len(songs) : songs[i] \in Track /\ songs[i] \in ToSet(songs)
         /\ songs \in SeqOf(Track, MaxBatch)
<1>1. PICK n \in 0 .. MaxBatch : songs \in [1 .. n -> Track]
  BY DEF Batches, SeqOf
<1>2. songs \in Seq(Track)
  BY <1>1, BoundsAreNaturals
<1> QED
  BY <1>2, LenProperties, ElementOfSeq DEF Batches, ToSet

LEMMA AddSongsKeeps ==
  ASSUME IInv, NEW c \in Chats, NEW songs \in Batches, AddSongs(c, songs)
  PROVE  IInv'
<1> DEFINE s == Entry(c)
           l == Len(songs)
<1>1. /\ songs \in Seq(Track) /\ l \in Nat /\ DOMAIN songs = 1 .. l
      /\ \A i \in 1 .. l : songs[i] \in Track /\ songs[i] \in ToSet(songs)
  BY BatchFacts
<1>2. PICK r \in Appended(s, songs) : chatCache' = [chatCache EXCEPT ![c] = r]
  BY DEF AddSongs
<1>3. Sound(s) /\ s.len \in Nat
  BY EntryFacts, SliceFacts DEF Sound
<1>4. /\ \A i \in 1 .. l : Fresh(songs[i])
      /\ \A i, j \in 1 .. l : songs[i] = songs[j] => i = j
      /\ loop' = [t \in Track |-> IF t \in ToSet(songs) THEN 0 ELSE loop[t]]
  BY <1>1 DEF AddSongs, IsInjective
<1>5. /\ \A k \in 1 .. s.len : View(s)[k] \in Track
      /\ \A k, j \in 1 .. s.len : View(s)[k] = View(s)[j] => k = j
      /\ \A k \in 1 .. s.len : s.off + k \in DOMAIN s.cells /\ View(s)[k] = s.cells[s.off + k]
  BY <1>3, ViewOfSound, SliceFacts DEF Sound
<1> HIDE DEF s, l
<1>6. /\ Fits(r) /\ Clean(r) /\ r.len = s.len + l
      /\ \A k \in 1 .. r.len : View(r)[k] = IF k <= s.len THEN View(s)[k] ELSE songs[k - s.len]
  BY <1>1, <1>2, <1>3, AppendedView DEF l
<1>7. \A k \in 1 .. r.len : (k <= s.len => k \in 1 .. s.len)
                            /\ (~(k <= s.len) => k - s.len \in 1 .. l)
  BY <1>1, <1>3, <1>6
<1>8. \A k \in 1 .. r.len : View(r)[k] \in Track
  BY <1>1, <1>5, <1>6, <1>7
<1>9. \A i \in 1 .. l, k \in 1 .. s.len : songs[i] # View(s)[k]
  BY <1>4, <1>5 DEF Fresh, s
<1>10. ASSUME NEW k \in 1 .. r.len, NEW j \in 1 .. r.len, View(r)[k] = View(r)[j]
       PROVE  k = j
  <2>1. CASE k <= s.len /\ j <= s.len
    BY <1>5, <1>6, <1>7, <1>10, <2>1
  <2>2. CASE ~(k <= s.len) /\ ~(j <= s.len)
    <3>1. songs[k - s.len] = songs[j - s.len]
      BY <1>6, <1>10, <2>2
    <3>2. k - s.len = j - s.len
      BY <1>4, <1>7, <2>2, <3>1
    <3> QED
      BY <1>3, <3>2
  <2>3. CASE k <= s.len /\ ~(j <= s.len)
    BY <1>6, <1>7, <1>9, <1>10, <2>3
  <2>4. CASE ~(k <= s.len) /\ j <= s.len
    BY <1>6, <1>7, <1>9, <1>10, <2>4
  <2> QED
    BY <2>1, <2>2, <2>3, <2>4
<1>11. /\ Sound(r)
       /\ \A i \in DOMAIN r.cells : r.cells[i] # Nil =>
              i - r.off \in 1 .. r.len /\ r.cells[i] = View(r)[i - r.off]
  BY <1>6, <1>8, <1>10, SoundByView
<1>12. loop \in [Track -> 0 .. MaxLoop] /\ 0 \in 0 .. MaxLoop
  BY BoundsAreNaturals DEF IInv, TypeOK
<1>13. loop' \in [Track -> 0 .. MaxLoop] /\ \A t \in Track : loop[t] = 0 => loop'[t] = 0
  BY <1>4, <1>12
<1>14. ASSUME NEW d \in Chats \ {c}, chatCache[d] # Absent,
              NEW i \in DOMAIN r.cells, NEW j \in DOMAIN chatCache[d].cells,
              r.cells[i] # Nil, r.cells[i] = chatCache[d].cells[j]
       PROVE  FALSE
  <2> DEFINE k == i - r.off
  <2>1. k \in 1 .. r.len /\ r.cells[i] = View(r)[k]
    BY <1>11, <1>14
  <2>2. Entry(d) = chatCache[d]
    BY <1>14 DEF Entry
  <2> HIDE DEF k
  <2>3. CASE k <= s.len
    <3>1. k \in 1 .. s.len /\ View(r)[k] = View(s)[k]
      BY <1>6, <1>7, <2>1, <2>3
    <3>2. s.off + k \in DOMAIN s.cells /\ s.cells[s.off + k] = r.cells[i]
      BY <1>5, <2>1, <3>1
    <3>3. s = chatCache[c] /\ chatCache[c] # Absent
      <4>1. CASE chatCache[c] # Absent
        BY <4>1 DEF s, Entry
      <4>2. CASE chatCache[c] = Absent
        BY <3>2, <4>2, EntryFacts, EmptyIsSound DEF s
      <4> QED
        BY <4>1, <4>2
    <3> QED
      BY <1>14, <3>2, <3>3 DEF IInv, NoTrackTwice
  <2>4. CASE ~(k <= s.len)
    <3>1. k - s.len \in 1 .. l /\ r.cells[i] = songs[k - s.len]
      BY <1>6, <1>7, <2>1, <2>4, SMTT(30)
    <3>2. Fresh(r.cells[i])
      BY <1>4, <3>1
    <3>3. chatCache[d].cells[j] # r.cells[i]
      BY <1>14, <2>2, <3>2 DEF Fresh
    <3> QED
      BY <1>14, <3>3
  <2> QED
    BY <2>3, <2>4
<1>15. ASSUME NEW k \in 2 .. r.len
       PROVE  loop'[View(r)[k]] = 0
  <2>1. r.len \in Nat
    BY <1>6, SliceFacts
  <2>2. k \in 1 .. r.len
    BY <2>1
  <2>3. CASE k <= s.len
    <3>1. k \in 2 .. s.len /\ k \in 1 .. s.len
      BY <1>3, <2>1, <2>3
    <3>2. s = chatCache[c] /\ chatCache[c] # Absent
      <4>1. CASE chatCache[c] # Absent
        BY <4>1 DEF s, Entry
      <4>2. CASE chatCache[c] = Absent
        BY <3>1, <4>2, EntryFacts, EmptyIsSound DEF s
      <4> QED
        BY <4>1, <4>2
    <3>3. loop[View(s)[k]] = 0
      BY <3>1, <3>2 DEF IInv, OnlyTheHeadRepeats
    <3> QED
      BY <1>5, <1>6, <1>13, <2>2, <2>3, <3>1, <3>3
  <2>4. CASE ~(k <= s.len)
    <3>1. k - s.len \in 1 .. l /\ View(r)[k] = songs[k - s.len]
      BY <1>6, <1>7, <2>2, <2>4
    <3> QED
      BY <1>1, <1>4, <3>1
  <2> QED
    BY <2>3, <2>4
<1>16. \A d \in Chats \ {c} : chatCache[d] # Absent =>
           \A i \in DOMAIN r.cells, j \in DOMAIN chatCache[d].cells :
               r.cells[i] # Nil => r.cells[i] # chatCache[d].cells[j]
  BY <1>14
<1>17. \A k \in 2 .. r.len : loop'[View(r)[k]] = 0
  BY <1>15
<1>18. Sound(r)
  BY <1>11
<1> QED
  BY <1>2, <1>13, <1>16, <1>17, <1>18, StoreKeeps

LEMMA ClearChatKeeps ==
  ASSUME IInv, NEW c \in Chats, ClearChat(c)
  PROVE  IInv'
<1>1. chatCache' = [chatCache EXCEPT ![c] = Absent] /\ loop' = loop
  BY DEF ClearChat, Store
<1>2. chatCache \in [Chats -> Slice \cup {Absent}]
  BY DEF IInv, TypeOK
<1>3. \A d \in Chats : chatCache'[d] # Absent => chatCache'[d] = chatCache[d]
  BY <1>1, <1>2
<1>4. chatCache' \in [Chats -> Slice \cup {Absent}]
  BY <1>1, <1>2
<1>5. TypeOK'
  BY <1>1, <1>3, <1>4 DEF IInv, TypeOK
<1>6. WindowHoldsTheTracks'
  BY <1>3 DEF IInv, WindowHoldsTheTracks, InWindow
<1>7. NoTrackTwice'
  BY <1>3 DEF IInv, NoTrackTwice
<1>8. OnlyTheHeadRepeats'
  BY <1>1, <1>3 DEF IInv, OnlyTheHeadRepeats, View
<1> QED
  BY <1>5, <1>6, <1>7, <1>8 DEF IInv

\* The head is at no place behind a head, so that its count changes there only.
LEMMA SetLoopCountKeeps ==
  ASSUME IInv, NEW c \in Chats, NEW n \in 0 .. MaxLoop, SetLoopCount(c, n)
  PROVE  IInv'
<1> DEFINE h == View(chatCache[c])[1]
<1>1. /\ chatCache[c] # Absent /\ chatCache[c].len > 0
      /\ loop' = [loop EXCEPT ![h] = n] /\ chatCache' = chatCache
  BY DEF SetLoopCount, HasTracks
<1>2. Sound(chatCache[c]) /\ chatCache[c].len \in Nat
  BY <1>1, StoredSlice
<1>3. 1 \in 1 .. chatCache[c].len
  BY <1>1, <1>2
<1>4. /\ h \in Track /\ h = chatCache[c].cells[chatCache[c].off + 1]
      /\ chatCache[c].off + 1 \in DOMAIN chatCache[c].cells
      /\ \A k \in 1 .. chatCache[c].len : View(chatCache[c])[k] = h => k = 1
  BY <1>2, <1>3, ViewOfSound, SliceFacts DEF Sound
<1>5. loop \in [Track -> 0 .. MaxLoop]
  BY DEF IInv, TypeOK
<1> HIDE DEF h
<1>6. TypeOK'
  BY <1>1, <1>5 DEF IInv, TypeOK
<1>7. WindowHoldsTheTracks' /\ NoTrackTwice'
  BY <1>1 DEF IInv, WindowHoldsTheTracks, NoTrackTwice, InWindow
<1>8. OnlyTheHeadRepeats'
  <2> SUFFICES ASSUME NEW d \in Chats, chatCache[d] # Absent, NEW k \in 2 .. chatCache[d].len
               PROVE  loop'[View(chatCache[d])[k]] = 0
    BY <1>1 DEF OnlyTheHeadRepeats, View
  <2>1. Sound(chatCache[d]) /\ chatCache[d].len \in Nat
    BY StoredSlice
  <2>2. k \in 1 .. chatCache[d].len /\ k # 1
    BY <2>1
  <2>3. /\ View(chatCache[d])[k] \in Track
        /\ View(chatCache[d])[k] = chatCache[d].cells[chatCache[d].off + k]
        /\ chatCache[d].off + k \in DOMAIN chatCache[d].cells
    BY <2>1, <2>2, ViewOfSound, SliceFacts DEF Sound
  <2>4. View(chatCache[d])[k] # h
    <3>1. CASE d = c
      BY <1>4, <2>2, <3>1
    <3>2. CASE d # c
      BY <1>1, <1>4, <2>3, <3>2, NilIsNoTrack DEF IInv, NoTrackTwice
    <3> QED
      BY <3>1, <3>2
  <2>5. loop[View(chatCache[d])[k]] = 0
    BY DEF IInv, OnlyTheHeadRepeats
  <2> QED
    BY <1>1, <1>5, <2>3, <2>4, <2>5
<1> QED
  BY <1>6, <1>7, <1>8 DEF IInv

LEMMA InitIInv == Init => IInv
<1> SUFFICES ASSUME Init PROVE IInv
  OBVIOUS
<1>1. chatCache = [c \in Chats |-> Absent] /\ loop = [t \in Track |-> 0]
  BY DEF Init
<1>2. \A c \in Chats : chatCache[c] = Absent
  BY <1>1
<1>3. chatCache \in [Chats -> Slice \cup {Absent}]
  BY <1>1
<1>4. loop \in [Track -> 0 .. MaxLoop]
  BY <1>1, BoundsAreNaturals
<1> QED
  BY <1>2, <1>3, <1>4 DEF IInv, TypeOK, WindowHoldsTheTracks, NoTrackTwice, OnlyTheHeadRepeats

LEMMA NextIInv == IInv /\ [Next]_vars => IInv'
<1> SUFFICES ASSUME IInv, [Next]_vars PROVE IInv'
  OBVIOUS
<1>1. CASE UNCHANGED vars
  <2>1. chatCache' = chatCache /\ loop' = loop
    BY <1>1 DEF vars
  <2>2. TypeOK' /\ WindowHoldsTheTracks' /\ NoTrackTwice'
    BY <2>1, SMTT(30) DEF IInv, TypeOK, WindowHoldsTheTracks, NoTrackTwice, InWindow
  <2>3. OnlyTheHeadRepeats'
    <3>1. OnlyTheHeadRepeats
      BY DEF IInv
    <3> QED
      BY <2>1, <3>1, SMTT(30), ZenonT(30) DEF OnlyTheHeadRepeats, View
  <2> QED
    BY <2>2, <2>3 DEF IInv
<1>2. ASSUME NEW c \in Chats, NEW songs \in Batches, AddSongs(c, songs) PROVE IInv'
  BY <1>2, AddSongsKeeps
<1>3. ASSUME NEW c \in Chats, RemoveCurrentSong(c) PROVE IInv'
  BY <1>3, RemoveCurrentRearranges, RearrangingKeeps
<1>4. ASSUME NEW c \in Chats, NEW i \in Index, RemoveTrack(c, i) PROVE IInv'
  <2>1. i \in Nat
    BY BoundsAreNaturals DEF Index
  <2> QED
    BY <1>4, <2>1, RemoveTrackRearranges, RearrangingKeeps
<1>5. ASSUME NEW c \in Chats, ClearChat(c) PROVE IInv'
  BY <1>5, ClearChatKeeps
<1>6. ASSUME NEW c \in Chats, NEW n \in 0 .. MaxLoop, SetLoopCount(c, n) PROVE IInv'
  BY <1>6, SetLoopCountKeeps
<1>7. ASSUME NEW c \in Chats, ShuffleQueue(c) PROVE IInv'
  BY <1>7, ShuffleRearranges, RearrangingKeeps
<1>8. ASSUME NEW c \in Chats, ReverseQueue(c) PROVE IInv'
  BY <1>8, ReverseRearranges, RearrangingKeeps
<1>9. ASSUME NEW c \in Chats, NEW i \in Index, NEW j \in Index, MoveTrack(c, i, j) PROVE IInv'
  <2>1. i \in Nat /\ j \in Nat
    BY BoundsAreNaturals DEF Index
  <2> QED
    BY <1>9, <2>1, MoveRearranges, RearrangingKeeps
<1>10. ASSUME NEW c \in Chats, NEW n \in Index, TrimQueueBefore(c, n) PROVE IInv'
  <2>1. n \in Nat
    BY BoundsAreNaturals DEF Index
  <2> QED
    BY <1>10, <2>1, TrimRearranges, RearrangingKeeps
<1> QED
  BY <1>1, <1>2, <1>3, <1>4, <1>5, <1>6, <1>7, <1>8, <1>9, <1>10 DEF Next

\* The invariant is inductive.
THEOREM Invariance == Spec => []IInv
<1> QED
  BY InitIInv, NextIInv, PTL DEF Spec

\* Every entry is a slice that lies within its array; counts stay in range.
THEOREM TypeCorrect == Spec => []TypeOK
<1>1. IInv => TypeOK
  BY DEF IInv
<1> QED
  BY <1>1, Invariance, PTL

\* Following a queued pointer never meets nil, and a track that has left the
\* queue is in no cell, so that the garbage collector may have it.
THEOREM TracksFillTheWindow == Spec => []WindowHoldsTheTracks
<1>1. IInv => WindowHoldsTheTracks
  BY DEF IInv
<1> QED
  BY <1>1, Invariance, PTL

\* Copying within an array duplicates no track, in one chat or across chats.
THEOREM TracksAreUnique == Spec => []NoTrackTwice
<1>1. IInv => NoTrackTwice
  BY DEF IInv
<1> QED
  BY <1>1, Invariance, PTL

\* A repeat count set by /loop stays at the head, whatever is rearranged.
THEOREM RepeatsAtTheHead == Spec => []OnlyTheHeadRepeats
<1>1. IInv => OnlyTheHeadRepeats
  BY DEF IInv
<1> QED
  BY <1>1, Invariance, PTL

-----------------------------------------------------------------------------
(* The slices implement ChatQueue.                                         *)

Q == [c \in Chats |-> View(Entry(c))]

\* The operators of QueueOps are the same seen through the instance.
LEMMA SameOps ==
  /\ \A q : Queue!RemoveCurrent(q) = RemoveCurrent(q)
  /\ \A q, i : Queue!RemoveIndex(q, i) = RemoveIndex(q, i)
  /\ \A q, n : Queue!TrimBefore(q, n) = TrimBefore(q, n)
  /\ \A q : Queue!ReverseUpNext(q) = ReverseUpNext(q)
  /\ \A q, i, j : Queue!CanMove(q, i, j) <=> CanMove(q, i, j)
  /\ \A q, i, j : Queue!Moved(q, i, j) = Moved(q, i, j)
  /\ \A q : Queue!Shuffles(q) = Shuffles(q)
<1>1. \A q : Queue!RemoveCurrent(q) = RemoveCurrent(q)
  BY DEF Queue!RemoveCurrent, RemoveCurrent
<1>2. \A q, i : Queue!RemoveIndex(q, i) = RemoveIndex(q, i)
  BY DEF Queue!RemoveIndex, RemoveIndex
<1>3. \A q, n : Queue!TrimBefore(q, n) = TrimBefore(q, n)
  BY DEF Queue!TrimBefore, TrimBefore
<1>4. \A q : Queue!ReverseUpNext(q) = ReverseUpNext(q)
  BY DEF Queue!ReverseUpNext, ReverseUpNext, Queue!Reverse, Reverse
<1>5. \A q, i, j : Queue!CanMove(q, i, j) <=> CanMove(q, i, j)
  BY DEF Queue!CanMove, CanMove
<1>6. \A q, i, j : Queue!Moved(q, i, j) = Moved(q, i, j)
  BY DEF Queue!Moved, Moved, Queue!InsertAt, InsertAt, Queue!RemoveAt, RemoveAt
<1>7. \A q : Queue!Shuffles(q) = Shuffles(q)
  BY DEF Queue!Shuffles, Shuffles, Queue!Injection, Injection, Queue!IsInjective, IsInjective
<1> QED
  BY <1>1, <1>2, <1>3, <1>4, <1>5, <1>6, <1>7

LEMMA QueueIsView ==
  ASSUME IInv, NEW c \in Chats
  PROVE  /\ Q[c] = View(Entry(c)) /\ Q[c] \in Seq(Cells) /\ Len(Q[c]) = Entry(c).len
         /\ Entry(c).len \in Nat
         /\ chatCache[c] # Absent => Entry(c) = chatCache[c]
BY EntryFacts, SliceFacts DEF Q, Sound

LEMMA StoreBecomes ==
  ASSUME IInv, NEW c \in Chats, NEW r, Fits(r), Store(c, r)
  PROVE  Queue!Becomes(c, View(r))
<1>1. chatCache' = [chatCache EXCEPT ![c] = r] /\ loop' = loop
      /\ chatCache \in [Chats -> Slice \cup {Absent}]
  BY DEF Store, IInv, TypeOK
<1>2. r # Absent
  BY AbsentIsNoSlice DEF Fits, Slice
<1>3. \A d \in Chats : View(Entry(d))' = IF d = c THEN View(r) ELSE View(Entry(d))
  <2> SUFFICES ASSUME NEW d \in Chats
               PROVE  View(Entry(d))' = IF d = c THEN View(r) ELSE View(Entry(d))
    OBVIOUS
  <2>1. Entry(d)' = IF d = c THEN r ELSE Entry(d)
    BY <1>1, <1>2 DEF Entry
  <2> QED
    BY <2>1 DEF View
<1>4. Q' = [Q EXCEPT ![c] = View(r)]
  BY <1>3 DEF Q
<1> QED
  BY <1>1, <1>4 DEF Queue!Becomes, Q

\* A method that rearranges makes the queue what its operation computes.
LEMMA RearrangingBecomes ==
  ASSUME IInv, NEW c \in Chats, chatCache[c] # Absent,
         NEW r, NEW m, Rearranges(r, chatCache[c], m), Store(c, r)
  PROVE  Queue!Becomes(c, Through(Q[c], m))
<1>1. /\ Fits(r) /\ m \in [1 .. r.len -> 1 .. chatCache[c].len]
      /\ \A k \in 1 .. r.len : View(r)[k] = View(chatCache[c])[m[k]]
  BY DEF Rearranges
<1>2. Q[c] = View(chatCache[c])
  BY QueueIsView
<1>3. View(r) = [k \in 1 .. r.len |-> View(r)[k]]
  BY <1>1, SliceFacts
<1>4. View(r) = Through(Q[c], m)
  BY <1>1, <1>2, <1>3 DEF Through
<1> QED
  BY <1>1, <1>4, StoreBecomes

LEMMA RemoveCurrentImplements ==
  ASSUME IInv, NEW c \in Chats, RemoveCurrentSong(c)
  PROVE  Queue!RemoveCurrentSong(c)
<1>1. chatCache[c] # Absent /\ chatCache[c].len > 0
      /\ \E r : Store(c, r) /\ Rearranges(r, chatCache[c], AfterRemoval(chatCache[c].len, 0))
  BY RemoveCurrentRearranges
<1>2. Q[c] \in Seq(Cells) /\ Len(Q[c]) = chatCache[c].len /\ Len(Q[c]) > 0
  BY <1>1, QueueIsView
<1>3. Queue!Becomes(c, Through(Q[c], AfterRemoval(Len(Q[c]), 0)))
  BY <1>1, <1>2, RearrangingBecomes
<1>4. RemoveCurrent(Q[c]) = Through(Q[c], AfterRemoval(Len(Q[c]), 0))
  BY <1>2, RemoveCurrentIsThrough
<1> QED
  BY <1>3, <1>4, SameOps DEF Queue!RemoveCurrentSong, Q

LEMMA RemoveTrackImplements ==
  ASSUME IInv, NEW c \in Chats, NEW i \in Nat, RemoveTrack(c, i)
  PROVE  Queue!RemoveTrack(c, i)
<1>1. chatCache[c] # Absent /\ i < chatCache[c].len
      /\ \E r : Store(c, r) /\ Rearranges(r, chatCache[c], AfterRemoval(chatCache[c].len, i))
  BY RemoveTrackRearranges
<1>2. Q[c] \in Seq(Cells) /\ Len(Q[c]) = chatCache[c].len /\ i < Len(Q[c])
  BY <1>1, QueueIsView
<1>3. Queue!Becomes(c, Through(Q[c], AfterRemoval(Len(Q[c]), i)))
  BY <1>1, <1>2, RearrangingBecomes
<1>4. RemoveIndex(Q[c], i) = Through(Q[c], AfterRemoval(Len(Q[c]), i))
  BY <1>2, RemoveIsThrough
<1> QED
  BY <1>3, <1>4, SameOps DEF Queue!RemoveTrack, Q

LEMMA TrimImplements ==
  ASSUME IInv, NEW c \in Chats, NEW n \in Nat, TrimQueueBefore(c, n)
  PROVE  Queue!TrimQueueBefore(c, n)
<1>1. chatCache[c] # Absent /\ n > 1 /\ n < chatCache[c].len
      /\ \E r : Store(c, r) /\ Rearranges(r, chatCache[c], AfterTrim(chatCache[c].len, n))
  BY TrimRearranges
<1>2. Q[c] \in Seq(Cells) /\ Len(Q[c]) = chatCache[c].len /\ n < Len(Q[c])
  BY <1>1, QueueIsView
<1>3. Queue!Becomes(c, Through(Q[c], AfterTrim(Len(Q[c]), n)))
  BY <1>1, <1>2, RearrangingBecomes
<1>4. TrimBefore(Q[c], n) = Through(Q[c], AfterTrim(Len(Q[c]), n))
  BY <1>1, <1>2, TrimIsThrough
<1> QED
  BY <1>3, <1>4, SameOps DEF Queue!TrimQueueBefore, Q

LEMMA ReverseImplements ==
  ASSUME IInv, NEW c \in Chats, ReverseQueue(c)
  PROVE  Queue!ReverseQueue(c)
<1>1. chatCache[c] # Absent /\ chatCache[c].len > 2
      /\ \E r : Store(c, r) /\ Rearranges(r, chatCache[c], AfterReverse(chatCache[c].len))
  BY ReverseRearranges
<1>2. Q[c] \in Seq(Cells) /\ Len(Q[c]) = chatCache[c].len /\ Len(Q[c]) > 2
  BY <1>1, QueueIsView
<1>3. Queue!Becomes(c, Through(Q[c], AfterReverse(Len(Q[c]))))
  BY <1>1, <1>2, RearrangingBecomes
<1>4. ReverseUpNext(Q[c]) = Through(Q[c], AfterReverse(Len(Q[c])))
  BY <1>2, ReverseIsThrough
<1> QED
  BY <1>3, <1>4, SameOps DEF Queue!ReverseQueue, Q

LEMMA MoveImplements ==
  ASSUME IInv, NEW c \in Chats, NEW i \in Nat, NEW j \in Nat, MoveTrack(c, i, j)
  PROVE  Queue!MoveTrack(c, i, j)
<1>1. /\ chatCache[c] # Absent /\ i # j /\ i > 0 /\ j > 0
      /\ i < chatCache[c].len /\ j < chatCache[c].len
      /\ \E r : Store(c, r) /\ Rearranges(r, chatCache[c], AfterMove(chatCache[c].len, i, j))
  BY MoveRearranges
<1>2. Q[c] \in Seq(Cells) /\ Len(Q[c]) = chatCache[c].len /\ CanMove(Q[c], i, j)
  BY <1>1, QueueIsView DEF CanMove
<1>3. Queue!Becomes(c, Through(Q[c], AfterMove(Len(Q[c]), i, j)))
  BY <1>1, <1>2, RearrangingBecomes
<1>4. Moved(Q[c], i, j) = Through(Q[c], AfterMove(Len(Q[c]), i, j))
  BY <1>2, MoveIsThrough
<1> QED
  BY <1>2, <1>3, <1>4, SameOps DEF Queue!MoveTrack, Q

LEMMA ShuffleImplements ==
  ASSUME IInv, NEW c \in Chats, ShuffleQueue(c)
  PROVE  Queue!ShuffleQueue(c)
<1>1. /\ chatCache[c] # Absent /\ chatCache[c].len > 2
      /\ \E p \in Injection(2 .. chatCache[c].len, 2 .. chatCache[c].len) : \E r :
             Store(c, r) /\ Rearranges(r, chatCache[c], AfterShuffle(chatCache[c].len, p))
  BY ShuffleRearranges
<1>2. Q[c] \in Seq(Cells) /\ Len(Q[c]) = chatCache[c].len /\ Len(Q[c]) > 2
  BY <1>1, QueueIsView
<1>3. PICK p \in Injection(2 .. Len(Q[c]), 2 .. Len(Q[c])) :
          \E r : Store(c, r) /\ Rearranges(r, chatCache[c], AfterShuffle(Len(Q[c]), p))
  BY <1>1, <1>2
<1>4. Queue!Becomes(c, Through(Q[c], AfterShuffle(Len(Q[c]), p)))
  BY <1>1, <1>3, RearrangingBecomes
<1>5. Through(Q[c], AfterShuffle(Len(Q[c]), p)) \in Shuffles(Q[c])
  BY <1>2, ShuffleIsThrough
<1> QED
  BY <1>4, <1>5, SameOps DEF Queue!ShuffleQueue, Q

LEMMA ClearImplements ==
  ASSUME IInv, NEW c \in Chats, ClearChat(c)
  PROVE  Queue!ClearChat(c)
<1>1. chatCache' = [chatCache EXCEPT ![c] = Absent] /\ loop' = loop
      /\ chatCache \in [Chats -> Slice \cup {Absent}]
  BY DEF ClearChat, Store, IInv, TypeOK
<1>2. View(EmptySlice) = <<>>
  <2>1. View(EmptySlice) \in Seq(Cells) /\ Len(View(EmptySlice)) = 0
    BY EmptyIsSound, SliceFacts DEF Sound
  <2> QED
    BY <2>1
<1>3. \A d \in Chats : View(Entry(d))' = IF d = c THEN <<>> ELSE View(Entry(d))
  <2> SUFFICES ASSUME NEW d \in Chats
               PROVE  View(Entry(d))' = IF d = c THEN <<>> ELSE View(Entry(d))
    OBVIOUS
  <2>1. Entry(d)' = IF d = c THEN EmptySlice ELSE Entry(d)
    BY <1>1 DEF Entry, EmptySlice
  <2>2. View(Entry(d))' = IF d = c THEN View(EmptySlice) ELSE View(Entry(d))
    BY <2>1 DEF View
  <2> QED
    BY <1>2, <2>2
<1>4. Q' = [Q EXCEPT ![c] = <<>>]
  BY <1>3 DEF Q
<1> QED
  BY <1>1, <1>4 DEF Queue!ClearChat, Queue!Becomes, Q

LEMMA AddSongsImplements ==
  ASSUME IInv, NEW c \in Chats, NEW songs \in Batches, AddSongs(c, songs)
  PROVE  songs \in Queue!SeqOf(Track, MaxBatch) /\ Queue!AddSongs(c, songs)
<1> DEFINE s == Entry(c)
<1>1. /\ songs \in Seq(Track) /\ Len(songs) \in Nat /\ DOMAIN songs = 1 .. Len(songs)
      /\ songs \in SeqOf(Track, MaxBatch)
  BY BatchFacts
<1>2. PICK r \in Appended(s, songs) : chatCache' = [chatCache EXCEPT ![c] = r]
  BY DEF AddSongs
<1>3. Sound(s) /\ s.len \in Nat
  BY EntryFacts, SliceFacts DEF Sound
<1>4. Fits(r) /\ r.len = s.len + Len(songs) /\ View(r) = View(s) \o songs
  BY <1>1, <1>2, <1>3, AppendedView
<1>5. Q[c] = View(s) /\ Len(Q[c]) = s.len
  BY QueueIsView
<1>6. Len(Q[c]) + Len(songs) <= MaxCap
  BY <1>4, <1>5, SliceFacts, BoundsAreNaturals DEF Fits
<1>7. r # Absent /\ chatCache \in [Chats -> Slice \cup {Absent}]
  BY <1>4, AbsentIsNoSlice DEF Fits, Slice, IInv, TypeOK
<1>8. Q' = [Q EXCEPT ![c] = Q[c] \o songs]
  <2>1. ASSUME NEW d \in Chats
        PROVE  View(Entry(d))' = IF d = c THEN View(r) ELSE View(Entry(d))
    <3>1. Entry(d)' = IF d = c THEN r ELSE Entry(d)
      BY <1>2, <1>7 DEF Entry
    <3> QED
      BY <3>1 DEF View
  <2>2. Q' = [Q EXCEPT ![c] = View(r)]
    BY <2>1 DEF Q
  <2> QED
    BY <1>4, <1>5, <2>2
<1>9. ASSUME NEW t, Fresh(t) PROVE Queue!Fresh(t)
  <2> SUFFICES ASSUME NEW d \in Chats, t \in ToSet(Q[d]) PROVE FALSE
    BY DEF Queue!Fresh, Queue!ToSet, ToSet, Q
  <2>1. /\ Q[d] = View(Entry(d)) /\ Fits(Entry(d)) /\ Len(Q[d]) = Entry(d).len
    BY QueueIsView, EntryFacts DEF Sound
  <2>2. PICK k \in DOMAIN Q[d] : t = Q[d][k]
    BY DEF ToSet
  <2>3. Entry(d).off + k \in DOMAIN Entry(d).cells
        /\ Q[d][k] = Entry(d).cells[Entry(d).off + k]
    BY <2>1, <2>2, SliceFacts
  <2> QED
    BY <1>9, <2>2, <2>3 DEF Fresh
<1>10. /\ \A i \in DOMAIN songs : Queue!Fresh(songs[i])
       /\ Queue!IsInjective(songs)
       /\ loop' = [t \in Track |-> IF t \in Queue!ToSet(songs) THEN 0 ELSE loop[t]]
  BY <1>9 DEF AddSongs, IsInjective, Queue!IsInjective, ToSet, Queue!ToSet
<1>11. songs \in Queue!SeqOf(Track, MaxBatch)
  BY <1>1 DEF SeqOf, Queue!SeqOf
<1> QED
  BY <1>6, <1>8, <1>10, <1>11 DEF Queue!AddSongs, Queue!Enqueue, Q

LEMMA SetLoopCountImplements ==
  ASSUME IInv, NEW c \in Chats, NEW n \in 0 .. MaxLoop, SetLoopCount(c, n)
  PROVE  Queue!SetLoopCount(c, n)
<1>1. /\ chatCache[c] # Absent /\ chatCache[c].len > 0
      /\ loop' = [loop EXCEPT ![View(chatCache[c])[1]] = n] /\ chatCache' = chatCache
  BY DEF SetLoopCount, HasTracks
<1>2. Q[c] = View(chatCache[c]) /\ Q[c] \in Seq(Cells) /\ Len(Q[c]) = chatCache[c].len
  BY <1>1, QueueIsView
<1>3. Q[c] # <<>> /\ Head(Q[c]) = View(chatCache[c])[1]
  BY <1>1, <1>2
<1>4. Q' = Q
  BY <1>1 DEF Q, Entry, View
<1> QED
  BY <1>1, <1>3, <1>4 DEF Queue!SetLoopCount, Q

LEMMA NextImplements == IInv /\ [Next]_vars => [Queue!QNext]_(Queue!qvars)
<1> SUFFICES ASSUME IInv, [Next]_vars PROVE [Queue!QNext]_(Queue!qvars)
  OBVIOUS
<1>1. CASE UNCHANGED vars
  <2>1. Q' = Q /\ loop' = loop
    BY <1>1 DEF vars, Q, Entry, View
  <2> QED
    BY <2>1 DEF Queue!qvars, Q
<1>2. ASSUME NEW c \in Chats, NEW songs \in Batches, AddSongs(c, songs) PROVE Queue!QNext
  BY <1>2, AddSongsImplements DEF Queue!QNext
<1>3. ASSUME NEW c \in Chats, RemoveCurrentSong(c) PROVE Queue!QNext
  BY <1>3, RemoveCurrentImplements DEF Queue!QNext
<1>4. ASSUME NEW c \in Chats, NEW i \in Index, RemoveTrack(c, i) PROVE Queue!QNext
  <2>1. i \in Nat /\ i \in Queue!Index
    BY BoundsAreNaturals DEF Index, Queue!Index
  <2> QED
    BY <1>4, <2>1, RemoveTrackImplements DEF Queue!QNext
<1>5. ASSUME NEW c \in Chats, ClearChat(c) PROVE Queue!QNext
  BY <1>5, ClearImplements DEF Queue!QNext
<1>6. ASSUME NEW c \in Chats, NEW n \in 0 .. MaxLoop, SetLoopCount(c, n) PROVE Queue!QNext
  BY <1>6, SetLoopCountImplements DEF Queue!QNext
<1>7. ASSUME NEW c \in Chats, ShuffleQueue(c) PROVE Queue!QNext
  BY <1>7, ShuffleImplements DEF Queue!QNext
<1>8. ASSUME NEW c \in Chats, ReverseQueue(c) PROVE Queue!QNext
  BY <1>8, ReverseImplements DEF Queue!QNext
<1>9. ASSUME NEW c \in Chats, NEW i \in Index, NEW j \in Index, MoveTrack(c, i, j) PROVE Queue!QNext
  <2>1. i \in Nat /\ j \in Nat /\ i \in Queue!Index /\ j \in Queue!Index
    BY BoundsAreNaturals DEF Index, Queue!Index
  <2> QED
    BY <1>9, <2>1, MoveImplements DEF Queue!QNext
<1>10. ASSUME NEW c \in Chats, NEW n \in Index, TrimQueueBefore(c, n) PROVE Queue!QNext
  <2>1. n \in Nat /\ n \in Queue!Index
    BY BoundsAreNaturals DEF Index, Queue!Index
  <2> QED
    BY <1>10, <2>1, TrimImplements DEF Queue!QNext
<1> QED
  BY <1>1, <1>2, <1>3, <1>4, <1>5, <1>6, <1>7, <1>8, <1>9, <1>10 DEF Next

\* Whatever the slices do, a caller of ChatCacher sees a queue per chat.
THEOREM SlicesAreAQueue == Spec => QueueSpec
<1>1. Init => Queue!QInit
  <2> SUFFICES ASSUME Init PROVE Queue!QInit
    OBVIOUS
  <2>1. \A c \in Chats : Entry(c) = EmptySlice
    BY DEF Init, Entry
  <2>2. View(EmptySlice) = <<>>
    <3>1. View(EmptySlice) \in Seq(Cells) /\ Len(View(EmptySlice)) = 0
      BY EmptyIsSound, SliceFacts DEF Sound
    <3> QED
      BY <3>1
  <2>3. Q = [c \in Chats |-> <<>>] /\ loop = [t \in Track |-> 0]
    BY <2>1, <2>2 DEF Q, Init
  <2> QED
    BY <2>3 DEF Queue!QInit, Q
<1> QED
  BY <1>1, NextImplements, Invariance, PTL DEF Spec, QueueSpec, Queue!QSpec

\* RemoveTrack, TrimQueueBefore and MoveTrack act on the positions they are
\* given, the last one and the one behind the head included.
THEOREM MethodsHitTheirIndex == Spec => IndexedMethods
<1>1. IInv => \A c \in Chats, i \in Index :
         /\ RemoveTrack(c, i) => Queue!RemoveTrack(c, i)
         /\ TrimQueueBefore(c, i) => Queue!TrimQueueBefore(c, i)
         /\ \A j \in Index : MoveTrack(c, i, j) => Queue!MoveTrack(c, i, j)
  <2>1. \A i \in Index : i \in Nat
    BY BoundsAreNaturals DEF Index
  <2> QED
    BY <2>1, RemoveTrackImplements, TrimImplements, MoveImplements
<1> QED
  BY <1>1, Invariance, PTL DEF IndexedMethods
=============================================================================
