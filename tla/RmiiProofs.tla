----------------------------- MODULE RmiiProofs -----------------------------
(***************************************************************************)
(* The Ethernet MAC: no buffer is in two places and none is lost, and the  *)
(* frames stay in order, for every length of the rings, every pool of      *)
(* buffers and every number of frames.                                     *)
(***************************************************************************)
EXTENDS Rmii, FiniteSetTheorems, SequenceTheorems, TLAPS

(* What a ring holds, and that it holds nothing twice.                      *)
Contents(r) == {r.slots[i] : i \in Stands(r)}
Once(r)     == \A i, j \in Stands(r) : r.slots[i] = r.slots[j] => i = j

-----------------------------------------------------------------------------
(* Indices go round. *)
LEMMA Sizes == RingLen \in Nat /\ Buffers \in Nat /\ 0 < Buffers /\ Buffers < RingLen /\ TxLimit \in Nat
               /\ MaxFrames \in Nat /\ MaxSends \in Nat /\ MaxUnplugs \in Nat
  BY RmiiAssumption

LEMMA ModBelow == ASSUME NEW n \in Nat, NEW k \in Nat, n < k PROVE n % k = n
  OBVIOUS

LEMMA ModOnce == ASSUME NEW n \in Nat, NEW k \in Nat, k <= n, n < 2 * k PROVE n % k = n - k
  OBVIOUS

LEMMA SuccIs ==
  ASSUME NEW i \in Slot
  PROVE  Succ(i) \in Slot /\ Succ(i) = IF i = RingLen - 1 THEN 0 ELSE i + 1
  <1>1. CASE i = RingLen - 1 BY <1>1, Sizes, ModOnce DEF Slot, Succ
  <1>2. CASE i # RingLen - 1 BY <1>2, Sizes, ModBelow DEF Slot, Succ
  <1>3. QED BY <1>1, <1>2

LEMMA LengthIs ==
  ASSUME NEW S, NEW r \in RingOf(S)
  PROVE  Length(r) = IF r.tail <= r.head THEN r.head - r.tail ELSE r.head + RingLen - r.tail
  <1> USE Sizes DEF RingOf, Slot
  <1>1. CASE r.tail <= r.head
    <2>1. r.head + RingLen - r.tail \in Nat /\ RingLen <= r.head + RingLen - r.tail /\ r.head + RingLen - r.tail < 2 * RingLen BY <1>1
    <2>2. QED BY <1>1, <2>1, ModOnce DEF Length
  <1>2. CASE ~(r.tail <= r.head)
    <2>1. r.head + RingLen - r.tail \in Nat /\ r.head + RingLen - r.tail < RingLen BY <1>2
    <2>2. QED BY <1>2, <2>1, ModBelow DEF Length
  <1>3. QED BY <1>1, <1>2

-----------------------------------------------------------------------------
(* What the operations of a ring do to what it holds.                       *)
LEMMA EmptyStands ==
  ASSUME NEW S, NEW r \in RingOf(S)
  PROVE  IsEmpty(r) <=> Stands(r) = {}
  <1> USE Sizes DEF RingOf, Slot, Stands, IsEmpty
  <1>1. CASE r.head = r.tail BY <1>1
  <1>2. CASE r.head # r.tail
    <2>1. r.tail \in Stands(r) BY <1>2
    <2>2. QED BY <1>2, <2>1
  <1>3. QED BY <1>1, <1>2

LEMMA ClearRing ==
  ASSUME NEW S, NEW r \in RingOf(S)
  PROVE  Clear(r) \in RingOf(S) /\ IsEmpty(Clear(r))
  <1>1. 0 \in Slot BY Sizes DEF Slot
  <1>2. Clear(r) \in RingOf(S) BY <1>1 DEF RingOf, Clear
  <1>3. Clear(r).head = 0 /\ Clear(r).tail = 0 BY <1>1 DEF RingOf, Clear
  <1>4. QED BY <1>2, <1>3 DEF IsEmpty

LEMMA PushStands ==
  ASSUME NEW S, NEW r \in RingOf(S), NEW e \in S, ~IsFull(r)
  PROVE  /\ Push(r, e) \in RingOf(S)
         /\ r.head \in Slot \ Stands(r) /\ Stands(Push(r, e)) = Stands(r) \cup {r.head}
         /\ Push(r, e).slots[r.head] = e
         /\ \A i \in Stands(r) : Push(r, e).slots[i] = r.slots[i]
  <1> DEFINE p == Push(r, e)
  <1>1. r.head \in Slot /\ r.tail \in Slot /\ r.slots \in [Slot -> S] BY DEF RingOf
  <1>2. /\ p = [slots |-> [r.slots EXCEPT ![r.head] = e], head |-> Succ(r.head), tail |-> r.tail]
        /\ p \in RingOf(S)
    <2>1. Succ(r.head) \in Slot /\ [r.slots EXCEPT ![r.head] = e] \in [Slot -> S] BY <1>1, SuccIs
    <2>2. p = [r EXCEPT !.slots = [@ EXCEPT ![r.head] = e], !.head = Succ(@)] BY DEF Push
    <2>3. p \in RingOf(S) BY <2>1, <2>2 DEF RingOf
    <2>4. p.slots = [r.slots EXCEPT ![r.head] = e] /\ p.head = Succ(r.head) /\ p.tail = r.tail
      BY <2>2 DEF RingOf
    <2>5. QED BY <2>3, <2>4 DEF RingOf
  <1>3. r.head \notin Stands(r) BY <1>1 DEF Stands, Slot
  <1>4. Stands(p) = Stands(r) \cup {r.head}
    <2>1. p.head = Succ(r.head) /\ p.tail = r.tail /\ Succ(r.head) # r.tail BY <1>2 DEF IsFull
    <2>2. Succ(r.head) = IF r.head = RingLen - 1 THEN 0 ELSE r.head + 1 BY <1>1, SuccIs
    <2>3. ASSUME NEW i \in Slot PROVE i \in Stands(p) <=> i \in Stands(r) \cup {r.head}
      <3> USE Sizes DEF Slot, Stands
      <3>1. CASE r.head = RingLen - 1 BY <1>1, <2>1, <2>2, <3>1
      <3>2. CASE r.head # RingLen - 1 BY <1>1, <2>1, <2>2, <3>2
      <3>3. QED BY <3>1, <3>2
    <2>4. QED BY <1>1, <2>3 DEF Stands
  <1>5. p.slots[r.head] = e /\ \A i \in Stands(r) : p.slots[i] = r.slots[i]
    BY <1>1, <1>2, <1>3 DEF Stands
  <1>6. QED BY <1>1, <1>2, <1>3, <1>4, <1>5

LEMMA PopStands ==
  ASSUME NEW S, NEW r \in RingOf(S), ~IsEmpty(r)
  PROVE  /\ Pop(r) \in RingOf(S) /\ Pop(r).slots = r.slots
         /\ r.tail \in Stands(r) /\ Stands(Pop(r)) = Stands(r) \ {r.tail}
  <1> DEFINE p == Pop(r)
  <1>1. r.head \in Slot /\ r.tail \in Slot /\ r.head # r.tail BY DEF RingOf, IsEmpty
  <1>2. p = [slots |-> r.slots, head |-> r.head, tail |-> Succ(r.tail)] /\ p \in RingOf(S)
    BY <1>1, SuccIs DEF RingOf, Pop
  <1>3. r.tail \in Stands(r) BY <1>1 DEF Stands, Slot
  <1>4. Succ(r.tail) = IF r.tail = RingLen - 1 THEN 0 ELSE r.tail + 1 BY <1>1, SuccIs
  <1>5. ASSUME NEW i \in Slot PROVE i \in Stands(p) <=> i \in Stands(r) \ {r.tail}
    <2>1. CASE r.tail = RingLen - 1 BY Sizes, <1>1, <1>2, <1>4, <2>1 DEF Slot, Stands
    <2>2. CASE r.tail # RingLen - 1 BY Sizes, <1>1, <1>2, <1>4, <2>2 DEF Slot, Stands
    <2>3. QED BY <2>1, <2>2
  <1>6. QED BY <1>2, <1>3, <1>5 DEF Stands

LEMMA PushRing ==
  ASSUME NEW S, NEW r \in RingOf(S), NEW e \in S, ~IsFull(r), Once(r), e \notin Contents(r)
  PROVE  /\ Push(r, e) \in RingOf(S) /\ Once(Push(r, e)) /\ ~IsEmpty(Push(r, e))
         /\ Contents(Push(r, e)) = Contents(r) \cup {e}
  <1>1. Push(r, e) \in RingOf(S) BY PushStands
  <1>2. Stands(Push(r, e)) = Stands(r) \cup {r.head} /\ r.head \notin Stands(r) BY PushStands
  <1>3. Push(r, e).slots[r.head] = e BY PushStands
  <1>4. \A i \in Stands(r) : Push(r, e).slots[i] = r.slots[i] BY PushStands
  <1>5. ~IsEmpty(Push(r, e)) BY <1>1, <1>2, EmptyStands
  <1>6. Once(Push(r, e)) BY <1>2, <1>3, <1>4 DEF Once, Contents
  <1>7. Contents(Push(r, e)) = Contents(r) \cup {e} BY <1>2, <1>3, <1>4 DEF Contents
  <1>8. QED BY <1>1, <1>5, <1>6, <1>7

LEMMA PopRing ==
  ASSUME NEW S, NEW r \in RingOf(S), Once(r), ~IsEmpty(r)
  PROVE  /\ Pop(r) \in RingOf(S) /\ Once(Pop(r))
         /\ Oldest(r) \in S /\ Oldest(r) \in Contents(r) /\ Contents(Pop(r)) = Contents(r) \ {Oldest(r)}
  <1>1. Pop(r) \in RingOf(S) /\ Pop(r).slots = r.slots BY PopStands
  <1>2. r.tail \in Stands(r) /\ Stands(Pop(r)) = Stands(r) \ {r.tail} BY PopStands
  <1>3. Oldest(r) \in S /\ Oldest(r) \in Contents(r) BY <1>2 DEF Oldest, Contents, RingOf
  <1>4. Once(Pop(r)) BY <1>1, <1>2 DEF Once
  <1>5. Contents(Pop(r)) = Contents(r) \ {Oldest(r)} BY <1>1, <1>2 DEF Once, Contents, Oldest
  <1>6. QED BY <1>1, <1>3, <1>4, <1>5

-----------------------------------------------------------------------------
(* A ring whose entries have different buffers is never full: there are fewer *)
(* buffers than slots.                                                      *)
LEMMA FullStands == ASSUME NEW S, NEW r \in RingOf(S), IsFull(r) PROVE Stands(r) = Slot \ {r.head}
  <1>1. r.head \in Slot /\ r.tail \in Slot /\ r.tail = IF r.head = RingLen - 1 THEN 0 ELSE r.head + 1
    BY SuccIs DEF RingOf, IsFull
  <1>2. ASSUME NEW i \in Slot PROVE i \in Stands(r) <=> i # r.head
    BY Sizes, <1>1 DEF Slot, Stands
  <1>3. QED BY <1>2 DEF Stands

LEMMA SlotCount == ASSUME NEW h \in Slot PROVE IsFiniteSet(Slot \ {h}) /\ Cardinality(Slot \ {h}) = RingLen - 1
  <1>1. IsFiniteSet(Slot) /\ Cardinality(Slot) = RingLen
    <2>1. 0 \in Int /\ RingLen - 1 \in Int /\ ~(0 > RingLen - 1) /\ RingLen - 1 - 0 + 1 = RingLen BY Sizes
    <2>2. QED BY <2>1, FS_Interval DEF Slot
  <1>2. QED BY <1>1, FS_RemoveElement

LEMMA IdCount == ASSUME NEW x \in Id PROVE IsFiniteSet(Id \ {x}) /\ Cardinality(Id \ {x}) = Buffers - 1
  <1>1. IsFiniteSet(Id) /\ Cardinality(Id) = Buffers
    <2>1. 0 \in Int /\ Buffers - 1 \in Int /\ ~(0 > Buffers - 1) /\ Buffers - 1 - 0 + 1 = Buffers BY Sizes
    <2>2. QED BY <2>1, FS_Interval DEF Id
  <1>2. QED BY <1>1, FS_RemoveElement

LEMMA NeverFull ==
  ASSUME NEW S, NEW r \in RingOf(S), NEW x \in Id, NEW key \in [S -> Id],
         \A i, j \in Stands(r) : key[r.slots[i]] = key[r.slots[j]] => i = j,
         \A i \in Stands(r) : key[r.slots[i]] # x
  PROVE  ~IsFull(r)
  <1> SUFFICES ASSUME IsFull(r) PROVE FALSE OBVIOUS
  <1> DEFINE T == Slot \ {r.head}
  <1> DEFINE R == Id \ {x}
  <1> DEFINE g == [i \in T |-> key[r.slots[i]]]
  <1>1. T = Stands(r) /\ r.slots \in [Slot -> S] /\ r.head \in Slot BY FullStands DEF RingOf
  <1>2. g \in [T -> R]
    <2>1. ASSUME NEW i \in T PROVE key[r.slots[i]] \in R BY <1>1, <2>1
    <2>2. QED BY <2>1
  <1>3. g \in Injection(T, R)
    <2>1. \A i, j \in T : g[i] = g[j] => i = j BY <1>1
    <2> HIDE DEF g, T, R
    <2>2. QED BY <1>2, <2>1 DEF Injection, IsInjective
  <1>4. IsFiniteSet(R) /\ Cardinality(R) = Buffers - 1 /\ Cardinality(T) = RingLen - 1
    BY <1>1, SlotCount, IdCount
  <1> HIDE DEF T, R, g
  <1>5. Cardinality(T) <= Cardinality(R) BY <1>3, <1>4, FS_Injection
  <1>6. QED BY <1>4, <1>5, Sizes

LEMMA FreeNotFull ==
  ASSUME NEW r \in RingOf(Id), Once(r), NEW x \in Id, x \notin Contents(r)
  PROVE  ~IsFull(r)
  <1> DEFINE key == [id \in Id |-> id]
  <1>1. \A i \in Stands(r) : key[r.slots[i]] = r.slots[i] BY DEF RingOf, Stands
  <1>2. \A i, j \in Stands(r) : key[r.slots[i]] = key[r.slots[j]] => i = j BY <1>1 DEF Once
  <1>3. \A i \in Stands(r) : key[r.slots[i]] # x BY <1>1 DEF Contents
  <1>4. key \in [Id -> Id] OBVIOUS
  <1> HIDE DEF key
  <1>5. QED BY <1>2, <1>3, <1>4, NeverFull

LEMMA UsedNotFull ==
  ASSUME NEW r \in RingOf(Taken), Once(r), NEW x \in Id,
         \A f, g \in Contents(r) : f.id = g.id => f = g,
         \A f \in Contents(r) : f.id # x
  PROVE  ~IsFull(r)
  <1> DEFINE key == [f \in Taken |-> f.id]
  <1>1. \A i \in Stands(r) : r.slots[i] \in Contents(r) /\ key[r.slots[i]] = r.slots[i].id
    BY DEF RingOf, Stands, Contents
  <1>2. \A i, j \in Stands(r) : key[r.slots[i]] = key[r.slots[j]] => i = j BY <1>1 DEF Once
  <1>3. \A i \in Stands(r) : key[r.slots[i]] # x BY <1>1
  <1>4. key \in [Taken -> Id] BY DEF Taken
  <1> HIDE DEF key
  <1>5. QED BY <1>2, <1>3, <1>4, NeverFull

-----------------------------------------------------------------------------
(* The entries of a ring in their order. *)
LEMMA Wraps ==
  ASSUME NEW n \in Nat, NEW k \in Nat, n < 2 * k
  PROVE  n % k = IF n < k THEN n ELSE n - k
  <1>1. ASSUME n < k PROVE n % k = n BY <1>1, ModBelow
  <1>2. ASSUME ~(n < k) PROVE n % k = n - k BY <1>2, ModOnce
  <1>3. QED BY <1>1, <1>2

(* Where the i-th entry of a ring stands that starts at t and ends at h.     *)
LEMMA Between ==
  ASSUME NEW t \in Nat, NEW h \in Nat, NEW k \in Nat, t < k, h < k, NEW i \in Nat, 1 <= i,
         i <= IF t <= h THEN h - t ELSE h + k - t, NEW n, n = t + i - 1
  PROVE  /\ n \in Nat /\ n < 2 * k
         /\ LET s == IF n < k THEN n ELSE n - k
            IN  s \in 0 .. k - 1 /\ (IF t <= h THEN t <= s /\ s < h ELSE t <= s \/ s < h)
  OBVIOUS

LEMMA SlotOf ==
  ASSUME NEW S, NEW r \in RingOf(S), NEW i \in 1 .. Length(r)
  PROVE  /\ (r.tail + i - 1) % RingLen \in Stands(r)
         /\ (r.tail + i - 1) % RingLen = IF r.tail + i - 1 < RingLen THEN r.tail + i - 1 ELSE r.tail + i - 1 - RingLen
  <1>1. r.head \in Nat /\ r.tail \in Nat /\ r.tail < RingLen /\ r.head < RingLen /\ RingLen \in Nat
    BY Sizes DEF RingOf, Slot
  <1>2. Length(r) = IF r.tail <= r.head THEN r.head - r.tail ELSE r.head + RingLen - r.tail BY LengthIs
  <1>3. i \in Nat /\ 1 <= i /\ i <= IF r.tail <= r.head THEN r.head - r.tail ELSE r.head + RingLen - r.tail
    BY <1>1, <1>2
  <1>4. SUFFICES ASSUME NEW n, n = r.tail + i - 1
                 PROVE  n % RingLen \in Stands(r) /\ n % RingLen = IF n < RingLen THEN n ELSE n - RingLen
    BY <1>1, <1>3
  <1>5. /\ n \in Nat /\ n < 2 * RingLen
        /\ LET s == IF n < RingLen THEN n ELSE n - RingLen
           IN  s \in 0 .. RingLen - 1
               /\ (IF r.tail <= r.head THEN r.tail <= s /\ s < r.head ELSE r.tail <= s \/ s < r.head)
    BY <1>1, <1>3, <1>4, Between
  <1>6. n % RingLen = IF n < RingLen THEN n ELSE n - RingLen BY <1>1, <1>5, Wraps
  <1>7. n % RingLen \in Stands(r) BY <1>5, <1>6 DEF Stands, Slot
  <1>8. QED BY <1>6, <1>7

LEMMA EntriesType ==
  ASSUME NEW S, NEW r \in RingOf(S)
  PROVE  /\ Length(r) \in Nat /\ Entries(r) \in Seq(S) /\ Len(Entries(r)) = Length(r)
         /\ \A i \in 1 .. Length(r) : Entries(r)[i] = r.slots[(r.tail + i - 1) % RingLen]
         /\ IsEmpty(r) <=> Entries(r) = << >>
  <1>1. r.head \in Slot /\ r.tail \in Slot /\ r.slots \in [Slot -> S] BY DEF RingOf
  <1>2. Length(r) \in Nat /\ (Length(r) = 0 <=> r.head = r.tail) BY <1>1, LengthIs, Sizes DEF Slot
  <1>3. \A i \in 1 .. Length(r) : r.slots[(r.tail + i - 1) % RingLen] \in S
    BY <1>1, SlotOf DEF Stands
  <1>4. Entries(r) \in Seq(S) /\ Len(Entries(r)) = Length(r) BY <1>2, <1>3 DEF Entries
  <1>5. Entries(r) = << >> <=> Length(r) = 0 BY <1>4, EmptySeq
  <1>6. \A i \in 1 .. Length(r) : Entries(r)[i] = r.slots[(r.tail + i - 1) % RingLen] BY DEF Entries
  <1>7. QED BY <1>2, <1>4, <1>5, <1>6 DEF IsEmpty

LEMMA EntriesOfPush ==
  ASSUME NEW S, NEW r \in RingOf(S), NEW e \in S, ~IsFull(r)
  PROVE  Entries(Push(r, e)) = Append(Entries(r), e)
  <1> DEFINE p == Push(r, e)
  <1>1. r.head \in Slot /\ r.tail \in Slot /\ r.slots \in [Slot -> S] BY DEF RingOf
  <1>2. p \in RingOf(S) BY PushStands
  <1>3. p.head = Succ(r.head) /\ p.tail = r.tail BY DEF Push, RingOf
  <1>4. p.slots[r.head] = e /\ \A i \in Stands(r) : p.slots[i] = r.slots[i] BY PushStands
  <1> HIDE DEF p
  <1>5. Succ(r.head) \in Slot /\ Succ(r.head) = (IF r.head = RingLen - 1 THEN 0 ELSE r.head + 1)
        /\ Succ(r.head) # r.tail
    BY <1>1, SuccIs DEF IsFull
  <1>6. Length(r) = IF r.tail <= r.head THEN r.head - r.tail ELSE r.head + RingLen - r.tail BY LengthIs
  <1>7. Length(p) = IF p.tail <= p.head THEN p.head - p.tail ELSE p.head + RingLen - p.tail BY <1>2, LengthIs
  <1>8. Length(p) = Length(r) + 1 BY <1>1, <1>3, <1>5, <1>6, <1>7, Sizes DEF Slot
  <1>9. Length(r) \in Nat /\ Entries(r) \in Seq(S) /\ Len(Entries(r)) = Length(r)
        /\ \A i \in 1 .. Length(r) : Entries(r)[i] = r.slots[(r.tail + i - 1) % RingLen]
    BY EntriesType
  <1>10. Entries(p) \in Seq(S) /\ Len(Entries(p)) = Length(p)
         /\ \A i \in 1 .. Length(p) : Entries(p)[i] = p.slots[(p.tail + i - 1) % RingLen]
    BY <1>2, EntriesType
  <1>11. ASSUME NEW i \in 1 .. Length(p) PROVE Entries(p)[i] = Append(Entries(r), e)[i]
    <2>1. CASE i \in 1 .. Length(r)
      <3>1. (r.tail + i - 1) % RingLen \in Stands(r) BY <2>1, SlotOf
      <3>2. Entries(p)[i] = Entries(r)[i] BY <1>3, <1>4, <1>9, <1>10, <2>1, <3>1
      <3>3. QED BY <1>9, <2>1, <3>2
    <2>2. CASE i = Length(r) + 1
      <3>1. (p.tail + i - 1) % RingLen = IF p.tail + i - 1 < RingLen THEN p.tail + i - 1 ELSE p.tail + i - 1 - RingLen
        BY <1>2, SlotOf
      <3>2. (IF p.tail + i - 1 < RingLen THEN p.tail + i - 1 ELSE p.tail + i - 1 - RingLen) = r.head
        <4>1. r.head \in Nat /\ r.tail \in Nat /\ r.tail < RingLen /\ r.head < RingLen /\ RingLen \in Nat
          BY <1>1, Sizes DEF Slot
        <4>2. i - 1 = IF r.tail <= r.head THEN r.head - r.tail ELSE r.head + RingLen - r.tail
          BY <1>6, <1>9, <2>2
        <4>3. p.tail + i - 1 = IF r.tail <= r.head THEN r.head ELSE r.head + RingLen
          BY <1>3, <1>9, <2>2, <4>1, <4>2
        <4>4. p.tail + i - 1 < RingLen <=> r.tail <= r.head BY <4>1, <4>3
        <4>5. CASE r.tail <= r.head BY <4>1, <4>3, <4>4, <4>5
        <4>6. CASE ~(r.tail <= r.head)
          <5>1. p.tail + i - 1 - RingLen = r.head BY SMTT(30), <1>3, <1>9, <2>2, <4>1, <4>3, <4>6
          <5>2. QED BY <4>4, <4>6, <5>1
        <4>7. QED BY <4>5, <4>6
      <3>3. Entries(p)[i] = e BY <1>4, <1>10, <3>1, <3>2
      <3>4. QED BY <1>9, <2>2, <3>3
    <2>3. QED BY <1>8, <1>9, <2>1, <2>2
  <1>12. QED
    <2>1. Append(Entries(r), e) \in Seq(S) /\ Len(Append(Entries(r), e)) = Length(r) + 1 BY <1>9, AppendProperties
    <2>2. QED BY <1>8, <1>10, <1>11, <2>1, SeqEqual DEF p

LEMMA EntriesOfPop ==
  ASSUME NEW S, NEW r \in RingOf(S), ~IsEmpty(r)
  PROVE  Head(Entries(r)) = Oldest(r) /\ Entries(Pop(r)) = Tail(Entries(r))
  <1> DEFINE p == Pop(r)
  <1>1. r.head \in Slot /\ r.tail \in Slot /\ r.slots \in [Slot -> S] /\ r.head # r.tail BY DEF RingOf, IsEmpty
  <1>2. p \in RingOf(S) BY PopStands
  <1>3. p.head = r.head /\ p.tail = Succ(r.tail) /\ p.slots = r.slots BY DEF Pop, RingOf
  <1> HIDE DEF p
  <1>4. Succ(r.tail) \in Slot /\ Succ(r.tail) = (IF r.tail = RingLen - 1 THEN 0 ELSE r.tail + 1)
    BY <1>1, SuccIs
  <1>5. Length(r) = IF r.tail <= r.head THEN r.head - r.tail ELSE r.head + RingLen - r.tail BY LengthIs
  <1>6. Length(p) = IF p.tail <= p.head THEN p.head - p.tail ELSE p.head + RingLen - p.tail BY <1>2, LengthIs
  <1>7. Length(p) = Length(r) - 1 /\ Length(r) > 0 BY <1>1, <1>3, <1>4, <1>5, <1>6, Sizes DEF Slot
  <1>8. Length(r) \in Nat /\ Entries(r) \in Seq(S) /\ Len(Entries(r)) = Length(r)
        /\ \A i \in 1 .. Length(r) : Entries(r)[i] = r.slots[(r.tail + i - 1) % RingLen]
    BY EntriesType
  <1>9. Entries(p) \in Seq(S) /\ Len(Entries(p)) = Length(p)
        /\ \A i \in 1 .. Length(p) : Entries(p)[i] = p.slots[(p.tail + i - 1) % RingLen]
    BY <1>2, EntriesType
  <1>10. Entries(r) # << >> BY <1>7, <1>8, EmptySeq
  <1>11. Tail(Entries(r)) \in Seq(S) /\ Len(Tail(Entries(r))) = Length(r) - 1
         /\ \A i \in 1 .. Length(r) - 1 : Tail(Entries(r))[i] = Entries(r)[i + 1]
    BY <1>8, <1>10, HeadTailProperties
  <1>12. ASSUME NEW i \in 1 .. Length(p) PROVE Entries(p)[i] = Tail(Entries(r))[i]
    <2>1. i + 1 \in 1 .. Length(r) /\ i \in 1 .. Length(r) - 1 BY <1>7, <1>8
    <2>2. (r.tail + (i + 1) - 1) % RingLen
          = IF r.tail + (i + 1) - 1 < RingLen THEN r.tail + (i + 1) - 1 ELSE r.tail + (i + 1) - 1 - RingLen
      BY <2>1, SlotOf
    <2>3. (p.tail + i - 1) % RingLen = IF p.tail + i - 1 < RingLen THEN p.tail + i - 1 ELSE p.tail + i - 1 - RingLen
      BY <1>2, SlotOf
    <2>4. (IF r.tail + (i + 1) - 1 < RingLen THEN r.tail + (i + 1) - 1 ELSE r.tail + (i + 1) - 1 - RingLen)
          = (IF p.tail + i - 1 < RingLen THEN p.tail + i - 1 ELSE p.tail + i - 1 - RingLen)
      <3>1. /\ r.tail \in Nat /\ r.tail < RingLen /\ RingLen \in Nat
            /\ p.tail = IF r.tail = RingLen - 1 THEN 0 ELSE r.tail + 1
        BY <1>1, <1>3, <1>4, Sizes DEF Slot
      <3>2. i \in Nat /\ 1 <= i /\ i + 1 <= RingLen
        BY <1>1, <1>5, <1>7, <2>1, Sizes DEF Slot
      <3>3. QED BY <3>1, <3>2
    <2>5. (p.tail + i - 1) % RingLen = (r.tail + (i + 1) - 1) % RingLen BY <2>2, <2>3, <2>4
    <2>6. QED BY <1>3, <1>8, <1>9, <1>11, <2>1, <2>5
  <1>13. Entries(p) = Tail(Entries(r)) BY <1>7, <1>9, <1>11, <1>12, SeqEqual
  <1>14. Head(Entries(r)) = Oldest(r)
    <2>1. 1 \in 1 .. Length(r) /\ (r.tail + 1 - 1) = r.tail BY <1>1, <1>7, <1>8, Sizes DEF Slot
    <2>2. r.tail % RingLen = r.tail BY <1>1, Sizes, ModBelow DEF Slot
    <2>3. QED BY <1>8, <1>10, <2>1, <2>2 DEF Oldest
  <1>15. QED BY <1>13, <1>14 DEF p

-----------------------------------------------------------------------------
(* The operations of the MAC, field by field. *)
Rest(m, n) == n.rxEnable = m.rxEnable /\ n.txIrq = m.txIrq /\ n.toHost = m.toHost

LEMMA NoIdIsNone == NoId \notin Id
  BY Sizes DEF NoId, Id

LEMMA PresentNothing ==
  ASSUME NEW m, m.usedValid \/ IsEmpty(m.used)
  PROVE  Present(m) = m
  BY DEF Present

LEMMA PresentNext ==
  ASSUME NEW m \in MacType, ~m.usedValid, ~IsEmpty(m.used)
  PROVE  /\ Present(m) \in MacType /\ Rest(m, Present(m))
         /\ Present(m).free = m.free /\ Present(m).held = m.held
         /\ Present(m).used = Pop(m.used) /\ Present(m).usedValid
         /\ Present(m).popped = Oldest(m.used) /\ Oldest(m.used) \in Taken
  <1>1. m.used \in RingOf(Taken) BY DEF MacType
  <1>2. Pop(m.used) \in RingOf(Taken) /\ m.used.tail \in Stands(m.used) BY <1>1, PopStands
  <1>3. Oldest(m.used) \in Taken BY <1>1, <1>2 DEF Oldest, RingOf
  <1>4. Oldest(m.used) \in FrameType BY <1>3 DEF Taken, FrameType
  <1>5. Present(m) = [m EXCEPT !.popped = Oldest(m.used), !.usedValid = TRUE, !.used = Pop(m.used)]
    BY DEF Present, MacType
  <1>6. QED BY <1>2, <1>3, <1>4, <1>5 DEF MacType, Rest

LEMMA WriteLines ==
  ASSUME NEW m \in MacType, Write(m)
  PROVE  /\ RxLine \in level' <=> mac'.usedValid
         /\ ~mac'.usedValid => IsEmpty(mac'.used)
         /\ level' \subseteq {RxLine, TxLine}
  <1>1. mac' = Present(m) /\ level' = Lines(mac') BY DEF Write
  <1>2. RxLine \in level' <=> mac'.usedValid BY <1>1 DEF Lines, RxLine, TxLine
  <1>3. level' \subseteq {RxLine, TxLine} BY <1>1 DEF Lines
  <1>4. ASSUME ~mac'.usedValid PROVE IsEmpty(mac'.used)
    <2>1. CASE m.usedValid \/ IsEmpty(m.used) BY <1>1, <1>4, <2>1, PresentNothing
    <2>2. CASE ~m.usedValid /\ ~IsEmpty(m.used) BY <1>1, <1>4, <2>2, PresentNext
    <2>3. QED BY <2>1, <2>2
  <1>5. QED BY <1>2, <1>3, <1>4

LEMMA AckedIs ==
  ASSUME NEW m \in MacType, m.usedValid
  PROVE  /\ Acked(m) \in MacType /\ Rest(m, Acked(m))
         /\ Acked(m).free = m.free /\ Acked(m).held = m.held /\ Acked(m).used = m.used
         /\ ~Acked(m).usedValid
  <1> DEFINE p == [m.popped EXCEPT !.id = NoId]
  <1>1. p \in FrameType BY DEF MacType, FrameType
  <1>2. Acked(m) = [m EXCEPT !.usedValid = FALSE, !.popped = p] BY DEF Acked, MacType
  <1> HIDE DEF p
  <1>3. QED BY <1>1, <1>2 DEF MacType, Rest

LEMMA ResetIs ==
  ASSUME NEW m \in MacType
  PROVE  /\ Reset(m) \in MacType /\ Rest(m, Reset(m)) /\ Reset(m).held = m.held
         /\ IsEmpty(Reset(m).free) /\ IsEmpty(Reset(m).used)
         /\ Reset(m).usedValid = m.usedValid /\ Reset(m).popped = m.popped
  <1>1. Clear(m.free) \in RingOf(Id) /\ IsEmpty(Clear(m.free)) BY ClearRing DEF MacType
  <1>2. Clear(m.used) \in RingOf(Taken) /\ IsEmpty(Clear(m.used)) BY ClearRing DEF MacType
  <1>3. Reset(m) = [m EXCEPT !.free = Clear(m.free), !.used = Clear(m.used)] BY DEF Reset, MacType
  <1>4. QED BY <1>1, <1>2, <1>3 DEF MacType, Rest

LEMMA FreePutIs ==
  ASSUME NEW m \in MacType, NEW id \in Id, Once(m.free), id \notin Contents(m.free)
  PROVE  /\ FreePut(m, id) \in MacType /\ Rest(m, FreePut(m, id)) /\ FreePut(m, id).held = m.held
         /\ Once(FreePut(m, id).free) /\ Contents(FreePut(m, id).free) = Contents(m.free) \cup {id}
         /\ FreePut(m, id).used = m.used /\ FreePut(m, id).usedValid = m.usedValid
         /\ FreePut(m, id).popped = m.popped
  <1>1. m.free \in RingOf(Id) BY DEF MacType
  <1>2. ~IsFull(m.free) BY <1>1, FreeNotFull
  <1> DEFINE r == Push(m.free, id)
  <1>3. r \in RingOf(Id) /\ Once(r) /\ Contents(r) = Contents(m.free) \cup {id} BY <1>1, <1>2, PushRing
  <1>4. FreePut(m, id) = [m EXCEPT !.free = r] BY <1>2 DEF FreePut, MacType
  <1> HIDE DEF r
  <1>5. QED BY <1>3, <1>4 DEF MacType, Rest

LEMMA AllocatedIs ==
  ASSUME NEW m \in MacType, HasBuffer(m), Once(m.free)
  PROVE  LET b == Buffer(m)
             n == Allocated(m)
         IN  /\ n \in MacType /\ Rest(m, n) /\ b \in Id /\ n.held = NoId /\ Once(n.free)
             /\ n.used = m.used /\ n.usedValid = m.usedValid /\ n.popped = m.popped
             /\ \/ m.held = b /\ n.free = m.free
                \/ m.held = NoId /\ b \in Contents(m.free) /\ Contents(n.free) = Contents(m.free) \ {b}
  <1>1. m.free \in RingOf(Id) /\ m.held \in Id \cup {NoId} BY DEF MacType
  <1>2. CASE m.held # NoId
    <2>1. Allocated(m) = [m EXCEPT !.held = NoId] /\ Buffer(m) = m.held BY <1>2 DEF Allocated, Buffer
    <2>2. QED BY <1>1, <1>2, <2>1 DEF MacType, Rest
  <1>3. CASE m.held = NoId
    <2>1. ~IsEmpty(m.free) BY <1>3 DEF HasBuffer
    <2> DEFINE r == Pop(m.free)
    <2>2. /\ r \in RingOf(Id) /\ Once(r) /\ Oldest(m.free) \in Id
          /\ Oldest(m.free) \in Contents(m.free) /\ Contents(r) = Contents(m.free) \ {Oldest(m.free)}
      BY <1>1, <2>1, PopRing
    <2>3. Allocated(m) = [m EXCEPT !.free = r] /\ Buffer(m) = Oldest(m.free) BY <1>3 DEF Allocated, Buffer, MacType
    <2> HIDE DEF r
    <2>4. QED BY <1>3, <2>2, <2>3 DEF MacType, Rest
  <1>4. QED BY <1>2, <1>3

-----------------------------------------------------------------------------
(* Where the buffers are, as sets: free, in hand, in the used ring, presented, *)
(* on their way to the task, with lwIP.                                     *)
Apart(F, H, U, P, Q, O) ==
    /\ \A f, g \in U \cup P \cup Q \cup O : f.id = g.id => f = g
    /\ U \cap (P \cup Q \cup O) = {} /\ P \cap (Q \cup O) = {} /\ Q \cap O = {}
    /\ F \cap H = {} /\ (F \cup H) \cap {f.id : f \in U \cup P \cup Q \cup O} = {}

AllOf(F, H, R) == F \cup H \cup {f.id : f \in R} = Id

QueueOnce == \A i, j \in 1 .. Len(queue) : queue[i] = queue[j] => i = j

LEMMA ApartIs ==
  BuffersApart <=>
    /\ Once(mac.free) /\ Once(mac.used) /\ QueueOnce
    /\ Apart(Contents(mac.free), Held, Contents(mac.used), Presented, InQueue, owned)
    /\ task \in {"irq", "run"} => AllOf(Contents(mac.free), Held, Contents(mac.used) \cup Presented \cup InQueue \cup owned)
  BY DEF BuffersApart, Once, Contents, QueueOnce, Apart, AllOf, InFree, InUsed, Received

LEMMA IntactIs ==
  FramesIntact <=> \A f \in Contents(mac.used) \cup Presented \cup InQueue \cup owned : ram[f.id] = f.size
  BY DEF FramesIntact, Received, InUsed, Contents

LEMMA ApartIsNext ==
  BuffersApart' <=>
    /\ Once(mac'.free) /\ Once(mac'.used) /\ QueueOnce'
    /\ Apart(Contents(mac'.free), Held', Contents(mac'.used), Presented', InQueue', owned')
    /\ task' \in {"irq", "run"} =>
         AllOf(Contents(mac'.free), Held', Contents(mac'.used) \cup Presented' \cup InQueue' \cup owned')
  BY DEF BuffersApart, Once, Contents, QueueOnce, Apart, AllOf, InFree, InUsed, Received

LEMMA IntactIsNext ==
  FramesIntact' <=> \A f \in Contents(mac'.used) \cup Presented' \cup InQueue' \cup owned' : ram'[f.id] = f.size
  BY DEF FramesIntact, Received, InUsed, Contents

LEMMA Stays ==
  ASSUME BuffersApart, FramesIntact, ram' = ram, queue' = queue, owned' = owned,
         mac'.free = mac.free, mac'.used = mac.used, mac'.held = mac.held,
         mac'.usedValid = mac.usedValid, mac'.popped = mac.popped,
         task' \in {"irq", "run"} => task \in {"irq", "run"}
  PROVE  BuffersApart' /\ FramesIntact' /\ InFree' = InFree
  <1>1. Held' = Held /\ Presented' = Presented /\ InQueue' = InQueue /\ (QueueOnce => QueueOnce')
    BY DEF Held, Presented, InQueue, QueueOnce
  <1>2. BuffersApart' BY <1>1, ApartIs, ApartIsNext
  <1>3. FramesIntact' BY <1>1, IntactIs, IntactIsNext
  <1>4. InFree' = InFree BY DEF InFree
  <1>5. QED BY <1>2, <1>3, <1>4

(* The handler's reads. *)
LEMMA ReadStep ==
  ASSUME RmiiInvariant, Interrupt \/ ReadValid \/ ReadSize \/ ReadId
  PROVE  RmiiInvariant'
  <1> USE DEF RmiiInvariant
  <1>1. /\ mac' = mac /\ level' = level /\ queue' = queue /\ taken' = taken /\ ram' = ram /\ link' = link
        /\ task' = task /\ put' = put /\ mask' = mask /\ owned' = owned /\ UNCHANGED counters /\ onWire' = onWire
    BY DEF Interrupt, ReadValid, ReadSize, ReadId, Handler
  <1>2. BuffersApart' /\ FramesIntact' /\ InFree' = InFree BY <1>1, Stays
  <1>3. /\ isr' \in [at : {"idle", "valid", "size", "id", "pop"}, id : Id \cup {NoId}, size : Nat]
        /\ isr'.at # "idle" => task = "run" /\ mac.usedValid
        /\ isr'.at \in {"id", "pop"} => isr'.size = mac.popped.size
        /\ isr'.at = "pop" => isr'.id = mac.popped.id
    <2> USE DEF TypeOK, MacType, FrameType, LineIsExact, InitInOrder, HandlerInOrder, Handler, Idle
    <2>1. CASE Interrupt BY <2>1 DEF Interrupt
    <2>2. CASE ReadValid BY <2>2 DEF ReadValid
    <2>3. CASE ReadSize BY <2>3 DEF ReadSize
    <2>4. CASE ReadId BY <2>4 DEF ReadId
    <2>5. QED BY <2>1, <2>2, <2>3, <2>4
  <1>4. TypeOK' BY <1>1, <1>3 DEF TypeOK, counters
  <1>5. LineIsExact' BY <1>1, <1>3 DEF LineIsExact
  <1>6. InitInOrder' BY <1>1, <1>2, <1>3 DEF InitInOrder
  <1>7. HandlerInOrder' BY <1>1, <1>3 DEF HandlerInOrder
  <1>8. QED BY <1>2, <1>4, <1>5, <1>6, <1>7

LEMMA LinkStep == ASSUME RmiiInvariant, SetLink PROVE RmiiInvariant'
  <1> USE DEF RmiiInvariant
  <1>1. /\ UNCHANGED << mac, ram, level, task, put, isr, mask, queue, owned, frames, sends, taken, onWire >>
        /\ link' = ~link /\ link' \in BOOLEAN /\ unplugs' \in 0 .. MaxUnplugs
    BY Sizes DEF SetLink, TypeOK, driver
  <1>2. BuffersApart' /\ FramesIntact' /\ InFree' = InFree BY <1>1, Stays
  <1>3. TypeOK' BY <1>1 DEF TypeOK
  <1>4. LineIsExact' /\ HandlerInOrder' BY <1>1 DEF LineIsExact, HandlerInOrder
  <1>5. InitInOrder' BY <1>1, <1>2 DEF InitInOrder
  <1>6. QED BY <1>2, <1>3, <1>4, <1>5

LEMMA IrqStep == ASSUME RmiiInvariant, EnableIrq PROVE RmiiInvariant'
  <1> USE DEF RmiiInvariant
  <1>1. /\ UNCHANGED << mac, ram, level, link, isr, counters, queue, owned, put, taken, onWire >>
        /\ task = "irq" /\ task' = "run" /\ mask' = TRUE
    BY DEF EnableIrq, Task
  <1>2. BuffersApart' /\ FramesIntact' BY <1>1, Stays
  <1>3. TypeOK' BY <1>1 DEF TypeOK, counters
  <1>4. LineIsExact' /\ HandlerInOrder' BY <1>1 DEF LineIsExact, HandlerInOrder
  <1>5. InitInOrder' BY <1>1 DEF InitInOrder
  <1>6. QED BY <1>2, <1>3, <1>4, <1>5

LEMMA SendFields ==
  ASSUME RmiiInvariant, OutputPacket
  PROVE  /\ UNCHANGED << ram, link, task, put, isr, mask, queue, owned, frames, unplugs, taken, onWire >>
         /\ sends' \in 0 .. MaxSends /\ sends' \in Nat
         /\ mac' \in MacType /\ mac'.free = mac.free /\ mac'.used = mac.used /\ mac'.held = mac.held
         /\ mac'.usedValid = mac.usedValid /\ mac'.popped = mac.popped /\ mac'.rxEnable = mac.rxEnable
         /\ mac'.toHost \in {mac.toHost, Append(mac.toHost, sends')}
         /\ RxLine \in level' <=> mac'.usedValid
         /\ level' \subseteq {RxLine, TxLine}
  <1> USE DEF RmiiInvariant
  <1> DEFINE m == Transmit(mac, sends')
  <1>1. /\ UNCHANGED << ram, link, task, put, isr, mask, queue, owned, frames, unplugs, taken, onWire >>
        /\ sends' \in 0 .. MaxSends /\ sends' \in Nat /\ Write(m)
    BY Sizes DEF OutputPacket, driver, TypeOK
  <1>2. /\ m \in MacType /\ m.free = mac.free /\ m.used = mac.used /\ m.held = mac.held
        /\ m.usedValid = mac.usedValid /\ m.popped = mac.popped /\ m.rxEnable = mac.rxEnable
        /\ m.toHost \in {mac.toHost, Append(mac.toHost, sends')}
    <2> DEFINE q == IF Len(mac.toHost) < TxLimit THEN Append(mac.toHost, sends') ELSE mac.toHost
    <2>1. mac \in MacType /\ mac.toHost \in Seq(Nat) BY DEF TypeOK, MacType
    <2>2. q \in Seq(Nat) /\ q \in {mac.toHost, Append(mac.toHost, sends')} BY <1>1, <2>1, AppendProperties
    <2>3. m = [mac EXCEPT !.txIrq = TRUE, !.toHost = q] BY <2>1 DEF Transmit, MacType
    <2> HIDE DEF q, m
    <2>4. QED BY <2>1, <2>2, <2>3 DEF MacType
  <1> HIDE DEF m
  <1>3. mac' = m BY <1>1, <1>2, PresentNothing DEF Write, LineIsExact
  <1>4. (RxLine \in level' <=> mac'.usedValid) /\ level' \subseteq {RxLine, TxLine} BY <1>1, <1>2, WriteLines
  <1>5. QED BY <1>1, <1>2, <1>3, <1>4

LEMMA SendStep == ASSUME RmiiInvariant, OutputPacket PROVE RmiiInvariant'
  <1> USE DEF RmiiInvariant
  <1>1. /\ UNCHANGED << ram, link, task, put, isr, mask, queue, owned, frames, unplugs, taken, onWire >>
        /\ sends' \in 0 .. MaxSends
        /\ mac' \in MacType /\ mac'.free = mac.free /\ mac'.used = mac.used /\ mac'.held = mac.held
        /\ mac'.usedValid = mac.usedValid /\ mac'.popped = mac.popped /\ mac'.rxEnable = mac.rxEnable
        /\ RxLine \in level' <=> mac'.usedValid
        /\ level' \subseteq {RxLine, TxLine}
    BY SendFields
  <1>2. BuffersApart' /\ FramesIntact' /\ InFree' = InFree BY <1>1, Stays
  <1>3. TypeOK' BY <1>1 DEF TypeOK
  <1>4. LineIsExact' BY <1>1 DEF LineIsExact
  <1>5. InitInOrder' /\ HandlerInOrder' BY <1>1, <1>2 DEF InitInOrder, HandlerInOrder
  <1>6. QED BY <1>2, <1>3, <1>4, <1>5

-----------------------------------------------------------------------------
(* initRx and deinitRx. *)
LEMMA InitFrame ==
  ASSUME RmiiInvariant, LinkUp \/ FreeReset \/ PopStale \/ ResetAgain \/ PutBuffer \/ EnableRx \/ LinkDown
  PROVE  /\ UNCHANGED << ram, link, isr, taken, onWire, queue, owned, frames, sends, unplugs >>
         /\ isr.at = "idle" /\ queue = << >> /\ mac \in MacType /\ InQueue = {} /\ InQueue' = {} /\ QueueOnce'
  <1>1. UNCHANGED << ram, link, isr, taken, onWire, queue, owned, frames, sends, unplugs >> /\ isr.at = "idle"
    BY DEF LinkUp, FreeReset, PopStale, ResetAgain, PutBuffer, EnableRx, LinkDown, Task, counters
  <1>2. queue = << >>
    BY DEF LinkUp, FreeReset, PopStale, ResetAgain, PutBuffer, EnableRx, LinkDown, Task, RmiiInvariant, InitInOrder
  <1>3. mac \in MacType BY DEF RmiiInvariant, TypeOK
  <1>4. InQueue = {} /\ InQueue' = {} /\ QueueOnce' BY <1>1, <1>2 DEF InQueue, QueueOnce
  <1>5. QED BY <1>1, <1>2, <1>3, <1>4

(* Switching the receiver off or on moves only the buffer in hand.          *)
LEMMA DisabledIs ==
  ASSUME NEW m \in MacType
  PROVE  /\ Disabled(m) \in MacType /\ ~Disabled(m).rxEnable /\ Disabled(m).held = NoId
         /\ Disabled(m).free = m.free /\ Disabled(m).used = m.used /\ Disabled(m).usedValid = m.usedValid
         /\ Disabled(m).popped = m.popped /\ Disabled(m).toHost = m.toHost
  BY DEF Disabled, MacType

LEMMA OffStep == ASSUME RmiiInvariant, LinkUp \/ LinkDown PROVE RmiiInvariant'
  <1> USE DEF RmiiInvariant
  <1>1. /\ UNCHANGED << ram, link, isr, taken, onWire, queue, owned, frames, sends, unplugs >>
        /\ isr.at = "idle" /\ queue = << >> /\ mac \in MacType /\ InQueue = {} /\ InQueue' = {} /\ QueueOnce'
    BY InitFrame
  <1>2. Write(Disabled(mac)) /\ put' = put BY DEF LinkUp, LinkDown
  <1>3. \/ task' = "reset" /\ owned = {} /\ mask' = mask /\ task = "down"
        \/ task' = "down" /\ mask' = FALSE
    BY DEF LinkUp, LinkDown, Task
  <1>4. mac' = Disabled(mac) BY <1>1, <1>2, PresentNothing, DisabledIs DEF Write, LineIsExact
  <1>5. /\ mac' \in MacType /\ ~mac'.rxEnable /\ mac'.held = NoId /\ mac'.free = mac.free /\ mac'.used = mac.used
        /\ mac'.usedValid = mac.usedValid /\ mac'.popped = mac.popped
    BY <1>1, <1>4, DisabledIs
  <1>6. TypeOK' BY <1>1, <1>2, <1>3, <1>5, DisabledIs, WriteLines DEF TypeOK
  <1>7. LineIsExact' BY <1>1, <1>2, DisabledIs, WriteLines DEF LineIsExact
  <1>8. InitInOrder' /\ HandlerInOrder' BY <1>1, <1>3, <1>5 DEF InitInOrder, HandlerInOrder
  <1>9. Held' = {} /\ Presented' = Presented BY <1>5 DEF Held, Presented
  <1>10. BuffersApart'
    <2>1. Apart(Contents(mac'.free), Held', Contents(mac'.used), Presented', InQueue', owned')
      BY <1>1, <1>5, <1>9, ApartIs DEF Apart
    <2>2. QED BY <1>1, <1>3, <1>5, <2>1, ApartIs, ApartIsNext
  <1>11. FramesIntact' BY <1>1, <1>5, <1>9, IntactIs, IntactIsNext
  <1>12. QED BY <1>6, <1>7, <1>8, <1>10, <1>11

LEMMA OnStep == ASSUME RmiiInvariant, EnableRx PROVE RmiiInvariant'
  <1> USE DEF RmiiInvariant
  <1> DEFINE m == [mac EXCEPT !.rxEnable = TRUE]
  <1>1. /\ UNCHANGED << ram, link, isr, taken, onWire, queue, owned, frames, sends, unplugs >>
        /\ isr.at = "idle" /\ queue = << >> /\ mac \in MacType /\ InQueue = {} /\ InQueue' = {} /\ QueueOnce'
    BY InitFrame
  <1>2. Write(m) /\ put' = put /\ mask' = mask /\ put = Buffers /\ task = "put" /\ task' = "irq"
    BY DEF EnableRx, Task
  <1>3. /\ m \in MacType /\ m.rxEnable /\ m.held = mac.held /\ m.free = mac.free /\ m.used = mac.used
        /\ m.usedValid = mac.usedValid /\ m.popped = mac.popped
    BY <1>1 DEF MacType
  <1> HIDE DEF m
  <1>4. mac' = m BY <1>2, <1>3, PresentNothing DEF Write, LineIsExact
  <1>5. TypeOK' BY <1>1, <1>2, <1>3, <1>4, WriteLines DEF TypeOK
  <1>6. LineIsExact' BY <1>1, <1>2, <1>3, WriteLines DEF LineIsExact
  <1>7. InitInOrder' /\ HandlerInOrder' BY <1>1, <1>2, <1>3, <1>4 DEF InitInOrder, HandlerInOrder
  <1>8. Held' = Held /\ Presented' = Presented /\ InQueue' = InQueue BY <1>1, <1>3, <1>4 DEF Held, Presented
  <1>9. AllOf(Contents(mac'.free), Held', Contents(mac'.used) \cup Presented' \cup InQueue' \cup owned')
    <2>1. owned = {} /\ IsEmpty(mac.used) /\ Presented = {} /\ Held = {} /\ InFree = 0 .. put - 1
      BY <1>2 DEF InitInOrder, Presented, Held
    <2>2. Contents(mac.free) = Id BY <1>2, <2>1 DEF InFree, Contents, Id
    <2>3. Contents(mac.used) = {} BY <1>1, <2>1, EmptyStands DEF MacType, Contents
    <2>4. QED BY <1>1, <1>3, <1>4, <1>8, <2>1, <2>2, <2>3 DEF AllOf
  <1>10. BuffersApart' BY <1>1, <1>3, <1>4, <1>8, <1>9, ApartIs, ApartIsNext
  <1>11. FramesIntact' BY <1>1, <1>3, <1>4, <1>8, IntactIs, IntactIsNext
  <1>12. QED BY <1>5, <1>6, <1>7, <1>10, <1>11

(* Emptied rings hold nothing. *)
LEMMA EmptyHolds ==
  ASSUME NEW S, NEW r \in RingOf(S), IsEmpty(r)
  PROVE  Contents(r) = {} /\ Once(r)
  <1>1. Stands(r) = {} BY EmptyStands
  <1>2. QED BY <1>1 DEF Contents, Once

LEMMA ResetStep == ASSUME RmiiInvariant, FreeReset \/ ResetAgain PROVE RmiiInvariant'
  <1> USE DEF RmiiInvariant
  <1> DEFINE m == Reset(mac)
  <1>1. /\ UNCHANGED << ram, link, isr, taken, onWire, queue, owned, frames, sends, unplugs >>
        /\ isr.at = "idle" /\ queue = << >> /\ mac \in MacType /\ InQueue = {} /\ InQueue' = {} /\ QueueOnce'
    BY InitFrame
  <1>2. /\ Write(m) /\ mask' = mask
        /\ \/ task = "reset" /\ task' = "pop" /\ put' = put
           \/ task = "reset2" /\ task' = "put" /\ put' = 0
    BY DEF FreeReset, ResetAgain, Task
  <1>3. /\ m \in MacType /\ m.rxEnable = mac.rxEnable /\ m.held = mac.held
        /\ IsEmpty(m.free) /\ IsEmpty(m.used) /\ m.usedValid = mac.usedValid /\ m.popped = mac.popped
    BY <1>1, ResetIs DEF Rest
  <1> HIDE DEF m
  <1>4. mac' = m BY <1>2, <1>3, PresentNothing DEF Write
  <1>5. TypeOK' BY <1>1, <1>2, <1>3, <1>4, WriteLines, Sizes DEF TypeOK
  <1>6. LineIsExact' BY <1>1, <1>2, <1>3, WriteLines DEF LineIsExact
  <1>7. Contents(mac'.free) = {} /\ Once(mac'.free) /\ Contents(mac'.used) = {} /\ Once(mac'.used)
    BY <1>3, <1>4, EmptyHolds DEF MacType
  <1>8. InFree' = {} BY <1>7 DEF InFree, Contents
  <1>9. InitInOrder' /\ HandlerInOrder'
    <2>1. put' = 0 => 0 .. put' - 1 = {} OBVIOUS
    <2>2. QED BY <1>1, <1>2, <1>3, <1>4, <1>8, <2>1 DEF InitInOrder, HandlerInOrder
  <1>10. Held' = Held /\ Presented' = Presented BY <1>1, <1>3, <1>4 DEF Held, Presented
  <1>11. BuffersApart'
    <2>1. Apart(Contents(mac'.free), Held', Contents(mac'.used), Presented', InQueue', owned')
      BY <1>1, <1>7, <1>10, ApartIs DEF Apart
    <2>2. QED BY <1>1, <1>2, <1>7, <2>1, ApartIsNext
  <1>12. FramesIntact' BY <1>1, <1>7, <1>10, IntactIs, IntactIsNext
  <1>13. QED BY <1>5, <1>6, <1>9, <1>11, <1>12

LEMMA StaleStep == ASSUME RmiiInvariant, PopStale PROVE RmiiInvariant'
  <1> USE DEF RmiiInvariant
  <1> DEFINE m == Acked(mac)
  <1>1. /\ UNCHANGED << ram, link, isr, taken, onWire, queue, owned, frames, sends, unplugs >>
        /\ isr.at = "idle" /\ queue = << >> /\ mac \in MacType /\ InQueue = {} /\ InQueue' = {} /\ QueueOnce'
    BY InitFrame
  <1>2. Write(m) /\ mask' = mask /\ put' = put /\ task = "pop" /\ task' = "reset2" BY DEF PopStale, Task
  <1>3. /\ m \in MacType /\ m.rxEnable = mac.rxEnable /\ m.held = mac.held
        /\ m.free = mac.free /\ m.used = mac.used /\ ~m.usedValid
    <2>1. CASE mac.usedValid BY <1>1, <2>1, AckedIs DEF Rest
    <2>2. CASE ~mac.usedValid BY <1>1, <2>2 DEF Acked
    <2>3. QED BY <2>1, <2>2
  <1>4. IsEmpty(mac.used) /\ IsEmpty(mac.free) /\ owned = {} BY <1>2 DEF InitInOrder
  <1> HIDE DEF m
  <1>5. mac' = m BY <1>2, <1>3, <1>4, PresentNothing DEF Write
  <1>6. TypeOK' BY <1>1, <1>2, <1>3, <1>5, WriteLines DEF TypeOK
  <1>7. LineIsExact' BY <1>1, <1>2, <1>3, WriteLines DEF LineIsExact
  <1>8. Contents(mac.used) = {} BY <1>1, <1>4, EmptyHolds DEF MacType
  <1>9. Held' = Held /\ Presented' = {} BY <1>3, <1>5 DEF Held, Presented
  <1>10. InitInOrder' /\ HandlerInOrder' BY <1>1, <1>2, <1>3, <1>4, <1>5 DEF InitInOrder, HandlerInOrder
  <1>11. BuffersApart'
    <2>1. Apart(Contents(mac'.free), Held', Contents(mac'.used), Presented', InQueue', owned')
      BY <1>1, <1>3, <1>5, <1>9, ApartIs DEF Apart
    <2>2. QED BY <1>1, <1>2, <1>3, <1>5, <2>1, ApartIs, ApartIsNext
  <1>12. FramesIntact' BY <1>1, <1>3, <1>4, <1>5, <1>8, <1>9, IntactIsNext
  <1>13. QED BY <1>6, <1>7, <1>10, <1>11, <1>12

LEMMA PutStep == ASSUME RmiiInvariant, PutBuffer PROVE RmiiInvariant'
  <1> USE DEF RmiiInvariant
  <1> DEFINE m == FreePut(mac, put)
  <1>1. /\ UNCHANGED << ram, link, isr, taken, onWire, queue, owned, frames, sends, unplugs >>
        /\ isr.at = "idle" /\ queue = << >> /\ mac \in MacType /\ InQueue = {} /\ InQueue' = {} /\ QueueOnce'
    BY InitFrame
  <1>2. /\ Write(m) /\ mask' = mask /\ put' = put + 1 /\ put < Buffers /\ put \in 0 .. Buffers
        /\ task = "put" /\ task' = "put"
    BY DEF PutBuffer, Task, TypeOK
  <1>3. owned = {} /\ IsEmpty(mac.used) /\ ~mac.usedValid /\ mac.held = NoId /\ Contents(mac.free) = 0 .. put - 1
    BY <1>2 DEF InitInOrder, InFree, Contents
  <1>4. put \in Id /\ put \notin Contents(mac.free) BY <1>2, <1>3, Sizes DEF Id
  <1>5. /\ m \in MacType /\ m.rxEnable = mac.rxEnable /\ m.held = mac.held
        /\ Once(m.free) /\ Contents(m.free) = Contents(mac.free) \cup {put}
        /\ m.used = mac.used /\ m.usedValid = mac.usedValid /\ m.popped = mac.popped
    BY <1>1, <1>4, FreePutIs, ApartIs DEF Rest
  <1> HIDE DEF m
  <1>6. mac' = m BY <1>2, <1>3, <1>5, PresentNothing DEF Write
  <1>7. TypeOK'
    <2>1. put' \in 0 .. Buffers BY <1>2, Sizes
    <2>2. QED BY <1>1, <1>2, <1>5, <1>6, <2>1, WriteLines DEF TypeOK
  <1>8. LineIsExact' BY <1>1, <1>2, <1>5, WriteLines DEF LineIsExact
  <1>9. InFree' = 0 .. put' - 1
    <2>1. Contents(mac'.free) = (0 .. put - 1) \cup {put} BY <1>3, <1>5, <1>6
    <2>2. (0 .. put - 1) \cup {put} = 0 .. put' - 1 BY <1>2
    <2>3. QED BY <2>1, <2>2 DEF InFree, Contents
  <1>10. InitInOrder' /\ HandlerInOrder' BY <1>1, <1>2, <1>3, <1>5, <1>6, <1>9 DEF InitInOrder, HandlerInOrder
  <1>11. Held' = {} /\ Presented' = {} /\ Contents(mac'.used) = {} /\ Once(mac'.used)
    <2>1. Contents(mac.used) = {} /\ Once(mac.used) BY <1>1, <1>3, EmptyHolds DEF MacType
    <2>2. QED BY <1>3, <1>5, <1>6, <2>1 DEF Held, Presented
  <1>12. BuffersApart'
    <2>1. Apart(Contents(mac'.free), Held', Contents(mac'.used), Presented', InQueue', owned')
      BY <1>1, <1>3, <1>11 DEF Apart
    <2>2. QED BY <1>1, <1>2, <1>5, <1>6, <1>11, <2>1, ApartIsNext
  <1>13. FramesIntact' BY <1>1, <1>3, <1>11, IntactIsNext
  <1>14. QED BY <1>7, <1>8, <1>10, <1>12, <1>13

-----------------------------------------------------------------------------
(* Frames on their way to lwIP, and buffers on their way back.               *)
LEMMA InputStep == ASSUME RmiiInvariant, InputPacket PROVE RmiiInvariant'
  <1> USE DEF RmiiInvariant
  <1> DEFINE h == Head(queue)
  <1>1. /\ UNCHANGED << mac, level, ram, link, isr, mask, put, frames, sends, unplugs, taken, onWire >>
        /\ queue # << >> /\ queue' = Tail(queue) /\ owned' = owned \cup {h} /\ task = "run" /\ task' = "run"
    BY DEF InputPacket, Task, counters
  <1>2. /\ queue \in Seq(Taken) /\ h \in Taken /\ h = queue[1] /\ Len(queue) \in Nat /\ Len(queue) >= 1
        /\ queue' \in Seq(Taken) /\ Len(queue') = Len(queue) - 1
        /\ \A i \in 1 .. Len(queue') : queue'[i] = queue[i + 1]
    <2>1. queue \in Seq(Taken) BY DEF TypeOK
    <2>2. QED BY <1>1, <2>1, HeadTailProperties, EmptySeq
  <1>3. QueueOnce BY ApartIs
  <1>4. InQueue' = InQueue \ {h} /\ h \in InQueue
    <2>1. \A f : f \in InQueue' <=> \E i \in 1 .. Len(queue) - 1 : f = queue[i + 1] BY <1>2 DEF InQueue
    <2>2. \A f : f \in InQueue <=> \E i \in 1 .. Len(queue) : f = queue[i] BY DEF InQueue
    <2>3. h \in InQueue BY <1>2, <2>2
    <2>4. \A f \in InQueue' : f \in InQueue /\ f # h
      <3> TAKE f \in InQueue'
      <3>1. PICK i \in 1 .. Len(queue) - 1 : f = queue[i + 1] BY <2>1
      <3>2. i + 1 \in 1 .. Len(queue) /\ 1 \in 1 .. Len(queue) /\ i + 1 # 1 BY <1>2
      <3>3. QED BY <1>2, <1>3, <2>2, <3>1, <3>2 DEF QueueOnce
    <2>5. \A f \in InQueue \ {h} : f \in InQueue'
      <3> TAKE f \in InQueue \ {h}
      <3>1. PICK i \in 1 .. Len(queue) : f = queue[i] BY <2>2
      <3>2. i # 1 BY <1>2, <3>1
      <3>3. i - 1 \in 1 .. Len(queue) - 1 /\ (i - 1) + 1 = i BY <1>2, <3>2
      <3>4. QED BY <2>1, <3>1, <3>3
    <2>6. QED BY <2>3, <2>4, <2>5
  <1>5. QueueOnce'
    <2> SUFFICES ASSUME NEW i \in 1 .. Len(queue'), NEW j \in 1 .. Len(queue'), queue'[i] = queue'[j] PROVE i = j
      BY DEF QueueOnce
    <2>1. i + 1 \in 1 .. Len(queue) /\ j + 1 \in 1 .. Len(queue) BY <1>2
    <2>2. queue[i + 1] = queue[j + 1] BY <1>2
    <2>3. i + 1 = j + 1 BY <1>3, <2>1, <2>2 DEF QueueOnce
    <2>4. QED BY <1>2, <2>3
  <1>6. Held' = Held /\ Presented' = Presented BY <1>1 DEF Held, Presented
  <1>7. BuffersApart'
    <2>1. Contents(mac.used) \cup Presented \cup InQueue \cup owned
          = Contents(mac'.used) \cup Presented' \cup InQueue' \cup owned'
      BY <1>1, <1>4, <1>6
    <2>2. Apart(Contents(mac'.free), Held', Contents(mac'.used), Presented', InQueue', owned')
      BY <1>1, <1>4, <1>6, <2>1, ApartIs DEF Apart
    <2>3. QED BY <1>1, <1>5, <1>6, <2>1, <2>2, ApartIs, ApartIsNext
  <1>8. FramesIntact' BY <1>1, <1>4, <1>6, IntactIs, IntactIsNext
  <1>9. TypeOK' BY <1>1, <1>2 DEF TypeOK
  <1>10. LineIsExact' /\ HandlerInOrder' BY <1>1 DEF LineIsExact, HandlerInOrder
  <1>11. InitInOrder' BY <1>1 DEF InitInOrder
  <1>12. QED BY <1>7, <1>8, <1>9, <1>10, <1>11

LEMMA FreeStep == ASSUME RmiiInvariant, FreeBuffer PROVE RmiiInvariant'
  <1> USE DEF RmiiInvariant
  <1>1. PICK f \in owned : owned' = owned \ {f} /\ Write(FreePut(mac, f.id)) BY DEF FreeBuffer
  <1> DEFINE m == FreePut(mac, f.id)
  <1>2. /\ UNCHANGED << ram, link, task, isr, mask, queue, put, frames, sends, unplugs, taken, onWire >>
        /\ isr.at = "idle" /\ task \in {"down", "run"}
    BY DEF FreeBuffer, InitInOrder, counters
  <1>3. mac \in MacType /\ f \in Taken /\ f.id \in Id /\ owned \subseteq Taken BY DEF TypeOK, Taken
  <1>4. Once(mac.free) /\ f.id \notin Contents(mac.free) BY ApartIs DEF Apart
  <1>5. /\ m \in MacType /\ m.rxEnable = mac.rxEnable /\ m.held = mac.held
        /\ Once(m.free) /\ Contents(m.free) = Contents(mac.free) \cup {f.id}
        /\ m.used = mac.used /\ m.usedValid = mac.usedValid /\ m.popped = mac.popped
    BY <1>3, <1>4, FreePutIs DEF Rest
  <1> HIDE DEF m
  <1>6. mac' = m /\ Write(m) BY <1>1, <1>5, PresentNothing DEF Write, LineIsExact, m
  <1>7. TypeOK' BY <1>1, <1>2, <1>3, <1>5, <1>6, WriteLines DEF TypeOK
  <1>8. LineIsExact' BY <1>2, <1>5, <1>6, WriteLines DEF LineIsExact
  <1>9. InitInOrder' /\ HandlerInOrder' BY <1>2, <1>5, <1>6 DEF InitInOrder, HandlerInOrder
  <1>10. Held' = Held /\ Presented' = Presented /\ InQueue' = InQueue /\ (QueueOnce => QueueOnce')
    BY <1>2, <1>5, <1>6 DEF Held, Presented, InQueue, QueueOnce
  <1> DEFINE R == Contents(mac.used) \cup Presented \cup InQueue \cup owned
  <1> DEFINE S == Contents(mac'.used) \cup Presented' \cup InQueue' \cup owned'
  <1>11. S = R \ {f} /\ f \in R BY <1>1, <1>5, <1>6, <1>10, ApartIs DEF Apart
  <1>12. {g.id : g \in R} = {g.id : g \in S} \cup {f.id} /\ f.id \notin {g.id : g \in S}
    <2>1. \A g \in R : g.id = f.id => g = f BY <1>11, ApartIs DEF Apart
    <2> HIDE DEF R, S
    <2>2. QED BY <1>11, <2>1
  <1>13. Apart(Contents(mac'.free), Held', Contents(mac'.used), Presented', InQueue', owned')
    BY <1>1, <1>5, <1>6, <1>10, <1>11, <1>12, ApartIs DEF Apart
  <1>14. task' \in {"irq", "run"} => AllOf(Contents(mac'.free), Held', S)
    BY <1>2, <1>5, <1>6, <1>10, <1>12, ApartIs DEF AllOf
  <1>15. BuffersApart' BY <1>5, <1>6, <1>10, <1>13, <1>14, ApartIs, ApartIsNext
  <1>16. FramesIntact' BY <1>2, <1>11, IntactIs, IntactIsNext
  <1>17. QED BY <1>7, <1>8, <1>9, <1>15, <1>16

(* What the handler takes is what was presented, and the oldest of the used  *)
(* ring is presented next.                                                  *)
LEMMA PopFields ==
  ASSUME RmiiInvariant, AllocPop
  PROVE  /\ UNCHANGED << ram, link, task, put, mask, owned, frames, sends, unplugs, onWire >>
         /\ isr' = Idle /\ task = "run" /\ mac.usedValid /\ mac.popped \in Taken
         /\ queue' = Append(queue, mac.popped) /\ taken' = Append(taken, mac.popped.size)
         /\ mac' \in MacType /\ mac'.rxEnable = mac.rxEnable /\ mac'.toHost = mac.toHost
         /\ mac'.free = mac.free /\ mac'.held = mac.held
         /\ \/ IsEmpty(mac.used) /\ mac'.used = mac.used /\ ~mac'.usedValid
            \/ /\ ~IsEmpty(mac.used) /\ mac'.used = Pop(mac.used) /\ mac'.usedValid
               /\ mac'.popped = Oldest(mac.used) /\ Oldest(mac.used) \in Taken
         /\ RxLine \in level' <=> mac'.usedValid
         /\ ~mac'.usedValid => IsEmpty(mac'.used)
         /\ level' \subseteq {RxLine, TxLine}
  <1> USE DEF RmiiInvariant
  <1> DEFINE m == Acked(mac)
  <1>1. /\ UNCHANGED << ram, link, task, put, mask, owned, frames, sends, unplugs, onWire >> /\ Write(m)
        /\ isr.at = "pop" /\ isr' = Idle
        /\ queue' = Append(queue, [id |-> isr.id, size |-> isr.size]) /\ taken' = Append(taken, isr.size)
    BY DEF AllocPop, Handler, counters
  <1>2. task = "run" /\ mac.usedValid /\ isr.id = mac.popped.id /\ isr.size = mac.popped.size /\ mac.popped.id \in Id
    BY <1>1 DEF InitInOrder, LineIsExact, HandlerInOrder
  <1>3. mac.popped \in Taken /\ mac.popped = [id |-> isr.id, size |-> isr.size]
    BY <1>2 DEF TypeOK, MacType, FrameType, Taken
  <1>4. /\ m \in MacType /\ m.rxEnable = mac.rxEnable /\ m.toHost = mac.toHost
        /\ m.free = mac.free /\ m.held = mac.held /\ m.used = mac.used /\ ~m.usedValid
    BY <1>2, AckedIs DEF TypeOK, Rest
  <1> HIDE DEF m
  <1>5. mac' = Present(m) BY <1>1 DEF Write
  <1>6. /\ mac' \in MacType /\ mac'.rxEnable = mac.rxEnable /\ mac'.toHost = mac.toHost
        /\ mac'.free = mac.free /\ mac'.held = mac.held
        /\ \/ IsEmpty(mac.used) /\ mac'.used = mac.used /\ ~mac'.usedValid
           \/ /\ ~IsEmpty(mac.used) /\ mac'.used = Pop(mac.used) /\ mac'.usedValid
              /\ mac'.popped = Oldest(mac.used) /\ Oldest(mac.used) \in Taken
    <2>1. CASE IsEmpty(mac.used) BY <1>4, <1>5, <2>1, PresentNothing
    <2>2. CASE ~IsEmpty(mac.used) BY <1>4, <1>5, <2>2, PresentNext DEF Rest
    <2>3. QED BY <2>1, <2>2
  <1>7. /\ RxLine \in level' <=> mac'.usedValid
        /\ ~mac'.usedValid => IsEmpty(mac'.used)
        /\ level' \subseteq {RxLine, TxLine}
    BY <1>1, <1>4, WriteLines
  <1>8. QED BY <1>1, <1>2, <1>3, <1>6, <1>7

LEMMA PopStep == ASSUME RmiiInvariant, AllocPop PROVE RmiiInvariant'
  <1> USE DEF RmiiInvariant
  <1> DEFINE e == mac.popped
  <1>1. /\ UNCHANGED << ram, link, task, put, mask, owned, frames, sends, unplugs, onWire >>
        /\ isr' = Idle /\ task = "run" /\ mac.usedValid /\ e \in Taken
        /\ queue' = Append(queue, e) /\ taken' = Append(taken, e.size)
    BY PopFields
  <1>2. /\ mac' \in MacType /\ mac'.rxEnable = mac.rxEnable /\ mac'.free = mac.free /\ mac'.held = mac.held
        /\ \/ IsEmpty(mac.used) /\ mac'.used = mac.used /\ ~mac'.usedValid
           \/ /\ ~IsEmpty(mac.used) /\ mac'.used = Pop(mac.used) /\ mac'.usedValid
              /\ mac'.popped = Oldest(mac.used) /\ Oldest(mac.used) \in Taken
        /\ RxLine \in level' <=> mac'.usedValid
        /\ ~mac'.usedValid => IsEmpty(mac'.used)
        /\ level' \subseteq {RxLine, TxLine}
    BY PopFields
  <1> HIDE DEF e
  <1>3. /\ mac \in MacType /\ mac.used \in RingOf(Taken) /\ Once(mac.used) /\ Presented = {e}
        /\ queue \in Seq(Taken) /\ taken \in Seq(Nat)
    BY <1>1, ApartIs DEF TypeOK, MacType, Presented, e
  <1>4. /\ Once(mac'.used) /\ Contents(mac'.used) \cup Presented' = Contents(mac.used)
        /\ Contents(mac'.used) \cap Presented' = {}
    <2>1. CASE ~mac'.usedValid
      <3>1. IsEmpty(mac.used) /\ mac'.used = mac.used /\ Presented' = {} BY <1>2, <2>1 DEF Presented
      <3>2. QED BY <1>3, <3>1
    <2>2. CASE mac'.usedValid
      <3>1. ~IsEmpty(mac.used) /\ mac'.used = Pop(mac.used) /\ Presented' = {Oldest(mac.used)}
        BY <1>2, <2>2 DEF Presented
      <3>2. /\ Once(Pop(mac.used)) /\ Oldest(mac.used) \in Contents(mac.used)
            /\ Contents(Pop(mac.used)) = Contents(mac.used) \ {Oldest(mac.used)}
        BY <1>3, <3>1, PopRing
      <3>3. QED BY <3>1, <3>2
    <2>3. QED BY <2>1, <2>2
  <1>5. /\ queue' \in Seq(Taken) /\ Len(queue') = Len(queue) + 1 /\ Len(queue) \in Nat
        /\ \A i \in 1 .. Len(queue) : queue'[i] = queue[i]
        /\ queue'[Len(queue) + 1] = e
    BY <1>1, <1>3, AppendProperties, LenProperties
  <1>6. InQueue' = InQueue \cup {e}
    <2>1. \A f : f \in InQueue' <=> \E i \in 1 .. Len(queue) + 1 : f = queue'[i] BY <1>5 DEF InQueue
    <2>2. \A f : f \in InQueue <=> \E i \in 1 .. Len(queue) : f = queue[i] BY DEF InQueue
    <2>3. e \in InQueue' BY <1>5, <2>1
    <2>4. \A f \in InQueue : f \in InQueue' BY <1>5, <2>1, <2>2
    <2>5. \A f \in InQueue' : f \in InQueue \/ f = e BY <1>5, <2>1, <2>2
    <2>6. QED BY <2>3, <2>4, <2>5
  <1>7. QueueOnce'
    <2>1. QueueOnce /\ e \notin InQueue BY <1>3, ApartIs DEF Apart
    <2>2. \A i \in 1 .. Len(queue) : queue[i] # e BY <2>1 DEF InQueue
    <2>3. QED BY <1>5, <2>1, <2>2 DEF QueueOnce
  <1>8. Held' = Held BY <1>2 DEF Held
  <1> DEFINE R == Contents(mac.used) \cup Presented \cup InQueue \cup owned
  <1> DEFINE S == Contents(mac'.used) \cup Presented' \cup InQueue' \cup owned'
  <1>9. S = R BY <1>1, <1>3, <1>4, <1>6
  <1>10. Apart(Contents(mac'.free), Held', Contents(mac'.used), Presented', InQueue', owned')
    <2>1. \A f, g \in S : f.id = g.id => f = g BY <1>9, ApartIs DEF Apart
    <2>2. Contents(mac'.free) \cap Held' = {} /\ (Contents(mac'.free) \cup Held') \cap {f.id : f \in S} = {}
      BY <1>2, <1>8, <1>9, ApartIs DEF Apart
    <2>3. /\ Contents(mac.used) \cap ({e} \cup InQueue \cup owned) = {} /\ {e} \cap (InQueue \cup owned) = {}
          /\ InQueue \cap owned = {}
      BY <1>3, ApartIs DEF Apart
    <2>4. Contents(mac'.used) \cap (Presented' \cup InQueue' \cup owned') = {} /\ Presented' \cap (InQueue' \cup owned') = {}
          /\ InQueue' \cap owned' = {}
      BY <1>1, <1>4, <1>6, <2>3
    <2>5. QED BY <2>1, <2>2, <2>4 DEF Apart
  <1>11. AllOf(Contents(mac'.free), Held', S) BY <1>1, <1>2, <1>8, <1>9, ApartIs
  <1>12. Once(mac'.free) BY <1>2, ApartIs
  <1>13. BuffersApart' BY <1>4, <1>7, <1>10, <1>11, <1>12, ApartIsNext
  <1>14. FramesIntact' BY <1>1, <1>9, IntactIs, IntactIsNext
  <1>15. TypeOK'
    <2>1. taken' \in Seq(Nat) BY <1>1, <1>3, AppendProperties DEF Taken
    <2>2. isr' \in [at : {"idle", "valid", "size", "id", "pop"}, id : Id \cup {NoId}, size : Nat] BY <1>1 DEF Idle
    <2>3. QED BY <1>1, <1>2, <1>5, <2>1, <2>2 DEF TypeOK
  <1>16. LineIsExact' /\ HandlerInOrder'
    BY <1>1, <1>2 DEF LineIsExact, HandlerInOrder, Idle, Taken
  <1>17. InitInOrder' BY <1>1, <1>2 DEF InitInOrder
  <1>18. QED BY <1>13, <1>14, <1>15, <1>16, <1>17

-----------------------------------------------------------------------------
(* The emulation thread: a frame is dropped, rejected or received.           *)
Emptied == [mac EXCEPT !.toHost = << >>]

LEMMA ExchangeFrame ==
  ASSUME RmiiInvariant, Exchange
  PROVE  /\ UNCHANGED << link, task, put, isr, mask, queue, owned, sends, unplugs, taken >>
         /\ onWire' = onWire \o mac.toHost /\ onWire' \in Seq(Nat)
         /\ frames' \in 0 .. MaxFrames /\ frames' \in Nat
         /\ mac \in MacType /\ Emptied \in MacType
         /\ Emptied.free = mac.free /\ Emptied.held = mac.held /\ Emptied.used = mac.used
         /\ Emptied.usedValid = mac.usedValid /\ Emptied.popped = mac.popped
         /\ Emptied.rxEnable = mac.rxEnable /\ Emptied.toHost = << >>
         /\ InQueue' = InQueue /\ (QueueOnce => QueueOnce')
  <1>1. UNCHANGED << link, task, put, isr, mask, queue, owned, sends, unplugs, taken >> BY DEF Exchange, driver
  <1>2. onWire' = onWire \o mac.toHost BY DEF Exchange
  <1>3. mac \in MacType /\ onWire \in Seq(Nat) BY DEF RmiiInvariant, TypeOK
  <1>4. onWire' \in Seq(Nat) BY <1>2, <1>3, ConcatProperties DEF MacType
  <1>5. frames' \in 0 .. MaxFrames /\ frames' \in Nat BY SMTT(30), Sizes DEF Exchange, RmiiInvariant, TypeOK
  <1>6. << >> \in Seq(Nat) BY EmptySeq
  <1>7. /\ Emptied \in MacType
        /\ Emptied.free = mac.free /\ Emptied.held = mac.held /\ Emptied.used = mac.used
        /\ Emptied.usedValid = mac.usedValid /\ Emptied.popped = mac.popped
        /\ Emptied.rxEnable = mac.rxEnable /\ Emptied.toHost = << >>
    BY <1>3, <1>6 DEF Emptied, MacType
  <1>8. InQueue' = InQueue /\ (QueueOnce => QueueOnce') BY <1>1 DEF InQueue, QueueOnce
  <1>9. QED BY <1>1, <1>2, <1>3, <1>4, <1>5, <1>7, <1>8

LEMMA SentStep == ASSUME RmiiInvariant, Exchange, mac' = Emptied, ram' = ram, level' = level PROVE RmiiInvariant'
  <1> USE DEF RmiiInvariant
  <1>1. /\ UNCHANGED << link, task, put, isr, mask, queue, owned, sends, unplugs, taken >>
        /\ onWire' \in Seq(Nat) /\ frames' \in 0 .. MaxFrames
    BY ExchangeFrame
  <1>2. /\ mac' \in MacType
        /\ mac'.free = mac.free /\ mac'.held = mac.held /\ mac'.used = mac.used
        /\ mac'.usedValid = mac.usedValid /\ mac'.popped = mac.popped /\ mac'.rxEnable = mac.rxEnable
    BY ExchangeFrame
  <1>3. BuffersApart' /\ FramesIntact' /\ InFree' = InFree BY <1>1, <1>2, Stays
  <1>4. TypeOK' BY <1>1, <1>2 DEF TypeOK
  <1>5. LineIsExact' /\ HandlerInOrder' BY <1>1, <1>2 DEF LineIsExact, HandlerInOrder
  <1>6. InitInOrder' BY <1>1, <1>2, <1>3 DEF InitInOrder
  <1>7. QED BY <1>3, <1>4, <1>5, <1>6

(* The buffer of a frame that is rejected stays in hand.                    *)
LEMMA RejectStep == ASSUME RmiiInvariant, Exchange, Reject(Emptied) PROVE RmiiInvariant'
  <1> USE DEF RmiiInvariant
  <1> DEFINE b == Buffer(Emptied)
  <1> DEFINE n == Allocated(Emptied)
  <1>1. /\ UNCHANGED << link, task, put, isr, mask, queue, owned, sends, unplugs, taken >>
        /\ onWire' \in Seq(Nat) /\ frames' \in 0 .. MaxFrames /\ InQueue' = InQueue /\ (QueueOnce => QueueOnce')
    BY ExchangeFrame
  <1>2. /\ Emptied \in MacType /\ Emptied.free = mac.free /\ Emptied.held = mac.held /\ Emptied.used = mac.used
        /\ Emptied.usedValid = mac.usedValid /\ Emptied.popped = mac.popped /\ Emptied.rxEnable = mac.rxEnable
    BY ExchangeFrame
  <1>3. Emptied.rxEnable /\ HasBuffer(Emptied) /\ mac' = [n EXCEPT !.held = b] /\ ram' = ram /\ level' = level
    BY DEF Reject
  <1>4. Once(mac.free) /\ Once(mac.used) BY ApartIs
  <1>5. /\ n \in MacType /\ n.rxEnable = mac.rxEnable /\ b \in Id /\ Once(n.free)
        /\ n.used = mac.used /\ n.usedValid = mac.usedValid /\ n.popped = mac.popped
        /\ \/ mac.held = b /\ n.free = mac.free
           \/ mac.held = NoId /\ b \in Contents(mac.free) /\ Contents(n.free) = Contents(mac.free) \ {b}
    BY <1>2, <1>3, <1>4, AllocatedIs DEF Rest
  <1> HIDE DEF n, b
  <1>6. /\ mac' \in MacType /\ mac'.rxEnable = mac.rxEnable /\ mac'.held = b /\ mac'.free = n.free
        /\ mac'.used = mac.used /\ mac'.usedValid = mac.usedValid /\ mac'.popped = mac.popped
    BY <1>3, <1>5 DEF MacType
  <1>7. mac.rxEnable /\ task \in {"irq", "run"} BY <1>2, <1>3 DEF InitInOrder
  <1>8. TypeOK' BY <1>1, <1>3, <1>6 DEF TypeOK
  <1>9. LineIsExact' /\ HandlerInOrder' BY <1>1, <1>3, <1>6 DEF LineIsExact, HandlerInOrder
  <1>10. InitInOrder' BY <1>1, <1>6, <1>7 DEF InitInOrder
  <1>11. Held' = {b} /\ Presented' = Presented BY <1>5, <1>6, NoIdIsNone DEF Held, Presented
  <1>12. /\ Contents(mac'.free) \cup Held' = Contents(mac.free) \cup Held
         /\ Contents(mac'.free) \cap Held' = {}
    <2>1. CASE mac.held = b /\ n.free = mac.free
      <3>1. Held = {b} BY <1>5, <2>1, NoIdIsNone DEF Held
      <3>2. b \notin Contents(mac.free) BY <3>1, ApartIs DEF Apart
      <3>3. QED BY <1>6, <1>11, <2>1, <3>1, <3>2
    <2>2. CASE mac.held = NoId /\ b \in Contents(mac.free) /\ Contents(n.free) = Contents(mac.free) \ {b}
      <3>1. Held = {} BY <2>2 DEF Held
      <3>2. QED BY <1>6, <1>11, <2>2, <3>1
    <2>3. QED BY <1>5, <2>1, <2>2
  <1>13. Apart(Contents(mac'.free), Held', Contents(mac'.used), Presented', InQueue', owned')
    BY <1>1, <1>6, <1>11, <1>12, ApartIs DEF Apart
  <1>14. task' \in {"irq", "run"} =>
           AllOf(Contents(mac'.free), Held', Contents(mac'.used) \cup Presented' \cup InQueue' \cup owned')
    BY <1>1, <1>6, <1>11, <1>12, ApartIs DEF AllOf
  <1>15. BuffersApart' BY <1>1, <1>4, <1>5, <1>6, <1>13, <1>14, ApartIs, ApartIsNext
  <1>16. FramesIntact' BY <1>1, <1>3, <1>6, <1>11, IntactIs, IntactIsNext
  <1>17. QED BY <1>8, <1>9, <1>10, <1>15, <1>16

(* A frame that is received goes to a buffer of its own, behind the frames   *)
(* that wait.                                                               *)
LEMMA AcceptFields ==
  ASSUME RmiiInvariant, Exchange, Accept(Emptied, frames')
  PROVE  LET b == Buffer(Emptied)
             f == [id |-> Buffer(Emptied), size |-> frames']
         IN  /\ b \in Id /\ f \in Taken /\ mac.rxEnable /\ ram' = [ram EXCEPT ![b] = frames']
             /\ mac' \in MacType /\ mac'.rxEnable = mac.rxEnable /\ mac'.toHost = << >>
             /\ mac'.held = NoId /\ Once(mac'.free)
             /\ b \notin Contents(mac'.free) /\ Contents(mac'.free) \cup {b} = Contents(mac.free) \cup Held
             /\ ~IsFull(mac.used) /\ f \notin Contents(mac.used)
             /\ mac'.usedValid
             /\ \/ mac.usedValid /\ mac'.popped = mac.popped /\ mac'.used = Push(mac.used, f)
                \/ ~mac.usedValid /\ IsEmpty(mac.used) /\ mac'.popped = f /\ mac'.used = Pop(Push(mac.used, f))
             /\ RxLine \in level'
             /\ level' \subseteq {RxLine, TxLine}
  <1> USE DEF RmiiInvariant
  <1> DEFINE b == Buffer(Emptied)
  <1> DEFINE n == Allocated(Emptied)
  <1> DEFINE f == [id |-> b, size |-> frames']
  <1> DEFINE m == [n EXCEPT !.used = Push(@, f)]
  <1>1. /\ Emptied \in MacType /\ Emptied.free = mac.free /\ Emptied.held = mac.held /\ Emptied.used = mac.used
        /\ Emptied.usedValid = mac.usedValid /\ Emptied.popped = mac.popped /\ Emptied.rxEnable = mac.rxEnable
        /\ Emptied.toHost = << >> /\ frames' \in Nat /\ mac \in MacType
    BY ExchangeFrame
  <1>2. Emptied.rxEnable /\ HasBuffer(Emptied) /\ Write(m) /\ ram' = [ram EXCEPT ![b] = frames']
    BY DEF Accept
  <1>3. Once(mac.free) /\ Once(mac.used) /\ mac.used \in RingOf(Taken) BY <1>1, ApartIs DEF MacType
  <1>4. /\ n \in MacType /\ n.rxEnable = mac.rxEnable /\ n.toHost = << >> /\ b \in Id /\ n.held = NoId /\ Once(n.free)
        /\ n.used = mac.used /\ n.usedValid = mac.usedValid /\ n.popped = mac.popped
        /\ \/ mac.held = b /\ n.free = mac.free
           \/ mac.held = NoId /\ b \in Contents(mac.free) /\ Contents(n.free) = Contents(mac.free) \ {b}
    BY <1>1, <1>2, <1>3, AllocatedIs DEF Rest
  <1>5. f \in Taken /\ f.id = b BY <1>1, <1>4 DEF Taken
  <1> HIDE DEF f, n, b
  <1>6. b \in Contents(mac.free) \cup Held /\ b \notin Contents(n.free)
        /\ Contents(n.free) \cup {b} = Contents(mac.free) \cup Held
    <2>1. CASE mac.held = b /\ n.free = mac.free
      <3>1. Held = {b} BY <1>4, <2>1, NoIdIsNone DEF Held
      <3>2. b \notin Contents(mac.free) BY <3>1, ApartIs DEF Apart
      <3>3. QED BY <2>1, <3>1, <3>2
    <2>2. CASE mac.held = NoId /\ b \in Contents(mac.free) /\ Contents(n.free) = Contents(mac.free) \ {b}
      <3>1. Held = {} BY <2>2 DEF Held
      <3>2. QED BY <2>2, <3>1
    <2>3. QED BY <1>4, <2>1, <2>2
  <1>7. \A g \in Contents(mac.used) : g.id # b BY <1>6, ApartIs DEF Apart
  <1>8. \A g, h \in Contents(mac.used) : g.id = h.id => g = h BY ApartIs DEF Apart
  <1>9. ~IsFull(mac.used) BY <1>3, <1>4, <1>7, <1>8, UsedNotFull
  <1>10. f \notin Contents(mac.used) BY <1>5, <1>7
  <1> DEFINE r == Push(mac.used, f)
  <1>11. r \in RingOf(Taken) /\ ~IsEmpty(r) BY <1>3, <1>5, <1>9, <1>10, PushRing
  <1>12. m = [n EXCEPT !.used = r] BY <1>4 DEF MacType
  <1> HIDE DEF r, m
  <1>13. /\ m \in MacType /\ m.rxEnable = mac.rxEnable /\ m.toHost = << >> /\ m.held = NoId /\ m.free = n.free
         /\ m.used = r /\ m.usedValid = mac.usedValid /\ m.popped = mac.popped
    BY <1>4, <1>11, <1>12 DEF MacType
  <1>14. mac' = Present(m) BY <1>2 DEF Write
  <1>15. /\ mac' \in MacType /\ mac'.rxEnable = mac.rxEnable /\ mac'.toHost = << >>
         /\ mac'.held = NoId /\ mac'.free = n.free /\ mac'.usedValid
         /\ \/ mac.usedValid /\ mac'.popped = mac.popped /\ mac'.used = r
            \/ ~mac.usedValid /\ IsEmpty(mac.used) /\ mac'.popped = f /\ mac'.used = Pop(r)
    <2>1. CASE mac.usedValid
      <3>1. mac' = m BY <1>13, <1>14, <2>1, PresentNothing
      <3>2. QED BY <1>13, <2>1, <3>1
    <2>2. CASE ~mac.usedValid
      <3>1. IsEmpty(mac.used) BY <2>2 DEF LineIsExact
      <3>2. Oldest(r) = f
        <4>1. r.tail = mac.used.head /\ r.slots[mac.used.head] = f
          <5>1. r.tail = mac.used.tail BY <1>3 DEF r, Push, RingOf
          <5>2. r.slots[mac.used.head] = f BY <1>3, <1>5, <1>9, PushStands DEF r
          <5>3. QED BY <3>1, <5>1, <5>2 DEF IsEmpty
        <4>2. QED BY <4>1 DEF Oldest
      <3>3. QED BY <1>11, <1>13, <1>14, <2>2, <3>1, <3>2, PresentNext DEF Rest
    <2>3. QED BY <2>1, <2>2
  <1>16. RxLine \in level' /\ level' \subseteq {RxLine, TxLine} BY <1>2, <1>13, <1>15, WriteLines
  <1>17. QED BY <1>1, <1>2, <1>4, <1>5, <1>6, <1>9, <1>10, <1>15, <1>16 DEF b, f, r

LEMMA ReceivedType ==
  ASSUME RmiiInvariant
  PROVE  \A f \in Contents(mac.used) \cup Presented \cup InQueue \cup owned : f \in Taken
  <1> USE DEF RmiiInvariant
  <1>1. mac.used \in RingOf(Taken) /\ mac.popped \in FrameType /\ queue \in Seq(Taken) /\ owned \subseteq Taken
    BY DEF TypeOK, MacType
  <1>2. \A f \in Contents(mac.used) : f \in Taken BY <1>1 DEF Contents, Stands, RingOf
  <1>3. \A f \in Presented : f \in Taken BY <1>1 DEF Presented, HandlerInOrder, FrameType, Taken
  <1>4. \A f \in InQueue : f \in Taken BY <1>1, ElementOfSeq DEF InQueue
  <1>5. QED BY <1>1, <1>2, <1>3, <1>4

LEMMA AcceptStep == ASSUME RmiiInvariant, Exchange, Accept(Emptied, frames') PROVE RmiiInvariant'
  <1> USE DEF RmiiInvariant
  <1> DEFINE b == Buffer(Emptied)
  <1> DEFINE f == [id |-> b, size |-> frames']
  <1>1. /\ UNCHANGED << link, task, put, isr, mask, queue, owned, sends, unplugs, taken >>
        /\ onWire' \in Seq(Nat) /\ frames' \in 0 .. MaxFrames /\ frames' \in Nat
        /\ InQueue' = InQueue /\ (QueueOnce => QueueOnce')
    BY ExchangeFrame
  <1>2. /\ b \in Id /\ f \in Taken /\ f.id = b /\ f.size = frames'
        /\ mac.rxEnable /\ ram' = [ram EXCEPT ![b] = frames']
        /\ mac' \in MacType /\ mac'.rxEnable = mac.rxEnable
        /\ mac'.held = NoId /\ Once(mac'.free)
        /\ b \notin Contents(mac'.free) /\ Contents(mac'.free) \cup {b} = Contents(mac.free) \cup Held
        /\ ~IsFull(mac.used) /\ f \notin Contents(mac.used)
        /\ mac'.usedValid
        /\ \/ mac.usedValid /\ mac'.popped = mac.popped /\ mac'.used = Push(mac.used, f)
           \/ ~mac.usedValid /\ IsEmpty(mac.used) /\ mac'.popped = f /\ mac'.used = Pop(Push(mac.used, f))
        /\ RxLine \in level'
        /\ level' \subseteq {RxLine, TxLine}
    BY AcceptFields
  <1> HIDE DEF f, b
  <1>3. /\ mac.used \in RingOf(Taken) /\ Once(mac.used) /\ ram \in [Id -> Nat]
        /\ Apart(Contents(mac.free), Held, Contents(mac.used), Presented, InQueue, owned)
    BY ApartIs DEF TypeOK, MacType
  <1> DEFINE U == Contents(mac.used)
  <1> DEFINE V == Contents(mac'.used)
  <1> DEFINE R == U \cup Presented \cup InQueue \cup owned
  <1> DEFINE S == V \cup Presented' \cup InQueue' \cup owned'
  <1>4. Once(mac'.used) /\ V \cup Presented' = U \cup Presented \cup {f} /\ V \cap Presented' = {}
        /\ (V = U \cup {f} \/ V = {}) /\ (Presented' = Presented \/ Presented' = {f})
    <2>1. /\ Push(mac.used, f) \in RingOf(Taken) /\ Once(Push(mac.used, f)) /\ ~IsEmpty(Push(mac.used, f))
          /\ Contents(Push(mac.used, f)) = U \cup {f}
      BY <1>2, <1>3, PushRing
    <2>2. CASE mac.usedValid /\ mac'.popped = mac.popped /\ mac'.used = Push(mac.used, f)
      <3>1. Presented' = Presented BY <1>2, <2>2 DEF Presented
      <3>2. f \notin Presented /\ U \cap Presented = {}
        <4>1. b \in Contents(mac.free) \cup Held BY <1>2
        <4>2. \A g \in Presented : g.id # b BY <1>3, <4>1 DEF Apart
        <4>3. QED BY <1>2, <1>3, <4>2 DEF Apart
      <3>3. QED BY <2>1, <2>2, <3>1, <3>2
    <2>3. CASE ~mac.usedValid /\ IsEmpty(mac.used) /\ mac'.popped = f /\ mac'.used = Pop(Push(mac.used, f))
      <3>1. Presented' = {f} /\ Presented = {} BY <1>2, <2>3 DEF Presented
      <3>2. U = {} BY <1>3, <2>3, EmptyHolds
      <3>3. /\ Once(mac'.used) /\ Oldest(Push(mac.used, f)) \in {f}
            /\ V = {f} \ {Oldest(Push(mac.used, f))}
        BY <2>1, <2>3, <3>2, PopRing
      <3>4. QED BY <3>1, <3>2, <3>3
    <2>4. QED BY <1>2, <2>2, <2>3
  <1>5. Held' = {} BY <1>2 DEF Held
  <1>6. \A g \in R : g.id # b
    <2>1. b \in Contents(mac.free) \cup Held BY <1>2
    <2>2. QED BY <1>3, <2>1 DEF Apart
  <1>7. S = R \cup {f} BY <1>1, <1>4
  <1>8. Apart(Contents(mac'.free), Held', V, Presented', InQueue', owned')
    <2>1. \A g, h \in S : g.id = h.id => g = h
      <3>1. \A g, h \in R : g.id = h.id => g = h BY <1>3 DEF Apart
      <3> HIDE DEF R, S
      <3>2. QED BY <1>2, <1>6, <1>7, <3>1
    <2>2. f \notin InQueue \cup owned BY <1>2, <1>6
    <2>3. V \cap (Presented' \cup InQueue' \cup owned') = {} /\ Presented' \cap (InQueue' \cup owned') = {}
          /\ InQueue' \cap owned' = {}
      BY <1>1, <1>3, <1>4, <2>2 DEF Apart
    <2>4. Contents(mac'.free) \cap {g.id : g \in S} = {}
      <3>1. \A g \in R : g.id \notin Contents(mac.free) \cup Held BY <1>3 DEF Apart
      <3>2. \A g \in S : g.id \notin Contents(mac'.free)
        <4> HIDE DEF R, S
        <4>1. QED BY <1>2, <1>7, <3>1
      <3> HIDE DEF S
      <3>3. QED BY <3>2
    <2>5. QED BY <1>5, <2>1, <2>3, <2>4 DEF Apart
  <1>9. AllOf(Contents(mac'.free), Held', S)
    <2>1. AllOf(Contents(mac.free), Held, R) BY <1>2, ApartIs DEF InitInOrder
    <2>2. {g.id : g \in S} = {g.id : g \in R} \cup {b}
      <3> HIDE DEF R, S
      <3>1. QED BY <1>2, <1>7
    <2> HIDE DEF R, S
    <2>3. QED BY <1>2, <1>5, <2>1, <2>2 DEF AllOf
  <1>10. BuffersApart' BY <1>1, <1>2, <1>4, <1>8, <1>9, ApartIs, ApartIsNext
  <1>11. FramesIntact'
    <2>1. \A g \in R : ram[g.id] = g.size BY IntactIs
    <2>2. \A g \in R : g \in Taken BY ReceivedType
    <2>3. \A g \in S : ram'[g.id] = g.size
      <3> HIDE DEF R, S
      <3>1. ram'[f.id] = f.size BY <1>2, <1>3
      <3>2. \A g \in R : ram'[g.id] = g.size BY <1>2, <1>3, <1>6, <2>1, <2>2 DEF Taken
      <3>3. QED BY <1>7, <3>1, <3>2
    <2>4. QED BY <2>3, IntactIsNext
  <1>12. TypeOK' BY <1>1, <1>2, <1>3 DEF TypeOK
  <1>13. LineIsExact' BY <1>2 DEF LineIsExact
  <1>14. HandlerInOrder' BY <1>1, <1>2 DEF HandlerInOrder, LineIsExact, InitInOrder
  <1>15. InitInOrder' BY <1>1, <1>2 DEF InitInOrder
  <1>16. QED BY <1>10, <1>11, <1>12, <1>13, <1>14, <1>15

LEMMA ExchangeStep == ASSUME RmiiInvariant, Exchange PROVE RmiiInvariant'
  <1>1. \/ mac' = Emptied /\ UNCHANGED << ram, level >>
        \/ Drop(Emptied) \/ Reject(Emptied) \/ Accept(Emptied, frames')
    BY DEF Exchange, Emptied
  <1>2. CASE (mac' = Emptied /\ UNCHANGED << ram, level >>) \/ Drop(Emptied) BY <1>2, SentStep DEF Drop
  <1>3. CASE Reject(Emptied) BY <1>3, RejectStep
  <1>4. CASE Accept(Emptied, frames') BY <1>4, AcceptStep
  <1>5. QED BY <1>1, <1>2, <1>3, <1>4

-----------------------------------------------------------------------------
LEMMA InitRmii == Init => RmiiInvariant
  <1> SUFFICES ASSUME Init PROVE RmiiInvariant OBVIOUS
  <1>1. 0 \in Slot /\ 0 \in Id /\ NoId \notin Id /\ 0 \in Nat BY Sizes, NoIdIsNone DEF Slot, Id
  <1>2. << >> \in Seq(Nat) /\ << >> \in Seq(Taken) /\ Len(queue) = 0 BY EmptySeq DEF Init
  <1>3. NoFrame \in Taken /\ NoFrame \in FrameType BY <1>1 DEF NoFrame, Taken, FrameType
  <1>4. NewRing(0) \in RingOf(Id) /\ NewRing(NoFrame) \in RingOf(Taken) /\ IsEmpty(NewRing(0)) /\ IsEmpty(NewRing(NoFrame))
    BY <1>1, <1>3 DEF NewRing, RingOf, IsEmpty
  <1>5. /\ mac \in MacType /\ ~mac.rxEnable /\ mac.held = NoId /\ mac.free = NewRing(0)
        /\ mac.used = NewRing(NoFrame) /\ ~mac.usedValid
    BY <1>2, <1>3, <1>4 DEF Init, PowerOn, MacType
  <1>6. TypeOK
    <2>1. ram \in [Id -> Nat] /\ level \subseteq {RxLine, TxLine} /\ link \in BOOLEAN BY <1>1 DEF Init
    <2>2. put \in 0 .. Buffers /\ frames \in 0 .. MaxFrames /\ sends \in 0 .. MaxSends /\ unplugs \in 0 .. MaxUnplugs
      BY Sizes DEF Init
    <2>3. isr \in [at : {"idle", "valid", "size", "id", "pop"}, id : Id \cup {NoId}, size : Nat] BY DEF Init, Idle
    <2>4. queue \in Seq(Taken) /\ owned \subseteq Taken /\ taken \in Seq(Nat) /\ onWire \in Seq(Nat) /\ mask \in BOOLEAN
          /\ task \in {"down", "reset", "pop", "reset2", "put", "irq", "run"}
      BY <1>2 DEF Init
    <2>5. QED BY <1>5, <2>1, <2>2, <2>3, <2>4 DEF TypeOK
  <1>7. LineIsExact BY <1>4, <1>5 DEF Init, LineIsExact, Idle
  <1>8. InitInOrder /\ HandlerInOrder BY <1>4, <1>5 DEF Init, InitInOrder, HandlerInOrder, Idle
  <1>9. /\ Contents(mac.free) = {} /\ Once(mac.free) /\ Contents(mac.used) = {} /\ Once(mac.used)
        /\ Held = {} /\ Presented = {} /\ InQueue = {} /\ owned = {} /\ QueueOnce
    BY <1>2, <1>4, <1>5, EmptyHolds DEF Init, Held, Presented, InQueue, QueueOnce
  <1>10. BuffersApart BY <1>9, ApartIs DEF Apart, Init
  <1>11. FramesIntact BY <1>9, IntactIs
  <1>12. QED BY <1>6, <1>7, <1>8, <1>10, <1>11 DEF RmiiInvariant

LEMMA NextRmii == RmiiInvariant /\ [Next]_vars => RmiiInvariant'
  <1> SUFFICES ASSUME RmiiInvariant, [Next]_vars PROVE RmiiInvariant' OBVIOUS
  <1>1. CASE Exchange BY <1>1, ExchangeStep
  <1>2. CASE SetLink BY <1>2, LinkStep
  <1>3. CASE HandlerStep BY <1>3, ReadStep, PopStep DEF HandlerStep
  <1>4. CASE InitRx BY <1>4, OffStep, ResetStep, StaleStep, PutStep, OnStep, IrqStep DEF InitRx
  <1>5. CASE LinkDown \/ InputPacket BY <1>5, OffStep, InputStep
  <1>6. CASE FreeBuffer BY <1>6, FreeStep
  <1>7. CASE OutputPacket BY <1>7, SendStep
  <1>8. CASE UNCHANGED vars
    <2>1. RmiiInvariant' <=> RmiiInvariant
      BY <1>8 DEF vars, driver, counters, RmiiInvariant, TypeOK, BuffersApart, FramesIntact, LineIsExact, InitInOrder,
                  HandlerInOrder, InFree, InUsed, Presented, InQueue, Received, Held
    <2>2. QED BY <2>1
  <1>9. QED BY <1>1, <1>2, <1>3, <1>4, <1>5, <1>6, <1>7, <1>8 DEF Next, TaskStep

(* No two frames share a buffer, none is overwritten or lost while the       *)
(* interface runs, and the interrupt line tells of every frame: for every    *)
(* length of the rings and every pool of buffers that is smaller.            *)
THEOREM RmiiHolds == Spec => []RmiiInvariant
  BY InitRmii, NextRmii, PTL DEF Spec

-----------------------------------------------------------------------------
(* Frames in their order: the sizes that wait, and what each step does to    *)
(* them.                                                                    *)
SizesOf(s) == [i \in 1 .. Len(s) |-> s[i].size]

LEMMA SizesType ==
  ASSUME NEW s \in Seq(Taken)
  PROVE  /\ SizesOf(s) \in Seq(Nat) /\ Len(SizesOf(s)) = Len(s) /\ Len(s) \in Nat
         /\ \A i \in 1 .. Len(s) : SizesOf(s)[i] = s[i].size
         /\ s = << >> => SizesOf(s) = << >>
  <1>1. Len(s) \in Nat /\ \A i \in 1 .. Len(s) : s[i] \in Taken BY LenProperties
  <1>2. \A i \in 1 .. Len(s) : s[i].size \in Nat BY <1>1 DEF Taken
  <1>3. SizesOf(s) \in Seq(Nat) /\ Len(SizesOf(s)) = Len(s) BY <1>1, <1>2 DEF SizesOf
  <1>4. \A i \in 1 .. Len(s) : SizesOf(s)[i] = s[i].size BY DEF SizesOf
  <1>5. s = << >> => SizesOf(s) = << >> BY <1>3, EmptySeq
  <1>6. QED BY <1>1, <1>3, <1>4, <1>5

LEMMA SizesOfAppend ==
  ASSUME NEW s \in Seq(Taken), NEW e \in Taken
  PROVE  SizesOf(Append(s, e)) = Append(SizesOf(s), e.size)
  <1> DEFINE t == Append(s, e)
  <1> DEFINE u == Append(SizesOf(s), e.size)
  <1>1. e.size \in Nat BY DEF Taken
  <1>2. /\ t \in Seq(Taken) /\ Len(t) = Len(s) + 1 /\ \A i \in 1 .. Len(s) : t[i] = s[i]
        /\ t[Len(s) + 1] = e
    BY AppendProperties
  <1>3. /\ SizesOf(s) \in Seq(Nat) /\ Len(SizesOf(s)) = Len(s) /\ Len(s) \in Nat
        /\ \A i \in 1 .. Len(s) : SizesOf(s)[i] = s[i].size
    BY SizesType
  <1>4. /\ u \in Seq(Nat) /\ Len(u) = Len(s) + 1 /\ \A i \in 1 .. Len(s) : u[i] = s[i].size
        /\ u[Len(s) + 1] = e.size
    BY <1>1, <1>3, AppendProperties
  <1> HIDE DEF t, u
  <1>5. /\ SizesOf(t) \in Seq(Nat) /\ Len(SizesOf(t)) = Len(t)
        /\ \A i \in 1 .. Len(t) : SizesOf(t)[i] = t[i].size
    BY <1>2, SizesType
  <1>6. \A i \in 1 .. Len(s) + 1 : SizesOf(t)[i] = u[i]
    <2> TAKE i \in 1 .. Len(s) + 1
    <2>1. SizesOf(t)[i] = t[i].size BY <1>2, <1>5
    <2>2. CASE i \in 1 .. Len(s) BY <1>2, <1>4, <2>1, <2>2
    <2>3. CASE i = Len(s) + 1 BY <1>2, <1>4, <2>1, <2>3
    <2>4. QED BY <1>3, <2>2, <2>3
  <1>7. SizesOf(t) = u BY <1>2, <1>4, <1>5, <1>6, SeqEqual
  <1>8. QED BY <1>7 DEF t, u

LEMMA SizesOfCons ==
  ASSUME NEW s \in Seq(Taken), s # << >>
  PROVE  SizesOf(s) = << Head(s).size >> \o SizesOf(Tail(s))
  <1> DEFINE t == Tail(s)
  <1> DEFINE h == << Head(s).size >>
  <1>1. Len(s) \in Nat \ {0} /\ Head(s) = s[1] /\ s[1] \in Taken BY EmptySeq, ElementOfSeq
  <1>2. t \in Seq(Taken) /\ Len(t) = Len(s) - 1 /\ \A i \in 1 .. Len(t) : t[i] = s[i + 1] BY HeadTailProperties
  <1>3. h \in Seq(Nat) /\ Len(h) = 1 /\ h[1] = s[1].size BY <1>1 DEF Taken
  <1> HIDE DEF t, h
  <1>4. /\ SizesOf(t) \in Seq(Nat) /\ Len(SizesOf(t)) = Len(t)
        /\ \A i \in 1 .. Len(t) : SizesOf(t)[i] = t[i].size
    BY <1>2, SizesType
  <1>5. /\ SizesOf(s) \in Seq(Nat) /\ Len(SizesOf(s)) = Len(s)
        /\ \A i \in 1 .. Len(s) : SizesOf(s)[i] = s[i].size
    BY SizesType
  <1>6. /\ h \o SizesOf(t) \in Seq(Nat) /\ Len(h \o SizesOf(t)) = 1 + Len(t)
        /\ \A i \in 1 .. 1 + Len(t) : (h \o SizesOf(t))[i] = IF i <= 1 THEN h[i] ELSE SizesOf(t)[i - 1]
    <2> DEFINE x == SizesOf(t)
    <2>1. x \in Seq(Nat) /\ Len(x) = Len(t) BY <1>4
    <2> HIDE DEF x
    <2>2. /\ h \o x \in Seq(Nat) /\ Len(h \o x) = Len(h) + Len(x)
          /\ \A i \in 1 .. Len(h) + Len(x) : (h \o x)[i] = IF i <= Len(h) THEN h[i] ELSE x[i - Len(h)]
      <3>1. h \in Seq(Nat) /\ x \in Seq(Nat) BY <1>3, <2>1
      <3>2. QED BY ONLY <3>1, ConcatProperties, Zenon
    <2>3. /\ h \o x \in Seq(Nat) /\ Len(h \o x) = 1 + Len(t)
          /\ \A i \in 1 .. 1 + Len(t) : (h \o x)[i] = IF i <= 1 THEN h[i] ELSE x[i - 1]
      BY <1>3, <2>1, <2>2
    <2>4. QED BY <2>3 DEF x
  <1>7. \A i \in 1 .. Len(s) : SizesOf(s)[i] = (h \o SizesOf(t))[i]
    <2> TAKE i \in 1 .. Len(s)
    <2>1. CASE i = 1
      <3>1. 1 \in 1 .. 1 + Len(t) /\ 1 <= 1 BY <1>1, <1>2
      <3>2. (h \o SizesOf(t))[1] = h[1] BY <1>6, <3>1
      <3>3. SizesOf(s)[1] = s[1].size BY <1>1, <1>5
      <3>4. QED BY <1>3, <2>1, <3>2, <3>3
    <2>2. CASE i # 1
      <3>1. i - 1 \in 1 .. Len(t) /\ i \in 1 .. 1 + Len(t) /\ ~(i <= 1) BY <1>1, <1>2, <2>2
      <3>2. t[i - 1] = s[i] BY <1>1, <1>2, <3>1
      <3>3. (h \o SizesOf(t))[i] = SizesOf(t)[i - 1] BY <1>6, <3>1
      <3>4. SizesOf(t)[i - 1] = t[i - 1].size BY <1>4, <3>1
      <3>5. QED BY <1>5, <3>2, <3>3, <3>4
    <2>3. QED BY <2>1, <2>2
  <1>8. SizesOf(s) = h \o SizesOf(t)
    <2> DEFINE x == SizesOf(s)
    <2> DEFINE y == h \o SizesOf(t)
    <2>1. x \in Seq(Nat) /\ y \in Seq(Nat) /\ Len(x) = Len(s) /\ Len(y) = Len(s) /\ \A i \in 1 .. Len(s) : x[i] = y[i]
      BY <1>1, <1>2, <1>5, <1>6, <1>7
    <2> HIDE DEF x, y
    <2>2. x = y BY <2>1, SeqEqual
    <2>3. QED BY <2>2 DEF x, y
  <1>9. QED BY <1>8 DEF h, t

LEMMA ConsAppend ==
  ASSUME NEW a \in Nat, NEW s \in Seq(Nat), NEW e \in Nat
  PROVE  << a >> \o Append(s, e) = Append(<< a >> \o s, e)
  <1>1. << a >> \in Seq(Nat) /\ << e >> \in Seq(Nat) OBVIOUS
  <1>2. Append(s, e) = s \o << e >> BY AppendIsConcat
  <1>3. << a >> \o s \in Seq(Nat) BY <1>1, ConcatProperties
  <1>4. Append(<< a >> \o s, e) = (<< a >> \o s) \o << e >> BY <1>3, AppendIsConcat
  <1>5. QED BY <1>1, <1>2, <1>4, ConcatAssociative

(* The oldest of a queue. *)
LEMMA First ==
  ASSUME NEW a \in Nat, NEW s \in Seq(Nat)
  PROVE  /\ << a >> \o s \in Seq(Nat) /\ Len(<< a >> \o s) \in Nat /\ Len(<< a >> \o s) >= 1
         /\ SubSeq(<< a >> \o s, 1, 1) = << a >> /\ SubSeq(<< a >> \o s, 2, Len(<< a >> \o s)) = s
  <1> DEFINE w == << a >> \o s
  <1>1. << a >> \in Seq(Nat) /\ Len(<< a >>) = 1 /\ << a >>[1] = a /\ Len(s) \in Nat BY LenProperties
  <1>2. w \in Seq(Nat) /\ Len(w) = 1 + Len(s)
        /\ \A i \in 1 .. 1 + Len(s) : w[i] = IF i <= 1 THEN << a >>[i] ELSE s[i - 1]
    BY <1>1, ConcatProperties
  <1>3. w[1] = a BY <1>1, <1>2
  <1> HIDE DEF w
  <1>4. \A i \in 1 .. Len(w) : w[i] \in Nat BY <1>2, ElementOfSeq
  <1>5. /\ SubSeq(w, 1, 1) \in Seq(Nat) /\ Len(SubSeq(w, 1, 1)) = 1 /\ SubSeq(w, 1, 1)[1] = w[1]
    <2>1. \A i \in 1 .. 1 : w[i] \in Nat BY <1>1, <1>2, <1>4
    <2>2. /\ SubSeq(w, 1, 1) \in Seq(Nat) /\ Len(SubSeq(w, 1, 1)) = (IF 1 <= 1 THEN 1 - 1 + 1 ELSE 0)
          /\ \A i \in 1 .. 1 - 1 + 1 : SubSeq(w, 1, 1)[i] = w[1 + i - 1]
      BY <2>1, SubSeqProperties
    <2>3. QED BY <2>2
  <1>6. SubSeq(w, 1, 1) = << a >>
    <2> DEFINE x == SubSeq(w, 1, 1)
    <2> DEFINE y == << a >>
    <2>1. x \in Seq(Nat) /\ y \in Seq(Nat) /\ Len(x) = 1 /\ Len(y) = 1 /\ x[1] = y[1] BY <1>1, <1>3, <1>5
    <2> HIDE DEF x, y
    <2>2. \A i \in 1 .. Len(x) : x[i] = y[i] BY <2>1
    <2>3. x = y BY <2>1, <2>2, SeqEqual
    <2>4. QED BY <2>3 DEF x, y
  <1>7. SubSeq(w, 2, Len(w)) = s
    <2>1. \A i \in 2 .. Len(w) : w[i] \in Nat BY <1>1, <1>2, <1>4
    <2>2. /\ SubSeq(w, 2, Len(w)) \in Seq(Nat)
          /\ Len(SubSeq(w, 2, Len(w))) = (IF 2 <= Len(w) THEN Len(w) - 2 + 1 ELSE 0)
          /\ \A i \in 1 .. Len(w) - 2 + 1 : SubSeq(w, 2, Len(w))[i] = w[2 + i - 1]
      BY <1>1, <1>2, <2>1, SubSeqProperties
    <2>3. Len(SubSeq(w, 2, Len(w))) = Len(s) BY <1>1, <1>2, <2>2
    <2>4. \A i \in 1 .. Len(s) : SubSeq(w, 2, Len(w))[i] = s[i]
      <3> TAKE i \in 1 .. Len(s)
      <3>1. i \in 1 .. Len(w) - 2 + 1 /\ 2 + i - 1 = i + 1 /\ i + 1 \in 1 .. 1 + Len(s) /\ ~(i + 1 <= 1) /\ (i + 1) - 1 = i
        BY <1>1, <1>2
      <3>2. w[i + 1] = s[i] BY <1>2, <3>1
      <3>3. QED BY <2>2, <3>1, <3>2
    <2>5. QED BY <1>1, <2>2, <2>3, <2>4, SeqEqual
  <1>8. QED BY <1>1, <1>2, <1>6, <1>7 DEF w

(* The newest of a queue. *)
LEMMA Last ==
  ASSUME NEW s \in Seq(Nat), NEW e \in Nat
  PROVE  Append(s, e) # << >> /\ s = SubSeq(Append(s, e), 1, Len(Append(s, e)) - 1)
  <1>1. Append(s, e) \in Seq(Nat) /\ Append(s, e) # << >> /\ Len(Append(s, e)) = Len(s) + 1 /\ Len(s) \in Nat
        /\ \A i \in 1 .. Len(s) : Append(s, e)[i] = s[i]
    BY AppendProperties, LenProperties
  <1>2. \A i \in 1 .. Len(s) : Append(s, e)[i] \in Nat BY <1>1, ElementOfSeq
  <1> DEFINE w == Append(s, e)
  <1> HIDE DEF w
  <1>3. /\ SubSeq(w, 1, Len(s)) \in Seq(Nat) /\ Len(SubSeq(w, 1, Len(s))) = (IF 1 <= Len(s) THEN Len(s) - 1 + 1 ELSE 0)
        /\ \A i \in 1 .. Len(s) - 1 + 1 : SubSeq(w, 1, Len(s))[i] = w[1 + i - 1]
    BY <1>1, <1>2, SubSeqProperties DEF w
  <1>4. Len(SubSeq(w, 1, Len(s))) = Len(s) BY <1>1, <1>3
  <1>5. \A i \in 1 .. Len(s) : SubSeq(w, 1, Len(s))[i] = s[i]
    <2> TAKE i \in 1 .. Len(s)
    <2>1. i \in 1 .. Len(s) - 1 + 1 /\ 1 + i - 1 = i BY <1>1
    <2>2. SubSeq(w, 1, Len(s))[i] = w[i] BY <1>3, <2>1
    <2>3. QED BY <1>1, <2>2 DEF w
  <1>6. SubSeq(w, 1, Len(s)) = s BY <1>3, <1>4, <1>5, SeqEqual
  <1>7. Len(w) - 1 = Len(s) BY <1>1 DEF w
  <1>8. QED BY <1>1, <1>6, <1>7 DEF w

(* What waits, as a sequence: the presented frame, then the used ring.       *)
LEMMA WaitingIs ==
  ASSUME RmiiInvariant
  PROVE  /\ Entries(mac.used) \in Seq(Taken) /\ SizesOf(Entries(mac.used)) \in Seq(Nat)
         /\ mac.usedValid => mac.popped.size \in Nat /\ Waiting = << mac.popped.size >> \o SizesOf(Entries(mac.used))
         /\ ~mac.usedValid => Waiting = << >>
         /\ Waiting \in Seq(Nat)
  <1> USE DEF RmiiInvariant
  <1>1. mac.used \in RingOf(Taken) /\ mac.popped.size \in Nat BY DEF TypeOK, MacType, FrameType
  <1> DEFINE x == Entries(mac.used)
  <1>2. x \in Seq(Taken) /\ (IsEmpty(mac.used) <=> x = << >>) BY <1>1, EntriesType
  <1>3. Waiting = (IF mac.usedValid THEN << mac.popped.size >> ELSE << >>) \o SizesOf(x)
    BY DEF Waiting, SizesOf
  <1> HIDE DEF x
  <1>4. SizesOf(x) \in Seq(Nat) /\ (x = << >> => SizesOf(x) = << >>) BY <1>2, SizesType
  <1>5. ASSUME mac.usedValid
        PROVE  Waiting = << mac.popped.size >> \o SizesOf(x) /\ Waiting \in Seq(Nat)
    BY <1>1, <1>3, <1>4, <1>5, First
  <1>6. ASSUME ~mac.usedValid
        PROVE  Waiting = << >> /\ Waiting \in Seq(Nat)
    <2>1. SizesOf(x) = << >> BY <1>2, <1>4, <1>6 DEF LineIsExact
    <2>2. << >> \in Seq(Nat) BY EmptySeq
    <2>3. << >> \o << >> = << >> BY <2>2, ConcatEmptySeq
    <2>4. QED BY <1>3, <1>6, <2>1, <2>2, <2>3
  <1>7. QED BY <1>1, <1>2, <1>4, <1>5, <1>6 DEF x

LEMMA NothingWaitsNext == ASSUME RmiiInvariant', ~mac'.usedValid PROVE Waiting' = << >>
  <1>1. mac'.used \in RingOf(Taken) /\ IsEmpty(mac'.used) BY DEF RmiiInvariant, TypeOK, MacType, LineIsExact
  <1>2. Entries(mac'.used) = << >> BY <1>1, EntriesType
  <1>3. Entries(mac.used)' = << >> BY <1>2 DEF Entries, Length
  <1>4. << >> \in Seq(Taken) /\ << >> \in Seq(Nat) BY EmptySeq
  <1>5. SizesOf(<< >>) = << >> /\ << >> \o << >> = << >> BY <1>4, SizesType, ConcatEmptySeq
  <1>6. Waiting' = << >> \o SizesOf(<< >>) BY <1>3 DEF Waiting, SizesOf
  <1>7. QED BY <1>5, <1>6

LEMMA WaitingNext ==
  ASSUME mac'.used = mac.used, mac'.usedValid = mac.usedValid, mac'.popped = mac.popped
  PROVE  Waiting' = Waiting
  BY DEF Waiting, Entries, Length

LEMMA FromHostNext == ASSUME RmiiInvariant, [Next]_vars PROVE [FromHost!Next]_(FromHost!vars)
  <1> USE DEF FromHost!Next, FromHost!vars
  <1>1. RmiiInvariant' BY NextRmii
  <1>2. ASSUME taken' = taken, mac'.rxEnable = mac.rxEnable,
               mac'.used = mac.used, mac'.usedValid = mac.usedValid, mac'.popped = mac.popped
        PROVE  [FromHost!Next]_(FromHost!vars)
    BY <1>2, WaitingNext
  <1>3. CASE Exchange
    <2>1. /\ UNCHANGED taken /\ mac \in MacType /\ Emptied \in MacType /\ Emptied.free = mac.free /\ Emptied.used = mac.used
          /\ Emptied.usedValid = mac.usedValid /\ Emptied.popped = mac.popped /\ Emptied.rxEnable = mac.rxEnable
      BY <1>3, ExchangeFrame
    <2>2. CASE mac' = Emptied BY <1>2, <2>1, <2>2
    <2>3. CASE Reject(Emptied)
      <3> DEFINE n == Allocated(Emptied)
      <3> DEFINE b == Buffer(Emptied)
      <3>1. HasBuffer(Emptied) /\ mac' = [n EXCEPT !.held = b] BY <2>3 DEF Reject
      <3>2. Once(mac.free) BY ApartIs DEF RmiiInvariant
      <3>3. /\ n \in MacType /\ n.rxEnable = Emptied.rxEnable
            /\ n.used = Emptied.used /\ n.usedValid = Emptied.usedValid /\ n.popped = Emptied.popped
        BY <2>1, <3>1, <3>2, AllocatedIs DEF Rest
      <3> HIDE DEF n, b
      <3>4. /\ mac'.rxEnable = n.rxEnable /\ mac'.used = n.used /\ mac'.usedValid = n.usedValid
            /\ mac'.popped = n.popped
        BY <3>1, <3>3 DEF MacType
      <3>5. QED BY <1>2, <2>1, <3>3, <3>4
    <2>4. CASE Accept(Emptied, frames')
      <3> DEFINE f == [id |-> Buffer(Emptied), size |-> frames']
      <3>1. /\ f \in Taken /\ f.size = frames' /\ mac'.rxEnable = mac.rxEnable /\ ~IsFull(mac.used) /\ mac'.usedValid
            /\ \/ mac.usedValid /\ mac'.popped = mac.popped /\ mac'.used = Push(mac.used, f)
               \/ ~mac.usedValid /\ IsEmpty(mac.used) /\ mac'.popped = f /\ mac'.used = Pop(Push(mac.used, f))
        BY <1>3, <2>4, AcceptFields
      <3> HIDE DEF f
      <3>2. mac.used \in RingOf(Taken) BY <2>1 DEF MacType
      <3>3. Entries(Push(mac.used, f)) = Append(Entries(mac.used), f) BY <3>1, <3>2, EntriesOfPush
      <3>4. frames' \in Nat /\ frames' = f.size BY <3>1 DEF Taken
      <3>5. Waiting' = Append(Waiting, frames')
        <4>1. CASE mac.usedValid /\ mac'.popped = mac.popped /\ mac'.used = Push(mac.used, f)
          <5>1. Entries(mac.used)' = Append(Entries(mac.used), f) BY <3>3, <4>1 DEF Entries, Length
          <5>2. Waiting' = << mac.popped.size >> \o SizesOf(Entries(mac.used)')
            BY <1>1, <3>1, <4>1, WaitingIs DEF Waiting, SizesOf
          <5>3. SizesOf(Entries(mac.used)') = Append(SizesOf(Entries(mac.used)), frames')
            BY <3>1, <3>4, <5>1, WaitingIs, SizesOfAppend
          <5> DEFINE a == mac.popped.size
          <5> DEFINE x == SizesOf(Entries(mac.used))
          <5>4. a \in Nat /\ x \in Seq(Nat) /\ Waiting = << a >> \o x BY <4>1, WaitingIs
          <5>5. Waiting' = << a >> \o Append(x, frames') BY <5>2, <5>3
          <5> HIDE DEF a, x
          <5>6. << a >> \o Append(x, frames') = Append(<< a >> \o x, frames') BY <3>4, <5>4, ConsAppend
          <5>7. QED BY <5>4, <5>5, <5>6
        <4>2. CASE ~mac.usedValid /\ IsEmpty(mac.used) /\ mac'.popped = f /\ mac'.used = Pop(Push(mac.used, f))
          <5> DEFINE p == Push(mac.used, f)
          <5>1. p \in RingOf(Taken) /\ p.head = Succ(mac.used.head) /\ p.tail = mac.used.tail
            BY <3>1, <3>2, PushStands DEF Push, RingOf
          <5>2. ~IsEmpty(p)
            <6>1. mac.used.head \in Stands(p) BY <3>1, <3>2, PushStands
            <6>2. QED BY <5>1, <6>1, EmptyStands
          <5>3. Entries(Pop(p)) = Tail(Entries(p)) BY <5>1, <5>2, EntriesOfPop
          <5>4. Entries(mac.used) = << >> BY <3>2, <4>2, EntriesType
          <5>5. Tail(Append(<< >>, f)) = << >>
            <6>1. << >> \in Seq(Taken) BY EmptySeq
            <6>2. QED BY <6>1, HeadTailAppend
          <5>6. Entries(Pop(p)) = << >> BY <3>3, <5>3, <5>4, <5>5
          <5>7. Entries(mac.used)' = << >> BY <4>2, <5>6 DEF Entries, Length
          <5>8. Waiting' = << f.size >> \o SizesOf(<< >>) BY <3>1, <4>2, <5>7 DEF Waiting, SizesOf
          <5>9. SizesOf(<< >>) = << >> /\ << >> \in Seq(Nat)
            <6>1. << >> \in Seq(Taken) /\ << >> \in Seq(Nat) BY EmptySeq
            <6>2. QED BY <6>1, SizesType
          <5>10. Waiting = << >> BY <4>2, WaitingIs
          <5>11. << f.size >> \o << >> = Append(<< >>, f.size)
            <6>1. f.size \in Nat /\ << f.size >> \in Seq(Nat) BY <3>4
            <6>2. Append(<< >>, f.size) = << >> \o << f.size >> BY <5>9, <6>1, AppendIsConcat
            <6>3. << >> \o << f.size >> = << f.size >> /\ << f.size >> \o << >> = << f.size >>
              BY <6>1, ConcatEmptySeq
            <6>4. QED BY <6>2, <6>3
          <5>12. Waiting' = Append(<< >>, f.size) BY <5>8, <5>9, <5>11
          <5>13. QED BY <3>4, <5>10, <5>12
        <4>3. QED BY <3>1, <4>1, <4>2
      <3>6. FromHost!Accept BY <2>1, <3>1, <3>4, <3>5, WaitingIs, Last DEF FromHost!Accept
      <3>7. QED BY <3>6
    <2>5. QED BY <1>3, <2>2, <2>3, <2>4 DEF Exchange, Emptied, Drop
  <1>4. CASE AllocPop
    <2>1. /\ mac.usedValid /\ mac.popped \in Taken /\ taken' = Append(taken, mac.popped.size)
          /\ mac'.rxEnable = mac.rxEnable
          /\ \/ IsEmpty(mac.used) /\ mac'.used = mac.used /\ ~mac'.usedValid
             \/ /\ ~IsEmpty(mac.used) /\ mac'.used = Pop(mac.used) /\ mac'.usedValid
                /\ mac'.popped = Oldest(mac.used) /\ Oldest(mac.used) \in Taken
      BY <1>4, PopFields
    <2> DEFINE a == mac.popped.size
    <2> DEFINE x == SizesOf(Entries(mac.used))
    <2>2. mac.used \in RingOf(Taken) /\ taken \in Seq(Nat) BY DEF RmiiInvariant, TypeOK, MacType
    <2>3. a \in Nat /\ x \in Seq(Nat) /\ Waiting = << a >> \o x BY <2>1, WaitingIs
    <2>4. Waiting' = x
      <3>1. CASE ~mac'.usedValid
        <4>1. Entries(mac.used) = << >> BY <2>1, <2>2, <3>1, EntriesType
        <4>2. x = << >> BY <4>1, WaitingIs, SizesType
        <4>3. Waiting' = << >> BY <1>1, <3>1, NothingWaitsNext
        <4>4. QED BY <4>2, <4>3
      <3>2. CASE mac'.usedValid
        <4>1. ~IsEmpty(mac.used) /\ mac'.used = Pop(mac.used) /\ mac'.popped = Oldest(mac.used) BY <2>1, <3>2
        <4>2. Head(Entries(mac.used)) = Oldest(mac.used) /\ Entries(Pop(mac.used)) = Tail(Entries(mac.used))
          BY <2>2, <4>1, EntriesOfPop
        <4>3. Entries(mac.used) # << >> /\ Entries(mac.used) \in Seq(Taken) BY <2>2, <4>1, EntriesType
        <4>4. x = << Oldest(mac.used).size >> \o SizesOf(Tail(Entries(mac.used))) BY <4>2, <4>3, SizesOfCons
        <4>5. Entries(mac.used)' = Tail(Entries(mac.used)) BY <4>1, <4>2 DEF Entries, Length
        <4>6. Waiting' = << Oldest(mac.used).size >> \o SizesOf(Entries(mac.used)') BY <3>2, <4>1 DEF Waiting, SizesOf
        <4>7. QED BY <4>4, <4>5, <4>6
      <3>3. QED BY <3>1, <3>2
    <2> HIDE DEF a, x
    <2>5. taken' = taken \o << a >> BY <2>1, <2>2, <2>3, AppendIsConcat DEF a
    <2>6. /\ Len(Waiting) \in Nat /\ Len(Waiting) >= 1
          /\ SubSeq(Waiting, 1, 1) = << a >> /\ SubSeq(Waiting, 2, Len(Waiting)) = x
      BY <2>3, First
    <2>7. FromHost!Pass
      <3>1. 1 \in 1 .. Len(Waiting) /\ 1 + 1 = 2 BY <2>6
      <3>2. QED BY <2>1, <2>4, <2>5, <2>6, <3>1 DEF FromHost!Pass
    <2>8. QED BY <2>7
  <1>5. CASE LinkUp \/ LinkDown \/ EnableRx
    <2> DEFINE m == [mac EXCEPT !.rxEnable = TRUE]
    <2>1. mac \in MacType /\ UNCHANGED taken BY <1>5, InitFrame
    <2>2. /\ m \in MacType /\ m.rxEnable /\ m.used = mac.used /\ m.usedValid = mac.usedValid /\ m.popped = mac.popped
      BY <2>1 DEF MacType
    <2>3. CASE EnableRx
      <3>1. Write(m) BY <2>3 DEF EnableRx
      <3> HIDE DEF m
      <3>2. mac' = m BY <2>2, <3>1, PresentNothing DEF Write, LineIsExact, RmiiInvariant
      <3>3. ~mac.rxEnable BY <2>3 DEF EnableRx, Task, RmiiInvariant, InitInOrder
      <3>4. Waiting' = Waiting BY <2>2, <3>2, WaitingNext
      <3>5. FromHost!Switch BY <2>1, <2>2, <3>2, <3>3, <3>4 DEF FromHost!Switch
      <3>6. QED BY <3>5
    <2>4. CASE LinkUp \/ LinkDown
      <3>1. mac' = Disabled(mac)
        BY <2>1, <2>4, PresentNothing, DisabledIs DEF LinkUp, LinkDown, Write, LineIsExact, RmiiInvariant
      <3>2. ~mac'.rxEnable /\ mac'.used = mac.used /\ mac'.usedValid = mac.usedValid /\ mac'.popped = mac.popped
        BY <2>1, <3>1, DisabledIs
      <3>3. Waiting' = Waiting BY <3>2, WaitingNext
      <3>4. CASE mac.rxEnable
        <4>1. mac.rxEnable = TRUE /\ mac'.rxEnable = FALSE
          <5>1. mac.rxEnable \in BOOLEAN /\ mac'.rxEnable \in BOOLEAN BY <1>1 DEF RmiiInvariant, TypeOK, MacType
          <5>2. QED BY <3>2, <3>4, <5>1
        <4>2. FromHost!Switch BY <2>1, <3>3, <4>1 DEF FromHost!Switch
        <4>3. QED BY <4>2
      <3>5. CASE ~mac.rxEnable
        <4>1. mac'.rxEnable = mac.rxEnable BY <2>1, <3>1, <3>2, <3>5 DEF Disabled, MacType
        <4>2. QED BY <2>1, <3>3, <4>1
      <3>6. QED BY <3>4, <3>5
    <2>5. QED BY <1>5, <2>3, <2>4
  <1>6. CASE FreeReset \/ ResetAgain \/ PopStale
    <2>1. mac \in MacType /\ UNCHANGED taken BY <1>6, InitFrame
    <2>2. ~mac.rxEnable /\ ~mac'.rxEnable /\ mac.rxEnable = FALSE /\ mac'.rxEnable = FALSE
      <3>1. task \in {"reset", "reset2", "pop"} /\ task' \in {"pop", "put", "reset2"}
        BY <1>6 DEF FreeReset, ResetAgain, PopStale, Task
      <3>2. ~mac.rxEnable /\ ~mac'.rxEnable BY <1>1, <3>1 DEF RmiiInvariant, InitInOrder
      <3>3. mac' \in MacType BY <1>1 DEF RmiiInvariant, TypeOK
      <3>4. QED BY <2>1, <3>2, <3>3 DEF MacType
    <2>3. \E n \in 0 .. Len(Waiting) : Waiting' = SubSeq(Waiting, 1, n)
      <3>1. CASE ~mac'.usedValid
        <4>1. Waiting' = << >> BY <1>1, <3>1, NothingWaitsNext
        <4>2. SubSeq(Waiting, 1, 0) = << >> BY SubSeqEmpty
        <4>3. 0 \in 0 .. Len(Waiting) BY WaitingIs, LenProperties
        <4>4. QED BY <4>1, <4>2, <4>3
      <3>2. CASE mac'.usedValid
        <4> DEFINE m == Reset(mac)
        <4>1. FreeReset \/ ResetAgain
          <5>1. CASE PopStale
            <6>1. task' = "reset2" BY <5>1 DEF PopStale, Task
            <6>2. QED BY <1>1, <3>2, <6>1 DEF RmiiInvariant, InitInOrder
          <5>2. QED BY <1>6, <5>1
        <4>2. Write(m) BY <4>1 DEF FreeReset, ResetAgain
        <4>3. m \in MacType /\ IsEmpty(m.used) /\ m.usedValid = mac.usedValid /\ m.popped = mac.popped
          BY <2>1, ResetIs
        <4> HIDE DEF m
        <4>4. mac' = m BY <4>2, <4>3, PresentNothing DEF Write
        <4>5. mac'.used \in RingOf(Taken) /\ IsEmpty(mac'.used) BY <4>3, <4>4 DEF MacType
        <4>6. Entries(mac'.used) = << >> BY <4>5, EntriesType
        <4>7. SizesOf(<< >>) = << >> /\ << >> \in Seq(Nat)
          <5>1. << >> \in Seq(Taken) /\ << >> \in Seq(Nat) BY EmptySeq
          <5>2. QED BY <5>1, SizesType
        <4>8. mac.usedValid /\ mac'.popped = mac.popped BY <3>2, <4>3, <4>4
        <4>9. Entries(mac.used)' = << >> BY <4>6 DEF Entries, Length
        <4>10. Waiting' = << mac.popped.size >> \o SizesOf(<< >>) BY <3>2, <4>8, <4>9 DEF Waiting, SizesOf
        <4>11. mac.popped.size \in Nat /\ SizesOf(Entries(mac.used)) \in Seq(Nat)
               /\ Waiting = << mac.popped.size >> \o SizesOf(Entries(mac.used))
          BY <4>8, WaitingIs
        <4>12. Waiting' = << mac.popped.size >>
          <5>1. << mac.popped.size >> \in Seq(Nat) BY <4>11
          <5>2. QED BY <4>7, <4>10, <5>1, ConcatEmptySeq
        <4>13. SubSeq(Waiting, 1, 1) = << mac.popped.size >> /\ 1 \in 0 .. Len(Waiting) BY <4>11, First
        <4>14. QED BY <4>12, <4>13
      <3>3. QED BY <3>1, <3>2
    <2>4. FromHost!Discard BY <2>1, <2>2, <2>3 DEF FromHost!Discard
    <2>5. QED BY <2>4
  <1>7. CASE PutBuffer
    <2> DEFINE m == FreePut(mac, put)
    <2>1. mac \in MacType /\ UNCHANGED taken BY <1>7, InitFrame
    <2>2. put \in Id /\ put \notin Contents(mac.free) /\ Once(mac.free) /\ Write(m)
      <3>1. put \in 0 .. Buffers /\ put < Buffers /\ task = "put" /\ Write(m)
        BY <1>7 DEF PutBuffer, Task, RmiiInvariant, TypeOK
      <3>2. Contents(mac.free) = 0 .. put - 1 BY <3>1 DEF RmiiInvariant, InitInOrder, InFree, Contents
      <3>3. Once(mac.free) BY ApartIs DEF RmiiInvariant
      <3>4. put \in Id /\ put \notin 0 .. put - 1 BY <3>1, Sizes DEF Id
      <3>5. QED BY <3>1, <3>2, <3>3, <3>4
    <2>3. m \in MacType /\ Rest(mac, m) /\ m.used = mac.used /\ m.usedValid = mac.usedValid /\ m.popped = mac.popped
      BY <2>1, <2>2, FreePutIs
    <2> HIDE DEF m
    <2>4. mac' = m BY <2>2, <2>3, PresentNothing DEF Write, LineIsExact, RmiiInvariant
    <2>5. QED BY <1>2, <2>1, <2>3, <2>4 DEF Rest
  <1>8. CASE FreeBuffer
    <2>1. PICK f \in owned : Write(FreePut(mac, f.id)) BY <1>8 DEF FreeBuffer
    <2> DEFINE m == FreePut(mac, f.id)
    <2>2. mac \in MacType /\ f.id \in Id /\ UNCHANGED taken
      BY <1>8 DEF FreeBuffer, RmiiInvariant, TypeOK, Taken
    <2>3. Once(mac.free) /\ f.id \notin Contents(mac.free) BY ApartIs DEF RmiiInvariant, Apart
    <2>4. m \in MacType /\ Rest(mac, m) /\ m.used = mac.used /\ m.usedValid = mac.usedValid /\ m.popped = mac.popped
      BY <2>2, <2>3, FreePutIs
    <2> HIDE DEF m
    <2>5. mac' = m BY <2>1, <2>4, PresentNothing DEF Write, LineIsExact, RmiiInvariant, m
    <2>6. QED BY <1>2, <2>2, <2>4, <2>5 DEF Rest
  <1>9. CASE OutputPacket
    <2>1. /\ mac'.used = mac.used /\ mac'.usedValid = mac.usedValid /\ mac'.popped = mac.popped
          /\ mac'.rxEnable = mac.rxEnable /\ taken' = taken
      BY <1>9, SendFields
    <2>2. QED BY <1>2, <2>1
  <1>10. CASE SetLink \/ Interrupt \/ ReadValid \/ ReadSize \/ ReadId \/ EnableIrq \/ InputPacket \/ UNCHANGED vars
    <2>1. mac' = mac /\ taken' = taken
      BY <1>10 DEF SetLink, Interrupt, ReadValid, ReadSize, ReadId, Handler, EnableIrq, InputPacket, Task, vars
    <2>2. QED BY <1>2, <2>1
  <1>11. QED
    BY <1>3, <1>4, <1>5, <1>6, <1>7, <1>8, <1>9, <1>10 DEF Next, HandlerStep, TaskStep, InitRx

(* Between two calls of exchange only the guest's sends touch what waits for *)
(* the host.                                                                *)
LEMMA ToHostKept ==
  ASSUME RmiiInvariant, HandlerStep \/ InitRx \/ LinkDown \/ InputPacket \/ FreeBuffer \/ SetLink \/ UNCHANGED vars
  PROVE  mac'.toHost = mac.toHost /\ onWire' = onWire
  <1>1. mac \in MacType BY DEF RmiiInvariant, TypeOK
  <1>2. ASSUME NEW m, Write(m), m \in MacType, m.toHost = mac.toHost PROVE mac'.toHost = mac.toHost
    <2>1. mac' = Present(m) BY <1>2 DEF Write
    <2>2. Present(m).toHost = m.toHost BY <1>2, PresentNothing, PresentNext DEF Rest
    <2>3. QED BY <1>2, <2>1, <2>2
  <1>3. CASE Interrupt \/ ReadValid \/ ReadSize \/ ReadId \/ EnableIrq \/ InputPacket \/ SetLink \/ UNCHANGED vars
    BY <1>3 DEF Interrupt, ReadValid, ReadSize, ReadId, Handler, EnableIrq, InputPacket, Task, SetLink, vars
  <1>4. CASE AllocPop BY <1>4, PopFields
  <1>5. CASE LinkUp \/ LinkDown
    <2>1. Write(Disabled(mac)) /\ onWire' = onWire BY <1>5 DEF LinkUp, LinkDown, Task
    <2>2. QED BY <1>1, <1>2, <2>1, DisabledIs
  <1>6. CASE FreeReset \/ ResetAgain
    <2>1. Write(Reset(mac)) /\ onWire' = onWire BY <1>6 DEF FreeReset, ResetAgain, Task
    <2>2. QED BY <1>1, <1>2, <2>1, ResetIs DEF Rest
  <1>7. CASE PopStale
    <2>1. Write(Acked(mac)) /\ onWire' = onWire BY <1>7 DEF PopStale, Task
    <2>2. Acked(mac) \in MacType /\ Acked(mac).toHost = mac.toHost
      <3>1. CASE mac.usedValid BY <1>1, <3>1, AckedIs DEF Rest
      <3>2. CASE ~mac.usedValid BY <1>1, <3>2 DEF Acked
      <3>3. QED BY <3>1, <3>2
    <2>3. QED BY <1>2, <2>1, <2>2
  <1>8. CASE PutBuffer
    <2>1. put \in 0 .. Buffers /\ put < Buffers /\ task = "put" /\ Write(FreePut(mac, put)) /\ onWire' = onWire
      BY <1>8 DEF PutBuffer, Task, RmiiInvariant, TypeOK
    <2>2. Contents(mac.free) = 0 .. put - 1 BY <2>1 DEF RmiiInvariant, InitInOrder, InFree, Contents
    <2>3. Once(mac.free) BY ApartIs DEF RmiiInvariant
    <2>4. put \in Id /\ put \notin 0 .. put - 1 BY <2>1, Sizes DEF Id
    <2>5. QED BY <1>1, <1>2, <2>1, <2>2, <2>3, <2>4, FreePutIs DEF Rest
  <1>9. CASE EnableRx
    <2> DEFINE m == [mac EXCEPT !.rxEnable = TRUE]
    <2>1. m \in MacType /\ m.toHost = mac.toHost BY <1>1 DEF MacType
    <2>2. Write(m) /\ onWire' = onWire BY <1>9 DEF EnableRx, Task
    <2> HIDE DEF m
    <2>3. QED BY <1>2, <2>1, <2>2
  <1>10. CASE FreeBuffer
    <2>1. PICK f \in owned : Write(FreePut(mac, f.id)) BY <1>10 DEF FreeBuffer
    <2>2. f.id \in Id /\ onWire' = onWire BY <1>10 DEF FreeBuffer, RmiiInvariant, TypeOK, Taken
    <2>3. Once(mac.free) /\ f.id \notin Contents(mac.free) BY ApartIs DEF RmiiInvariant, Apart
    <2>4. QED BY <1>1, <1>2, <2>1, <2>2, <2>3, FreePutIs DEF Rest
  <1>11. QED BY <1>3, <1>4, <1>5, <1>6, <1>7, <1>8, <1>9, <1>10 DEF HandlerStep, InitRx

LEMMA ToHostNext == ASSUME RmiiInvariant, [Next]_vars PROVE [ToHost!Next]_(ToHost!vars)
  <1> USE DEF ToHost!Next, ToHost!vars
  <1>1. mac.toHost \in Seq(Nat) /\ onWire \in Seq(Nat) BY DEF RmiiInvariant, TypeOK, MacType
  <1>2. CASE HandlerStep \/ InitRx \/ LinkDown \/ InputPacket \/ FreeBuffer \/ SetLink \/ UNCHANGED vars
    BY <1>2, ToHostKept
  <1>3. CASE OutputPacket
    <2>1. /\ onWire' = onWire /\ sends' \in Nat
          /\ mac'.toHost \in {mac.toHost, Append(mac.toHost, sends')}
      BY <1>3, SendFields
    <2>2. CASE mac'.toHost = mac.toHost BY <2>1, <2>2
    <2>3. CASE mac'.toHost = Append(mac.toHost, sends')
      <3>1. ToHost!Accept BY <1>1, <2>1, <2>3, Last DEF ToHost!Accept
      <3>2. QED BY <3>1
    <2>4. QED BY <2>1, <2>2, <2>3
  <1>4. CASE Exchange
    <2>1. onWire' = onWire \o mac.toHost /\ Emptied \in MacType /\ Emptied.toHost = << >> /\ Emptied.free = mac.free
      BY <1>4, ExchangeFrame
    <2>2. mac'.toHost = << >>
      <3>1. CASE mac' = Emptied BY <2>1, <3>1
      <3>2. CASE Reject(Emptied)
        <4> DEFINE n == Allocated(Emptied)
        <4> DEFINE b == Buffer(Emptied)
        <4>1. HasBuffer(Emptied) /\ mac' = [n EXCEPT !.held = b] BY <3>2 DEF Reject
        <4>2. Once(mac.free) BY ApartIs DEF RmiiInvariant
        <4>3. n \in MacType /\ n.toHost = Emptied.toHost BY <2>1, <4>1, <4>2, AllocatedIs DEF Rest
        <4> HIDE DEF n, b
        <4>4. mac'.toHost = n.toHost BY <4>1, <4>3 DEF MacType
        <4>5. QED BY <2>1, <4>3, <4>4
      <3>3. CASE Accept(Emptied, frames') BY <1>4, <3>3, AcceptFields
      <3>4. QED BY <1>4, <3>1, <3>2, <3>3 DEF Exchange, Emptied, Drop
    <2>3. CASE mac.toHost = << >>
      <3>1. onWire' = onWire BY <1>1, <2>1, <2>3, ConcatEmptySeq
      <3>2. QED BY <2>2, <2>3, <3>1
    <2>4. CASE mac.toHost # << >>
      <3> DEFINE w == mac.toHost
      <3>1. Len(w) \in 1 .. Len(w) /\ Len(w) \in Nat BY <1>1, <2>4, EmptySeq
      <3>2. SubSeq(w, 1, Len(w)) = w BY <1>1, SubSeqFull
      <3>3. SubSeq(w, Len(w) + 1, Len(w)) = << >>
        <4>1. Len(w) < Len(w) + 1 /\ Len(w) + 1 \in Int /\ Len(w) \in Int BY <3>1
        <4>2. QED BY <4>1, SubSeqEmpty
      <3>4. ToHost!Pass BY <2>1, <2>2, <3>1, <3>2, <3>3 DEF ToHost!Pass
      <3>5. QED BY <3>4
    <2>5. QED BY <2>3, <2>4
  <1>5. QED BY <1>2, <1>3, <1>4 DEF Next, TaskStep

LEMMA FramesStart == ASSUME Init PROVE FromHost!Init /\ ToHost!Init
  <1>1. RmiiInvariant BY InitRmii
  <1>2. ~mac.usedValid /\ ~mac.rxEnable /\ mac.toHost = << >> BY DEF Init, PowerOn
  <1>3. mac.rxEnable \in BOOLEAN BY DEF Init, PowerOn
  <1>4. FromHost!Init BY <1>1, <1>2, <1>3, WaitingIs DEF Init, FromHost!Init
  <1>5. ToHost!Init BY <1>2 DEF Init, ToHost!Init
  <1>6. QED BY <1>4, <1>5

(* The frames of the host reach the driver, and the guest's the host, in     *)
(* their order and each once: what waits is accepted at its end, taken from  *)
(* its front and, while the receiver is off, cut from its end.               *)
THEOREM FramesKeepOrder == Spec => FramesInOrder
  <1>1. Init => FromHost!Init /\ ToHost!Init BY FramesStart
  <1>2. RmiiInvariant /\ [Next]_vars => [FromHost!Next]_(FromHost!vars) /\ [ToHost!Next]_(ToHost!vars)
    BY FromHostNext, ToHostNext
  <1>3. Spec => FromHost!Spec BY <1>1, <1>2, RmiiHolds, PTL DEF Spec, FromHost!Spec
  <1>4. Spec => ToHost!Spec BY <1>1, <1>2, RmiiHolds, PTL DEF Spec, ToHost!Spec
  <1>5. QED BY <1>3, <1>4 DEF FramesInOrder
=============================================================================
