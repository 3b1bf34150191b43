----------------------------- MODULE GuideProofs -----------------------------
(***************************************************************************)
(* Proofs about the programme guide: the store (EpgStore), for all objects *)
(* and carousels, every size of the cache, of the pool, of the contexts    *)
(* and of the counter of epochs, and any number of events; and its two     *)
(* halves side by side (MCGuide).                                          *)
(*                                                                         *)
(* The argument: every entry of the cache has a context of its station and *)
(* day and its own two places in the pool, and no place is without an      *)
(* entry (Pool), through erasure and compaction, which move them all.  An  *)
(* epoch belongs to one context (Epochs), so that what was received under  *)
(* it was received for that context; and what was received for a context   *)
(* is in it, unless the context is marked as limited or the station has    *)
(* two names (Recalls).  For the object that is being decoded this is true *)
(* of what has been taken over so far (Progress), so it is true of the     *)
(* object when it counts as received.                                      *)
(***************************************************************************)
EXTENDS MCGuide, SpiProbeProofs, FiniteSetTheorems, SequenceTheorems, WellFoundedInduction

\* A set of numbers has a least element.
LEMMA LeastOf ==
  ASSUME NEW S, S \subseteq Nat, S # {}
  PROVE  \E x \in S : \A y \in S : x <= y
<1>1. \E x \in S : \A y \in S : ~(<<y, x>> \in OpToRel(<, Nat))
  BY NatLessThanWellFounded, WFMin
<1>2. \A x, y \in Nat : y < x => <<y, x>> \in OpToRel(<, Nat)
  BY DEF OpToRel
<1>3. \E x \in S : \A y \in S : ~(y < x)
  BY <1>1, <1>2, Zenon
<1> QED
  BY <1>3

\* Min chooses the least element.
LEMMA MinOf ==
  ASSUME NEW S, S \subseteq Nat, S # {}
  PROVE  Min(S) \in S
<1>1. \E x \in S : \A y \in S : x <= y
  BY LeastOf
<1> QED
  BY <1>1, Zenon DEF Min

-----------------------------------------------------------------------------
(* The pool of texts. *)

\* Ranks number the offsets that are left, in their order.
LEMMA RankNumbers ==
  ASSUME NEW S, IsFiniteSet(S), S \subseteq Nat
  PROVE  /\ Cardinality(S) \in Nat
         /\ \A x \in S : Rank(S, x) \in 1..Cardinality(S) /\ AtRank(S, Rank(S, x)) = x
         /\ \A n \in 1..Cardinality(S) : AtRank(S, n) \in S /\ Rank(S, AtRank(S, n)) = n
<1> DEFINE Upto(x) == {y \in S : y <= x}
<1>1. ASSUME NEW x \in S
      PROVE  /\ IsFiniteSet(Upto(x)) /\ x \in Upto(x) /\ Cardinality(Upto(x)) \in Nat
             /\ Cardinality(Upto(x)) # 0 /\ Cardinality(Upto(x)) <= Cardinality(S)
  <2>1. Upto(x) \subseteq S /\ x \in Upto(x)
    OBVIOUS
  <2>2. IsFiniteSet(Upto(x)) /\ Cardinality(Upto(x)) <= Cardinality(S)
    BY <2>1, FS_Subset
  <2> QED
    BY <2>1, <2>2, FS_CardinalityType, FS_EmptySet
<1>2. Cardinality(S) \in Nat
  BY FS_CardinalityType
<1>3. ASSUME NEW x \in S PROVE Rank(S, x) \in 1..Cardinality(S)
  BY <1>1, <1>2 DEF Rank
<1>4. ASSUME NEW x \in S, NEW y \in S, x < y PROVE Rank(S, x) < Rank(S, y)
  <2>0. \A z \in S : z \in Nat /\ (z <= x => z <= y)
    BY <1>4
  <2>1. Upto(x) \subseteq Upto(y)
    BY <2>0
  <2>2. y \in Upto(y) /\ y \notin Upto(x)
    BY <1>4
  <2>a. IsFiniteSet(Upto(y)) /\ Upto(x) \in SUBSET Upto(y) /\ Upto(x) # Upto(y)
    BY <1>1, <2>1, <2>2
  <2> HIDE DEF Upto
  <2>b. Cardinality(Upto(x)) <= Cardinality(Upto(y)) /\ Cardinality(Upto(y)) # Cardinality(Upto(x))
    BY <2>a, FS_Subset
  <2>3. Cardinality(Upto(x)) < Cardinality(Upto(y))
    BY <1>1, <2>b
  <2> QED
    BY <2>3 DEF Rank, Upto
<1>5. ASSUME NEW x \in S, NEW y \in S, Rank(S, x) = Rank(S, y) PROVE x = y
  <2>1. x \in Nat /\ y \in Nat
    OBVIOUS
  <2>2. Rank(S, x) \in Nat /\ Rank(S, y) \in Nat
    BY <1>3
  <2>3. ~(x < y) /\ ~(y < x)
    BY <1>4, <1>5, <2>2
  <2> QED
    BY <2>1, <2>3
<1> DEFINE f == [x \in S |-> Rank(S, x)]
           T == 1..Cardinality(S)
<1>6. f \in Injection(S, T)
  BY <1>3, <1>5 DEF Injection, IsInjective
<1>7. IsFiniteSet(T) /\ Cardinality(T) = Cardinality(S)
  BY <1>2, FS_Interval
<1>8. f \in Surjection(S, T)
  BY <1>6, <1>7, FS_Injection
<1>9. ASSUME NEW n \in T PROVE \E x \in S : Rank(S, x) = n
  BY <1>8 DEF Surjection
<1>10. ASSUME NEW n \in T PROVE AtRank(S, n) \in S /\ Rank(S, AtRank(S, n)) = n
  <2>1. \E x \in S : Rank(S, x) = n
    BY <1>9
  <2> QED
    BY <2>1, Zenon DEF AtRank
<1>11. ASSUME NEW x \in S PROVE AtRank(S, Rank(S, x)) = x
  BY <1>3, <1>5, <1>10
<1> QED
  BY <1>2, <1>3, <1>10, <1>11

\* RemoveAt moves the rest of the texts down.
LEMMA Removed ==
  ASSUME NEW T, NEW s \in Seq(T), NEW i \in 1..Len(s)
  PROVE  /\ RemoveAt(s, i) \in Seq(T) /\ Len(RemoveAt(s, i)) = Len(s) - 1
         /\ \A j \in 1..(Len(s) - 1) : RemoveAt(s, i)[j] = IF j < i THEN s[j] ELSE s[j + 1]
<1> DEFINE low == SubSeq(s, 1, i - 1)
           high == SubSeq(s, i + 1, Len(s))
<1>1. Len(s) \in Nat /\ i \in Nat /\ i >= 1 /\ i <= Len(s) /\ \A j \in 1..Len(s) : s[j] \in T
  BY LenProperties, ElementOfSeq
<1>2. low \in Seq(T) /\ Len(low) = i - 1 /\ \A j \in 1..(i - 1) : low[j] = s[j]
  <2>1. 1 \in Int /\ i - 1 \in Int /\ \A j \in 1..(i - 1) : s[j] \in T
    BY <1>1
  <2>2. /\ low \in Seq(T) /\ Len(low) = IF 1 <= i - 1 THEN (i - 1) - 1 + 1 ELSE 0
        /\ \A j \in 1..((i - 1) - 1 + 1) : low[j] = s[1 + j - 1]
    BY <2>1, SubSeqProperties
  <2>3. (i - 1) - 1 + 1 = i - 1 /\ (~(1 <= i - 1) => i - 1 = 0) /\ \A j \in 1..(i - 1) : 1 + j - 1 = j
    BY <1>1
  <2> QED
    BY <2>2, <2>3
<1>3. /\ high \in Seq(T) /\ Len(high) = Len(s) - i
      /\ \A j \in 1..(Len(s) - i) : high[j] = s[j + i]
  <2>1. i + 1 \in Int /\ Len(s) \in Int /\ \A j \in (i + 1)..Len(s) : s[j] \in T
    BY <1>1
  <2>2. /\ high \in Seq(T) /\ Len(high) = IF i + 1 <= Len(s) THEN Len(s) - (i + 1) + 1 ELSE 0
        /\ \A j \in 1..(Len(s) - (i + 1) + 1) : high[j] = s[(i + 1) + j - 1]
    BY <2>1, SubSeqProperties
  <2>3. /\ Len(s) - (i + 1) + 1 = Len(s) - i /\ (~(i + 1 <= Len(s)) => Len(s) - i = 0)
        /\ \A j \in 1..(Len(s) - i) : (i + 1) + j - 1 = j + i
    BY <1>1
  <2> QED
    BY <2>2, <2>3
<1>4. RemoveAt(s, i) = low \o high
  BY DEF RemoveAt
<1> HIDE DEF low, high
<1>5. /\ low \o high \in Seq(T) /\ Len(low \o high) = (i - 1) + (Len(s) - i)
      /\ \A j \in 1..((i - 1) + (Len(s) - i)) :
           (low \o high)[j] = IF j <= i - 1 THEN low[j] ELSE high[j - (i - 1)]
  <2>1. /\ low \o high \in Seq(T) /\ Len(low \o high) = Len(low) + Len(high)
        /\ \A j \in 1..(Len(low) + Len(high)) :
             (low \o high)[j] = IF j <= Len(low) THEN low[j] ELSE high[j - Len(low)]
    BY <1>2, <1>3, ConcatProperties
  <2> QED
    BY <1>2, <1>3, <2>1, Zenon
<1>6. (i - 1) + (Len(s) - i) = Len(s) - 1
  BY <1>1
<1>7. ASSUME NEW j \in 1..(Len(s) - 1) PROVE (low \o high)[j] = IF j < i THEN s[j] ELSE s[j + 1]
  <2>1. CASE j < i
    BY <1>1, <1>2, <1>5, <1>6, <2>1
  <2>2. CASE ~(j < i)
    <3>1. /\ ~(j <= i - 1) /\ j - (i - 1) \in 1..(Len(s) - i) /\ (j - (i - 1)) + i = j + 1
      BY <1>1, <2>2
    <3> QED
      BY <1>3, <1>5, <1>6, <2>2, <3>1
  <2> QED
    BY <2>1, <2>2
<1> QED
  BY <1>4, <1>5, <1>6, <1>7

-----------------------------------------------------------------------------
(* What the pool holds: K is the cache, T the texts and X the contexts. *)

Entries == [ context : ContextIds, id : Nat, day : Nat, version : Nat,
             title : Nat, description : Nat ]
Texts == {Text(p, part) : p \in Programmes, part \in {"title", "description"}}

ProgrammeOf(X, p) ==
  [bearer |-> X[p.context].bearer, id |-> p.id, day |-> p.day, version |-> p.version]

HasTexts(T, X, p) ==
  /\ p.title # 0 => p.title \in 1..Len(T) /\ T[p.title] = Text(ProgrammeOf(X, p), "title")
  /\ p.description # 0 =>
       /\ p.description \in 1..Len(T)
       /\ T[p.description] = Text(ProgrammeOf(X, p), "description")

\* Entries of one context differ in programme and day, and contexts in station or day.
Keyed(K) == \A p, q \in K : p.context = q.context /\ p.id = q.id /\ p.day = q.day => p = q
Apart(X) ==
  \A i, j \in ContextIds :
    X[i].valid /\ X[j].valid /\ X[i].bearer = X[j].bearer /\ X[i].day = X[j].day => i = j

Placed(X, p) == X[p.context].valid /\ X[p.context].day = p.day

Pool(K, T, X) ==
  /\ K \subseteq Entries /\ IsFiniteSet(K) /\ T \in Seq(Texts)
  /\ \A p \in K : Placed(X, p) /\ HasTexts(T, X, p)
  /\ Keyed(K)
  /\ \A n \in 1..Len(T) : \E p \in K : n \in Refers(p)

\* What a cache knows, wherever the texts are
Known(K) == {<<p.context, p.id, p.day, p.version>> : p \in K}

\* An entry whose texts have moved
Shift(f, p) == [p EXCEPT !.title = f[@], !.description = f[@]]

Shifted(f, K) == {Shift(f, p) : p \in K}

\* f takes each text of the entries in kept from T to U, which holds no other.
Relocates(K, T, X, Y, kept, U, f) ==
  /\ kept \subseteq K /\ U \in Seq(Texts)
  /\ f \in [0..Len(T) -> 0..Len(U)] /\ f[0] = 0
  /\ \A o \in 1..Len(T) : f[o] # 0 => U[f[o]] = T[o]
  /\ \A n \in 1..Len(U) : \E p \in kept : \E o \in Refers(p) : f[o] = n
  /\ \A p \in kept : /\ Y[p.context].valid /\ Y[p.context].day = X[p.context].day
                     /\ Y[p.context].bearer = X[p.context].bearer

\* Texts that move together with what refers to them stay the texts of their programme.
LEMMA Relocated ==
  ASSUME NEW K, NEW T, NEW X, NEW Y, NEW kept, NEW U, NEW f,
         Pool(K, T, X), Relocates(K, T, X, Y, kept, U, f)
  PROVE  /\ Pool(Shifted(f, kept), U, Y) /\ Cardinality(Shifted(f, kept)) <= Cardinality(K)
         /\ Known(Shifted(f, kept)) = Known(kept)
<1> USE DEF Relocates
<1> DEFINE K2 == {Shift(f, p) : p \in kept}
<1>0. Shifted(f, kept) = K2
  BY DEF Shifted
<1>1. Len(T) \in Nat /\ Len(U) \in Nat
  BY LenProperties DEF Pool
<1>2. ASSUME NEW p \in kept
      PROVE  /\ p \in Entries /\ p.title \in 0..Len(T) /\ p.description \in 0..Len(T)
             /\ Placed(X, p) /\ HasTexts(T, X, p)
  BY <1>1 DEF Pool, HasTexts, Entries
<1>3. ASSUME NEW p \in kept
      PROVE  /\ Shift(f, p) \in Entries
             /\ Shift(f, p).context = p.context /\ Shift(f, p).id = p.id
             /\ Shift(f, p).day = p.day /\ Shift(f, p).version = p.version
             /\ Shift(f, p).title = f[p.title] /\ Shift(f, p).description = f[p.description]
             /\ f[p.title] \in 0..Len(U) /\ f[p.description] \in 0..Len(U)
  <2>1. f[p.title] \in 0..Len(U) /\ f[p.description] \in 0..Len(U)
    BY <1>2
  <2>2. f[p.title] \in Nat /\ f[p.description] \in Nat
    BY <1>1, <2>1
  <2> QED
    BY <1>2, <2>1, <2>2 DEF Shift, Entries
<1>4. K2 \subseteq Entries
  BY <1>3
<1>5. IsFiniteSet(K2) /\ Cardinality(K2) <= Cardinality(K)
  <2> DEFINE g == [p \in kept |-> Shift(f, p)]
  <2>1. IsFiniteSet(kept) /\ Cardinality(kept) <= Cardinality(K) /\ IsFiniteSet(K)
    BY FS_Subset DEF Pool
  <2>2. g \in Surjection(kept, K2)
    BY DEF Surjection
  <2>3. IsFiniteSet(K2) /\ Cardinality(K2) <= Cardinality(kept)
    BY <2>1, <2>2, FS_Surjection
  <2> QED
    BY <2>1, <2>3, FS_CardinalityType
<1>6. ASSUME NEW p \in kept PROVE Placed(Y, Shift(f, p)) /\ HasTexts(U, Y, Shift(f, p))
  <2>1. ProgrammeOf(Y, Shift(f, p)) = ProgrammeOf(X, p)
    BY <1>3 DEF ProgrammeOf
  <2>2. Placed(Y, Shift(f, p))
    BY <1>2, <1>3 DEF Placed
  <2>3. f[p.title] # 0 => p.title \in 1..Len(T) /\ f[p.title] \in 1..Len(U)
    BY <1>1, <1>2, <1>3
  <2>4. f[p.description] # 0 => p.description \in 1..Len(T) /\ f[p.description] \in 1..Len(U)
    BY <1>1, <1>2, <1>3
  <2>5. f[p.title] # 0 => U[f[p.title]] = Text(ProgrammeOf(X, p), "title")
    <3>1. p.title # 0 => T[p.title] = Text(ProgrammeOf(X, p), "title")
      BY <1>2 DEF HasTexts
    <3> QED
      BY <2>3, <3>1
  <2>6. f[p.description] # 0 => U[f[p.description]] = Text(ProgrammeOf(X, p), "description")
    <3>1. p.description # 0 => T[p.description] = Text(ProgrammeOf(X, p), "description")
      BY <1>2 DEF HasTexts
    <3> QED
      BY <2>4, <3>1
  <2> QED
    BY <1>3, <2>1, <2>2, <2>3, <2>4, <2>5, <2>6 DEF HasTexts
<1>7. Keyed(K2)
  <2>1. \A p, q \in kept : p.context = q.context /\ p.id = q.id /\ p.day = q.day => p = q
    BY DEF Pool, Keyed
  <2> QED
    BY <1>3, <2>1 DEF Keyed
<1>8. ASSUME NEW n \in 1..Len(U) PROVE \E q \in K2 : n \in Refers(q)
  <2>1. PICK p \in kept : \E o \in Refers(p) : f[o] = n
    OBVIOUS
  <2>2. n # 0
    BY <1>1
  <2>3. n \in Refers(Shift(f, p))
    BY <1>3, <2>1, <2>2 DEF Refers
  <2> QED
    BY <2>3
<1>10. Known(K2) = Known(kept)
  <2>1. Known(K2) \subseteq Known(kept)
    BY <1>3 DEF Known
  <2>2. Known(kept) \subseteq Known(K2)
    <3> SUFFICES ASSUME NEW p \in kept
                 PROVE  <<p.context, p.id, p.day, p.version>> \in Known(K2)
      BY DEF Known
    <3>1. Shift(f, p) \in K2
      OBVIOUS
    <3> QED
      BY <1>3, <3>1 DEF Known
  <2> QED
    BY <2>1, <2>2
<1> HIDE DEF K2
<1>9. Pool(K2, U, Y)
  <2>1. \A q \in K2 : Placed(Y, q) /\ HasTexts(U, Y, q)
    BY <1>6 DEF K2
  <2> QED
    BY <1>4, <1>5, <1>7, <1>8, <2>1 DEF Pool
<1> QED
  BY <1>0, <1>5, <1>9, <1>10

-----------------------------------------------------------------------------
(* The core: its types, and what its methods leave alone. *)

ContextStates ==
  [ valid : BOOLEAN, bearer : Stations \cup {0}, day : Nat, epoch : 0..(EpochMod - 1),
    used : Nat, limited : BOOLEAN ]
SlotStates == [object : Objects \cup {0}, have : SUBSET Nat, complete : BOOLEAN]

Cores ==
  [ directory : 0..Len(Carousels), seen : SUBSET Objects, epochOf : [Objects -> 0..(EpochMod - 1)],
    names : [Stations -> STRING \cup {Unnamed, Conflicting}], identityConflict : BOOLEAN,
    selected : Stations \cup {0}, day : Nat, now : Nat, browse : (-MaxBrowse)..MaxBrowse,
    contexts : [ContextIds -> ContextStates], context : ContextIds, limited : BOOLEAN,
    epoch : 1..(EpochMod - 1), nextEpoch : 1..(EpochMod - 1), uses : Nat,
    cache : SUBSET Entries, texts : Seq(Texts),
    slots : [Slots -> SlotStates], pressure : BOOLEAN, decoding : Slots \cup {0},
    left : Seq(Programmes) \cup Seq(StationNames) ]

PoolOf(c) ==
  /\ Pool(c.cache, c.texts, c.contexts) /\ Apart(c.contexts)
  /\ Cardinality(c.cache) <= MaxProgrammes /\ Len(c.texts) <= TextSize

Titled(K) == \A p \in K : p.title # 0

\* d is c but for the cache, the texts and the contexts.
OnlyPool(c, d) == d = [c EXCEPT !.cache = d.cache, !.texts = d.texts, !.contexts = d.contexts]

\* What changes nothing but the pool leaves a core.
LEMMA PoolFrame ==
  ASSUME NEW c \in Cores, NEW d, OnlyPool(c, d),
         d.cache \subseteq Entries, d.texts \in Seq(Texts), d.contexts \in [ContextIds -> ContextStates]
  PROVE  d \in Cores
BY DEF OnlyPool, Cores

\* Erasing a text takes it from the entry that has it, and moves the others down.
Down(o, size) == [x \in 0..size |-> IF x = o THEN 0 ELSE IF x > o THEN x - 1 ELSE x]

\* EraseText leaves a pool in order, in which the entries know what they knew.
LEMMA TextErased ==
  ASSUME NEW c \in Cores, PoolOf(c), NEW o \in 1..Len(c.texts)
  PROVE  LET d == EraseText(c, o)
         IN /\ d \in Cores /\ PoolOf(d) /\ OnlyPool(c, d) /\ d.contexts = c.contexts
            /\ d.cache = Shifted(Down(o, Len(c.texts)), c.cache)
            /\ Known(d.cache) = Known(c.cache)
            /\ Len(d.texts) = Len(c.texts) - 1
<1> DEFINE d == EraseText(c, o)
           T == c.texts
           U == RemoveAt(c.texts, o)
           f == Down(o, Len(T))
           K2 == Shifted(f, c.cache)
<1>1. T \in Seq(Texts) /\ Len(T) \in Nat /\ o \in 1..Len(T) /\ c.cache \subseteq Entries
  BY LenProperties DEF Cores
<1>2. /\ U \in Seq(Texts) /\ Len(U) = Len(T) - 1
      /\ \A j \in 1..(Len(T) - 1) : U[j] = IF j < o THEN T[j] ELSE T[j + 1]
  BY <1>1, Removed
<1>3. f \in [0..Len(T) -> 0..Len(U)] /\ f[0] = 0
  BY <1>1, <1>2 DEF Down
<1>4. ASSUME NEW x \in 1..Len(T), f[x] # 0 PROVE U[f[x]] = T[x]
  BY <1>1, <1>2, <1>4 DEF Down
<1>5. ASSUME NEW n \in 1..Len(U) PROVE \E p \in c.cache : \E x \in Refers(p) : f[x] = n
  <2>1. CASE n < o
    <3>1. n \in 1..Len(T) /\ f[n] = n
      BY <1>1, <1>2, <2>1 DEF Down
    <3>2. \E p \in c.cache : n \in Refers(p)
      BY <3>1 DEF PoolOf, Pool
    <3> QED
      BY <3>1, <3>2
  <2>2. CASE ~(n < o)
    <3>1. n + 1 \in 1..Len(T) /\ f[n + 1] = n
      BY <1>1, <1>2, <2>2 DEF Down
    <3>2. \E p \in c.cache : n + 1 \in Refers(p)
      BY <3>1 DEF PoolOf, Pool
    <3> QED
      BY <3>1, <3>2
  <2> QED
    BY <2>1, <2>2
<1>6. /\ Pool(K2, U, c.contexts) /\ Cardinality(K2) <= Cardinality(c.cache)
      /\ Known(K2) = Known(c.cache)
  <2> DEFINE K == c.cache
             X == c.contexts
  <2>1. \A p \in K : /\ X[p.context].valid /\ X[p.context].day = X[p.context].day
                    /\ X[p.context].bearer = X[p.context].bearer
    BY DEF PoolOf, Pool, Placed
  <2>2. Pool(K, T, X) /\ K \in SUBSET K /\ U \in Seq(Texts)
    BY <1>2 DEF PoolOf
  <2>3. \A x \in 1..Len(T) : f[x] # 0 => U[f[x]] = T[x]
    BY <1>4
  <2>4. \A n \in 1..Len(U) : \E p \in K : \E x \in Refers(p) : f[x] = n
    BY <1>5
  <2> HIDE DEF f, U, T, K, X
  <2>5. Relocates(K, T, X, X, K, U, f)
    BY <1>3, <2>1, <2>2, <2>3, <2>4 DEF Relocates
  <2> QED
    BY <2>2, <2>5, Relocated DEF K, X, K2
<1>7. d = [c EXCEPT !.texts = U, !.cache = K2]
  <2>1. o # 0
    BY <1>1
  <2> DEFINE Place(x) == IF x = o THEN 0 ELSE IF x > o THEN x - 1 ELSE x
  <2>2. d = [c EXCEPT !.texts = U, !.cache = {Moved(p, Place) : p \in c.cache}]
    BY <2>1 DEF EraseText, Cores
  <2>3. ASSUME NEW p \in c.cache PROVE Moved(p, Place) = Shift(f, p)
    <3>1. p \in Entries /\ p.title \in 0..Len(T) /\ p.description \in 0..Len(T)
      BY <1>1 DEF PoolOf, Pool, HasTexts, Entries
    <3>2. f[p.title] = (IF p.title = 0 THEN 0 ELSE Place(p.title))
      BY <1>1, <3>1 DEF Down
    <3>3. f[p.description] = (IF p.description = 0 THEN 0 ELSE Place(p.description))
      BY <1>1, <3>1 DEF Down
    <3> QED
      BY <3>1, <3>2, <3>3 DEF Moved, Shift, Entries
  <2>4. {Moved(p, Place) : p \in c.cache} = K2
    BY <2>3 DEF Shifted
  <2> HIDE DEF K2, Place, U
  <2> QED
    BY <2>2, <2>4
<1> HIDE DEF f, K2, U
<1>8. /\ d.cache = K2 /\ d.texts = U /\ d.contexts = c.contexts /\ OnlyPool(c, d)
  BY <1>7 DEF Cores, OnlyPool
<1>9. d \in Cores
  BY <1>2, <1>6, <1>7, <1>8 DEF Pool, Cores
<1>10. PoolOf(d)
  <2>1. Cardinality(K2) \in Nat /\ Cardinality(c.cache) \in Nat /\ MaxProgrammes \in Nat /\ TextSize \in Nat
    BY <1>6, FS_CardinalityType, EpgAssumption DEF Pool, PoolOf
  <2> QED
    BY <1>1, <1>2, <1>6, <1>8, <2>1 DEF PoolOf
<1> QED
  BY <1>2, <1>6, <1>8, <1>9, <1>10 DEF K2, f

\* An eviction takes the entries of some contexts, and their texts.
LEMMA Evicted ==
  ASSUME NEW c \in Cores, PoolOf(c), NEW S
  PROVE  LET d == EvictContexts(c, S)
         IN /\ d \in Cores /\ PoolOf(d) /\ OnlyPool(c, d)
            /\ d.contexts = [i \in ContextIds |-> IF i \in S THEN EmptyContext ELSE c.contexts[i]]
            /\ Known(d.cache) = {k \in Known(c.cache) : k[1] \notin S}
            /\ Titled(c.cache) => Titled(d.cache)
<1> DEFINE d == EvictContexts(c, S)
           T == c.texts
           X == c.contexts
           K == c.cache
           kept == {p \in K : p.context \notin S}
           offsets == UNION {Refers(p) : p \in kept}
           size == Cardinality(offsets)
           U == [n \in 1..size |-> T[AtRank(offsets, n)]]
           Y == [i \in ContextIds |-> IF i \in S THEN EmptyContext ELSE X[i]]
           f == [x \in 0..Len(T) |-> IF x \in offsets THEN Rank(offsets, x) ELSE 0]
           K2 == Shifted(f, kept)
<1>1. /\ T \in Seq(Texts) /\ Len(T) \in Nat /\ T \in [1..Len(T) -> Texts]
      /\ X \in [ContextIds -> ContextStates] /\ K \subseteq Entries
  BY LenProperties DEF Cores
<1>2. ASSUME NEW p \in K
      PROVE  /\ p \in Entries /\ Refers(p) \subseteq 1..Len(T)
             /\ p.title \in 0..Len(T) /\ p.description \in 0..Len(T)
    BY <1>1 DEF PoolOf, Pool, HasTexts, Entries, Refers
<1>3. offsets \subseteq 1..Len(T) /\ IsFiniteSet(offsets) /\ offsets \subseteq Nat
  <2>1. offsets \subseteq 1..Len(T)
    BY <1>2
  <2>2. IsFiniteSet(1..Len(T)) /\ 1..Len(T) \subseteq Nat
    BY <1>1, FS_Interval
  <2> HIDE DEF offsets
  <2>3. offsets \in SUBSET (1..Len(T))
    BY <2>1
  <2>4. IsFiniteSet(offsets)
    BY <2>2, <2>3, FS_Subset
  <2> QED
    BY <2>2, <2>3, <2>4
<1>4. /\ size \in Nat
      /\ \A x \in offsets : Rank(offsets, x) \in 1..size /\ AtRank(offsets, Rank(offsets, x)) = x
      /\ \A n \in 1..size : AtRank(offsets, n) \in offsets /\ Rank(offsets, AtRank(offsets, n)) = n
  <2> HIDE DEF offsets
  <2> QED
    BY <1>3, RankNumbers
<1>5. size <= Len(T)
  <2>1. Cardinality(1..Len(T)) = Len(T) /\ IsFiniteSet(1..Len(T))
    BY <1>1, FS_Interval
  <2> HIDE DEF offsets
  <2> QED
    BY <1>3, <2>1, FS_Subset
<1>6. U \in Seq(Texts) /\ Len(U) = size /\ \A n \in 1..size : U[n] = T[AtRank(offsets, n)]
  <2> HIDE DEF offsets, size
  <2>1. \A n \in 1..size : T[AtRank(offsets, n)] \in Texts
    BY <1>1, <1>3, <1>4
  <2>2. U \in [1..size -> Texts] /\ size \in Nat
    BY <1>4, <2>1
  <2>3. U \in Seq(Texts)
    BY <2>2
  <2> QED
    BY <1>4, <2>2, <2>3
<1>7. /\ f \in [0..Len(T) -> 0..Len(U)] /\ f[0] = 0
      /\ \A x \in offsets : f[x] = Rank(offsets, x) /\ f[x] # 0
      /\ \A x \in 0..Len(T) : f[x] # 0 => x \in offsets
  <2> HIDE DEF offsets, size, U
  <2> QED
    BY <1>1, <1>3, <1>4, <1>6
<1>8. \A x \in 1..Len(T) : f[x] # 0 => U[f[x]] = T[x]
  <2> HIDE DEF offsets, size, U, f
  <2> QED
    BY <1>1, <1>4, <1>6, <1>7
<1>9. ASSUME NEW n \in 1..Len(U) PROVE \E p \in kept : \E x \in Refers(p) : f[x] = n
  <2>1. AtRank(offsets, n) \in offsets /\ f[AtRank(offsets, n)] = n
    <3> HIDE DEF offsets, size, U, f
    <3> QED
      BY <1>4, <1>6, <1>7
  <2>2. \E p \in kept : AtRank(offsets, n) \in Refers(p)
    BY <2>1
  <2> HIDE DEF offsets, size, U, f, kept
  <2> QED
    BY <2>1, <2>2
<1>10. \A p \in kept : /\ Y[p.context].valid /\ Y[p.context].day = X[p.context].day
                       /\ Y[p.context].bearer = X[p.context].bearer
  BY <1>2 DEF PoolOf, Pool, Placed, Entries
<1>11. Pool(K2, U, Y) /\ Cardinality(K2) <= Cardinality(K) /\ Known(K2) = Known(kept)
  <2>1. Pool(K, T, X) /\ kept \in SUBSET K
    BY DEF PoolOf
  <2> HIDE DEF K, T, X, kept, offsets, size, U, Y, f, K2, d
  <2>3. U \in Seq(Texts) /\ f \in [0..Len(T) -> 0..Len(U)] /\ f[0] = 0
    BY <1>6, <1>7
  <2>4. \A n \in 1..Len(U) : \E p \in kept : \E x \in Refers(p) : f[x] = n
    BY <1>9
  <2>2. Relocates(K, T, X, Y, kept, U, f)
    BY <1>8, <1>10, <2>1, <2>3, <2>4 DEF Relocates
  <2> QED
    BY <2>1, <2>2, Relocated DEF K2
<1>12. ASSUME NEW p \in kept
       PROVE  LET Place(x) == Rank(offsets, x) IN Moved(p, Place) = Shift(f, p)
  <2>1. p \in K /\ Refers(p) \subseteq offsets
    OBVIOUS
  <2>2. (p.title # 0 => p.title \in offsets) /\ (p.description # 0 => p.description \in offsets)
    BY <2>1 DEF Refers
  <2> HIDE DEF offsets, f
  <2>3. f[p.title] = IF p.title = 0 THEN 0 ELSE Rank(offsets, p.title)
    BY <1>7, <2>2
  <2>4. f[p.description] = IF p.description = 0 THEN 0 ELSE Rank(offsets, p.description)
    BY <1>7, <2>2
  <2> QED
    BY <1>2, <2>1, <2>3, <2>4 DEF Moved, Shift, Entries
<1>13. d = [c EXCEPT !.cache = K2, !.texts = U, !.contexts = Y]
  <2> DEFINE Place(x) == Rank(offsets, x)
             M == {Moved(p, Place) : p \in kept}
  <2>1. M = K2
    BY <1>12 DEF Shifted
  <2>2. Compacted(c, S) = [c EXCEPT !.cache = M, !.texts = U]
    BY Zenon DEF Compacted
  <2> HIDE DEF M, U, K2
  <2>3. d = [[c EXCEPT !.cache = M, !.texts = U] EXCEPT !.contexts = Y]
    BY <2>2 DEF EvictContexts, Cores
  <2> QED
    BY <2>1, <2>3 DEF Cores
<1>14. Titled(K) => Titled(K2)
  <2> SUFFICES ASSUME Titled(K), NEW p \in kept PROVE Shift(f, p).title # 0
    BY DEF Titled, Shifted
  <2>1. p \in K /\ p.title # 0
    BY DEF Titled
  <2>2. p.title \in Refers(p) /\ p.title \in offsets
    BY <2>1 DEF Refers
  <2> HIDE DEF offsets, f
  <2>3. Shift(f, p).title = f[p.title]
    BY <1>2, <2>1 DEF Shift, Entries
  <2> QED
    BY <1>7, <2>2, <2>3
<1>15. Known(kept) = {k \in Known(K) : k[1] \notin S}
  BY DEF Known
<1>16. Y \in [ContextIds -> ContextStates] /\ Apart(Y)
  <2>1. EmptyContext \in ContextStates
    BY EpgAssumption DEF EmptyContext, ContextStates
  <2>2. EmptyContext.valid = FALSE
    BY DEF EmptyContext
  <2>3. Y \in [ContextIds -> ContextStates]
    BY <1>1, <2>1
  <2>4. \A i \in ContextIds : Y[i].valid => Y[i] = X[i]
    BY <2>2
  <2>5. Apart(X)
    BY DEF PoolOf
  <2> HIDE DEF Y, X
  <2> QED
    BY <2>3, <2>4, <2>5 DEF Apart
<1> HIDE DEF U, Y, K2, d, f, offsets, size, kept
<1>17. d.cache = K2 /\ d.texts = U /\ d.contexts = Y /\ OnlyPool(c, d)
  BY <1>13 DEF Cores, OnlyPool
<1>18. d \in Cores
  BY <1>6, <1>11, <1>16, <1>17, PoolFrame DEF Pool
<1>19. PoolOf(d)
  <2>1. Cardinality(K2) \in Nat /\ Cardinality(K) \in Nat /\ MaxProgrammes \in Nat /\ TextSize \in Nat
    BY <1>11, FS_CardinalityType, EpgAssumption DEF Pool, PoolOf
  <2>2. Cardinality(K) <= MaxProgrammes /\ Len(T) <= TextSize
    BY DEF PoolOf
  <2>3. Cardinality(K2) <= MaxProgrammes /\ Len(U) <= TextSize
    BY <1>1, <1>4, <1>5, <1>6, <1>11, <2>1, <2>2
  <2> QED
    BY <1>11, <1>16, <1>17, <2>3 DEF PoolOf
<1> QED
  BY <1>11, <1>14, <1>15, <1>17, <1>18, <1>19 DEF d, Y

\* Entries do not share texts, and have two different ones.
LEMMA NoneShared ==
  ASSUME NEW K, NEW T, NEW X, Pool(K, T, X), Apart(X), NEW p \in K, NEW q \in K
  PROVE  /\ p.title # 0 => q.description # p.title
         /\ p.title # 0 /\ q.title = p.title => q = p
         /\ p.description # 0 => q.title # p.description
         /\ p.description # 0 /\ q.description = p.description => q = p
<1>1. /\ p \in Entries /\ q \in Entries /\ Placed(X, p) /\ Placed(X, q)
      /\ HasTexts(T, X, p) /\ HasTexts(T, X, q)
  BY DEF Pool
<1>2. \A r, s, a, b : Text(r, a) = Text(s, b) =>
        r.bearer = s.bearer /\ r.id = s.id /\ r.day = s.day /\ a = b
  BY DEF Text
<1>3. ASSUME NEW a, NEW b, Text(ProgrammeOf(X, p), a) = Text(ProgrammeOf(X, q), b)
      PROVE  a = b /\ q = p
  <2>1. /\ a = b /\ X[p.context].bearer = X[q.context].bearer
        /\ p.id = q.id /\ p.day = q.day
    BY <1>2, <1>3 DEF ProgrammeOf
  <2>2. p.context = q.context
    BY <1>1, <2>1 DEF Apart, Placed, Entries
  <2> QED
    BY <2>1, <2>2 DEF Pool, Keyed
<1>4. "title" # "description"
  OBVIOUS
<1> QED
  BY <1>1, <1>3, <1>4, Zenon DEF HasTexts

\* Erasing what is at an offset, or nothing if that is 0
Lowered(o, size) == IF o = 0 THEN [x \in 0..size |-> x] ELSE Down(o, size)

\* EraseText takes the text from the entry that has it, if the offset is that of a text.
LEMMA TextTaken ==
  ASSUME NEW c \in Cores, PoolOf(c), NEW o \in 0..Len(c.texts)
  PROVE  LET d == EraseText(c, o)
             f == Lowered(o, Len(c.texts))
         IN /\ d \in Cores /\ PoolOf(d) /\ OnlyPool(c, d) /\ d.contexts = c.contexts
            /\ d.cache = Shifted(f, c.cache) /\ Known(d.cache) = Known(c.cache)
            /\ \A x \in 0..Len(c.texts) : f[x] \in 0..Len(d.texts) /\ (f[x] = 0 <=> x \in {0, o})
<1> DEFINE d == EraseText(c, o)
           f == Lowered(o, Len(c.texts))
<1>1. c.texts \in Seq(Texts) /\ Len(c.texts) \in Nat /\ c.cache \subseteq Entries
  BY LenProperties DEF Cores
<1>2. CASE o = 0
  <2>1. d = c
    BY <1>2 DEF EraseText
  <2>2. OnlyPool(c, c)
    BY DEF OnlyPool, Cores
  <2>3. ASSUME NEW p \in c.cache PROVE Shift(f, p) = p
    <3>1. p \in Entries /\ p.title \in 0..Len(c.texts) /\ p.description \in 0..Len(c.texts)
      BY <1>1 DEF PoolOf, Pool, HasTexts, Entries
    <3> QED
      BY <1>2, <3>1 DEF Shift, Entries, Lowered
  <2>4. Shifted(f, c.cache) = c.cache
    BY <2>3 DEF Shifted
  <2>5. \A x \in 0..Len(c.texts) : f[x] = x
    BY <1>2 DEF Lowered
  <2> QED
    BY <1>2, <2>1, <2>2, <2>4, <2>5
<1>3. CASE o # 0
  <2>1. o \in 1..Len(c.texts) /\ f = Down(o, Len(c.texts))
    BY <1>1, <1>3 DEF Lowered
  <2>2. /\ d \in Cores /\ PoolOf(d) /\ OnlyPool(c, d) /\ d.contexts = c.contexts
        /\ d.cache = Shifted(f, c.cache) /\ Known(d.cache) = Known(c.cache)
        /\ Len(d.texts) = Len(c.texts) - 1
    BY <2>1, TextErased
  <2>3. \A x \in 0..Len(c.texts) : f[x] \in 0..(Len(c.texts) - 1) /\ (f[x] = 0 <=> x \in {0, o})
    BY <1>1, <2>1 DEF Down
  <2> QED
    BY <2>2, <2>3
<1> QED
  BY <1>2, <1>3

Key(p) == <<p.context, p.id, p.day, p.version>>
WithoutKeyOf(K, p) == {q \in K : <<q.context, q.id, q.day>> # <<p.context, p.id, p.day>>}

\* An entry that has no texts any more leaves the cache, and nothing else does.
LEMMA BareRemoved ==
  ASSUME NEW K, NEW T, NEW X, Pool(K, T, X), NEW p \in K, p.title = 0, p.description = 0
  PROVE  LET L == WithoutKeyOf(K, p)
         IN /\ Pool(L, T, X) /\ Cardinality(L) <= Cardinality(K)
            /\ L = K \ {p} /\ Known(L) = Known(K) \ {Key(p)}
<1> DEFINE L == WithoutKeyOf(K, p)
<1>1. L = K \ {p}
  BY DEF Pool, Keyed, WithoutKeyOf
<1>2. Known(L) = Known(K) \ {Key(p)}
  <2>1. \A q \in L : Key(q) # Key(p)
    BY DEF Key, WithoutKeyOf
  <2>2. Known(L) \subseteq Known(K) \ {Key(p)}
    BY <1>1, <2>1 DEF Known, Key
  <2>3. Known(K) \ {Key(p)} \subseteq Known(L)
    BY <1>1 DEF Known, Key
  <2> QED
    BY <2>2, <2>3
<1>3. IsFiniteSet(K) /\ IsFiniteSet(L) /\ Cardinality(L) <= Cardinality(K)
  BY <1>1, FS_Subset DEF Pool
<1>4. \A n \in 1..Len(T) : \E q \in L : n \in Refers(q)
  <2>1. Refers(p) = {}
    BY DEF Refers
  <2> QED
    BY <1>1, <2>1 DEF Pool
<1>5. Pool(L, T, X)
  <2>1. L \subseteq K
    BY <1>1
  <2> HIDE DEF L
  <2> QED
    BY <1>3, <1>4, <2>1 DEF Pool, Keyed
<1> QED
  BY <1>1, <1>2, <1>3, <1>5

Stored(c) == c \in Cores /\ PoolOf(c) /\ Titled(c.cache)

\* EraseProgramme leaves everything but the one programme.
LEMMA ProgrammeErased ==
  ASSUME NEW c, Stored(c), NEW p \in c.cache
  PROVE  LET d == EraseProgramme(c, p)
         IN /\ Stored(d) /\ OnlyPool(c, d) /\ d.contexts = c.contexts
            /\ Known(d.cache) = Known(c.cache) \ {Key(p)}
<1> DEFINE size == Len(c.texts)
           b == EraseText(c, p.title)
           f == Lowered(p.title, size)
           place == IF p.title # 0 /\ p.description > p.title THEN p.description - 1 ELSE p.description
           e == EraseText(b, place)
           g == Lowered(place, Len(b.texts))
           d == EraseProgramme(c, p)
           r == Shift(f, p)
           s == Shift(g, r)
           L == WithoutKeyOf(e.cache, s)
<1>1. c \in Cores /\ PoolOf(c) /\ Titled(c.cache) /\ size \in Nat
  BY LenProperties DEF Stored, Cores
<1>2. /\ p \in Entries /\ p.title \in 1..size /\ p.title # 0 /\ p.title \in 0..size
      /\ p.description \in 0..size /\ p.description # p.title
  <2>1. Pool(c.cache, c.texts, c.contexts) /\ Apart(c.contexts)
    BY <1>1 DEF PoolOf
  <2>2. p \in Entries /\ HasTexts(c.texts, c.contexts, p) /\ p.title # 0
    BY <1>1, <2>1 DEF Pool, Titled
  <2>3. p.description # p.title
    BY <2>1, <2>2, NoneShared
  <2> QED
    BY <1>1, <2>2, <2>3 DEF HasTexts, Entries
<1>3. /\ b \in Cores /\ PoolOf(b) /\ OnlyPool(c, b) /\ b.contexts = c.contexts
      /\ b.cache = Shifted(f, c.cache) /\ Known(b.cache) = Known(c.cache)
      /\ \A x \in 0..size : f[x] \in 0..Len(b.texts) /\ (f[x] = 0 <=> x \in {0, p.title})
  BY <1>1, <1>2, TextTaken
<1>4. place = f[p.description] /\ place \in 0..Len(b.texts)
  <2>1. f[p.description] = place
    BY <1>1, <1>2 DEF Lowered, Down
  <2> QED
    BY <1>2, <1>3, <2>1
<1>5. /\ e \in Cores /\ PoolOf(e) /\ OnlyPool(b, e) /\ e.contexts = b.contexts
      /\ e.cache = Shifted(g, b.cache) /\ Known(e.cache) = Known(b.cache)
      /\ \A x \in 0..Len(b.texts) : g[x] \in 0..Len(e.texts) /\ (g[x] = 0 <=> x \in {0, place})
  <2> HIDE DEF b, place
  <2> QED
    BY <1>3, <1>4, TextTaken
<1> HIDE DEF size, b, f, place, e, g
<1>6. ASSUME NEW q \in c.cache
      PROVE  /\ q \in Entries /\ q.title \in 0..size /\ q.description \in 0..size
             /\ Shift(f, q).title = f[q.title] /\ Shift(f, q).description = f[q.description]
             /\ Shift(g, Shift(f, q)).title = g[f[q.title]]
             /\ Shift(g, Shift(f, q)).description = g[f[q.description]]
             /\ Shift(g, Shift(f, q)).context = q.context /\ Shift(g, Shift(f, q)).id = q.id
             /\ Shift(g, Shift(f, q)).day = q.day /\ Shift(g, Shift(f, q)).version = q.version
             /\ Shift(g, Shift(f, q)) \in e.cache
  <2>1. q \in Entries /\ q.title \in 0..size /\ q.description \in 0..size
    BY <1>1 DEF PoolOf, Pool, HasTexts, Entries, size
  <2>2. Shift(f, q) \in b.cache /\ Shift(g, Shift(f, q)) \in e.cache
    BY <1>3, <1>5 DEF Shifted
  <2> QED
    BY <2>1, <2>2 DEF Shift, Entries
<1>7. s \in e.cache /\ s.title = 0 /\ s.description = 0 /\ Key(s) = Key(p)
  BY <1>2, <1>3, <1>4, <1>5, <1>6 DEF Key
<1>8. /\ Pool(L, e.texts, e.contexts) /\ Cardinality(L) <= Cardinality(e.cache)
      /\ L = e.cache \ {s} /\ Known(L) = Known(c.cache) \ {Key(p)}
  <2>1. Pool(e.cache, e.texts, e.contexts)
    BY <1>5 DEF PoolOf
  <2> HIDE DEF s
  <2> QED
    BY <1>3, <1>5, <1>7, <2>1, BareRemoved
<1>9. d = [e EXCEPT !.cache = L]
  <2>1. L = {q \in e.cache : <<q.context, q.id, q.day>> # <<p.context, p.id, p.day>>}
    BY <1>6 DEF WithoutKeyOf
  <2>2. d = [e EXCEPT !.cache = {q \in @ : <<q.context, q.id, q.day>> # <<p.context, p.id, p.day>>}]
    BY Zenon DEF EraseProgramme, e, place, b
  <2> HIDE DEF d, L
  <2> QED
    BY <2>1, <2>2
<1>10. /\ OnlyPool(c, d) /\ d.cache = L /\ d.texts = e.texts /\ d.contexts = c.contexts
       /\ L \subseteq Entries /\ d \in Cores
  <2>1. L \subseteq Entries
    BY <1>8 DEF Pool
  <2> HIDE DEF L, d
  <2>2. /\ d.cache = L /\ d.texts = e.texts /\ d.contexts = e.contexts
        /\ d = [e EXCEPT !.cache = d.cache]
    BY <1>5, <1>9 DEF Cores
  <2>3. OnlyPool(c, d)
    BY <1>1, <1>3, <1>5, <2>2 DEF OnlyPool, Cores
  <2>4. d \in Cores
    BY <1>5, <1>9, <2>1 DEF Cores
  <2> QED
    BY <1>3, <1>5, <2>1, <2>2, <2>3, <2>4
<1>11. Titled(L)
  <2> SUFFICES ASSUME NEW z \in L PROVE z.title # 0
    BY DEF Titled
  <2>1. z \in e.cache /\ z # s
    BY <1>8
  <2>2. PICK q \in c.cache : z = Shift(g, Shift(f, q))
    BY <1>3, <1>5, <2>1 DEF Shifted
  <2>3. q # p
    BY <2>1, <2>2
  <2>4. q.title # 0 /\ q.title # p.title /\ q.title # p.description
    <3>1. Pool(c.cache, c.texts, c.contexts) /\ Apart(c.contexts) /\ q.title # 0
      BY <1>1 DEF PoolOf, Titled
    <3>2. q.title # p.title
      BY <1>2, <2>3, <3>1, NoneShared
    <3>3. p.description # 0 => q.title # p.description
      BY <3>1, NoneShared
    <3> QED
      BY <3>1, <3>2, <3>3
  <2>5. q.title \in 0..size /\ p.description \in 0..size
    BY <1>6
  <2>6. f[q.title] # 0 /\ f[q.title] # f[p.description]
    <3>1. f[q.title] # 0
      BY <1>3, <2>4, <2>5
    <3>2. f[q.title] # f[p.description]
      BY <1>1, <1>2, <2>4, <2>5 DEF f, Lowered, Down
    <3> QED
      BY <3>1, <3>2
  <2>7. g[f[q.title]] # 0
    BY <1>3, <1>4, <1>5, <2>5, <2>6
  <2> QED
    BY <1>6, <2>2, <2>7
<1>12. PoolOf(d)
  <2>1. Cardinality(L) \in Nat /\ Cardinality(e.cache) \in Nat /\ MaxProgrammes \in Nat
    BY <1>5, <1>8, FS_CardinalityType, EpgAssumption DEF Pool, PoolOf
  <2> HIDE DEF L, d
  <2> QED
    BY <1>3, <1>5, <1>8, <1>10, <2>1 DEF PoolOf
<1> QED
  BY <1>8, <1>10, <1>11, <1>12 DEF Stored

\* d is c after the eviction of the contexts in S.
Evicts(c, d, S) ==
  /\ d.contexts = [i \in ContextIds |-> IF i \in S THEN EmptyContext ELSE c.contexts[i]]
  /\ Known(d.cache) = {k \in Known(c.cache) : k[1] \notin S}

OthersOf(c) == ContextIds \ {c.context}

\* MakeRoom evicts other contexts than the one in use, and nothing else.
LEMMA RoomMade ==
  ASSUME NEW c, Stored(c)
  PROVE  LET d == MakeRoom(c)
         IN Stored(d) /\ OnlyPool(c, d) /\ \E S \in SUBSET OthersOf(c) : Evicts(c, d, S)
<1> DEFINE d == MakeRoom(c)
           Older(i) == {j \in Populated(c) : c.contexts[j].used < c.contexts[i].used}
           S == {i \in Populated(c) : ~Room(EvictContexts(c, Older(i)), 2)}
<1>1. d = EvictContexts(c, S)
  BY Zenon DEF MakeRoom
<1>2. S \in SUBSET OthersOf(c)
  BY DEF Populated, Leaseable, OthersOf
<1> HIDE DEF d, S
<1>3. c \in Cores /\ PoolOf(c) /\ Titled(c.cache)
  BY DEF Stored
<1>4. Stored(d) /\ OnlyPool(c, d) /\ Evicts(c, d, S)
  BY <1>1, <1>3, Evicted DEF Stored, Evicts
<1> QED
  BY <1>2, <1>4 DEF d

-----------------------------------------------------------------------------
(* Storing a programme. *)

\* e is an entry with the texts U, which come after T, and none of K has its key.
Joins(K, T, X, e, U) ==
  /\ e \in Entries /\ U \in Seq(Texts) /\ Placed(X, e)
  /\ e.title = Len(T) + 1 /\ e.description \in {0, Len(T) + 2}
  /\ Len(U) = IF e.description = 0 THEN 1 ELSE 2
  /\ U[1] = Text(ProgrammeOf(X, e), "title")
  /\ e.description # 0 => U[2] = Text(ProgrammeOf(X, e), "description")
  /\ \A q \in K : ~(q.context = e.context /\ q.id = e.id /\ q.day = e.day)

\* An entry whose texts are at the end of the pool joins the others.
LEMMA Added ==
  ASSUME NEW K, NEW T, NEW X, Pool(K, T, X), NEW e, NEW U, Joins(K, T, X, e, U)
  PROVE  /\ Pool(K \cup {e}, T \o U, X) /\ Known(K \cup {e}) = Known(K) \cup {Key(e)}
         /\ Cardinality(K \cup {e}) = Cardinality(K) + 1 /\ Len(T \o U) = Len(T) + Len(U)
<1> USE DEF Joins
<1> DEFINE L == K \cup {e}
           V == T \o U
<1>1. /\ K \subseteq Entries /\ IsFiniteSet(K) /\ T \in Seq(Texts) /\ Len(T) \in Nat
      /\ Len(U) \in {1, 2}
  BY LenProperties DEF Pool
<1>2. /\ V \in Seq(Texts) /\ Len(V) = Len(T) + Len(U)
      /\ \A j \in 1..(Len(T) + Len(U)) : V[j] = IF j <= Len(T) THEN T[j] ELSE U[j - Len(T)]
  BY <1>1, ConcatProperties
<1>3. \A j \in 1..Len(T) : j \in 1..Len(V) /\ V[j] = T[j]
  BY <1>1, <1>2
<1>4. V[Len(T) + 1] = U[1] /\ Len(T) + 1 \in 1..Len(V)
  BY <1>1, <1>2
<1>5. e.description # 0 => V[Len(T) + 2] = U[2] /\ Len(T) + 2 \in 1..Len(V)
  <2> SUFFICES ASSUME e.description # 0 PROVE V[Len(T) + 2] = U[2] /\ Len(T) + 2 \in 1..Len(V)
    OBVIOUS
  <2>1. Len(U) = 2
    OBVIOUS
  <2>2. ~(Len(T) + 2 <= Len(T)) /\ (Len(T) + 2) - Len(T) = 2 /\ Len(T) + 2 \in 1..(Len(T) + 2)
    BY <1>1
  <2> QED
    BY <1>2, <2>1, <2>2
<1>6. IsFiniteSet(L) /\ Cardinality(L) = Cardinality(K) + 1
  <2>1. e \notin K
    OBVIOUS
  <2> QED
    BY <1>1, <2>1, FS_AddElement
<1>7. ASSUME NEW q \in L PROVE Placed(X, q) /\ HasTexts(V, X, q)
  <2> HIDE DEF V
  <2>1. CASE q \in K
    <3>1. Placed(X, q) /\ HasTexts(T, X, q)
      BY <2>1 DEF Pool
    <3> QED
      BY <1>3, <3>1 DEF HasTexts
  <2>2. CASE q = e
    BY <1>4, <1>5, <2>2 DEF HasTexts
  <2> QED
    BY <2>1, <2>2
<1>8. Keyed(L)
  <2>1. Keyed(K)
    BY DEF Pool
  <2> QED
    BY <2>1 DEF Keyed
<1>9. ASSUME NEW n \in 1..Len(V) PROVE \E q \in L : n \in Refers(q)
  <2>1. CASE n <= Len(T)
    <3>1. n \in 1..Len(T)
      BY <1>1, <1>2, <2>1
    <3> QED
      BY <3>1 DEF Pool
  <2>2. CASE ~(n <= Len(T))
    <3>1. n \in Refers(e)
      BY <1>1, <1>2, <2>2 DEF Refers
    <3> QED
      BY <3>1
  <2> QED
    BY <2>1, <2>2
<1>10. Known(L) = Known(K) \cup {Key(e)}
  BY DEF Known, Key
<1> HIDE DEF V, L
<1>11. Pool(L, V, X)
  <2>1. L \subseteq Entries
    BY <1>1 DEF L
  <2> QED
    BY <1>2, <1>6, <1>7, <1>8, <1>9, <2>1 DEF Pool
<1> QED
  BY <1>2, <1>6, <1>10, <1>11 DEF V, L

\* d is c but for the cache, the texts, the contexts and the mark that it is limited.
OnlyCache(c, d) ==
  d = [c EXCEPT !.cache = d.cache, !.texts = d.texts, !.contexts = d.contexts, !.limited = d.limited]

\* What changes nothing but the cache leaves a core.
LEMMA CacheFrame ==
  ASSUME NEW c \in Cores, NEW d, OnlyCache(c, d), d.cache \subseteq Entries, d.texts \in Seq(Texts),
         d.contexts \in [ContextIds -> ContextStates], d.limited \in BOOLEAN
  PROVE  d \in Cores
BY DEF OnlyCache, Cores

KeyIn(c, p) == <<c.context, p.id, p.day, p.version>>

\* StoreProgramme adds the programme, or marks the view as limited.
LEMMA ProgrammeStored ==
  ASSUME NEW c, Stored(c), NEW p \in Programmes,
         c.contexts[c.context].valid, c.contexts[c.context].bearer = p.bearer,
         c.contexts[c.context].day = p.day,
         \A q \in c.cache : ~(q.context = c.context /\ q.id = p.id /\ q.day = p.day)
  PROVE  LET d == StoreProgramme(c, p)
         IN /\ Stored(d) /\ OnlyCache(c, d) /\ d.contexts = c.contexts
            /\ c.limited => d.limited
            /\ Known(c.cache) \subseteq Known(d.cache)
            /\ d.limited \/ KeyIn(c, p) \in Known(d.cache)
<1> DEFINE T == c.texts
           e == [context |-> c.context, id |-> p.id, day |-> p.day, version |-> p.version,
                 title |-> Len(T) + 1, description |-> IF Room(c, 2) THEN Len(T) + 1 + 1 ELSE 0]
           U == IF Room(c, 2) THEN <<Text(p, "title"), Text(p, "description")>> ELSE <<Text(p, "title")>>
           d == StoreProgramme(c, p)
<1>1. /\ c \in Cores /\ PoolOf(c) /\ Titled(c.cache) /\ T \in Seq(Texts) /\ Len(T) \in Nat
      /\ c.context \in ContextIds /\ c.limited \in BOOLEAN
      /\ Cardinality(c.cache) \in Nat /\ MaxProgrammes \in Nat /\ TextSize \in Nat
  <2>1. c \in Cores /\ PoolOf(c) /\ Titled(c.cache)
    BY DEF Stored
  <2>2. T \in Seq(Texts) /\ Len(T) \in Nat /\ c.context \in ContextIds /\ c.limited \in BOOLEAN
    BY <2>1, LenProperties DEF Cores
  <2>3. Cardinality(c.cache) \in Nat
    BY <2>1, FS_CardinalityType DEF PoolOf, Pool
  <2> QED
    BY <2>1, <2>2, <2>3, EpgAssumption
<1>2. CASE ~Room(c, 1)
  <2>1. d = [c EXCEPT !.limited = TRUE]
    BY <1>2 DEF StoreProgramme
  <2>2. d \in Cores /\ d.cache = c.cache /\ d.texts = c.texts /\ d.contexts = c.contexts /\ d.limited
    BY <1>1, <2>1 DEF Cores
  <2>3. OnlyCache(c, d)
    BY <1>1, <2>1 DEF OnlyCache, Cores
  <2> QED
    BY <1>1, <2>2, <2>3 DEF Stored, PoolOf
<1>3. CASE Room(c, 1)
  <2>1. d = [c EXCEPT !.cache = @ \cup {e}, !.limited = @ \/ ~Room(c, 2), !.texts = @ \o U]
    BY <1>3, Zenon DEF StoreProgramme
  <2>2. e \in Entries /\ e.title = Len(T) + 1 /\ Key(e) = KeyIn(c, p)
        /\ e.description = IF Room(c, 2) THEN Len(T) + 2 ELSE 0
    BY <1>1 DEF Entries, Programmes, Key, KeyIn
  <2>3. /\ U \in Seq(Texts) /\ Len(U) = (IF Room(c, 2) THEN 2 ELSE 1)
        /\ U[1] = Text(p, "title") /\ (Room(c, 2) => U[2] = Text(p, "description"))
    <3>1. Text(p, "title") \in Texts /\ Text(p, "description") \in Texts
      BY DEF Texts
    <3> HIDE DEF e
    <3> QED
      BY <3>1
  <2>4. ProgrammeOf(c.contexts, e) = p
    BY DEF ProgrammeOf, Programmes
  <2>5. Placed(c.contexts, e)
    BY DEF Placed
  <2> HIDE DEF e, U
  <2>6. /\ Pool(c.cache \cup {e}, T \o U, c.contexts) /\ Known(c.cache \cup {e}) = Known(c.cache) \cup {Key(e)}
        /\ Cardinality(c.cache \cup {e}) = Cardinality(c.cache) + 1 /\ Len(T \o U) = Len(T) + Len(U)
    <3>1. Pool(c.cache, T, c.contexts)
      BY <1>1 DEF PoolOf
    <3>2. e.description \in {0, Len(T) + 2} /\ Len(U) = (IF e.description = 0 THEN 1 ELSE 2)
          /\ (e.description # 0 => Room(c, 2))
      BY <1>1, <2>2, <2>3
    <3>3. \A q \in c.cache : ~(q.context = e.context /\ q.id = e.id /\ q.day = e.day)
      BY DEF e
    <3>4. /\ U[1] = Text(ProgrammeOf(c.contexts, e), "title")
          /\ (e.description # 0 => U[2] = Text(ProgrammeOf(c.contexts, e), "description"))
      BY <2>3, <2>4, <3>2
    <3>5. e \in Entries /\ U \in Seq(Texts) /\ e.title = Len(T) + 1
      BY <2>2, <2>3
    <3>6. Joins(c.cache, T, c.contexts, e, U)
      BY <2>5, <3>2, <3>3, <3>4, <3>5 DEF Joins
    <3> QED
      BY <3>1, <3>6, Added
  <2> HIDE DEF d
  <2>7. /\ d.cache = c.cache \cup {e} /\ d.texts = T \o U /\ d.contexts = c.contexts
        /\ d.limited = (c.limited \/ ~Room(c, 2)) /\ OnlyCache(c, d)
    <3>1. /\ d.cache = c.cache \cup {e} /\ d.texts = T \o U /\ d.contexts = c.contexts
          /\ d.limited = (c.limited \/ ~Room(c, 2))
      BY <1>1, <2>1, Zenon DEF Cores
    <3>2. d = [c EXCEPT !.cache = d.cache, !.texts = d.texts, !.contexts = d.contexts,
                        !.limited = d.limited]
      BY <1>1, <2>1, <3>1 DEF Cores
    <3> QED
      BY <3>1, <3>2 DEF OnlyCache
  <2>8. d \in Cores
    <3>1. d.cache \subseteq Entries /\ d.texts \in Seq(Texts) /\ d.limited \in BOOLEAN
      BY <2>6, <2>7 DEF Pool
    <3>2. d.contexts \in [ContextIds -> ContextStates]
      BY <1>1, <2>7 DEF Cores
    <3> QED
      BY <1>1, <2>7, <3>1, <3>2, CacheFrame
  <2>9. PoolOf(d)
    <3>1. Cardinality(d.cache) <= MaxProgrammes /\ Len(d.texts) <= TextSize
      <4>1. Cardinality(d.cache) = Cardinality(c.cache) + 1 /\ Len(d.texts) = Len(T) + Len(U)
        BY <2>6, <2>7
      <4>2. Cardinality(c.cache) < MaxProgrammes /\ Len(T) + 1 <= TextSize
        BY <1>3 DEF Room
      <4>3. Len(U) \in {1, 2} /\ (Len(U) = 2 => Room(c, 2))
        BY <2>3
      <4>4. Len(U) = 2 => Len(T) + 2 <= TextSize
        BY <4>3 DEF Room
      <4>5. Len(T) \in Nat /\ Cardinality(c.cache) \in Nat /\ MaxProgrammes \in Nat /\ TextSize \in Nat
        BY <1>1
      <4> HIDE DEF T, d
      <4>6. Cardinality(d.cache) <= MaxProgrammes
        BY <4>1, <4>2, <4>5
      <4>7. Len(T) + Len(U) <= TextSize
        BY <4>2, <4>3, <4>4, <4>5
      <4> QED
        BY <4>1, <4>6, <4>7
    <3> QED
      BY <1>1, <2>6, <2>7, <3>1 DEF PoolOf
  <2>10. Titled(d.cache)
    BY <1>1, <2>2, <2>7 DEF Titled
  <2>11. KeyIn(c, p) \in Known(d.cache) /\ Known(c.cache) \subseteq Known(d.cache)
    BY <2>2, <2>6, <2>7
  <2>12. Stored(d)
    BY <2>8, <2>9, <2>10 DEF Stored
  <2>13. c.limited => d.limited
    BY <2>7
  <2> HIDE DEF T
  <2> QED
    BY <2>7, <2>11, <2>12, <2>13 DEF d
<1> QED
  BY <1>2, <1>3

\* Context i has the programme in its version or a later one.
Knows(N, i, r) == \E v \in Nat : <<i, r.id, r.day, v>> \in N /\ v >= r.version

\* The context in use is that of the selection.
Shown(c) ==
  LET in == c.contexts[c.context]
  IN in.valid /\ in.bearer = c.selected /\ in.day = c.day /\ in.epoch = c.epoch

LeavesOut(c, d, S) == d.contexts = [i \in ContextIds |-> IF i \in S THEN EmptyContext ELSE c.contexts[i]]

\* Other contexts may go; the one in use forgets nothing, unless it is limited.
Retains(c, d) ==
  \A i \in ContextIds, r \in Programmes :
    d.contexts[i].valid /\ Knows(Known(c.cache), i, r) =>
      Knows(Known(d.cache), i, r) \/ (i = c.context /\ d.limited)

\* Apply of StoreProgramme is StoreProgramme.
LEMMA ProgrammeApplied ==
  \A c, p : Apply(LAMBDA d : StoreProgramme(d, p), c) = StoreProgramme(c, p)
BY Zenon DEF Apply

\* CacheProgramme: afterwards the view has the programme, or a mark that says why not.
LEMMA ProgrammeCached ==
  ASSUME NEW c, Stored(c), Shown(c), NEW p \in Programmes
  PROVE  LET d == CacheProgramme(c, p)
         IN /\ Stored(d) /\ OnlyCache(c, d) /\ Retains(c, d)
            /\ \E S \in SUBSET OthersOf(c) : LeavesOut(c, d, S)
            /\ c.limited => d.limited
            /\ p.bearer = c.selected /\ p.day = c.day /\ ~Ambiguous(c) =>
                 d.limited \/ Knows(Known(d.cache), c.context, p)
<1> DEFINE same == {q \in c.cache : q.context = c.context /\ q.id = p.id /\ q.day = p.day}
           q == CHOOSE z \in same : TRUE
           b == IF same = {} THEN c ELSE EraseProgramme(c, q)
           m == MakeRoom(b)
           d == CacheProgramme(c, p)
           refused == \/ p.bearer # c.selected \/ p.day # c.day \/ Ambiguous(c)
                      \/ \E z \in same : p.version <= z.version
<1>1. /\ c \in Cores /\ PoolOf(c) /\ c.cache \subseteq Entries /\ Keyed(c.cache)
      /\ c.context \in ContextIds /\ c.contexts \in [ContextIds -> ContextStates]
  BY DEF Stored, Cores, PoolOf, Pool
<1>2. d = IF refused THEN c ELSE StoreProgramme(m, p)
  BY ProgrammeApplied, Zenon DEF CacheProgramme
<1>3. CASE refused
  <2>1. d = c
    BY <1>2, <1>3
  <2>2. OnlyCache(c, c)
    BY <1>1 DEF OnlyCache, Cores
  <2>3. LeavesOut(c, c, {})
    BY <1>1 DEF LeavesOut
  <2>4. Retains(c, c)
    BY DEF Retains
  <2>5. ASSUME p.bearer = c.selected, p.day = c.day, ~Ambiguous(c)
        PROVE  Knows(Known(c.cache), c.context, p)
    <3>1. PICK z \in same : p.version <= z.version
      BY <1>3, <2>5
    <3>2. z \in c.cache /\ z \in Entries /\ z.version \in Nat /\ p.version \in Nat
      BY <1>1 DEF Entries, Programmes
    <3>3. <<z.context, z.id, z.day, z.version>> \in Known(c.cache)
      BY <3>2 DEF Known
    <3>4. z.context = c.context /\ z.id = p.id /\ z.day = p.day
      OBVIOUS
    <3>5. <<c.context, p.id, p.day, z.version>> \in Known(c.cache) /\ z.version >= p.version
      BY <3>1, <3>2, <3>3, <3>4
    <3> QED
      BY <3>2, <3>5, Zenon DEF Knows
  <2>6. {} \in SUBSET OthersOf(c)
    OBVIOUS
  <2> QED
    BY <2>1, <2>2, <2>3, <2>4, <2>5, <2>6
<1>4. CASE ~refused
  <2>1. /\ Stored(b) /\ OnlyPool(c, b) /\ b.contexts = c.contexts
        /\ Known(b.cache) \subseteq Known(c.cache)
        /\ \A v : <<c.context, p.id, p.day, v>> \notin Known(b.cache)
        /\ \A k \in Known(c.cache) \ Known(b.cache) :
             k[1] = c.context /\ k[2] = p.id /\ k[3] = p.day /\ k[4] \in Nat /\ k[4] < p.version
    <3>1. CASE same = {}
      <4>1. b = c
        BY <3>1
      <4>2. OnlyPool(c, c)
        BY <1>1 DEF OnlyPool, Cores
      <4>3. \A v : <<c.context, p.id, p.day, v>> \notin Known(c.cache)
        BY <3>1 DEF Known
      <4> QED
        BY <4>1, <4>2, <4>3
    <3>2. CASE same # {}
      <4>1. q \in same
        BY <3>2
      <4>2. /\ q \in c.cache /\ q \in Entries /\ q.context = c.context /\ q.id = p.id /\ q.day = p.day
            /\ q.version \in Nat /\ ~(p.version <= q.version) /\ p.version \in Nat
        BY <1>1, <1>4, <4>1 DEF Entries, Programmes
      <4>3. b = EraseProgramme(c, q)
        BY <3>2
      <4> HIDE DEF q, b
      <4>4. /\ Stored(b) /\ OnlyPool(c, b) /\ b.contexts = c.contexts
            /\ Known(b.cache) = Known(c.cache) \ {Key(q)}
        BY <4>2, <4>3, ProgrammeErased
      <4>5. ASSUME NEW v, <<c.context, p.id, p.day, v>> \in Known(c.cache)
            PROVE  <<c.context, p.id, p.day, v>> = Key(q)
        <5>1. PICK z \in c.cache : <<c.context, p.id, p.day, v>> = <<z.context, z.id, z.day, z.version>>
          BY <4>5 DEF Known
        <5>2. z.context = q.context /\ z.id = q.id /\ z.day = q.day
          BY <4>2, <5>1
        <5>3. z = q
          BY <1>1, <4>2, <5>2 DEF Keyed
        <5> QED
          BY <5>1, <5>3 DEF Key
      <4>6. \A k \in Known(c.cache) \ Known(b.cache) : k = Key(q)
        BY <4>4
      <4>7. /\ Key(q)[1] = c.context /\ Key(q)[2] = p.id /\ Key(q)[3] = p.day /\ Key(q)[4] \in Nat
            /\ Key(q)[4] < p.version
        BY <4>2 DEF Key
      <4> QED
        BY <4>4, <4>5, <4>6, <4>7
    <3> QED
      BY <3>1, <3>2
  <2> HIDE DEF b
  <2>2. PICK S \in SUBSET OthersOf(b) : Evicts(b, m, S)
    BY <2>1, RoomMade
  <2>3. Stored(m) /\ OnlyPool(b, m)
    BY <2>1, RoomMade
  <2>4. /\ b.context = c.context /\ m.context = c.context /\ b.limited = c.limited
        /\ m.limited = c.limited /\ S \in SUBSET OthersOf(c)
    BY <1>1, <2>1, <2>2, <2>3 DEF OnlyPool, OthersOf, Stored, Cores
  <2> HIDE DEF m
  <2>5. m.contexts[c.context] = c.contexts[c.context] /\ c.context \notin S
    BY <1>1, <2>1, <2>2, <2>4 DEF Evicts, OthersOf
  <2>6. \A z \in m.cache : ~(z.context = m.context /\ z.id = p.id /\ z.day = p.day)
    <3> SUFFICES ASSUME NEW z \in m.cache, z.context = c.context, z.id = p.id, z.day = p.day
                 PROVE  FALSE
      BY <2>4
    <3>1. <<z.context, z.id, z.day, z.version>> \in Known(m.cache)
      BY DEF Known
    <3>2. <<c.context, p.id, p.day, z.version>> \in Known(b.cache)
      BY <2>2, <3>1 DEF Evicts
    <3> QED
      BY <2>1, <3>2
  <2>7. /\ m.contexts[m.context].valid /\ m.contexts[m.context].bearer = p.bearer
        /\ m.contexts[m.context].day = p.day
    BY <1>4, <2>4, <2>5 DEF Shown
  <2>8. d = StoreProgramme(m, p)
    BY <1>2, <1>4
  <2> HIDE DEF d
  <2>9. /\ Stored(d) /\ OnlyCache(m, d) /\ d.contexts = m.contexts /\ (m.limited => d.limited)
        /\ Known(m.cache) \subseteq Known(d.cache)
        /\ d.limited \/ KeyIn(m, p) \in Known(d.cache)
    BY <2>3, <2>6, <2>7, <2>8, ProgrammeStored
  <2>10. OnlyCache(c, d)
    <3>1. b = [c EXCEPT !.cache = b.cache, !.texts = b.texts, !.contexts = b.contexts]
      BY <2>1 DEF OnlyPool
    <3>2. m = [b EXCEPT !.cache = m.cache, !.texts = m.texts, !.contexts = m.contexts]
      BY <2>3 DEF OnlyPool
    <3>3. d = [m EXCEPT !.cache = d.cache, !.texts = d.texts, !.contexts = d.contexts,
                        !.limited = d.limited]
      BY <2>9 DEF OnlyCache
    <3>4. m = [c EXCEPT !.cache = m.cache, !.texts = m.texts, !.contexts = m.contexts]
      BY <1>1, <3>1, <3>2 DEF Cores
    <3>5. d = [c EXCEPT !.cache = d.cache, !.texts = d.texts, !.contexts = d.contexts,
                        !.limited = d.limited]
      BY <1>1, <3>3, <3>4 DEF Cores
    <3> QED
      BY <3>5 DEF OnlyCache
  <2>11. LeavesOut(c, d, S)
    BY <2>1, <2>2, <2>9 DEF Evicts, LeavesOut
  <2>12. d.limited \/ <<c.context, p.id, p.day, p.version>> \in Known(d.cache)
    BY <2>4, <2>9 DEF KeyIn
  <2>13. Retains(c, d)
    <3> SUFFICES ASSUME NEW i \in ContextIds, NEW r \in Programmes, d.contexts[i].valid,
                        NEW v \in Nat, <<i, r.id, r.day, v>> \in Known(c.cache), v >= r.version
                 PROVE  Knows(Known(d.cache), i, r) \/ (i = c.context /\ d.limited)
      BY DEF Retains, Knows
    <3>1. i \notin S
      BY <2>11 DEF LeavesOut, EmptyContext
    <3> DEFINE k == <<i, r.id, r.day, v>>
    <3>2. CASE k \in Known(b.cache)
      <4>1. k \in Known(d.cache)
        BY <2>2, <2>9, <3>1, <3>2 DEF Evicts
      <4> QED
        BY <4>1 DEF Knows
    <3>3. CASE k \notin Known(b.cache)
      <4>1. i = c.context /\ r.id = p.id /\ r.day = p.day /\ v < p.version
        <5>1. k \in Known(c.cache) \ Known(b.cache)
          BY <3>3
        <5>2. k[1] = i /\ k[2] = r.id /\ k[3] = r.day /\ k[4] = v
          OBVIOUS
        <5> HIDE DEF k
        <5> QED
          BY <2>1, <5>1, <5>2
      <4>2. p.version \in Nat /\ r.version \in Nat /\ p.version >= r.version
        BY <4>1 DEF Programmes
      <4> QED
        BY <2>12, <4>1, <4>2 DEF Knows
    <3> QED
      BY <3>2, <3>3
  <2>14. d.limited \/ Knows(Known(d.cache), c.context, p)
    <3>1. p.version \in Nat /\ p.version >= p.version
      BY DEF Programmes
    <3> QED
      BY <2>12, <3>1 DEF Knows
  <2> QED
    BY <2>4, <2>9, <2>10, <2>11, <2>13, <2>14 DEF d
<1> QED
  BY <1>3, <1>4

(* The contexts, and the epochs that tell what was received for which of them. *)

Epochs(c) ==
  /\ \A i \in ContextIds : c.contexts[i].epoch <= c.nextEpoch
  /\ \A t \in Objects : c.epochOf[t] <= c.nextEpoch
  /\ \A i, j \in ContextIds :
       /\ c.contexts[i].valid /\ c.contexts[j].valid
       /\ c.contexts[i].epoch = c.contexts[j].epoch /\ c.contexts[i].epoch # 0
       => i = j

\* No context and no object has the epoch that is next.
Fresh(c) ==
  /\ \A i \in ContextIds : c.contexts[i].epoch # c.nextEpoch
  /\ \A t \in Objects : c.epochOf[t] # c.nextEpoch

\* What was received for a context is in it, unless it is one of those in L, or the station
\* has two names.
Recalls(c, L) ==
  \A i \in ContextIds \ L, t \in c.seen \cap PIObjects, r \in Programmes :
    /\ r \in Range(Object[t].holds)
    /\ c.contexts[i].valid /\ c.contexts[i].epoch # 0 /\ c.epochOf[t] = c.contexts[i].epoch
    /\ r.bearer = c.contexts[i].bearer /\ r.day = c.contexts[i].day
    => c.names[r.bearer] = Conflicting \/ Knows(Known(c.cache), i, r)

LimitedIn(c) == {i \in ContextIds : c.contexts[i].limited}
LimitedNow(c) == {i \in ContextIds : IF i = c.context THEN c.limited ELSE c.contexts[i].limited}

Inner(c) == Stored(c) /\ Epochs(c) /\ Recalls(c, LimitedIn(c))
Outer(c) == Stored(c) /\ Epochs(c) /\ Recalls(c, LimitedNow(c))

OnSelection(c) ==
  LET in == c.contexts[c.context]
  IN in.valid /\ in.bearer = c.selected /\ in.day = c.day

SameSelection(c, d) ==
  /\ d.directory = c.directory /\ d.seen = c.seen /\ d.names = c.names
  /\ d.identityConflict = c.identityConflict
  /\ d.selected = c.selected /\ d.day = c.day /\ d.now = c.now /\ d.browse = c.browse

\* A context that is in use stays so, for the same station and day.
KeepsContexts(c, d) ==
  \A i \in ContextIds : c.contexts[i].valid =>
    /\ d.contexts[i].valid /\ d.contexts[i].bearer = c.contexts[i].bearer
    /\ d.contexts[i].day = c.contexts[i].day

\* Contexts that keep their station and day keep their texts.
LEMMA Recontexted ==
  ASSUME NEW c, Stored(c), NEW d, d \in Cores, d.cache = c.cache, d.texts = c.texts, Apart(d.contexts),
         KeepsContexts(c, d)
  PROVE  Stored(d)
<1> USE DEF KeepsContexts
<1>1. c \in Cores /\ PoolOf(c) /\ Pool(c.cache, c.texts, c.contexts)
  BY DEF Stored, PoolOf
<1>2. ASSUME NEW p \in c.cache PROVE Placed(d.contexts, p) /\ HasTexts(d.texts, d.contexts, p)
  <2>1. p \in Entries /\ Placed(c.contexts, p) /\ HasTexts(c.texts, c.contexts, p)
    BY <1>1 DEF Pool
  <2>2. p.context \in ContextIds
    BY <2>1 DEF Entries
  <2>3. Placed(d.contexts, p) /\ ProgrammeOf(d.contexts, p) = ProgrammeOf(c.contexts, p)
    BY <2>1, <2>2 DEF Placed, ProgrammeOf
  <2> QED
    BY <2>1, <2>3 DEF HasTexts
<1>3. Pool(d.cache, d.texts, d.contexts)
  BY <1>1, <1>2 DEF Pool
<1> QED
  BY <1>1, <1>3 DEF Stored, PoolOf

\* The contexts that d has besides those in M come from c, and know no less.
KeepsKnowing(c, d, L, M) ==
  /\ d.seen = c.seen /\ d.epochOf = c.epochOf /\ d.names = c.names
  /\ \A i \in ContextIds \ M : d.contexts[i].valid =>
       /\ i \notin L /\ c.contexts[i].valid /\ d.contexts[i].epoch = c.contexts[i].epoch
       /\ d.contexts[i].bearer = c.contexts[i].bearer /\ d.contexts[i].day = c.contexts[i].day
       /\ \A r \in Programmes : Knows(Known(c.cache), i, r) => Knows(Known(d.cache), i, r)

\* What was received is still recalled where no less is known.
LEMMA StillRecalled ==
  ASSUME NEW c, NEW d, NEW L, NEW M, Recalls(c, L), KeepsKnowing(c, d, L, M)
  PROVE  Recalls(d, M)
BY DEF Recalls, KeepsKnowing

\* Fields of a core.
LEMMA CoreTypes ==
  ASSUME NEW c \in Cores
  PROVE  /\ c.contexts \in [ContextIds -> ContextStates] /\ c.context \in ContextIds
         /\ c.epochOf \in [Objects -> 0..(EpochMod - 1)] /\ c.nextEpoch \in 1..(EpochMod - 1)
         /\ c.limited \in BOOLEAN /\ c.selected \in Stations \cup {0} /\ c.day \in Nat /\ c.uses \in Nat
         /\ c.seen \subseteq Objects /\ c.cache \subseteq Entries /\ c.texts \in Seq(Texts)
         /\ \A i \in ContextIds : c.contexts[i].epoch \in 0..(EpochMod - 1)
BY DEF Cores, ContextStates

\* LeaveContext puts the mark of the view into its context.
LEMMA ContextLeft ==
  ASSUME NEW c, Outer(c)
  PROVE  LET d == LeaveContext(c)
         IN Inner(d) /\ SameSelection(c, d)
<1> DEFINE d == LeaveContext(c)
<1>1. c \in Cores /\ Stored(c) /\ Epochs(c) /\ Recalls(c, LimitedNow(c)) /\ Apart(c.contexts)
  BY DEF Outer, Stored, PoolOf
<1>2. /\ c.contexts \in [ContextIds -> ContextStates] /\ c.context \in ContextIds /\ c.limited \in BOOLEAN
  BY <1>1, CoreTypes
<1>3. d = [c EXCEPT !.contexts =
             [c.contexts EXCEPT ![c.context] = [c.contexts[c.context] EXCEPT !.limited = c.limited]]]
  BY <1>1, <1>2, Zenon DEF LeaveContext
<1> HIDE DEF d
<1>4. /\ d.contexts = [c.contexts EXCEPT ![c.context] =
                          [c.contexts[c.context] EXCEPT !.limited = c.limited]]
      /\ d.cache = c.cache /\ d.texts = c.texts /\ d.epochOf = c.epochOf /\ d.nextEpoch = c.nextEpoch
      /\ SameSelection(c, d)
  BY <1>1, <1>3 DEF Cores, SameSelection
<1>5. ASSUME NEW i \in ContextIds
      PROVE  /\ d.contexts[i] \in ContextStates
             /\ d.contexts[i].valid = c.contexts[i].valid /\ d.contexts[i].bearer = c.contexts[i].bearer
             /\ d.contexts[i].day = c.contexts[i].day /\ d.contexts[i].epoch = c.contexts[i].epoch
             /\ d.contexts[i].limited = IF i = c.context THEN c.limited ELSE c.contexts[i].limited
  BY <1>2, <1>4 DEF ContextStates
<1>6. d \in Cores
  <2>1. d.contexts \in [ContextIds -> ContextStates]
    BY <1>2, <1>4, <1>5
  <2> QED
    BY <1>1, <1>3, <1>4, <2>1 DEF Cores
<1>7. Stored(d)
  <2>1. Apart(d.contexts)
    BY <1>1, <1>5 DEF Apart
  <2>2. KeepsContexts(c, d)
    BY <1>5 DEF KeepsContexts
  <2> QED
    BY <1>1, <1>4, <1>6, <2>1, <2>2, Recontexted
<1>8. Epochs(d)
  BY <1>1, <1>4, <1>5 DEF Epochs
<1>9. LimitedIn(d) = LimitedNow(c)
  BY <1>5 DEF LimitedIn, LimitedNow
<1>10. Recalls(d, LimitedIn(d))
  <2>1. KeepsKnowing(c, d, LimitedNow(c), LimitedIn(d))
    BY <1>4, <1>5, <1>9 DEF SameSelection, KeepsKnowing
  <2> QED
    BY <1>1, <2>1, StillRecalled
<1>11. Inner(d)
  BY <1>7, <1>8, <1>10 DEF Inner
<1> QED
  BY <1>4, <1>11 DEF d

\* A new epoch marks nothing yet; when the counter wraps no mark is left.
LEMMA EpochTaken ==
  ASSUME NEW c, Inner(c)
  PROVE  LET d == NewEpoch(c)
         IN /\ Inner(d) /\ Fresh(d) /\ SameSelection(c, d) /\ d.context = c.context
            /\ \A i \in ContextIds : /\ d.contexts[i].valid = c.contexts[i].valid
                                     /\ d.contexts[i].bearer = c.contexts[i].bearer
                                     /\ d.contexts[i].day = c.contexts[i].day
<1> DEFINE d == NewEpoch(c)
<1>1. c \in Cores /\ Stored(c) /\ Epochs(c) /\ Recalls(c, LimitedIn(c)) /\ Apart(c.contexts)
  BY DEF Inner, Stored, PoolOf
<1>2. /\ c.contexts \in [ContextIds -> ContextStates] /\ c.epochOf \in [Objects -> 0..(EpochMod - 1)]
      /\ c.nextEpoch \in 1..(EpochMod - 1) /\ EpochMod \in Nat /\ EpochMod >= 3
      /\ \A i \in ContextIds : c.contexts[i].epoch \in 0..(EpochMod - 1)
  BY <1>1, CoreTypes, EpgAssumption
<1>3. CASE c.nextEpoch + 1 < EpochMod
  <2>1. d = [c EXCEPT !.nextEpoch = c.nextEpoch + 1]
    BY <1>1, <1>3 DEF NewEpoch, Cores
  <2>2. /\ d.contexts = c.contexts /\ d.cache = c.cache /\ d.texts = c.texts /\ d.epochOf = c.epochOf
        /\ d.nextEpoch = c.nextEpoch + 1 /\ SameSelection(c, d) /\ d.context = c.context
    BY <1>1, <2>1 DEF Cores, SameSelection
  <2>3. c.nextEpoch + 1 \in 1..(EpochMod - 1)
    BY <1>2, <1>3
  <2>4. d \in Cores
    BY <1>1, <2>1, <2>3 DEF Cores
  <2> HIDE DEF d
  <2>5. Stored(d)
    BY <1>1, <2>2, <2>4, Recontexted DEF KeepsContexts
  <2>6. Epochs(d) /\ Fresh(d)
    BY <1>1, <1>2, <2>2 DEF Epochs, Fresh
  <2>7. Recalls(d, LimitedIn(d))
    <3>1. LimitedIn(d) = LimitedIn(c)
      BY <2>2 DEF LimitedIn
    <3>2. KeepsKnowing(c, d, LimitedIn(c), LimitedIn(d))
      BY <2>2, <3>1 DEF KeepsKnowing, SameSelection
    <3> QED
      BY <1>1, <3>2, StillRecalled
  <2> QED
    BY <2>2, <2>5, <2>6, <2>7 DEF Inner, d
<1>4. CASE ~(c.nextEpoch + 1 < EpochMod)
  <2>1. d = [c EXCEPT !.nextEpoch = 1, !.epochOf = [t \in Objects |-> 0],
                      !.contexts = [i \in ContextIds |-> [c.contexts[i] EXCEPT !.epoch = 0]]]
    BY <1>1, <1>4 DEF NewEpoch, Cores
  <2> HIDE DEF d
  <2>2. /\ d.contexts = [i \in ContextIds |-> [c.contexts[i] EXCEPT !.epoch = 0]]
        /\ d.cache = c.cache /\ d.texts = c.texts /\ d.epochOf = [t \in Objects |-> 0]
        /\ d.nextEpoch = 1 /\ SameSelection(c, d) /\ d.context = c.context
    BY <1>1, <2>1 DEF Cores, SameSelection
  <2>3. ASSUME NEW i \in ContextIds
        PROVE  /\ d.contexts[i] \in ContextStates /\ d.contexts[i].epoch = 0
               /\ d.contexts[i].valid = c.contexts[i].valid /\ d.contexts[i].bearer = c.contexts[i].bearer
               /\ d.contexts[i].day = c.contexts[i].day
    BY <1>2, <2>2 DEF ContextStates
  <2>4. d \in Cores
    <3>1. /\ d.contexts \in [ContextIds -> ContextStates] /\ d.nextEpoch \in 1..(EpochMod - 1)
          /\ d.epochOf \in [Objects -> 0..(EpochMod - 1)]
      BY <1>2, <2>2, <2>3
    <3>2. d = [c EXCEPT !.nextEpoch = d.nextEpoch, !.epochOf = d.epochOf, !.contexts = d.contexts]
      BY <2>1, <2>2
    <3> QED
      BY <1>1, <3>1, <3>2 DEF Cores
  <2>5. Stored(d)
    <3>1. Apart(d.contexts)
      BY <1>1, <2>3 DEF Apart
    <3> QED
      BY <1>1, <2>2, <2>3, <2>4, <3>1, Recontexted DEF KeepsContexts
  <2>6. Epochs(d) /\ Fresh(d)
    BY <2>2, <2>3 DEF Epochs, Fresh
  <2>7. Recalls(d, LimitedIn(d))
    BY <2>3 DEF Recalls
  <2>8. Inner(d)
    BY <2>5, <2>6, <2>7 DEF Inner
  <2> QED
    BY <2>2, <2>3, <2>6, <2>8 DEF d
<1> QED
  BY <1>3, <1>4

\* Apply of a method is the method.
LEMMA AppliedOnce ==
  /\ \A c : Apply(NewEpoch, c) = NewEpoch(c)
  /\ \A c : Apply(EnterContext, c) = EnterContext(c)
  /\ \A c : Apply(Stamp, c) = Stamp(c)
  /\ \A c : Apply(FindContext, c) = FindContext(c)
  /\ \A c : Apply(Renewed, c) = Renewed(c)
  /\ \A c : Apply(UseContext, c) = UseContext(c)
  /\ \A c : Apply(ActivateContext, c) = ActivateContext(c)
<1>1. \A c : Apply(NewEpoch, c) = NewEpoch(c)
  BY Zenon DEF Apply
<1>2. \A c : Apply(EnterContext, c) = EnterContext(c)
  BY Zenon DEF Apply
<1>3. \A c : Apply(Stamp, c) = Stamp(c)
  BY Zenon DEF Apply
<1>4. \A c : Apply(FindContext, c) = FindContext(c)
  BY Zenon DEF Apply
<1>5. \A c : Apply(Renewed, c) = Renewed(c)
  BY Zenon DEF Apply
<1>6. \A c : Apply(UseContext, c) = UseContext(c)
  BY Zenon DEF Apply
<1>7. \A c : Apply(ActivateContext, c) = ActivateContext(c)
  BY Zenon DEF Apply
<1> QED
  BY <1>1, <1>2, <1>3, <1>4, <1>5, <1>6, <1>7

\* With all contexts in use there is another one to take.
LEMMA OldestIsAnother ==
  ASSUME NEW c \in Cores, \A i \in ContextIds : c.contexts[i].valid
  PROVE  OldestContext(c) \in ContextIds
<1> DEFINE L == Leaseable(c)
           P == Populated(c)
<1>1. L \subseteq ContextIds /\ P \subseteq L /\ ContextIds \subseteq Nat
  BY EpgAssumption DEF Leaseable, Populated, ContextIds
<1>2. L # {}
  <2>1. 1 \in ContextIds /\ 2 \in ContextIds
    BY EpgAssumption DEF ContextIds
  <2> QED
    BY <2>1 DEF Leaseable
<1>3. CASE L = P
  <2> DEFINE U == {c.contexts[j].used : j \in P}
  <2>1. \A j \in P : c.contexts[j].used \in Nat
    BY <1>1, CoreTypes DEF ContextStates
  <2>2. U \subseteq Nat /\ U # {}
    BY <1>2, <1>3, <2>1
  <2>3. PICK u \in U : \A v \in U : u <= v
    <3> HIDE DEF U
    <3> QED
      BY <2>2, LeastOf
  <2>4. \E i \in P : \A j \in P : c.contexts[i].used <= c.contexts[j].used
    BY <2>3
  <2>5. LeastUsed(c, P) \in P
    BY <2>4, Zenon DEF LeastUsed
  <2> QED
    BY <1>1, <1>3, <2>5 DEF OldestContext
<1>4. CASE L # P
  <2>1. L \ P # {} /\ L \ P \subseteq Nat
    BY <1>1, <1>4
  <2>2. Min(L \ P) \in L \ P
    BY <2>1, MinOf
  <2> QED
    BY <1>1, <1>4, <2>2 DEF OldestContext
<1> QED
  BY <1>3, <1>4

\* An eviction keeps what the contexts recall.
LEMMA EvictedInside ==
  ASSUME NEW c, Inner(c), NEW S
  PROVE  LET d == EvictContexts(c, S)
         IN Inner(d) /\ SameSelection(c, d) /\ LeavesOut(c, d, S)
<1> DEFINE d == EvictContexts(c, S)
<1>1. c \in Cores /\ Stored(c) /\ Epochs(c) /\ Recalls(c, LimitedIn(c)) /\ PoolOf(c) /\ Titled(c.cache)
  BY DEF Inner, Stored
<1>2. /\ d \in Cores /\ PoolOf(d) /\ OnlyPool(c, d) /\ LeavesOut(c, d, S) /\ Titled(d.cache)
      /\ Known(d.cache) = {k \in Known(c.cache) : k[1] \notin S}
  BY <1>1, Evicted DEF LeavesOut
<1> HIDE DEF d
<1>3. /\ SameSelection(c, d) /\ d.epochOf = c.epochOf /\ d.nextEpoch = c.nextEpoch
  BY <1>1, <1>2 DEF OnlyPool, Cores, SameSelection
<1>4. ASSUME NEW i \in ContextIds
      PROVE  /\ i \in S => ~d.contexts[i].valid /\ d.contexts[i].epoch = 0
             /\ i \notin S => d.contexts[i] = c.contexts[i]
  BY <1>2 DEF LeavesOut, EmptyContext
<1>5. Epochs(d)
  <2>1. \A i \in ContextIds : c.contexts[i].epoch <= c.nextEpoch
    BY <1>1 DEF Epochs
  <2>2. c.nextEpoch \in Nat
    BY <1>1, CoreTypes, EpgAssumption
  <2>3. \A i \in ContextIds : d.contexts[i].epoch <= d.nextEpoch
    BY <1>3, <1>4, <2>1, <2>2
  <2>4. \A i \in ContextIds : d.contexts[i].valid => d.contexts[i] = c.contexts[i]
    BY <1>4
  <2> QED
    BY <1>1, <1>3, <2>3, <2>4 DEF Epochs
<1>6. KeepsKnowing(c, d, LimitedIn(c), LimitedIn(d))
  <2>1. ASSUME NEW i \in ContextIds \ LimitedIn(d), d.contexts[i].valid
        PROVE  /\ i \notin LimitedIn(c) /\ d.contexts[i] = c.contexts[i]
               /\ \A r \in Programmes : Knows(Known(c.cache), i, r) => Knows(Known(d.cache), i, r)
    <3>1. i \notin S /\ d.contexts[i] = c.contexts[i]
      BY <1>4, <2>1
    <3>2. \A x, y, z : <<i, x, y, z>> \in Known(c.cache) => <<i, x, y, z>> \in Known(d.cache)
      BY <1>2, <3>1
    <3> QED
      BY <3>1, <3>2 DEF LimitedIn, Knows
  <2> QED
    BY <1>3, <2>1 DEF KeepsKnowing, SameSelection
<1>7. Recalls(d, LimitedIn(d))
  BY <1>1, <1>6, StillRecalled
<1>8. Inner(d)
  BY <1>2, <1>5, <1>7 DEF Inner, Stored
<1> QED
  BY <1>2, <1>3, <1>8 DEF d

\* So does a change of the context in use.
LEMMA MovedInside ==
  ASSUME NEW c, Inner(c), NEW i \in ContextIds
  PROVE  LET d == [c EXCEPT !.context = i]
         IN Inner(d) /\ SameSelection(c, d) /\ d.contexts = c.contexts /\ d.context = i
<1> DEFINE d == [c EXCEPT !.context = i]
<1>1. c \in Cores /\ Stored(c) /\ Epochs(c) /\ Recalls(c, LimitedIn(c)) /\ PoolOf(c) /\ Titled(c.cache)
  BY DEF Inner, Stored
<1>2. /\ d \in Cores /\ SameSelection(c, d) /\ d.contexts = c.contexts /\ d.context = i
      /\ d.cache = c.cache /\ d.texts = c.texts /\ d.epochOf = c.epochOf /\ d.nextEpoch = c.nextEpoch
  BY <1>1 DEF Cores, SameSelection
<1> HIDE DEF d
<1>3. Stored(d)
  BY <1>1, <1>2 DEF Stored, PoolOf
<1>4. Epochs(d)
  BY <1>1, <1>2 DEF Epochs
<1>5. LimitedIn(d) = LimitedIn(c)
  BY <1>2 DEF LimitedIn
<1>6. KeepsKnowing(c, d, LimitedIn(c), LimitedIn(d))
  BY <1>2, <1>5 DEF KeepsKnowing, SameSelection
<1>7. Inner(d)
  BY <1>1, <1>3, <1>4, <1>6, StillRecalled DEF Inner
<1> QED
  BY <1>2, <1>7 DEF d

\* What the context in use may become, with the epoch that is next
Assignable(c, new) ==
  /\ new \in ContextStates /\ new.valid /\ new.epoch = c.nextEpoch
  /\ \A i \in ContextIds \ {c.context} :
       c.contexts[i].valid => ~(c.contexts[i].bearer = new.bearer /\ c.contexts[i].day = new.day)
  /\ c.contexts[c.context].valid =>
       c.contexts[c.context].bearer = new.bearer /\ c.contexts[c.context].day = new.day

Reassign(c, new) == [c EXCEPT !.contexts = [c.contexts EXCEPT ![c.context] = new]]

\* A context that takes a new epoch has nothing to recall.
LEMMA Reassigned ==
  ASSUME NEW c, Inner(c), Fresh(c), NEW new, Assignable(c, new)
  PROVE  LET d == Reassign(c, new)
         IN Inner(d) /\ SameSelection(c, d) /\ d.context = c.context /\ d.contexts[d.context] = new
<1> DEFINE d == Reassign(c, new)
<1> USE DEF Assignable
<1>0. d = [c EXCEPT !.contexts = [c.contexts EXCEPT ![c.context] = new]]
  BY DEF Reassign
<1> HIDE DEF d
<1>1. c \in Cores /\ Stored(c) /\ Epochs(c) /\ Recalls(c, LimitedIn(c)) /\ Apart(c.contexts)
  BY DEF Inner, Stored, PoolOf
<1>2. /\ c.contexts \in [ContextIds -> ContextStates] /\ c.context \in ContextIds
      /\ c.nextEpoch \in Nat /\ c.nextEpoch # 0 /\ c.seen \subseteq Objects
      /\ \A i \in ContextIds : c.contexts[i].epoch \in Nat
  BY <1>1, CoreTypes, EpgAssumption
<1>3. /\ d.contexts = [c.contexts EXCEPT ![c.context] = new]
      /\ d.cache = c.cache /\ d.texts = c.texts /\ d.epochOf = c.epochOf /\ d.nextEpoch = c.nextEpoch
      /\ SameSelection(c, d) /\ d.context = c.context
  BY <1>0, <1>1 DEF Cores, SameSelection
<1>4. \A i \in ContextIds : d.contexts[i] = IF i = c.context THEN new ELSE c.contexts[i]
  BY <1>2, <1>3
<1>5. d \in Cores
  <2>1. d.contexts \in [ContextIds -> ContextStates]
    BY <1>2, <1>3
  <2> QED
    BY <1>0, <1>1, <1>3, <2>1 DEF Cores
<1>6. Stored(d)
  <2>1. KeepsContexts(c, d)
    BY <1>4 DEF KeepsContexts
  <2>2. Apart(d.contexts)
    BY <1>1, <1>4 DEF Apart
  <2> QED
    BY <1>1, <1>3, <1>5, <2>1, <2>2, Recontexted
<1>7. Epochs(d)
  <2>1. \A i \in ContextIds : c.contexts[i].epoch <= c.nextEpoch /\ c.contexts[i].epoch # c.nextEpoch
    BY <1>1 DEF Epochs, Fresh
  <2>2. \A i \in ContextIds : d.contexts[i].epoch <= d.nextEpoch
    BY <1>2, <1>3, <1>4, <2>1
  <2>3. \A t \in Objects : d.epochOf[t] <= d.nextEpoch
    BY <1>1, <1>3 DEF Epochs
  <2>4. ASSUME NEW i \in ContextIds, NEW j \in ContextIds, d.contexts[i].valid, d.contexts[j].valid,
               d.contexts[i].epoch = d.contexts[j].epoch, d.contexts[i].epoch # 0
        PROVE  i = j
    <3>1. CASE i = c.context \/ j = c.context
      BY <1>4, <2>1, <2>4, <3>1
    <3>2. CASE i # c.context /\ j # c.context
      BY <1>1, <1>4, <2>4, <3>2 DEF Epochs
    <3> QED
      BY <3>1, <3>2
  <2> QED
    BY <2>2, <2>3, <2>4 DEF Epochs
<1>8. Recalls(d, LimitedIn(d))
  <2> DEFINE M == LimitedIn(d) \cup {c.context}
  <2>1. KeepsKnowing(c, d, LimitedIn(c), M)
    BY <1>3, <1>4 DEF KeepsKnowing, SameSelection, LimitedIn
  <2>2. Recalls(d, M)
    BY <1>1, <2>1, StillRecalled
  <2>3. \A t \in Objects : d.epochOf[t] # d.contexts[c.context].epoch
    BY <1>2, <1>3, <1>4 DEF Fresh
  <2>4. d.seen \subseteq Objects
    BY <1>2, <1>3 DEF SameSelection
  <2> QED
    BY <2>2, <2>3, <2>4 DEF Recalls
<1>9. Inner(d)
  BY <1>6, <1>7, <1>8 DEF Inner
<1> QED
  BY <1>2, <1>3, <1>4, <1>9 DEF d

\* The selection stays over two steps.
LEMMA SameSelectionChain ==
  ASSUME NEW c, NEW d, NEW e, SameSelection(c, d), SameSelection(d, e)
  PROVE  SameSelection(c, e)
BY DEF SameSelection

\* Lease gives the selection a context of its own.
LEMMA ContextLeased ==
  ASSUME NEW c, Inner(c), SelectedContexts(c) = {}
  PROVE  LET d == Lease(c)
         IN /\ Inner(d) /\ SameSelection(c, d) /\ OnSelection(d)
            /\ d.contexts[d.context].epoch # 0
<1> DEFINE free == {i \in ContextIds : ~c.contexts[i].valid}
           place == IF free = {} THEN OldestContext(c) ELSE Min(free)
           b == IF free = {} THEN EvictContexts(c, {place}) ELSE c
           e == [b EXCEPT !.context = place]
           g == NewEpoch(e)
           d == Lease(c)
           new == [EmptyContext EXCEPT !.valid = TRUE, !.bearer = g.selected, !.day = g.day,
                                       !.epoch = g.nextEpoch]
<1>1. c \in Cores /\ SameSelection(c, c) /\ ContextIds \subseteq Nat
  BY EpgAssumption DEF Inner, Stored, SameSelection, ContextIds
<1>2. d = EnterContext(g)
  BY AppliedOnce, Zenon DEF Lease
<1>3. /\ place \in ContextIds /\ Inner(b) /\ SameSelection(c, b)
      /\ ~b.contexts[place].valid
      /\ \A i \in ContextIds : b.contexts[i].valid => b.contexts[i] = c.contexts[i]
  <2>1. CASE free = {}
    <3>1. place \in ContextIds
      BY <1>1, <2>1, OldestIsAnother
    <3>2. b = EvictContexts(c, {place})
      BY <2>1
    <3> HIDE DEF place, b
    <3>3. Inner(b) /\ SameSelection(c, b) /\ LeavesOut(c, b, {place})
      BY <3>2, EvictedInside
    <3> QED
      BY <3>1, <3>3 DEF LeavesOut, EmptyContext
  <2>2. CASE free # {}
    <3>1. free \subseteq Nat
      BY <1>1
    <3>2. Min(free) \in free
      BY <2>2, <3>1, MinOf
    <3> QED
      BY <1>1, <2>2, <3>2
  <2> QED
    BY <2>1, <2>2
<1> HIDE DEF b, place
<1>4. Inner(e) /\ SameSelection(b, e) /\ e.contexts = b.contexts /\ e.context = place
  BY <1>3, MovedInside
<1> HIDE DEF e
<1>5. /\ Inner(g) /\ Fresh(g) /\ SameSelection(e, g) /\ g.context = place
      /\ \A i \in ContextIds : /\ g.contexts[i].valid = e.contexts[i].valid
                               /\ g.contexts[i].bearer = e.contexts[i].bearer
                               /\ g.contexts[i].day = e.contexts[i].day
  BY <1>4, EpochTaken
<1> HIDE DEF g
<1>6. SameSelection(c, g)
  BY <1>3, <1>4, <1>5, SameSelectionChain
<1>7. g.selected = c.selected /\ g.day = c.day
  BY <1>6 DEF SameSelection
<1>8. g \in Cores
  BY <1>5 DEF Inner, Stored
<1>9. /\ new \in ContextStates /\ new.valid /\ new.epoch = g.nextEpoch /\ new.bearer = g.selected
      /\ new.day = g.day /\ new.epoch # 0
  <2>1. /\ g.nextEpoch \in 1..(EpochMod - 1) /\ g.selected \in Stations \cup {0} /\ g.day \in Nat
        /\ EpochMod \in Nat
    BY <1>8, CoreTypes, EpgAssumption
  <2>2. g.nextEpoch \in 0..(EpochMod - 1) /\ g.nextEpoch # 0
    BY <2>1
  <2> QED
    BY <2>1, <2>2 DEF EmptyContext, ContextStates
<1>10. d = Reassign(g, new)
  BY <1>2, Zenon DEF EnterContext, Reassign
<1>11. \A i \in ContextIds \ {g.context} :
         g.contexts[i].valid => ~(g.contexts[i].bearer = new.bearer /\ g.contexts[i].day = new.day)
  BY <1>3, <1>4, <1>5, <1>7, <1>9 DEF SelectedContexts
<1>12. ~g.contexts[g.context].valid
  BY <1>3, <1>4, <1>5
<1> HIDE DEF new, d
<1>13. Inner(d) /\ SameSelection(g, d) /\ d.context = g.context /\ d.contexts[d.context] = new
  <2>1. Assignable(g, new)
    BY <1>9, <1>11, <1>12 DEF Assignable
  <2> QED
    BY <1>5, <1>10, <2>1, Reassigned
<1>14. SameSelection(c, d)
  BY <1>6, <1>13, SameSelectionChain
<1>15. OnSelection(d) /\ d.contexts[d.context].epoch # 0
  BY <1>7, <1>9, <1>13, <1>14 DEF OnSelection, SameSelection
<1> QED
  BY <1>13, <1>14, <1>15 DEF d

\* FindContext ends in the context of the selection.
LEMMA ContextFound ==
  ASSUME NEW c, Inner(c)
  PROVE  LET d == FindContext(c)
         IN Inner(d) /\ SameSelection(c, d) /\ OnSelection(d)
<1> DEFINE S == SelectedContexts(c)
           d == FindContext(c)
<1>1. CASE S = {}
  BY <1>1, ContextLeased DEF FindContext
<1>2. CASE S # {}
  <2>1. S \subseteq ContextIds /\ S \subseteq Nat
    BY EpgAssumption DEF SelectedContexts, ContextIds
  <2>2. Min(S) \in S /\ Min(S) \in ContextIds
    BY <1>2, <2>1, MinOf
  <2>3. d = [c EXCEPT !.context = Min(S)]
    BY <1>2 DEF FindContext
  <2> HIDE DEF d
  <2>4. Inner(d) /\ SameSelection(c, d) /\ d.contexts = c.contexts /\ d.context = Min(S)
    BY <2>2, <2>3, MovedInside
  <2>5. OnSelection(d)
    BY <2>2, <2>4 DEF OnSelection, SelectedContexts, SameSelection
  <2> QED
    BY <2>4, <2>5 DEF d
<1> QED
  BY <1>1, <1>2

\* Renewed gives it an epoch.
LEMMA ContextRenewed ==
  ASSUME NEW c, Inner(c), OnSelection(c)
  PROVE  LET d == Renewed(c)
         IN Inner(d) /\ SameSelection(c, d) /\ OnSelection(d) /\ d.contexts[d.context].epoch # 0
<1> DEFINE d == Renewed(c)
           g == NewEpoch(c)
           new == [g.contexts[g.context] EXCEPT !.epoch = g.nextEpoch]
<1>1. CASE c.contexts[c.context].epoch # 0
  <2>1. d = c
    BY <1>1 DEF Renewed
  <2> QED
    BY <1>1, <2>1 DEF SameSelection
<1>2. CASE c.contexts[c.context].epoch = 0
  <2>1. d = Stamp(g)
    BY <1>2, AppliedOnce, Zenon DEF Renewed
  <2>2. /\ Inner(g) /\ Fresh(g) /\ SameSelection(c, g) /\ g.context = c.context
        /\ \A i \in ContextIds : /\ g.contexts[i].valid = c.contexts[i].valid
                                 /\ g.contexts[i].bearer = c.contexts[i].bearer
                                 /\ g.contexts[i].day = c.contexts[i].day
    BY EpochTaken
  <2> HIDE DEF g
  <2>3. g \in Cores /\ g.context \in ContextIds /\ Apart(g.contexts)
    BY <2>2, CoreTypes DEF Inner, Stored, PoolOf
  <2>4. g.contexts[g.context].valid
    BY <2>2, <2>3 DEF OnSelection
  <2>5. /\ new \in ContextStates /\ new.valid /\ new.epoch = g.nextEpoch /\ new.epoch # 0
        /\ new.bearer = g.contexts[g.context].bearer /\ new.day = g.contexts[g.context].day
    <3>1. g.nextEpoch \in 1..(EpochMod - 1) /\ g.contexts[g.context] \in ContextStates /\ EpochMod \in Nat
      BY <2>3, CoreTypes, EpgAssumption
    <3>2. g.nextEpoch \in 0..(EpochMod - 1) /\ g.nextEpoch # 0
      BY <3>1
    <3> QED
      BY <2>4, <3>1, <3>2 DEF ContextStates
  <2>6. d = Reassign(g, new)
    BY <2>1, Zenon DEF Stamp, Reassign
  <2>7. \A i \in ContextIds \ {g.context} :
          g.contexts[i].valid => ~(g.contexts[i].bearer = new.bearer /\ g.contexts[i].day = new.day)
    BY <2>3, <2>4, <2>5 DEF Apart
  <2> HIDE DEF new, d
  <2>8. Inner(d) /\ SameSelection(g, d) /\ d.context = g.context /\ d.contexts[d.context] = new
    <3>1. Assignable(g, new)
      BY <2>5, <2>7 DEF Assignable
    <3> QED
      BY <2>2, <2>6, <3>1, Reassigned
  <2>9. SameSelection(c, d)
    BY <2>2, <2>8, SameSelectionChain
  <2>10. OnSelection(d) /\ d.contexts[d.context].epoch # 0
    BY <2>2, <2>3, <2>5, <2>8, <2>9 DEF OnSelection, SameSelection
  <2> QED
    BY <2>8, <2>9, <2>10 DEF d
<1> QED
  BY <1>1, <1>2

\* UseContext shows it.
LEMMA ContextUsed ==
  ASSUME NEW c, Inner(c), OnSelection(c), c.contexts[c.context].epoch # 0
  PROVE  LET d == UseContext(c)
         IN Outer(d) /\ SameSelection(c, d) /\ Shown(d)
<1> DEFINE new == [c.contexts[c.context] EXCEPT !.used = c.uses + 1]
           d == UseContext(c)
<1>1. c \in Cores /\ Stored(c) /\ Epochs(c) /\ Recalls(c, LimitedIn(c)) /\ Apart(c.contexts)
  BY DEF Inner, Stored, PoolOf
<1>2. /\ c.contexts \in [ContextIds -> ContextStates] /\ c.context \in ContextIds
      /\ c.contexts[c.context] \in ContextStates /\ c.uses \in Nat
  BY <1>1, CoreTypes
<1>3. d = [c EXCEPT !.epoch = c.contexts[c.context].epoch, !.limited = c.contexts[c.context].limited,
                    !.uses = c.uses + 1, !.contexts = [c.contexts EXCEPT ![c.context] = new]]
  BY <1>1, Zenon DEF UseContext, Cores
<1>4. /\ d.contexts = [c.contexts EXCEPT ![c.context] = new]
      /\ d.cache = c.cache /\ d.texts = c.texts /\ d.epochOf = c.epochOf /\ d.nextEpoch = c.nextEpoch
      /\ d.context = c.context /\ d.limited = c.contexts[c.context].limited
      /\ d.epoch = c.contexts[c.context].epoch
      /\ SameSelection(c, d)
  <2> HIDE DEF d, new
  <2> QED
    BY <1>1, <1>3 DEF Cores, SameSelection
<1>5. /\ new \in ContextStates /\ new.valid = c.contexts[c.context].valid
      /\ new.bearer = c.contexts[c.context].bearer /\ new.day = c.contexts[c.context].day
      /\ new.epoch = c.contexts[c.context].epoch /\ new.limited = c.contexts[c.context].limited
  BY <1>2 DEF ContextStates
<1> HIDE DEF new, d
<1>6. ASSUME NEW i \in ContextIds
      PROVE  /\ d.contexts[i] \in ContextStates
             /\ d.contexts[i].valid = c.contexts[i].valid /\ d.contexts[i].bearer = c.contexts[i].bearer
             /\ d.contexts[i].day = c.contexts[i].day /\ d.contexts[i].epoch = c.contexts[i].epoch
             /\ d.contexts[i].limited = c.contexts[i].limited
  BY <1>2, <1>4, <1>5
<1>7. d \in Cores
  <2>1. /\ d.contexts \in [ContextIds -> ContextStates] /\ d.epoch \in 1..(EpochMod - 1)
        /\ d.limited \in BOOLEAN /\ c.uses + 1 \in Nat
    <3>1. c.contexts[c.context].epoch \in 0..(EpochMod - 1) /\ EpochMod \in Nat
      BY <1>1, <1>2, CoreTypes, EpgAssumption
    <3>2. c.contexts[c.context].limited \in BOOLEAN
      BY <1>2 DEF ContextStates
    <3> QED
      BY <1>2, <1>4, <1>5, <3>1, <3>2
  <2>2. d = [c EXCEPT !.epoch = d.epoch, !.limited = d.limited, !.uses = c.uses + 1,
                      !.contexts = d.contexts]
    BY <1>3, <1>4
  <2> QED
    BY <1>1, <2>1, <2>2 DEF Cores
<1>8. Stored(d)
  <2>1. KeepsContexts(c, d) /\ Apart(d.contexts)
    BY <1>1, <1>6 DEF KeepsContexts, Apart
  <2> QED
    BY <1>1, <1>4, <1>7, <2>1, Recontexted
<1>9. Epochs(d)
  BY <1>1, <1>4, <1>6 DEF Epochs
<1>10. LimitedNow(d) = LimitedIn(c)
  BY <1>2, <1>4, <1>6 DEF LimitedNow, LimitedIn
<1>11. KeepsKnowing(c, d, LimitedIn(c), LimitedNow(d))
  BY <1>4, <1>6, <1>10 DEF KeepsKnowing, SameSelection
<1>12. Outer(d)
  BY <1>1, <1>8, <1>9, <1>11, StillRecalled DEF Outer
<1>13. Shown(d)
  BY <1>2, <1>4, <1>6 DEF Shown, OnSelection, SameSelection
<1> QED
  BY <1>4, <1>12, <1>13 DEF d

\* Nothing is received nor decoded.
Idle(c) ==
  c.slots = [s \in Slots |-> FreeSlot] /\ c.decoding = 0 /\ c.left = <<>>

\* ResetBodies leaves nothing to receive or to decode.
LEMMA BodiesReset ==
  ASSUME NEW c, Outer(c), Shown(c)
  PROVE  LET d == ResetBodies(c)
         IN Outer(d) /\ SameSelection(c, d) /\ Shown(d) /\ Idle(d)
<1> DEFINE d == ResetBodies(c)
<1>1. c \in Cores /\ Stored(c) /\ Epochs(c) /\ Recalls(c, LimitedNow(c))
  BY DEF Outer, Stored
<1>2. /\ d.contexts = c.contexts /\ d.cache = c.cache /\ d.texts = c.texts /\ d.epochOf = c.epochOf
      /\ d.nextEpoch = c.nextEpoch /\ d.context = c.context /\ d.limited = c.limited
      /\ d.epoch = c.epoch /\ SameSelection(c, d) /\ Idle(d)
  BY <1>1 DEF ResetBodies, Cores, SameSelection, Idle
<1>3. d \in Cores
  <2>1. FreeSlot \in SlotStates /\ <<>> \in Seq(Programmes)
    BY DEF FreeSlot, SlotStates
  <2>2. [s \in Slots |-> FreeSlot] \in [Slots -> SlotStates]
    BY <2>1
  <2> HIDE DEF d
  <2>3. d = [c EXCEPT !.slots = [s \in Slots |-> FreeSlot], !.pressure = FALSE, !.decoding = 0,
                      !.left = <<>>]
    BY Zenon DEF ResetBodies, d
  <2> QED
    BY <1>1, <2>1, <2>2, <2>3 DEF Cores
<1> HIDE DEF d
<1>4. Stored(d)
  BY <1>1, <1>2, <1>3 DEF Stored, PoolOf
<1>5. Epochs(d)
  BY <1>1, <1>2 DEF Epochs
<1>6. LimitedNow(d) = LimitedNow(c)
  BY <1>2 DEF LimitedNow
<1>7. KeepsKnowing(c, d, LimitedNow(c), LimitedNow(d))
  BY <1>2, <1>6 DEF KeepsKnowing, SameSelection, LimitedNow
<1>8. Outer(d)
  BY <1>1, <1>4, <1>5, <1>7, StillRecalled DEF Outer
<1>9. Shown(d)
  BY <1>2 DEF Shown, SameSelection
<1> QED
  BY <1>2, <1>8, <1>9 DEF d

\* ActivateContext shows the selection, and recalls what was received for it.
LEMMA ContextActivated ==
  ASSUME NEW c, Outer(c)
  PROVE  LET d == ActivateContext(c)
         IN Outer(d) /\ SameSelection(c, d) /\ Shown(d) /\ Idle(d)
<1> DEFINE b == LeaveContext(c)
           e == FindContext(b)
           f == Renewed(e)
           g == UseContext(f)
           d == ActivateContext(c)
<1>1. d = ResetBodies(g)
  BY AppliedOnce, Zenon DEF ActivateContext
<1>2. Inner(b) /\ SameSelection(c, b)
  BY ContextLeft
<1> HIDE DEF b
<1>3. Inner(e) /\ SameSelection(b, e) /\ OnSelection(e)
  BY <1>2, ContextFound
<1> HIDE DEF e
<1>4. Inner(f) /\ SameSelection(e, f) /\ OnSelection(f) /\ f.contexts[f.context].epoch # 0
  BY <1>3, ContextRenewed
<1> HIDE DEF f
<1>5. Outer(g) /\ SameSelection(f, g) /\ Shown(g)
  BY <1>4, ContextUsed
<1> HIDE DEF g, d
<1>6. Outer(d) /\ SameSelection(g, d) /\ Shown(d) /\ Idle(d)
  BY <1>1, <1>5, BodiesReset
<1>7. SameSelection(c, d)
  BY <1>2, <1>3, <1>4, <1>5, <1>6, SameSelectionChain
<1> QED
  BY <1>6, <1>7 DEF d

\* An empty cache has nothing to recall, whatever there was before.
LEMMA NothingStored ==
  ASSUME NEW b \in Cores, b.cache = {}, b.texts = <<>>, b.contexts = [i \in ContextIds |-> EmptyContext],
         \A t \in Objects : b.epochOf[t] = 0
  PROVE  Outer(b)
<1>1. \A i \in ContextIds : ~b.contexts[i].valid /\ b.contexts[i].epoch = 0
  BY DEF EmptyContext
<1>2. Stored(b)
  <2>1. IsFiniteSet({}) /\ Cardinality({}) = 0 /\ Len(<<>>) = 0
    BY FS_EmptySet
  <2>2. Pool({}, <<>>, b.contexts)
    BY <2>1 DEF Pool, Keyed
  <2>3. Apart(b.contexts)
    BY <1>1 DEF Apart
  <2> QED
    BY <2>1, <2>2, <2>3, EpgAssumption DEF Stored, PoolOf, Titled
<1>3. Epochs(b)
  <2>1. b.nextEpoch \in 1..(EpochMod - 1) /\ EpochMod \in Nat
    BY CoreTypes, EpgAssumption
  <2> QED
    BY <1>1, <2>1 DEF Epochs
<1>4. Recalls(b, LimitedNow(b))
  BY <1>1 DEF Recalls
<1> QED
  BY <1>2, <1>3, <1>4 DEF Outer

\* ClearCache starts over, with a context for the selection.
LEMMA CacheCleared ==
  ASSUME NEW c \in Cores, \A t \in Objects : c.epochOf[t] = 0
  PROVE  LET d == ClearCache(c)
         IN Outer(d) /\ SameSelection(c, d) /\ Shown(d) /\ Idle(d)
<1> DEFINE b == [c EXCEPT !.cache = {}, !.texts = <<>>, !.limited = FALSE, !.context = 1,
                          !.contexts = [i \in ContextIds |-> EmptyContext]]
           d == ClearCache(c)
<1>1. d = ActivateContext(b)
  BY AppliedOnce, Zenon DEF ClearCache
<1>2. /\ b.cache = {} /\ b.texts = <<>> /\ b.contexts = [i \in ContextIds |-> EmptyContext]
      /\ b.epochOf = c.epochOf /\ b.nextEpoch = c.nextEpoch /\ SameSelection(c, b)
  BY DEF Cores, SameSelection
<1>3. b \in Cores
  <2>1. EmptyContext \in ContextStates
    BY EpgAssumption DEF EmptyContext, ContextStates
  <2>2. 1 \in ContextIds /\ [i \in ContextIds |-> EmptyContext] \in [ContextIds -> ContextStates]
    BY <2>1, EpgAssumption DEF ContextIds
  <2>3. {} \subseteq Entries /\ <<>> \in Seq(Texts)
    OBVIOUS
  <2> QED
    BY <2>2, <2>3 DEF Cores
<1> HIDE DEF b, d
<1>4. Outer(b)
  BY <1>2, <1>3, NothingStored
<1>5. Outer(d) /\ SameSelection(b, d) /\ Shown(d) /\ Idle(d)
  BY <1>1, <1>4, ContextActivated
<1> QED
  BY <1>2, <1>5, SameSelectionChain DEF d

(* What the core keeps true. *)

Slotted(c) ==
  /\ c.seen \subseteq Listed(c)
  /\ \A s \in Slots : /\ c.slots[s].object \in Listed(c) \cup {0}
                      /\ c.slots[s].complete => c.slots[s].object # 0
  /\ c.decoding # 0 => c.slots[c.decoding].complete

\* Before the first directory
Blank(c) == c.directory = 0 /\ c.selected = 0

Handled(c, r) ==
  r.bearer = c.selected /\ r.day = c.day =>
    c.limited \/ c.names[r.bearer] = Conflicting \/ Knows(Known(c.cache), c.context, r)

\* What is left of the object that is decoded is its end, and what came before has been handled.
InOrder(c, t) ==
  LET all == Object[t].holds
      done == Len(all) - Len(c.left)
  IN /\ c.left \in Seq(Programmes) \cup Seq(StationNames) /\ done \in Nat
     /\ \A k \in 1..Len(c.left) : c.left[k] = all[done + k]
     /\ t \in PIObjects => \A k \in 1..done : Handled(c, all[k])

Progress(c) == c.decoding # 0 => InOrder(c, c.slots[c.decoding].object)

CoreInv(c) == Outer(c) /\ Slotted(c) /\ (Shown(c) \/ Blank(c)) /\ Progress(c)
CoreOK(c) == CoreInv(c) /\ (c.identityConflict => c.selected = 0)

\* Objects are listed, and only by a directory.
LEMMA ListedObjects ==
  ASSUME NEW c \in Cores
  PROVE  Listed(c) \subseteq Objects /\ 0 \notin Listed(c) /\ (c.directory = 0 => Listed(c) = {})
<1>1. c.directory \in 0..Len(Carousels) /\ Carousels \in Seq(SUBSET Objects) /\ 0 \notin Objects
  BY EpgAssumption DEF Cores
<1>2. c.directory # 0 => c.directory \in 1..Len(Carousels)
  BY <1>1, LenProperties
<1>3. c.directory # 0 => Carousels[c.directory] \in SUBSET Objects
  BY <1>1, <1>2, ElementOfSeq
<1> QED
  BY <1>1, <1>3 DEF Listed

\* d has the cache of c, for the same selection.
SameCache(c, d) ==
  /\ d.cache = c.cache /\ d.texts = c.texts /\ d.contexts = c.contexts /\ d.context = c.context
  /\ d.limited = c.limited /\ d.epoch = c.epoch /\ d.nextEpoch = c.nextEpoch /\ d.epochOf = c.epochOf
  /\ d.names = c.names /\ d.seen = c.seen /\ d.selected = c.selected /\ d.day = c.day
  /\ d.directory = c.directory

\* With the same cache everything that was handled stays so.
LEMMA CacheKept ==
  ASSUME NEW c, Outer(c), NEW d, d \in Cores, SameCache(c, d)
  PROVE  /\ Outer(d) /\ Listed(d) = Listed(c)
         /\ Shown(c) => Shown(d)
         /\ Blank(c) => Blank(d)
         /\ \A r : Handled(c, r) => Handled(d, r)
<1>1. c \in Cores /\ Stored(c) /\ Epochs(c) /\ Recalls(c, LimitedNow(c))
  BY DEF Outer, Stored
<1>2. Stored(d)
  BY <1>1 DEF Stored, PoolOf, SameCache
<1>3. Epochs(d)
  BY <1>1 DEF Epochs, SameCache
<1>4. LimitedNow(d) = LimitedNow(c)
  BY DEF LimitedNow, SameCache
<1>5. KeepsKnowing(c, d, LimitedNow(c), LimitedNow(d))
  BY <1>4 DEF KeepsKnowing, SameCache
<1>6. Outer(d)
  BY <1>1, <1>2, <1>3, <1>5, StillRecalled DEF Outer
<1>7. (Shown(c) => Shown(d)) /\ (Blank(c) => Blank(d)) /\ Listed(d) = Listed(c)
  BY DEF Shown, Blank, Listed, SameCache
<1>8. \A r : Handled(c, r) => Handled(d, r)
  BY DEF Handled, SameCache
<1> QED
  BY <1>6, <1>7, <1>8

\* Nothing but the clock, the day browsed to, the conflict of names or the pressure changes.
LEMMA MarksChanged ==
  ASSUME NEW c, CoreInv(c), NEW d, d \in Cores, SameCache(c, d),
         d.slots = c.slots, d.decoding = c.decoding, d.left = c.left
  PROVE  CoreInv(d)
<1>1. Outer(c) /\ Slotted(c) /\ Progress(c)
  BY DEF CoreInv
<1>2. /\ Outer(d) /\ Listed(d) = Listed(c) /\ (Shown(c) => Shown(d)) /\ (Blank(c) => Blank(d))
      /\ \A r : Handled(c, r) => Handled(d, r)
  BY <1>1, CacheKept
<1>3. Slotted(d)
  BY <1>1, <1>2 DEF Slotted, SameCache
<1>4. Progress(d)
  BY <1>1, <1>2 DEF Progress, InOrder
<1> QED
  BY <1>2, <1>3, <1>4 DEF CoreInv

\* A context has just been taken into use, and nothing is received.
LEMMA Settled ==
  ASSUME NEW c, Outer(c), Shown(c), Idle(c), c.seen \subseteq Listed(c)
  PROVE  CoreInv(c)
<1>1. Slotted(c)
  BY DEF Slotted, Idle, FreeSlot
<1>2. Progress(c)
  BY DEF Progress, Idle
<1> QED
  BY <1>1, <1>2 DEF CoreInv

-----------------------------------------------------------------------------
(* The selection. *)

\* A day is selected.
LEMMA SelectionDayIsDay ==
  ASSUME NEW c \in Cores, NEW b, NEW day \in Nat
  PROVE  SelectionDay(c, b, day) \in Nat
<1> DEFINE days == {Object[t].day : t \in {x \in Listed(c) \cap PIObjects : Object[x].bearer = b}}
           declared == days \ {0}
           base == IF day = 0 THEN c.day ELSE day
<1>1. days \subseteq Nat
  BY EpgAssumption DEF PIObjects
<1>2. base \in Nat
  BY CoreTypes
<1>3. declared # {} => Min(declared) \in Nat
  <2> HIDE DEF days
  <2> QED
    BY <1>1, MinOf
<1>4. SelectionDay(c, b, day) = IF declared = {} \/ base \in declared THEN base ELSE Min(declared)
  BY Zenon DEF SelectionDay
<1> QED
  BY <1>2, <1>3, <1>4

\* Select keeps the invariant, whatever context it ends in.
LEMMA StationSelected ==
  ASSUME NEW c, CoreInv(c), NEW b \in Stations \cup {0}, NEW day \in Nat
  PROVE  LET d == Select(c, b, day)
         IN /\ CoreInv(d) /\ d.selected = b /\ d.names = c.names /\ d.directory = c.directory
            /\ d.identityConflict = c.identityConflict
<1> DEFINE browse == IF b = c.selected THEN c.browse ELSE 0
           base == SelectionDay(c, b, day)
           shown == IF base + browse >= 0 THEN base + browse ELSE base
           moved == [c EXCEPT !.browse = browse, !.selected = b, !.day = shown]
           active == IF <<b, shown>> = <<c.selected, c.day>> THEN moved ELSE ActivateContext(moved)
           now == IF day = 0 THEN active.now ELSE day
           d == Select(c, b, day)
<1>1. c \in Cores /\ Outer(c) /\ Slotted(c) /\ c.seen \subseteq Listed(c)
  BY DEF CoreInv, Outer, Stored, Slotted
<1>2. /\ base \in Nat /\ browse \in Int /\ browse \in (-MaxBrowse)..MaxBrowse
  <2>1. base \in Nat
    BY <1>1, SelectionDayIsDay
  <2>2. c.browse \in (-MaxBrowse)..MaxBrowse /\ MaxBrowse \in Nat
    BY <1>1, EpgAssumption DEF Cores
  <2>3. browse \in (-MaxBrowse)..MaxBrowse
    BY <2>2
  <2> HIDE DEF base, browse
  <2> QED
    BY <2>1, <2>2, <2>3
<1>3. shown \in Nat
  BY <1>2
<1>4. d = [active EXCEPT !.now = now]
  BY AppliedOnce, Zenon DEF Select
<1> HIDE DEF browse, base, shown
<1>5. /\ moved \in Cores /\ moved.selected = b /\ moved.day = shown
      /\ moved.cache = c.cache /\ moved.texts = c.texts /\ moved.contexts = c.contexts
      /\ moved.context = c.context /\ moved.limited = c.limited /\ moved.epoch = c.epoch
      /\ moved.nextEpoch = c.nextEpoch /\ moved.epochOf = c.epochOf /\ moved.names = c.names
      /\ moved.seen = c.seen /\ moved.directory = c.directory /\ moved.slots = c.slots
      /\ moved.decoding = c.decoding /\ moved.left = c.left
      /\ moved.identityConflict = c.identityConflict
  BY <1>1, <1>2, <1>3 DEF Cores
<1> HIDE DEF moved
<1>6. /\ CoreInv(active) /\ active.selected = b /\ active.names = c.names
      /\ active.directory = c.directory /\ active.identityConflict = c.identityConflict
  <2>1. CASE <<b, shown>> = <<c.selected, c.day>>
    <3>1. active = moved /\ b = c.selected /\ shown = c.day
      BY <2>1
    <3>2. SameCache(c, moved)
      BY <1>5, <3>1 DEF SameCache
    <3> QED
      BY <1>5, <3>1, <3>2, MarksChanged
  <2>2. CASE <<b, shown>> # <<c.selected, c.day>>
    <3>1. active = ActivateContext(moved)
      BY <2>2
    <3>2. Outer(moved)
      <4>1. Stored(c) /\ Epochs(c) /\ Recalls(c, LimitedNow(c))
        BY <1>1 DEF Outer
      <4>2. Stored(moved)
        BY <1>5, <4>1 DEF Stored, PoolOf
      <4>3. Epochs(moved)
        BY <1>5, <4>1 DEF Epochs
      <4>4. LimitedNow(moved) = LimitedNow(c)
        BY <1>5 DEF LimitedNow
      <4>5. KeepsKnowing(c, moved, LimitedNow(c), LimitedNow(moved))
        BY <1>5, <4>4 DEF KeepsKnowing
      <4> QED
        BY <4>1, <4>2, <4>3, <4>5, StillRecalled DEF Outer
    <3> HIDE DEF active
    <3>3. Outer(active) /\ SameSelection(moved, active) /\ Shown(active) /\ Idle(active)
      BY <3>1, <3>2, ContextActivated
    <3>4. active.seen \subseteq Listed(active)
      BY <1>1, <1>5, <3>3 DEF SameSelection, Listed
    <3>5. CoreInv(active)
      BY <3>3, <3>4, Settled
    <3> QED
      BY <1>5, <3>3, <3>5 DEF SameSelection
  <2> QED
    BY <2>1, <2>2
<1> HIDE DEF active
<1>7. active \in Cores
  BY <1>6 DEF CoreInv, Outer, Stored
<1>8. now \in Nat
  BY <1>7 DEF Cores
<1> HIDE DEF now, d
<1>9. /\ d \in Cores /\ SameCache(active, d) /\ d.slots = active.slots /\ d.decoding = active.decoding
      /\ d.left = active.left /\ d.identityConflict = active.identityConflict
  BY <1>4, <1>7, <1>8 DEF Cores, SameCache
<1>10. CoreInv(d)
  BY <1>6, <1>9, MarksChanged
<1> QED
  BY <1>6, <1>9, <1>10 DEF SameCache, d

\* What the invariant says of the parts.
LEMMA CoreOKType ==
  ASSUME NEW c, CoreOK(c)
  PROVE  c \in Cores /\ CoreInv(c) /\ Outer(c) /\ Stored(c) /\ Slotted(c) /\ c.seen \subseteq Listed(c)
BY DEF CoreOK, CoreInv, Outer, Stored, Slotted

\* BrowseDay keeps the invariant.
LEMMA DayBrowsed ==
  ASSUME NEW c, CoreOK(c), NEW delta \in Int
  PROVE  CoreOK(BrowseDay(c, delta))
<1> DEFINE refused == delta = 0 \/ c.browse + delta \notin -MaxBrowse..MaxBrowse
           b == [c EXCEPT !.browse = c.browse + delta]
           d == Select(b, c.selected, c.now)
<1>1. c \in Cores /\ CoreInv(c)
  BY CoreOKType
<1>2. BrowseDay(c, delta) = IF refused THEN c ELSE d
  BY <1>1 DEF BrowseDay, Cores
<1>3. CASE refused
  BY <1>2, <1>3
<1>4. CASE ~refused
  <2>1. c.selected \in Stations \cup {0} /\ c.now \in Nat
    BY <1>1 DEF Cores
  <2>2. /\ b \in Cores /\ SameCache(c, b) /\ b.slots = c.slots /\ b.decoding = c.decoding
        /\ b.left = c.left /\ b.identityConflict = c.identityConflict
    BY <1>1, <1>4 DEF Cores, SameCache
  <2> HIDE DEF b
  <2>3. CoreInv(b)
    BY <1>1, <2>2, MarksChanged
  <2>4. CoreInv(d) /\ d.selected = c.selected /\ d.identityConflict = c.identityConflict
    BY <2>1, <2>2, <2>3, StationSelected
  <2>5. CoreOK(d)
    BY <2>4 DEF CoreOK
  <2> QED
    BY <1>2, <1>4, <2>5
<1> QED
  BY <1>3, <1>4

\* A service whose names disagree selects nothing.
LEMMA ContextIsLive ==
  ASSUME NEW c, CoreInv(c), NEW b \in Stations, NEW day \in Nat
  PROVE  CoreOK(LiveContext(c, b, day))
<1> DEFINE match == Match(c, b)
           chosen == IF day # 0 THEN Select(c, match, day)
                     ELSE IF match # c.selected THEN Select(c, match, 0) ELSE c
           d == LiveContext(c, b, day)
<1>1. d = [chosen EXCEPT !.identityConflict = (c.names[b] = Conflicting)]
  BY Zenon DEF LiveContext
<1>2. match \in Stations \cup {0} /\ (c.names[b] = Conflicting => match = 0)
  BY DEF Match
<1> HIDE DEF match, d
<1>3. CoreInv(chosen) /\ chosen.selected = match
  <2>1. CASE day # 0
    BY <1>2, <2>1, StationSelected
  <2>2. CASE day = 0 /\ match # c.selected
    <3>1. 0 \in Nat /\ chosen = Select(c, match, 0)
      BY <2>2
    <3> HIDE DEF chosen
    <3> QED
      BY <1>2, <3>1, StationSelected
  <2>3. CASE day = 0 /\ match = c.selected
    BY <2>3
  <2> QED
    BY <2>1, <2>2, <2>3
<1> HIDE DEF chosen
<1>4. chosen \in Cores
  BY <1>3 DEF CoreInv, Outer, Stored
<1>5. /\ d \in Cores /\ SameCache(chosen, d) /\ d.slots = chosen.slots /\ d.decoding = chosen.decoding
      /\ d.left = chosen.left /\ d.identityConflict = (c.names[b] = Conflicting)
  BY <1>1, <1>4 DEF Cores, SameCache
<1>6. CoreInv(d)
  BY <1>3, <1>5, MarksChanged
<1>7. d.selected = match
  BY <1>3, <1>5 DEF SameCache
<1> QED
  BY <1>2, <1>5, <1>6, <1>7 DEF CoreOK, d

\* The values that a reset gives have the types of their fields.
LEMMA InitialMarks ==
  /\ [t \in Objects |-> 0] \in [Objects -> 0..(EpochMod - 1)]
  /\ [s \in Stations |-> Unnamed] \in [Stations -> STRING \cup {Unnamed, Conflicting}]
  /\ 0 \in (-MaxBrowse)..MaxBrowse /\ 0 \in 0..Len(Carousels)
  /\ Len(Carousels) \in Nat
<1>1. EpochMod \in Nat /\ EpochMod > 2 /\ MaxBrowse \in Nat /\ Carousels \in Seq(SUBSET Objects)
  BY EpgAssumption
<1>2. Len(Carousels) \in Nat
  BY <1>1, LenProperties
<1>3. 0 \in 0..(EpochMod - 1) /\ 0 \in (-MaxBrowse)..MaxBrowse /\ 0 \in 0..Len(Carousels)
  BY <1>1, <1>2
<1>4. /\ [t \in Objects |-> 0] \in [Objects -> 0..(EpochMod - 1)]
      /\ [s \in Stations |-> Unnamed] \in [Stations -> STRING \cup {Unnamed, Conflicting}]
  <2> DEFINE epochs == 0..(EpochMod - 1)
  <2>1. 0 \in epochs
    BY <1>3
  <2> HIDE DEF epochs
  <2>2. [t \in Objects |-> 0] \in [Objects -> epochs] /\ [s \in Stations |-> Unnamed] \in [Stations -> STRING \cup {Unnamed, Conflicting}]
    BY <2>1
  <2> QED
    BY <2>2 DEF epochs
<1> QED
  BY <1>2, <1>3, <1>4

\* Apply of Select is Select.
LEMMA SelectApplied ==
  \A c : Apply(LAMBDA d : Select(d, 0, 0), c) = Select(c, 0, 0)
BY Zenon DEF Apply

\* ResetLive keeps the invariant.
LEMMA LiveReset ==
  ASSUME NEW c \in Cores
  PROVE  CoreOK(ResetLive(c))
<1> DEFINE b == [c EXCEPT !.directory = 0, !.seen = {}, !.epochOf = [t \in Objects |-> 0], !.browse = 0,
                          !.names = [s \in Stations |-> Unnamed], !.identityConflict = FALSE]
           e == ClearCache(b)
           d == Select(e, 0, 0)
<1>1. ResetLive(c) = d
  BY SelectApplied, Zenon DEF ResetLive
<1>2. /\ b.epochOf = [t \in Objects |-> 0] /\ b.seen = {} /\ b.identityConflict = FALSE
      /\ b.directory = 0
  BY DEF Cores
<1>3. b \in Cores
  <2>1. /\ [t \in Objects |-> 0] \in [Objects -> 0..(EpochMod - 1)]
        /\ [s \in Stations |-> Unnamed] \in [Stations -> STRING \cup {Unnamed, Conflicting}]
        /\ 0 \in (-MaxBrowse)..MaxBrowse /\ 0 \in 0..Len(Carousels)
    BY InitialMarks
  <2>2. {} \in SUBSET Objects /\ FALSE \in BOOLEAN
    OBVIOUS
  <2> QED
    BY <2>1, <2>2 DEF Cores
<1> HIDE DEF b
<1>4. Outer(e) /\ SameSelection(b, e) /\ Shown(e) /\ Idle(e)
  BY <1>2, <1>3, CacheCleared
<1> HIDE DEF e
<1>5. CoreInv(e) /\ e.identityConflict = FALSE
  BY <1>2, <1>4, Settled DEF SameSelection
<1>6. CoreInv(d) /\ d.identityConflict = FALSE
  <2>1. 0 \in Stations \cup {0} /\ 0 \in Nat
    OBVIOUS
  <2> QED
    BY <1>5, <2>1, StationSelected
<1> QED
  BY <1>1, <1>6 DEF CoreOK

\* Directory keeps the invariant.
LEMMA DirectoryTaken ==
  ASSUME NEW c, CoreOK(c), NEW n \in 1..Len(Carousels)
  PROVE  CoreOK(Directory(c, n))
<1> DEFINE b == [c EXCEPT !.directory = n, !.seen = {}, !.epochOf = [t \in Objects |-> 0],
                          !.names = [s \in Stations |-> Unnamed]]
           d == ClearCache(b)
<1>1. c \in Cores /\ (c.identityConflict => c.selected = 0)
  BY CoreOKType DEF CoreOK
<1>2. Directory(c, n) = IF Busy(c) \/ c.directory = n THEN c ELSE d
  BY Zenon DEF Directory
<1>3. /\ b.epochOf = [t \in Objects |-> 0] /\ b.seen = {} /\ b.identityConflict = c.identityConflict
      /\ b.selected = c.selected
  BY <1>1 DEF Cores
<1>4. b \in Cores
  <2>1. /\ [t \in Objects |-> 0] \in [Objects -> 0..(EpochMod - 1)]
        /\ [s \in Stations |-> Unnamed] \in [Stations -> STRING \cup {Unnamed, Conflicting}]
        /\ n \in 0..Len(Carousels)
    BY InitialMarks
  <2> QED
    BY <1>1, <2>1 DEF Cores
<1> HIDE DEF b, d
<1>5. Outer(d) /\ SameSelection(b, d) /\ Shown(d) /\ Idle(d)
  BY <1>3, <1>4, CacheCleared DEF d
<1>6. CoreInv(d)
  BY <1>3, <1>5, Settled DEF SameSelection
<1>7. CoreOK(d)
  BY <1>1, <1>3, <1>5, <1>6 DEF CoreOK, SameSelection
<1> QED
  BY <1>2, <1>7

-----------------------------------------------------------------------------
(* Reception. *)

SetSlot(c, s, new) == [c EXCEPT !.slots = [c.slots EXCEPT ![s] = new]]

\* A slot from which nothing is decoded may change.
LEMMA SlotChanged ==
  ASSUME NEW c, CoreInv(c), NEW s \in Slots, s # c.decoding, NEW new \in SlotStates,
         new.object \in Listed(c) \cup {0}, new.complete => new.object # 0
  PROVE  LET d == SetSlot(c, s, new)
         IN /\ CoreInv(d) /\ d.decoding = c.decoding /\ d.slots[s] = new /\ SameCache(c, d)
            /\ d.identityConflict = c.identityConflict
<1> DEFINE d == SetSlot(c, s, new)
<1>1. c \in Cores /\ Outer(c) /\ Slotted(c) /\ Progress(c) /\ c.slots \in [Slots -> SlotStates]
      /\ c.decoding \in Slots \cup {0} /\ 0 \notin Slots
  BY DEF CoreInv, Outer, Stored, Cores, Slots
<1>2. /\ SameCache(c, d) /\ d.decoding = c.decoding /\ d.left = c.left
      /\ d.slots = [c.slots EXCEPT ![s] = new] /\ d.identityConflict = c.identityConflict
  BY <1>1 DEF Cores, SameCache, SetSlot
<1>3. d \in Cores
  <2>1. [c.slots EXCEPT ![s] = new] \in [Slots -> SlotStates]
    BY <1>1
  <2> QED
    BY <1>1, <2>1 DEF Cores, SetSlot
<1> HIDE DEF d
<1>4. \A x \in Slots : d.slots[x] = IF x = s THEN new ELSE c.slots[x]
  BY <1>1, <1>2
<1>5. /\ Outer(d) /\ Listed(d) = Listed(c) /\ (Shown(c) => Shown(d)) /\ (Blank(c) => Blank(d))
      /\ \A r : Handled(c, r) => Handled(d, r)
  BY <1>1, <1>2, <1>3, CacheKept
<1>6. Slotted(d)
  BY <1>1, <1>2, <1>4, <1>5 DEF Slotted, SameCache
<1>7. Progress(d)
  <2>1. d.decoding # 0 => d.slots[d.decoding] = c.slots[c.decoding]
    BY <1>1, <1>2, <1>4
  <2>2. ASSUME NEW t, InOrder(c, t)
        PROVE  InOrder(d, t)
    BY <1>2, <1>5, <2>2 DEF InOrder
  <2> QED
    BY <1>1, <1>2, <2>1, <2>2 DEF Progress
<1>8. CoreInv(d)
  BY <1>5, <1>6, <1>7 DEF CoreInv
<1> QED
  BY <1>2, <1>4, <1>8 DEF d

\* The decoding of a complete object starts with all that it holds.
LEMMA BodyStarted ==
  ASSUME NEW c, CoreInv(c), NEW s \in Slots, c.slots[s].complete, c.decoding = 0
  PROVE  LET d == StartBody(c, s)
         IN CoreInv(d) /\ SameCache(c, d) /\ d.identityConflict = c.identityConflict
<1> DEFINE all == Object[c.slots[s].object].holds
           d == StartBody(c, s)
<1>1. c \in Cores /\ Outer(c) /\ Slotted(c)
  BY DEF CoreInv, Outer, Stored
<1>2. c.slots[s].object \in Objects
  BY <1>1, ListedObjects DEF Slotted
<1>3. all \in Seq(Programmes) \cup Seq(StationNames) /\ Len(all) \in Nat
  BY <1>2, EpgAssumption, LenProperties
<1>4. d = [c EXCEPT !.decoding = s, !.left = all]
  BY <1>1 DEF StartBody
<1> HIDE DEF all, d
<1>5. /\ d \in Cores /\ SameCache(c, d) /\ d.decoding = s /\ d.left = all /\ d.slots = c.slots
      /\ d.identityConflict = c.identityConflict
  <2>1. d \in Cores
    BY <1>1, <1>3, <1>4 DEF Cores
  <2>2. SameCache(c, d)
    BY <1>1, <1>4 DEF Cores, SameCache
  <2> QED
    BY <1>1, <1>4, <2>1, <2>2 DEF Cores
<1>6. Outer(d) /\ Listed(d) = Listed(c) /\ (Shown(c) => Shown(d)) /\ (Blank(c) => Blank(d))
  BY <1>1, <1>5, CacheKept
<1>7. Slotted(d)
  BY <1>1, <1>5, <1>6 DEF Slotted, SameCache
<1>8. InOrder(d, c.slots[s].object)
  <2>1. Len(all) - Len(d.left) = 0 /\ \A k \in 1..Len(d.left) : 0 + k = k
    BY <1>3, <1>5
  <2> QED
    BY <1>3, <1>5, <2>1 DEF InOrder, all
<1>9. CoreInv(d)
  BY <1>5, <1>6, <1>7, <1>8 DEF CoreInv, Progress
<1> QED
  BY <1>5, <1>9 DEF d

\* Collect keeps the invariant.
LEMMA SegmentCollected ==
  ASSUME NEW c, CoreOK(c), NEW s \in Slots, s # c.decoding, NEW t \in Listed(c), NEW g \in AllSegments(t)
  PROVE  CoreOK(Collect(c, s, t, g))
<1> DEFINE have == c.slots[s].have \cup {g}
           whole == have = AllSegments(t)
           new == [object |-> t, have |-> have, complete |-> whole]
           b == SetSlot(c, s, new)
           d == Collect(c, s, t, g)
<1>1. c \in Cores /\ CoreInv(c) /\ (c.identityConflict => c.selected = 0)
  BY CoreOKType DEF CoreOK
<1>2. t \in Objects /\ t # 0
  BY <1>1, ListedObjects
<1>3. new \in SlotStates
  <2>1. c.slots[s] \in SlotStates
    BY <1>1 DEF Cores
  <2>2. AllSegments(t) \subseteq Nat
    BY <1>2, EpgAssumption DEF AllSegments
  <2> QED
    BY <1>2, <2>1, <2>2 DEF SlotStates
<1>4. b = [c EXCEPT !.slots[s] = [object |-> t, have |-> @.have \cup {g}, complete |-> whole]]
  BY <1>1, Zenon DEF SetSlot
<1>5. d = IF whole /\ ~c.slots[s].complete /\ c.decoding = 0 THEN StartBody(b, s) ELSE b
  BY <1>4, Zenon DEF Collect
<1>6. new.object = t /\ new.complete = whole
  OBVIOUS
<1> HIDE DEF new, b, d, whole
<1>7. /\ CoreInv(b) /\ b.decoding = c.decoding /\ b.slots[s] = new /\ SameCache(c, b)
      /\ b.identityConflict = c.identityConflict
  BY <1>1, <1>2, <1>3, <1>6, SlotChanged DEF b
<1>8. CoreInv(d) /\ SameCache(b, d) /\ d.identityConflict = b.identityConflict
  <2>1. CASE whole /\ ~c.slots[s].complete /\ c.decoding = 0
    BY <1>5, <1>6, <1>7, <2>1, BodyStarted
  <2>2. CASE ~(whole /\ ~c.slots[s].complete /\ c.decoding = 0)
    BY <1>5, <1>7, <2>2 DEF SameCache
  <2> QED
    BY <2>1, <2>2
<1>9. CoreOK(d)
  BY <1>1, <1>7, <1>8 DEF CoreOK, SameCache
<1> QED
  BY <1>9 DEF d

\* FeedSegment keeps the invariant.
LEMMA SegmentFed ==
  ASSUME NEW c, CoreOK(c), NEW t \in Objects, NEW g \in AllSegments(t)
  PROVE  CoreOK(FeedSegment(c, t, g))
<1> DEFINE mine == {s \in Slots : c.slots[s].object = t}
           open == SlotsOpenTo(c, t)
           pressed == [c EXCEPT !.pressure = TRUE]
           refused == t \notin Listed(c) \/ SeenNow(c, t) \/ ~(RelevantPI(c, t) \/ Object[t].kind = "SI")
<1>1. /\ c \in Cores /\ CoreInv(c) /\ Slotted(c) /\ (c.identityConflict => c.selected = 0)
      /\ Slots \subseteq Nat /\ 0 \notin Slots
  BY CoreOKType DEF CoreOK, Slots
<1>2. FeedSegment(c, t, g) =
        IF refused \/ (mine # {} /\ c.decoding \in mine) THEN c
        ELSE IF mine # {} THEN Collect(c, Min(mine), t, g)
        ELSE IF open = {} THEN pressed ELSE Collect(c, Min(open), t, g)
  BY Zenon DEF FeedSegment
<1>3. CASE refused \/ (mine # {} /\ c.decoding \in mine)
  BY <1>2, <1>3
<1>4. CASE ~refused /\ mine # {} /\ c.decoding \notin mine
  <2>1. mine \subseteq Nat
    BY <1>1
  <2>2. Min(mine) \in mine
    BY <1>4, <2>1, MinOf
  <2> HIDE DEF mine
  <2>3. Min(mine) # c.decoding
    BY <1>4, <2>2
  <2>4. Min(mine) \in Slots
    BY <2>2 DEF mine
  <2> QED
    BY <1>2, <1>4, <2>3, <2>4, SegmentCollected
<1>5. CASE ~refused /\ mine = {} /\ open = {}
  <2>1. /\ pressed \in Cores /\ SameCache(c, pressed) /\ pressed.slots = c.slots
        /\ pressed.decoding = c.decoding /\ pressed.left = c.left
        /\ pressed.identityConflict = c.identityConflict /\ pressed.selected = c.selected
    BY <1>1 DEF Cores, SameCache
  <2>2. FeedSegment(c, t, g) = pressed
    BY <1>2, <1>5
  <2> HIDE DEF pressed
  <2>3. CoreInv(pressed)
    BY <1>1, <2>1, MarksChanged
  <2> QED
    BY <1>1, <2>1, <2>2, <2>3 DEF CoreOK
<1>6. CASE ~refused /\ mine = {} /\ open # {}
  <2>1. open \subseteq {s \in Slots : c.slots[s].object = 0}
    BY DEF SlotsOpenTo
  <2> HIDE DEF open
  <2>2. Min(open) \in open
    BY <1>1, <1>6, <2>1, MinOf
  <2>3. Min(open) \in Slots /\ c.slots[Min(open)].object = 0
    BY <2>1, <2>2
  <2>4. Min(open) # c.decoding
    BY <1>1, <2>3 DEF Slotted
  <2> QED
    BY <1>2, <1>6, <2>3, <2>4, SegmentCollected
<1> QED
  BY <1>3, <1>4, <1>5, <1>6

(* The pump. *)

\* What is decoded next is the next of what the object holds.
LEMMA NextPiece ==
  ASSUME NEW c, NEW t \in Objects, InOrder(c, t), c.left # <<>>
  PROVE  LET all == Object[t].holds
             done == Len(all) - Len(c.left)
         IN /\ done \in Nat /\ Len(all) \in Nat /\ done + 1 \in 1..Len(all)
            /\ Head(c.left) = all[done + 1]
            /\ Tail(c.left) \in Seq(Programmes) \cup Seq(StationNames)
            /\ Len(all) - Len(Tail(c.left)) = done + 1
            /\ \A k \in 1..Len(Tail(c.left)) : Tail(c.left)[k] = all[done + 1 + k]
            /\ t \in PIObjects => Head(c.left) \in Programmes
            /\ t \notin PIObjects => Head(c.left) \in StationNames
<1> DEFINE all == Object[t].holds
           done == Len(all) - Len(c.left)
           rest == Tail(c.left)
<1>1. /\ c.left \in Seq(Programmes) \cup Seq(StationNames) /\ done \in Nat
      /\ \A k \in 1..Len(c.left) : c.left[k] = all[done + k]
  BY DEF InOrder
<1>2. /\ all \in Seq(Programmes) \cup Seq(StationNames)
      /\ t \in PIObjects => all \in Seq(Programmes)
      /\ t \notin PIObjects => all \in Seq(StationNames)
  BY EpgAssumption DEF PIObjects
<1> HIDE DEF all
<1>3. PICK D : c.left \in Seq(D) /\ D \in {Programmes, StationNames}
  BY <1>1
<1>4. /\ Len(c.left) \in Nat /\ Len(c.left) > 0 /\ Head(c.left) = c.left[1] /\ rest \in Seq(D)
      /\ Len(rest) = Len(c.left) - 1 /\ \A k \in 1..Len(rest) : rest[k] = c.left[k + 1]
  <2>1. c.left \in Seq(D) /\ c.left # <<>>
    BY <1>3
  <2> DEFINE left == c.left
  <2>2. /\ Len(left) \in Nat /\ Tail(left) \in Seq(D) /\ Len(Tail(left)) = Len(left) - 1
        /\ \A k \in 1..Len(Tail(left)) : Tail(left)[k] = left[k + 1]
    BY <2>1, HeadTailProperties, LenProperties
  <2>3. Len(left) # 0
    BY <2>1, EmptySeq
  <2>4. Head(left) = left[1]
    BY <2>1
  <2> QED
    BY <2>2, <2>3, <2>4
<1>5. Len(all) \in Nat
  BY <1>2, LenProperties
<1> HIDE DEF rest
<1>6. done + 1 \in 1..Len(all) /\ Head(c.left) = all[done + 1] /\ Len(all) - Len(rest) = done + 1
  <2>1. done + 1 \in 1..Len(all) /\ Len(all) - Len(rest) = done + 1 /\ 1 \in 1..Len(c.left)
    BY <1>1, <1>4, <1>5
  <2>2. c.left[1] = all[done + 1]
    BY <1>1, <2>1
  <2> QED
    BY <1>4, <2>1, <2>2
<1>7. \A k \in 1..Len(rest) : rest[k] = all[done + 1 + k]
  <2> TAKE k \in 1..Len(rest)
  <2>1. k + 1 \in 1..Len(c.left) /\ done + (k + 1) = done + 1 + k
    BY <1>1, <1>4, <1>5
  <2>2. c.left[k + 1] = all[done + (k + 1)]
    BY <1>1, <2>1
  <2> QED
    BY <1>4, <2>1, <2>2
<1>8. /\ t \in PIObjects => all[done + 1] \in Programmes
      /\ t \notin PIObjects => all[done + 1] \in StationNames
  BY <1>2, <1>6, ElementOfSeq
<1>9. rest \in Seq(Programmes) \cup Seq(StationNames)
  BY <1>3, <1>4
<1> QED
  BY <1>1, <1>5, <1>6, <1>7, <1>8, <1>9 DEF all, rest

\* Something is decoded: it is listed, for a selection that is shown.
LEMMA WhatIsDecoded ==
  ASSUME NEW c, CoreInv(c), c.decoding # 0
  PROVE  LET t == c.slots[c.decoding].object
         IN /\ c.decoding \in Slots /\ t \in Objects /\ t \in Listed(c) /\ Shown(c) /\ InOrder(c, t)
<1>1. c \in Cores /\ Slotted(c) /\ (Shown(c) \/ Blank(c)) /\ Progress(c)
  BY DEF CoreInv, Outer, Stored
<1>2. c.decoding \in Slots /\ c.slots[c.decoding].complete
  BY <1>1 DEF Slotted, Cores
<1>3. c.slots[c.decoding].object \in Listed(c)
  BY <1>1, <1>2 DEF Slotted
<1>4. Shown(c)
  BY <1>1, <1>3, ListedObjects DEF Blank
<1> QED
  BY <1>1, <1>2, <1>3, <1>4, ListedObjects DEF Progress

\* ReleaseBody frees a slot, and nothing is decoded.
LEMMA BodyReleased ==
  ASSUME NEW c, CoreInv(c), c.decoding # 0
  PROVE  LET d == ReleaseBody(c)
         IN CoreInv(d) /\ SameCache(c, d) /\ d.identityConflict = c.identityConflict
<1> DEFINE d == ReleaseBody(c)
           new == [c.slots EXCEPT ![c.decoding] = FreeSlot]
<1>1. c \in Cores /\ Outer(c) /\ Slotted(c) /\ (Shown(c) \/ Blank(c)) /\ c.decoding \in Slots
  BY WhatIsDecoded DEF CoreInv, Outer, Stored
<1>2. c.slots \in [Slots -> SlotStates] /\ FreeSlot \in SlotStates
  BY <1>1 DEF Cores, FreeSlot, SlotStates
<1>3. d = [c EXCEPT !.slots = new, !.decoding = 0, !.left = <<>>]
  BY DEF ReleaseBody
<1>4. new \in [Slots -> SlotStates] /\ \A x \in Slots : new[x] \in {FreeSlot, c.slots[x]}
  BY <1>1, <1>2
<1> HIDE DEF new, d
<1>5. SameCache(c, d) /\ d.slots = new /\ d.decoding = 0 /\ d.identityConflict = c.identityConflict
  BY <1>1, <1>3 DEF Cores, SameCache
<1>6. d \in Cores
  <2>1. <<>> \in Seq(Programmes)
    OBVIOUS
  <2> QED
    BY <1>1, <1>3, <1>4, <2>1 DEF Cores
<1>7. Outer(d) /\ Listed(d) = Listed(c) /\ (Shown(c) => Shown(d)) /\ (Blank(c) => Blank(d))
  BY <1>1, <1>5, <1>6, CacheKept
<1>8. Slotted(d)
  BY <1>1, <1>4, <1>5, <1>7 DEF Slotted, SameCache, FreeSlot
<1>9. Progress(d)
  BY <1>5 DEF Progress
<1>10. CoreInv(d)
  BY <1>1, <1>7, <1>8, <1>9 DEF CoreInv
<1> QED
  BY <1>5, <1>10 DEF d

\* An object of which all has been handled counts as received for the context in use.
LEMMA ObjectCompleted ==
  ASSUME NEW c, CoreInv(c), c.decoding # 0, c.left = <<>>
  PROVE  LET d == CompleteObject(c)
         IN CoreInv(d) /\ d.selected = c.selected /\ d.identityConflict = c.identityConflict
<1> DEFINE t == c.slots[c.decoding].object
           b == [c EXCEPT !.seen = c.seen \cup {t}, !.epochOf[t] = c.epoch]
           d == CompleteObject(c)
<1>1. /\ c \in Cores /\ Outer(c) /\ Stored(c) /\ Epochs(c) /\ Recalls(c, LimitedNow(c)) /\ Slotted(c)
  BY DEF CoreInv, Outer, Stored
<1>2. t \in Objects /\ t \in Listed(c) /\ Shown(c) /\ InOrder(c, t)
  BY WhatIsDecoded
<1>3. d = ReleaseBody(b)
  BY DEF CompleteObject
<1> HIDE DEF t
<1>4. /\ b.seen = c.seen \cup {t} /\ b.epochOf = [c.epochOf EXCEPT ![t] = c.epoch]
      /\ b.cache = c.cache /\ b.texts = c.texts /\ b.contexts = c.contexts /\ b.context = c.context
      /\ b.limited = c.limited /\ b.epoch = c.epoch /\ b.nextEpoch = c.nextEpoch
      /\ b.names = c.names /\ b.selected = c.selected /\ b.day = c.day /\ b.directory = c.directory
      /\ b.slots = c.slots /\ b.decoding = c.decoding /\ b.left = c.left
      /\ b.identityConflict = c.identityConflict
  BY <1>1 DEF Cores
<1>5. c.epochOf \in [Objects -> 0..(EpochMod - 1)] /\ c.epoch \in 1..(EpochMod - 1)
  BY <1>1 DEF Cores
<1>6. b.epochOf \in [Objects -> 0..(EpochMod - 1)]
  <2>1. EpochMod \in Nat
    BY EpgAssumption
  <2>2. c.epoch \in 0..(EpochMod - 1)
    BY <1>5, <2>1
  <2> QED
    BY <1>2, <1>4, <1>5, <2>2
<1>7. b \in Cores
  BY <1>1, <1>2, <1>4, <1>6 DEF Cores
<1> HIDE DEF b, d
<1>8. Stored(b)
  BY <1>1, <1>4, <1>7 DEF Stored, PoolOf
<1>9. /\ c.contexts[c.context].valid /\ c.contexts[c.context].bearer = c.selected
      /\ c.contexts[c.context].day = c.day /\ c.contexts[c.context].epoch = c.epoch
      /\ c.context \in ContextIds /\ c.epoch # 0
  BY <1>1, <1>2, <1>5 DEF Shown, Cores
<1>10. Epochs(b)
  <2>1. c.epoch <= c.nextEpoch
    BY <1>1, <1>9 DEF Epochs
  <2>2. \A x \in Objects : b.epochOf[x] <= c.nextEpoch
    BY <1>1, <1>4, <1>5, <2>1 DEF Epochs
  <2> QED
    BY <1>1, <1>4, <2>2 DEF Epochs
<1>11. LimitedNow(b) = LimitedNow(c)
  BY <1>4 DEF LimitedNow
<1>12. Recalls(b, LimitedNow(b))
  <2> SUFFICES ASSUME NEW i \in ContextIds \ LimitedNow(c), NEW x \in b.seen \cap PIObjects,
                      NEW r \in Programmes, r \in Range(Object[x].holds),
                      c.contexts[i].valid, c.contexts[i].epoch # 0, b.epochOf[x] = c.contexts[i].epoch,
                      r.bearer = c.contexts[i].bearer, r.day = c.contexts[i].day
               PROVE  c.names[r.bearer] = Conflicting \/ Knows(Known(c.cache), i, r)
    BY <1>4, <1>11 DEF Recalls
  <2>1. CASE x # t
    <3>1. x \in c.seen \cap PIObjects /\ b.epochOf[x] = c.epochOf[x]
      BY <1>4, <1>5, <2>1 DEF PIObjects
    <3> QED
      BY <1>1, <3>1 DEF Recalls
  <2>2. CASE x = t
    <3>1. c.contexts[i].epoch = c.contexts[c.context].epoch
      BY <1>2, <1>4, <1>5, <1>9, <2>2
    <3>2. i = c.context
      BY <1>1, <1>9, <3>1 DEF Epochs
    <3>3. ~c.limited
      BY <3>2 DEF LimitedNow
    <3>4. PICK k \in DOMAIN Object[t].holds : r = Object[t].holds[k]
      BY <2>2 DEF Range
    <3>5. t \in PIObjects /\ k \in 1..(Len(Object[t].holds) - Len(c.left))
      <4>1. Object[t].holds \in Seq(Programmes) \cup Seq(StationNames)
        BY <1>2, EpgAssumption
      <4>2. DOMAIN Object[t].holds = 1..Len(Object[t].holds) /\ Len(Object[t].holds) \in Nat
        BY <4>1, LenProperties
      <4>3. Len(c.left) = 0
        OBVIOUS
      <4> QED
        BY <2>2, <4>2, <4>3
    <3>6. Handled(c, r)
      BY <1>2, <3>4, <3>5 DEF InOrder
    <3> QED
      BY <1>9, <3>2, <3>3, <3>6 DEF Handled
  <2> QED
    BY <2>1, <2>2
<1>13. Slotted(b)
  BY <1>1, <1>2, <1>4 DEF Slotted, Listed
<1>14. Progress(b)
  <2>1. \A r : Handled(c, r) => Handled(b, r)
    BY <1>4 DEF Handled
  <2>2. InOrder(b, t)
    BY <1>2, <1>4, <2>1 DEF InOrder
  <2> QED
    BY <1>4, <2>2 DEF Progress, t
<1>15. Shown(b)
  BY <1>2, <1>4 DEF Shown
<1>16. CoreInv(b)
  BY <1>8, <1>10, <1>12, <1>13, <1>14, <1>15 DEF CoreInv, Outer
<1>17. CoreInv(d) /\ SameCache(b, d) /\ d.identityConflict = b.identityConflict
  BY <1>3, <1>4, <1>16, BodyReleased
<1> QED
  BY <1>4, <1>17 DEF SameCache, d

\* A programme is taken over, or left for a reason.
LEMMA ProgrammePumped ==
  ASSUME NEW c, CoreOK(c), c.decoding # 0, c.left # <<>>, c.slots[c.decoding].object \in PIObjects
  PROVE  LET rest == [c EXCEPT !.left = Tail(c.left)]
         IN CoreOK(CacheProgramme(rest, Head(c.left)))
<1> DEFINE t == c.slots[c.decoding].object
           all == Object[t].holds
           done == Len(all) - Len(c.left)
           b == [c EXCEPT !.left = Tail(c.left)]
           p == Head(c.left)
           d == CacheProgramme(b, p)
<1>1. /\ c \in Cores /\ CoreInv(c) /\ Stored(c) /\ Epochs(c) /\ Recalls(c, LimitedNow(c)) /\ Outer(c)
      /\ Slotted(c) /\ (c.identityConflict => c.selected = 0)
  BY CoreOKType DEF CoreOK, Outer
<1>2. t \in Objects /\ t \in PIObjects /\ Shown(c) /\ InOrder(c, t)
  BY <1>1, WhatIsDecoded
<1> HIDE DEF t
<1>3. /\ done \in Nat /\ Len(all) \in Nat /\ p = all[done + 1] /\ p \in Programmes
      /\ Tail(c.left) \in Seq(Programmes) \cup Seq(StationNames)
      /\ Len(all) - Len(Tail(c.left)) = done + 1
      /\ \A k \in 1..Len(Tail(c.left)) : Tail(c.left)[k] = all[done + 1 + k]
  BY <1>2, NextPiece
<1>4. /\ SameCache(c, b) /\ b.left = Tail(c.left) /\ b.slots = c.slots /\ b.decoding = c.decoding
      /\ b.identityConflict = c.identityConflict
  BY <1>1 DEF Cores, SameCache
<1>5. b \in Cores
  BY <1>1, <1>3 DEF Cores
<1> HIDE DEF b
<1>6. Outer(b) /\ Listed(b) = Listed(c) /\ Shown(b) /\ \A r : Handled(c, r) => Handled(b, r)
  BY <1>1, <1>2, <1>4, <1>5, CacheKept
<1>7. Stored(b) /\ Epochs(b) /\ Recalls(b, LimitedNow(b))
  BY <1>6 DEF Outer
<1> HIDE DEF p, d, all
<1>8. /\ Stored(d) /\ OnlyCache(b, d) /\ Retains(b, d)
      /\ \E S \in SUBSET OthersOf(b) : LeavesOut(b, d, S)
      /\ b.limited => d.limited
      /\ p.bearer = b.selected /\ p.day = b.day /\ ~Ambiguous(b) =>
           d.limited \/ Knows(Known(d.cache), b.context, p)
  BY <1>3, <1>6, <1>7, ProgrammeCached DEF d
<1>9. /\ d.seen = b.seen /\ d.epochOf = b.epochOf /\ d.names = b.names /\ d.context = b.context
      /\ d.selected = b.selected /\ d.day = b.day /\ d.epoch = b.epoch /\ d.nextEpoch = b.nextEpoch
      /\ d.directory = b.directory /\ d.slots = b.slots /\ d.decoding = b.decoding
      /\ d.left = b.left /\ d.identityConflict = b.identityConflict
  BY <1>5, <1>8 DEF OnlyCache, Cores
<1>10. PICK S \in SUBSET OthersOf(b) : LeavesOut(b, d, S)
  BY <1>8
<1>11. \A i \in ContextIds : d.contexts[i] = IF i \in S THEN EmptyContext ELSE b.contexts[i]
  BY <1>10 DEF LeavesOut
<1>12. b.context \notin S /\ b.context \in ContextIds
  BY <1>5, <1>10 DEF OthersOf, Cores
<1>13. Epochs(d)
  <2>1. b.nextEpoch \in 1..(EpochMod - 1)
    BY <1>5 DEF Cores
  <2>2. EmptyContext.epoch = 0 /\ ~EmptyContext.valid
    BY DEF EmptyContext
  <2>3. \A i \in ContextIds : d.contexts[i].epoch <= d.nextEpoch
    BY <1>7, <1>9, <1>11, <2>1, <2>2 DEF Epochs
  <2>4. \A i \in ContextIds : d.contexts[i].valid => d.contexts[i] = b.contexts[i]
    BY <1>11, <2>2
  <2> QED
    BY <1>7, <1>9, <2>3, <2>4 DEF Epochs
<1>14. KeepsKnowing(b, d, LimitedNow(b), LimitedNow(d))
  <2> SUFFICES ASSUME NEW i \in ContextIds \ LimitedNow(d), d.contexts[i].valid
               PROVE  /\ i \notin LimitedNow(b) /\ d.contexts[i] = b.contexts[i]
                      /\ \A r \in Programmes : Knows(Known(b.cache), i, r) => Knows(Known(d.cache), i, r)
    BY <1>9 DEF KeepsKnowing
  <2>1. d.contexts[i] = b.contexts[i]
    BY <1>11 DEF EmptyContext
  <2>2. i \notin LimitedNow(b)
    BY <1>8, <1>9, <2>1 DEF LimitedNow
  <2>3. ~(i = b.context /\ d.limited)
    BY <1>9 DEF LimitedNow
  <2> QED
    BY <1>8, <2>1, <2>2, <2>3 DEF Retains
<1>15. Outer(d)
  BY <1>7, <1>8, <1>13, <1>14, StillRecalled DEF Outer
<1>16. Shown(d)
  BY <1>6, <1>9, <1>11, <1>12 DEF Shown
<1>17. Slotted(d)
  BY <1>1, <1>4, <1>6, <1>9 DEF Slotted, SameCache, Listed
<1>18. b.contexts[b.context].valid /\ d.contexts[b.context].valid
  BY <1>6, <1>11, <1>12 DEF Shown
<1>19. ASSUME NEW r \in Programmes, Handled(b, r)
       PROVE  Handled(d, r)
  <2>1. Knows(Known(b.cache), b.context, r) => Knows(Known(d.cache), b.context, r) \/ d.limited
    BY <1>8, <1>12, <1>18 DEF Retains
  <2> QED
    BY <1>8, <1>9, <1>19, <2>1 DEF Handled
<1>20. Handled(d, p)
  <2> SUFFICES ASSUME p.bearer = b.selected, p.day = b.day, b.names[p.bearer] # Conflicting
               PROVE  d.limited \/ Knows(Known(d.cache), b.context, p)
    BY <1>9 DEF Handled
  <2>1. p.bearer \in Stations /\ p.bearer # 0
    BY <1>3, EpgAssumption DEF Programmes
  <2>2. ~Ambiguous(b)
    BY <1>1, <1>4, <2>1 DEF Ambiguous, SameCache
  <2> QED
    BY <1>8, <2>2
<1>21. InOrder(d, t)
  <2>1. \A k \in 1..done : all[k] \in Programmes
    <3>1. all \in Seq(Programmes)
      BY <1>2, EpgAssumption DEF PIObjects, all
    <3>2. done \in Nat /\ Len(c.left) \in Nat
      <4>1. c.left \in Seq(Programmes) \cup Seq(StationNames)
        BY <1>1 DEF Cores
      <4> QED
        BY <1>3, <4>1, LenProperties
    <3> QED
      BY <1>3, <3>1, <3>2, ElementOfSeq
  <2>2. \A k \in 1..done : Handled(d, all[k])
    BY <1>2, <1>6, <1>19, <2>1 DEF InOrder, all
  <2>3. \A k \in 1..(done + 1) : Handled(d, all[k])
    <3> HIDE DEF done
    <3> TAKE k \in 1..(done + 1)
    <3>1. k \in 1..done \/ k = done + 1
      BY <1>3
    <3> QED
      BY <1>3, <1>20, <2>2, <3>1
  <2>4. d.left = Tail(c.left) /\ done + 1 \in Nat
    BY <1>3, <1>4, <1>9
  <2> HIDE DEF done
  <2> QED
    BY <1>3, <2>3, <2>4 DEF InOrder, all
<1>22. Progress(d)
  BY <1>4, <1>9, <1>21 DEF Progress, t
<1>23. CoreInv(d)
  BY <1>15, <1>16, <1>17, <1>22 DEF CoreInv
<1> QED
  BY <1>1, <1>4, <1>9, <1>23 DEF CoreOK, SameCache, d, b, p

\* A name is taken over, or makes the station ambiguous.
LEMMA NamePumped ==
  ASSUME NEW c, CoreOK(c), c.decoding # 0, c.left # <<>>, c.slots[c.decoding].object \notin PIObjects
  PROVE  LET rest == [c EXCEPT !.left = Tail(c.left)]
         IN CoreOK(NameService(rest, Head(c.left)))
<1> DEFINE t == c.slots[c.decoding].object
           all == Object[t].holds
           done == Len(all) - Len(c.left)
           n == Head(c.left)
           name == IF c.names[n.bearer] \in {Unnamed, n.name} THEN n.name ELSE Conflicting
           names == [c.names EXCEPT ![n.bearer] = name]
           d == NameService([c EXCEPT !.left = Tail(c.left)], n)
<1>1. /\ c \in Cores /\ CoreInv(c) /\ Stored(c) /\ Epochs(c) /\ Recalls(c, LimitedNow(c)) /\ Outer(c)
      /\ Slotted(c) /\ (c.identityConflict => c.selected = 0)
  BY CoreOKType DEF CoreOK, Outer
<1>2. t \in Objects /\ t \notin PIObjects /\ Shown(c) /\ InOrder(c, t)
  BY <1>1, WhatIsDecoded
<1> HIDE DEF t
<1>3. /\ done \in Nat /\ Len(all) \in Nat /\ n \in StationNames
      /\ Tail(c.left) \in Seq(Programmes) \cup Seq(StationNames)
      /\ Len(all) - Len(Tail(c.left)) = done + 1
      /\ \A k \in 1..Len(Tail(c.left)) : Tail(c.left)[k] = all[done + 1 + k]
  BY <1>2, NextPiece
<1> HIDE DEF n, all
<1>4. d = [c EXCEPT !.left = Tail(c.left), !.names = names]
  BY <1>1 DEF NameService, Cores
<1>5. c.names \in [Stations -> STRING \cup {Unnamed, Conflicting}] /\ n.bearer \in Stations /\ n.name \in STRING
  BY <1>1, <1>3 DEF Cores, StationNames
<1>6. names \in [Stations -> STRING \cup {Unnamed, Conflicting}]
  BY <1>5
<1>7. \A b \in Stations : c.names[b] = Conflicting => names[b] = Conflicting
  <2>1. Unnamed # Conflicting
    BY DEF Unnamed, Conflicting
  <2> QED
    BY <1>5, <2>1
<1> HIDE DEF names
<1>8. /\ d.seen = c.seen /\ d.epochOf = c.epochOf /\ d.names = names /\ d.context = c.context
      /\ d.selected = c.selected /\ d.day = c.day /\ d.epoch = c.epoch /\ d.nextEpoch = c.nextEpoch
      /\ d.directory = c.directory /\ d.slots = c.slots /\ d.decoding = c.decoding
      /\ d.left = Tail(c.left) /\ d.identityConflict = c.identityConflict
      /\ d.cache = c.cache /\ d.texts = c.texts /\ d.contexts = c.contexts /\ d.limited = c.limited
  BY <1>1, <1>4 DEF Cores
<1>9. d \in Cores
  BY <1>1, <1>3, <1>4, <1>6 DEF Cores
<1> HIDE DEF d
<1>10. Stored(d)
  BY <1>1, <1>8, <1>9 DEF Stored, PoolOf
<1>11. Epochs(d)
  BY <1>1, <1>8 DEF Epochs
<1>12. Recalls(d, LimitedNow(d))
  <2>1. LimitedNow(d) = LimitedNow(c)
    BY <1>8 DEF LimitedNow
  <2>2. \A r \in Programmes : r.bearer \in Stations
    BY DEF Programmes
  <2> QED
    BY <1>1, <1>7, <1>8, <2>1, <2>2 DEF Recalls
<1>13. Shown(d)
  BY <1>2, <1>8 DEF Shown
<1>14. Slotted(d)
  BY <1>1, <1>8 DEF Slotted, Listed
<1>15. InOrder(d, t)
  <2>1. done + 1 \in Nat
    BY <1>3
  <2> QED
    BY <1>2, <1>3, <1>8, <2>1 DEF InOrder, all
<1>16. Progress(d)
  BY <1>8, <1>15 DEF Progress, t
<1>17. CoreInv(d)
  BY <1>10, <1>11, <1>12, <1>13, <1>14, <1>16 DEF CoreInv, Outer
<1> QED
  BY <1>1, <1>8, <1>17 DEF CoreOK, d, n

\* Pump keeps the invariant.
LEMMA Pumped ==
  ASSUME NEW c, CoreOK(c)
  PROVE  CoreOK(Pump(c))
<1> DEFINE ready == {s \in Slots : c.slots[s].complete}
           t == c.slots[c.decoding].object
           rest == [c EXCEPT !.left = Tail(c.left)]
<1>1. c \in Cores /\ CoreInv(c) /\ (c.identityConflict => c.selected = 0) /\ Slots \subseteq Nat
  BY CoreOKType DEF CoreOK, Slots
<1>2. rest = [c EXCEPT !.left = Tail(@)]
  OBVIOUS
<1>3. CASE c.decoding = 0 /\ ready = {}
  <2>1. Pump(c) = c
    BY <1>3 DEF Pump
  <2> QED
    BY <2>1
<1>4. CASE c.decoding = 0 /\ ready # {}
  <2>1. Pump(c) = StartBody(c, Min(ready))
    BY <1>4 DEF Pump
  <2>2. Min(ready) \in ready
    <3>1. ready \subseteq Nat
      BY <1>1
    <3> HIDE DEF ready
    <3> QED
      BY <1>4, <3>1, MinOf
  <2>3. Min(ready) \in Slots /\ c.slots[Min(ready)].complete
    BY <2>2
  <2> HIDE DEF ready
  <2>4. LET d == StartBody(c, Min(ready))
        IN CoreInv(d) /\ SameCache(c, d) /\ d.identityConflict = c.identityConflict
    BY <1>1, <1>4, <2>3, BodyStarted
  <2> QED
    BY <1>1, <2>1, <2>4 DEF CoreOK, SameCache
<1>5. CASE c.decoding # 0 /\ ~Object[t].valid
  <2>1. Pump(c) = ReleaseBody(c)
    BY <1>5 DEF Pump
  <2> QED
    BY <1>1, <1>5, <2>1, BodyReleased DEF CoreOK, SameCache
<1>6. CASE c.decoding # 0 /\ Object[t].valid /\ c.left = <<>>
  <2>1. Pump(c) = CompleteObject(c)
    BY <1>6 DEF Pump
  <2> QED
    BY <1>1, <1>6, <2>1, ObjectCompleted DEF CoreOK
<1>7. CASE c.decoding # 0 /\ Object[t].valid /\ c.left # <<>>
  <2>1. Pump(c) = IF t \in PIObjects THEN CacheProgramme(rest, Head(c.left))
                  ELSE NameService(rest, Head(c.left))
    BY <1>2, <1>7, Zenon DEF Pump
  <2>2. CASE t \in PIObjects
    BY <1>7, <2>1, <2>2, ProgrammePumped
  <2>3. CASE t \notin PIObjects
    BY <1>7, <2>1, <2>3, NamePumped
  <2> QED
    BY <2>2, <2>3
<1> QED
  BY <1>3, <1>4, <1>5, <1>6, <1>7

(* The store as a whole. *)

StoreInv ==
  /\ CoreOK(core)
  /\ tuned \in Stations \cup {0} /\ carousel \in DOMAIN Carousels
  /\ clock \in 0..LastDay /\ epgEvents \in 0..MaxEpgEvents

\* The store starts blank.
LEMMA StoreInvInit == EpgInit => StoreInv
<1> SUFFICES ASSUME EpgInit
             PROVE  StoreInv
  OBVIOUS
<1>1. /\ core.directory = 0 /\ core.selected = 0 /\ core.seen = {} /\ core.identityConflict = FALSE
      /\ core.cache = {} /\ core.texts = <<>> /\ core.contexts = [i \in ContextIds |-> EmptyContext]
      /\ core.epochOf = [t \in Objects |-> 0] /\ core.slots = [s \in Slots |-> FreeSlot]
      /\ core.decoding = 0
  BY DEF EpgInit
<1>2. core \in Cores
  <2>1. /\ NumContexts \in Nat /\ NumContexts > 1 /\ EpochMod \in Nat /\ EpochMod > 2
    BY EpgAssumption
  <2>2. 1 \in ContextIds /\ 1 \in 1..(EpochMod - 1)
    BY <2>1 DEF ContextIds
  <2>3. EmptyContext \in ContextStates /\ FreeSlot \in SlotStates
    <3>1. 0 \in 0..(EpochMod - 1)
      BY <2>1
    <3> QED
      BY <3>1 DEF EmptyContext, ContextStates, FreeSlot, SlotStates
  <2>4. /\ [i \in ContextIds |-> EmptyContext] \in [ContextIds -> ContextStates]
        /\ [s \in Slots |-> FreeSlot] \in [Slots -> SlotStates]
    BY <2>3
  <2>5. {} \subseteq Entries /\ <<>> \in Seq(Texts) /\ <<>> \in Seq(Programmes)
    OBVIOUS
  <2> QED
    BY <2>2, <2>4, <2>5, InitialMarks DEF EpgInit, Cores
<1>3. Outer(core)
  BY <1>1, <1>2, NothingStored
<1>4. Slotted(core)
  BY <1>1 DEF Slotted, FreeSlot
<1>5. CoreOK(core)
  BY <1>1, <1>3, <1>4 DEF CoreOK, CoreInv, Blank, Progress
<1>6. 1 \in DOMAIN Carousels
  <2>1. Carousels \in Seq(SUBSET Objects) /\ Carousels # <<>>
    BY EpgAssumption
  <2>2. Len(Carousels) \in Nat /\ Len(Carousels) # 0 /\ DOMAIN Carousels = 1..Len(Carousels)
    BY <2>1, EmptySeq, LenProperties
  <2> QED
    BY <2>2
<1>7. 0 \in 0..LastDay /\ 0 \in 0..MaxEpgEvents
  BY EpgAssumption
<1> QED
  BY <1>5, <1>6, <1>7 DEF EpgInit, StoreInv

\* Apply of LiveContext is LiveContext.
LEMMA LiveApplied ==
  \A c, b, day : Apply(LAMBDA d : LiveContext(d, b, day), c) = LiveContext(c, b, day)
BY Zenon DEF Apply

\* The pump and then the service that is tuned.
LEMMA PollKeeps ==
  ASSUME StoreInv, EpgPoll
  PROVE  CoreOK(core')
<1>1. CoreOK(Pump(core))
  BY Pumped DEF StoreInv
<1>2. CASE tuned = 0
  BY <1>1, <1>2 DEF EpgPoll
<1>3. CASE tuned # 0
  <2>1. core' = LiveContext(Pump(core), tuned, clock)
    BY <1>3, LiveApplied, Zenon DEF EpgPoll
  <2>2. tuned \in Stations /\ clock \in Nat
    BY <1>3, EpgAssumption DEF StoreInv
  <2>3. CoreInv(Pump(core))
    BY <1>1 DEF CoreOK
  <2> QED
    BY <2>1, <2>2, <2>3, ContextIsLive
<1> QED
  BY <1>2, <1>3

\* A slot that nothing is decoded from is freed.
LEMMA FreeingKeeps ==
  ASSUME StoreInv, NEW s \in Slots, FreeSlotOf(s)
  PROVE  CoreOK(core')
<1>1. CoreOK(core) /\ CoreInv(core) /\ core \in Cores
  BY CoreOKType DEF StoreInv
<1>2. core' = SetSlot(core, s, FreeSlot) /\ s # core.decoding
  BY DEF FreeSlotOf, SetSlot
<1>3. FreeSlot \in SlotStates /\ FreeSlot.object = 0 /\ ~FreeSlot.complete
  BY DEF FreeSlot, SlotStates
<1>4. /\ CoreInv(core') /\ SameCache(core, core')
      /\ core'.identityConflict = core.identityConflict
  BY <1>1, <1>2, <1>3, SlotChanged
<1> QED
  BY <1>1, <1>4 DEF CoreOK, SameCache

\* Every action keeps the invariant.
LEMMA StoreInvStep == StoreInv /\ [EpgNext]_epgVars => StoreInv'
<1> SUFFICES ASSUME StoreInv, [EpgNext]_epgVars
             PROVE  StoreInv'
  OBVIOUS
<1>1. CoreOK(core) /\ core \in Cores
  BY CoreOKType DEF StoreInv
<1>2. EpgEvent => epgEvents' \in 0..MaxEpgEvents
  BY EpgAssumption DEF EpgEvent, StoreInv
<1>3. CoreOK(ResetLive(core))
  BY <1>1, LiveReset
<1>4. ASSUME NEW t \in Objects, NEW g \in AllSegments(t), ReceiveObject(t, g)
      PROVE  StoreInv'
  <2>1. CoreOK(core')
    BY <1>1, <1>4, SegmentFed DEF ReceiveObject
  <2> QED
    BY <1>4, <2>1 DEF ReceiveObject, StoreInv
<1>5. CASE ReceiveDirectory
  <2>1. carousel \in 1..Len(Carousels)
    BY EpgAssumption, LenProperties DEF StoreInv
  <2>2. CoreOK(core')
    BY <1>1, <1>5, <2>1, DirectoryTaken DEF ReceiveDirectory
  <2> QED
    BY <1>5, <2>2 DEF ReceiveDirectory, StoreInv
<1>6. CASE EpgPoll
  <2>1. CoreOK(core')
    BY <1>6, PollKeeps
  <2> QED
    BY <1>6, <2>1 DEF EpgPoll, StoreInv
<1>7. ASSUME NEW s \in Slots, ExpireSlot(s) \/ LoseReception(s)
      PROVE  StoreInv'
  <2>1. CoreOK(core')
    BY <1>7, FreeingKeeps DEF ExpireSlot, LoseReception
  <2> QED
    BY <1>2, <1>7, <2>1 DEF ExpireSlot, LoseReception, FreeSlotOf, StoreInv
<1>8. ASSUME NEW b \in Stations \cup {0}, ChangeStation(b)
      PROVE  StoreInv'
  <2>1. CoreOK(core')
    BY <1>1, <1>3, <1>8 DEF ChangeStation
  <2> QED
    BY <1>2, <1>8, <2>1 DEF ChangeStation, StoreInv
<1>9. CASE ChangeEndpoint
  BY <1>2, <1>3, <1>9 DEF ChangeEndpoint, StoreInv
<1>10. ASSUME NEW delta \in {-1, 1, -core.browse}, Browse(delta)
       PROVE  StoreInv'
  <2>1. delta \in Int
    <3>1. core.browse \in (-MaxBrowse)..MaxBrowse
      BY <1>1 DEF Cores
    <3> QED
      BY <3>1, EpgAssumption
  <2>2. CoreOK(core')
    BY <1>1, <1>10, <2>1, DayBrowsed DEF Browse
  <2> QED
    BY <1>2, <1>10, <2>2 DEF Browse, StoreInv
<1>11. ASSUME NEW day \in 0..LastDay, ChangeClock(day)
       PROVE  StoreInv'
  BY <1>2, <1>11 DEF ChangeClock, StoreInv
<1>12. CASE ChangeCarousel
  <2>1. carousel' \in DOMAIN Carousels
    <3>1. Len(Carousels) \in Nat /\ DOMAIN Carousels = 1..Len(Carousels)
      BY EpgAssumption, LenProperties
    <3> QED
      BY <1>12, <3>1 DEF ChangeCarousel, StoreInv
  <2> QED
    BY <1>2, <1>12, <2>1 DEF ChangeCarousel, StoreInv
<1>13. CASE UNCHANGED epgVars
  BY <1>13 DEF epgVars, StoreInv
<1> QED
  BY <1>4, <1>5, <1>6, <1>7, <1>8, <1>9, <1>10, <1>11, <1>12, <1>13 DEF EpgNext

\* The invariant holds the types.
LEMMA StoreTypes == StoreInv => EpgTypeOK
<1> SUFFICES ASSUME StoreInv
             PROVE  EpgTypeOK
  OBVIOUS
<1>1. CoreOK(core) /\ core \in Cores /\ Stored(core) /\ Slotted(core)
  BY CoreOKType DEF StoreInv
<1>2. Cardinality(core.cache) <= MaxProgrammes /\ Len(core.texts) <= TextSize
  BY <1>1 DEF Stored, PoolOf
<1>3. \A i \in ContextIds : core.contexts[i].epoch \in 0..(EpochMod - 1)
  BY <1>1, CoreTypes
<1>4. /\ core.directory \in 0..Len(Carousels) /\ core.selected \in Stations \cup {0}
      /\ core.context \in ContextIds /\ core.epoch \in 1..(EpochMod - 1)
      /\ core.nextEpoch \in 1..(EpochMod - 1) /\ core.decoding \in Slots \cup {0}
      /\ core.browse \in -MaxBrowse..MaxBrowse
  BY <1>1 DEF Cores
<1> QED
  BY <1>1, <1>2, <1>3, <1>4 DEF Slotted, StoreInv, EpgTypeOK

\* The invariant holds what is promised.
LEMMA StoreShows == StoreInv => GuideAsBroadcast
<1> SUFFICES ASSUME StoreInv
             PROVE  SeenIsShown /\ TextsOfTheirProgramme
  BY DEF GuideAsBroadcast
<1>1. /\ core \in Cores /\ CoreInv(core) /\ Stored(core) /\ core.seen \subseteq Listed(core)
      /\ Recalls(core, LimitedNow(core))
  BY CoreOKType DEF StoreInv, Outer
<1>2. SeenIsShown
  <2> SUFFICES ASSUME NEW t \in core.seen \cap PIObjects, SeenNow(core, t), ~core.limited,
                      ~Ambiguous(core), NEW p \in Range(Object[t].holds),
                      p.bearer = core.selected, p.day = core.day
               PROVE  \E q \in View(core) : q.id = p.id /\ q.day = p.day /\ q.version >= p.version
    BY DEF SeenIsShown
  <2>1. Shown(core)
    <3>1. Listed(core) # {}
      BY <1>1
    <3> QED
      BY <1>1, <3>1, ListedObjects DEF CoreInv, Blank
  <2>2. /\ core.context \in ContextIds /\ core.contexts[core.context].valid
        /\ core.contexts[core.context].bearer = core.selected
        /\ core.contexts[core.context].day = core.day
        /\ core.contexts[core.context].epoch = core.epoch /\ core.epoch # 0
    BY <1>1, <2>1 DEF Shown, Cores
  <2>3. core.context \notin LimitedNow(core)
    BY DEF LimitedNow
  <2>4. p \in Programmes
    <3>1. Object[t].holds \in Seq(Programmes)
      BY EpgAssumption DEF PIObjects
    <3>2. PICK k \in DOMAIN Object[t].holds : p = Object[t].holds[k]
      BY DEF Range
    <3> QED
      BY <3>1, <3>2, LenProperties, ElementOfSeq
  <2>5. core.names[p.bearer] # Conflicting
    BY <2>4, EpgAssumption DEF Programmes, Ambiguous
  <2>6. Knows(Known(core.cache), core.context, p)
    BY <1>1, <2>2, <2>3, <2>4, <2>5 DEF Recalls, SeenNow
  <2>7. PICK v \in Nat : <<core.context, p.id, p.day, v>> \in Known(core.cache) /\ v >= p.version
    BY <2>6 DEF Knows
  <2>8. PICK q \in core.cache : <<core.context, p.id, p.day, v>> = <<q.context, q.id, q.day, q.version>>
    BY <2>7 DEF Known
  <2>9. q \in View(core) /\ q.id = p.id /\ q.day = p.day /\ q.version >= p.version
    BY <2>7, <2>8 DEF View
  <2> QED
    BY <2>9
<1>3. Pool(core.cache, core.texts, core.contexts) /\ Titled(core.cache)
  BY <1>1 DEF Stored, PoolOf
<1>4. ASSUME NEW p \in core.cache
      PROVE  LET in == core.contexts[p.context]
                 from == [bearer |-> in.bearer, id |-> p.id, day |-> p.day, version |-> p.version]
                 Holds(offset, part) == offset \in DOMAIN core.texts /\ core.texts[offset] = Text(from, part)
             IN /\ in.valid /\ in.day = p.day
                /\ Holds(p.title, "title")
                /\ p.description # 0 => Holds(p.description, "description")
  <2>1. DOMAIN core.texts = 1..Len(core.texts)
    BY <1>3, LenProperties DEF Pool
  <2> QED
    BY <1>3, <2>1 DEF Pool, Titled, Placed, HasTexts, ProgrammeOf
<1>5. UNION {Refers(p) : p \in core.cache} = DOMAIN core.texts
  <2>1. DOMAIN core.texts = 1..Len(core.texts)
    BY <1>3, LenProperties DEF Pool
  <2>2. \A p \in core.cache : Refers(p) \subseteq 1..Len(core.texts)
    BY <1>3 DEF Pool, HasTexts, Refers
  <2>3. \A n \in 1..Len(core.texts) : \E p \in core.cache : n \in Refers(p)
    BY <1>3 DEF Pool
  <2> QED
    BY <2>1, <2>2, <2>3
<1> QED
  BY <1>2, <1>4, <1>5 DEF TextsOfTheirProgramme

\* The variables of the store stay in their ranges, and what the guide shows is what was
\* broadcast: in EpgSpec the store runs alone, with fairness that does not matter here.
THEOREM StoreIsAsBroadcast == EpgSpec => [](EpgTypeOK /\ GuideAsBroadcast)
<1>1. EpgInit => StoreInv
  BY StoreInvInit
<1>2. StoreInv /\ [EpgNext]_epgVars => StoreInv'
  BY StoreInvStep
<1>3. StoreInv => EpgTypeOK /\ GuideAsBroadcast
  BY StoreTypes, StoreShows
<1> QED
  BY <1>1, <1>2, <1>3, PTL DEF EpgSpec

-----------------------------------------------------------------------------
(* The two halves. *)

\* Each half keeps its own invariant, and the other one does nothing.
LEMMA HalvesAlways == GuideSpec => [](half \in {"Probe", "Store"} /\ ProbeInductive /\ StoreInv)
<1> DEFINE Halves == half \in {"Probe", "Store"} /\ ProbeInductive /\ StoreInv
<1>1. GuideInit => Halves
  BY ProbeInvInit, StoreInvInit DEF GuideInit
<1>2. Halves /\ [GuideNext]_guideVars => Halves'
  <2> SUFFICES ASSUME Halves, [GuideNext]_guideVars
               PROVE  Halves'
    OBVIOUS
  <2>1. CASE OnlyProbe /\ Next
    <3>1. [Next]_vars /\ [EpgNext]_epgVars /\ half' = half
      BY <2>1 DEF OnlyProbe
    <3> QED
      BY <3>1, ProbeInvStep, StoreInvStep
  <2>2. CASE OnlyStore /\ EpgNext
    <3>1. [Next]_vars /\ [EpgNext]_epgVars /\ half' = half
      BY <2>2 DEF OnlyStore
    <3> QED
      BY <3>1, ProbeInvStep, StoreInvStep
  <2>3. CASE UNCHANGED guideVars
    <3>1. [Next]_vars /\ [EpgNext]_epgVars /\ half' = half
      BY <2>3 DEF guideVars
    <3> QED
      BY <3>1, ProbeInvStep, StoreInvStep
  <2> QED
    BY <2>1, <2>2, <2>3 DEF GuideNext
<1> QED
  BY <1>1, <1>2, PTL DEF GuideSpec

\* Every variable of the probe and of the store stays in its range.
THEOREM GuideTypeCorrect == GuideSpec => []GuideTypeOK
<1>1. half \in {"Probe", "Store"} /\ ProbeInductive /\ StoreInv => GuideTypeOK
  BY StoreTypes DEF GuideTypeOK, ProbeInductive
<1> QED
  BY <1>1, HalvesAlways, PTL

\* An object that counts as received is on show, unless the guide says that something is
\* missing, and a programme has the texts that were broadcast with it.
THEOREM GuideIsAsBroadcast == GuideSpec => []GuideAsBroadcast
<1>1. StoreInv => GuideAsBroadcast
  BY StoreShows
<1> QED
  BY <1>1, HalvesAlways, PTL
=============================================================================
