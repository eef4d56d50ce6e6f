--------------------------- MODULE Stores_proofs ---------------------------
(***************************************************************************)
(* For any keys, sizes and budget: the artifact store counts its bytes     *)
(* exactly, stays within its budget and gives up nothing that is pinned.   *)
(* For any number of processes, pieces of a file and calls: while no two   *)
(* processes are at work at once, a file that has its name is whole, stays *)
(* so whatever stops half-way, and every load of it is a hit.              *)
(***************************************************************************)
EXTENDS Stores, FiniteSetTheorems, WellFoundedInduction, TLAPS

(* The entries of a store, and the bytes that are counted for them.        *)
Entry ==
  [size : Nat, format : Formats, pinned : BOOLEAN, evicted : BOOLEAN,
   recency : Nat]

EntriesOK(es) ==
  /\ IsFiniteSet(DOMAIN es) /\ DOMAIN es \subseteq Keys
  /\ es \in [DOMAIN es -> Entry]

Counted(es, bytes) ==
  /\ IsFiniteSet(StoredBytes(es))
  /\ bytes = Cardinality(StoredBytes(es))

StoreInv ==
  /\ EntriesOK(entries) /\ clock \in Nat
  /\ Counted(entries, used)
  /\ used <= Budget

(* The bytes of one key, and of the others.                                *)
SizeAt(es, k) == IF k \in Materialized(es) THEN es[k].size ELSE 0

BytesAt(es, k) == {k} \X (1..SizeAt(es, k))

BytesBut(es, k) ==
  UNION {{j} \X (1..es[j].size) : j \in Materialized(es) \ {k}}

(* A set of naturals has a least element.                                  *)
LEMMA SmallestOf ==
  ASSUME NEW T, T \subseteq Nat, T # {}
  PROVE  \E m \in T : \A n \in T : m <= n
<1> DEFINE Below == {0..n : n \in T}
<1>1. Below \subseteq FiniteSubsetsOf(Nat) /\ Below # {}
  <2>1. ASSUME NEW n \in T
        PROVE  0..n \subseteq Nat /\ IsFiniteSet(0..n)
    BY FS_Interval
  <2> QED  BY <2>1 DEF FiniteSubsetsOf
<1>2. PICK B \in Below :
        \A C \in Below : <<C, B>> \notin StrictSubsetOrdering(Nat)
  <2> HIDE DEF Below
  <2> QED
    BY <1>1, FS_StrictSubsetOrderingWellFounded, WFMin
<1>3. PICK m \in T : B = 0..m
  OBVIOUS
<1>4. ASSUME NEW n \in T, n < m
      PROVE  FALSE
  <2>1. 0..n \in Below /\ 0..n \subseteq 0..m /\ m \notin 0..n /\ m \in 0..m
    BY <1>4
  <2>2. 0..n \subseteq Nat /\ 0..m \subseteq Nat
    OBVIOUS
  <2>3. <<0..n, 0..m>> \in StrictSubsetOrdering(Nat)
    BY <2>1, <2>2 DEF StrictSubsetOrdering
  <2> QED  BY <1>2, <1>3, <2>1, <2>3
<1> QED  BY <1>4

LEMMA BytesOfKey ==
  ASSUME NEW k, NEW n \in Nat
  PROVE  /\ IsFiniteSet({k} \X (1..n))
         /\ Cardinality({k} \X (1..n)) = n
<1>1. IsFiniteSet({k}) /\ Cardinality({k}) = 1
  BY FS_Singleton
<1>2. IsFiniteSet(1..n) /\ Cardinality(1..n) = n
  BY FS_Interval
<1>3. /\ IsFiniteSet({k} \X (1..n))
      /\ Cardinality({k} \X (1..n)) = Cardinality({k}) * Cardinality(1..n)
  BY <1>1, <1>2, FS_Product, Zenon
<1> QED  BY <1>1, <1>2, <1>3

(* The bytes of a store are those of one key and those of the others.      *)
LEMMA Apart ==
  ASSUME NEW es, EntriesOK(es), NEW k
  PROVE  /\ StoredBytes(es) = BytesBut(es, k) \union BytesAt(es, k)
         /\ BytesBut(es, k) \intersect BytesAt(es, k) = {}
         /\ SizeAt(es, k) \in Nat
<1>1. SizeAt(es, k) \in Nat
  BY DEF SizeAt, EntriesOK, Entry, Materialized
<1>2. StoredBytes(es) = BytesBut(es, k) \union BytesAt(es, k)
  <2>1. CASE k \in Materialized(es)
    <3>1. BytesAt(es, k) = {k} \X (1..es[k].size)
      BY <2>1 DEF BytesAt, SizeAt
    <3> QED  BY <2>1, <3>1 DEF StoredBytes, BytesBut
  <2>2. CASE k \notin Materialized(es)
    <3>1. BytesAt(es, k) = {}
      BY <2>2 DEF BytesAt, SizeAt
    <3> QED  BY <2>2, <3>1 DEF StoredBytes, BytesBut
  <2> QED  BY <2>1, <2>2
<1>3. BytesBut(es, k) \intersect BytesAt(es, k) = {}
  BY DEF BytesBut, BytesAt
<1> QED  BY <1>1, <1>2, <1>3

(* When one key changes, the count changes by what it had and has.         *)
LEMMA Recounted ==
  ASSUME NEW es, NEW new, NEW k, NEW bytes,
         EntriesOK(es), EntriesOK(new), Counted(es, bytes),
         DOMAIN new \ {k} = DOMAIN es \ {k},
         \A j \in DOMAIN es \ {k} : /\ new[j].size = es[j].size
                                    /\ new[j].evicted = es[j].evicted
  PROVE  /\ Counted(new, (bytes - SizeAt(es, k)) + SizeAt(new, k))
         /\ bytes - SizeAt(es, k) \in Nat
<1>1. BytesBut(new, k) = BytesBut(es, k)
  <2>1. Materialized(new) \ {k} = Materialized(es) \ {k}
    BY DEF Materialized
  <2>2. \A j \in Materialized(es) \ {k} : new[j].size = es[j].size
    BY DEF Materialized
  <2> QED  BY <2>1, <2>2 DEF BytesBut
<1> DEFINE R == BytesBut(es, k)  A == BytesAt(es, k)  B == BytesAt(new, k)
<1>2. /\ StoredBytes(es) = R \union A /\ R \intersect A = {}
      /\ SizeAt(es, k) \in Nat
  BY Apart
<1>3. /\ StoredBytes(new) = R \union B /\ R \intersect B = {}
      /\ SizeAt(new, k) \in Nat
  BY Apart, <1>1
<1>4. /\ IsFiniteSet(A) /\ Cardinality(A) = SizeAt(es, k)
      /\ IsFiniteSet(B) /\ Cardinality(B) = SizeAt(new, k)
  BY <1>2, <1>3, BytesOfKey DEF BytesAt
<1> HIDE DEF R, A, B
<1>5. IsFiniteSet(R)
  BY <1>2, FS_Subset DEF Counted
<1>6. Cardinality(R) \in Nat
  BY <1>5, FS_CardinalityType
<1>7. Cardinality(R \intersect A) = 0 /\ Cardinality(R \intersect B) = 0
  BY <1>2, <1>3, FS_EmptySet
<1>8. Cardinality(R \union A) =
        Cardinality(R) + Cardinality(A) - Cardinality(R \intersect A)
  BY <1>4, <1>5, FS_Union, Zenon
<1>9. /\ IsFiniteSet(R \union B)
      /\ Cardinality(R \union B) =
           Cardinality(R) + Cardinality(B) - Cardinality(R \intersect B)
  BY <1>4, <1>5, FS_Union, Zenon
<1>10. bytes = Cardinality(R \union A)
  BY <1>2 DEF Counted
<1>11. bytes = Cardinality(R) + SizeAt(es, k)
  BY <1>2, <1>4, <1>6, <1>7, <1>8, <1>10
<1>12. Cardinality(R \union B) = Cardinality(R) + SizeAt(new, k)
  BY <1>3, <1>4, <1>6, <1>7, <1>9
<1>13. Counted(new, Cardinality(R) + SizeAt(new, k))
  BY <1>3, <1>9, <1>12 DEF Counted
<1>14. (bytes - SizeAt(es, k)) + SizeAt(new, k) =
         Cardinality(R) + SizeAt(new, k)
  BY <1>2, <1>3, <1>6, <1>11
<1> QED  BY <1>2, <1>6, <1>11, <1>13, <1>14

-----------------------------------------------------------------------------
(* What an eviction leaves as it is, and how far it has come.              *)
Keeps(es, new) ==
  /\ EntriesOK(new) /\ DOMAIN new = DOMAIN es
  /\ \A k \in DOMAIN es :
       \/ new[k] = es[k]
       \/ ~es[k].pinned /\ ~es[k].evicted /\ new[k].evicted

(* The store after n victims, if so many were needed.                      *)
Reached(es, n, s) ==
  /\ Keeps(es, s.entries) /\ Counted(s.entries, s.used)
  /\ \/ s.used <= Budget
     \/ Cardinality(Victims(s.entries)) + n <= Cardinality(DOMAIN es)

(* The least recently used victim is one.                                  *)
LEMMA OldestIs ==
  ASSUME NEW es, EntriesOK(es), Victims(es) # {}
  PROVE  \E k \in Victims(es) : \A j \in Victims(es) :
           es[k].recency <= es[j].recency
<1> DEFINE T == {es[k].recency : k \in Victims(es)}
<1>1. T \subseteq Nat /\ T # {}
  BY DEF EntriesOK, Entry, Victims, Materialized
<1>2. PICK m \in T : \A n \in T : m <= n
  <2> HIDE DEF T
  <2> QED  BY <1>1, SmallestOf
<1> QED  BY <1>2

LEMMA EvictKeeps ==
  ASSUME NEW es, NEW s, NEW n \in Nat, EntriesOK(es), StoreAssumption,
         Reached(es, n, s), n < Cardinality(DOMAIN es)
  PROVE  Reached(es, n + 1, EvictOldest(s))
<1> DEFINE free == Victims(s.entries)
           oldest == CHOOSE k \in free : \A j \in free :
                       s.entries[k].recency <= s.entries[j].recency
           new == [s.entries EXCEPT ![oldest].evicted = TRUE,
                                    ![oldest].size = 0]
<1>1. /\ EntriesOK(s.entries) /\ DOMAIN s.entries = DOMAIN es
      /\ Counted(s.entries, s.used) /\ Cardinality(DOMAIN es) \in Nat
      /\ s.used \in Nat /\ Budget \in Nat
  BY FS_CardinalityType
     DEF Reached, Keeps, EntriesOK, Counted, StoreAssumption
<1>2. IsFiniteSet(free) /\ Cardinality(free) \in Nat
  <2>1. free \subseteq DOMAIN s.entries
    BY DEF Victims, Materialized
  <2> QED  BY <1>1, <2>1, FS_Subset, FS_CardinalityType DEF EntriesOK
<1>3. CASE s.used <= Budget
  <2>1. EvictOldest(s) = s
    BY <1>3 DEF EvictOldest
  <2> QED  BY <1>3, <2>1 DEF Reached
<1>4. CASE free = {}
  <2>1. EvictOldest(s) = s
    BY <1>4 DEF EvictOldest
  <2>2. Cardinality(free) = 0
    BY <1>4, FS_EmptySet
  <2>3. Cardinality(free) + (n + 1) <= Cardinality(DOMAIN es)
    BY <1>1, <2>2
  <2> QED  BY <2>1, <2>3 DEF Reached
<1>5. CASE ~(s.used <= Budget) /\ free # {}
  <2>1. /\ oldest \in free
        /\ EvictOldest(s) = [entries |-> new,
                            used |-> s.used - s.entries[oldest].size]
    <3>1. \E k \in free : \A j \in free :
             s.entries[k].recency <= s.entries[j].recency
      BY <1>1, <1>5, OldestIs
    <3>2. oldest \in free
      BY <3>1
    <3> QED  BY <1>5, <3>2 DEF EvictOldest
  <2> HIDE DEF oldest
  <2>2. /\ oldest \in DOMAIN s.entries /\ ~s.entries[oldest].evicted
        /\ ~s.entries[oldest].pinned
    BY <2>1 DEF Victims, Materialized
  <2>3. /\ DOMAIN new = DOMAIN s.entries
        /\ new[oldest].evicted /\ new[oldest].size = 0
        /\ \A k \in DOMAIN s.entries : k # oldest => new[k] = s.entries[k]
        /\ EntriesOK(new)
    <3> DEFINE e == [s.entries[oldest] EXCEPT !.evicted = TRUE, !.size = 0]
    <3>1. s.entries[oldest] \in Entry
      BY <1>1, <2>2 DEF EntriesOK
    <3>2. e \in Entry /\ e.evicted /\ e.size = 0
      BY <3>1 DEF Entry
    <3>3. new = [s.entries EXCEPT ![oldest] = e]
      BY <1>1, <2>2 DEF EntriesOK
    <3> HIDE DEF e, new
    <3>4. /\ DOMAIN new = DOMAIN s.entries /\ new[oldest] = e
          /\ \A k \in DOMAIN s.entries : k # oldest => new[k] = s.entries[k]
      BY <1>1, <2>2, <3>3 DEF EntriesOK
    <3>5. new \in [DOMAIN new -> Entry]
      BY <1>1, <2>2, <3>2, <3>3 DEF EntriesOK
    <3> QED  BY <1>1, <3>2, <3>4, <3>5 DEF EntriesOK
  <2> HIDE DEF new
  <2>4. Keeps(es, new)
    BY <1>1, <2>2, <2>3 DEF Reached, Keeps
  <2>5. Counted(new, s.used - s.entries[oldest].size)
    <3>1. /\ SizeAt(s.entries, oldest) = s.entries[oldest].size
          /\ SizeAt(new, oldest) = 0
      BY <2>2, <2>3 DEF SizeAt, Materialized
    <3>2. /\ Counted(new, (s.used - SizeAt(s.entries, oldest))
                            + SizeAt(new, oldest))
          /\ s.used - SizeAt(s.entries, oldest) \in Nat
      <4>1. \A j \in DOMAIN s.entries \ {oldest} :
               /\ new[j].size = s.entries[j].size
               /\ new[j].evicted = s.entries[j].evicted
        BY <2>3
      <4> QED  BY <1>1, <2>3, <4>1, Recounted
    <3>3. (s.used - SizeAt(s.entries, oldest)) + SizeAt(new, oldest) =
            s.used - s.entries[oldest].size
      BY <3>1, <3>2
    <3> QED  BY <3>2, <3>3
  <2>6. s.used # 0 /\ Cardinality(free) + n <= Cardinality(DOMAIN es)
    BY <1>1, <1>5 DEF Reached
  <2>7. Cardinality(Victims(new)) = Cardinality(free) - 1
    <3>1. Victims(new) = free \ {oldest}
      BY <2>1, <2>3 DEF Victims, Materialized
    <3> QED  BY <1>2, <2>1, <3>1, FS_RemoveElement
  <2>8. Cardinality(Victims(new)) + (n + 1) <= Cardinality(DOMAIN es)
    BY <1>1, <1>2, <2>6, <2>7
  <2> QED  BY <2>1, <2>4, <2>5, <2>8 DEF Reached
<1> QED  BY <1>3, <1>4, <1>5

-----------------------------------------------------------------------------
(* The chain of evictions of a store, as far as m.                         *)
ChainTo(m, f, es, bytes) ==
  f = [n \in 0..m |-> IF n = 0 THEN [entries |-> es, used |-> bytes]
                      ELSE EvictOldest(f[n - 1])]

LEMMA ChainExists ==
  ASSUME NEW es, NEW bytes, NEW m \in Nat
  PROVE  \E f : ChainTo(m, f, es, bytes)
<1> DEFINE T == {n \in Nat : ~\E f : ChainTo(n, f, es, bytes)}
<1>1. SUFFICES ASSUME T # {} PROVE FALSE
  OBVIOUS
<1>2. PICK n \in T : \A j \in T : n <= j
  <2>1. T \subseteq Nat
    OBVIOUS
  <2> HIDE DEF T
  <2> QED  BY <1>1, <2>1, SmallestOf
<1>3. n \in Nat /\ ~\E f : ChainTo(n, f, es, bytes)
  OBVIOUS
<1> DEFINE start == [entries |-> es, used |-> bytes]
<1>4. CASE n = 0
  <2> DEFINE f == [i \in 0..0 |-> start]
  <2>1. f = [i \in 0..0 |-> IF i = 0 THEN start ELSE EvictOldest(f[i - 1])]
    <3>1. \A i \in 0..0 : i = 0
      OBVIOUS
    <3> QED  BY <3>1, Zenon
  <2>2. ChainTo(0, f, es, bytes)
    BY <2>1 DEF ChainTo
  <2> QED  BY <1>3, <1>4, <2>2
<1>5. CASE n # 0
  <2>1. n - 1 \in Nat /\ ~(n <= n - 1)
    BY <1>3, <1>5
  <2>2. PICK f : ChainTo(n - 1, f, es, bytes)
    BY <1>2, <2>1
  <2> DEFINE g == [i \in 0..n |->
                     IF i < n THEN f[i] ELSE EvictOldest(f[n - 1])]
  <2>3. ASSUME NEW i \in 0..n
        PROVE  g[i] = IF i = 0 THEN start ELSE EvictOldest(g[i - 1])
    <3>1. CASE i < n
      <4>1. i \in 0..(n - 1) /\ (i # 0 => i - 1 \in 0..n /\ i - 1 < n)
        BY <1>3, <3>1
      <4>2. g[i] = f[i] /\ (i # 0 => g[i - 1] = f[i - 1])
        BY <3>1, <4>1
      <4>3. f[i] = IF i = 0 THEN start ELSE EvictOldest(f[i - 1])
        BY <2>2, <4>1 DEF ChainTo
      <4> HIDE DEF g, start
      <4> QED  BY <4>2, <4>3
    <3>2. CASE i = n
      <4>1. n - 1 \in 0..n /\ n - 1 < n /\ ~(n < n) /\ i # 0
        BY <1>3, <1>5, <3>2
      <4>2. g[i] = EvictOldest(f[n - 1]) /\ g[n - 1] = f[n - 1]
        BY <3>2, <4>1
      <4> HIDE DEF g, start
      <4> QED  BY <3>2, <4>1, <4>2
    <3> QED  BY <1>3, <3>1, <3>2
  <2>4. ChainTo(n, g, es, bytes)
    <3>1. g = [i \in 0..n |-> g[i]]
      OBVIOUS
    <3> HIDE DEF g
    <3> QED  BY <2>3, <3>1, Zenon DEF ChainTo
  <2> QED  BY <1>3, <2>4
<1> QED  BY <1>4, <1>5

(* After as many victims as there are entries, the bytes fit or every      *)
(* entry that has its data is pinned.                                      *)
LEMMA EvictedKeeps ==
  ASSUME NEW es, NEW bytes, EntriesOK(es), Counted(es, bytes),
         StoreAssumption
  PROVE  LET s == Evicted(es, bytes) IN
         /\ Keeps(es, s.entries) /\ Counted(s.entries, s.used)
         /\ s.used <= Budget \/ Victims(s.entries) = {}
<1> DEFINE N == Cardinality(DOMAIN es)
           f == CHOOSE g : ChainTo(N, g, es, bytes)
<1>1. N \in Nat
  BY FS_CardinalityType DEF EntriesOK
<1>2. ChainTo(N, f, es, bytes)
  BY <1>1, ChainExists, Zenon
<1>3. Evicted(es, bytes) = f[N]
  BY Zenon DEF Evicted, ChainTo
<1> HIDE DEF N, f
<1>4. f[0] = [entries |-> es, used |-> bytes]
  BY <1>1, <1>2 DEF ChainTo
<1>5. \A n \in 0..N : n # 0 => f[n] = EvictOldest(f[n - 1])
  BY <1>1, <1>2 DEF ChainTo
<1>6. Reached(es, 0, f[0])
  <2>1. Keeps(es, es)
    BY DEF Keeps
  <2>2. Cardinality(Victims(es)) \in Nat /\ Cardinality(Victims(es)) <= N
    <3>1. Victims(es) \subseteq DOMAIN es
      BY DEF Victims, Materialized
    <3> QED  BY <3>1, FS_Subset, FS_CardinalityType DEF EntriesOK, N
  <2>3. Cardinality(Victims(es)) + 0 <= Cardinality(DOMAIN es)
    BY <1>1, <2>2 DEF N
  <2> QED  BY <1>4, <2>1, <2>3 DEF Reached
<1> DEFINE T == {n \in 0..N : ~Reached(es, n, f[n])}
<1>7. T = {}
  <2>1. SUFFICES ASSUME T # {} PROVE FALSE
    OBVIOUS
  <2>2. PICK n \in T : \A j \in T : n <= j
    <3>1. T \subseteq Nat
      BY <1>1
    <3> HIDE DEF T
    <3> QED  BY <2>1, <3>1, SmallestOf
  <2>3. n \in 0..N /\ n # 0 /\ ~Reached(es, n, f[n])
    BY <1>6
  <2>4. n - 1 \in 0..N /\ n - 1 \in Nat /\ n - 1 < N /\ ~(n <= n - 1)
        /\ (n - 1) + 1 = n
    BY <1>1, <2>3
  <2>5. Reached(es, n - 1, f[n - 1])
    BY <2>2, <2>4
  <2>6. Reached(es, (n - 1) + 1, EvictOldest(f[n - 1]))
    BY <2>4, <2>5, EvictKeeps DEF N
  <2>7. Reached(es, n, EvictOldest(f[n - 1]))
    BY <2>4, <2>6
  <2> QED  BY <1>5, <2>3, <2>7
<1>8. Reached(es, N, f[N])
  BY <1>1, <1>7
<1>9. Victims(f[N].entries) = {} \/ f[N].used <= Budget
  <2>1. Keeps(es, f[N].entries)
    BY <1>8 DEF Reached
  <2>2. IsFiniteSet(Victims(f[N].entries))
    <3>1. Victims(f[N].entries) \subseteq DOMAIN f[N].entries
      BY DEF Victims, Materialized
    <3> QED  BY <2>1, <3>1, FS_Subset DEF Keeps, EntriesOK
  <2>3. CASE Cardinality(Victims(f[N].entries)) + N <= N
    <3>1. Cardinality(Victims(f[N].entries)) = 0
      BY <1>1, <2>2, <2>3, FS_CardinalityType
    <3> QED  BY <2>2, <3>1, FS_EmptySet
  <2> QED  BY <1>8, <2>3 DEF Reached, N
<1> QED  BY <1>3, <1>8, <1>9 DEF Reached

-----------------------------------------------------------------------------
(* A new entry, and the evictions it needs: the bytes fit, since what is   *)
(* pinned was there before, and no other pinned entry is touched.          *)
PinnedKept(es, new, named) ==
  \A k \in DOMAIN es :
    es[k].pinned /\ ~es[k].evicted /\ k \notin named
    => k \in DOMAIN new /\ new[k] = es[k]

LEMMA PutLemma ==
  ASSUME StoreInv, StoreAssumption, NEW k \in Keys, NEW extent \in Sizes,
         NEW format \in Formats, Put(k, extent, format)
  PROVE  StoreInv' /\ PinnedKept(entries, entries', answer'.keys)
<1> DEFINE entry == [size |-> extent, format |-> format, pinned |-> FALSE,
                     evicted |-> FALSE, recency |-> clock + 1]
           es == With(entries, k, entry)
           bytes == used - Freed(k) + extent
           after == Evicted(es, bytes)
<1>1. CASE extent > Budget
  <2>1. UNCHANGED <<entries, used, clock>>
    BY <1>1 DEF Put
  <2> QED  BY <2>1 DEF StoreInv, PinnedKept, Counted, EntriesOK
<1>2. CASE ~(extent > Budget)
  <2>1. /\ clock' = clock + 1 /\ answer'.keys = {k}
        /\ entries' = after.entries /\ used' = after.used
    BY <1>2 DEF Put
  <2>2. /\ EntriesOK(entries) /\ Counted(entries, used) /\ clock \in Nat
        /\ used \in Nat /\ used <= Budget /\ Budget \in Nat /\ extent \in Nat
    BY FS_CardinalityType DEF StoreInv, Counted, StoreAssumption
  <2>3. entry \in Entry
    BY <2>2 DEF Entry
  <2>4. entry.size = extent /\ ~entry.evicted /\ ~entry.pinned
    OBVIOUS
  <2> HIDE DEF entry
  <2>5. /\ DOMAIN es = DOMAIN entries \union {k} /\ es[k] = entry
        /\ \A j \in DOMAIN entries : j # k => es[j] = entries[j]
    BY DEF With
  <2>6. EntriesOK(es)
    <3>1. IsFiniteSet(DOMAIN entries \union {k})
      BY <2>2, FS_AddElement DEF EntriesOK
    <3>2. es \in [DOMAIN es -> Entry]
      BY <2>2, <2>3 DEF EntriesOK, With
    <3> QED  BY <2>2, <2>5, <3>1, <3>2 DEF EntriesOK
  <2> HIDE DEF es
  <2>7. Counted(es, bytes)
    <3>1. SizeAt(entries, k) = Freed(k) /\ SizeAt(es, k) = extent
      BY <2>4, <2>5 DEF SizeAt, Freed, Has, Materialized
    <3>2. DOMAIN es \ {k} = DOMAIN entries \ {k}
      BY <2>5
    <3>3. \A j \in DOMAIN entries \ {k} :
             /\ es[j].size = entries[j].size
             /\ es[j].evicted = entries[j].evicted
      BY <2>5
    <3>4. Counted(es, (used - SizeAt(entries, k)) + SizeAt(es, k))
      BY <2>2, <2>6, <3>2, <3>3, Recounted
    <3> QED  BY <3>1, <3>4
  <2> HIDE DEF bytes
  <2>8. /\ Keeps(es, after.entries) /\ Counted(after.entries, after.used)
        /\ after.used <= Budget \/ Victims(after.entries) = {}
    BY <2>6, <2>7, EvictedKeeps
  <2> HIDE DEF after
  <2>9. PinnedKept(entries, entries', answer'.keys)
    BY <2>1, <2>5, <2>8 DEF PinnedKept, Keeps
  <2>10. after.used <= Budget
    <3>1. SUFFICES ASSUME Victims(after.entries) = {}
                   PROVE  after.used <= Budget
      BY <2>8
    <3>2. ASSUME NEW j \in Materialized(after.entries)
          PROVE  j \in Materialized(entries)
                 /\ after.entries[j].size = entries[j].size
      <4>1. j \in DOMAIN es /\ after.entries[j].pinned
            /\ ~after.entries[j].evicted
        BY <2>8, <3>1, <3>2 DEF Keeps, Victims, Materialized
      <4>2. after.entries[j] = es[j]
        BY <2>8, <4>1 DEF Keeps
      <4>3. j # k
        BY <2>4, <2>5, <4>1, <4>2
      <4> QED  BY <2>5, <4>1, <4>2, <4>3 DEF Materialized
    <3>3. StoredBytes(after.entries) \subseteq StoredBytes(entries)
      BY <3>2 DEF StoredBytes
    <3>4. Cardinality(StoredBytes(after.entries))
            <= Cardinality(StoredBytes(entries))
      BY <2>2, <3>3, FS_Subset DEF Counted
    <3>5. after.used <= used /\ after.used \in Nat
      BY <2>2, <2>8, <3>4, FS_CardinalityType DEF Counted
    <3> QED  BY <2>2, <3>5
  <2>11. EntriesOK(entries') /\ Counted(entries', used')
    BY <2>1, <2>8 DEF Keeps
  <2>12. clock' \in Nat /\ used' <= Budget
    BY <2>1, <2>2, <2>10
  <2> QED  BY <2>9, <2>11, <2>12 DEF StoreInv, EntriesOK, Counted,
             StoredBytes, Materialized
<1> QED  BY <1>1, <1>2

(* One key changes its recency or its pin.                                 *)
LEMMA TouchLemma ==
  ASSUME StoreInv, NEW k \in DOMAIN entries, NEW e \in Entry,
         e.size = entries[k].size, e.evicted = entries[k].evicted,
         entries' = [entries EXCEPT ![k] = e], used' = used, clock' \in Nat,
         answer'.keys = {k}
  PROVE  StoreInv' /\ PinnedKept(entries, entries', answer'.keys)
<1>1. /\ DOMAIN entries' = DOMAIN entries /\ entries'[k] = e
      /\ \A j \in DOMAIN entries : j # k => entries'[j] = entries[j]
      /\ EntriesOK(entries')
  BY DEF StoreInv, EntriesOK
<1>2. PinnedKept(entries, entries', answer'.keys)
  BY <1>1 DEF PinnedKept
<1>3. Materialized(entries') = Materialized(entries)
  BY <1>1 DEF Materialized
<1>4. \A j \in DOMAIN entries : entries'[j].size = entries[j].size
  BY <1>1
<1>5. StoredBytes(entries') = StoredBytes(entries)
  BY <1>3, <1>4 DEF StoredBytes, Materialized
<1> QED  BY <1>1, <1>2, <1>5 DEF StoreInv, EntriesOK, Counted, StoredBytes,
           Materialized

LEMMA GetLemma ==
  ASSUME StoreInv, NEW k \in Keys, NEW format \in Formats, Get(k, format)
  PROVE  StoreInv' /\ PinnedKept(entries, entries', answer'.keys)
<1>1. CASE GetError(k, format) \in {"ok", "format_mismatch"}
  <2>1. /\ clock' = clock + 1 /\ used' = used /\ answer'.keys = {k}
        /\ entries' = [entries EXCEPT ![k].recency = clock + 1]
    BY <1>1 DEF Get
  <2>2. k \in DOMAIN entries
    BY <1>1 DEF GetError, Has
  <2> DEFINE e == [entries[k] EXCEPT !.recency = clock + 1]
  <2>3. entries[k] \in Entry /\ clock \in Nat
    BY <2>2 DEF StoreInv, EntriesOK
  <2>4. /\ e \in Entry /\ e.size = entries[k].size
        /\ e.evicted = entries[k].evicted
    BY <2>3 DEF Entry
  <2>5. entries' = [entries EXCEPT ![k] = e]
    BY <2>1
  <2>6. clock' \in Nat
    BY <2>1, <2>3
  <2> HIDE DEF e
  <2> QED  BY <2>1, <2>2, <2>4, <2>5, <2>6, TouchLemma
<1>2. CASE GetError(k, format) \notin {"ok", "format_mismatch"}
  <2>1. UNCHANGED <<entries, used, clock>>
    BY <1>2 DEF Get
  <2> QED  BY <2>1 DEF StoreInv, PinnedKept, Counted, EntriesOK
<1> QED  BY <1>1, <1>2

LEMMA SetPinLemma ==
  ASSUME StoreInv, NEW k \in Keys, NEW pinned \in BOOLEAN, SetPin(k, pinned)
  PROVE  StoreInv' /\ PinnedKept(entries, entries', answer'.keys)
<1> DEFINE e == [entries[k] EXCEPT !.pinned = pinned]
<1>1. /\ k \in DOMAIN entries /\ entries[k] \in Entry
      /\ clock' \in Nat /\ used' = used /\ answer'.keys = {k}
  BY DEF SetPin, Has, StoreInv, EntriesOK
<1>2. /\ e \in Entry /\ e.size = entries[k].size
      /\ e.evicted = entries[k].evicted
  BY <1>1 DEF Entry
<1>3. entries' = [entries EXCEPT ![k] = e]
  BY DEF SetPin
<1> HIDE DEF e
<1> QED  BY <1>1, <1>2, <1>3, TouchLemma

LEMMA EraseLemma ==
  ASSUME StoreInv, StoreAssumption, NEW k \in Keys, Erase(k)
  PROVE  StoreInv' /\ PinnedKept(entries, entries', answer'.keys)
<1>1. /\ entries' = Without(entries, k) /\ used' = used - Freed(k)
      /\ answer'.keys = {k} /\ clock' = clock
  BY DEF Erase
<1>2. /\ DOMAIN entries' = DOMAIN entries \ {k}
      /\ \A j \in DOMAIN entries \ {k} : entries'[j] = entries[j]
  BY <1>1 DEF Without
<1>3. EntriesOK(entries')
  <2>1. IsFiniteSet(DOMAIN entries \ {k})
    BY FS_RemoveElement, FS_Subset DEF StoreInv, EntriesOK
  <2>2. entries' \in [DOMAIN entries' -> Entry]
    BY <1>1, <1>2 DEF StoreInv, EntriesOK, Without
  <2> QED  BY <1>2, <2>1, <2>2 DEF StoreInv, EntriesOK
<1>4. SizeAt(entries, k) = Freed(k) /\ SizeAt(entries', k) = 0
  BY <1>2 DEF SizeAt, Freed, Has, Materialized
<1>5. /\ Counted(entries', (used - SizeAt(entries, k)) + SizeAt(entries', k))
      /\ used - SizeAt(entries, k) \in Nat
  <2>1. DOMAIN entries' \ {k} = DOMAIN entries \ {k}
    BY <1>2
  <2> QED  BY <1>2, <1>3, <2>1, Recounted DEF StoreInv
<1>6. /\ Counted(entries', used') /\ used' <= used
      /\ used' \in Nat /\ used \in Nat
  <2>1. SizeAt(entries, k) \in Nat /\ used \in Nat
    BY Apart, FS_CardinalityType DEF StoreInv, Counted
  <2> QED  BY <1>1, <1>4, <1>5, <2>1
<1>7. used' <= Budget /\ clock' \in Nat
  BY <1>1, <1>6 DEF StoreInv, StoreAssumption
<1>8. PinnedKept(entries, entries', answer'.keys)
  BY <1>1, <1>2 DEF PinnedKept
<1> QED  BY <1>3, <1>6, <1>7, <1>8 DEF StoreInv, EntriesOK, Counted,
           StoredBytes, Materialized

LEMMA EmptyOK ==
  ASSUME StoreAssumption
  PROVE  LET es == [k \in {} |-> 0] IN
         EntriesOK(es) /\ Counted(es, 0) /\ 0 <= Budget
<1> DEFINE es == [k \in {} |-> 0]
<1>1. DOMAIN es = {} /\ es \in [DOMAIN es -> Entry]
  OBVIOUS
<1>2. StoredBytes(es) = {}
  BY <1>1 DEF StoredBytes, Materialized
<1> HIDE DEF es
<1>3. EntriesOK(es) /\ Counted(es, 0)
  BY <1>1, <1>2, FS_EmptySet DEF EntriesOK, Counted
<1> QED  BY <1>3 DEF es, StoreAssumption

LEMMA StoreInitLemma == StoreAssumption /\ StoreInit => StoreInv
BY EmptyOK DEF StoreInit, StoreInv

LEMMA StoreNextLemma ==
  ASSUME StoreInv, StoreAssumption, StoreNext
  PROVE  StoreInv' /\ PinnedKept(entries, entries', answer'.keys)
<1>1. CASE Clear
  <2>1. StoreInv'
    BY <1>1, EmptyOK DEF Clear, StoreInv, EntriesOK, Counted, StoredBytes,
       Materialized
  <2>2. PinnedKept(entries, entries', answer'.keys)
    BY <1>1 DEF Clear, StoreInv, EntriesOK, PinnedKept
  <2> QED  BY <2>1, <2>2
<1>2. CASE \E k \in Keys :
             \/ \E s \in Sizes, format \in Formats : Put(k, s, format)
             \/ \E format \in Formats : Get(k, format)
             \/ \E pinned \in BOOLEAN : SetPin(k, pinned)
             \/ Erase(k)
  BY <1>2, PutLemma, GetLemma, SetPinLemma, EraseLemma
<1> QED  BY <1>1, <1>2 DEF StoreNext

-----------------------------------------------------------------------------
(* The index cache.                                                        *)
Places == {"idle", "store", "write", "remove", "again", "load", "size",
           "open", "read", "dead"}

CacheTyped ==
  /\ inodes \in Seq(Nat)
  /\ path \in 0..Len(inodes) /\ tmp \in 0..Len(inodes)
  /\ pc \in [Processes -> Places]
  /\ hand \in [Processes -> Nat]
  /\ wrote \in [Processes -> Nat]
  /\ \A p \in Processes : pc[p] = "write" => hand[p] \in 1..Len(inodes)

(* Before two processes have been at work at once, there is one at most.   *)
OneAtATime ==
  ~shared => \A p, q \in Processes : Busy(p) /\ Busy(q) => p = q

(* Then the temporary name is of the file that is written, which has what  *)
(* its writer has written, and is never the published one; a rename never  *)
(* lacks its file, so that the fallback is not reached.                    *)
NamesApart ==
  ~shared =>
    /\ path # 0 => inodes[path] = Pieces /\ tmp # path
    /\ stored => path # 0
    /\ \A p \in Processes :
         /\ pc[p] \notin {"remove", "again"}
         /\ pc[p] = "write" =>
              tmp # 0 /\ hand[p] = tmp /\ inodes[tmp] = wrote[p]
         /\ pc[p] \in {"size", "open", "read"} => path # 0

IInv == CacheTyped /\ OneAtATime /\ NamesApart

-----------------------------------------------------------------------------
LEMMA InitLemma == CacheInit => IInv
BY DEF CacheInit, IInv, CacheTyped, OneAtATime, NamesApart, Busy, Places

(* What every step of a process does to "shared".                          *)
Shares ==
  shared' = (shared \/ \E p, q \in Processes :
                           p # q /\ Busy(p)' /\ Busy(q)')

LEMMA OneLemma == Shares => OneAtATime'
BY DEF Shares, OneAtATime

(* While a process that is at work goes on, no other is.                   *)
LEMMA AloneLemma ==
  ASSUME IInv, Shares, ~shared', NEW p \in Processes, Busy(p),
         NEW q \in Processes, q # p
  PROVE  ~shared /\ ~Busy(q)
BY DEF IInv, OneAtATime, Shares

-----------------------------------------------------------------------------
(* A call begins: nothing else changes.                                    *)
LEMMA CallLemma ==
  ASSUME IInv, Shares, NEW p \in Processes, NEW at \in {"store", "load"},
         Call(p, at)
  PROVE  CacheTyped' /\ NamesApart'
<1>1. /\ pc' = [pc EXCEPT ![p] = at]
      /\ UNCHANGED <<inodes, path, tmp, hand, wrote, stored>>
  BY DEF Call, Goto, Files
<1>2. CacheTyped'
  BY <1>1 DEF IInv, CacheTyped, Places
<1>3. NamesApart'
  BY <1>1 DEF IInv, CacheTyped, NamesApart, Shares
<1> QED  BY <1>2, <1>3

(* The temporary file is made, or found and emptied: the file that has its *)
(* name is another one.                                                    *)
LEMMA OpenTmpLemma ==
  ASSUME IInv, Shares, NEW p \in Processes, OpenTmp(p)
  PROVE  CacheTyped' /\ NamesApart'
<1>1. /\ pc[p] = "store" /\ pc' = [pc EXCEPT ![p] = "write"]
      /\ wrote' = [wrote EXCEPT ![p] = 0]
      /\ UNCHANGED <<path, stored>>
  BY DEF OpenTmp, Goto
<1>2. CASE tmp = 0 /\ tmp' # 0
  <2>1. /\ inodes' = Append(inodes, 0) /\ tmp' = Len(inodes) + 1
        /\ hand' = [hand EXCEPT ![p] = Len(inodes) + 1]
    BY <1>2 DEF OpenTmp
  <2>2. /\ inodes' \in Seq(Nat) /\ Len(inodes') = Len(inodes) + 1
        /\ inodes'[tmp'] = 0 /\ Len(inodes) \in Nat
        /\ \A k \in 1..Len(inodes) : inodes'[k] = inodes[k]
    BY <2>1 DEF IInv, CacheTyped
  <2>3. CacheTyped'
    BY <1>1, <2>1, <2>2 DEF IInv, CacheTyped, Places
  <2>4. ASSUME ~shared' PROVE NamesApart'
    <3>1. \A q \in Processes : q # p => ~Busy(q) /\ pc'[q] = pc[q]
      BY <1>1, <2>4, AloneLemma DEF Busy, IInv, CacheTyped
    <3>2. ~shared
      BY <2>4 DEF Shares
    <3>3. pc'[p] = "write" /\ hand'[p] = tmp' /\ wrote'[p] = 0
      BY <1>1, <2>1 DEF IInv, CacheTyped
    <3>4. path \in 0..Len(inodes) /\ path' = path /\ tmp' # path
      BY <1>1, <2>1, <2>2 DEF IInv, CacheTyped
    <3>5. path' # 0 => inodes'[path'] = Pieces /\ tmp' # path'
      BY <2>2, <3>2, <3>4 DEF IInv, NamesApart
    <3>6. stored' => path' # 0
      BY <1>1, <3>2 DEF IInv, NamesApart
    <3>7. \A q \in Processes : q # p => pc'[q] \in {"idle", "dead"}
      BY <3>1 DEF Busy
    <3> QED  BY <2>2, <3>3, <3>5, <3>6, <3>7, <1>2 DEF NamesApart
  <2>5. CASE shared'
    BY <2>5, <2>3 DEF NamesApart
  <2> QED  BY <2>3, <2>4, <2>5
<1>3. CASE tmp # 0 /\ tmp' = tmp
  <2>1. /\ inodes' = [inodes EXCEPT ![tmp] = 0]
        /\ hand' = [hand EXCEPT ![p] = tmp]
    BY <1>3 DEF OpenTmp
  <2>2. /\ inodes' \in Seq(Nat) /\ Len(inodes') = Len(inodes)
        /\ inodes'[tmp] = 0 /\ tmp \in 1..Len(inodes)
        /\ \A k \in 1..Len(inodes) : k # tmp => inodes'[k] = inodes[k]
    BY <2>1, <1>3 DEF IInv, CacheTyped
  <2>3. CacheTyped'
    BY <1>1, <1>3, <2>1, <2>2 DEF IInv, CacheTyped, Places
  <2>4. ASSUME ~shared' PROVE NamesApart'
    <3>1. \A q \in Processes : q # p => ~Busy(q) /\ pc'[q] = pc[q]
      BY <1>1, <2>4, AloneLemma DEF Busy, IInv, CacheTyped
    <3>2. ~shared
      BY <2>4 DEF Shares
    <3>3. pc'[p] = "write" /\ hand'[p] = tmp' /\ wrote'[p] = 0
      BY <1>1, <1>3, <2>1 DEF IInv, CacheTyped
    <3>4. path \in 0..Len(inodes) /\ path' = path
      BY <1>1 DEF IInv, CacheTyped
    <3>5. path' # 0 => inodes'[path'] = Pieces /\ tmp' # path'
      BY <1>3, <2>2, <3>2, <3>4 DEF IInv, NamesApart
    <3>6. stored' => path' # 0
      BY <1>1, <3>2 DEF IInv, NamesApart
    <3>7. \A q \in Processes : q # p => pc'[q] \in {"idle", "dead"}
      BY <3>1 DEF Busy
    <3> QED  BY <1>3, <2>2, <3>3, <3>5, <3>6, <3>7 DEF NamesApart
  <2>5. CASE shared'
    BY <2>5, <2>3 DEF NamesApart
  <2> QED  BY <2>3, <2>4, <2>5
<1> QED
  <2>1. tmp' = tmp \/ tmp' = Len(inodes) + 1
    BY DEF OpenTmp
  <2> QED  BY <2>1, <1>2, <1>3 DEF OpenTmp, IInv, CacheTyped

(* A piece goes to the file of the temporary name.                         *)
LEMMA WriteLemma ==
  ASSUME IInv, Shares, NEW p \in Processes, Write(p)
  PROVE  CacheTyped' /\ NamesApart'
<1> DEFINE has == IF inodes[hand[p]] < wrote[p] + 1 THEN wrote[p] + 1
                  ELSE inodes[hand[p]]
<1>1. /\ pc[p] = "write" /\ wrote' = [wrote EXCEPT ![p] = wrote[p] + 1]
      /\ inodes' = [inodes EXCEPT ![hand[p]] = has]
      /\ UNCHANGED <<path, tmp, pc, hand, stored>>
  BY DEF Write
<1>2. hand[p] \in 1..Len(inodes) /\ wrote[p] \in Nat /\ has \in Nat
  BY <1>1 DEF IInv, CacheTyped
<1>3. /\ inodes' \in Seq(Nat) /\ Len(inodes') = Len(inodes)
      /\ inodes'[hand[p]] = has
      /\ \A k \in 1..Len(inodes) : k # hand[p] => inodes'[k] = inodes[k]
  <2> HIDE DEF has
  <2> QED  BY <1>1, <1>2 DEF IInv, CacheTyped
<1>4. CacheTyped'
  <2>1. wrote' \in [Processes -> Nat]
    BY <1>1, <1>2 DEF IInv, CacheTyped
  <2> QED  BY <1>1, <1>3, <2>1 DEF IInv, CacheTyped
<1>5. ASSUME ~shared' PROVE NamesApart'
  <2>1. ~shared /\ \A q \in Processes : q # p => pc[q] \in {"idle", "dead"}
    BY <1>1, <1>5, AloneLemma DEF Busy, Shares
  <2>2. tmp # 0 /\ hand[p] = tmp /\ inodes[tmp] = wrote[p]
    BY <1>1, <2>1 DEF IInv, NamesApart
  <2>3. inodes'[tmp] = wrote'[p]
    BY <1>1, <1>2, <1>3, <2>2 DEF IInv, CacheTyped
  <2>4. path # 0 => inodes'[path] = Pieces /\ tmp # path
    BY <1>3, <2>1, <2>2 DEF IInv, CacheTyped, NamesApart
  <2>5. stored => path # 0
    BY <2>1 DEF IInv, NamesApart
  <2> QED  BY <1>1, <2>1, <2>2, <2>3, <2>4, <2>5 DEF NamesApart
<1>6. CASE shared'
  BY <1>6, <1>4 DEF NamesApart
<1> QED  BY <1>4, <1>5, <1>6

(* The whole file gets its name.                                           *)
LEMMA RenameLemma ==
  ASSUME IInv, Shares, NEW p \in Processes, Rename(p)
  PROVE  CacheTyped' /\ NamesApart'
<1>1. /\ pc[p] = "write" /\ wrote[p] = Pieces
      /\ UNCHANGED <<inodes, hand, wrote>>
  BY DEF Rename
<1>2. \/ /\ tmp # 0 /\ path' = tmp /\ tmp' = 0
         /\ pc' = [pc EXCEPT ![p] = "idle"]
      \/ /\ tmp = 0 /\ UNCHANGED <<path, tmp>>
         /\ pc' = [pc EXCEPT ![p] = "remove"] /\ stored' = stored
  BY DEF Rename, Renames, Return, Goto
<1>3. CacheTyped'
  <2>1. path' \in 0..Len(inodes) /\ tmp' \in 0..Len(inodes)
    BY <1>2 DEF IInv, CacheTyped
  <2>2. \E at \in {"idle", "remove"} : pc' = [pc EXCEPT ![p] = at]
    BY <1>2
  <2>3. /\ pc' \in [Processes -> Places]
        /\ \A q \in Processes : pc'[q] = "write" => pc[q] = "write"
    BY <2>2 DEF IInv, CacheTyped, Places
  <2> QED  BY <1>1, <2>1, <2>3 DEF IInv, CacheTyped
<1>4. ASSUME ~shared' PROVE NamesApart'
  <2>1. ~shared /\ \A q \in Processes : q # p => pc[q] \in {"idle", "dead"}
    BY <1>1, <1>4, AloneLemma DEF Busy, Shares
  <2>2. tmp # 0 /\ inodes[tmp] = Pieces
    BY <1>1, <2>1 DEF IInv, NamesApart
  <2>3. path' # 0 /\ inodes'[path'] = Pieces /\ tmp' # path'
    BY <1>1, <1>2, <2>2
  <2>4. \A q \in Processes : pc'[q] \in {"idle", "dead"}
    BY <1>2, <2>1, <2>2 DEF IInv, CacheTyped
  <2> QED  BY <2>3, <2>4 DEF NamesApart
<1>5. CASE shared'
  BY <1>5, <1>3 DEF NamesApart
<1> QED  BY <1>3, <1>4, <1>5

(* The fallback, which is reached only when processes share the name.      *)
LEMMA FallbackLemma ==
  ASSUME IInv, Shares, NEW p \in Processes, RemovePath(p) \/ RenameAgain(p)
  PROVE  CacheTyped' /\ NamesApart'
<1>1. pc[p] \in {"remove", "again"} /\ UNCHANGED <<inodes, hand, wrote>>
  BY DEF RemovePath, RenameAgain
<1>2. shared /\ shared'
  BY <1>1 DEF IInv, NamesApart, Shares
<1>3. \E at \in {"idle", "remove", "again"} : pc' = [pc EXCEPT ![p] = at]
  BY DEF RemovePath, RenameAgain, Renames, Return, Goto
<1>4. path' \in {0, path, tmp} /\ tmp' \in {0, tmp}
  BY DEF RemovePath, RenameAgain, Renames
<1>5. CacheTyped'
  <2>1. path' \in 0..Len(inodes) /\ tmp' \in 0..Len(inodes)
    BY <1>4 DEF IInv, CacheTyped
  <2>2. /\ pc' \in [Processes -> Places]
        /\ \A q \in Processes : pc'[q] = "write" => pc[q] = "write"
    BY <1>3 DEF IInv, CacheTyped, Places
  <2> QED  BY <1>1, <2>1, <2>2 DEF IInv, CacheTyped
<1> QED  BY <1>2, <1>5 DEF NamesApart

(* A call ends or stops, or a load goes on: no file changes, but for the   *)
(* temporary name that a failed write removes.                             *)
LEMMA ReadsLemma ==
  ASSUME IInv, Shares, NEW p \in Processes,
         OpenFails(p) \/ WriteFails(p) \/ Exists(p) \/ FileSize(p)
           \/ OpenPath(p) \/ Read(p) \/ Crash(p)
  PROVE  CacheTyped' /\ NamesApart'
<1>1. /\ UNCHANGED <<inodes, path, wrote, stored>>
      /\ tmp' = tmp \/ (tmp' = 0 /\ pc[p] = "write")
  BY DEF OpenFails, WriteFails, Exists, FileSize, OpenPath, Read, Crash,
         Files
<1>2. hand' = hand \/ (path # 0 /\ hand' = [hand EXCEPT ![p] = path])
  BY DEF OpenFails, WriteFails, Exists, FileSize, OpenPath, Read, Crash
<1>3. \E at \in {"idle", "size", "open", "read", "dead"} :
        /\ pc' = [pc EXCEPT ![p] = at]
        /\ at \in {"size", "open", "read"} => path # 0
  BY DEF OpenFails, WriteFails, Exists, FileSize, OpenPath, Read, Crash,
         Return, Goto
<1>4. Busy(p)
  BY DEF OpenFails, WriteFails, Exists, FileSize, OpenPath, Read, Crash,
         Busy
<1>5. PICK at \in {"idle", "size", "open", "read", "dead"} :
        /\ pc' = [pc EXCEPT ![p] = at]
        /\ at \in {"size", "open", "read"} => path # 0
  BY <1>3
<1>6. CacheTyped'
  <2>1. path' \in 0..Len(inodes) /\ tmp' \in 0..Len(inodes)
    BY <1>1 DEF IInv, CacheTyped
  <2>2. /\ pc' \in [Processes -> Places]
        /\ \A q \in Processes : pc'[q] = "write" => pc[q] = "write"
    BY <1>5 DEF IInv, CacheTyped, Places
  <2>3. /\ hand' \in [Processes -> Nat]
        /\ \A q \in Processes :
             hand'[q] = hand[q] \/ hand'[q] \in 1..Len(inodes)
    BY <1>2 DEF IInv, CacheTyped
  <2> QED  BY <1>1, <2>1, <2>2, <2>3 DEF IInv, CacheTyped
<1>7. ASSUME ~shared' PROVE NamesApart'
  <2>1. ~shared /\ \A q \in Processes : q # p => pc[q] \in {"idle", "dead"}
    BY <1>4, <1>7, AloneLemma DEF Busy, Shares
  <2>2. pc'[p] = at /\ \A q \in Processes : q # p => pc'[q] = pc[q]
    BY <1>5 DEF IInv, CacheTyped
  <2>3. path' # 0 => inodes'[path'] = Pieces /\ tmp' # path'
    BY <1>1, <2>1 DEF IInv, NamesApart
  <2>4. stored' => path' # 0
    BY <1>1, <2>1 DEF IInv, NamesApart
  <2> QED  BY <1>1, <1>5, <2>1, <2>2, <2>3, <2>4 DEF NamesApart
<1>8. CASE shared'
  BY <1>8, <1>6 DEF NamesApart
<1> QED  BY <1>6, <1>7, <1>8

-----------------------------------------------------------------------------
LEMMA NextLemma == IInv /\ [CacheNext]_cacheVars => IInv'
<1> SUFFICES ASSUME IInv, [CacheNext]_cacheVars PROVE IInv'
  OBVIOUS
<1>1. CASE UNCHANGED cacheVars
  BY <1>1 DEF cacheVars, IInv, CacheTyped, OneAtATime, NamesApart, Busy
<1>2. CASE CacheNext
  <2>1. Shares
    BY <1>2 DEF CacheNext, Shares
  <2>2. PICK p \in Processes :
          \/ Call(p, "store") \/ OpenTmp(p) \/ OpenFails(p) \/ Write(p)
          \/ WriteFails(p) \/ Rename(p) \/ RemovePath(p) \/ RenameAgain(p)
          \/ Call(p, "load") \/ Exists(p) \/ FileSize(p) \/ OpenPath(p)
          \/ Read(p) \/ Crash(p)
    BY <1>2 DEF CacheNext
  <2>3. CacheTyped' /\ NamesApart'
    BY <2>1, <2>2, CallLemma, OpenTmpLemma, WriteLemma, RenameLemma,
       FallbackLemma, ReadsLemma
  <2> QED  BY <2>1, <2>3, OneLemma DEF IInv
<1> QED  BY <1>1, <1>2

LEMMA SafeLemma == IInv => CacheSafe
<1> SUFFICES ASSUME IInv PROVE CacheSafe
  OBVIOUS
<1>1. PublishedOrShared
  BY CacheAssumption DEF IInv, NamesApart, PublishedOrShared
<1>2. StoredStays
  BY DEF IInv, NamesApart, StoredStays
<1>3. LoadsHit
  BY DEF IInv, NamesApart, LoadsHit
<1> QED  BY <1>1, <1>2, <1>3 DEF CacheSafe

(* For any number of processes that may stop at any step: only calls under *)
(* way at once publish a file that is not whole, and without them what is  *)
(* stored stays and every load that has found it is a hit                  *)
(* (index_cache.cpp, store() and load()).                                  *)
THEOREM CacheSafeTheorem == CacheSpec => []CacheSafe
<1> QED  BY InitLemma, NextLemma, SafeLemma, PTL DEF CacheSpec

-----------------------------------------------------------------------------
LEMMA StoreStutter ==
  ASSUME StoreInv, UNCHANGED storeVars
  PROVE  StoreInv' /\ PinnedKept(entries, entries', answer'.keys)
BY DEF StoreInv, storeVars, Counted, EntriesOK, StoredBytes, Materialized,
   PinnedKept

(* An entry that keeps its pin keeps its data, whatever is put, looked up  *)
(* or erased under other keys (ArtifactStore::evict_until_fits).           *)
THEOREM PinnedTheorem == StoreSpec => PinnedStay
<1>1. StoreInit => StoreInv
  BY StoreAssumption, StoreInitLemma
<1>2. StoreInv /\ [StoreNext]_storeVars => StoreInv'
  BY StoreAssumption, StoreNextLemma, StoreStutter
<1>3. StoreInv /\ [StoreNext]_storeVars =>
        [\A k \in DOMAIN entries :
           entries[k].pinned /\ ~entries[k].evicted /\ k \notin answer'.keys
           => k \in DOMAIN entries' /\ entries'[k] = entries[k]]_storeVars
  BY StoreAssumption, StoreNextLemma DEF PinnedKept
<1> QED  BY <1>1, <1>2, <1>3, PTL DEF StoreSpec, PinnedStay

(* The store has counted the bytes it holds and holds no more than its     *)
(* budget, however pins, puts and lookups come; and what the index cache   *)
(* publishes is whole unless calls under way at once shared the temporary  *)
(* name (artifact_store.cpp, index_cache.cpp).                             *)
THEOREM StoresTheorem == StoresSpec => []StoresAgree
<1> DEFINE Both == StoreInv /\ IInv
<1>1. StoresInit => Both
  BY StoreAssumption, StoreInitLemma, InitLemma DEF StoresInit
<1>2. ASSUME Both, [StoresNext]_storesVars
      PROVE  Both'
  <2>1. CASE StoreNext /\ UNCHANGED cacheVars
    <3>1. StoreInv'
      BY <1>2, <2>1, StoreAssumption, StoreNextLemma
    <3>2. IInv'
      BY <1>2, <2>1, NextLemma
    <3> QED  BY <3>1, <3>2
  <2>2. CASE CacheNext /\ UNCHANGED storeVars
    <3>1. StoreInv'
      BY <1>2, <2>2, StoreStutter
    <3>2. IInv'
      BY <1>2, <2>2, NextLemma
    <3> QED  BY <3>1, <3>2
  <2>3. CASE UNCHANGED storesVars
    <3>1. UNCHANGED storeVars /\ UNCHANGED cacheVars
      BY <2>3 DEF storesVars
    <3>2. StoreInv'
      BY <1>2, <3>1, StoreStutter
    <3>3. IInv'
      BY <1>2, <3>1, NextLemma
    <3> QED  BY <3>2, <3>3
  <2> QED  BY <1>2, <2>1, <2>2, <2>3 DEF StoresNext
<1>3. Both => StoresAgree
  BY SafeLemma DEF StoreInv, Counted, LedgerAgrees, StoresAgree
<1>4. Both /\ [StoresNext]_storesVars => Both'
  BY <1>2
<1> HIDE DEF Both
<1> QED  BY <1>1, <1>3, <1>4, PTL DEF StoresSpec
=============================================================================
