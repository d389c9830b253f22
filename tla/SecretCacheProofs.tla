--------------------------- MODULE SecretCacheProofs ---------------------------
(***************************************************************************)
(* Proofs about SecretCache for any goroutines, references, secrets, TTL   *)
(* and capacity: the map and the list, the owners of secrets, and the age  *)
(* of what a Get returns.                                                  *)
(***************************************************************************)
EXTENDS SecretCache, TLAPS

Worker == Getter \cup {Closer}

Loading(g) == pc[g] \in {"loading", "loaded"}
Holds(g) == pc[g] = "loaded"

Once(s) == \A i, j \in DOMAIN s : s[i] = s[j] => i = j

Typed ==
  /\ TypeOK
  /\ lru \in Seq(Reference)
  /\ rotated \in [Reference -> [Version -> Nat]]
  /\ candidate \in [Getter -> [secret : SecretId, version : Version] \cup {NoEntry}]
  /\ served \in [Getter -> [at : Nat, reference : Reference \cup {None}, version : Version]]
  /\ \A g \in Getter : Holds(g) => candidate[g] \in [secret : SecretId, version : Version]

ListInv ==
  /\ Once(lru) /\ Range(lru) = Cached
  /\ Len(lru) <= MaxEntries
  /\ closed => lru = <<>>

EntryOwns(r) ==
  /\ entries[r].secret \in alive
  /\ \A q \in Cached : entries[r].secret = entries[q].secret => r = q

LoadOwns(g) ==
  Holds(g) =>
    /\ candidate[g].secret \in alive /\ ~CacheOwns(candidate[g].secret)
    /\ \A h \in Getter : Holds(h) /\ candidate[h].secret = candidate[g].secret => h = g

DoomedOwns(g, s) ==
  /\ s \in alive /\ ~CacheOwns(s)
  /\ \A h \in Getter : ~GetterOwns(h, s)
  /\ \A h \in Worker : s \in doomed[h] => h = g

Owned(s) ==
  \/ CacheOwns(s)
  \/ \E g \in Getter : GetterOwns(g, s)
  \/ \E g \in Worker : s \in doomed[g]

OwnInv ==
  /\ \A r \in Cached : EntryOwns(r)
  /\ \A g \in Getter : LoadOwns(g)
  /\ \A g \in Worker : \A s \in doomed[g] : DoomedOwns(g, s)
  /\ \A g \in Worker : doomed[g] # {} => pc[g] \in {"expiring", "destroying"}
  /\ \A s \in alive : Owned(s)

RotationInv ==
  \A r \in Reference : \A v \in Version :
    /\ v < version[r] => rotated[r][v] <= clock
    /\ v >= version[r] => rotated[r][v] = Never

EntryInv ==
  \A r \in Cached : /\ entries[r].expires <= clock + TTL
                    /\ entries[r].expires <= rotated[r][entries[r].version] + TTL + LoadBound

LoadInv ==
  \A g \in Getter :
    /\ now[g] <= clock
    /\ Loading(g) => started[g] <= clock /\ clock <= started[g] + LoadBound
    /\ Holds(g) => started[g] <= rotated[reference[g]][candidate[g].version]

ServedInv ==
  \A g \in Getter : served[g] # Nothing =>
    /\ served[g].reference \in Reference /\ served[g].at <= clock
    /\ served[g].at < rotated[served[g].reference][served[g].version] + TTL + LoadBound

TimeInv == RotationInv /\ EntryInv /\ LoadInv /\ ServedInv

IInv == Typed /\ ListInv /\ OwnInv /\ TimeInv

-----------------------------------------------------------------------------
(* The list *)

\* A list joined to another: what is where.
LEMMA Joined ==
  ASSUME NEW S, NEW s \in Seq(S), NEW t \in Seq(S)
  PROVE  /\ s \o t \in Seq(S) /\ Len(s \o t) = Len(s) + Len(t)
         /\ \A i \in 1..(Len(s) + Len(t)) :
              (s \o t)[i] = IF i <= Len(s) THEN s[i] ELSE t[i - Len(s)]
OBVIOUS

\* Removing an element from a list that has it once.
LEMMA RemoveOnce ==
    ASSUME NEW S, NEW s \in Seq(S), Once(s), NEW k \in DOMAIN s
    PROVE  /\ RemoveAt(s, k) \in Seq(S) /\ Once(RemoveAt(s, k))
           /\ Range(RemoveAt(s, k)) = Range(s) \ {s[k]}
           /\ Len(RemoveAt(s, k)) = Len(s) - 1
  <1> DEFINE t == RemoveAt(s, k)
             n == Len(s)
  <1>1. n \in Nat /\ DOMAIN s = 1..n /\ k \in 1..n
    OBVIOUS
  <1>2. /\ t \in Seq(S) /\ Len(t) = n - 1
        /\ \A i \in 1..(n - 1) : t[i] = IF i < k THEN s[i] ELSE s[i + 1]
    <2> DEFINE u == SubSeq(s, 1, k - 1)
               v == SubSeq(s, k + 1, n)
    <2>1. /\ u \in Seq(S) /\ Len(u) = k - 1
          /\ \A i \in 1..(k - 1) : u[i] = s[i]
      BY <1>1
    <2>2. /\ v \in Seq(S) /\ Len(v) = n - k
          /\ \A i \in 1..(n - k) : v[i] = s[i + k]
      BY <1>1
    <2> HIDE DEF u, v
    <2>3. t = u \o v
      BY Zenon DEF RemoveAt, u, v
    <2>4. /\ u \o v \in Seq(S) /\ Len(u \o v) = n - 1
          /\ \A i \in 1..(n - 1) : (u \o v)[i] = IF i < k THEN u[i] ELSE v[i - k + 1]
      <3>1. /\ u \o v \in Seq(S) /\ Len(u \o v) = Len(u) + Len(v)
            /\ \A i \in 1..(Len(u) + Len(v)) :
                 (u \o v)[i] = IF i <= Len(u) THEN u[i] ELSE v[i - Len(u)]
        BY <2>1, <2>2, Joined, Zenon
      <3>2. ASSUME NEW i \in 1..(n - 1)
            PROVE  (u \o v)[i] = IF i < k THEN u[i] ELSE v[i - k + 1]
        <4>1. /\ i \in 1..(Len(u) + Len(v)) /\ (i <= Len(u) <=> i < k)
              /\ i - Len(u) = i - k + 1
          BY <1>1, <2>1, <2>2
        <4> QED  BY Zenon, <3>1, <4>1
      <3> QED  BY <1>1, <2>1, <2>2, <3>1, <3>2
    <2>5. ASSUME NEW i \in 1..(n - 1) PROVE t[i] = IF i < k THEN s[i] ELSE s[i + 1]
      <3>1. CASE i < k
        BY <1>1, <2>1, <2>3, <2>4, <3>1
      <3>2. CASE ~(i < k)
        <4>1. i - k + 1 \in 1..(n - k) /\ (i - k + 1) + k = i + 1
          BY <1>1, <3>2
        <4> QED  BY <2>2, <2>3, <2>4, <3>2, <4>1, Zenon
      <3> QED  BY Zenon, <3>1, <3>2
    <2> QED  BY Zenon, <2>3, <2>4, <2>5
  <1>3. DOMAIN t = 1..(n - 1)
    BY <1>1, <1>2
  <1> HIDE DEF t
  <1>4. Once(t)
    <2> SUFFICES ASSUME NEW i \in 1..(n - 1), NEW j \in 1..(n - 1), t[i] = t[j] PROVE i = j
      BY Zenon, <1>3 DEF Once
    <2> DEFINE From(m) == IF m < k THEN m ELSE m + 1
    <2>1. From(i) \in 1..n /\ From(j) \in 1..n /\ (From(i) = From(j) => i = j)
      BY <1>1
    <2>2. t[i] = s[From(i)] /\ t[j] = s[From(j)]
      BY Zenon, <1>2
    <2> HIDE DEF From
    <2> QED  BY <1>1, <2>1, <2>2, Zenon DEF Once
  <1>5. ASSUME NEW x \in Range(t) PROVE x \in Range(s) \ {s[k]}
    <2>1. PICK i \in 1..(n - 1) : x = t[i]
      BY Zenon, <1>3, <1>5 DEF Range
    <2>2. PICK j \in 1..n : j # k /\ x = s[j]
      BY <1>1, <1>2, <2>1
    <2> QED  BY Zenon, <1>1, <2>2 DEF Once, Range
  <1>6. ASSUME NEW x \in Range(s), x # s[k] PROVE x \in Range(t)
    <2>1. PICK j \in 1..n : x = s[j]
      BY Zenon, <1>1 DEF Range
    <2>2. PICK i \in 1..(n - 1) : x = t[i]
      <3>1. j # k
        BY Zenon, <1>6, <2>1
      <3>2. CASE j < k
        BY <1>1, <1>2, <2>1, <3>2
      <3>3. CASE j > k
        <4>1. j - 1 \in 1..(n - 1) /\ ~(j - 1 < k) /\ (j - 1) + 1 = j
          BY <1>1, <3>3
        <4> QED  BY Zenon, <1>2, <2>1, <4>1
      <3> QED  BY <1>1, <3>1, <3>2, <3>3
    <2> QED  BY Zenon, <1>3, <2>2 DEF Range
  <1> QED  BY Zenon, <1>2, <1>4, <1>5, <1>6 DEF t

\* Taking a reference off the list.
LEMMA WithoutFacts ==
    ASSUME Typed, Once(lru), NEW r \in Reference
    PROVE  /\ Without(r) \in Seq(Reference) /\ Once(Without(r))
           /\ Range(Without(r)) = Range(lru) \ {r}
           /\ Len(Without(r)) = IF r \in Range(lru) THEN Len(lru) - 1 ELSE Len(lru)
  <1>1. lru \in Seq(Reference)
    BY Zenon DEF Typed
  <1>2. CASE r \in Range(lru)
    <2> DEFINE k == CHOOSE i \in DOMAIN lru : lru[i] = r
    <2>1. k \in DOMAIN lru /\ lru[k] = r
      BY Zenon, <1>2 DEF Range
    <2>2. Without(r) = RemoveAt(lru, k)
      BY Zenon, <1>2 DEF Without
    <2> HIDE DEF k
    <2> QED  BY <1>1, <1>2, <2>1, <2>2, RemoveOnce
  <1>3. CASE r \notin Range(lru)
    BY Zenon, <1>1, <1>3 DEF Without
  <1> QED  BY Zenon, <1>2, <1>3

\* A reference in front of a list that does not have it.
LEMMA ConsOnce ==
    ASSUME NEW S, NEW s \in Seq(S), Once(s), NEW x \in S, x \notin Range(s)
    PROVE  /\ <<x>> \o s \in Seq(S) /\ Once(<<x>> \o s)
           /\ Range(<<x>> \o s) = Range(s) \cup {x}
           /\ Len(<<x>> \o s) = Len(s) + 1
           /\ (<<x>> \o s)[1] = x
  <1> DEFINE t == <<x>> \o s
             n == Len(s)
  <1>1. n \in Nat /\ DOMAIN s = 1..n
    OBVIOUS
  <1>2. /\ t \in Seq(S) /\ Len(t) = n + 1
        /\ \A i \in 1..(n + 1) : t[i] = IF i = 1 THEN x ELSE s[i - 1]
    BY <1>1
  <1>3. DOMAIN t = 1..(n + 1)
    BY <1>1, <1>2
  <1> HIDE DEF t
  <1>4. \A i \in 1..n : s[i] # x
    BY Zenon, <1>1 DEF Range
  <1>5. Once(t)
    <2> SUFFICES ASSUME NEW i \in 1..(n + 1), NEW j \in 1..(n + 1), t[i] = t[j] PROVE i = j
      BY Zenon, <1>3 DEF Once
    <2>1. CASE i = 1 \/ j = 1
      BY <1>1, <1>2, <1>4, <2>1
    <2>2. CASE i # 1 /\ j # 1
      <3>1. i - 1 \in 1..n /\ j - 1 \in 1..n /\ s[i - 1] = s[j - 1]
        BY <1>1, <1>2, <2>2
      <3>2. i - 1 = j - 1
        BY Zenon, <1>1, <3>1 DEF Once
      <3> QED  BY <1>1, <3>2
    <2> QED  BY Zenon, <2>1, <2>2
  <1>6. ASSUME NEW y \in Range(t) PROVE y \in Range(s) \cup {x}
    <2>1. PICK i \in 1..(n + 1) : y = t[i]
      BY Zenon, <1>3, <1>6 DEF Range
    <2>2. i = 1 \/ i - 1 \in 1..n
      BY <1>1
    <2> QED  BY Zenon, <1>1, <1>2, <2>1, <2>2 DEF Range
  <1>7. ASSUME NEW y \in Range(s) \cup {x} PROVE y \in Range(t)
    <2>1. CASE y = x
      BY <1>1, <1>2, <1>3, <2>1 DEF Range
    <2>2. CASE y \in Range(s)
      <3>1. PICK i \in 1..n : y = s[i]
        BY Zenon, <1>1, <2>2 DEF Range
      <3>2. i + 1 \in 1..(n + 1) /\ i + 1 # 1 /\ (i + 1) - 1 = i
        BY <1>1
      <3>3. t[i + 1] = y
        BY Zenon, <1>2, <3>1, <3>2
      <3> QED  BY Zenon, <1>3, <3>2, <3>3 DEF Range
    <2> QED  BY Zenon, <1>7, <2>1, <2>2
  <1> QED  BY <1>1, <1>2, <1>5, <1>6, <1>7 DEF t

\* Moving a reference to the front, or adding it there.
LEMMA FrontFacts ==
    ASSUME Typed, Once(lru), NEW r \in Reference
    PROVE  /\ MoveToFront(r) \in Seq(Reference) /\ Once(MoveToFront(r))
           /\ Range(MoveToFront(r)) = Range(lru) \cup {r}
           /\ Len(MoveToFront(r)) = IF r \in Range(lru) THEN Len(lru) ELSE Len(lru) + 1
           /\ MoveToFront(r)[1] = r
  <1> DEFINE s == Without(r)
  <1>1. /\ s \in Seq(Reference) /\ Once(s) /\ Range(s) = Range(lru) \ {r}
        /\ Len(s) = IF r \in Range(lru) THEN Len(lru) - 1 ELSE Len(lru)
    BY Zenon, WithoutFacts
  <1>2. MoveToFront(r) = <<r>> \o s
    BY Zenon DEF MoveToFront
  <1>3. Len(lru) \in Nat
    BY DEF Typed
  <1> HIDE DEF s
  <1>4. r \notin Range(s)
    BY Zenon, <1>1
  <1>5. /\ <<r>> \o s \in Seq(Reference) /\ Once(<<r>> \o s)
        /\ Range(<<r>> \o s) = Range(s) \cup {r}
        /\ Len(<<r>> \o s) = Len(s) + 1 /\ (<<r>> \o s)[1] = r
    BY <1>1, <1>4, ConsOnce
  <1> QED  BY <1>1, <1>2, <1>3, <1>5

\* The list cut at the capacity, as the evictions from its back leave it.
LEMMA CutOnce ==
    ASSUME NEW S, NEW s \in Seq(S), Once(s), NEW m \in Nat \ {0}
    PROVE  LET t == SubSeq(s, 1, IF Len(s) > m THEN m ELSE Len(s)) IN
             /\ t \in Seq(S) /\ Once(t) /\ Len(t) <= m
             /\ Range(t) \subseteq Range(s)
             /\ Len(s) > 0 => s[1] \in Range(t)
  <1> DEFINE n == IF Len(s) > m THEN m ELSE Len(s)
             t == SubSeq(s, 1, n)
  <1>1. Len(s) \in Nat /\ n \in Nat /\ n <= m /\ n <= Len(s) /\ (Len(s) > 0 => n > 0)
    OBVIOUS
  <1> HIDE DEF n
  <1>2. /\ t \in Seq(S) /\ Len(t) = n /\ DOMAIN t = 1..n
        /\ \A i \in 1..n : t[i] = s[i] /\ i \in DOMAIN s
    BY <1>1
  <1> HIDE DEF t
  <1>3. Once(t) /\ Range(t) \subseteq Range(s) /\ (Len(s) > 0 => s[1] \in Range(t))
    BY <1>1, <1>2 DEF Once, Range
  <1> QED  BY Zenon, <1>1, <1>2, <1>3 DEF t, n

-----------------------------------------------------------------------------
(* The owners *)

\* A step that moves no secret keeps the owners.
LEMMA OwnersKept ==
    ASSUME OwnInv, entries' = entries, alive' = alive, doomed' = doomed,
           \A g \in Getter : Holds(g)' => Holds(g) /\ candidate'[g] = candidate[g],
           \A g \in Getter : Holds(g) => Holds(g)',
           \A g \in Worker : doomed[g] # {} => pc'[g] \in {"expiring", "destroying"}
    PROVE  OwnInv'
  <1>1. Cached' = Cached /\ \A s : CacheOwns(s)' <=> CacheOwns(s)
    BY Zenon DEF Cached, CacheOwns
  <1>2. \A g \in Getter : \A s : GetterOwns(g, s)' <=> GetterOwns(g, s)
    BY Zenon DEF GetterOwns, Holds
  <1>3. \A r \in Cached : EntryOwns(r) => EntryOwns(r)'
    BY Zenon, <1>1 DEF EntryOwns
  <1>4. \A g \in Getter : LoadOwns(g) => LoadOwns(g)'
    BY Zenon, <1>1 DEF LoadOwns
  <1>5. \A g \in Worker : \A s : DoomedOwns(g, s) => DoomedOwns(g, s)'
    BY Zenon, <1>1, <1>2 DEF DoomedOwns
  <1>6. \A s : Owned(s) => Owned(s)'
    BY Zenon, <1>1, <1>2 DEF Owned
  <1> QED  BY Zenon, <1>1, <1>3, <1>4, <1>5, <1>6 DEF OwnInv

\* Taking entries out of the cache under the lock: their secrets are the
\* goroutine's to zero (removeLocked, detachAll).
LEMMA OwnersDetach ==
    ASSUME OwnInv, NEW g \in Worker, doomed[g] = {}, NEW D \in SUBSET Cached,
           Cached' = Cached \ D, \A r \in Cached \ D : entries'[r] = entries[r],
           doomed \in [Worker -> SUBSET SecretId],
           doomed' = [doomed EXCEPT ![g] = {entries[r].secret : r \in D}], alive' = alive,
           \A h \in Getter : Holds(h)' => Holds(h) /\ candidate'[h] = candidate[h],
           \A h \in Getter : Holds(h) => Holds(h)',
           pc'[g] \in {"expiring", "destroying"}, \A h \in Worker : h # g => pc'[h] = pc[h]
    PROVE  OwnInv'
  <1> DEFINE Gone == {entries[r].secret : r \in D}
  <1>1. doomed'[g] = Gone /\ \A h \in Worker : h # g => doomed'[h] = doomed[h]
    BY Zenon
  <1>2. ASSUME NEW s PROVE CacheOwns(s) <=> CacheOwns(s)' \/ s \in Gone
    BY Zenon DEF CacheOwns
  <1>3. ASSUME NEW s \in Gone PROVE s \in alive /\ CacheOwns(s) /\ ~CacheOwns(s)'
    <2>1. PICK r \in D : s = entries[r].secret
      BY Zenon
    <2>2. EntryOwns(r)
      BY Zenon DEF OwnInv
    <2> QED  BY Zenon, <2>1, <2>2 DEF EntryOwns, CacheOwns
  <1>4. \A h \in Getter : \A s : GetterOwns(h, s)' <=> GetterOwns(h, s)
    BY Zenon DEF GetterOwns, Holds
  <1> HIDE DEF Gone
  <1>5. ASSUME NEW r \in Cached'
        PROVE  EntryOwns(r)'
    BY DEF OwnInv, EntryOwns
  <1>6. ASSUME NEW h \in Getter
        PROVE  LoadOwns(h)'
    <2> SUFFICES ASSUME Holds(h)' PROVE LoadOwns(h)'
      BY Zenon DEF LoadOwns
    <2>1. LoadOwns(h) /\ Holds(h) /\ candidate'[h] = candidate[h]
      BY Zenon DEF OwnInv
    <2> QED  BY Zenon, <1>2, <2>1 DEF LoadOwns
  <1>7. ASSUME NEW h \in Worker, NEW s \in doomed'[h]
        PROVE  DoomedOwns(h, s)'
    <2>1. CASE h = g
      <3>1. s \in Gone
        BY Zenon, <1>1, <1>7, <2>1
      <3>2. CacheOwns(s) /\ s \in alive /\ ~CacheOwns(s)'
        BY Zenon, <1>3, <3>1
      <3>3. \A k \in Getter : ~GetterOwns(k, s)
        BY <3>2 DEF OwnInv, LoadOwns, GetterOwns, Holds
      <3>4. \A k \in Worker : s \notin doomed[k]
        BY Zenon, <3>2 DEF OwnInv, DoomedOwns
      <3> QED  BY Zenon, <1>1, <1>4, <2>1, <3>2, <3>3, <3>4 DEF DoomedOwns
    <2>2. CASE h # g
      <3>1. s \in doomed[h]
        BY Zenon, <1>1, <1>7, <2>2
      <3>2. DoomedOwns(h, s)
        BY <3>1, Zenon DEF OwnInv
      <3>3. s \notin Gone
        BY Zenon, <1>2, <3>2 DEF DoomedOwns
      <3> QED  BY Zenon, <1>1, <1>2, <1>4, <3>2, <3>3 DEF DoomedOwns
    <2> QED  BY Zenon, <2>1, <2>2
  <1>8. ASSUME NEW h \in Worker, doomed'[h] # {} PROVE pc'[h] \in {"expiring", "destroying"}
    BY Zenon, <1>1, <1>8 DEF OwnInv
  <1>9. ASSUME NEW s \in alive'
        PROVE  Owned(s)'
    <2>1. CASE CacheOwns(s)
      BY Zenon, <1>1, <1>2, <2>1 DEF Owned
    <2>2. CASE \E h \in Getter : GetterOwns(h, s)
      BY Zenon, <1>4, <2>2 DEF Owned
    <2>3. CASE \E h \in Worker : s \in doomed[h]
      BY Zenon, <1>1, <2>3 DEF Owned
    <2> QED  BY Zenon, <2>1, <2>2, <2>3 DEF OwnInv, Owned
  <1> QED  BY <1>5, <1>6, <1>7, <1>8, <1>9, Zenon DEF OwnInv

\* Zeroing what was detached (Destroy).
LEMMA OwnersZero ==
    ASSUME OwnInv, NEW g \in Worker, entries' = entries, alive' = alive \ doomed[g],
           doomed \in [Worker -> SUBSET SecretId], doomed' = [doomed EXCEPT ![g] = {}],
           \A h \in Getter : Holds(h)' => Holds(h) /\ candidate'[h] = candidate[h],
           \A h \in Getter : Holds(h) => Holds(h)',
           \A h \in Worker : h # g => pc'[h] = pc[h]
    PROVE  OwnInv'
  <1>1. doomed'[g] = {} /\ \A h \in Worker : h # g => doomed'[h] = doomed[h]
    BY Zenon
  <1>2. Cached' = Cached /\ \A s : CacheOwns(s)' <=> CacheOwns(s)
    BY Zenon DEF Cached, CacheOwns
  <1>3. \A h \in Getter : \A s : GetterOwns(h, s)' <=> GetterOwns(h, s)
    BY Zenon DEF GetterOwns, Holds
  <1>4. ASSUME NEW s \in doomed[g]
        PROVE  DoomedOwns(g, s)
    BY Zenon DEF OwnInv
  <1>5. ASSUME NEW r \in Cached'
        PROVE  EntryOwns(r)'
    <2>1. EntryOwns(r) /\ CacheOwns(entries[r].secret)
      BY Zenon, <1>2 DEF OwnInv, CacheOwns
    <2>2. entries[r].secret \notin doomed[g]
      BY Zenon, <1>4, <2>1 DEF DoomedOwns
    <2> QED  BY Zenon, <1>2, <2>1, <2>2 DEF EntryOwns
  <1>6. ASSUME NEW h \in Getter
        PROVE  LoadOwns(h)'
    <2> SUFFICES ASSUME Holds(h)' PROVE LoadOwns(h)'
      BY Zenon DEF LoadOwns
    <2>1. LoadOwns(h) /\ Holds(h) /\ candidate'[h] = candidate[h]
      BY Zenon DEF OwnInv
    <2>2. candidate[h].secret \notin doomed[g]
      BY Zenon, <1>4, <2>1 DEF DoomedOwns, GetterOwns, Holds
    <2> QED  BY Zenon, <1>2, <2>1, <2>2 DEF LoadOwns
  <1>7. ASSUME NEW h \in Worker, NEW s \in doomed'[h]
        PROVE  DoomedOwns(h, s)'
    <2>1. h # g /\ s \in doomed[h]
      BY Zenon, <1>1, <1>7
    <2>2. DoomedOwns(h, s)
      BY <2>1, Zenon DEF OwnInv
    <2> QED  BY Zenon, <1>1, <1>2, <1>3, <2>1, <2>2 DEF DoomedOwns
  <1>8. ASSUME NEW h \in Worker, doomed'[h] # {} PROVE pc'[h] \in {"expiring", "destroying"}
    BY Zenon, <1>1, <1>8 DEF OwnInv
  <1>9. ASSUME NEW s \in alive'
        PROVE  Owned(s)'
    BY Zenon, <1>1, <1>2, <1>3 DEF OwnInv, Owned
  <1> QED  BY <1>5, <1>6, <1>7, <1>8, <1>9, Zenon DEF OwnInv


\* A load gives the getter a secret of its own.
LEMMA OwnersLoad ==
    ASSUME OwnInv, NEW g \in Getter, NEW n, n \notin alive, entries' = entries,
           alive' = alive \cup {n}, doomed' = doomed, ~Holds(g), Holds(g)',
           candidate'[g].secret = n, doomed[g] = {},
           \A h \in Getter : h # g => (Holds(h)' <=> Holds(h)) /\ candidate'[h] = candidate[h],
           \A h \in Worker : h # g => pc'[h] = pc[h]
    PROVE  OwnInv'
  <1>1. Cached' = Cached /\ \A s : CacheOwns(s)' <=> CacheOwns(s)
    BY Zenon DEF Cached, CacheOwns
  <1>2. \A h \in Getter : \A s : GetterOwns(h, s)' <=> GetterOwns(h, s) \/ (h = g /\ s = n)
    BY Zenon DEF GetterOwns, Holds
  <1>3. ~CacheOwns(n) /\ (\A h \in Getter : ~GetterOwns(h, n)) /\ \A h \in Worker : n \notin doomed[h]
    BY DEF OwnInv, EntryOwns, LoadOwns, DoomedOwns, CacheOwns, GetterOwns, Holds
  <1>4. ASSUME NEW r \in Cached' PROVE EntryOwns(r)'
    BY Zenon, <1>1 DEF OwnInv, EntryOwns
  <1>5. ASSUME NEW h \in Getter PROVE LoadOwns(h)'
    <2> SUFFICES ASSUME Holds(h)' PROVE LoadOwns(h)'
      BY Zenon DEF LoadOwns
    <2>1. CASE h = g
      BY Zenon, <1>1, <1>3, <2>1 DEF LoadOwns, GetterOwns, Holds
    <2>2. CASE h # g
      <3>1. LoadOwns(h) /\ Holds(h) /\ candidate'[h] = candidate[h]
        BY Zenon, <2>2 DEF OwnInv
      <3>2. candidate[h].secret # n
        BY Zenon, <3>1 DEF LoadOwns
      <3> QED  BY Zenon, <1>1, <3>1, <3>2 DEF LoadOwns
    <2> QED  BY Zenon, <2>1, <2>2
  <1>6. ASSUME NEW h \in Worker, NEW s \in doomed'[h] PROVE DoomedOwns(h, s)'
    <2>1. DoomedOwns(h, s)
      BY Zenon DEF OwnInv
    <2> QED  BY Zenon, <1>1, <1>2, <1>3, <2>1 DEF DoomedOwns
  <1>7. ASSUME NEW h \in Worker, doomed'[h] # {} PROVE pc'[h] \in {"expiring", "destroying"}
    BY Zenon, <1>7 DEF OwnInv
  <1>8. ASSUME NEW s \in alive' PROVE Owned(s)'
    BY Zenon, <1>1, <1>2 DEF OwnInv, Owned
  <1> QED  BY <1>4, <1>5, <1>6, <1>7, <1>8, Zenon DEF OwnInv

\* A getter that came second, or to a closed cache, is to zero what it loaded.
LEMMA OwnersDiscard ==
    ASSUME OwnInv, NEW g \in Getter, Holds(g), doomed[g] = {}, entries' = entries, alive' = alive,
           doomed \in [Worker -> SUBSET SecretId],
           doomed' = [doomed EXCEPT ![g] = {candidate[g].secret}], pc'[g] = "destroying",
           \A h \in Getter : h # g => (Holds(h)' <=> Holds(h)) /\ candidate'[h] = candidate[h],
           \A h \in Worker : h # g => pc'[h] = pc[h]
    PROVE  OwnInv'
  <1> DEFINE n == candidate[g].secret
  <1>1. g \in Worker /\ doomed'[g] = {n} /\ \A h \in Worker : h # g => doomed'[h] = doomed[h]
    BY Zenon DEF Worker
  <1>2. Cached' = Cached /\ \A s : CacheOwns(s)' <=> CacheOwns(s)
    BY Zenon DEF Cached, CacheOwns
  <1>3. \A h \in Getter : \A s : GetterOwns(h, s)' <=> GetterOwns(h, s) /\ h # g
    BY Zenon DEF GetterOwns, Holds
  <1>4. /\ n \in alive /\ ~CacheOwns(n)
        /\ \A h \in Getter : GetterOwns(h, n) => h = g
        /\ \A h \in Worker : n \notin doomed[h]
    <2>1. LoadOwns(g) /\ GetterOwns(g, n)
      BY Zenon DEF OwnInv, GetterOwns, Holds
    <2>2. \A h \in Worker : n \notin doomed[h]
      BY Zenon, <2>1 DEF OwnInv, DoomedOwns
    <2> QED  BY Zenon, <2>1, <2>2 DEF LoadOwns, GetterOwns, Holds
  <1>5. \A s : GetterOwns(g, s) => s = n
    BY Zenon DEF GetterOwns
  <1> HIDE DEF n
  <1>6. ASSUME NEW r \in Cached' PROVE EntryOwns(r)'
    BY Zenon, <1>2 DEF OwnInv, EntryOwns
  <1>7. ASSUME NEW h \in Getter PROVE LoadOwns(h)'
    <2> SUFFICES ASSUME Holds(h)' PROVE LoadOwns(h)'
      BY Zenon DEF LoadOwns
    <2>1. h # g
      BY Zenon DEF Holds
    <2>2. LoadOwns(h) /\ Holds(h) /\ candidate'[h] = candidate[h]
      BY Zenon, <2>1 DEF OwnInv
    <2>3. \A k \in Getter : Holds(k)' => k # g
      BY Zenon DEF Holds
    <2> QED  BY Zenon, <1>2, <2>2, <2>3 DEF LoadOwns
  <1>8. ASSUME NEW h \in Worker, NEW s \in doomed'[h] PROVE DoomedOwns(h, s)'
    <2>1. CASE h = g
      BY <1>1, <1>2, <1>3, <1>4, <1>8, <2>1 DEF DoomedOwns
    <2>2. CASE h # g
      <3>1. DoomedOwns(h, s) /\ s \in doomed[h]
        BY Zenon, <1>1, <1>8, <2>2 DEF OwnInv
      <3>2. s # n
        BY Zenon, <1>4, <3>1
      <3> QED  BY Zenon, <1>1, <1>2, <1>3, <3>1, <3>2 DEF DoomedOwns
    <2> QED  BY Zenon, <2>1, <2>2
  <1>9. ASSUME NEW h \in Worker, doomed'[h] # {} PROVE pc'[h] \in {"expiring", "destroying"}
    BY Zenon, <1>1, <1>9 DEF OwnInv
  <1>10. ASSUME NEW s \in alive' PROVE Owned(s)'
    <2>1. Owned(s)
      BY Zenon DEF OwnInv
    <2>2. CASE s = n
      BY Zenon, <1>1, <2>2 DEF Owned
    <2>3. CASE s # n
      BY <1>1, <1>2, <1>3, <1>5, <2>1, <2>3 DEF Owned
    <2> QED  BY Zenon, <2>2, <2>3
  <1> QED  BY <1>6, <1>7, <1>8, <1>9, <1>10, Zenon DEF OwnInv

\* An insertion gives the getter's secret to the cache, and what it replaces or
\* evicts to the getter.
LEMMA OwnersPut ==
    ASSUME OwnInv, NEW g \in Getter, Holds(g), doomed[g] = {}, alive' = alive,
           NEW r \in Reference, NEW K \in SUBSET (Cached \cup {r}), r \in K, Cached' = K,
           entries'[r].secret = candidate[g].secret,
           \A x \in K : x # r => entries'[x] = entries[x],
           doomed \in [Worker -> SUBSET SecretId],
           doomed' = [doomed EXCEPT ![g] =
                        {entries[x].secret : x \in (Cached \ K) \cup ({r} \cap Cached)}],
           pc'[g] = "destroying",
           \A h \in Getter : h # g => (Holds(h)' <=> Holds(h)) /\ candidate'[h] = candidate[h],
           \A h \in Worker : h # g => pc'[h] = pc[h]
    PROVE  OwnInv'
  <1> DEFINE n == candidate[g].secret
             Out == (Cached \ K) \cup ({r} \cap Cached)
             Gone == {entries[x].secret : x \in Out}
  <1>1. g \in Worker /\ doomed'[g] = Gone /\ \A h \in Worker : h # g => doomed'[h] = doomed[h]
    BY Zenon DEF Worker
  <1>2. \A h \in Getter : \A s : GetterOwns(h, s)' <=> GetterOwns(h, s) /\ h # g
    BY Zenon DEF GetterOwns, Holds
  <1>3. /\ n \in alive /\ ~CacheOwns(n)
        /\ \A h \in Getter : GetterOwns(h, n) => h = g
        /\ \A h \in Worker : n \notin doomed[h]
    <2>1. LoadOwns(g) /\ GetterOwns(g, n)
      BY Zenon DEF OwnInv, GetterOwns, Holds
    <2>2. \A h \in Worker : n \notin doomed[h]
      BY Zenon, <2>1 DEF OwnInv, DoomedOwns
    <2> QED  BY Zenon, <2>1, <2>2 DEF LoadOwns, GetterOwns, Holds
  <1>4. \A s : GetterOwns(g, s) => s = n
    BY Zenon DEF GetterOwns
  <1>5. ASSUME NEW s PROVE CacheOwns(s)' <=> s = n \/ \E x \in K : x # r /\ entries[x].secret = s
    BY Zenon DEF CacheOwns
  <1>6. \A x \in K : x # r => x \in Cached /\ x \notin Out
    BY Zenon
  <1>7. \A x \in Cached : x \in Out \/ (x \in K /\ x # r)
    BY Zenon
  <1>8. ASSUME NEW s \in Gone PROVE s \in alive /\ CacheOwns(s) /\ ~CacheOwns(s)'
    <2>1. PICK x \in Out : s = entries[x].secret
      BY Zenon
    <2>2. x \in Cached /\ EntryOwns(x) /\ CacheOwns(s)
      BY Zenon, <2>1 DEF OwnInv, CacheOwns
    <2>3. ASSUME NEW y \in K, y # r PROVE entries[y].secret # s
      BY Zenon, <1>6, <2>1, <2>2, <2>3 DEF EntryOwns
    <2> QED  BY Zenon, <1>3, <1>5, <2>1, <2>2, <2>3 DEF EntryOwns
  <1>9. ASSUME NEW s, CacheOwns(s) PROVE CacheOwns(s)' \/ s \in Gone
    <2>1. PICK x \in Cached : entries[x].secret = s
      BY Zenon, <1>9 DEF CacheOwns
    <2>2. CASE x \in Out
      BY Zenon, <2>1, <2>2
    <2>3. CASE x \in K /\ x # r
      BY Zenon, <1>5, <2>1, <2>3
    <2> QED  BY Zenon, <1>7, <2>2, <2>3
  <1>10. ASSUME NEW s, CacheOwns(s)' PROVE CacheOwns(s) \/ s = n
    BY Zenon, <1>5, <1>6, <1>10 DEF CacheOwns
  <1>11. entries'[r].secret = n
    BY Zenon
  <1>12. \A s : s = n => CacheOwns(s)'
    BY Zenon, <1>5
  <1> HIDE DEF n, Gone, Out
  <1>13. ASSUME NEW x \in Cached' PROVE EntryOwns(x)'
    <2>1. CASE x = r
      <3>1. \A y \in K : y # r => entries'[y].secret # n
        BY Zenon, <1>3, <1>6 DEF CacheOwns
      <3> QED  BY Zenon, <1>3, <1>11, <2>1, <3>1 DEF EntryOwns
    <2>2. CASE x # r
      <3>1. EntryOwns(x) /\ x \in Cached /\ entries'[x] = entries[x]
        BY Zenon, <1>6, <2>2 DEF OwnInv
      <3>2. entries[x].secret # n
        BY Zenon, <1>3, <3>1 DEF CacheOwns
      <3>3. \A y \in K : y # r => y \in Cached /\ entries'[y] = entries[y]
        BY Zenon, <1>6
      <3> QED  BY Zenon, <1>11, <3>1, <3>2, <3>3 DEF EntryOwns
    <2> QED  BY Zenon, <2>1, <2>2
  <1>14. ASSUME NEW h \in Getter PROVE LoadOwns(h)'
    <2> SUFFICES ASSUME Holds(h)' PROVE LoadOwns(h)'
      BY Zenon DEF LoadOwns
    <2>1. h # g
      BY Zenon DEF Holds
    <2>2. LoadOwns(h) /\ Holds(h) /\ candidate'[h] = candidate[h]
      BY Zenon, <2>1 DEF OwnInv
    <2>3. \A k \in Getter : Holds(k)' => k # g
      BY Zenon DEF Holds
    <2>4. candidate[h].secret # n
      BY Zenon, <1>3, <2>1, <2>2 DEF GetterOwns, Holds
    <2> QED  BY Zenon, <1>10, <2>2, <2>3, <2>4 DEF LoadOwns
  <1>15. ASSUME NEW h \in Worker, NEW s \in doomed'[h] PROVE DoomedOwns(h, s)'
    <2>1. CASE h = g
      <3>1. s \in Gone
        BY Zenon, <1>1, <1>15, <2>1
      <3>2. s \in alive /\ CacheOwns(s) /\ ~CacheOwns(s)'
        BY Zenon, <1>8, <3>1
      <3>3. \A k \in Getter : ~GetterOwns(k, s)
        BY <3>2 DEF OwnInv, LoadOwns, GetterOwns, Holds
      <3>4. \A k \in Worker : s \notin doomed[k]
        BY Zenon, <3>2 DEF OwnInv, DoomedOwns
      <3> QED  BY Zenon, <1>1, <1>2, <2>1, <3>2, <3>3, <3>4 DEF DoomedOwns
    <2>2. CASE h # g
      <3>1. DoomedOwns(h, s) /\ s \in doomed[h]
        BY Zenon, <1>1, <1>15, <2>2 DEF OwnInv
      <3>2. s # n /\ s \notin Gone
        BY Zenon, <1>3, <1>8, <3>1 DEF DoomedOwns
      <3> QED  BY Zenon, <1>1, <1>2, <1>10, <3>1, <3>2 DEF DoomedOwns
    <2> QED  BY Zenon, <2>1, <2>2
  <1>16. ASSUME NEW h \in Worker, doomed'[h] # {} PROVE pc'[h] \in {"expiring", "destroying"}
    BY Zenon, <1>1, <1>16 DEF OwnInv
  <1>17. ASSUME NEW s \in alive' PROVE Owned(s)'
    <2>1. Owned(s)
      BY Zenon DEF OwnInv
    <2>2. CASE CacheOwns(s)
      <3>1. CacheOwns(s)' \/ s \in Gone
        BY Zenon, <1>9, <2>2
      <3> QED  BY Zenon, <1>1, <3>1 DEF Owned
    <2>3. CASE \E h \in Getter : GetterOwns(h, s)
      BY <1>2, <1>4, <1>12, <2>3 DEF Owned
    <2>4. CASE \E h \in Worker : s \in doomed[h]
      BY Zenon, <1>1, <2>4 DEF Owned
    <2> QED  BY Zenon, <2>1, <2>2, <2>3, <2>4 DEF Owned
  <1> QED  BY <1>13, <1>14, <1>15, <1>16, <1>17, Zenon DEF OwnInv

-----------------------------------------------------------------------------
(* The steps *)

\* The types of the variables, one by one.
LEMMA Types ==
    ASSUME Typed
    PROVE  /\ clock \in Time /\ version \in [Reference -> Version]
           /\ rotated \in [Reference -> [Version -> Nat]]
           /\ entries \in [Reference -> Stored \cup {NoEntry}]
           /\ lru \in Seq(Reference) /\ closed \in BOOLEAN /\ alive \subseteq SecretId
           /\ pc \in [Worker -> {"idle", "looking", "expiring", "loading", "loaded", "destroying"}]
           /\ now \in [Getter -> Time] /\ started \in [Getter -> Time]
           /\ reference \in [Getter -> Reference]
           /\ candidate \in [Getter -> [secret : SecretId, version : Version] \cup {NoEntry}]
           /\ doomed \in [Worker -> SUBSET SecretId]
           /\ served \in [Getter -> [at : Nat, reference : Reference \cup {None}, version : Version]]
  BY Zenon DEF Typed, TypeOK, Worker

\* An entry of the cache is a stored one.
LEMMA CachedStored ==
    ASSUME Typed, NEW r \in Cached
    PROVE  /\ r \in Reference /\ entries[r] \in Stored /\ entries[r].secret \in SecretId
           /\ entries[r].version \in Version /\ entries[r].expires \in Nat
  <1>1. entries \in [Reference -> Stored \cup {NoEntry}]
    BY Zenon, Types
  <1> QED  BY Zenon, <1>1 DEF Cached, Stored

\* A step that leaves the map and the list alone keeps what holds of them.
LEMMA ListKept ==
    ASSUME ListInv, UNCHANGED cache
    PROVE  ListInv'
  BY DEF ListInv, cache, Cached, Once, Range

\* Get begins.
LEMMA BeginInv ==
    ASSUME CacheAssumption, IInv, NEW g \in Getter, NEW r \in Reference, Begin(g, r)
    PROVE  IInv'
  <1> USE DEF IInv
  <1>1. /\ pc[g] = "idle" /\ now' = [now EXCEPT ![g] = clock]
        /\ reference' = [reference EXCEPT ![g] = r] /\ served' = [served EXCEPT ![g] = Nothing]
        /\ pc' = [pc EXCEPT ![g] = "looking"]
        /\ clock' = clock /\ version' = version /\ rotated' = rotated
        /\ entries' = entries /\ lru' = lru /\ closed' = closed
        /\ alive' = alive /\ started' = started /\ candidate' = candidate /\ doomed' = doomed
    BY Zenon DEF Begin, Goto, backend, cache
  <1>2. g \in Worker
    BY Zenon DEF Worker
  <1>3. \A h \in Worker : pc'[h] = IF h = g THEN "looking" ELSE pc[h]
    BY Zenon, <1>1, Types
  <1>4. Nothing \in [at : Nat, reference : Reference \cup {None}, version : Version]
    BY CacheAssumption DEF Nothing, Version
  <1>5. \A h \in Getter : Holds(h)' <=> Holds(h)
    BY <1>1, <1>3 DEF Holds, Worker
  <1>6. Typed'
    <2>1. /\ pc' \in [Worker -> {"idle", "looking", "expiring", "loading", "loaded", "destroying"}]
          /\ now' \in [Getter -> Time] /\ reference' \in [Getter -> Reference]
          /\ served' \in [Getter -> [at : Nat, reference : Reference \cup {None}, version : Version]]
      BY <1>1, <1>4, Types, Zenon
    <2>2. \A h \in Getter : Holds(h)' => candidate'[h] \in [secret : SecretId, version : Version]
      BY Zenon, <1>1, <1>5 DEF Typed
    <2> QED  BY <1>1, <2>1, <2>2, Types, Zenon DEF Typed, TypeOK, Worker
  <1>7. ListInv'
    BY Zenon, <1>1, ListKept DEF cache
  <1>8. OwnInv'
    <2>1. \A h \in Worker : doomed[h] # {} => pc'[h] \in {"expiring", "destroying"}
      BY Zenon, <1>1, <1>3 DEF OwnInv
    <2> QED  BY Zenon, <1>1, <1>5, <2>1, OwnersKept
  <1>9. RotationInv' /\ EntryInv'
    BY Zenon, <1>1 DEF TimeInv, RotationInv, EntryInv, Cached
  <1>10. LoadInv'
    <2> SUFFICES ASSUME NEW h \in Getter
                 PROVE  /\ now'[h] <= clock
                        /\ Loading(h)' => started[h] <= clock /\ clock <= started[h] + LoadBound
                        /\ Holds(h)' => started[h] <= rotated[reference'[h]][candidate[h].version]
      BY Zenon, <1>1 DEF LoadInv
    <2>1. CASE h = g
      <3>1. now'[h] = clock /\ ~Loading(h)' /\ ~Holds(h)'
        BY Zenon, <1>1, <1>3, <2>1, Types DEF Loading, Holds, Worker
      <3> QED  BY <3>1, Types DEF Time
    <2>2. CASE h # g
      <3>1. /\ now'[h] = now[h] /\ reference'[h] = reference[h]
            /\ Loading(h)' = Loading(h) /\ Holds(h)' = Holds(h)
        BY Zenon, <1>1, <1>3, <2>2, Types DEF Loading, Holds, Worker
      <3> QED  BY Zenon, <3>1 DEF TimeInv, LoadInv
    <2> QED  BY Zenon, <2>1, <2>2
  <1>11. ServedInv'
    <2>1. \A h \in Getter : served'[h] = Nothing \/ served'[h] = served[h]
      BY Zenon, <1>1, Types
    <2> QED  BY Zenon, <1>1, <2>1 DEF TimeInv, ServedInv
  <1> QED  BY Zenon, <1>6, <1>7, <1>8, <1>9, <1>10, <1>11 DEF TimeInv

\* A hit: an unexpired entry is returned and moved to the front.
LEMMA HitFacts ==
    ASSUME CacheAssumption, IInv, NEW g \in Getter, NEW r \in Cached, NEW at \in Time, at <= clock,
           Hit(g, r, at), UNCHANGED backend, closed' = closed, ~closed
    PROVE  /\ entries' = entries /\ lru' \in Seq(Reference) /\ ListInv' /\ ServedInv'
           /\ served' \in [Getter -> [at : Nat, reference : Reference \cup {None}, version : Version]]
  <1> DEFINE new == [at |-> at, reference |-> r, version |-> entries[r].version]
  <1>1. /\ at < entries[r].expires /\ served' = [served EXCEPT ![g] = new]
        /\ lru' = MoveToFront(r) /\ entries' = entries
    BY Zenon DEF Hit, Return
  <1>2. Typed /\ ListInv /\ TimeInv
    BY Zenon DEF IInv
  <1>3. /\ r \in Reference /\ entries[r].version \in Version /\ entries[r].expires \in Nat
    BY Zenon, <1>2, CachedStored
  <1>4. ListInv'
    <2>1. Once(lru) /\ Range(lru) = Cached /\ Len(lru) <= MaxEntries
      BY Zenon, <1>2 DEF ListInv
    <2>2. Cached' = Cached
      BY Zenon, <1>1 DEF Cached
    <2>3. Once(lru') /\ Range(lru') = Cached /\ Len(lru') = Len(lru)
      <3>1. Typed /\ Once(lru) /\ r \in Reference /\ r \in Range(lru)
        BY Zenon, <1>2, <1>3, <2>1
      <3>2. /\ Once(MoveToFront(r)) /\ Range(MoveToFront(r)) = Range(lru) \cup {r}
            /\ Len(MoveToFront(r)) = Len(lru)
        BY Zenon, <3>1, FrontFacts
      <3>3. Range(lru) \cup {r} = Cached
        BY Zenon, <2>1
      <3> QED  BY <1>1, <3>2, <3>3, Zenon
    <2>4. Once(lru)' /\ Range(lru)' = Cached'
      BY Zenon, <2>2, <2>3 DEF Once, Range
    <2> QED  BY Zenon, <2>1, <2>3, <2>4 DEF ListInv
  <1>5. lru' \in Seq(Reference)
    BY Zenon, <1>1, <1>2, <1>3, FrontFacts DEF ListInv
  <1>6. at \in Nat
    BY CacheAssumption DEF Time
  <1>7. new \in [at : Nat, reference : Reference \cup {None}, version : Version]
    BY Zenon, <1>3, <1>6
  <1>8. served' \in [Getter -> [at : Nat, reference : Reference \cup {None}, version : Version]]
    BY Zenon, <1>1, <1>2, <1>7, Types
  <1>9. ServedInv'
    <2>1. clock' = clock /\ rotated' = rotated
      BY Zenon DEF backend
    <2>2. at < rotated[r][entries[r].version] + TTL + LoadBound
      <3>1. entries[r].expires <= rotated[r][entries[r].version] + TTL + LoadBound
        BY Zenon, <1>2 DEF TimeInv, EntryInv
      <3>2. rotated[r][entries[r].version] \in Nat
        BY <1>2, <1>3, Types
      <3> QED  BY <1>1, <1>3, <1>6, <3>1, <3>2, CacheAssumption
    <2>3. new.at = at /\ new.reference = r /\ new.version = entries[r].version
      BY Zenon
    <2>4. served'[g] = new /\ \A h \in Getter : h # g => served'[h] = served[h]
      BY Zenon, <1>1, <1>2, Types
    <2> HIDE DEF new
    <2>5. ASSUME NEW h \in Getter, served'[h] # Nothing
          PROVE  /\ served'[h].reference \in Reference /\ served'[h].at <= clock
                 /\ served'[h].at < rotated[served'[h].reference][served'[h].version] + TTL + LoadBound
      <3>1. CASE h = g
        BY Zenon, <1>3, <2>2, <2>3, <2>4, <3>1
      <3>2. CASE h # g
        BY Zenon, <1>2, <2>4, <2>5, <3>2 DEF TimeInv, ServedInv
      <3> QED  BY Zenon, <3>1, <3>2
    <2> QED  BY <2>1, <2>5, Zenon DEF ServedInv
  <1> QED  BY Zenon, <1>1, <1>4, <1>5, <1>8, <1>9

\* Taking one entry out of the map and off the list.
LEMMA RemoveFacts ==
    ASSUME CacheAssumption, IInv, NEW r \in Cached, removeLocked(r), closed' = closed
    PROVE  /\ entries' \in [Reference -> Stored \cup {NoEntry}] /\ lru' \in Seq(Reference)
           /\ Cached' = Cached \ {r} /\ \A x \in Cached \ {r} : entries'[x] = entries[x]
           /\ ListInv'
  <1>1. entries' = [entries EXCEPT ![r] = NoEntry] /\ lru' = Without(r)
    BY Zenon DEF removeLocked
  <1>2. Typed /\ ListInv /\ r \in Reference
    BY Zenon, CachedStored DEF IInv
  <1>3. entries' \in [Reference -> Stored \cup {NoEntry}]
    BY Zenon, <1>1, <1>2, Types
  <1>4. \A x \in Reference : entries'[x] = IF x = r THEN NoEntry ELSE entries[x]
    BY Zenon, <1>1, <1>2, Types
  <1>5. Cached' = Cached \ {r}
    BY Zenon, <1>4 DEF Cached
  <1>6. \A x \in Cached \ {r} : entries'[x] = entries[x]
    BY Zenon, <1>4 DEF Cached
  <1>7. Once(lru) /\ Range(lru) = Cached /\ Len(lru) <= MaxEntries /\ Len(lru) \in Nat
    BY <1>2, Types DEF ListInv
  <1>8. /\ lru' \in Seq(Reference) /\ Once(lru') /\ Range(lru') = Cached \ {r}
        /\ Len(lru') = Len(lru) - 1
    BY Zenon, <1>1, <1>2, <1>7, WithoutFacts
  <1>9. ~closed
    BY <1>2, <1>7 DEF ListInv, Range
  <1>10. Once(lru)' /\ Range(lru)' = Cached'
    BY Zenon, <1>5, <1>8 DEF Once, Range
  <1>11. Len(lru') <= MaxEntries
    BY <1>7, <1>8, CacheAssumption
  <1> QED  BY Zenon, <1>3, <1>5, <1>6, <1>8, <1>9, <1>10, <1>11 DEF ListInv

\* What remains in the cache is as young as before.
LEMMA EntriesFewer ==
    ASSUME EntryInv, UNCHANGED backend, Cached' \subseteq Cached,
           \A x \in Cached' : entries'[x] = entries[x]
    PROVE  EntryInv'
  BY Zenon DEF EntryInv, backend

\* A step of getters that loads nothing keeps what holds of the loads.
LEMMA LoadsKept ==
    ASSUME CacheAssumption, IInv, UNCHANGED backend,
           \A h \in Getter :
             /\ now'[h] = now[h] \/ now'[h] = 0
             /\ Loading(h)' => \/ Loading(h) /\ started'[h] = started[h]
                               \/ started'[h] = clock
             /\ Holds(h)' => /\ Holds(h) /\ started'[h] = started[h]
                             /\ reference'[h] = reference[h] /\ candidate'[h] = candidate[h]
    PROVE  LoadInv'
  <1>1. clock' = clock /\ rotated' = rotated /\ clock \in Nat /\ LoadBound \in Nat
    BY CacheAssumption, Types DEF backend, IInv, Time
  <1> SUFFICES ASSUME NEW h \in Getter
               PROVE  /\ now'[h] <= clock
                      /\ Loading(h)' => started'[h] <= clock /\ clock <= started'[h] + LoadBound
                      /\ Holds(h)' => started'[h] <= rotated[reference'[h]][candidate'[h].version]
    BY Zenon, <1>1 DEF LoadInv
  <1>2. /\ now[h] <= clock
        /\ Loading(h) => started[h] <= clock /\ clock <= started[h] + LoadBound
        /\ Holds(h) => started[h] <= rotated[reference[h]][candidate[h].version]
    BY Zenon DEF IInv, TimeInv, LoadInv
  <1>3. now'[h] <= clock
    BY <1>1, <1>2
  <1>4. Loading(h)' => started'[h] <= clock /\ clock <= started'[h] + LoadBound
    BY <1>1, <1>2
  <1>5. Holds(h)' => started'[h] <= rotated[reference'[h]][candidate'[h].version]
    BY Zenon, <1>2
  <1> QED  BY Zenon, <1>3, <1>4, <1>5

\* The lookup.
LEMMA LookupInv ==
    ASSUME CacheAssumption, IInv, NEW g \in Getter, Lookup(g)
    PROVE  IInv'
  <1> DEFINE r == reference[g]
  <1>1. /\ pc[g] = "looking" /\ now' = [now EXCEPT ![g] = 0]
        /\ started' = [started EXCEPT ![g] = IF pc'[g] = "loading" THEN clock ELSE 0]
        /\ clock' = clock /\ version' = version /\ rotated' = rotated
        /\ closed' = closed /\ alive' = alive /\ reference' = reference /\ candidate' = candidate
    BY Zenon DEF Lookup, backend
  <1>2. \/ /\ pc' = [pc EXCEPT ![g] = "idle"]
           /\ entries' = entries /\ lru' = lru /\ served' = served /\ doomed' = doomed
        \/ /\ ~closed /\ r \in Cached /\ Hit(g, r, now[g])
           /\ pc' = [pc EXCEPT ![g] = "idle"] /\ doomed' = doomed
        \/ /\ r \in Cached /\ removeLocked(r)
           /\ doomed' = [doomed EXCEPT ![g] = {entries[r].secret}]
           /\ pc' = [pc EXCEPT ![g] = "expiring"] /\ served' = served
        \/ /\ pc' = [pc EXCEPT ![g] = "loading"]
           /\ entries' = entries /\ lru' = lru /\ served' = served /\ doomed' = doomed
    BY Zenon DEF Lookup, Goto
  <1>3. Typed /\ ListInv /\ OwnInv /\ TimeInv /\ g \in Worker /\ r \in Reference
    BY Zenon, Types DEF IInv, Worker
  <1>4. PICK stage \in {"idle", "expiring", "loading"} : pc' = [pc EXCEPT ![g] = stage]
    BY Zenon, <1>2
  <1>5. \A h \in Worker : pc'[h] = IF h = g THEN stage ELSE pc[h]
    BY Zenon, <1>3, <1>4, Types
  <1>6. /\ \A h \in Getter : Holds(h)' <=> Holds(h)
        /\ \A h \in Getter : Loading(h)' => \/ Loading(h) /\ started'[h] = started[h]
                                            \/ started'[h] = clock
        /\ \A h \in Getter : Holds(h) => h # g
    BY Zenon, <1>1, <1>3, <1>4, <1>5, Types DEF Holds, Loading, Worker
  <1>7. doomed[g] = {}
    BY Zenon, <1>1, <1>3 DEF OwnInv
  <1>8. /\ pc' \in [Worker -> {"idle", "looking", "expiring", "loading", "loaded", "destroying"}]
        /\ now' \in [Getter -> Time] /\ started' \in [Getter -> Time]
    <2>1. 0 \in Time
      BY CacheAssumption DEF Time
    <2> QED  BY Zenon, <1>1, <1>3, <1>4, <2>1, Types
  <1>9. \A h \in Getter : Holds(h)' => candidate'[h] \in [secret : SecretId, version : Version]
    BY Zenon, <1>1, <1>3, <1>6 DEF Typed
  <1>10. ASSUME entries' \in [Reference -> Stored \cup {NoEntry}], lru' \in Seq(Reference),
                doomed' \in [Worker -> SUBSET SecretId],
                served' \in [Getter -> [at : Nat, reference : Reference \cup {None}, version : Version]]
         PROVE  Typed'
    BY Zenon, <1>1, <1>3, <1>8, <1>9, <1>10, Types DEF Typed, TypeOK, Worker
  <1>11. RotationInv'
    BY Zenon, <1>1, <1>3 DEF TimeInv, RotationInv
  <1>12. LoadInv'
    <2>1. \A h \in Getter : now'[h] = now[h] \/ now'[h] = 0
      BY Zenon, <1>1, <1>3, Types
    <2>2. \A h \in Getter : Holds(h)' => started'[h] = started[h]
      BY Zenon, <1>1, <1>3, <1>6, Types
    <2> QED  BY Zenon, <1>1, <1>6, <2>1, <2>2, LoadsKept DEF backend
  <1> HIDE DEF r
  <1>13. CASE entries' = entries /\ lru' = lru /\ served' = served /\ doomed' = doomed
    <2>1. Typed'
      BY Zenon, <1>3, <1>10, <1>13, Types
    <2>2. ListInv'
      BY Zenon, <1>1, <1>3, <1>13, ListKept DEF cache
    <2>3. OwnInv'
      <3>1. \A h \in Worker : doomed[h] # {} => pc'[h] \in {"expiring", "destroying"}
        BY Zenon, <1>3, <1>5, <1>7 DEF OwnInv
      <3> QED  BY Zenon, <1>1, <1>3, <1>6, <1>13, <3>1, OwnersKept
    <2>4. EntryInv' /\ ServedInv'
      BY Zenon, <1>1, <1>3, <1>13 DEF TimeInv, EntryInv, ServedInv, Cached
    <2> QED  BY Zenon, <1>11, <1>12, <2>1, <2>2, <2>3, <2>4 DEF IInv, TimeInv
  <1>14. CASE ~closed /\ r \in Cached /\ Hit(g, r, now[g]) /\ doomed' = doomed
    <2>1. now[g] \in Time /\ now[g] <= clock
      BY Zenon, <1>3, Types DEF TimeInv, LoadInv
    <2>2. /\ entries' = entries /\ lru' \in Seq(Reference) /\ ListInv' /\ ServedInv'
          /\ served' \in [Getter -> [at : Nat, reference : Reference \cup {None}, version : Version]]
      BY Zenon, <1>1, <1>14, <2>1, HitFacts DEF backend
    <2>3. Typed'
      BY Zenon, <1>3, <1>10, <1>14, <2>2, Types
    <2>4. OwnInv'
      <3>1. \A h \in Worker : doomed[h] # {} => pc'[h] \in {"expiring", "destroying"}
        BY Zenon, <1>3, <1>5, <1>7 DEF OwnInv
      <3> QED  BY Zenon, <1>1, <1>3, <1>6, <1>14, <2>2, <3>1, OwnersKept
    <2>5. EntryInv'
      BY Zenon, <1>1, <1>3, <2>2 DEF TimeInv, EntryInv, Cached
    <2> QED  BY Zenon, <1>11, <1>12, <2>2, <2>3, <2>4, <2>5 DEF IInv, TimeInv
  <1>15. CASE /\ r \in Cached /\ removeLocked(r) /\ doomed' = [doomed EXCEPT ![g] = {entries[r].secret}]
              /\ pc' = [pc EXCEPT ![g] = "expiring"] /\ served' = served
    <2>1. /\ entries' \in [Reference -> Stored \cup {NoEntry}] /\ lru' \in Seq(Reference)
          /\ Cached' = Cached \ {r} /\ \A x \in Cached \ {r} : entries'[x] = entries[x]
          /\ ListInv'
      BY Zenon, <1>1, <1>15, RemoveFacts
    <2>2. entries[r].secret \in SecretId
      BY Zenon, <1>3, <1>15, CachedStored
    <2>3. Typed'
      <3>1. doomed' \in [Worker -> SUBSET SecretId]
        BY Zenon, <1>3, <1>15, <2>2, Types
      <3> QED  BY Zenon, <1>3, <1>10, <1>15, <2>1, <3>1, Types
    <2>4. OwnInv'
      <3> DEFINE D == {r}
      <3>1. D \in SUBSET Cached /\ {entries[x].secret : x \in D} = {entries[r].secret}
        BY Zenon, <1>15
      <3>2. Cached' = Cached \ D /\ \A x \in Cached \ D : entries'[x] = entries[x]
        BY Zenon, <2>1
      <3>3. doomed' = [doomed EXCEPT ![g] = {entries[x].secret : x \in D}]
        BY <1>15, <3>1, Zenon
      <3>4. pc'[g] = "expiring" /\ \A h \in Worker : h # g => pc'[h] = pc[h]
        BY Zenon, <1>3, <1>15, Types
      <3>5. doomed \in [Worker -> SUBSET SecretId]
        BY Zenon, <1>3, Types
      <3> HIDE DEF D
      <3> QED  BY <1>1, <1>3, <1>6, <1>7, <3>1, <3>2, <3>3, <3>4, <3>5, OwnersDetach, Zenon
    <2>5. EntryInv'
      BY Zenon, <1>1, <1>3, <2>1, EntriesFewer DEF TimeInv, backend
    <2>6. ServedInv'
      BY Zenon, <1>1, <1>3, <1>15 DEF TimeInv, ServedInv
    <2> QED  BY Zenon, <1>11, <1>12, <2>1, <2>3, <2>4, <2>5, <2>6 DEF IInv, TimeInv
  <1> QED  BY Zenon, <1>2, <1>13, <1>14, <1>15

\* Zeroing after the unlock, and the load that fails.
LEMMA DestroyInv ==
    ASSUME CacheAssumption, IInv, NEW g \in Getter, Destroy(g) \/ LoadFails(g)
    PROVE  IInv'
  <1>1. /\ clock' = clock /\ version' = version /\ rotated' = rotated
        /\ entries' = entries /\ lru' = lru /\ closed' = closed
        /\ now' = now /\ reference' = reference /\ candidate' = candidate /\ served' = served
    BY Zenon DEF Destroy, LoadFails, backend, cache
  <1>2. PICK stage \in {"idle", "loading"}, at \in {0, clock} :
          /\ pc' = [pc EXCEPT ![g] = stage] /\ started' = [started EXCEPT ![g] = at]
          /\ stage = "loading" => at = clock
          /\ pc[g] \in {"expiring", "destroying", "loading"}
          /\ \/ alive' = alive \ doomed[g] /\ doomed' = [doomed EXCEPT ![g] = {}]
             \/ pc[g] = "loading" /\ alive' = alive /\ doomed' = doomed
    <2>1. CASE Destroy(g)
      <3>1. CASE pc[g] = "expiring"
        BY Zenon, <2>1, <3>1 DEF Destroy, Goto
      <3>2. CASE pc[g] = "destroying"
        BY Zenon, <2>1, <3>2 DEF Destroy, Goto
      <3> QED  BY Zenon, <2>1, <3>1, <3>2 DEF Destroy
    <2>2. CASE LoadFails(g)
      BY Zenon, <2>2 DEF LoadFails, Goto
    <2> QED  BY Zenon, <2>1, <2>2
  <1>3. Typed /\ ListInv /\ OwnInv /\ TimeInv /\ g \in Worker
    BY Zenon DEF IInv, Worker
  <1>4. \A h \in Worker : pc'[h] = IF h = g THEN stage ELSE pc[h]
    BY Zenon, <1>2, <1>3, Types
  <1>5. /\ \A h \in Getter : Holds(h)' <=> Holds(h)
        /\ \A h \in Getter : Holds(h) => h # g
    BY Zenon, <1>2, <1>3, <1>4 DEF Holds, Worker
  <1>6. \A h \in Getter : started'[h] = IF h = g THEN at ELSE started[h]
    BY Zenon, <1>2, <1>3, Types
  <1>7. Typed'
    <2>1. at \in Time
      BY <1>3, CacheAssumption, Types DEF Time
    <2>2. /\ pc' \in [Worker -> {"idle", "looking", "expiring", "loading", "loaded", "destroying"}]
          /\ started' \in [Getter -> Time]
      BY Zenon, <1>2, <1>3, <2>1, Types
    <2>3. doomed' \in [Worker -> SUBSET SecretId] /\ alive' \subseteq SecretId
      BY <1>2, <1>3, Types, Zenon
    <2>4. \A h \in Getter : Holds(h)' => candidate'[h] \in [secret : SecretId, version : Version]
      BY Zenon, <1>1, <1>3, <1>5 DEF Typed
    <2> QED  BY <1>1, <1>3, <2>2, <2>3, <2>4, Types, Zenon DEF Typed, TypeOK, Worker
  <1>8. ListInv'
    BY Zenon, <1>1, <1>3, ListKept DEF cache
  <1>9. OwnInv'
    <2>1. doomed \in [Worker -> SUBSET SecretId]
      BY Zenon, <1>3, Types
    <2>2. CASE alive' = alive \ doomed[g] /\ doomed' = [doomed EXCEPT ![g] = {}]
      <3>1. \A h \in Worker : h # g => pc'[h] = pc[h]
        BY Zenon, <1>4
      <3> QED  BY <1>1, <1>3, <1>5, <2>1, <2>2, <3>1, OwnersZero, Zenon
    <2>3. CASE pc[g] = "loading" /\ alive' = alive /\ doomed' = doomed
      <3>1. \A h \in Worker : doomed[h] # {} => pc'[h] \in {"expiring", "destroying"}
        BY Zenon, <1>3, <1>4, <2>3 DEF OwnInv
      <3> QED  BY Zenon, <1>1, <1>3, <1>5, <2>3, <3>1, OwnersKept
    <2> QED  BY Zenon, <1>2, <2>2, <2>3
  <1>10. RotationInv' /\ EntryInv' /\ ServedInv'
    BY Zenon, <1>1, <1>3 DEF TimeInv, RotationInv, EntryInv, ServedInv, Cached
  <1>11. LoadInv'
    <2>1. \A h \in Getter : Loading(h)' => \/ Loading(h) /\ started'[h] = started[h]
                                           \/ started'[h] = clock
      BY Zenon, <1>2, <1>4, <1>6 DEF Loading, Worker
    <2> QED  BY Zenon, <1>1, <1>5, <1>6, <2>1, LoadsKept DEF backend
  <1> QED  BY Zenon, <1>7, <1>8, <1>9, <1>10, <1>11 DEF IInv, TimeInv

\* The load: what it returns is not older than its start.
LEMMA LoadStepInv ==
    ASSUME CacheAssumption, IInv, NEW g \in Getter, Load(g)
    PROVE  IInv'
  <1> DEFINE r == reference[g]
  <1>1. Typed /\ ListInv /\ OwnInv /\ TimeInv /\ g \in Worker /\ r \in Reference
    BY Zenon, Types DEF IInv, Worker
  <1>2. PICK n \in SecretId \ alive :
          /\ alive' = alive \cup {n}
          /\ candidate' = [candidate EXCEPT ![g] = [secret |-> n, version |-> version[r]]]
    <2> DEFINE n == CHOOSE s \in SecretId : s \notin alive
    <2>1. \E s \in SecretId : s \notin alive
      <3>1. alive \subseteq SecretId /\ SecretId # alive
        BY Zenon, <1>1, Types DEF Load
      <3> QED  BY Zenon, <3>1
    <2>2. n \in SecretId /\ n \notin alive
      BY Zenon, <2>1
    <2> QED  BY <2>2, Zenon DEF Load
  <1>3. /\ pc[g] = "loading" /\ pc' = [pc EXCEPT ![g] = "loaded"]
        /\ clock' = clock /\ version' = version /\ rotated' = rotated
        /\ entries' = entries /\ lru' = lru /\ closed' = closed
        /\ now' = now /\ reference' = reference /\ started' = started
        /\ doomed' = doomed /\ served' = served
    BY Zenon DEF Load, Goto, backend, cache
  <1>4. \A h \in Worker : pc'[h] = IF h = g THEN "loaded" ELSE pc[h]
    BY Zenon, <1>1, <1>3, Types
  <1>5. version[r] \in Version
    BY Zenon, <1>1, Types
  <1>6. \A h \in Getter :
          candidate'[h] = IF h = g THEN [secret |-> n, version |-> version[r]] ELSE candidate[h]
    BY Zenon, <1>1, <1>2, Types
  <1>7. candidate'[g].secret = n /\ candidate'[g].version = version[r]
    BY <1>6
  <1>8. ~Holds(g) /\ Holds(g)' /\ \A h \in Getter : h # g => (Holds(h)' <=> Holds(h))
    BY Zenon, <1>3, <1>4 DEF Holds, Worker
  <1>9. Typed'
    <2>1. [secret |-> n, version |-> version[r]] \in [secret : SecretId, version : Version]
      BY Zenon, <1>5
    <2>2. candidate' \in [Getter -> [secret : SecretId, version : Version] \cup {NoEntry}]
      BY Zenon, <1>1, <1>2, <2>1, Types
    <2>3. /\ pc' \in [Worker -> {"idle", "looking", "expiring", "loading", "loaded", "destroying"}]
          /\ alive' \subseteq SecretId
      BY Zenon, <1>1, <1>2, <1>3, Types
    <2>4. ASSUME NEW h \in Getter, Holds(h)'
          PROVE  candidate'[h] \in [secret : SecretId, version : Version]
      <3>1. CASE h = g
        BY Zenon, <1>6, <2>1, <3>1
      <3>2. CASE h # g
        BY Zenon, <1>1, <1>6, <1>8, <2>4, <3>2 DEF Typed
      <3> QED  BY Zenon, <3>1, <3>2
    <2> QED  BY Zenon, <1>1, <1>3, <2>2, <2>3, <2>4, Types DEF Typed, TypeOK, Worker
  <1>10. ListInv'
    BY Zenon, <1>1, <1>3, ListKept DEF cache
  <1>11. OwnInv'
    <2>1. doomed[g] = {}
      BY Zenon, <1>1, <1>3 DEF OwnInv
    <2>2. \A h \in Worker : h # g => pc'[h] = pc[h]
      BY Zenon, <1>4
    <2>3. \A h \in Getter : h # g => candidate'[h] = candidate[h]
      BY Zenon, <1>6
    <2> QED  BY Zenon, <1>1, <1>2, <1>3, <1>7, <1>8, <2>1, <2>2, <2>3, OwnersLoad
  <1>12. RotationInv' /\ EntryInv' /\ ServedInv'
    BY Zenon, <1>1, <1>3 DEF TimeInv, RotationInv, EntryInv, ServedInv, Cached
  <1>13. LoadInv'
    <2> SUFFICES ASSUME NEW h \in Getter
                 PROVE  /\ now[h] <= clock
                        /\ Loading(h)' => started[h] <= clock /\ clock <= started[h] + LoadBound
                        /\ Holds(h)' => started[h] <= rotated[reference[h]][candidate'[h].version]
      BY Zenon, <1>3 DEF LoadInv
    <2>1. /\ now[h] <= clock
          /\ Loading(h) => started[h] <= clock /\ clock <= started[h] + LoadBound
          /\ Holds(h) => started[h] <= rotated[reference[h]][candidate[h].version]
      BY Zenon, <1>1 DEF TimeInv, LoadInv
    <2>2. Loading(h)' => Loading(h)
      BY Zenon, <1>3, <1>4 DEF Loading, Worker
    <2>3. CASE h = g
      <3>1. rotated[r][version[r]] = Never
        <4>1. version[r] >= version[r]
          BY <1>5, CacheAssumption DEF Version
        <4> QED  BY Zenon, <1>1, <1>5, <4>1 DEF TimeInv, RotationInv
      <3>2. started[g] <= Never
        <4>1. started[g] \in 0..MaxTime
          BY Zenon, <1>1, Types DEF Time
        <4> QED  BY <4>1, CacheAssumption DEF Never
      <3> QED  BY Zenon, <1>7, <2>1, <2>2, <2>3, <3>1, <3>2
    <2>4. CASE h # g
      BY Zenon, <1>6, <1>8, <2>1, <2>2, <2>4
    <2> QED  BY Zenon, <2>3, <2>4
  <1> QED  BY Zenon, <1>9, <1>10, <1>11, <1>12, <1>13 DEF IInv, TimeInv

\* The insertion: what is in the map and on the list after it, what is to be zeroed,
\* and how old the value can be.
LEMMA PutFacts ==
    ASSUME CacheAssumption, IInv, NEW g \in Getter, Holds(g), ~closed, closed' = closed,
           UNCHANGED backend, Put(g, reference[g], clock)
    PROVE  /\ entries' \in [Reference -> Stored \cup {NoEntry}] /\ lru' \in Seq(Reference)
           /\ served' \in [Getter -> [at : Nat, reference : Reference \cup {None}, version : Version]]
           /\ reference[g] \in Cached' /\ Cached' \subseteq Cached \cup {reference[g]}
           /\ entries'[reference[g]].secret = candidate[g].secret
           /\ \A x \in Cached' : x # reference[g] => entries'[x] = entries[x]
           /\ doomed' = [doomed EXCEPT ![g] = {entries[x].secret :
                            x \in (Cached \ Cached') \cup ({reference[g]} \cap Cached)}]
           /\ ListInv' /\ EntryInv' /\ ServedInv'
  <1> DEFINE r == reference[g]
             n == candidate[g]
             pushed == MoveToFront(r)
             kept == SubSeq(pushed, 1, IF Len(pushed) > MaxEntries THEN MaxEntries ELSE Len(pushed))
             e == [secret |-> n.secret, version |-> n.version, expires |-> clock + TTL]
             a == [at |-> clock, reference |-> r, version |-> n.version]
  <1>1. /\ lru' = kept
        /\ entries' = [x \in Reference |-> IF x \notin Range(kept) THEN NoEntry
                                           ELSE IF x = r THEN e ELSE entries[x]]
        /\ doomed' = [doomed EXCEPT ![g] = {entries[x].secret :
                         x \in (Cached \ Range(kept)) \cup ({r} \cap Cached)}]
        /\ served' = [served EXCEPT ![g] = a]
    BY Zenon DEF Put, Return
  <1>2. Typed /\ ListInv /\ TimeInv /\ r \in Reference
    BY Zenon, Types DEF IInv
  <1>3. n.secret \in SecretId /\ n.version \in Version
    BY Zenon, <1>2 DEF Typed
  <1>4. clock \in Nat /\ clock' = clock /\ rotated' = rotated /\ TTL \in Nat /\ LoadBound \in Nat
    BY <1>2, CacheAssumption, Types DEF Time, backend
  <1>5. e \in Stored /\ e # NoEntry /\ e.secret = n.secret /\ e.version = n.version /\ e.expires = clock + TTL
    <2>1. e \in Stored
      BY <1>3, <1>4 DEF Stored
    <2>2. e.secret = n.secret /\ e.version = n.version /\ e.expires = clock + TTL
      BY Zenon
    <2>3. n.secret # None /\ NoEntry.secret = None
      BY Zenon, <1>3, CacheAssumption DEF NoEntry
    <2> HIDE DEF e
    <2> QED  BY Zenon, <2>1, <2>2, <2>3
  <1>6. a \in [at : Nat, reference : Reference \cup {None}, version : Version]
    BY Zenon, <1>2, <1>3, <1>4
  <1>7. a.at = clock /\ a.reference = r /\ a.version = n.version
    BY Zenon
  <1>8. Once(lru) /\ Range(lru) = Cached /\ Len(lru) \in Nat
    BY <1>2, Types DEF ListInv
  <1> HIDE DEF a, e, n, r
  <1>9. /\ pushed \in Seq(Reference) /\ Once(pushed) /\ Range(pushed) = Cached \cup {r}
        /\ pushed[1] = r /\ Len(pushed) > 0
    <2>1. /\ pushed \in Seq(Reference) /\ Once(pushed) /\ Range(pushed) = Range(lru) \cup {r}
          /\ pushed[1] = r
      <3>1. Typed /\ Once(lru) /\ r \in Reference
        BY Zenon, <1>2, <1>8
      <3> QED  BY Zenon, <3>1, FrontFacts
    <2> HIDE DEF pushed
    <2>2. Len(pushed) > 0
      <3>1. r \in Range(pushed)
        BY Zenon, <2>1
      <3> QED  BY <2>1, <3>1 DEF Range
    <2> QED  BY Zenon, <1>8, <2>1, <2>2
  <1> HIDE DEF pushed
  <1>10. /\ kept \in Seq(Reference) /\ Once(kept) /\ Len(kept) <= MaxEntries
         /\ Range(kept) \subseteq Cached \cup {r} /\ r \in Range(kept)
    BY Zenon, <1>9, CutOnce, CacheAssumption
  <1> HIDE DEF kept
  <1>11. entries \in [Reference -> Stored \cup {NoEntry}]
    BY Zenon, <1>2, Types
  <1>12. entries' \in [Reference -> Stored \cup {NoEntry}]
    BY Zenon, <1>1, <1>5, <1>11
  <1>13. Cached' = Range(kept)
    <2>1. ASSUME NEW x \in Reference PROVE entries'[x] # NoEntry <=> x \in Range(kept)
      BY Zenon, <1>1, <1>5, <1>10 DEF Cached
    <2>2. Range(kept) \subseteq Reference
      BY Zenon, <1>2, <1>10 DEF Cached
    <2> QED  BY Zenon, <2>1, <2>2 DEF Cached
  <1>14. entries'[r] = e /\ \A x \in Range(kept) : x # r => x \in Cached /\ entries'[x] = entries[x]
    BY Zenon, <1>1, <1>2, <1>10 DEF Cached
  <1>15. ListInv'
    <2>1. Once(lru)' /\ Range(lru)' = Cached'
      BY Zenon, <1>1, <1>10, <1>13 DEF Once, Range
    <2> QED  BY Zenon, <1>1, <1>10, <2>1 DEF ListInv
  <1>16. /\ rotated[r][n.version] \in Nat
         /\ clock <= rotated[r][n.version] + LoadBound
    <2>1. started[g] <= rotated[r][n.version] /\ clock <= started[g] + LoadBound
      BY Zenon, <1>2 DEF TimeInv, LoadInv, Loading, Holds, r, n
    <2>2. started[g] \in Nat
      BY <1>2, CacheAssumption, Types DEF Time
    <2>3. rotated[r][n.version] \in Nat
      BY <1>2, <1>3, Types
    <2> QED  BY <1>4, <2>1, <2>2, <2>3
  <1>17. EntryInv'
    <2> SUFFICES ASSUME NEW x \in Cached'
                 PROVE  /\ entries'[x].expires <= clock + TTL
                        /\ entries'[x].expires <= rotated[x][entries'[x].version] + TTL + LoadBound
      BY Zenon, <1>4 DEF EntryInv
    <2>1. CASE x = r
      <3>1. entries'[x].expires = clock + TTL /\ entries'[x].version = n.version
        BY Zenon, <1>5, <1>14, <2>1
      <3>2. clock + TTL <= rotated[r][n.version] + TTL + LoadBound
        BY <1>4, <1>16
      <3> QED  BY <1>4, <2>1, <3>1, <3>2
    <2>2. CASE x # r
      BY Zenon, <1>2, <1>13, <1>14, <2>2 DEF TimeInv, EntryInv
    <2> QED  BY Zenon, <2>1, <2>2
  <1>18. ServedInv'
    <2>1. served'[g] = a /\ \A h \in Getter : h # g => served'[h] = served[h]
      BY Zenon, <1>1, <1>2, Types
    <2>2. ASSUME NEW h \in Getter, served'[h] # Nothing
          PROVE  /\ served'[h].reference \in Reference /\ served'[h].at <= clock
                 /\ served'[h].at < rotated[served'[h].reference][served'[h].version] + TTL + LoadBound
      <3>1. CASE h = g
        <4>1. clock < rotated[r][n.version] + TTL + LoadBound
          BY <1>4, <1>16, CacheAssumption
        <4> QED  BY <1>2, <1>4, <1>7, <2>1, <3>1, <4>1
      <3>2. CASE h # g
        BY Zenon, <1>2, <2>1, <2>2, <3>2 DEF TimeInv, ServedInv
      <3> QED  BY Zenon, <3>1, <3>2
    <2> QED  BY <1>4, <2>2, Zenon DEF ServedInv
  <1>19. served' \in [Getter -> [at : Nat, reference : Reference \cup {None}, version : Version]]
    BY Zenon, <1>1, <1>2, <1>6, Types
  <1>20. entries'[r].secret = candidate[g].secret
    BY Zenon, <1>5, <1>14 DEF n
  <1> QED  BY Zenon, <1>1, <1>10, <1>12, <1>13, <1>14, <1>15, <1>17, <1>18, <1>19, <1>20 DEF r

\* The insertion, or the discovery that it is not needed or no longer possible.
LEMMA InsertInv ==
    ASSUME CacheAssumption, IInv, NEW g \in Getter, Insert(g)
    PROVE  IInv'
  <1> DEFINE r == reference[g]
  <1>1. /\ pc[g] = "loaded" /\ pc' = [pc EXCEPT ![g] = "destroying"]
        /\ candidate' = [candidate EXCEPT ![g] = NoEntry] /\ started' = [started EXCEPT ![g] = 0]
        /\ clock' = clock /\ version' = version /\ rotated' = rotated
        /\ closed' = closed /\ alive' = alive /\ now' = now /\ reference' = reference
    BY Zenon DEF Insert, Goto, backend
  <1>2. \/ Discard(g) /\ entries' = entries /\ lru' = lru /\ served' = served
        \/ ~closed /\ r \in Cached /\ Hit(g, r, clock) /\ Discard(g)
        \/ ~closed /\ Put(g, r, clock)
    BY Zenon DEF Insert
  <1>3. Typed /\ ListInv /\ OwnInv /\ TimeInv /\ g \in Worker /\ r \in Reference /\ Holds(g)
    BY Zenon, <1>1, Types DEF IInv, Worker, Holds
  <1>4. \A h \in Worker : pc'[h] = IF h = g THEN "destroying" ELSE pc[h]
    BY Zenon, <1>1, <1>3, Types
  <1>5. /\ \A h \in Getter : h # g => (Holds(h)' <=> Holds(h)) /\ candidate'[h] = candidate[h]
        /\ ~Holds(g)' /\ pc'[g] = "destroying" /\ \A h \in Worker : h # g => pc'[h] = pc[h]
    BY Zenon, <1>1, <1>3, <1>4, Types DEF Holds, Worker
  <1>6. doomed[g] = {} /\ doomed \in [Worker -> SUBSET SecretId]
    BY <1>1, <1>3, Types, Zenon DEF OwnInv
  <1>7. candidate[g].secret \in SecretId
    BY Zenon, <1>3 DEF Typed
  <1>8. ASSUME entries' \in [Reference -> Stored \cup {NoEntry}], lru' \in Seq(Reference),
               doomed' \in [Worker -> SUBSET SecretId],
               served' \in [Getter -> [at : Nat, reference : Reference \cup {None}, version : Version]]
        PROVE  Typed'
    <2>1. 0 \in Time
      BY CacheAssumption DEF Time
    <2>2. /\ pc' \in [Worker -> {"idle", "looking", "expiring", "loading", "loaded", "destroying"}]
          /\ started' \in [Getter -> Time]
          /\ candidate' \in [Getter -> [secret : SecretId, version : Version] \cup {NoEntry}]
      BY Zenon, <1>1, <1>3, <2>1, Types
    <2>3. ASSUME NEW h \in Getter, Holds(h)'
          PROVE  candidate'[h] \in [secret : SecretId, version : Version]
      <3>1. Holds(h) /\ candidate'[h] = candidate[h]
        BY Zenon, <1>5, <2>3
      <3> QED  BY Zenon, <1>3, <3>1 DEF Typed
    <2> QED  BY <1>1, <1>3, <1>8, <2>2, <2>3, Types, Zenon DEF Typed, TypeOK, Worker
  <1>9. RotationInv'
    BY Zenon, <1>1, <1>3 DEF TimeInv, RotationInv
  <1>10. LoadInv'
    <2>1. \A h \in Getter : h # g => started'[h] = started[h]
      BY Zenon, <1>1, <1>3, Types
    <2>2. ~Loading(g)' /\ \A h \in Getter : h # g => (Loading(h)' <=> Loading(h))
      BY Zenon, <1>4 DEF Loading, Worker
    <2> QED  BY Zenon, <1>1, <1>5, <2>1, <2>2, LoadsKept DEF backend
  <1>11. CASE Discard(g) /\ entries' = entries
    <2>1. doomed' = [doomed EXCEPT ![g] = {candidate[g].secret}]
      BY Zenon, <1>11 DEF Discard
    <2>2. doomed' \in [Worker -> SUBSET SecretId]
      BY <1>6, <1>7, <2>1, Zenon
    <2>3. OwnInv'
      BY <1>1, <1>3, <1>5, <1>6, <1>11, <2>1, OwnersDiscard, Zenon
    <2>4. EntryInv'
      BY Zenon, <1>1, <1>3, <1>11 DEF TimeInv, EntryInv, Cached
    <2>5. CASE lru' = lru /\ served' = served
      <3>1. Typed'
        BY Zenon, <1>3, <1>8, <1>11, <2>2, <2>5, Types
      <3>2. ListInv' /\ ServedInv'
        BY Zenon, <1>1, <1>3, <1>11, <2>5, ListKept DEF cache, TimeInv, ServedInv
      <3> QED  BY Zenon, <1>9, <1>10, <2>3, <2>4, <3>1, <3>2 DEF IInv, TimeInv
    <2>6. CASE ~closed /\ r \in Cached /\ Hit(g, r, clock)
      <3>1. clock \in Time /\ clock <= clock
        BY <1>3, CacheAssumption, Types DEF Time
      <3>2. /\ lru' \in Seq(Reference) /\ ListInv' /\ ServedInv'
            /\ served' \in [Getter -> [at : Nat, reference : Reference \cup {None}, version : Version]]
        BY Zenon, <1>1, <2>6, <3>1, HitFacts DEF backend
      <3>3. Typed'
        BY Zenon, <1>3, <1>8, <1>11, <2>2, <3>2, Types
      <3> QED  BY Zenon, <1>9, <1>10, <2>3, <2>4, <3>2, <3>3 DEF IInv, TimeInv
    <2>7. (lru' = lru /\ served' = served) \/ (~closed /\ r \in Cached /\ Hit(g, r, clock))
          \/ (~closed /\ Put(g, r, clock))
      <3> HIDE DEF r
      <3> QED  BY Zenon, <1>2
    <2>8. CASE ~closed /\ Put(g, r, clock)
      <3>1. /\ lru' \in Seq(Reference) /\ ListInv' /\ ServedInv'
            /\ served' \in [Getter -> [at : Nat, reference : Reference \cup {None}, version : Version]]
        BY Zenon, <1>1, <1>3, <2>8, PutFacts DEF backend
      <3>2. Typed'
        BY Zenon, <1>3, <1>8, <1>11, <2>2, <3>1, Types
      <3> QED  BY Zenon, <1>9, <1>10, <2>3, <2>4, <3>1, <3>2 DEF IInv, TimeInv
    <2> QED  BY Zenon, <2>5, <2>6, <2>7, <2>8
  <1>12. CASE ~closed /\ Put(g, r, clock)
    <2>1. /\ entries' \in [Reference -> Stored \cup {NoEntry}] /\ lru' \in Seq(Reference)
          /\ served' \in [Getter -> [at : Nat, reference : Reference \cup {None}, version : Version]]
          /\ r \in Cached' /\ Cached' \subseteq Cached \cup {r}
          /\ entries'[r].secret = candidate[g].secret
          /\ \A x \in Cached' : x # r => entries'[x] = entries[x]
          /\ doomed' = [doomed EXCEPT ![g] = {entries[x].secret :
                           x \in (Cached \ Cached') \cup ({r} \cap Cached)}]
          /\ ListInv' /\ EntryInv' /\ ServedInv'
      BY Zenon, <1>1, <1>3, <1>12, PutFacts DEF backend
    <2>2. doomed' \in [Worker -> SUBSET SecretId]
      <3>1. \A x \in Cached : entries[x].secret \in SecretId
        BY Zenon, <1>3, CachedStored
      <3> DEFINE Gone == {entries[x].secret : x \in (Cached \ Cached') \cup ({r} \cap Cached)}
      <3>2. Gone \in SUBSET SecretId
        BY Zenon, <3>1
      <3>3. doomed' = [doomed EXCEPT ![g] = Gone]
        BY Zenon, <2>1
      <3> HIDE DEF Gone
      <3> QED  BY <1>6, <3>2, <3>3, Zenon
    <2>3. Typed'
      BY Zenon, <1>8, <2>1, <2>2
    <2>4. OwnInv'
      <3> HIDE DEF r
      <3>0. PICK K : K = Cached'
        BY Zenon
      <3>1. K \in SUBSET (Cached \cup {r}) /\ r \in K /\ Cached' = K
        BY Zenon, <2>1, <3>0
      <3>2. \A x \in K : x # r => entries'[x] = entries[x]
        BY Zenon, <2>1, <3>0
      <3>3. doomed' = [doomed EXCEPT ![g] = {entries[x].secret : x \in (Cached \ K) \cup ({r} \cap Cached)}]
        BY Zenon, <2>1, <3>0
      <3>4. r \in Reference /\ alive' = alive /\ entries'[r].secret = candidate[g].secret
        BY Zenon, <1>1, <1>3, <2>1
      <3>5. OwnInv /\ Holds(g)
        BY Zenon, <1>3
      <3> QED  BY <1>5, <1>6, <3>1, <3>2, <3>3, <3>4, <3>5, OwnersPut
    <2> QED  BY Zenon, <1>9, <1>10, <2>1, <2>3, <2>4 DEF IInv, TimeInv
  <1>13. ASSUME ~closed, r \in Cached, Hit(g, r, clock) PROVE entries' = entries
    BY Zenon, <1>13 DEF Hit
  <1> QED  BY Zenon, <1>2, <1>11, <1>12, <1>13

\* What a step of the goroutine that invalidates, purges or closes leaves alone.
LEMMA CloserFrame ==
    ASSUME CacheAssumption, IInv, NEW stage \in {"idle", "destroying"},
           pc' = [pc EXCEPT ![Closer] = stage], UNCHANGED <<backend, getting>>
    PROVE  /\ Closer \in Worker /\ pc'[Closer] = stage
           /\ \A h \in Worker : h # Closer => pc'[h] = pc[h]
           /\ \A h \in Getter : (Holds(h)' <=> Holds(h)) /\ (Loading(h)' <=> Loading(h))
           /\ \A h \in Getter : candidate'[h] = candidate[h]
           /\ RotationInv' /\ LoadInv' /\ ServedInv'
           /\ entries' \in [Reference -> Stored \cup {NoEntry}] /\ lru' \in Seq(Reference)
                /\ closed' \in BOOLEAN /\ alive' \subseteq SecretId
                /\ doomed' \in [Worker -> SUBSET SecretId] => Typed'
  <1>1. /\ clock' = clock /\ version' = version /\ rotated' = rotated /\ now' = now
        /\ reference' = reference /\ started' = started /\ candidate' = candidate /\ served' = served
    BY Zenon DEF backend, getting
  <1>2. Typed /\ TimeInv /\ Closer \in Worker
    BY Zenon DEF IInv, Worker
  <1>3. \A h \in Worker : pc'[h] = IF h = Closer THEN stage ELSE pc[h]
    BY Zenon, <1>2, Types
  <1>4. \A h \in Getter : h \in Worker /\ h # Closer
    BY Zenon, CacheAssumption DEF Worker
  <1>5. \A h \in Getter : (Holds(h)' <=> Holds(h)) /\ (Loading(h)' <=> Loading(h))
    BY Zenon, <1>3, <1>4 DEF Holds, Loading
  <1>6. RotationInv' /\ ServedInv'
    BY Zenon, <1>1, <1>2 DEF TimeInv, RotationInv, ServedInv
  <1>7. LoadInv'
    BY Zenon, <1>1, <1>5, LoadsKept DEF backend
  <1>8. ASSUME entries' \in [Reference -> Stored \cup {NoEntry}], lru' \in Seq(Reference),
               closed' \in BOOLEAN, alive' \subseteq SecretId, doomed' \in [Worker -> SUBSET SecretId]
        PROVE  Typed'
    <2>1. pc' \in [Worker -> {"idle", "looking", "expiring", "loading", "loaded", "destroying"}]
      BY Zenon, <1>2, Types
    <2>2. \A h \in Getter : Holds(h)' => candidate'[h] \in [secret : SecretId, version : Version]
      BY Zenon, <1>1, <1>2, <1>5 DEF Typed
    <2> QED  BY Zenon, <1>1, <1>2, <1>8, <2>1, <2>2, Types DEF Typed, TypeOK, Worker
  <1> QED  BY Zenon, <1>1, <1>2, <1>3, <1>5, <1>6, <1>7, <1>8

\* Invalidate.
LEMMA InvalidateInv ==
    ASSUME CacheAssumption, IInv, NEW r \in Reference, Invalidate(r)
    PROVE  IInv'
  <1>1. /\ pc[Closer] = "idle" /\ r \in Cached /\ removeLocked(r)
        /\ doomed' = [doomed EXCEPT ![Closer] = {entries[r].secret}]
        /\ pc' = [pc EXCEPT ![Closer] = "destroying"]
        /\ closed' = closed /\ alive' = alive /\ UNCHANGED <<backend, getting>>
    BY Zenon DEF Invalidate, Goto
  <1>2. Typed /\ OwnInv /\ TimeInv
    BY Zenon DEF IInv
  <1>3. /\ entries' \in [Reference -> Stored \cup {NoEntry}] /\ lru' \in Seq(Reference)
        /\ Cached' = Cached \ {r} /\ \A x \in Cached \ {r} : entries'[x] = entries[x]
        /\ ListInv'
    BY Zenon, <1>1, RemoveFacts
  <1>4. /\ Closer \in Worker /\ pc'[Closer] = "destroying"
        /\ \A h \in Worker : h # Closer => pc'[h] = pc[h]
        /\ \A h \in Getter : (Holds(h)' <=> Holds(h)) /\ candidate'[h] = candidate[h]
        /\ RotationInv' /\ LoadInv' /\ ServedInv'
    BY Zenon, <1>1, CloserFrame
  <1>5. doomed' \in [Worker -> SUBSET SecretId] /\ doomed \in [Worker -> SUBSET SecretId]
    <2>1. entries[r].secret \in SecretId
      BY Zenon, <1>1, <1>2, CachedStored
    <2> QED  BY Zenon, <1>1, <1>2, <1>4, <2>1, Types
  <1>6. Typed'
    <2>1. closed' \in BOOLEAN /\ alive' \subseteq SecretId
      BY Zenon, <1>1, <1>2, Types
    <2> QED  BY Zenon, <1>1, <1>3, <1>5, <2>1, CloserFrame
  <1>7. OwnInv'
    <2>1. doomed[Closer] = {}
      BY Zenon, <1>1, <1>2, <1>4 DEF OwnInv
    <2> DEFINE D == {r}
    <2>2. D \in SUBSET Cached /\ {entries[x].secret : x \in D} = {entries[r].secret}
      BY Zenon, <1>1
    <2>3. Cached' = Cached \ D /\ \A x \in Cached \ D : entries'[x] = entries[x]
      BY Zenon, <1>3
    <2>4. doomed' = [doomed EXCEPT ![Closer] = {entries[x].secret : x \in D}]
      BY <1>1, <2>2, Zenon
    <2> HIDE DEF D
    <2> QED  BY <1>1, <1>2, <1>4, <1>5, <2>1, <2>2, <2>3, <2>4, OwnersDetach, Zenon
  <1>8. EntryInv'
    BY Zenon, <1>1, <1>2, <1>3, EntriesFewer DEF TimeInv
  <1> QED  BY Zenon, <1>3, <1>4, <1>6, <1>7, <1>8 DEF IInv, TimeInv

\* Purge and Close.
LEMMA DetachAllInv ==
    ASSUME CacheAssumption, IInv, Purge \/ Close
    PROVE  IInv'
  <1>1. /\ pc[Closer] = "idle"
        /\ doomed' = [doomed EXCEPT ![Closer] = {entries[r].secret : r \in Cached}]
        /\ entries' = [r \in Reference |-> NoEntry] /\ lru' = <<>>
        /\ pc' = [pc EXCEPT ![Closer] = "destroying"]
        /\ alive' = alive /\ UNCHANGED <<backend, getting>>
    BY Zenon DEF Purge, Close, detachAll, Goto
  <1>2. Typed /\ OwnInv /\ TimeInv /\ closed' \in BOOLEAN
    BY Zenon DEF IInv, Purge, Close, detachAll
  <1>3. Cached' = {}
    BY Zenon, <1>1 DEF Cached
  <1>4. /\ Closer \in Worker /\ pc'[Closer] = "destroying"
        /\ \A h \in Worker : h # Closer => pc'[h] = pc[h]
        /\ \A h \in Getter : (Holds(h)' <=> Holds(h)) /\ candidate'[h] = candidate[h]
        /\ RotationInv' /\ LoadInv' /\ ServedInv'
    BY Zenon, <1>1, CloserFrame
  <1> DEFINE Gone == {entries[r].secret : r \in Cached}
  <1>5. doomed' \in [Worker -> SUBSET SecretId] /\ doomed \in [Worker -> SUBSET SecretId]
    <2>1. \A r \in Cached : entries[r].secret \in SecretId
      BY Zenon, <1>2, CachedStored
    <2>2. Gone \in SUBSET SecretId
      BY Zenon, <2>1
    <2>3. doomed' = [doomed EXCEPT ![Closer] = Gone]
      BY Zenon, <1>1
    <2> HIDE DEF Gone
    <2> QED  BY Zenon, <1>2, <1>4, <2>2, <2>3, Types
  <1>6. Typed'
    <2>1. entries' \in [Reference -> Stored \cup {NoEntry}]
      BY Zenon, <1>1
    <2>2. lru' \in Seq(Reference)
      BY <1>1
    <2>3. alive' \subseteq SecretId
      BY Zenon, <1>1, <1>2, Types
    <2> QED  BY Zenon, <1>1, <1>2, <1>5, <2>1, <2>2, <2>3, CloserFrame
  <1>7. ListInv'
    BY <1>1, <1>3, CacheAssumption DEF ListInv, Once, Range
  <1>8. OwnInv'
    <2>1. doomed[Closer] = {}
      BY Zenon, <1>1, <1>2, <1>4 DEF OwnInv
    <2>2. Cached' = Cached \ Cached /\ Cached \in SUBSET Cached
      BY Zenon, <1>3
    <2> QED  BY <1>1, <1>2, <1>4, <1>5, <2>1, <2>2, OwnersDetach, Zenon
  <1>9. EntryInv'
    BY Zenon, <1>3 DEF EntryInv
  <1> QED  BY Zenon, <1>4, <1>6, <1>7, <1>8, <1>9 DEF IInv, TimeInv

\* Zeroing what was invalidated or purged.
LEMMA DestroyDetachedInv ==
    ASSUME CacheAssumption, IInv, DestroyDetached
    PROVE  IInv'
  <1>1. /\ alive' = alive \ doomed[Closer] /\ doomed' = [doomed EXCEPT ![Closer] = {}]
        /\ pc' = [pc EXCEPT ![Closer] = "idle"]
        /\ entries' = entries /\ lru' = lru /\ closed' = closed /\ UNCHANGED <<backend, getting>>
    BY Zenon DEF DestroyDetached, Goto, cache
  <1>2. Typed /\ ListInv /\ OwnInv /\ TimeInv
    BY Zenon DEF IInv
  <1>3. /\ Closer \in Worker
        /\ \A h \in Worker : h # Closer => pc'[h] = pc[h]
        /\ \A h \in Getter : (Holds(h)' <=> Holds(h)) /\ candidate'[h] = candidate[h]
        /\ RotationInv' /\ LoadInv' /\ ServedInv'
    BY Zenon, <1>1, CloserFrame
  <1>4. /\ doomed' \in [Worker -> SUBSET SecretId] /\ doomed \in [Worker -> SUBSET SecretId]
        /\ alive' \subseteq SecretId
    BY <1>1, <1>2, Types, Zenon
  <1>5. Typed'
    <2>1. /\ entries' \in [Reference -> Stored \cup {NoEntry}] /\ lru' \in Seq(Reference)
          /\ closed' \in BOOLEAN
      BY Zenon, <1>1, <1>2, Types
    <2> QED  BY Zenon, <1>1, <1>4, <2>1, CloserFrame
  <1>6. ListInv'
    BY Zenon, <1>1, <1>2, ListKept DEF cache
  <1>7. OwnInv'
    BY <1>1, <1>2, <1>3, <1>4, OwnersZero, Zenon
  <1>8. EntryInv'
    BY Zenon, <1>1, <1>2 DEF TimeInv, EntryInv, Cached, backend
  <1> QED  BY Zenon, <1>3, <1>5, <1>6, <1>7, <1>8 DEF IInv, TimeInv

-----------------------------------------------------------------------------
(* The backend and the clock *)

\* What neither of them touches.
LEMMA WorldFrame ==
    ASSUME CacheAssumption, IInv, UNCHANGED <<cache, alive, pc, doomed, getting>>,
           clock' \in Time, version' \in [Reference -> Version],
           rotated' \in [Reference -> [Version -> Nat]]
    PROVE  Typed' /\ ListInv' /\ OwnInv'
  <1>1. /\ entries' = entries /\ lru' = lru /\ closed' = closed /\ alive' = alive /\ pc' = pc
        /\ doomed' = doomed /\ now' = now /\ reference' = reference /\ started' = started
        /\ candidate' = candidate /\ served' = served
    BY Zenon DEF cache, getting
  <1>2. Typed /\ ListInv /\ OwnInv
    BY Zenon DEF IInv
  <1>3. Typed'
    BY Zenon, <1>1, <1>2 DEF Typed, TypeOK, Holds
  <1>4. ListInv'
    BY Zenon, <1>2, ListKept DEF cache
  <1>5. OwnInv'
    BY <1>1, <1>2, OwnersKept, Zenon DEF OwnInv, Holds
  <1> QED  BY Zenon, <1>3, <1>4, <1>5

\* The backend's value is rotated.
LEMMA RotateInv ==
    ASSUME CacheAssumption, IInv, NEW r \in Reference, Rotate(r)
    PROVE  IInv'
  <1>1. /\ version[r] < MaxVersion
        /\ version' = [version EXCEPT ![r] = version[r] + 1]
        /\ rotated' = [rotated EXCEPT ![r][version[r]] = clock]
        /\ clock' = clock /\ UNCHANGED <<cache, alive, pc, doomed, getting>>
    BY Zenon DEF Rotate
  <1>2. Typed /\ TimeInv
    BY Zenon DEF IInv
  <1>3. /\ clock \in Nat /\ version \in [Reference -> Version]
        /\ rotated \in [Reference -> [Version -> Nat]]
        /\ TTL \in Nat \ {0} /\ LoadBound \in Nat /\ MaxVersion \in Nat
    BY <1>2, CacheAssumption DEF Typed, TypeOK, Time
  <1>4. version[r] \in Version /\ version[r] + 1 \in Version /\ version[r] \in Nat
    BY <1>1, <1>3 DEF Version
  <1>5. \A x \in Reference : version'[x] = IF x = r THEN version[r] + 1 ELSE version[x]
    BY Zenon, <1>1, <1>3
  <1>6. \A x \in Reference : \A v \in Version :
          rotated'[x][v] = IF x = r /\ v = version[r] THEN clock ELSE rotated[x][v]
    BY Zenon, <1>1, <1>3
  <1>7. rotated' \in [Reference -> [Version -> Nat]] /\ version' \in [Reference -> Version]
    <2>1. [rotated[r] EXCEPT ![version[r]] = clock] \in [Version -> Nat]
      BY Zenon, <1>3, <1>4
    <2> QED  BY Zenon, <1>1, <1>3, <1>4, <2>1
  <1>8. Typed' /\ ListInv' /\ OwnInv'
    BY <1>1, <1>2, <1>7, WorldFrame, Zenon DEF Typed, TypeOK
  <1>9. RotationInv'
    <2>1. ASSUME NEW x \in Reference, NEW v \in Version
          PROVE  /\ v < version'[x] => rotated'[x][v] <= clock
                 /\ v >= version'[x] => rotated'[x][v] = Never
      <3>1. /\ v < version[x] => rotated[x][v] <= clock
            /\ v >= version[x] => rotated[x][v] = Never
            /\ v \in Nat /\ version[x] \in Nat
        BY <1>2, <1>3 DEF TimeInv, RotationInv, Version
      <3>2. CASE x = r
        BY <1>3, <1>4, <1>5, <1>6, <3>1, <3>2
      <3>3. CASE x # r
        BY Zenon, <1>5, <1>6, <3>1, <3>3
      <3> QED  BY Zenon, <3>2, <3>3
    <2> QED  BY Zenon, <1>1, <2>1 DEF RotationInv
  <1>10. EntryInv'
    <2>1. Cached' = Cached /\ entries' = entries
      BY Zenon, <1>1 DEF Cached, cache
    <2>2. ASSUME NEW x \in Cached
          PROVE  /\ entries[x].expires <= clock + TTL
                 /\ entries[x].expires <= rotated'[x][entries[x].version] + TTL + LoadBound
      <3>1. entries[x].version \in Version /\ entries[x].expires \in Nat /\ x \in Reference
        BY Zenon, <1>2, CachedStored DEF Cached
      <3> QED  BY <1>2, <1>3, <1>6, <3>1 DEF TimeInv, EntryInv
    <2> QED  BY Zenon, <1>1, <2>1, <2>2 DEF EntryInv
  <1>11. LoadInv'
    <2>1. /\ now' = now /\ started' = started /\ reference' = reference /\ candidate' = candidate
          /\ pc' = pc
      BY Zenon, <1>1 DEF getting
    <2>2. ASSUME NEW g \in Getter, Holds(g)
          PROVE  started[g] <= rotated'[reference[g]][candidate[g].version]
      <3>1. /\ candidate[g].version \in Version /\ reference[g] \in Reference
            /\ started[g] \in Nat
        BY <1>2, <2>2 DEF Typed, TypeOK, Time
      <3>2. started[g] <= clock /\ started[g] <= rotated[reference[g]][candidate[g].version]
        BY Zenon, <1>2, <2>2 DEF TimeInv, LoadInv, Holds, Loading
      <3> QED  BY Zenon, <1>6, <3>1, <3>2
    <2> QED  BY Zenon, <1>1, <1>2, <2>1, <2>2 DEF TimeInv, LoadInv, Holds, Loading
  <1>12. ServedInv'
    <2>1. served' = served
      BY Zenon, <1>1 DEF getting
    <2>2. ASSUME NEW g \in Getter, served[g] # Nothing
          PROVE  /\ served[g].reference \in Reference /\ served[g].at <= clock
                 /\ served[g].at < rotated'[served[g].reference][served[g].version] + TTL + LoadBound
      <3>1. served[g].at \in Nat /\ served[g].version \in Version
        BY Zenon, <1>2 DEF Typed
      <3>2. /\ served[g].reference \in Reference /\ served[g].at <= clock
            /\ served[g].at < rotated[served[g].reference][served[g].version] + TTL + LoadBound
        BY Zenon, <1>2, <2>2 DEF TimeInv, ServedInv
      <3> DEFINE p == rotated[served[g].reference][served[g].version]
                 q == rotated'[served[g].reference][served[g].version]
                 at == served[g].at
      <3>3. p \in Nat /\ (q = clock \/ q = p)
        BY <1>3, <1>6, <3>1, <3>2
      <3>4. at \in Nat /\ at <= clock /\ at < p + TTL + LoadBound
        BY Zenon, <3>1, <3>2
      <3> HIDE DEF p, q, at
      <3>5. at < q + TTL + LoadBound
        BY <1>3, <3>3, <3>4
      <3> QED  BY Zenon, <3>2, <3>5 DEF q, at
    <2> QED  BY Zenon, <1>1, <2>1, <2>2 DEF ServedInv, Nothing
  <1> QED  BY Zenon, <1>8, <1>9, <1>10, <1>11, <1>12 DEF IInv, TimeInv

\* Time passes.
LEMMA TickInv ==
    ASSUME CacheAssumption, IInv, Tick
    PROVE  IInv'
  <1>1. /\ clock < MaxTime /\ clock' = clock + 1 /\ version' = version /\ rotated' = rotated
        /\ \A g \in Getter : Loading(g) => clock < started[g] + LoadBound
        /\ UNCHANGED <<cache, alive, pc, doomed, getting>>
    BY Zenon DEF Tick, Loading
  <1>2. Typed /\ TimeInv
    BY Zenon DEF IInv
  <1>3. /\ clock \in Nat /\ version \in [Reference -> Version]
        /\ rotated \in [Reference -> [Version -> Nat]]
        /\ TTL \in Nat \ {0} /\ LoadBound \in Nat /\ MaxTime \in Nat /\ clock + 1 \in Time
    BY <1>1, <1>2, CacheAssumption DEF Typed, TypeOK, Time
  <1>4. Typed' /\ ListInv' /\ OwnInv'
    BY Zenon, <1>1, <1>2, <1>3, WorldFrame
  <1>5. RotationInv'
    BY <1>1, <1>2, <1>3 DEF TimeInv, RotationInv
  <1>6. EntryInv'
    <2>1. Cached' = Cached /\ entries' = entries
      BY Zenon, <1>1 DEF Cached, cache
    <2>2. \A x \in Cached : entries[x].expires \in Nat
      BY Zenon, <1>2, CachedStored
    <2> QED  BY <1>1, <1>2, <1>3, <2>1, <2>2 DEF TimeInv, EntryInv
  <1>7. LoadInv'
    <2>1. /\ now' = now /\ started' = started /\ reference' = reference /\ candidate' = candidate
          /\ pc' = pc
      BY Zenon, <1>1 DEF getting
    <2>2. \A g \in Getter : now[g] \in Nat /\ started[g] \in Nat
      BY <1>2 DEF Typed, TypeOK, Time
    <2> QED  BY <1>1, <1>2, <1>3, <2>1, <2>2 DEF TimeInv, LoadInv, Holds, Loading
  <1>8. ServedInv'
    <2>1. served' = served
      BY Zenon, <1>1 DEF getting
    <2>2. \A g \in Getter : served[g].at \in Nat
      BY Zenon, <1>2 DEF Typed
    <2> QED  BY <1>1, <1>2, <1>3, <2>1, <2>2 DEF TimeInv, ServedInv
  <1> QED  BY Zenon, <1>4, <1>5, <1>6, <1>7, <1>8 DEF IInv, TimeInv

-----------------------------------------------------------------------------
(* The invariant *)

\* It holds of a new cache.
LEMMA InitInv ==
    ASSUME CacheAssumption, Init
    PROVE  IInv
  <1>1. /\ TTL \in Nat \ {0} /\ LoadBound \in Nat /\ MaxTime \in Nat /\ MaxVersion \in Nat
        /\ MaxEntries \in Nat
    BY Zenon, CacheAssumption
  <1>2. 0 \in Time /\ 0 \in Version /\ Never \in Nat
    BY <1>1 DEF Time, Version, Never
  <1>3. Cached = {}
    BY Zenon DEF Init, Cached
  <1>4. \A g \in Getter : ~Holds(g) /\ ~Loading(g)
    BY Zenon DEF Init, Holds, Loading
  <1>5. Typed
    <2>1. TypeOK
      BY <1>2, Zenon DEF Init, TypeOK
    <2>2. rotated \in [Reference -> [Version -> Nat]] /\ lru \in Seq(Reference)
      BY <1>2 DEF Init
    <2>3. candidate \in [Getter -> [secret : SecretId, version : Version] \cup {NoEntry}]
      BY Zenon DEF Init
    <2>4. Nothing \in [at : Nat, reference : Reference \cup {None}, version : Version]
      BY Zenon, <1>2 DEF Nothing
    <2>5. served \in [Getter -> [at : Nat, reference : Reference \cup {None}, version : Version]]
      BY Zenon, <2>4 DEF Init
    <2> QED  BY Zenon, <1>4, <2>1, <2>2, <2>3, <2>5 DEF Typed
  <1>6. ListInv
    BY <1>1, <1>3 DEF Init, ListInv, Once, Range
  <1>7. OwnInv
    BY Zenon, <1>3, <1>4 DEF Init, OwnInv, LoadOwns, Worker
  <1>8. TimeInv
    <2>1. RotationInv
      BY <1>1, <1>2 DEF Init, RotationInv, Version
    <2>2. EntryInv
      BY Zenon, <1>3 DEF EntryInv
    <2>3. LoadInv
      BY <1>4 DEF Init, LoadInv
    <2>4. ServedInv
      BY Zenon DEF Init, ServedInv
    <2> QED  BY Zenon, <2>1, <2>2, <2>3, <2>4 DEF TimeInv
  <1> QED  BY Zenon, <1>5, <1>6, <1>7, <1>8 DEF IInv

\* Every step keeps it.
LEMMA NextInv ==
    ASSUME CacheAssumption, IInv, [Next]_vars
    PROVE  IInv'
  <1>1. ASSUME NEW g \in Getter, NEW r \in Reference, Begin(g, r) PROVE IInv'
    BY Zenon, <1>1, BeginInv
  <1>2. ASSUME NEW g \in Getter, Lookup(g) PROVE IInv'
    BY Zenon, <1>2, LookupInv
  <1>3. ASSUME NEW g \in Getter, Destroy(g) \/ LoadFails(g) PROVE IInv'
    BY Zenon, <1>3, DestroyInv
  <1>4. ASSUME NEW g \in Getter, Load(g) PROVE IInv'
    BY Zenon, <1>4, LoadStepInv
  <1>5. ASSUME NEW g \in Getter, Insert(g) PROVE IInv'
    BY Zenon, <1>5, InsertInv
  <1>6. ASSUME NEW r \in Reference, Invalidate(r) PROVE IInv'
    BY Zenon, <1>6, InvalidateInv
  <1>7. ASSUME NEW r \in Reference, Rotate(r) PROVE IInv'
    BY Zenon, <1>7, RotateInv
  <1>8. CASE Purge \/ Close
    BY Zenon, <1>8, DetachAllInv
  <1>9. CASE DestroyDetached
    BY Zenon, <1>9, DestroyDetachedInv
  <1>10. CASE Tick
    BY Zenon, <1>10, TickInv
  <1>11. CASE UNCHANGED vars
    <2>1. /\ UNCHANGED <<cache, alive, pc, doomed, getting>> /\ UNCHANGED backend
      BY Zenon, <1>11 DEF vars, cache, getting, backend
    <2>2. Typed' /\ ListInv' /\ OwnInv'
      BY <2>1, WorldFrame, Zenon DEF IInv, Typed, TypeOK, backend
    <2>3. Cached' = Cached /\ \A g \in Getter : (Holds(g)' <=> Holds(g)) /\ (Loading(g)' <=> Loading(g))
      BY Zenon, <2>1 DEF Cached, cache, Holds, Loading
    <2>4. TimeInv'
      BY <2>1, <2>3, Zenon DEF IInv, TimeInv, RotationInv, EntryInv, LoadInv, ServedInv, backend,
         cache, getting
    <2> QED  BY Zenon, <2>2, <2>4 DEF IInv
  <1> QED  BY Zenon, <1>1, <1>2, <1>3, <1>4, <1>5, <1>6, <1>7, <1>8, <1>9, <1>10, <1>11 DEF Next, Get

\* Who owns the secret s: entries of the map, getters, and those who are to zero it.
Keepers(s) == {r \in Cached : entries[r].secret = s}
Holders(s) == {g \in Getter : GetterOwns(g, s)}
Zeroers(s) == {g \in Getter \cup {Closer} : s \in doomed[g]}

Lone(S) == \E x \in S : \A y \in S : y = x

\* The owners of a secret that is not zeroed are of one kind, and there is one.
LEMMA OwnersApart ==
    ASSUME OwnInv, Worker = Getter \cup {Closer}, NEW s \in alive
    PROVE  \/ Lone(Keepers(s)) /\ Holders(s) = {} /\ Zeroers(s) = {}
           \/ Keepers(s) = {} /\ Lone(Holders(s)) /\ Zeroers(s) = {}
           \/ Keepers(s) = {} /\ Holders(s) = {} /\ Lone(Zeroers(s))
  <1>1. CASE CacheOwns(s)
    <2>1. PICK r \in Keepers(s) : TRUE
      BY Zenon, <1>1 DEF CacheOwns, Keepers
    <2>2. \A y \in Keepers(s) : y = r
      BY Zenon, <2>1 DEF OwnInv, EntryOwns, Keepers
    <2>3. Holders(s) = {}
      BY Zenon, <1>1 DEF OwnInv, LoadOwns, GetterOwns, Holds, Holders
    <2>4. Zeroers(s) = {}
      BY Zenon, <1>1 DEF OwnInv, DoomedOwns, Zeroers
    <2> QED  BY <2>1, <2>2, <2>3, <2>4, Zenon DEF Lone
  <1>2. CASE \E g \in Getter : GetterOwns(g, s)
    <2>1. PICK g \in Holders(s) : TRUE
      BY Zenon, <1>2 DEF Holders
    <2>2. \A y \in Holders(s) : y = g
      BY Zenon, <2>1 DEF OwnInv, LoadOwns, GetterOwns, Holds, Holders
    <2>3. Keepers(s) = {}
      BY <2>1 DEF OwnInv, LoadOwns, GetterOwns, Holds, CacheOwns, Holders, Keepers
    <2>4. Zeroers(s) = {}
      BY Zenon, <1>2 DEF OwnInv, DoomedOwns, Zeroers
    <2> QED  BY <2>1, <2>2, <2>3, <2>4, Zenon DEF Lone
  <1>3. CASE \E g \in Worker : s \in doomed[g]
    <2>1. PICK g \in Zeroers(s) : TRUE
      BY Zenon, <1>3 DEF Zeroers
    <2>2. DoomedOwns(g, s)
      BY Zenon, <2>1 DEF OwnInv, Zeroers
    <2>3. Keepers(s) = {}
      BY Zenon, <2>2 DEF DoomedOwns, CacheOwns, Keepers
    <2>4. Holders(s) = {}
      BY Zenon, <2>2 DEF DoomedOwns, Holders
    <2>5. \A y \in Zeroers(s) : y = g
      BY Zenon, <2>2 DEF DoomedOwns, Zeroers
    <2> QED  BY <2>1, <2>3, <2>4, <2>5, Zenon DEF Lone
  <1> QED  BY Zenon, <1>1, <1>2, <1>3 DEF OwnInv, Owned

\* A zeroed secret has no owner.
LEMMA ZeroedUnowned ==
    ASSUME OwnInv, Worker = Getter \cup {Closer}, NEW s \in SecretId \ alive
    PROVE  ~CacheOwns(s) /\ \A g \in Getter : ~GetterOwns(g, s) /\ s \notin doomed[g] \cup doomed[Closer]
  <1>1. ~CacheOwns(s)
    BY Zenon DEF OwnInv, EntryOwns, CacheOwns
  <1>2. \A g \in Getter : ~GetterOwns(g, s)
    BY Zenon DEF OwnInv, LoadOwns, GetterOwns, Holds
  <1>3. \A g \in Getter : s \notin doomed[g] \cup doomed[Closer]
    BY Zenon DEF OwnInv, DoomedOwns
  <1> QED  BY Zenon, <1>1, <1>2, <1>3

\* The map, the list, the owners of secrets and the ages of values agree in every
\* reachable state of the cache.
THEOREM Invariance ==
    ASSUME CacheAssumption
    PROVE  Spec => []IInv
  <1>1. Init => IInv
    BY Zenon, InitInv
  <1>2. IInv /\ [Next]_vars => IInv'
    BY Zenon, NextInv
  <1> QED  BY <1>1, <1>2, PTL DEF Spec

\* A Get never returns a value superseded longer ago than the TTL and one load.
THEOREM Staleness ==
    ASSUME CacheAssumption
    PROVE  Spec => []StaleBound
  <1>1. IInv => StaleBound
    BY Zenon DEF IInv, TimeInv, ServedInv, StaleBound
  <1> QED  BY <1>1, Invariance, PTL

-----------------------------------------------------------------------------
(* Counting: the list against the map, and the owners of a secret *)

F == INSTANCE FiniteSetTheorems

\* The library counts as this module does.
LEMMA SameFinite ==
    ASSUME NEW S
    PROVE  F!IsFiniteSet(S) <=> IsFiniteSet(S)
  BY Zenon DEF F!IsFiniteSet, IsFiniteSet

\* The library counts as this module does.
LEMMA SameCount ==
    ASSUME NEW S
    PROVE  F!Cardinality(S) = Cardinality(S)
  BY Zenon DEF F!Cardinality, Cardinality, F!IsFiniteSet, IsFiniteSet

\* A sequence without repetition is as long as the set of its elements.
LEMMA OnceLength ==
    ASSUME NEW S, NEW s \in Seq(S), Once(s)
    PROVE  Cardinality(Range(s)) = Len(s)
  <1>1. Len(s) \in Nat /\ DOMAIN s = 1..Len(s)
    OBVIOUS
  <1>2. s \in F!Bijection(1..Len(s), Range(s))
    <2>1. s \in [1..Len(s) -> Range(s)]
      BY <1>1 DEF Range
    <2>2. \A i, j \in 1..Len(s) : s[i] = s[j] => i = j
      BY Zenon, <1>1 DEF Once
    <2>3. \A x \in Range(s) : \E i \in 1..Len(s) : s[i] = x
      BY Zenon, <1>1 DEF Range
    <2> QED  BY Zenon, <2>1, <2>2, <2>3 DEF F!Bijection, F!Injection, F!Surjection, F!IsInjective
  <1>3. F!ExistsBijection(1..Len(s), Range(s))
    BY <1>2, Zenon DEF F!ExistsBijection
  <1> QED  BY Zenon, <1>1, <1>3, F!FS_CountingElements, SameCount

\* The invariant gives the exact accounting of the list.
LEMMA SoundOfInv ==
    ASSUME CacheAssumption, IInv
    PROVE  CacheIsSound
  <1>1. Typed /\ TypeOK /\ lru \in Seq(Reference) /\ ListInv
    BY Zenon DEF IInv, Typed
  <1>2. Len(lru) = Cardinality(Cached) /\ Range(lru) = Cached
    BY Zenon, <1>1, OnceLength DEF ListInv
  <1>3. closed => Cached = {}
    BY <1>1, <1>2 DEF ListInv, Range
  <1> QED  BY Zenon, <1>1, <1>2, <1>3 DEF CacheIsSound, ListInv

\* A set with one element, and one with none, counted.
LEMMA CountOne ==
    ASSUME NEW S, Lone(S)
    PROVE  Cardinality(S) = 1
  <1>1. PICK x : S = {x}
    BY DEF Lone
  <1> QED  BY Zenon, <1>1, F!FS_Singleton, SameCount

\* A set with no element, counted.
LEMMA CountNone ==
    Cardinality({}) = 0
  BY Zenon, F!FS_EmptySet, SameCount

\* The invariant gives the exact accounting of the owners.
LEMMA OwnerOfInv ==
    ASSUME CacheAssumption, IInv
    PROVE  OneOwner
  <1>1. OwnInv /\ Worker = Getter \cup {Closer}
    BY Zenon DEF IInv, Worker
  <1>2. ASSUME NEW s \in alive
        PROVE  Cardinality({r \in Cached : entries[r].secret = s})
               + Cardinality({g \in Getter : GetterOwns(g, s)})
               + Cardinality({g \in Getter \cup {Closer} : s \in doomed[g]}) = 1
    <2>1. Cardinality(Keepers(s)) + Cardinality(Holders(s)) + Cardinality(Zeroers(s)) = 1
      <3>1. CASE Lone(Keepers(s)) /\ Holders(s) = {} /\ Zeroers(s) = {}
        <4>1. Cardinality(Keepers(s)) = 1 /\ Cardinality(Holders(s)) = 0 /\ Cardinality(Zeroers(s)) = 0
          BY Zenon, <3>1, CountOne, CountNone
        <4> QED  BY <4>1
      <3>2. CASE Keepers(s) = {} /\ Lone(Holders(s)) /\ Zeroers(s) = {}
        <4>1. Cardinality(Keepers(s)) = 0 /\ Cardinality(Holders(s)) = 1 /\ Cardinality(Zeroers(s)) = 0
          BY Zenon, <3>2, CountOne, CountNone
        <4> QED  BY <4>1
      <3>3. CASE Keepers(s) = {} /\ Holders(s) = {} /\ Lone(Zeroers(s))
        <4>1. Cardinality(Keepers(s)) = 0 /\ Cardinality(Holders(s)) = 0 /\ Cardinality(Zeroers(s)) = 1
          BY Zenon, <3>3, CountOne, CountNone
        <4> QED  BY <4>1
      <3> QED  BY Zenon, <1>1, <3>1, <3>2, <3>3, OwnersApart
    <2> QED  BY Zenon, <2>1 DEF Keepers, Holders, Zeroers
  <1> QED  BY Zenon, <1>1, <1>2, ZeroedUnowned DEF OneOwner

\* The list names each cached reference once, the cache never holds more than
\* MaxEntries, and holds nothing once closed.
THEOREM CacheSoundness ==
    ASSUME CacheAssumption
    PROVE  Spec => []CacheIsSound
  <1>1. IInv => CacheIsSound
    BY Zenon, SoundOfInv
  <1> QED  BY <1>1, Invariance, PTL

\* Every secret that is not zeroed has exactly one owner to zero it, and none owns a
\* zeroed one.
THEOREM SecretOwnership ==
    ASSUME CacheAssumption
    PROVE  Spec => []OneOwner
  <1>1. IInv => OneOwner
    BY Zenon, OwnerOfInv
  <1> QED  BY <1>1, Invariance, PTL
=============================================================================
