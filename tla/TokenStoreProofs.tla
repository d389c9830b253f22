-------------------------- MODULE TokenStoreProofs --------------------------
(***************************************************************************)
(* Proofs about TokenStore for every value of the constants: any number of *)
(* processes, tokens and faults, any limits and any sizes.  First what     *)
(* pruning, revoking and issuing do to one image of the store, then the    *)
(* inductive invariant and the actions that preserve it, then the          *)
(* theorems.                                                               *)
(***************************************************************************)
EXTENDS TokenStore, FiniteSetTheorems, TLAPS

-----------------------------------------------------------------------------
(* Subtrees *)

\* What pruneInactive removes and revokeHash revokes contains the tokens it
\* started from.
LEMMA SubtreeSeed ==
    ASSUME NEW recs, NEW seed
    PROVE  seed \cap DOMAIN recs \subseteq Subtree(recs, seed)
  BY Zenon DEF Subtree

\* A child of a member is a member.
LEMMA SubtreeClosed ==
    ASSUME NEW recs, NEW seed
    PROVE  ClosedUnderChildren(recs, Subtree(recs, seed))
  BY Zenon DEF Subtree, ClosedUnderChildren

\* Nothing else is a member: any closed set with the seed contains the subtree.
LEMMA SubtreeLeast ==
    ASSUME NEW recs, NEW seed, NEW S, S \subseteq DOMAIN recs, seed \cap DOMAIN recs \subseteq S,
           ClosedUnderChildren(recs, S)
    PROVE  Subtree(recs, seed) \subseteq S
  BY Zenon DEF Subtree

\* Members can be reached without passing through what a prune removed: of a
\* subtree, the records that are left form the subtree in what is left.
LEMMA SubtreeOfRest ==
    ASSUME NEW recs, NEW removed, NEW seed,
           removed \subseteq DOMAIN recs, ClosedUnderChildren(recs, removed)
    PROVE  LET rest == [h \in DOMAIN recs \ removed |-> recs[h]]
           IN  Subtree(recs, seed) \ removed \subseteq Subtree(rest, seed)
  <1> DEFINE rest == [h \in DOMAIN recs \ removed |-> recs[h]]
  <1> SUFFICES ASSUME NEW h \in Subtree(recs, seed), h \notin removed,
                      NEW S \in SUBSET DOMAIN rest,
                      seed \cap DOMAIN rest \subseteq S, ClosedUnderChildren(rest, S)
               PROVE  h \in S
    BY Zenon DEF Subtree
  <1>1. ClosedUnderChildren(recs, S \cup removed)
    BY Zenon DEF ClosedUnderChildren
  <1>2. seed \cap DOMAIN recs \subseteq S \cup removed
    BY Zenon
  <1>3. S \cup removed \subseteq DOMAIN recs
    BY Zenon
  <1>4. h \in S \cup removed
    BY Zenon, <1>1, <1>2, <1>3, SubtreeLeast
  <1> QED  BY Zenon, <1>4

-----------------------------------------------------------------------------
(* Sound images *)

\* What the room checks come to when nothing is revoked.
Footprint(n) == HeaderSize + RecordSize * n + FixedHeadroom + PerRecordHeadroom * n

\* Each token descends from the root it names: the fact that makes a prune
\* remove a root only together with the whole tree, and that load does not check.
Rooted(recs) == \A h \in DOMAIN recs : h \in Subtree(recs, {recs[h].root})

Lineage(recs) ==
    IsImage(recs) /\ decodeDiskState(recs) /\ validateLoadedRecords(recs) /\ Rooted(recs)

Room(recs) ==
    validateLoadedBounds(recs) /\ Footprint(Cardinality(DOMAIN recs)) <= FileSizeLimit

Sound(recs) == Lineage(recs) /\ Room(recs)

\* A map of records has finitely many entries, so that they can be counted.
LEMMA ImageFinite ==
    ASSUME NEW recs, IsImage(recs), NEW S \in SUBSET DOMAIN recs
    PROVE  /\ IsFiniteSet(S) /\ Cardinality(S) \in Nat
           /\ Cardinality(S) <= Cardinality(DOMAIN recs)
           /\ IsFiniteSet(DOMAIN recs) /\ Cardinality(DOMAIN recs) \in Nat
  <1>1. IsFiniteSet(DOMAIN recs)
    BY Zenon, HashAssumption, FS_Subset DEF IsImage
  <1>2. IsFiniteSet(S) /\ Cardinality(S) <= Cardinality(DOMAIN recs)
    BY Zenon, <1>1, FS_Subset
  <1> QED  BY Zenon, <1>1, <1>2, FS_CardinalityType

\* The one fact of nonlinear arithmetic the size argument needs.
LEMMA ProductMonotone ==
    ASSUME NEW a \in Nat, NEW m \in Nat, NEW n \in Nat, m <= n
    PROVE  a * m \in Nat /\ a * m <= a * n
  OBVIOUS

\* Fewer records need no more room.
LEMMA FootprintMonotone ==
    ASSUME NEW m \in Nat, NEW n \in Nat, m <= n
    PROVE  Footprint(m) \in Nat /\ Footprint(m) <= Footprint(n)
  <1>1. RecordSize * m \in Nat /\ RecordSize * m <= RecordSize * n
    BY Zenon, ProductMonotone, SizeAssumption
  <1>2. PerRecordHeadroom * m \in Nat /\ PerRecordHeadroom * m <= PerRecordHeadroom * n
    BY Zenon, ProductMonotone, SizeAssumption
  <1>3. RecordSize * n \in Nat /\ PerRecordHeadroom * n \in Nat
    BY ProductMonotone, SizeAssumption
  <1> QED  BY <1>1, <1>2, <1>3, SizeAssumption DEF Footprint

\* The reserve covers whatever is or will be revoked.
LEMMA RoomCoversRevocation ==
    ASSUME NEW recs, IsImage(recs), Footprint(Cardinality(DOMAIN recs)) <= FileSizeLimit
    PROVE  EncodedSize(recs) <= FileSizeLimit
  <1> DEFINE n == Cardinality(DOMAIN recs)
             k == Cardinality({h \in DOMAIN recs : recs[h].revoked})
  <1>1. n \in Nat /\ k \in Nat /\ k <= n
    BY Zenon, ImageFinite
  <1>2. RevokedAtSize * k \in Nat /\ RevokedAtSize * k <= RevokedAtSize * n
    BY Zenon, <1>1, ProductMonotone, SizeAssumption
  <1>3. RevokedAtSize * n = n * RevokedAtSize /\ n * PerRecordHeadroom = PerRecordHeadroom * n
    BY <1>1, SizeAssumption
  <1>4. n * RevokedAtSize <= n * PerRecordHeadroom
    BY Zenon, <1>1, ProductMonotone, SizeAssumption
  <1>5. RecordSize * n \in Nat
    BY <1>1, ProductMonotone, SizeAssumption
  <1>6. PerRecordHeadroom * n \in Nat
    BY <1>1, ProductMonotone, SizeAssumption
  <1> HIDE DEF n, k
  <1>7. EncodedSize(recs) = HeaderSize + RecordSize * n + RevokedAtSize * k
    BY Zenon DEF EncodedSize, n, k
  <1>8. HeaderSize + RecordSize * n + FixedHeadroom + PerRecordHeadroom * n <= FileSizeLimit
    BY Zenon DEF Footprint, n
  <1> QED  BY <1>1, <1>2, <1>3, <1>4, <1>5, <1>6, <1>7, <1>8, SizeAssumption

\* Accepting an image for issuance or at Open leaves the reserve in place.
LEMMA CapacityGivesRoom ==
    ASSUME NEW recs, IsImage(recs), ensureRevocationCapacity(recs)
    PROVE  Footprint(Cardinality(DOMAIN recs)) <= FileSizeLimit
  <1> DEFINE n == Cardinality(DOMAIN recs)
             k == Cardinality({h \in DOMAIN recs : recs[h].revoked})
  <1>1. n \in Nat /\ k \in Nat
    BY Zenon, ImageFinite
  <1>2. RevokedAtSize * k \in Nat /\ RecordSize * n \in Nat /\ PerRecordHeadroom * n \in Nat
    BY <1>1, ProductMonotone, SizeAssumption
  <1> HIDE DEF n, k
  <1>3. HeaderSize + RecordSize * n + RevokedAtSize * k + FixedHeadroom + PerRecordHeadroom * n
            <= FileSizeLimit
    BY Zenon DEF ensureRevocationCapacity, EncodedSize, n, k
  <1> QED  BY <1>1, <1>2, <1>3, SizeAssumption DEF Footprint, n

-----------------------------------------------------------------------------
(* Pruning *)

Removed(recs, now) == Subtree(recs, InactiveHashes(recs, now))

\* What pruneInactive leaves is a restriction that is closed under parents and
\* has nothing inactive in it.
LEMMA PruneFacts ==
    ASSUME NEW recs, NEW now
    PROVE  /\ DOMAIN pruneInactive(recs, now) = DOMAIN recs \ Removed(recs, now)
           /\ \A h \in DOMAIN pruneInactive(recs, now) :
                pruneInactive(recs, now)[h] = recs[h] /\ ~Inactive(recs[h], now)
           /\ Removed(recs, now) \subseteq DOMAIN recs
           /\ ClosedUnderChildren(recs, Removed(recs, now))
  <1>1. InactiveHashes(recs, now) \subseteq Removed(recs, now)
    BY Zenon, SubtreeSeed DEF InactiveHashes, Removed
  <1>2. ClosedUnderChildren(recs, Removed(recs, now))
    BY Zenon, SubtreeClosed DEF Removed
  <1>3. Removed(recs, now) \subseteq DOMAIN recs
    BY Zenon DEF Removed, Subtree
  <1> QED  BY Zenon, <1>1, <1>2, <1>3 DEF pruneInactive, Removed, InactiveHashes

\* A restriction that is closed under parents keeps the subtree relation.
LEMMA PruneRooted ==
    ASSUME NEW recs, NEW now, Rooted(recs), validateLoadedRecords(recs)
    PROVE  LET pruned == pruneInactive(recs, now)
           IN  /\ Rooted(pruned)
               /\ \A h \in DOMAIN pruned : recs[h].root \in DOMAIN pruned
  <1> DEFINE pruned == pruneInactive(recs, now)
  <1> SUFFICES ASSUME NEW h \in DOMAIN pruned
               PROVE  h \in Subtree(pruned, {pruned[h].root}) /\ recs[h].root \in DOMAIN pruned
    BY Zenon DEF Rooted
  <1>0. pruned = [x \in DOMAIN recs \ Removed(recs, now) |-> recs[x]]
    BY Zenon DEF pruneInactive, Removed
  <1>1. /\ Removed(recs, now) \subseteq DOMAIN recs
        /\ ClosedUnderChildren(recs, Removed(recs, now))
        /\ DOMAIN pruned = DOMAIN recs \ Removed(recs, now)
        /\ pruned[h] = recs[h]
    BY Zenon, PruneFacts
  <1>2. h \in Subtree(recs, {recs[h].root}) /\ recs[h].root \in DOMAIN recs
    BY Zenon, <1>1 DEF Rooted, validateLoadedRecords
  <1>3. h \in Subtree(pruned, {pruned[h].root})
    BY Zenon, <1>0, <1>1, <1>2, SubtreeOfRest
  <1>4. recs[h].root \notin Removed(recs, now)
    <2> SUFFICES ASSUME recs[h].root \in Removed(recs, now)  PROVE FALSE
      BY Zenon
    <2>1. Subtree(recs, {recs[h].root}) \subseteq Removed(recs, now)
      <3>1. {recs[h].root} \cap DOMAIN recs \subseteq Removed(recs, now)  BY Zenon
      <3> QED  BY Zenon, <1>1, <3>1, SubtreeLeast
    <2> QED  BY Zenon, <1>1, <1>2, <2>1
  <1> QED  BY Zenon, <1>1, <1>2, <1>3, <1>4

\* pruneInactive leaves every remaining token its parent and its root.
LEMMA PruneLineage ==
    ASSUME NEW recs, NEW now, Lineage(recs)
    PROVE  Lineage(pruneInactive(recs, now))
  <1> DEFINE pruned == pruneInactive(recs, now)
  <1>1. /\ DOMAIN pruned = DOMAIN recs \ Removed(recs, now)
        /\ \A h \in DOMAIN pruned : pruned[h] = recs[h]
        /\ ClosedUnderChildren(recs, Removed(recs, now))
    BY Zenon, PruneFacts
  <1>0. pruned = [h \in DOMAIN pruned |-> recs[h]]
    BY Zenon DEF pruneInactive
  <1>2. Rooted(pruned) /\ \A h \in DOMAIN pruned : recs[h].root \in DOMAIN pruned
    BY Zenon, PruneRooted DEF Lineage
  <1> HIDE DEF pruned
  <1>3. IsImage(pruned)
    BY Zenon, <1>0, <1>1 DEF Lineage, IsImage
  <1>4. decodeDiskState(pruned)
    BY Zenon, <1>1 DEF Lineage, decodeDiskState
  <1>5. validateLoadedRecords(pruned)
    <2> SUFFICES ASSUME NEW h \in DOMAIN pruned
                 PROVE  /\ IF pruned[h].depth = 0 THEN RootLineage(pruned, h)
                                                  ELSE ParentLineage(pruned, h)
                        /\ pruned[h].root \in DOMAIN pruned
                        /\ pruned[pruned[h].root].depth = 0
                        /\ pruned[pruned[h].root].root = pruned[h].root
      BY Zenon DEF validateLoadedRecords
    <2>1. h \in DOMAIN recs /\ pruned[h] = recs[h]
      BY Zenon, <1>1
    <2>2. /\ IF recs[h].depth = 0 THEN RootLineage(recs, h) ELSE ParentLineage(recs, h)
          /\ recs[h].root \in DOMAIN recs
          /\ recs[recs[h].root].depth = 0
          /\ recs[recs[h].root].root = recs[h].root
      BY Zenon, <2>1 DEF Lineage, validateLoadedRecords
    <2>3. ASSUME recs[h].depth # 0  PROVE recs[h].parent \in DOMAIN pruned
      <3>1. recs[h].depth > 0
        <4>1. recs[h] \in Record  BY Zenon, <2>1 DEF Lineage, IsImage
        <4>2. recs[h].depth \in 0..MaxDelegationDepth  BY Zenon, <4>1 DEF Record
        <4> QED  BY <2>3, <4>2, BoundAssumption
      <3>2. recs[h].parent \in DOMAIN recs
        BY Zenon, <2>2, <2>3 DEF ParentLineage
      <3> QED  BY Zenon, <1>1, <2>1, <3>1, <3>2 DEF ClosedUnderChildren
    <2>4. IF pruned[h].depth = 0 THEN RootLineage(pruned, h) ELSE ParentLineage(pruned, h)
      BY <1>1, <2>1, <2>2, <2>3 DEF RootLineage, ParentLineage
    <2> QED  BY Zenon, <1>1, <1>2, <2>1, <2>2, <2>4
  <1> QED  BY Zenon, <1>2, <1>3, <1>4, <1>5 DEF Lineage, pruned

\* Dropping records from an image lowers every count the bounds look at.
LEMMA RestrictRoom ==
    ASSUME NEW recs, NEW rest, IsImage(recs), IsImage(rest), Room(recs),
           DOMAIN rest \subseteq DOMAIN recs,
           \A h \in DOMAIN rest : rest[h].parent = recs[h].parent
                                  /\ rest[h].depth = recs[h].depth
                                  /\ rest[h].root = recs[h].root
    PROVE  Room(rest)
  <1>1. /\ Cardinality(DOMAIN rest) \in Nat
        /\ Cardinality(DOMAIN recs) \in Nat
        /\ Cardinality(DOMAIN rest) <= Cardinality(DOMAIN recs)
    BY Zenon, ImageFinite
  <1>2. Footprint(Cardinality(DOMAIN rest)) <= FileSizeLimit
    <2>1. Footprint(Cardinality(DOMAIN rest)) \in Nat
          /\ Footprint(Cardinality(DOMAIN recs)) \in Nat
          /\ Footprint(Cardinality(DOMAIN rest)) <= Footprint(Cardinality(DOMAIN recs))
      BY <1>1, FootprintMonotone
    <2> QED  BY <2>1, SizeAssumption DEF Room
  <1>3. Cardinality(DOMAIN rest) <= MaxRecords
    BY <1>1, BoundAssumption DEF Room, validateLoadedBounds
  <1>4. ASSUME NEW h \in DOMAIN rest  PROVE directChildCount(rest, h) <= MaxChildrenPerToken
    <2> DEFINE A == {x \in DOMAIN rest : rest[x].parent = h /\ rest[x].depth > 0}
               B == {x \in DOMAIN recs : recs[x].parent = h /\ recs[x].depth > 0}
    <2>1. A \subseteq B  BY Zenon
    <2>2. IsFiniteSet(B) /\ Cardinality(B) \in Nat  BY Zenon, ImageFinite
    <2>3. Cardinality(A) \in Nat  BY Zenon, ImageFinite
    <2>4. Cardinality(A) <= Cardinality(B)  BY Zenon, <2>1, <2>2, FS_Subset
    <2>5. Cardinality(B) <= MaxChildrenPerToken
      BY Zenon DEF Room, validateLoadedBounds, directChildCount
    <2> HIDE DEF A, B
    <2>6. Cardinality(A) <= MaxChildrenPerToken
      BY <2>2, <2>3, <2>4, <2>5, BoundAssumption
    <2> QED  BY Zenon, <2>6 DEF directChildCount, A
  <1>5. ASSUME NEW h \in DOMAIN rest
        PROVE  rootTokenCount(rest, rest[h].root) <= MaxTokensPerRoot
    <2> DEFINE r == rest[h].root
               A == {x \in DOMAIN rest : rest[x].root = r}
               B == {x \in DOMAIN recs : recs[x].root = r}
    <2>1. A \subseteq B  BY Zenon
    <2>2. IsFiniteSet(B) /\ Cardinality(B) \in Nat  BY Zenon, ImageFinite
    <2>3. Cardinality(A) \in Nat  BY Zenon, ImageFinite
    <2>4. Cardinality(A) <= Cardinality(B)  BY Zenon, <2>1, <2>2, FS_Subset
    <2>5. Cardinality(B) <= MaxTokensPerRoot
      BY DEF Room, validateLoadedBounds, rootTokenCount
    <2> HIDE DEF A, B
    <2>6. Cardinality(A) <= MaxTokensPerRoot
      BY <2>2, <2>3, <2>4, <2>5, BoundAssumption
    <2> QED  BY Zenon, <2>6 DEF rootTokenCount, A
  <1> QED  BY Zenon, <1>2, <1>3, <1>4, <1>5 DEF Room, validateLoadedBounds

\* pruneInactive turns a sound map into a sound map.
LEMMA PruneSound ==
    ASSUME NEW recs, NEW now, Sound(recs)
    PROVE  Sound(pruneInactive(recs, now))
  <1>1. Lineage(pruneInactive(recs, now))
    BY Zenon, PruneLineage DEF Sound
  <1>2. /\ DOMAIN pruneInactive(recs, now) \subseteq DOMAIN recs
        /\ \A h \in DOMAIN pruneInactive(recs, now) : pruneInactive(recs, now)[h] = recs[h]
    BY Zenon, PruneFacts
  <1>3. Room(pruneInactive(recs, now))
    BY Zenon, <1>1, <1>2, RestrictRoom DEF Sound, Lineage
  <1> QED  BY Zenon, <1>1, <1>3 DEF Sound

\* Open accepts every sound image.
LEMMA SoundAccepted ==
    ASSUME NEW recs, NEW now, Sound(recs)
    PROVE  Accepts(recs, now)
  <1> DEFINE pruned == pruneInactive(recs, now)
             n == Cardinality(DOMAIN pruned)
  <1>1. Sound(pruned)
    BY Zenon, PruneSound
  <1>2. {h \in DOMAIN pruned : pruned[h].revoked} = {}
    <2>1. \A h \in DOMAIN pruned : pruned[h] = recs[h] /\ ~Inactive(recs[h], now)
      BY Zenon, PruneFacts
    <2>2. ASSUME NEW h \in DOMAIN pruned  PROVE ~pruned[h].revoked
      BY <2>1, <2>2, Zenon DEF Inactive
    <2> HIDE DEF pruned
    <2> QED  BY Zenon, <2>2
  <1>3. n \in Nat
    BY Zenon, <1>1, ImageFinite DEF Sound, Lineage
  <1>4. EncodedSize(pruned) = HeaderSize + RecordSize * n + RevokedAtSize * 0
    <2>1. Cardinality({h \in DOMAIN pruned : pruned[h].revoked}) = 0
      BY Zenon, <1>2, FS_EmptySet
    <2> QED  BY Zenon, <2>1 DEF EncodedSize
  <1>5. Footprint(n) <= FileSizeLimit
    BY Zenon, <1>1 DEF Sound, Room
  <1>6. RecordSize * n \in Nat /\ PerRecordHeadroom * n \in Nat
    BY <1>3, ProductMonotone, SizeAssumption
  <1> HIDE DEF n
  <1>7. ensureRevocationCapacity(pruned)
    <2>1. EncodedSize(pruned) + FixedHeadroom + PerRecordHeadroom * n <= FileSizeLimit
      BY <1>3, <1>4, <1>5, <1>6, SizeAssumption DEF Footprint
    <2> QED  BY Zenon, <2>1 DEF ensureRevocationCapacity, n
  <1>8. validateLoadedBounds(pruned)
    BY Zenon, <1>1 DEF Sound, Room
  <1>9. EncodedSize(recs) <= FileSizeLimit
    BY Zenon, RoomCoversRevocation DEF Sound, Lineage, Room
  <1> QED  BY Zenon, <1>7, <1>8, <1>9 DEF Accepts, Sound, Lineage

-----------------------------------------------------------------------------
(* Revoking *)

\* Subtrees depend only on the parent and depth fields.
LEMMA SubtreeSameShape ==
    ASSUME NEW r1, NEW r2, NEW seed, DOMAIN r1 = DOMAIN r2,
           \A x \in DOMAIN r1 : r1[x].parent = r2[x].parent /\ r1[x].depth = r2[x].depth
    PROVE  Subtree(r1, seed) = Subtree(r2, seed)
  <1>1. \A S : ClosedUnderChildren(r1, S) <=> ClosedUnderChildren(r2, S)
    BY Zenon DEF ClosedUnderChildren
  <1> QED  BY Zenon, <1>1 DEF Subtree

SameClaims(r1, r2) ==
    /\ r1.parent = r2.parent /\ r1.root = r2.root /\ r1.depth = r2.depth
    /\ r1.workload = r2.workload /\ r1.audience = r2.audience
    /\ r1.issuedAt = r2.issuedAt /\ r1.expiresAt = r2.expiresAt
    /\ r1.grants = r2.grants /\ r1.allowDelegation = r2.allowDelegation

\* A revocation sets the revoked flag of a subtree and changes nothing else.
LEMMA RevokeFacts ==
    ASSUME NEW recs, NEW h, IsImage(recs)
    PROVE  /\ DOMAIN RevokeSubtree(recs, h) = DOMAIN recs
           /\ IsImage(RevokeSubtree(recs, h))
           /\ \A x \in DOMAIN recs : SameClaims(RevokeSubtree(recs, h)[x], recs[x])
           /\ \A x \in Subtree(recs, {h}) : RevokeSubtree(recs, h)[x].revoked
           /\ \A x \in DOMAIN recs \ Subtree(recs, {h}) : RevokeSubtree(recs, h)[x] = recs[x]
  <1> DEFINE R == RevokeSubtree(recs, h)
  <1>1. DOMAIN R = DOMAIN recs
    BY Zenon DEF RevokeSubtree
  <1>2. ASSUME NEW x \in DOMAIN recs
        PROVE  /\ R[x] \in Record
               /\ SameClaims(R[x], recs[x])
               /\ x \in Subtree(recs, {h}) => R[x].revoked
               /\ x \notin Subtree(recs, {h}) => R[x] = recs[x]
    <2>1. recs[x] \in Record
      BY Zenon DEF IsImage
    <2>2. R[x] = IF x \in Subtree(recs, {h}) THEN [recs[x] EXCEPT !.revoked = TRUE] ELSE recs[x]
      BY Zenon DEF RevokeSubtree
    <2> HIDE DEF R
    <2> QED  BY Zenon, <2>1, <2>2 DEF Record, SameClaims
  <1>3. IsImage(R)
    <2>1. R = [x \in DOMAIN R |-> R[x]]  BY Zenon DEF RevokeSubtree
    <2> HIDE DEF R
    <2> QED  BY Zenon, <1>1, <1>2, <2>1 DEF IsImage
  <1>4. Subtree(recs, {h}) \subseteq DOMAIN recs
    BY Zenon DEF Subtree
  <1> HIDE DEF R
  <1> QED  BY Zenon, <1>1, <1>2, <1>3, <1>4 DEF R

\* Recording a revocation of a whole subtree keeps a map sound.
LEMMA RevokeSound ==
    ASSUME NEW recs, NEW h, Sound(recs)
    PROVE  Sound(RevokeSubtree(recs, h))
  <1> DEFINE R == RevokeSubtree(recs, h)
  <1>0. IsImage(recs) /\ decodeDiskState(recs) /\ validateLoadedRecords(recs) /\ Rooted(recs)
        /\ Room(recs)
    BY Zenon DEF Sound, Lineage
  <1>1. DOMAIN R = DOMAIN recs /\ IsImage(R)
    BY Zenon, <1>0, RevokeFacts
  <1>a. /\ \A x \in DOMAIN recs : SameClaims(R[x], recs[x])
        /\ \A x \in Subtree(recs, {h}) : R[x].revoked
        /\ \A x \in DOMAIN recs \ Subtree(recs, {h}) : R[x] = recs[x]
    BY Zenon, <1>0, RevokeFacts
  <1> HIDE DEF R
  <1>2. \A x \in DOMAIN recs :
            /\ R[x].parent = recs[x].parent /\ R[x].root = recs[x].root
            /\ R[x].depth = recs[x].depth /\ R[x].audience = recs[x].audience
            /\ R[x].issuedAt = recs[x].issuedAt /\ R[x].expiresAt = recs[x].expiresAt
            /\ R[x].grants = recs[x].grants
            /\ R[x].allowDelegation = recs[x].allowDelegation
    BY Zenon, <1>a DEF SameClaims
  <1>3. decodeDiskState(R)
    BY Zenon, <1>0, <1>1, <1>2 DEF decodeDiskState
  <1>4. Rooted(R)
    <2>1. ASSUME NEW x \in DOMAIN recs
          PROVE  Subtree(R, {R[x].root}) = Subtree(recs, {recs[x].root})
      BY <1>1, <1>2, SubtreeSameShape
    <2> QED  BY Zenon, <1>0, <1>1, <2>1 DEF Rooted
  <1>5. Room(R)
    BY Zenon, <1>0, <1>1, <1>2, RestrictRoom
  <1>6. validateLoadedRecords(R)
    <2> SUFFICES ASSUME NEW x \in DOMAIN recs
                 PROVE  /\ IF R[x].depth = 0 THEN RootLineage(R, x) ELSE ParentLineage(R, x)
                        /\ R[x].root \in DOMAIN R
                        /\ R[R[x].root].depth = 0
                        /\ R[R[x].root].root = R[x].root
      BY Zenon, <1>1 DEF validateLoadedRecords
    <2>1. /\ IF recs[x].depth = 0 THEN RootLineage(recs, x) ELSE ParentLineage(recs, x)
          /\ recs[x].root \in DOMAIN recs
          /\ recs[recs[x].root].depth = 0
          /\ recs[recs[x].root].root = recs[x].root
      BY Zenon, <1>0 DEF validateLoadedRecords
    <2>2. CASE recs[x].depth = 0
      BY <1>1, <1>2, <2>1, <2>2 DEF RootLineage
    <2>3. CASE recs[x].depth # 0
      <3>1. ParentLineage(recs, x)
        BY Zenon, <2>1, <2>3
      <3>2. recs[x].parent \in DOMAIN recs
        BY Zenon, <3>1 DEF ParentLineage
      <3>3. recs[x].depth > 0
        <4>1. recs[x] \in Record  BY Zenon, <1>0 DEF IsImage
        <4>2. recs[x].depth \in 0..MaxDelegationDepth  BY Zenon, <4>1 DEF Record
        <4> QED  BY <2>3, <4>2, BoundAssumption
      <3>4. R[recs[x].parent].revoked => R[x].revoked
        <4>1. CASE x \in Subtree(recs, {h})
          BY Zenon, <1>a, <4>1
        <4>2. CASE x \notin Subtree(recs, {h})
          <5>1. recs[x].parent \notin Subtree(recs, {h})
            BY Zenon, <3>3, <4>2, SubtreeClosed DEF ClosedUnderChildren
          <5>2. R[recs[x].parent] = recs[recs[x].parent] /\ R[x] = recs[x]
            BY Zenon, <1>a, <3>2, <4>2, <5>1
          <5>3. recs[recs[x].parent].revoked => recs[x].revoked
            BY Zenon, <3>1 DEF ParentLineage
          <5> QED  BY Zenon, <5>2, <5>3
        <4> QED  BY Zenon, <4>1, <4>2
      <3>5. ParentLineage(R, x)
        BY <1>1, <1>2, <3>1, <3>2, <3>4 DEF ParentLineage
      <3> QED  BY <1>1, <1>2, <2>1, <2>3, <3>5
    <2> QED  BY Zenon, <2>2, <2>3
  <1> QED  BY Zenon, <1>1, <1>3, <1>4, <1>5, <1>6 DEF Sound, Lineage, R

-----------------------------------------------------------------------------
(* Issuing *)

\* What Mint and Delegate establish about the record they add.
NewRecord(recs, h, rec) ==
    /\ h \in Hash \ DOMAIN recs
    /\ rec \in Record
    /\ rec.expiresAt > rec.issuedAt
    /\ validateGrantSet(rec.grants)
    /\ \/ rec.depth = 0 /\ rec.root = h /\ rec.parent = NoHash
       \/ /\ rec.depth > 0 /\ rec.parent \in DOMAIN recs
          /\ recs[rec.parent].depth + 1 = rec.depth
          /\ recs[rec.parent].root = rec.root
          /\ recs[rec.parent].allowDelegation
          /\ recs[rec.parent].audience = rec.audience
          /\ rec.expiresAt <= recs[rec.parent].expiresAt
          /\ grantsAreSubset(rec.grants, recs[rec.parent].grants)
          /\ ~recs[rec.parent].revoked

\* A parent named by a record is itself a record, so never the new hash.
LEMMA ParentKnown ==
    ASSUME NEW recs, Lineage(recs), NEW x \in DOMAIN recs
    PROVE  /\ recs[x] \in Record /\ recs[x].depth \in Nat
           /\ recs[x].root \in DOMAIN recs
           /\ recs[x].depth > 0 => ParentLineage(recs, x) /\ recs[x].parent \in DOMAIN recs
           /\ recs[x].depth = 0 => RootLineage(recs, x)
  <1>1. recs[x] \in Record
    BY Zenon DEF Lineage, IsImage
  <1>2. recs[x].depth \in 0..MaxDelegationDepth
    BY Zenon, <1>1 DEF Record
  <1>3. recs[x].depth \in Nat
    BY <1>2, BoundAssumption
  <1>4. IF recs[x].depth = 0 THEN RootLineage(recs, x) ELSE ParentLineage(recs, x)
    BY Zenon DEF Lineage, validateLoadedRecords
  <1>5. recs[x].root \in DOMAIN recs
    BY Zenon DEF Lineage, validateLoadedRecords
  <1> QED  BY <1>1, <1>3, <1>4, <1>5 DEF ParentLineage

\* Mint and Delegate attach the new token where load will accept it.
LEMMA IssueLineage ==
    ASSUME NEW recs, NEW h, NEW rec, Lineage(recs), NewRecord(recs, h, rec)
    PROVE  Lineage(With(recs, h, rec))
  <1> DEFINE next == With(recs, h, rec)
  <1>1. /\ DOMAIN next = DOMAIN recs \cup {h}
        /\ next[h] = rec
        /\ \A x \in DOMAIN recs : next[x] = recs[x]
        /\ h \notin DOMAIN recs
    <2>1. h \notin DOMAIN recs  BY Zenon DEF NewRecord
    <2> QED  BY Zenon, <2>1 DEF With
  <1>2. next = [x \in DOMAIN next |-> next[x]]
    BY Zenon DEF With
  <1> HIDE DEF next
  <1>3. IsImage(next)
    <2>1. \A x \in DOMAIN next : next[x] \in Record
      BY Zenon, <1>1 DEF IsImage, NewRecord, Lineage
    <2>2. DOMAIN next \subseteq Hash
      BY Zenon, <1>1 DEF IsImage, NewRecord, Lineage
    <2> QED  BY Zenon, <1>2, <2>1, <2>2 DEF IsImage
  <1>4. decodeDiskState(next)
    <2>1. rec.depth <= MaxDelegationDepth
      BY BoundAssumption DEF NewRecord, Record
    <2> QED  BY Zenon, <1>1, <2>1 DEF decodeDiskState, NewRecord, Lineage
  <1>5. ASSUME NEW x \in DOMAIN recs, NEW seed
        PROVE  x \in Subtree(recs, seed) /\ seed \subseteq DOMAIN recs => x \in Subtree(next, seed)
    <2> SUFFICES ASSUME x \in Subtree(recs, seed), seed \subseteq DOMAIN recs,
                        NEW S \in SUBSET DOMAIN next,
                        seed \cap DOMAIN next \subseteq S, ClosedUnderChildren(next, S)
                 PROVE  x \in S
      BY Zenon, <1>1 DEF Subtree
    <2>1. ClosedUnderChildren(recs, S \cap DOMAIN recs)
      BY Zenon, <1>1 DEF ClosedUnderChildren
    <2>2. seed \cap DOMAIN recs \subseteq S \cap DOMAIN recs
      BY Zenon, <1>1
    <2> QED  BY Zenon, <2>1, <2>2, SubtreeLeast
  <1>6. Rooted(next)
    <2>1. ASSUME NEW x \in DOMAIN recs  PROVE x \in Subtree(next, {next[x].root})
      <3>1. recs[x].root \in DOMAIN recs /\ x \in Subtree(recs, {recs[x].root})
        BY Zenon DEF Lineage, validateLoadedRecords, Rooted
      <3> QED  BY Zenon, <1>1, <1>5, <3>1
    <2>2. h \in Subtree(next, {rec.root})
      <3>1. CASE rec.depth = 0 /\ rec.root = h
        BY Zenon, <1>1, <3>1, SubtreeSeed
      <3>2. CASE rec.depth > 0 /\ rec.parent \in DOMAIN recs /\ recs[rec.parent].root = rec.root
        <4>1. rec.parent \in Subtree(next, {rec.root})
          BY Zenon, <1>1, <2>1, <3>2
        <4> QED  BY Zenon, <1>1, <3>2, <4>1, SubtreeClosed DEF ClosedUnderChildren
      <3> QED  BY Zenon, <3>1, <3>2 DEF NewRecord
    <2> QED  BY Zenon, <1>1, <2>1, <2>2 DEF Rooted
  <1>7. validateLoadedRecords(next)
    <2>1. ASSUME NEW x \in DOMAIN recs
          PROVE  /\ IF next[x].depth = 0 THEN RootLineage(next, x) ELSE ParentLineage(next, x)
                 /\ next[x].root \in DOMAIN next
                 /\ next[next[x].root].depth = 0
                 /\ next[next[x].root].root = next[x].root
      <3>1. /\ recs[x].root \in DOMAIN recs /\ recs[x].depth \in Nat
            /\ recs[x].depth > 0 => ParentLineage(recs, x) /\ recs[x].parent \in DOMAIN recs
            /\ recs[x].depth = 0 => RootLineage(recs, x)
        BY Zenon, ParentKnown
      <3>2. recs[recs[x].root].depth = 0 /\ recs[recs[x].root].root = recs[x].root
        BY Zenon DEF Lineage, validateLoadedRecords
      <3>3. CASE recs[x].depth = 0
        BY Zenon, <1>1, <3>1, <3>2, <3>3 DEF RootLineage
      <3>4. CASE recs[x].depth > 0
        BY <1>1, <3>1, <3>2, <3>4 DEF ParentLineage
      <3> QED  BY <3>1, <3>3, <3>4
    <2>2. /\ IF rec.depth = 0 THEN RootLineage(next, h) ELSE ParentLineage(next, h)
          /\ rec.root \in DOMAIN next
          /\ next[rec.root].depth = 0
          /\ next[rec.root].root = rec.root
      <3>1. CASE rec.depth = 0 /\ rec.root = h /\ rec.parent = NoHash
        BY Zenon, <1>1, <3>1 DEF RootLineage
      <3>2. CASE rec.depth > 0 /\ rec.parent \in DOMAIN recs
        <4>1. rec.depth # 0 /\ rec.parent # h
          BY <1>1, <3>2
        <4>2. /\ recs[rec.parent].depth + 1 = rec.depth
              /\ recs[rec.parent].root = rec.root
              /\ recs[rec.parent].allowDelegation
              /\ recs[rec.parent].audience = rec.audience
              /\ rec.expiresAt <= recs[rec.parent].expiresAt
              /\ grantsAreSubset(rec.grants, recs[rec.parent].grants)
              /\ ~recs[rec.parent].revoked
          BY Zenon, <4>1 DEF NewRecord
        <4>3. ParentLineage(next, h)
          BY Zenon, <1>1, <3>2, <4>2 DEF ParentLineage
        <4>4. /\ rec.root \in DOMAIN recs
              /\ recs[rec.root].depth = 0
              /\ recs[rec.root].root = rec.root
          BY Zenon, <3>2, <4>2 DEF Lineage, validateLoadedRecords
        <4> QED  BY Zenon, <1>1, <4>1, <4>3, <4>4
      <3> QED  BY Zenon, <3>1, <3>2 DEF NewRecord
    <2> QED  BY <1>1, <2>1, <2>2 DEF validateLoadedRecords
  <1> QED  BY Zenon, <1>3, <1>4, <1>6, <1>7 DEF Lineage, next

\* The counts Delegate and Mint check are the ones load checks.
LEMMA IssueRoom ==
    ASSUME NEW recs, NEW h, NEW rec, Sound(recs), NewRecord(recs, h, rec),
           ensureAppendCapacity(With(recs, h, rec)),
           rec.depth > 0 => /\ directChildCount(recs, rec.parent) < MaxChildrenPerToken
                            /\ rootTokenCount(recs, rec.root) < MaxTokensPerRoot
    PROVE  Room(With(recs, h, rec))
  <1> DEFINE next == With(recs, h, rec)
             Kids(r, y) == {x \in DOMAIN r : r[x].parent = y /\ r[x].depth > 0}
             Tree(r, y) == {x \in DOMAIN r : r[x].root = y}
  <1>0. IsImage(recs) /\ Lineage(recs) /\ Room(recs)
    BY Zenon DEF Sound, Lineage
  <1>1. /\ DOMAIN next = DOMAIN recs \cup {h}
        /\ next[h] = rec
        /\ \A x \in DOMAIN recs : next[x] = recs[x]
        /\ h \notin DOMAIN recs
    <2>1. h \notin DOMAIN recs  BY Zenon DEF NewRecord
    <2> QED  BY Zenon, <2>1 DEF With
  <1>2. IsImage(next)
    BY Zenon, <1>0, IssueLineage DEF Lineage
  <1>3. \A x \in DOMAIN recs : recs[x].depth > 0 => recs[x].parent \in DOMAIN recs
    BY Zenon, <1>0, ParentKnown
  <1>4. \A x \in DOMAIN recs : recs[x].root \in DOMAIN recs
    BY Zenon, <1>0, ParentKnown
  <1>5. \A y : IsFiniteSet(Kids(recs, y)) /\ Cardinality(Kids(recs, y)) \in Nat
    BY Zenon, <1>0, ImageFinite
  <1>6. \A y : IsFiniteSet(Tree(recs, y)) /\ Cardinality(Tree(recs, y)) \in Nat
    BY Zenon, <1>0, ImageFinite
  <1> HIDE DEF next
  <1>7. ASSUME NEW y \in DOMAIN next
        PROVE  Cardinality(Kids(next, y)) <= MaxChildrenPerToken
    <2>1. CASE rec.depth > 0 /\ y = rec.parent
      <3>1. Kids(next, y) = Kids(recs, y) \cup {h} /\ h \notin Kids(recs, y)
        BY Zenon, <1>1, <2>1
      <3>2. Cardinality(Kids(recs, y)) < MaxChildrenPerToken
        BY Zenon, <2>1 DEF directChildCount
      <3>3. IsFiniteSet(Kids(recs, y)) /\ Cardinality(Kids(recs, y)) \in Nat
        BY Zenon, <1>5
      <3> HIDE DEF Kids
      <3>4. Cardinality(Kids(next, y)) = Cardinality(Kids(recs, y)) + 1
        BY Zenon, <3>1, <3>3, FS_AddElement
      <3> QED  BY <3>2, <3>3, <3>4, BoundAssumption
    <2>2. CASE ~(rec.depth > 0 /\ y = rec.parent) /\ y \in DOMAIN recs
      <3>1. Kids(next, y) = Kids(recs, y)
        BY Zenon, <1>1, <2>2
      <3>2. Cardinality(Kids(recs, y)) <= MaxChildrenPerToken
        BY Zenon, <1>0, <2>2 DEF Room, validateLoadedBounds, directChildCount
      <3> QED  BY Zenon, <3>1, <3>2
    <2>3. CASE ~(rec.depth > 0 /\ y = rec.parent) /\ y = h
      <3>1. Kids(next, y) = {}
        BY Zenon, <1>1, <1>3, <2>3
      <3> HIDE DEF Kids
      <3> QED  BY <3>1, FS_EmptySet, BoundAssumption
    <2> QED  BY Zenon, <1>1, <2>1, <2>2, <2>3
  <1>8. ASSUME NEW y \in DOMAIN next
        PROVE  Cardinality(Tree(next, next[y].root)) <= MaxTokensPerRoot
    <2> DEFINE r == next[y].root
    <2>1. CASE r = rec.root /\ rec.depth > 0
      <3>1. Tree(next, rec.root) = Tree(recs, rec.root) \cup {h} /\ h \notin Tree(recs, rec.root)
        BY Zenon, <1>1
      <3>2. Cardinality(Tree(recs, rec.root)) < MaxTokensPerRoot
        BY Zenon, <2>1 DEF rootTokenCount
      <3>3. IsFiniteSet(Tree(recs, rec.root)) /\ Cardinality(Tree(recs, rec.root)) \in Nat
        BY Zenon, <1>6
      <3> HIDE DEF Tree
      <3>4. Cardinality(Tree(next, rec.root)) = Cardinality(Tree(recs, rec.root)) + 1
        BY Zenon, <3>1, <3>3, FS_AddElement
      <3> QED  BY <2>1, <3>2, <3>3, <3>4, BoundAssumption
    <2>2. CASE r = rec.root /\ rec.root = h
      <3>1. Tree(next, r) = {h}
        BY Zenon, <1>1, <1>4, <2>2
      <3>2. Cardinality({h}) = 1
        BY Zenon, FS_Singleton
      <3> QED  BY <3>1, <3>2, BoundAssumption
    <2>3. CASE r # rec.root
      <3>1. y \in DOMAIN recs /\ r = recs[y].root
        BY Zenon, <1>1, <2>3
      <3>2. Tree(next, r) = Tree(recs, r)
        BY Zenon, <1>1, <2>3
      <3>3. Cardinality(Tree(recs, recs[y].root)) <= MaxTokensPerRoot
        BY Zenon, <1>0, <3>1 DEF Room, validateLoadedBounds, rootTokenCount
      <3> QED  BY Zenon, <3>1, <3>2, <3>3
    <2> QED  BY Zenon, <2>1, <2>2, <2>3 DEF NewRecord
  <1>9. Cardinality(DOMAIN next) <= MaxRecords
        /\ Footprint(Cardinality(DOMAIN next)) <= FileSizeLimit
    BY Zenon, <1>2, CapacityGivesRoom DEF ensureAppendCapacity, next
  <1>10. validateLoadedBounds(next)
    BY Zenon, <1>7, <1>8, <1>9 DEF validateLoadedBounds, directChildCount, rootTokenCount
  <1> QED  BY Zenon, <1>9, <1>10 DEF Room, next

-----------------------------------------------------------------------------
(* The inductive invariant *)

\* What holds of every file a restart may find, given the history: u hashes
\* used, a acknowledged revocations, i bearers issued, r revocations begun, and
\* l the latest time seen.
Faithful(image, u, a, i, r, l) ==
    IF image = NoFile
    THEN \A h \in DOMAIN i \ r : ~(l < i[h])
    ELSE /\ Sound(image)
         /\ DOMAIN image \subseteq u
         /\ \A h \in a : h \in DOMAIN image => image[h].revoked = TRUE
         /\ \A h \in DOMAIN i \ r : l < i[h] =>
                /\ h \in DOMAIN image
                /\ image[h].revoked = FALSE
                /\ image[h].expiresAt = i[h]

AllFaithful(f, u, a, i, r, l) ==
    \A image \in f.durable \cup {f.file} : Faithful(image, u, a, i, r, l)

HistoryOK(u, a, i, r) ==
    /\ u \subseteq Hash /\ a \subseteq u /\ r \subseteq Hash
    /\ DOMAIN i \subseteq u /\ i \in [DOMAIN i -> Expiry]

IInv ==
    /\ clock \in 0..MaxTime /\ latest \in 0..MaxTime /\ clock <= latest
    /\ lock \in Process \cup {NoProcess}
    /\ DOMAIN records = Process
    /\ \A p \in Process : p # lock => records[p] = Empty
    /\ lock # NoProcess => records[lock] = fs.file /\ fs.file # NoFile
    /\ faults \in 0..MaxFaults
    /\ HistoryOK(used, acked, issued, revoking)
    /\ AllFaithful(fs, used, acked, issued, revoking, latest)

\* The same of a method between two of its persists.
StageOK(st, u, a, i, r, l) ==
    /\ st.mem = st.fs.file /\ st.mem # NoFile
    /\ st.faults \in Nat
    /\ AllFaithful(st.fs, u, a, i, r, l)

\* A sound map is not the missing file.
LEMMA SoundIsFile ==
    ASSUME NEW recs, IsImage(recs)
    PROVE  recs # NoFile
  BY Zenon, FileAssumption DEF IsImage

\* Where a persist of recs from the stage st ends, as the stage new.
Lands(st, recs, new) ==
    /\ new.mem = recs \/ (new.mem = st.mem /\ new.fs = st.fs)
    /\ new.ok => new.mem = recs /\ new.fs.durable = {recs} /\ new.fs.file = recs

\* A persist installs the new map or leaves map and file as they were, and
\* success leaves exactly one image.
LEMMA PersistLands ==
    ASSUME NEW st, NEW recs, NEW o \in Outcome
    PROVE  Lands(st, recs, persist(st, recs, o))
  <1> DEFINE end == IF EncodedSize(recs) > FileSizeLimit THEN "failed" ELSE o
             new == persist(st, recs, o)
  <1>0. end \in Outcome
    BY Zenon DEF Outcome
  <1>1. CASE end = "failed"
    <2>1. new.mem = st.mem /\ new.fs = st.fs /\ new.ok = FALSE
      BY Zenon, <1>1 DEF persist
    <2> HIDE DEF new
    <2> QED  BY Zenon, <2>1 DEF Lands, new
  <1>2. CASE end = "unsynced"
    <2>1. new.mem = recs /\ new.ok = FALSE
      BY Zenon, <1>2 DEF persist
    <2> HIDE DEF new
    <2> QED  BY Zenon, <2>1 DEF Lands, new
  <1>3. CASE end = "ok"
    <2>1. new.mem = recs /\ new.fs = [file |-> recs, durable |-> {recs}]
      BY Zenon, <1>3 DEF persist
    <2>2. new.fs.file = recs /\ new.fs.durable = {recs}
      BY <2>1
    <2> HIDE DEF new
    <2> QED  BY Zenon, <2>1, <2>2 DEF Lands, new
  <1> QED  BY Zenon, <1>0, <1>1, <1>2, <1>3 DEF Outcome

\* A persist takes a sound stage to a sound stage however it ends.
LEMMA PersistStage ==
    ASSUME NEW st, NEW recs, NEW o \in Outcome, NEW u, NEW a, NEW i, NEW r, NEW l,
           StageOK(st, u, a, i, r, l), Faithful(recs, u, a, i, r, l), recs # NoFile
    PROVE  StageOK(persist(st, recs, o), u, a, i, r, l)
  <1> DEFINE end == IF EncodedSize(recs) > FileSizeLimit THEN "failed" ELSE o
             new == persist(st, recs, o)
  <1>0. end \in Outcome
    BY Zenon DEF Outcome
  <1>1. new.faults = IF o = "ok" THEN st.faults ELSE st.faults + 1
    BY Zenon DEF persist
  <1>2. CASE end = "failed"
    <2>1. new.mem = st.mem /\ new.fs = st.fs /\ new.ok = FALSE
      BY Zenon, <1>2 DEF persist
    <2> HIDE DEF new
    <2> QED  BY <1>1, <2>1 DEF StageOK, new
  <1>3. CASE end = "unsynced"
    <2>1. /\ new.mem = recs /\ new.ok = FALSE
          /\ new.fs = [file |-> recs, durable |-> st.fs.durable \cup {recs}]
      BY Zenon, <1>3 DEF persist
    <2>2. new.fs.file = recs /\ new.fs.durable = st.fs.durable \cup {recs}
      BY <2>1
    <2> HIDE DEF new
    <2>3. AllFaithful(new.fs, u, a, i, r, l)
      BY Zenon, <2>2 DEF StageOK, AllFaithful
    <2> QED  BY <1>1, <2>1, <2>2, <2>3 DEF StageOK, new
  <1>4. CASE end = "ok"
    <2>1. /\ new.mem = recs /\ new.ok = TRUE
          /\ new.fs = [file |-> recs, durable |-> {recs}]
      BY Zenon, <1>4 DEF persist
    <2>2. new.fs.file = recs /\ new.fs.durable = {recs}
      BY <2>1
    <2> HIDE DEF new
    <2>3. AllFaithful(new.fs, u, a, i, r, l)
      BY Zenon, <2>2 DEF StageOK, AllFaithful
    <2> QED  BY <1>1, <2>1, <2>2, <2>3 DEF StageOK, new
  <1> QED  BY Zenon, <1>0, <1>2, <1>3, <1>4 DEF Outcome

\* In a sound image a descendant of an inactive token is itself inactive, so a
\* prune removes the inactive tokens and no other.
LEMMA PruneExact ==
    ASSUME NEW recs, NEW now \in Nat, Lineage(recs)
    PROVE  Removed(recs, now) = InactiveHashes(recs, now)
  <1> DEFINE S == InactiveHashes(recs, now)
  <1>1. ASSUME NEW x \in DOMAIN recs, recs[x].depth > 0, recs[x].parent \in S
        PROVE  x \in S
    <2>1. ParentLineage(recs, x) /\ recs[x].parent \in DOMAIN recs
      BY Zenon, <1>1, ParentKnown
    <2>2. /\ recs[x].expiresAt <= recs[recs[x].parent].expiresAt
          /\ recs[recs[x].parent].revoked => recs[x].revoked
      BY Zenon, <2>1 DEF ParentLineage
    <2>3. recs[x] \in Record /\ recs[recs[x].parent] \in Record
      BY Zenon, <2>1, ParentKnown
    <2>4. recs[x].expiresAt \in Nat /\ recs[recs[x].parent].expiresAt \in Nat
      BY Zenon, <2>3, BoundAssumption DEF Record
    <2>5. recs[recs[x].parent].revoked \/ now >= recs[recs[x].parent].expiresAt
      BY Zenon, <1>1 DEF InactiveHashes, Inactive
    <2>6. recs[x].revoked \/ now >= recs[x].expiresAt
      BY <2>2, <2>4, <2>5
    <2> QED  BY Zenon, <1>1, <2>6 DEF InactiveHashes, Inactive
  <1>2. ClosedUnderChildren(recs, S)
    BY Zenon, <1>1 DEF ClosedUnderChildren
  <1>3. S \subseteq DOMAIN recs
    BY Zenon DEF InactiveHashes
  <1> HIDE DEF S
  <1>4. Subtree(recs, S) \subseteq S
    BY Zenon, <1>2, <1>3, SubtreeLeast
  <1>5. S \subseteq Subtree(recs, S)
    BY Zenon, <1>3, SubtreeSeed
  <1> QED  BY Zenon, <1>4, <1>5 DEF Removed, S

\* Pruning loses no token a caller may still use, and un-revokes none.
LEMMA PruneFaithful ==
    ASSUME NEW recs, NEW now \in Nat, NEW u, NEW a, NEW i, NEW r, NEW l \in Nat,
           HistoryOK(u, a, i, r), now <= l, recs # NoFile, Faithful(recs, u, a, i, r, l)
    PROVE  /\ Faithful(pruneInactive(recs, now), u, a, i, r, l)
           /\ pruneInactive(recs, now) # NoFile
  <1> DEFINE pruned == pruneInactive(recs, now)
  <1>1. Sound(recs)
    BY Zenon DEF Faithful
  <1>2. Sound(pruned) /\ pruned # NoFile
    BY Zenon, <1>1, PruneSound, SoundIsFile DEF Sound, Lineage
  <1>3. DOMAIN pruned = DOMAIN recs \ InactiveHashes(recs, now)
    BY Zenon, <1>1, PruneFacts, PruneExact DEF Sound
  <1>4. \A h \in DOMAIN pruned : pruned[h] = recs[h]
    BY Zenon, PruneFacts
  <1> HIDE DEF pruned
  <1>5. \A h \in a : h \in DOMAIN pruned => pruned[h].revoked = TRUE
    BY Zenon, <1>3, <1>4 DEF Faithful
  <1>6. ASSUME NEW h \in DOMAIN i \ r, l < i[h]
        PROVE  h \in DOMAIN pruned /\ pruned[h].revoked = FALSE /\ pruned[h].expiresAt = i[h]
    <2>1. h \in DOMAIN recs /\ recs[h].revoked = FALSE /\ recs[h].expiresAt = i[h]
      BY Zenon, <1>6 DEF Faithful
    <2>2. i[h] \in Nat
      BY Zenon, BoundAssumption DEF HistoryOK
    <2>3. ~(now >= recs[h].expiresAt)
      BY <1>6, <2>1, <2>2
    <2>4. h \notin InactiveHashes(recs, now)
      BY Zenon, <2>1, <2>3 DEF InactiveHashes, Inactive
    <2> QED  BY Zenon, <1>3, <1>4, <2>1, <2>4
  <1> QED  BY Zenon, <1>2, <1>3, <1>5, <1>6 DEF Faithful, pruned

\* pruneLocked, however its persist ends, leaves a state a method may go on from.
LEMMA PruneStage ==
    ASSUME NEW st, NEW now \in Nat, NEW o \in Outcome,
           NEW u, NEW a, NEW i, NEW r, NEW l \in Nat,
           HistoryOK(u, a, i, r), now <= l, StageOK(st, u, a, i, r, l), st.ok = TRUE
    PROVE  LET new == pruneLocked(st, now, o)
           IN  /\ StageOK(new, u, a, i, r, l)
               /\ new.ok => /\ new.mem = pruneInactive(st.mem, now)
                            /\ \/ new.fs.durable = {new.mem} /\ new.fs.file = new.mem
                               \/ new.mem = st.mem
  <1> DEFINE next == pruneInactive(st.mem, now)
             new == pruneLocked(st, now, o)
  <1>1. Faithful(st.mem, u, a, i, r, l) /\ st.mem # NoFile
    BY Zenon DEF StageOK, AllFaithful
  <1>2. Faithful(next, u, a, i, r, l) /\ next # NoFile
    BY Zenon, <1>1, PruneFaithful
  <1>3. CASE InactiveHashes(st.mem, now) = {}
    <2>1. new = st
      BY Zenon, <1>3 DEF pruneLocked
    <2>2. Lineage(st.mem)
      BY Zenon, <1>1 DEF Faithful, Sound
    <2>3. Removed(st.mem, now) = {}
      BY Zenon, <1>3, <2>2, PruneExact
    <2>4. next = [h \in DOMAIN st.mem |-> st.mem[h]]
      BY Zenon, <2>3 DEF pruneInactive, Removed
    <2>5. st.mem = [h \in DOMAIN st.mem |-> st.mem[h]]
      BY Zenon, <2>2 DEF Lineage, IsImage
    <2> HIDE DEF new, next
    <2> QED  BY Zenon, <2>1, <2>4, <2>5 DEF new, next
  <1>4. CASE InactiveHashes(st.mem, now) # {}
    <2>1. new = persist(st, next, o)
      BY Zenon, <1>4 DEF pruneLocked
    <2>2. LET p == persist(st, next, o)
          IN  /\ StageOK(p, u, a, i, r, l)
              /\ p.ok => p.mem = next /\ p.fs.durable = {next} /\ p.fs.file = next
      <3> DEFINE p == persist(st, next, o)
      <3> HIDE DEF next
      <3>1. StageOK(p, u, a, i, r, l)
        BY Zenon, <1>2, PersistStage
      <3>2. Lands(st, next, p)
        BY Zenon, PersistLands
      <3> HIDE DEF p
      <3> QED  BY Zenon, <3>1, <3>2 DEF Lands, p
    <2> HIDE DEF new, next
    <2> QED  BY Zenon, <2>1, <2>2 DEF new, next
  <1> QED  BY Zenon, <1>3, <1>4

-----------------------------------------------------------------------------
(* Each action preserves the invariant *)

\* A method that ends in a sound stage re-establishes the invariant.
LEMMA InstallInv ==
    ASSUME NEW p \in Process, NEW st, IInv, lock = p, Install(p, st),
           HistoryOK(used', acked', issued', revoking'),
           StageOK(st, used', acked', issued', revoking', latest)
    PROVE  IInv'
  <1>1. /\ records' = [records EXCEPT ![p] = st.mem] /\ fs' = st.fs /\ faults' = st.faults
        /\ clock' = clock /\ latest' = latest /\ lock' = lock /\ st.faults <= MaxFaults
    BY Zenon DEF Install
  <1>2. DOMAIN records = Process /\ \A q \in Process : q # lock => records[q] = Empty
    BY Zenon DEF IInv
  <1>3. DOMAIN records' = Process /\ records'[p] = st.mem
        /\ \A q \in Process : q # lock' => records'[q] = Empty
    BY Zenon, <1>1, <1>2
  <1>4. faults' \in 0..MaxFaults
    BY <1>1, BoundAssumption DEF StageOK
  <1>5. AllFaithful(fs', used', acked', issued', revoking', latest')
    BY Zenon, <1>1 DEF StageOK
  <1>6. lock' # NoProcess => records'[lock'] = fs'.file /\ fs'.file # NoFile
    BY Zenon, <1>1, <1>3 DEF StageOK
  <1>7. /\ clock' \in 0..MaxTime /\ latest' \in 0..MaxTime /\ clock' <= latest'
        /\ lock' \in Process \cup {NoProcess}
    BY Zenon, <1>1 DEF IInv
  <1> QED  BY Zenon, <1>3, <1>4, <1>5, <1>6, <1>7 DEF IInv

\* Every method starts from the live map, prunes it, and stays sound.
LEMMA MethodPrune ==
    ASSUME NEW p \in Process, NEW o \in Outcome, IInv, lock = p
    PROVE  LET pruned == pruneLocked(Stage(p), clock, o)
           IN  /\ StageOK(pruned, used, acked, issued, revoking, latest)
               /\ Sound(pruned.mem) /\ DOMAIN pruned.mem \subseteq used
               /\ pruned.ok =>
                    /\ pruned.mem = pruneInactive(records[p], clock)
                    /\ \/ pruned.fs.durable = {pruned.mem} /\ pruned.fs.file = pruned.mem
                       \/ pruned.mem = records[p]
  <1> DEFINE st == Stage(p)
             pruned == pruneLocked(st, clock, o)
  <1>1. st.mem = records[p] /\ st.fs = fs /\ st.faults = faults /\ st.ok = TRUE
    BY Zenon DEF Stage
  <1>2. /\ records[p] = fs.file /\ fs.file # NoFile
        /\ faults \in Nat /\ clock \in Nat /\ latest \in Nat /\ clock <= latest
        /\ HistoryOK(used, acked, issued, revoking)
        /\ AllFaithful(fs, used, acked, issued, revoking, latest)
    BY NullAssumption, BoundAssumption DEF IInv
  <1> HIDE DEF st
  <1>3. StageOK(st, used, acked, issued, revoking, latest)
    BY Zenon, <1>1, <1>2 DEF StageOK
  <1>4. /\ StageOK(pruned, used, acked, issued, revoking, latest)
        /\ pruned.ok => /\ pruned.mem = pruneInactive(st.mem, clock)
                        /\ \/ pruned.fs.durable = {pruned.mem} /\ pruned.fs.file = pruned.mem
                           \/ pruned.mem = st.mem
    BY Zenon, <1>1, <1>2, <1>3, PruneStage
  <1> HIDE DEF pruned
  <1>5. Faithful(pruned.mem, used, acked, issued, revoking, latest) /\ pruned.mem # NoFile
    BY Zenon, <1>4 DEF StageOK, AllFaithful
  <1>6. Sound(pruned.mem) /\ DOMAIN pruned.mem \subseteq used
    BY Zenon, <1>5 DEF Faithful
  <1> QED  BY Zenon, <1>1, <1>4, <1>6 DEF pruned, st

\* A method that returns early preserves the invariant.
LEMMA RefuseInv ==
    ASSUME NEW p \in Process, NEW st, IInv, lock = p, Refuse(p, st),
           StageOK(st, used, acked, issued, revoking, latest)
    PROVE  IInv'
  <1>1. Install(p, st) /\ UNCHANGED <<used, issued, revoking, acked>>
    BY Zenon DEF Refuse
  <1>2. HistoryOK(used', acked', issued', revoking')
    BY Zenon, <1>1 DEF IInv
  <1>3. StageOK(st, used', acked', issued', revoking', latest)
    BY Zenon, <1>1
  <1> QED  BY Zenon, <1>1, <1>2, <1>3, InstallInv

\* Persisting a new token, with any outcome, preserves the invariant.
LEMMA IssueInv ==
    ASSUME NEW p \in Process, NEW h, NEW rec, NEW pruned, NEW o \in Outcome,
           IInv, lock = p,
           StageOK(pruned, used, acked, issued, revoking, latest),
           NewRecord(pruned.mem, h, rec), h \notin used, rec.revoked = FALSE,
           Sound(With(pruned.mem, h, rec)),
           Issue(p, h, pruned, With(pruned.mem, h, rec), o)
    PROVE  IInv'
  <1> DEFINE next == With(pruned.mem, h, rec)
             st == persist(pruned, next, o)
             nu == used \cup {h}
             ni == With(issued, h, next[h].expiresAt)
  <1>0. HistoryOK(used, acked, issued, revoking)
    BY Zenon DEF IInv
  <1>1. /\ Install(p, st) /\ revoking' = revoking /\ acked' = acked
        /\ used' = (IF h \in DOMAIN st.mem THEN nu ELSE used)
        /\ issued' = (IF st.ok THEN ni ELSE issued)
    BY Zenon DEF Issue
  <1>2. /\ DOMAIN next = DOMAIN pruned.mem \cup {h}
        /\ next[h] = rec
        /\ \A x \in DOMAIN pruned.mem : next[x] = pruned.mem[x]
        /\ h \notin DOMAIN pruned.mem /\ h \in Hash /\ rec \in Record
    <2>1. h \notin DOMAIN pruned.mem /\ h \in Hash /\ rec \in Record  BY Zenon DEF NewRecord
    <2> QED  BY Zenon, <2>1 DEF With
  <1>3. /\ DOMAIN ni = DOMAIN issued \cup {h} /\ ni[h] = rec.expiresAt
        /\ \A x \in DOMAIN issued \ {h} : ni[x] = issued[x]
        /\ ni \in [DOMAIN ni -> Expiry]
    <2>1. rec.expiresAt \in Expiry  BY Zenon, <1>2 DEF Record
    <2>2. issued \in [DOMAIN issued -> Expiry]  BY Zenon, <1>0 DEF HistoryOK
    <2>3. next[h].expiresAt = rec.expiresAt  BY Zenon, <1>2
    <2> HIDE DEF next
    <2> QED  BY Zenon, <2>1, <2>2, <2>3 DEF With
  <1> HIDE DEF ni
  <1>4. Faithful(pruned.mem, used, acked, issued, revoking, latest) /\ pruned.mem # NoFile
    BY Zenon DEF StageOK, AllFaithful
  <1>5. next # NoFile
    BY Zenon, SoundIsFile DEF Sound, Lineage
  <1> HIDE DEF next
  <1>6. Sound(next)
    BY Zenon DEF next
  <1>7. DOMAIN next \subseteq nu
    BY Zenon, <1>2, <1>4 DEF Faithful
  <1>8. \A x \in acked : x \in DOMAIN next => next[x].revoked = TRUE
    BY Zenon, <1>0, <1>2, <1>4 DEF Faithful, HistoryOK
  <1>9. \A x \in DOMAIN issued \ revoking : latest < issued[x] =>
            x \in DOMAIN next /\ next[x].revoked = FALSE /\ next[x].expiresAt = issued[x]
    BY Zenon, <1>2, <1>4 DEF Faithful
  <1>10. Faithful(next, nu, acked, issued, revoking, latest)
    BY Zenon, <1>5, <1>6, <1>7, <1>8, <1>9 DEF Faithful
  <1>11. Faithful(next, nu, acked, ni, revoking, latest)
    <2>1. \A x \in DOMAIN ni \ revoking : latest < ni[x] =>
            x \in DOMAIN next /\ next[x].revoked = FALSE /\ next[x].expiresAt = ni[x]
      <3>1. DOMAIN issued \subseteq used /\ h \notin DOMAIN issued
        BY Zenon, <1>0 DEF HistoryOK
      <3>2. ASSUME NEW x \in DOMAIN ni \ revoking, latest < ni[x], x # h
            PROVE  x \in DOMAIN next /\ next[x].revoked = FALSE /\ next[x].expiresAt = ni[x]
        BY Zenon, <1>3, <1>9, <3>1, <3>2
      <3>3. h \in DOMAIN next /\ next[h].revoked = FALSE /\ next[h].expiresAt = ni[h]
        BY Zenon, <1>2, <1>3
      <3> QED  BY Zenon, <3>2, <3>3
    <2> QED  BY Zenon, <1>5, <1>6, <1>7, <1>8, <2>1 DEF Faithful
  <1>12. StageOK(pruned, nu, acked, issued, revoking, latest)
    BY Zenon DEF StageOK, AllFaithful, Faithful
  <1>13. /\ StageOK(st, nu, acked, issued, revoking, latest)
         /\ st.mem = next \/ (st.mem = pruned.mem /\ st.fs = pruned.fs)
         /\ st.ok => st.mem = next /\ st.fs.durable = {next} /\ st.fs.file = next
    <2> HIDE DEF nu
    <2>1. StageOK(st, nu, acked, issued, revoking, latest)
      BY Zenon, <1>5, <1>10, <1>12, PersistStage
    <2>2. Lands(pruned, next, st)
      BY Zenon, PersistLands
    <2> HIDE DEF st
    <2> QED  BY Zenon, <2>1, <2>2 DEF Lands
  <1> HIDE DEF st
  <1>14. CASE st.ok
    <2>1. used' = nu /\ issued' = ni
      BY Zenon, <1>1, <1>2, <1>13, <1>14
    <2>2. StageOK(st, nu, acked, ni, revoking, latest)
      BY Zenon, <1>11, <1>13, <1>14 DEF StageOK, AllFaithful
    <2>3. HistoryOK(nu, acked, ni, revoking)
      BY Zenon, <1>0, <1>2, <1>3 DEF HistoryOK
    <2> QED  BY Zenon, <1>1, <2>1, <2>2, <2>3, InstallInv
  <1>15. CASE ~st.ok /\ st.mem = next
    <2>1. used' = nu /\ issued' = issued
      BY Zenon, <1>1, <1>2, <1>15
    <2>2. HistoryOK(nu, acked, issued, revoking)
      BY Zenon, <1>0, <1>2 DEF HistoryOK
    <2> QED  BY Zenon, <1>1, <1>13, <2>1, <2>2, InstallInv
  <1>16. CASE ~st.ok /\ st.mem = pruned.mem /\ st.fs = pruned.fs
    <2>1. used' = used /\ issued' = issued
      BY Zenon, <1>1, <1>2, <1>16
    <2>2. StageOK(st, used, acked, issued, revoking, latest)
      BY Zenon, <1>13, <1>16 DEF StageOK
    <2> QED  BY Zenon, <1>0, <1>1, <2>1, <2>2, InstallInv
  <1> QED  BY Zenon, <1>13, <1>14, <1>15, <1>16

\* A record built from typed fields is a record.
LEMMA RecordIntro ==
    ASSUME NEW pa \in Hash \cup {NoHash}, NEW ro \in Hash, NEW w \in Workload,
           NEW au \in Audience, NEW i \in 0..MaxTime, NEW e \in Expiry, NEW gs,
           gs \in Requested, NEW allow \in BOOLEAN, NEW d \in 0..MaxDelegationDepth,
           NEW rv \in BOOLEAN
    PROVE  [parent |-> pa, root |-> ro, workload |-> w, audience |-> au, issuedAt |-> i,
            expiresAt |-> e, grants |-> gs, allowDelegation |-> allow, depth |-> d,
            revoked |-> rv] \in Record
  BY DEF Record

\* Mint preserves the invariant.
LEMMA MintInv ==
    ASSUME NEW p \in Process, NEW h \in Hash \cup {NoHash}, NEW w \in Workload,
           NEW au \in Audience, NEW e \in Expiry, NEW gs \in Requested,
           NEW allow \in MayDelegate, NEW o1 \in Outcome, NEW o2 \in Outcome,
           IInv, Mint(p, h, w, au, e, gs, allow, o1, o2)
    PROVE  IInv'
  <1> DEFINE pruned == pruneLocked(Stage(p), clock, o1)
             rec  == [parent |-> NoHash, root |-> h, workload |-> w, audience |-> au,
                      issuedAt |-> clock, expiresAt |-> e, grants |-> gs,
                      allowDelegation |-> allow, depth |-> 0, revoked |-> FALSE]
             next == With(pruned.mem, h, rec)
             accepted == /\ pruned.ok
                         /\ e > clock
                         /\ h # NoHash
                         /\ ensureAppendCapacity(next)
  <1>1. /\ lock = p /\ validateGrantSet(gs) /\ Generated(pruned.mem, h)
        /\ \/ accepted /\ Issue(p, h, pruned, next, o2)
           \/ ~accepted /\ Refuse(p, pruned)
    BY ZenonT(30) DEF Mint
  <1>2. /\ StageOK(pruned, used, acked, issued, revoking, latest)
        /\ Sound(pruned.mem) /\ DOMAIN pruned.mem \subseteq used
    BY <1>1, MethodPrune, Zenon
  <1> HIDE DEF pruned
  <1>3. CASE accepted /\ Issue(p, h, pruned, next, o2)
    <2>1. h \in Hash /\ h \notin used /\ h \notin DOMAIN pruned.mem /\ e > clock
          /\ ensureAppendCapacity(next)
      BY Zenon, <1>1, <1>3 DEF Generated
    <2>2. rec \in Record
      <3>1. clock \in 0..MaxTime
        BY Zenon DEF IInv
      <3>2. allow \in BOOLEAN /\ 0 \in 0..MaxDelegationDepth
        BY RequestAssumption, BoundAssumption
      <3> QED  BY <2>1, <3>1, <3>2, RecordIntro, Zenon
    <2>3. NewRecord(pruned.mem, h, rec)
      BY Zenon, <1>1, <2>1, <2>2 DEF NewRecord
    <2>4. rec.revoked = FALSE /\ rec.depth = 0
      BY Zenon
    <2> HIDE DEF rec
    <2>5. Lineage(next)
      BY Zenon, <1>2, <2>3, IssueLineage DEF Sound
    <2>6. Room(next)
      BY <1>2, <2>1, <2>3, <2>4, IssueRoom
    <2>7. Sound(With(pruned.mem, h, rec))
      BY Zenon, <2>5, <2>6 DEF Sound
    <2> QED  BY Zenon, <1>1, <1>2, <1>3, <2>1, <2>3, <2>4, <2>7, IssueInv
  <1>4. CASE ~accepted /\ Refuse(p, pruned)
    BY Zenon, <1>1, <1>2, <1>4, RefuseInv
  <1> QED  BY Zenon, <1>1, <1>3, <1>4

\* Delegate preserves the invariant.
LEMMA DelegateInv ==
    ASSUME NEW p \in Process, NEW parent, NEW caller, NEW h \in Hash \cup {NoHash},
           NEW w \in Workload, NEW au \in Audience, NEW e \in Expiry, NEW gs \in Requested,
           NEW allow \in MayDelegate, NEW o1 \in Outcome, NEW o2 \in Outcome,
           IInv, Delegate(p, parent, caller, h, w, au, e, gs, allow, o1, o2)
    PROVE  IInv'
  <1> DEFINE pruned == pruneLocked(Stage(p), clock, o1)
             prec == pruned.mem[parent]
             rec  == [parent |-> parent, root |-> prec.root, workload |-> w,
                      audience |-> prec.audience, issuedAt |-> clock,
                      expiresAt |-> e, grants |-> gs, allowDelegation |-> allow,
                      depth |-> prec.depth + 1, revoked |-> FALSE]
             next == With(pruned.mem, h, rec)
             accepted == /\ pruned.ok
                         /\ validateLocked(pruned.mem, parent, caller, au, clock)
                         /\ prec.allowDelegation
                         /\ DepthAllowed(prec)
                         /\ e > clock
                         /\ e <= prec.expiresAt
                         /\ grantsAreSubset(gs, prec.grants)
                         /\ directChildCount(pruned.mem, parent) < MaxChildrenPerToken
                         /\ rootTokenCount(pruned.mem, prec.root) < MaxTokensPerRoot
                         /\ h # NoHash
                         /\ ensureAppendCapacity(next)
  <1>1. /\ lock = p /\ validateGrantSet(gs) /\ Generated(pruned.mem, h)
        /\ \/ accepted /\ Issue(p, h, pruned, next, o2)
           \/ ~accepted /\ Refuse(p, pruned)
    BY ZenonT(30) DEF Delegate
  <1>2. /\ StageOK(pruned, used, acked, issued, revoking, latest)
        /\ Sound(pruned.mem) /\ DOMAIN pruned.mem \subseteq used
    BY <1>1, MethodPrune, Zenon
  <1> HIDE DEF pruned
  <1>3. CASE accepted /\ Issue(p, h, pruned, next, o2)
    <2>1. h \in Hash /\ h \notin used /\ h \notin DOMAIN pruned.mem
      <3>1. h # NoHash /\ Generated(pruned.mem, h)
        BY Zenon, <1>1, <1>3
      <3> HIDE DEF accepted, next, rec, prec
      <3> QED  BY Zenon, <3>1 DEF Generated
    <2>2. parent \in DOMAIN pruned.mem
      <3>1. validateLocked(pruned.mem, parent, caller, au, clock)
        BY Zenon, <1>3
      <3> QED  BY Zenon, <3>1 DEF validateLocked
    <2>3. ~prec.revoked
      <3>1. parent \in Subtree(pruned.mem, {parent})
        BY Zenon, <2>2, SubtreeSeed
      <3>2. parent \in Chain(pruned.mem, parent)
        BY Zenon, <2>2, <3>1 DEF Chain
      <3> QED  BY Zenon, <1>3, <3>2 DEF validateLocked, Inactive
    <2>4. prec \in Record
      BY Zenon, <1>2, <2>2 DEF Sound, Lineage, IsImage
    <2>5. /\ prec.root \in Hash /\ prec.audience \in Audience /\ prec.depth \in Nat
          /\ prec.depth + 1 \in 0..MaxDelegationDepth /\ prec.depth + 1 > 0
      <3>1. prec.depth \in 0..MaxDelegationDepth /\ prec.root \in Hash /\ prec.audience \in Audience
        BY Zenon, <2>4 DEF Record
      <3>2. DepthAllowed(prec)
        BY <1>3, Zenon
      <3> HIDE DEF prec
      <3> QED  BY <3>1, <3>2, BoundAssumption DEF DepthAllowed
    <2> HIDE DEF prec
    <2>6. rec \in Record
      <3>1. clock \in 0..MaxTime /\ allow \in BOOLEAN
        BY Zenon, RequestAssumption DEF IInv
      <3>2. parent \in Hash
        BY Zenon, <1>2, <2>2 DEF Sound, Lineage, IsImage
      <3> QED  BY <2>5, <3>1, <3>2, RecordIntro, Zenon
    <2>7. NewRecord(pruned.mem, h, rec)
      BY <1>1, <1>3, <2>1, <2>2, <2>3, <2>5, <2>6, Zenon DEF NewRecord, prec
    <2>8. rec.revoked = FALSE /\ rec.depth > 0 /\ rec.parent = parent /\ rec.root = prec.root
      BY Zenon, <2>5
    <2> HIDE DEF rec
    <2>9. Lineage(next)
      BY Zenon, <1>2, <2>7, IssueLineage DEF Sound
    <2>10. Room(next)
      BY <1>2, <1>3, <2>7, <2>8, IssueRoom, Zenon
    <2>11. Sound(With(pruned.mem, h, rec))
      BY Zenon, <2>9, <2>10 DEF Sound
    <2> QED  BY ZenonT(30), <1>1, <1>2, <1>3, <2>1, <2>7, <2>8, <2>11, IssueInv
  <1>4. CASE ~accepted /\ Refuse(p, pruned)
    BY <1>1, <1>2, <1>4, RefuseInv, Zenon
  <1> QED  BY <1>1, <1>3, <1>4, Zenon

-----------------------------------------------------------------------------
(* The other actions *)

\* A subtree of what a prune leaves lies inside the subtree of what it found.
LEMMA SubtreeOfPruned ==
    ASSUME NEW recs, NEW now, NEW h, Lineage(recs)
    PROVE  /\ Subtree(pruneInactive(recs, now), {h}) \subseteq Subtree(recs, {h})
           /\ Subtree(recs, {h}) \cap DOMAIN pruneInactive(recs, now)
                \subseteq Subtree(pruneInactive(recs, now), {h})
           /\ h \in DOMAIN recs \ DOMAIN pruneInactive(recs, now) =>
                Subtree(recs, {h}) \cap DOMAIN pruneInactive(recs, now) = {}
  <1> DEFINE pruned == pruneInactive(recs, now)
             gone == Removed(recs, now)
  <1>1. /\ DOMAIN pruned = DOMAIN recs \ gone
        /\ \A x \in DOMAIN pruned : pruned[x] = recs[x]
        /\ gone \subseteq DOMAIN recs
        /\ ClosedUnderChildren(recs, gone)
    BY Zenon, PruneFacts
  <1>2. pruned = [x \in DOMAIN recs \ gone |-> recs[x]]
    BY Zenon DEF pruneInactive, Removed
  <1>3. Subtree(recs, {h}) \ gone \subseteq Subtree(pruned, {h})
    BY Zenon, <1>1, <1>2, SubtreeOfRest
  <1> HIDE DEF pruned, gone
  <1>4. Subtree(pruned, {h}) \subseteq Subtree(recs, {h})
    <2> DEFINE S == Subtree(recs, {h}) \cap DOMAIN pruned
    <2>1. ClosedUnderChildren(pruned, S)
      BY Zenon, <1>1, SubtreeClosed DEF ClosedUnderChildren
    <2>2. {h} \cap DOMAIN pruned \subseteq S
      BY Zenon, <1>1, SubtreeSeed
    <2>3. Subtree(pruned, {h}) \subseteq S
      BY Zenon, <2>1, <2>2, SubtreeLeast
    <2> QED  BY Zenon, <2>3
  <1>5. ASSUME h \in gone  PROVE Subtree(recs, {h}) \subseteq gone
    BY <1>1, <1>5, SubtreeLeast
  <1> QED  BY Zenon, <1>1, <1>3, <1>4, <1>5 DEF pruned

\* revokeHash preserves the invariant, with any outcome of its two persists.
LEMMA RevokeInv ==
    ASSUME NEW p \in Process, NEW h \in Hash, NEW o1 \in Outcome, NEW o2 \in Outcome,
           IInv, revokeHash(p, h, o1, o2)
    PROVE  IInv'
  <1> DEFINE before == records[p]
             wasInactive == h \in DOMAIN before /\ recordOrAncestorInactive(before, h, clock)
             pruned == pruneLocked(Stage(p), clock, o1)
             found  == h \in DOMAIN pruned.mem
             R  == RevokeSubtree(pruned.mem, h)
             st == IF pruned.ok /\ found THEN persist(pruned, R, o2) ELSE pruned
             success == RevokeReported(st.ok, found, wasInactive)
             covered == Subtree(before, {h})
             nr == revoking \cup covered
             na == acked \cup covered
  <1>1. /\ lock = p /\ Install(p, st)
        /\ revoking' = (IF st.mem # pruned.mem \/ success THEN nr ELSE revoking)
        /\ acked' = (IF success THEN na ELSE acked)
        /\ used' = used /\ issued' = issued
    BY Zenon DEF revokeHash
  <1>2. /\ StageOK(pruned, used, acked, issued, revoking, latest)
        /\ Sound(pruned.mem) /\ DOMAIN pruned.mem \subseteq used
        /\ pruned.ok =>
              /\ pruned.mem = pruneInactive(before, clock)
              /\ \/ pruned.fs.durable = {pruned.mem} /\ pruned.fs.file = pruned.mem
                 \/ pruned.mem = before
    BY Zenon, <1>1, MethodPrune
  <1>3. HistoryOK(used, acked, issued, revoking)
    BY Zenon DEF IInv
  <1>4. Faithful(before, used, acked, issued, revoking, latest) /\ before # NoFile
    BY Zenon, <1>1, NullAssumption DEF IInv, AllFaithful
  <1>5. Sound(before) /\ DOMAIN before \subseteq used
    BY Zenon, <1>4 DEF Faithful
  <1>6. covered \subseteq DOMAIN before
    BY Zenon DEF Subtree
  <1>7. HistoryOK(used, na, issued, nr) /\ HistoryOK(used, acked, issued, nr)
    BY Zenon, <1>3, <1>5, <1>6 DEF HistoryOK
  <1> HIDE DEF pruned, covered
  <1>8. Faithful(pruned.mem, used, acked, issued, revoking, latest) /\ pruned.mem # NoFile
    BY Zenon, <1>2 DEF StageOK, AllFaithful
  <1>9. StageOK(pruned, used, acked, issued, nr, latest)
    BY Zenon, <1>2 DEF StageOK, AllFaithful, Faithful
  <1>10. pruned.ok => /\ Subtree(pruned.mem, {h}) \subseteq covered
                      /\ covered \cap DOMAIN pruned.mem \subseteq Subtree(pruned.mem, {h})
                      /\ h \in DOMAIN before \ DOMAIN pruned.mem =>
                            covered \cap DOMAIN pruned.mem = {}
    BY Zenon, <1>2, <1>5, SubtreeOfPruned DEF covered, Sound
  <1>11. CASE pruned.ok /\ found
    <2>1. st = persist(pruned, R, o2)
      BY Zenon, <1>11
    <2>2. Sound(R) /\ R # NoFile
      BY Zenon, <1>2, RevokeSound, SoundIsFile DEF Sound, Lineage
    <2>3. /\ DOMAIN R = DOMAIN pruned.mem
          /\ \A x \in DOMAIN pruned.mem : SameClaims(R[x], pruned.mem[x])
          /\ \A x \in Subtree(pruned.mem, {h}) : R[x].revoked
          /\ \A x \in DOMAIN pruned.mem \ Subtree(pruned.mem, {h}) : R[x] = pruned.mem[x]
      BY ZenonT(60), <1>2, RevokeFacts DEF Sound, Lineage
    <2>4. IsImage(R)
      BY Zenon, <2>2 DEF Sound, Lineage
    <2> HIDE DEF R
    <2>5. \A x \in DOMAIN R : R[x].revoked \in BOOLEAN
      BY Zenon, <2>4 DEF IsImage, Record
    <2>6. \A x \in acked : x \in DOMAIN R => R[x].revoked = TRUE
      BY Zenon, <1>8, <2>3, <2>5 DEF Faithful
    <2>7. \A x \in DOMAIN issued \ nr : latest < issued[x] =>
            x \in DOMAIN R /\ R[x].revoked = FALSE /\ R[x].expiresAt = issued[x]
      BY Zenon, <1>8, <1>10, <1>11, <2>3 DEF Faithful
    <2>8. Faithful(R, used, acked, issued, nr, latest)
      BY Zenon, <1>2, <2>2, <2>3, <2>6, <2>7 DEF Faithful
    <2>9. Faithful(R, used, na, issued, nr, latest)
      <3>1. \A x \in na : x \in DOMAIN R => R[x].revoked = TRUE
        BY Zenon, <1>10, <1>11, <2>3, <2>5, <2>6
      <3> QED  BY Zenon, <2>8, <3>1 DEF Faithful
    <2>10. LET new == persist(pruned, R, o2)
           IN  /\ StageOK(new, used, acked, issued, nr, latest)
               /\ new.mem = R \/ (new.mem = pruned.mem /\ new.fs = pruned.fs)
               /\ new.ok => new.mem = R /\ new.fs.durable = {R} /\ new.fs.file = R
      <3> DEFINE new == persist(pruned, R, o2)
      <3>1. StageOK(new, used, acked, issued, nr, latest)
        BY Zenon, <1>9, <2>2, <2>8, PersistStage
      <3>2. Lands(pruned, R, new)
        BY Zenon, PersistLands
      <3> HIDE DEF new
      <3> QED  BY Zenon, <3>1, <3>2 DEF Lands, new
    <2>11. CASE success
      <3>1. st.ok
        BY Zenon, <2>11 DEF RevokeReported
      <3>2. StageOK(st, used, na, issued, nr, latest)
        BY Zenon, <2>1, <2>9, <2>10, <3>1 DEF StageOK, AllFaithful
      <3>3. revoking' = nr /\ acked' = na
        BY Zenon, <1>1, <2>11
      <3> QED  BY Zenon, <1>1, <1>7, <3>2, <3>3, InstallInv
    <2>12. CASE ~success /\ st.mem # pruned.mem
      <3>1. revoking' = nr /\ acked' = acked
        BY Zenon, <1>1, <2>12
      <3> QED  BY Zenon, <1>1, <1>7, <2>1, <2>10, <3>1, InstallInv
    <2>13. CASE ~success /\ st.mem = pruned.mem
      <3>1. revoking' = revoking /\ acked' = acked
        BY Zenon, <1>1, <2>13
      <3>2. StageOK(st, used, acked, issued, revoking, latest)
        <4>1. CASE persist(pruned, R, o2).fs = pruned.fs
          BY Zenon, <1>2, <2>1, <2>10, <2>13, <4>1 DEF StageOK
        <4>2. CASE persist(pruned, R, o2).mem = R
          <5>1. Faithful(R, used, acked, issued, revoking, latest)
            BY Zenon, <1>8, <2>1, <2>13, <4>2
          <5>2. StageOK(persist(pruned, R, o2), used, acked, issued, revoking, latest)
            BY Zenon, <1>2, <2>2, <5>1, PersistStage
          <5> QED  BY Zenon, <2>1, <5>2
        <4> QED  BY Zenon, <2>10, <4>1, <4>2
      <3> QED  BY Zenon, <1>1, <1>3, <3>1, <3>2, InstallInv
    <2> QED  BY Zenon, <2>11, <2>12, <2>13
  <1>12. CASE ~(pruned.ok /\ found)
    <2>1. st = pruned
      BY Zenon, <1>12
    <2>2. CASE success
      <3>1. pruned.ok /\ ~found /\ h \in DOMAIN before
        BY Zenon, <1>12, <2>1, <2>2 DEF RevokeReported
      <3>2. covered \cap DOMAIN pruned.mem = {}
        BY Zenon, <1>10, <3>1
      <3>3. pruned.fs.durable = {pruned.mem} /\ pruned.fs.file = pruned.mem
        BY Zenon, <1>2, <3>1
      <3>4. Faithful(pruned.mem, used, na, issued, nr, latest)
        BY Zenon, <1>8, <3>2 DEF Faithful
      <3>5. StageOK(pruned, used, na, issued, nr, latest)
        BY Zenon, <1>2, <3>3, <3>4 DEF StageOK, AllFaithful
      <3>6. revoking' = nr /\ acked' = na
        BY Zenon, <1>1, <2>2
      <3> QED  BY Zenon, <1>1, <1>7, <2>1, <3>5, <3>6, InstallInv
    <2>3. CASE ~success
      <3>1. revoking' = revoking /\ acked' = acked
        BY Zenon, <1>1, <2>1, <2>3
      <3> QED  BY Zenon, <1>1, <1>2, <1>3, <2>1, <3>1, InstallInv
    <2> QED  BY Zenon, <2>2, <2>3
  <1> QED  BY Zenon, <1>11, <1>12

\* With no file, Open starts from a map that has no records.
LEMMA EmptySound ==
    ASSUME NEW now, Accepts(Empty, now)
    PROVE  Sound(Empty)
  <1>1. DOMAIN Empty = {} /\ Empty \in [{} -> Record]
    BY Zenon DEF Empty
  <1>2. Lineage(Empty)
    BY Zenon, <1>1 DEF Lineage, IsImage, decodeDiskState, validateLoadedRecords, Rooted
  <1>3. DOMAIN pruneInactive(Empty, now) = {}
    BY Zenon, <1>1, PruneFacts
  <1>4. Lineage(pruneInactive(Empty, now))
    BY Zenon, <1>2, PruneLineage
  <1>5. Footprint(Cardinality({})) <= FileSizeLimit
    <2>1. Footprint(Cardinality(DOMAIN pruneInactive(Empty, now))) <= FileSizeLimit
      BY Zenon, <1>4, CapacityGivesRoom DEF Accepts, Lineage
    <2> QED  BY Zenon, <1>3, <2>1
  <1>6. Cardinality({}) <= MaxRecords
    BY FS_EmptySet, BoundAssumption
  <1>7. validateLoadedBounds(Empty)
    BY Zenon, <1>1, <1>6 DEF validateLoadedBounds
  <1> QED  BY Zenon, <1>1, <1>2, <1>5, <1>7 DEF Sound, Room

\* Open preserves the invariant.
LEMMA OpenInv ==
    ASSUME NEW p \in Process, NEW o \in Outcome, IInv, Open(p, o)
    PROVE  IInv'
  <1> DEFINE found  == fs.file # NoFile
             loaded == IF found THEN fs.file ELSE Empty
             pruned == pruneInactive(loaded, clock)
             from   == [Stage(p) EXCEPT !.mem = pruned]
             st == IF found /\ InactiveHashes(loaded, clock) = {}
                   THEN [Stage(p) EXCEPT !.mem = loaded]
                   ELSE persist(from, pruned, o)
             F(image) == Faithful(image, used, acked, issued, revoking, latest)
  <1>1. /\ lock = NoProcess /\ Accepts(loaded, clock)
        /\ st.faults <= MaxFaults /\ fs' = st.fs /\ faults' = st.faults
        /\ IF st.ok THEN lock' = p /\ records' = [records EXCEPT ![p] = st.mem]
                    ELSE UNCHANGED <<lock, records>>
        /\ UNCHANGED <<clock, latest, used, issued, revoking, acked>>
    BY Zenon DEF Open
  <1>2. /\ AllFaithful(fs, used, acked, issued, revoking, latest)
        /\ HistoryOK(used, acked, issued, revoking)
        /\ clock \in Nat /\ latest \in Nat /\ clock <= latest /\ faults \in 0..MaxFaults
        /\ DOMAIN records = Process /\ \A q \in Process : records[q] = Empty
    BY <1>1, NullAssumption, BoundAssumption DEF IInv
  <1>3. F(loaded) /\ loaded # NoFile
    <2>1. CASE found
      BY Zenon, <1>2, <2>1 DEF AllFaithful
    <2>2. CASE ~found
      <3>1. loaded = Empty /\ DOMAIN Empty = {}
        BY Zenon, <2>2 DEF Empty
      <3>2. Sound(Empty) /\ Empty # NoFile
        BY Zenon, <1>1, <3>1, EmptySound, SoundIsFile DEF Sound, Lineage
      <3>3. F(fs.file)
        BY Zenon, <1>2 DEF AllFaithful
      <3>4. F(Empty)
        BY Zenon, <2>2, <3>1, <3>2, <3>3 DEF Faithful
      <3> QED  BY Zenon, <3>1, <3>2, <3>4
    <2> QED  BY Zenon, <2>1, <2>2
  <1> HIDE DEF loaded
  <1>4. F(pruned) /\ pruned # NoFile
    BY Zenon, <1>2, <1>3, PruneFaithful
  <1> HIDE DEF pruned
  <1>5. /\ DOMAIN records' = Process
        /\ \A q \in Process : q # lock' => records'[q] = Empty
        /\ lock' # NoProcess => lock' = p /\ records'[p] = st.mem /\ st.ok
        /\ lock' \in Process \cup {NoProcess}
    BY Zenon, <1>1, <1>2, NullAssumption
  <1>6. /\ st.faults \in Nat
        /\ AllFaithful(st.fs, used, acked, issued, revoking, latest)
        /\ st.ok => st.mem = st.fs.file /\ st.mem # NoFile
    <2>1. CASE found /\ InactiveHashes(loaded, clock) = {}
      <3>1. st.mem = loaded /\ st.fs = fs /\ st.faults = faults
        BY Zenon, <2>1 DEF Stage
      <3>2. loaded = fs.file
        BY Zenon, <2>1 DEF loaded
      <3> HIDE DEF st
      <3> QED  BY <1>2, <1>3, <3>1, <3>2
    <2>2. CASE ~(found /\ InactiveHashes(loaded, clock) = {})
      <3>1. st = persist(from, pruned, o)
        BY Zenon, <2>2
      <3>2. from.fs = fs /\ from.faults = faults /\ from.mem = pruned
        BY Zenon DEF Stage
      <3> HIDE DEF st, from
      <3> DEFINE end == IF EncodedSize(pruned) > FileSizeLimit THEN "failed" ELSE o
      <3>3. st.faults \in Nat
        BY <1>2, <3>1, <3>2, BoundAssumption DEF persist
      <3>4. CASE end = "failed"
        <4>1. st.fs = fs /\ st.ok = FALSE
          BY Zenon, <3>1, <3>2, <3>4 DEF persist
        <4> QED  BY Zenon, <1>2, <3>3, <4>1
      <3>5. CASE end = "unsynced"
        <4>1. /\ st.fs = [file |-> pruned, durable |-> fs.durable \cup {pruned}]
              /\ st.ok = FALSE
          BY Zenon, <3>1, <3>2, <3>5 DEF persist
        <4>2. st.fs.file = pruned /\ st.fs.durable = fs.durable \cup {pruned}
          BY <4>1
        <4> QED  BY Zenon, <1>2, <1>4, <3>3, <4>1, <4>2 DEF AllFaithful
      <3>6. CASE end = "ok"
        <4>1. st.fs = [file |-> pruned, durable |-> {pruned}] /\ st.mem = pruned
          BY Zenon, <3>1, <3>2, <3>6 DEF persist
        <4>2. st.fs.file = pruned /\ st.fs.durable = {pruned}
          BY <4>1
        <4> QED  BY Zenon, <1>4, <3>3, <4>1, <4>2 DEF AllFaithful
      <3> QED  BY Zenon, <3>4, <3>5, <3>6 DEF Outcome
    <2> QED  BY Zenon, <2>1, <2>2
  <1> HIDE DEF st
  <1>7. faults' \in 0..MaxFaults
    BY <1>1, <1>6, BoundAssumption
  <1>8. AllFaithful(fs', used', acked', issued', revoking', latest')
        /\ HistoryOK(used', acked', issued', revoking')
    BY Zenon, <1>1, <1>2, <1>6
  <1>9. lock' # NoProcess => records'[lock'] = fs'.file /\ fs'.file # NoFile
    BY Zenon, <1>1, <1>5, <1>6
  <1>10. clock' \in 0..MaxTime /\ latest' \in 0..MaxTime /\ clock' <= latest'
    BY Zenon, <1>1 DEF IInv
  <1> QED  BY Zenon, <1>5, <1>7, <1>8, <1>9, <1>10 DEF IInv

\* Close and a crash of the process preserve the invariant.
LEMMA ReleaseInv ==
    ASSUME NEW p \in Process, IInv, Close(p) \/ Crash(p)
    PROVE  IInv'
  <1>1. /\ lock = p /\ lock' = NoProcess /\ records' = [records EXCEPT ![p] = Empty]
        /\ faults' \in 0..MaxFaults
        /\ UNCHANGED <<clock, latest, fs, used, issued, revoking, acked>>
    BY BoundAssumption DEF Close, Crash, Release, IInv
  <1>2. DOMAIN records' = Process /\ \A q \in Process : records'[q] = Empty
    BY Zenon, <1>1 DEF IInv
  <1> QED  BY Zenon, <1>1, <1>2 DEF IInv

\* A power loss preserves the invariant: every file it can leave is faithful.
LEMMA PowerLossInv ==
    ASSUME NEW image \in fs.durable, IInv, PowerLoss(image)
    PROVE  IInv'
  <1>1. /\ lock' = NoProcess /\ records' = [p \in Process |-> Empty]
        /\ faults' \in 0..MaxFaults
        /\ fs' = [file |-> image, durable |-> {image}]
        /\ UNCHANGED <<clock, latest, used, issued, revoking, acked>>
    <2>1. faults' = faults + 1 /\ faults < MaxFaults
      BY Zenon DEF PowerLoss
    <2>2. faults \in 0..MaxFaults
      BY Zenon DEF IInv
    <2>3. faults' \in 0..MaxFaults
      BY <2>1, <2>2, BoundAssumption
    <2> QED  BY Zenon, <2>3 DEF PowerLoss
  <1>2. DOMAIN records' = Process /\ \A q \in Process : records'[q] = Empty
    BY Zenon, <1>1
  <1>3. fs'.file = image /\ fs'.durable = {image}
    BY Zenon, <1>1
  <1>4. AllFaithful(fs', used', acked', issued', revoking', latest')
    BY Zenon, <1>1, <1>3 DEF IInv, AllFaithful
  <1> QED  BY Zenon, <1>1, <1>2, <1>4 DEF IInv

\* A clock that moves, in either direction, preserves the invariant.
LEMMA ClockInv ==
    ASSUME NEW t \in 0..MaxTime, IInv, SetClock(t)
    PROVE  IInv'
  <1>1. /\ clock' = t /\ latest' = (IF t > latest THEN t ELSE latest)
        /\ UNCHANGED <<lock, records, fs, faults, used, issued, revoking, acked>>
    BY Zenon DEF SetClock
  <1>2. latest' \in 0..MaxTime /\ latest <= latest' /\ clock' <= latest' /\ clock' \in 0..MaxTime
    BY <1>1, BoundAssumption DEF IInv
  <1>3. ASSUME NEW h \in DOMAIN issued, latest' < issued[h]  PROVE latest < issued[h]
    <2>1. issued[h] \in Nat
      BY Zenon, BoundAssumption DEF IInv, HistoryOK
    <2> QED  BY <1>2, <1>3, <2>1, BoundAssumption DEF IInv
  <1>4. AllFaithful(fs, used, acked, issued, revoking, latest')
    BY <1>3 DEF IInv, AllFaithful, Faithful
  <1>5. AllFaithful(fs', used', acked', issued', revoking', latest')
    BY Zenon, <1>1, <1>4
  <1> QED  BY Zenon, <1>1, <1>2, <1>5 DEF IInv

\* The invariant holds before the store is first opened.
LEMMA InitInv ==
    ASSUME Init
    PROVE  IInv
  <1>1. DOMAIN Empty = {} /\ Empty \in [{} -> Expiry]
    BY Zenon DEF Empty
  <1>2. HistoryOK(used, acked, issued, revoking)
    BY Zenon, <1>1 DEF Init, HistoryOK
  <1>3. fs.file = NoFile /\ fs.durable = {NoFile}
    BY Zenon DEF Init
  <1>4. AllFaithful(fs, used, acked, issued, revoking, latest)
    BY Zenon, <1>1, <1>3 DEF Init, AllFaithful, Faithful
  <1> QED  BY <1>2, <1>4, BoundAssumption, NullAssumption DEF Init, IInv

\* Every step preserves the invariant.
LEMMA NextInv ==
    ASSUME IInv, [Next]_vars
    PROVE  IInv'
  <1>1. PersistOutcome \subseteq Outcome /\ \A p \in Process : PruneOutcome(p) \subseteq Outcome
    BY Zenon DEF PruneOutcome, PersistOutcome, Outcome
  <1>2. CASE UNCHANGED vars
    BY Zenon, <1>2 DEF vars, IInv
  <1>3. ASSUME NEW p \in Process, NEW o \in Outcome, Open(p, o)  PROVE IInv'
    BY Zenon, <1>3, OpenInv
  <1>4. ASSUME NEW p \in Process, Close(p) \/ Crash(p)  PROVE IInv'
    BY Zenon, <1>4, ReleaseInv
  <1>5. ASSUME NEW p \in Process, NEW o1 \in PruneOutcome(p), NEW o2 \in PersistOutcome,
               NEW h \in Hash \cup {NoHash}, NEW w \in Workload, NEW a \in Audience,
               NEW e \in Expiry, NEW gs \in Requested, NEW allow \in MayDelegate,
               Mint(p, h, w, a, e, gs, allow, o1, o2)
        PROVE  IInv'
    BY Zenon, <1>1, <1>5, MintInv
  <1>6. ASSUME NEW p \in Process, NEW o1 \in PruneOutcome(p), NEW o2 \in PersistOutcome,
               NEW parent \in Presentable, NEW caller \in Workload,
               NEW h \in Hash \cup {NoHash}, NEW w \in Workload, NEW a \in Audience,
               NEW e \in Expiry, NEW gs \in Requested, NEW allow \in MayDelegate,
               Delegate(p, parent, caller, h, w, a, e, gs, allow, o1, o2)
        PROVE  IInv'
    BY Zenon, <1>1, <1>6, DelegateInv
  <1>7. ASSUME NEW p \in Process, NEW o1 \in PruneOutcome(p), NEW o2 \in PersistOutcome,
               NEW h \in Hash, revokeHash(p, h, o1, o2)
        PROVE  IInv'
    BY Zenon, <1>1, <1>7, RevokeInv
  <1>8. ASSUME NEW t \in 0..MaxTime, SetClock(t)  PROVE IInv'
    BY Zenon, <1>8, ClockInv
  <1>9. ASSUME NEW image \in fs.durable, PowerLoss(image)  PROVE IInv'
    BY Zenon, <1>9, PowerLossInv
  <1>10. CASE Next
    <2>1. CASE \E p \in Process : (\E o \in Outcome : Open(p, o)) \/ Close(p) \/ Crash(p)
      BY Zenon, <1>3, <1>4, <2>1
    <2>2. CASE \E p \in Process : \E o1 \in PruneOutcome(p), o2 \in PersistOutcome :
                 \E h \in Hash \cup {NoHash}, w \in Workload, a \in Audience, e \in Expiry,
                    gs \in Requested, allow \in MayDelegate :
                      Mint(p, h, w, a, e, gs, allow, o1, o2)
      BY <1>5, <2>2
    <2>3. CASE \E p \in Process : \E o1 \in PruneOutcome(p), o2 \in PersistOutcome :
                 \E parent \in Presentable, caller, w \in Workload, h \in Hash \cup {NoHash},
                    a \in Audience, e \in Expiry, gs \in Requested, allow \in MayDelegate :
                      Delegate(p, parent, caller, h, w, a, e, gs, allow, o1, o2)
      BY <1>6, <2>3
    <2>4. CASE \E p \in Process : \E o1 \in PruneOutcome(p), o2 \in PersistOutcome :
                 \E h \in Hash : revokeHash(p, h, o1, o2)
      BY Zenon, <1>7, <2>4
    <2>5. CASE (\E t \in 0..MaxTime : SetClock(t)) \/ \E image \in fs.durable : PowerLoss(image)
      BY Zenon, <1>8, <1>9, <2>5
    <2> QED  BY <1>10, <2>1, <2>2, <2>3, <2>4, <2>5, Zenon DEF Next
  <1> QED  BY Zenon, <1>2, <1>10

-----------------------------------------------------------------------------
(* Theorems *)

\* The inductive invariant holds throughout every behaviour of the store.
THEOREM Invariance == Spec => []IInv
  <1>1. Init => IInv
    BY Zenon, InitInv
  <1>2. IInv /\ [Next]_vars => IInv'
    BY Zenon, NextInv
  <1> QED  BY <1>1, <1>2, PTL DEF Spec

\* What the invariant says of a file that a restart can find.
LEMMA RecoverableFaithful ==
    ASSUME IInv, NEW image \in Recoverable
    PROVE  /\ Sound(image) /\ IsImage(image)
           /\ \A h \in acked : h \in DOMAIN image => image[h].revoked = TRUE
  <1>1. Faithful(image, used, acked, issued, revoking, latest) /\ image # NoFile
    BY Zenon DEF IInv, AllFaithful, Recoverable
  <1> QED  BY Zenon, <1>1 DEF Faithful, Sound, Lineage

\* The store's variables keep their types: the live maps and every file hold
\* well-formed records (store.go record; persistence.go decodeDiskState).
THEOREM TypeCorrect == Spec => []TypeOK
  <1>1. IInv => TypeOK
    <2> SUFFICES ASSUME IInv PROVE TypeOK
      BY Zenon
    <2>1. IsImage(Empty)
      BY Zenon DEF IsImage, Empty
    <2>2. ASSUME NEW p \in Process  PROVE IsImage(records[p])
      <3>1. CASE p = lock
        <4>1. fs.file \in Recoverable /\ records[p] = fs.file
          BY Zenon, <3>1, NullAssumption DEF IInv, Recoverable
        <4> QED  BY Zenon, <4>1, RecoverableFaithful
      <3>2. CASE p # lock
        BY Zenon, <2>1, <3>2 DEF IInv
      <3> QED  BY Zenon, <3>1, <3>2
    <2>3. \A image \in Recoverable : IsImage(image)
      BY Zenon, RecoverableFaithful
    <2> QED  BY Zenon, <2>2, <2>3 DEF TypeOK, IInv, HistoryOK
  <1> QED  BY <1>1, Invariance, PTL

\* Open accepts every file the store can leave behind, at any clock reading
\* (store.go Open, validateLoadedBounds, ensureRevocationCapacity).
THEOREM AlwaysReloadable == Spec => []Reloadable
  <1>1. IInv => Reloadable
    BY Zenon, RecoverableFaithful, SoundAccepted DEF Reloadable
  <1> QED  BY <1>1, Invariance, PTL

\* The live map is the file's contents however the persists before it ended
\* (persistence.go persist).
THEOREM LiveViewAlwaysFile == Spec => []LiveViewIsFile
  <1>1. IInv => LiveViewIsFile
    BY Zenon DEF IInv, LiveViewIsFile
  <1> QED  BY <1>1, Invariance, PTL

\* An acknowledged revocation is never undone, whatever fails later
\* (store.go revokeHash).
THEOREM RevocationFinal == Spec => []RevocationIsFinal
  <1>1. IInv => RevocationIsFinal
    <2> SUFFICES ASSUME IInv, NEW h \in acked, NEW image \in Recoverable, NEW w, NEW a, NEW t,
                        validateLocked(image, h, w, a, t)
                 PROVE  FALSE
      BY Zenon DEF RevocationIsFinal
    <2>1. h \in DOMAIN image
      BY Zenon DEF validateLocked
    <2>2. h \in Chain(image, h)
      BY Zenon, <2>1, SubtreeSeed DEF Chain
    <2>3. image[h].revoked = TRUE
      BY Zenon, <2>1, RecoverableFaithful
    <2> QED  BY Zenon, <2>2, <2>3 DEF validateLocked, Inactive
  <1> QED  BY <1>1, Invariance, PTL

\* Revoking any token of the open store fits into the file
\* (store.go ensureRevocationCapacity).
THEOREM RevocationFits == Spec => []RevocationAlwaysFits
  <1>1. IInv => RevocationAlwaysFits
    <2> SUFFICES ASSUME IInv, lock # NoProcess, NEW h \in DOMAIN records[lock]
                 PROVE  EncodedSize(RevokeSubtree(records[lock], h)) <= FileSizeLimit
      BY Zenon DEF RevocationAlwaysFits
    <2>1. records[lock] \in Recoverable
      BY Zenon DEF IInv, Recoverable
    <2>2. Sound(RevokeSubtree(records[lock], h))
      BY Zenon, <2>1, RecoverableFaithful, RevokeSound
    <2> QED  BY Zenon, <2>2, RoomCoversRevocation DEF Sound, Lineage, Room
  <1> QED  BY <1>1, Invariance, PTL

\* In a sound image everything on the chain of a live token is live too.
LEMMA ChainLive ==
    ASSUME NEW recs, NEW now \in Nat, Lineage(recs), NEW h \in DOMAIN recs,
           ~Inactive(recs[h], now), NEW x \in Chain(recs, h)
    PROVE  ~Inactive(recs[x], now) /\ ~MissingParent(recs, x) /\ recs[x].root = recs[h].root
  <1>1. x \in DOMAIN recs /\ h \in Subtree(recs, {x})
    BY Zenon DEF Chain
  <1>2. ASSUME Inactive(recs[x], now)  PROVE FALSE
    <2>1. x \in Removed(recs, now)
      BY Zenon, <1>1, <1>2, PruneExact DEF InactiveHashes
    <2>2. Removed(recs, now) \subseteq DOMAIN recs /\ ClosedUnderChildren(recs, Removed(recs, now))
      BY Zenon, PruneFacts
    <2>3. Subtree(recs, {x}) \subseteq Removed(recs, now)
      BY Zenon, <2>1, <2>2, SubtreeLeast
    <2> QED  BY Zenon, <1>1, <2>3, PruneExact DEF InactiveHashes
  <1>3. ~MissingParent(recs, x)
    BY Zenon, <1>1, ParentKnown DEF MissingParent
  <1>4. recs[h].root = recs[x].root
    <2> DEFINE S == {y \in DOMAIN recs : recs[y].root = recs[x].root}
    <2>1. ASSUME NEW y \in DOMAIN recs, recs[y].depth > 0, recs[y].parent \in S
          PROVE  y \in S
      BY <2>1, ParentKnown DEF ParentLineage
    <2>2. ClosedUnderChildren(recs, S)
      BY Zenon, <2>1 DEF ClosedUnderChildren
    <2>3. Subtree(recs, {x}) \subseteq S
      BY Zenon, <1>1, <2>2, SubtreeLeast
    <2> QED  BY Zenon, <1>1, <2>3
  <1> QED  BY Zenon, <1>2, <1>3, <1>4

\* A bearer a caller received is in every file and valid until it expires or
\* its revocation is requested (store.go Mint, Delegate, pruneLocked).
THEOREM IssuedAlwaysSurvives == Spec => []IssuedSurvives
  <1>1. IInv => IssuedSurvives
    <2> SUFFICES ASSUME IInv, NEW h \in DOMAIN issued \ revoking,
                        NEW image \in fs.durable \cup {fs.file}, latest < issued[h]
                 PROVE  /\ image # NoFile /\ h \in DOMAIN image
                        /\ validateLocked(image, h, image[h].workload, image[h].audience, latest)
      BY Zenon DEF IssuedSurvives
    <2>1. Faithful(image, used, acked, issued, revoking, latest)
      BY Zenon DEF IInv, AllFaithful
    <2>2. image # NoFile
      BY Zenon, <2>1 DEF Faithful
    <2>3. /\ Lineage(image) /\ h \in DOMAIN image /\ image[h].revoked = FALSE
          /\ image[h].expiresAt = issued[h]
      BY Zenon, <2>1, <2>2 DEF Faithful, Sound
    <2>4. issued[h] \in Nat /\ latest \in Nat
      BY BoundAssumption DEF IInv, HistoryOK
    <2>5. ~Inactive(image[h], latest)
      BY <2>3, <2>4 DEF Inactive
    <2>6. \A x \in Chain(image, h) :
            ~Inactive(image[x], latest) /\ ~MissingParent(image, x) /\ image[x].root = image[h].root
      BY Zenon, <2>3, <2>4, <2>5, ChainLive
    <2> QED  BY Zenon, <2>2, <2>3, <2>6 DEF validateLocked
  <1> QED  BY <1>1, Invariance, PTL

\* The order Delegate checks between a child's limits and its parent's means
\* that the child admits no traffic the parent would not.
LEMMA NoBroaderAdmitsNoMore ==
    ASSUME NEW child \in Limits, NEW parent \in Limits, limitsNoBroader(child, parent)
    PROVE  AdmitsNoMore(child, parent)
  <1>1. /\ child.requestsPerSecond \in Nat /\ child.burst \in Nat /\ child.requestBudget \in Nat
        /\ child.byteBudget \in Nat /\ child.maxRequestBytes \in Nat
        /\ parent.requestsPerSecond \in Nat /\ parent.burst \in Nat /\ parent.requestBudget \in Nat
        /\ parent.byteBudget \in Nat /\ parent.maxRequestBytes \in Nat
    BY Zenon, AmountAssumption DEF Limits
  <1>2. ASSUME NEW n \in Demand  PROVE n \in Nat /\ n > 0
    <2>1. PICK x \in Amount : n = x + 1
      BY Zenon DEF Demand
    <2> QED  BY <2>1, AmountAssumption
  <1>3. ASSUME NEW n \in Demand, AdmitsBurst(child, n)  PROVE AdmitsBurst(parent, n)
    BY <1>1, <1>2, <1>3
       DEF AdmitsBurst, limitsNoBroader, limitNoBroader, burstNoBroader, EffectiveBurst
  <1>4. ASSUME NEW n \in Demand,
               NEW f \in {"requestsPerSecond", "requestBudget", "byteBudget", "maxRequestBytes"},
               Admits(child, f, n)
        PROVE  Admits(parent, f, n)
    BY <1>1, <1>2, <1>4 DEF Admits, limitsNoBroader, limitNoBroader
  <1> QED  BY Zenon, <1>3, <1>4 DEF AdmitsNoMore

\* r1 carries no more authority than r2.
Narrower(r1, r2) ==
    /\ \A g \in DOMAIN r1.grants :
        g \in DOMAIN r2.grants /\ AdmitsNoMore(r1.grants[g], r2.grants[g])
    /\ r1.expiresAt <= r2.expiresAt
    /\ r1.audience = r2.audience

\* A delegated token is narrower than its parent (Delegate's checks, read back by load).
LEMMA ChildNarrower ==
    ASSUME NEW recs, Lineage(recs), NEW x \in DOMAIN recs, recs[x].depth > 0
    PROVE  Narrower(recs[x], recs[recs[x].parent])
  <1>1. ParentLineage(recs, x) /\ recs[x].parent \in DOMAIN recs /\ recs[x] \in Record
    BY Zenon, ParentKnown
  <1>2. recs[recs[x].parent] \in Record
    BY Zenon, <1>1, ParentKnown
  <1> DEFINE c == recs[x].grants
             q == recs[recs[x].parent].grants
  <1>3. c \in [DOMAIN c -> Limits] /\ q \in [DOMAIN q -> Limits]
    <2>1. c \in Requested /\ q \in Requested
      BY Zenon, <1>1, <1>2 DEF Record
    <2> HIDE DEF c, q
    <2> QED  BY Zenon, <2>1, RequestAssumption DEF IsGrantSet
  <1>4. grantsAreSubset(c, q)
    BY Zenon, <1>1 DEF ParentLineage
  <1>5. ASSUME NEW g \in DOMAIN c  PROVE g \in DOMAIN q /\ AdmitsNoMore(c[g], q[g])
    <2> HIDE DEF c, q
    <2>1. g \in DOMAIN q /\ limitsNoBroader(c[g], q[g])
      BY Zenon, <1>4 DEF grantsAreSubset
    <2>2. c[g] \in Limits /\ q[g] \in Limits
      BY Zenon, <1>3, <2>1
    <2> QED  BY Zenon, <2>1, <2>2, NoBroaderAdmitsNoMore
  <1>6. recs[x].expiresAt <= recs[recs[x].parent].expiresAt
        /\ recs[x].audience = recs[recs[x].parent].audience
    BY Zenon, <1>1 DEF ParentLineage
  <1> QED  BY Zenon, <1>5, <1>6 DEF Narrower

\* Narrowing holds along the whole chain of a token and not only towards its
\* parent (store.go Delegate, grantsAreSubset).
THEOREM DelegationNarrows == Spec => []NarrowerThanAncestors
  <1>1. IInv => NarrowerThanAncestors
    <2> SUFFICES ASSUME IInv, NEW image \in Recoverable, NEW h \in DOMAIN image,
                        NEW x \in Chain(image, h)
                 PROVE  Narrower(image[h], image[x])
      BY Zenon DEF NarrowerThanAncestors, Narrower
    <2>1. Lineage(image) /\ x \in DOMAIN image /\ h \in Subtree(image, {x})
      BY Zenon, RecoverableFaithful DEF Sound, Chain
    <2> DEFINE S == {y \in DOMAIN image : Narrower(image[y], image[x])}
    <2>2. \A y \in DOMAIN image : image[y].expiresAt \in Nat
      BY Zenon, <2>1, ParentKnown, BoundAssumption DEF Record
    <2>3. x \in S
      BY <2>1, <2>2 DEF Narrower, AdmitsNoMore
    <2>4. ASSUME NEW y \in DOMAIN image, image[y].depth > 0, image[y].parent \in S
          PROVE  y \in S
      <3>1. Narrower(image[y], image[image[y].parent]) /\ Narrower(image[image[y].parent], image[x])
        BY Zenon, <2>1, <2>4, ChildNarrower
      <3>2. image[y].parent \in DOMAIN image
        BY Zenon, <2>4
      <3>3. /\ image[y].expiresAt <= image[x].expiresAt
            /\ image[y].audience = image[x].audience
        BY <2>1, <2>2, <3>1, <3>2 DEF Narrower
      <3>4. \A g \in DOMAIN image[y].grants :
              /\ g \in DOMAIN image[x].grants
              /\ AdmitsNoMore(image[y].grants[g], image[x].grants[g])
        BY Zenon, <3>1 DEF Narrower, AdmitsNoMore
      <3> QED  BY Zenon, <2>4, <3>3, <3>4 DEF Narrower
    <2>5. ClosedUnderChildren(image, S)
      BY Zenon, <2>4 DEF ClosedUnderChildren
    <2>6. Subtree(image, {x}) \subseteq S
      <3>1. S \subseteq DOMAIN image  BY Zenon
      <3> HIDE DEF S
      <3> QED  BY <2>3, <2>5, <3>1, SubtreeLeast
    <2> QED  BY Zenon, <2>1, <2>6
  <1> QED  BY <1>1, Invariance, PTL

-----------------------------------------------------------------------------
(* Claims *)

\* A persist leaves the map it was given or the one it had; success leaves the former.
LEMMA PersistMem ==
    ASSUME NEW st, NEW recs, NEW o
    PROVE  persist(st, recs, o).mem \in {st.mem, recs}
  BY Zenon DEF persist

\* A token that survives a prune has no inactive ancestor, and none without a parent.
LEMMA PrunedIsActive ==
    ASSUME NEW recs, NEW now, Lineage(recs), NEW h \in DOMAIN pruneInactive(recs, now)
    PROVE  h \in DOMAIN recs /\ ~recordOrAncestorInactive(recs, h, now)
  <1> DEFINE pruned == pruneInactive(recs, now)
  <1>1. h \in DOMAIN recs /\ \A x \in DOMAIN pruned : ~Inactive(recs[x], now)
    BY PruneFacts, Zenon
  <1>2. ASSUME NEW a \in Chain(recs, h), Inactive(recs[a], now)
        PROVE  FALSE
    <2>1. a \in DOMAIN recs /\ h \in Subtree(recs, {a}) /\ a \notin DOMAIN pruned
      BY Zenon, <1>1, <1>2 DEF Chain
    <2>2. Subtree(recs, {a}) \cap DOMAIN pruned = {}
      BY Zenon, <2>1, SubtreeOfPruned
    <2> QED  BY Zenon, <2>1, <2>2
  <1>3. ASSUME NEW a \in Chain(recs, h), MissingParent(recs, a)
        PROVE  FALSE
    <2>1. a \in DOMAIN recs
      BY Zenon DEF Chain
    <2> QED  BY Zenon, <1>3, <2>1, ParentKnown DEF MissingParent
  <1> QED  BY Zenon, <1>1, <1>2, <1>3 DEF recordOrAncestorInactive

\* A record written with its own revocation is the record.
LEMMA SameRecord ==
    ASSUME NEW rec \in Record
    PROVE  /\ rec = [rec EXCEPT !.revoked = rec.revoked]
           /\ [rec EXCEPT !.revoked = TRUE].revoked = TRUE
  BY Zenon DEF Record

\* What the prune at the start of a method leaves is unchanged.
LEMMA MethodKeeps ==
    ASSUME NEW p \in Process, NEW o \in Outcome, IInv, lock = p
    PROVE  LET pruned == pruneLocked(Stage(p), clock, o)
           IN  /\ DOMAIN records[p] \subseteq used /\ Lineage(records[p])
               /\ \A h \in DOMAIN records[p] : records[p][h] \in Record
               /\ \A h \in DOMAIN pruned.mem :
                    h \in DOMAIN records[p] /\ pruned.mem[h] = records[p][h]
               /\ pruned.ok => pruned.mem = pruneInactive(records[p], clock)
  <1> DEFINE recs == records[p]
             pruned == pruneLocked(Stage(p), clock, o)
  <1>1. Faithful(recs, used, acked, issued, revoking, latest) /\ recs # NoFile
    BY Zenon, NullAssumption DEF IInv, AllFaithful
  <1>2. DOMAIN recs \subseteq used /\ Lineage(recs)
    BY Zenon, <1>1 DEF Faithful, Sound
  <1>3. \A h \in DOMAIN recs : recs[h] \in Record
    BY Zenon, <1>2, ParentKnown
  <1>4. pruned.ok => pruned.mem = pruneInactive(recs, clock)
    BY Zenon, MethodPrune
  <1>5. pruned.mem \in {recs, pruneInactive(recs, clock)}
    <2>1. Stage(p).mem = recs
      BY Zenon DEF Stage
    <2>2. CASE InactiveHashes(recs, clock) = {}
      BY Zenon, <2>1, <2>2 DEF pruneLocked
    <2>3. CASE InactiveHashes(recs, clock) # {}
      <3>1. pruned = persist(Stage(p), pruneInactive(recs, clock), o)
        BY Zenon, <2>1, <2>3 DEF pruneLocked
      <3> QED  BY Zenon, <2>1, <3>1, PersistMem
    <2> QED  BY Zenon, <2>2, <2>3
  <1> HIDE DEF pruned
  <1>6. \A h \in DOMAIN pruned.mem : h \in DOMAIN recs /\ pruned.mem[h] = recs[h]
    <2>1. CASE pruned.mem = recs
      BY Zenon, <2>1
    <2>2. CASE pruned.mem = pruneInactive(recs, clock)
      <3>1. /\ DOMAIN pruneInactive(recs, clock) \subseteq DOMAIN recs
            /\ \A h \in DOMAIN pruneInactive(recs, clock) : pruneInactive(recs, clock)[h] = recs[h]
        BY PruneFacts, ZenonT(60)
      <3> QED  BY <2>2, <3>1, Zenon
    <2> QED  BY Zenon, <1>5, <2>1, <2>2
  <1> QED  BY Zenon, <1>2, <1>3, <1>4, <1>6 DEF pruned

\* A method that installs what the prune left keeps all claims.
LEMMA InstallKeeps ==
    ASSUME NEW p \in Process, IInv, NEW mem, records' = [records EXCEPT ![p] = mem],
           \A x \in DOMAIN mem :
             IF x \in DOMAIN records[p]
             THEN mem[x] = [records[p][x] EXCEPT !.revoked = mem[x].revoked]
                  /\ (records[p][x].revoked => mem[x].revoked)
             ELSE /\ x \notin used
                  /\ mem[x].depth > 0 =>
                       /\ mem[x].parent \in DOMAIN records[p]
                       /\ ~recordOrAncestorInactive(records[p], mem[x].parent, clock)
    PROVE  ClaimsKept(p)
  <1>1. records'[p] = mem
    BY Zenon DEF IInv
  <1> QED  BY Zenon, <1>1 DEF ClaimsKept

\* Mint and Delegate: a persist that adds one record, with a fresh hash and, if it
\* has a parent, a live one.
LEMMA IssueKeeps ==
    ASSUME NEW p \in Process, NEW o \in Outcome, NEW h, NEW rec, NEW o2, IInv, lock = p,
           h \notin used,
           rec.depth > 0 => /\ rec.parent \in DOMAIN records[p]
                            /\ ~recordOrAncestorInactive(records[p], rec.parent, clock),
           LET pruned == pruneLocked(Stage(p), clock, o)
           IN  Issue(p, h, pruned, With(pruned.mem, h, rec), o2)
    PROVE  ClaimsKept(p)
  <1> DEFINE pruned == pruneLocked(Stage(p), clock, o)
             next == With(pruned.mem, h, rec)
             mem == persist(pruned, next, o2).mem
  <1>1. /\ DOMAIN records[p] \subseteq used
        /\ \A x \in DOMAIN records[p] : records[p][x] \in Record
        /\ \A x \in DOMAIN pruned.mem : x \in DOMAIN records[p] /\ pruned.mem[x] = records[p][x]
    BY Zenon, MethodKeeps
  <1>2. mem \in {pruned.mem, next} /\ records' = [records EXCEPT ![p] = mem]
    BY Zenon, PersistMem DEF Issue, Install
  <1> HIDE DEF pruned
  <1>3. \A x \in DOMAIN next : x = h \/ (x \in DOMAIN pruned.mem /\ x # h /\ next[x] = pruned.mem[x])
    BY Zenon, <1>1 DEF With
  <1>4. next[h] = rec
    BY Zenon DEF With
  <1> HIDE DEF next, mem
  <1>5. ASSUME NEW x \in DOMAIN mem, ~(x = h /\ mem[x] = rec)
        PROVE  x \in DOMAIN records[p] /\ mem[x] = records[p][x] /\ mem[x] \in Record
    BY Zenon, <1>1, <1>2, <1>3, <1>4, <1>5
  <1>6. ASSUME NEW x \in DOMAIN mem
        PROVE  IF x \in DOMAIN records[p]
               THEN mem[x] = [records[p][x] EXCEPT !.revoked = mem[x].revoked]
                    /\ (records[p][x].revoked => mem[x].revoked)
               ELSE /\ x \notin used
                    /\ mem[x].depth > 0 =>
                         /\ mem[x].parent \in DOMAIN records[p]
                         /\ ~recordOrAncestorInactive(records[p], mem[x].parent, clock)
    <2>1. CASE x = h /\ mem[x] = rec
      BY Zenon, <1>1, <2>1
    <2>2. CASE ~(x = h /\ mem[x] = rec)
      BY Zenon, <1>5, <2>2, SameRecord
    <2> QED  BY Zenon, <2>1, <2>2
  <1> QED  BY <1>2, <1>6, InstallKeeps, Zenon

\* An early return of Mint or Delegate after the prune.
LEMMA RefuseKeeps ==
    ASSUME NEW p \in Process, NEW o \in Outcome, IInv, lock = p,
           Refuse(p, pruneLocked(Stage(p), clock, o))
    PROVE  ClaimsKept(p)
  <1> DEFINE mem == pruneLocked(Stage(p), clock, o).mem
  <1>1. /\ \A x \in DOMAIN records[p] : records[p][x] \in Record
        /\ \A x \in DOMAIN mem : x \in DOMAIN records[p] /\ mem[x] = records[p][x]
    BY Zenon, MethodKeeps
  <1>2. records' = [records EXCEPT ![p] = mem]
    BY Zenon DEF Refuse, Install
  <1> HIDE DEF mem
  <1>3. ASSUME NEW x \in DOMAIN mem
        PROVE  /\ x \in DOMAIN records[p]
               /\ mem[x] = [records[p][x] EXCEPT !.revoked = mem[x].revoked]
               /\ (records[p][x].revoked => mem[x].revoked)
    BY Zenon, <1>1, SameRecord
  <1> QED  BY <1>2, <1>3, InstallKeeps, Zenon

\* Mint adds a root with a fresh hash.
LEMMA MintKeeps ==
    ASSUME NEW p \in Process, NEW h \in Hash \cup {NoHash}, NEW w, NEW au, NEW e, NEW gs,
           NEW allow, NEW o1 \in Outcome, NEW o2, IInv,
           Mint(p, h, w, au, e, gs, allow, o1, o2)
    PROVE  ClaimsKept(p)
  <1> DEFINE pruned == pruneLocked(Stage(p), clock, o1)
             rec  == [parent |-> NoHash, root |-> h, workload |-> w, audience |-> au,
                      issuedAt |-> clock, expiresAt |-> e, grants |-> gs,
                      allowDelegation |-> allow, depth |-> 0, revoked |-> FALSE]
  <1>1. lock = p /\ Generated(pruned.mem, h)
    BY Zenon DEF Mint
  <1>2. \/ h # NoHash /\ Issue(p, h, pruned, With(pruned.mem, h, rec), o2)
        \/ Refuse(p, pruned)
    BY Zenon DEF Mint
  <1>3. rec.depth = 0
    BY Zenon
  <1> HIDE DEF rec
  <1>4. CASE h # NoHash /\ Issue(p, h, pruned, With(pruned.mem, h, rec), o2)
    <2>1. h \notin used
      BY Zenon, <1>1, <1>4 DEF Generated
    <2>2. ~(rec.depth > 0)
      BY <1>3
    <2> QED  BY Zenon, <1>1, <1>4, <2>1, <2>2, IssueKeeps
  <1>5. CASE Refuse(p, pruned)
    BY Zenon, <1>1, <1>5, RefuseKeeps
  <1> QED  BY Zenon, <1>2, <1>4, <1>5

\* Delegate adds a token whose parent survived the prune.
LEMMA DelegateKeeps ==
    ASSUME NEW p \in Process, NEW parent, NEW caller, NEW h \in Hash \cup {NoHash}, NEW w, NEW au,
           NEW e, NEW gs, NEW allow, NEW o1 \in Outcome, NEW o2, IInv,
           Delegate(p, parent, caller, h, w, au, e, gs, allow, o1, o2)
    PROVE  ClaimsKept(p)
  <1> DEFINE pruned == pruneLocked(Stage(p), clock, o1)
             prec == pruned.mem[parent]
             rec  == [parent |-> parent, root |-> prec.root, workload |-> w,
                      audience |-> prec.audience, issuedAt |-> clock,
                      expiresAt |-> e, grants |-> gs, allowDelegation |-> allow,
                      depth |-> prec.depth + 1, revoked |-> FALSE]
  <1>1. lock = p /\ Generated(pruned.mem, h)
    BY Zenon DEF Delegate
  <1>2. \/ /\ h # NoHash /\ pruned.ok /\ validateLocked(pruned.mem, parent, caller, au, clock)
           /\ Issue(p, h, pruned, With(pruned.mem, h, rec), o2)
        \/ Refuse(p, pruned)
    BY Zenon DEF Delegate
  <1>3. rec.parent = parent
    BY Zenon
  <1> HIDE DEF rec, prec
  <1>4. CASE /\ h # NoHash /\ pruned.ok /\ validateLocked(pruned.mem, parent, caller, au, clock)
             /\ Issue(p, h, pruned, With(pruned.mem, h, rec), o2)
    <2>1. h \notin used
      BY Zenon, <1>1, <1>4 DEF Generated
    <2>2. parent \in DOMAIN pruned.mem
      BY Zenon, <1>4 DEF validateLocked
    <2>3. pruned.mem = pruneInactive(records[p], clock) /\ Lineage(records[p])
      BY Zenon, <1>1, <1>4, MethodKeeps
    <2>4. parent \in DOMAIN records[p] /\ ~recordOrAncestorInactive(records[p], parent, clock)
      BY Zenon, <2>2, <2>3, PrunedIsActive
    <2> QED  BY Zenon, <1>1, <1>3, <1>4, <2>1, <2>4, IssueKeeps
  <1>5. CASE Refuse(p, pruned)
    BY Zenon, <1>1, <1>5, RefuseKeeps
  <1> QED  BY Zenon, <1>2, <1>4, <1>5

\* revokeHash changes nothing but revocations, and clears none.
LEMMA RevokeKeeps ==
    ASSUME NEW p \in Process, NEW h, NEW o1 \in Outcome, NEW o2, IInv, revokeHash(p, h, o1, o2)
    PROVE  ClaimsKept(p)
  <1> DEFINE pruned == pruneLocked(Stage(p), clock, o1)
             R == RevokeSubtree(pruned.mem, h)
             st == IF pruned.ok /\ h \in DOMAIN pruned.mem THEN persist(pruned, R, o2) ELSE pruned
             mem == st.mem
  <1>1. lock = p /\ records' = [records EXCEPT ![p] = mem]
    BY Zenon DEF revokeHash, Install
  <1>2. /\ \A x \in DOMAIN records[p] : records[p][x] \in Record
        /\ \A x \in DOMAIN pruned.mem : x \in DOMAIN records[p] /\ pruned.mem[x] = records[p][x]
    BY Zenon, <1>1, MethodKeeps
  <1> HIDE DEF pruned
  <1>3. mem \in {pruned.mem, R}
    BY Zenon, PersistMem
  <1>4. /\ DOMAIN R = DOMAIN pruned.mem
        /\ \A x \in DOMAIN R : R[x] \in {pruned.mem[x], [pruned.mem[x] EXCEPT !.revoked = TRUE]}
    BY Zenon DEF RevokeSubtree
  <1> HIDE DEF mem, R
  <1>5. ASSUME NEW x \in DOMAIN mem
        PROVE  /\ x \in DOMAIN records[p]
               /\ mem[x] \in {records[p][x], [records[p][x] EXCEPT !.revoked = TRUE]}
               /\ records[p][x] \in Record
    BY Zenon, <1>2, <1>3, <1>4
  <1>6. ASSUME NEW x \in DOMAIN mem
        PROVE  /\ x \in DOMAIN records[p]
               /\ mem[x] = [records[p][x] EXCEPT !.revoked = mem[x].revoked]
               /\ (records[p][x].revoked => mem[x].revoked)
    <2>1. x \in DOMAIN records[p] /\ records[p][x] \in Record
      BY Zenon, <1>5
    <2>2. CASE mem[x] = records[p][x]
      BY Zenon, <2>1, <2>2, SameRecord
    <2>3. CASE mem[x] = [records[p][x] EXCEPT !.revoked = TRUE]
      <3>1. mem[x].revoked = TRUE
        BY Zenon, <2>1, <2>3, SameRecord
      <3> QED  BY Zenon, <2>1, <2>3, <3>1
    <2> QED  BY Zenon, <1>5, <2>2, <2>3
  <1> QED  BY <1>1, <1>6, InstallKeeps, Zenon

\* A step that does not touch a process's map keeps its claims.
LEMMA UnchangedKeeps ==
    ASSUME NEW p \in Process, IInv, lock = p, records'[p] = records[p]
    PROVE  ClaimsKept(p)
  <1>1. \A x \in DOMAIN records[p] : records[p][x] \in Record
    <2>1. "ok" \in Outcome
      BY Zenon DEF Outcome
    <2> QED  BY Zenon, <2>1, MethodKeeps
  <1> QED  BY Zenon, <1>1, SameRecord DEF ClaimsKept

\* What every step does to the claims of a process that keeps the store open.
LEMMA NextKeeps ==
    ASSUME IInv, [Next]_vars, NEW p \in Process, lock = p, lock' = p
    PROVE  ClaimsKept(p)
  <1>1. PersistOutcome \subseteq Outcome /\ \A q \in Process : PruneOutcome(q) \subseteq Outcome
    BY Zenon DEF PruneOutcome, PersistOutcome, Outcome
  <1>2. CASE UNCHANGED vars
    BY Zenon, <1>2, UnchangedKeeps DEF vars
  <1>3. ASSUME NEW q \in Process, NEW o \in Outcome, Open(q, o)  PROVE FALSE
    BY Zenon, <1>3, NullAssumption DEF Open
  <1>4. ASSUME NEW q \in Process, Close(q) \/ Crash(q)  PROVE FALSE
    BY Zenon, <1>4, NullAssumption DEF Close, Crash, Release
  <1>5. ASSUME NEW q \in Process, NEW o1 \in PruneOutcome(q), NEW o2 \in PersistOutcome,
               NEW h \in Hash \cup {NoHash}, NEW w \in Workload, NEW a \in Audience,
               NEW e \in Expiry, NEW gs \in Requested, NEW allow \in MayDelegate,
               Mint(q, h, w, a, e, gs, allow, o1, o2)
        PROVE  ClaimsKept(p)
    <2>1. q = p
      BY Zenon, <1>5 DEF Mint
    <2> QED  BY Zenon, <1>1, <1>5, <2>1, MintKeeps
  <1>6. ASSUME NEW q \in Process, NEW o1 \in PruneOutcome(q), NEW o2 \in PersistOutcome,
               NEW parent \in Presentable, NEW caller \in Workload,
               NEW h \in Hash \cup {NoHash}, NEW w \in Workload, NEW a \in Audience,
               NEW e \in Expiry, NEW gs \in Requested, NEW allow \in MayDelegate,
               Delegate(q, parent, caller, h, w, a, e, gs, allow, o1, o2)
        PROVE  ClaimsKept(p)
    <2>1. q = p
      BY Zenon, <1>6 DEF Delegate
    <2> QED  BY Zenon, <1>1, <1>6, <2>1, DelegateKeeps
  <1>7. ASSUME NEW q \in Process, NEW o1 \in PruneOutcome(q), NEW o2 \in PersistOutcome,
               NEW h \in Hash, revokeHash(q, h, o1, o2)
        PROVE  ClaimsKept(p)
    <2>1. q = p
      BY Zenon, <1>7 DEF revokeHash
    <2> QED  BY Zenon, <1>1, <1>7, <2>1, RevokeKeeps
  <1>8. ASSUME NEW t \in 0..MaxTime, SetClock(t)  PROVE ClaimsKept(p)
    BY Zenon, <1>8, UnchangedKeeps DEF SetClock
  <1>9. ASSUME NEW image \in fs.durable, PowerLoss(image)  PROVE FALSE
    BY Zenon, <1>9, NullAssumption DEF PowerLoss
  <1>10. CASE Next
    <2>1. CASE \E q \in Process : (\E o \in Outcome : Open(q, o)) \/ Close(q) \/ Crash(q)
      BY Zenon, <1>3, <1>4, <2>1
    <2>2. CASE \E q \in Process : \E o1 \in PruneOutcome(q), o2 \in PersistOutcome :
                 \E h \in Hash \cup {NoHash}, w \in Workload, a \in Audience, e \in Expiry,
                    gs \in Requested, allow \in MayDelegate :
                      Mint(q, h, w, a, e, gs, allow, o1, o2)
      BY <1>5, <2>2
    <2>3. CASE \E q \in Process : \E o1 \in PruneOutcome(q), o2 \in PersistOutcome :
                 \E parent \in Presentable, caller, w \in Workload, h \in Hash \cup {NoHash},
                    a \in Audience, e \in Expiry, gs \in Requested, allow \in MayDelegate :
                      Delegate(q, parent, caller, h, w, a, e, gs, allow, o1, o2)
      BY <1>6, <2>3
    <2>4. CASE \E q \in Process : \E o1 \in PruneOutcome(q), o2 \in PersistOutcome :
                 \E h \in Hash : revokeHash(q, h, o1, o2)
      BY Zenon, <1>7, <2>4
    <2>5. CASE (\E t \in 0..MaxTime : SetClock(t)) \/ \E image \in fs.durable : PowerLoss(image)
      BY Zenon, <1>8, <1>9, <2>5
    <2> QED  BY <1>10, <2>1, <2>2, <2>3, <2>4, <2>5, Zenon DEF Next
  <1> QED  BY Zenon, <1>2, <1>10

\* No step changes the claims of a token that the open store knows, clears a
\* revocation or brings back a hash, and what it adds has a live parent (store.go
\* Mint, Delegate, revokeHash, pruneLocked).
THEOREM ClaimsOnlyNarrow == Spec => ClaimsNeverWiden
  <1>1. IInv /\ [Next]_vars => [\A p \in Process : lock = p /\ lock' = p => ClaimsKept(p)]_vars
    BY Zenon, NextKeeps
  <1> QED  BY <1>1, Invariance, PTL DEF Spec, ClaimsNeverWiden
=============================================================================
