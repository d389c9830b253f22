------------------------------ MODULE TokenStore ------------------------------
(***************************************************************************)
(* The persistent capability-token store (internal/tokens).                *)
(*                                                                         *)
(* Every Store method runs under Store.mu, so each is one action here.  A  *)
(* method persists at most twice: once for the prune it starts with and    *)
(* once for its own change.  Each persist has an outcome chosen by the     *)
(* environment, so a crash at any point inside a method leaves the file    *)
(* system exactly as some failed method followed by a crash does.          *)
(***************************************************************************)
EXTENDS Integers, FiniteSets, TokenLimits

CONSTANTS
    Process,              \* server processes that may open the same path
    Hash,                 \* token hashes; a bearer is identified by its hash
    Workload,             \* the identifiers validateBinding accepts
    Audience,
    Expiry,               \* expiry times requests ask for
    Requested,            \* the grants requests ask for
    MayDelegate,          \* the values of allow_delegation they carry
    MaxTime,              \* bound on the wall clock
    MaxDelegationDepth, MaxChildrenPerToken, MaxTokensPerRoot, MaxRecords,
    MaxGrantsPerToken,    \* Options after normalizeOptions
    HeaderSize, RecordSize, RevokedAtSize,      \* encoded sizes
    FixedHeadroom, PerRecordHeadroom, FileSizeLimit,
    MaxFaults,            \* bound on failed persists, crashes and power losses
    NoHash, NoProcess, NoFile

\* Options and the constants of persistence.go: the reserve kept per record is
\* at least what recording its revocation adds to the file.
ASSUME SizeAssumption ==
    /\ HeaderSize \in Nat \ {0} /\ RecordSize \in Nat /\ RevokedAtSize \in Nat
    /\ FixedHeadroom \in Nat /\ PerRecordHeadroom \in Nat /\ FileSizeLimit \in Nat
    /\ RevokedAtSize <= PerRecordHeadroom

ASSUME BoundAssumption ==
    /\ MaxTime \in Nat /\ Expiry \subseteq Nat /\ MaxFaults \in Nat
    /\ MaxDelegationDepth \in Nat \ {0} /\ MaxChildrenPerToken \in Nat \ {0}
    /\ MaxTokensPerRoot \in Nat \ {0} /\ MaxRecords \in Nat \ {0}

ASSUME RequestAssumption ==
    (\A gs \in Requested : IsGrantSet(gs)) /\ MayDelegate \subseteq BOOLEAN

ASSUME HashAssumption == IsFiniteSet(Hash)

ASSUME NullAssumption == NoHash \notin Hash /\ NoProcess \notin Process

VARIABLES
    clock,      \* wall clock, which may step back
    latest,     \* the latest time the clock has shown (history)
    lock,       \* holder of the flock on the store path
    records,    \* Store.records of each process
    fs,         \* the store path: what it holds and what a power loss may leave
    faults,     \* failed persists, crashes and power losses so far (bound)
    used,       \* hashes some process has generated and committed (history)
    issued,     \* expiry of each token whose bearer a caller received (history)
    revoking,   \* tokens a revocation that reached its rename covered (history)
    acked       \* tokens whose revocation returned nil (history)

vars == <<clock, latest, lock, records, fs, faults, used, issued, revoking, acked>>

-----------------------------------------------------------------------------
(* Records *)

Record == [parent: Hash \cup {NoHash}, root: Hash, workload: Workload,
           audience: Audience, issuedAt: 0..MaxTime, expiresAt: Expiry, grants: Requested,
           allowDelegation: BOOLEAN, depth: 0..MaxDelegationDepth, revoked: BOOLEAN]

\* A map from hashes to records, in memory or as the contents of the file.
IsImage(recs) == DOMAIN recs \subseteq Hash /\ recs \in [DOMAIN recs -> Record]

\* A missing file is not an image.
ASSUME FileAssumption == \A S \in SUBSET Hash : NoFile \notin [S -> Record]

Empty == [h \in {} |-> NoHash]

\* The records whose parent field names one of S (children of a root are told
\* apart from roots by their depth).
ClosedUnderChildren(recs, S) ==
    \A h \in DOMAIN recs : recs[h].depth > 0 /\ recs[h].parent \in S => h \in S

\* The fixpoint loop of pruneInactive and the queue of revokeHash: the least
\* set that holds seed and the children of its members.
Subtree(recs, seed) ==
    {h \in DOMAIN recs : \A S \in SUBSET DOMAIN recs :
        seed \cap DOMAIN recs \subseteq S /\ ClosedUnderChildren(recs, S) => h \in S}

\* The tokens validateLocked and recordOrAncestorInactive walk through.
Chain(recs, h) == {a \in DOMAIN recs : h \in Subtree(recs, {a})}

Inactive(rec, now) == rec.revoked \/ now >= rec.expiresAt

InactiveHashes(recs, now) == {h \in DOMAIN recs : Inactive(recs[h], now)}

\* Variant: expiry of one token takes its siblings along.
pruneInactiveRoots(recs, now) ==
    LET roots == {recs[h].root : h \in InactiveHashes(recs, now)}
    IN  [h \in {x \in DOMAIN recs : recs[x].root \notin roots} |-> recs[h]]

pruneInactive(recs, now) ==
    [h \in DOMAIN recs \ Subtree(recs, InactiveHashes(recs, now)) |-> recs[h]]

MissingParent(recs, a) == recs[a].depth > 0 /\ recs[a].parent \notin DOMAIN recs

recordOrAncestorInactive(recs, h, now) ==
    \E a \in Chain(recs, h) : Inactive(recs[a], now) \/ MissingParent(recs, a)

\* The bearer with hash h, presented by workload w for audience a at time now.
validateLocked(recs, h, w, a, now) ==
    /\ h \in DOMAIN recs
    /\ recs[h].workload = w /\ recs[h].audience = a
    /\ \A x \in Chain(recs, h) :
        /\ ~Inactive(recs[x], now)
        /\ ~MissingParent(recs, x)
        /\ recs[x].root = recs[h].root

directChildCount(recs, parent) ==
    Cardinality({h \in DOMAIN recs : recs[h].parent = parent /\ recs[h].depth > 0})

rootTokenCount(recs, root) == Cardinality({h \in DOMAIN recs : recs[h].root = root})

validateGrantSet(gs) ==
    /\ DOMAIN gs # {} /\ Cardinality(DOMAIN gs) <= MaxGrantsPerToken
    /\ \A g \in DOMAIN gs : ValidLimits(gs[g])

-----------------------------------------------------------------------------
(* The file *)

\* Records take RecordSize bytes whatever their grants; a revocation time takes
\* RevokedAtSize more.
EncodedSize(recs) ==
    HeaderSize + RecordSize * Cardinality(DOMAIN recs)
        + RevokedAtSize * Cardinality({h \in DOMAIN recs : recs[h].revoked})

\* Variant: no reserve for revocation times.
ensureRevocationCapacityNow(recs) == EncodedSize(recs) <= FileSizeLimit

ensureRevocationCapacity(recs) ==
    EncodedSize(recs) + FixedHeadroom + PerRecordHeadroom * Cardinality(DOMAIN recs)
        <= FileSizeLimit

ensureAppendCapacity(recs) ==
    Cardinality(DOMAIN recs) <= MaxRecords /\ ensureRevocationCapacity(recs)

\* decodeDiskState, record by record.
decodeDiskState(recs) ==
    \A h \in DOMAIN recs :
        /\ recs[h].depth <= MaxDelegationDepth
        /\ recs[h].expiresAt > recs[h].issuedAt
        /\ validateGrantSet(recs[h].grants)

RootLineage(recs, h) == recs[h].root = h /\ recs[h].parent = NoHash

ParentLineage(recs, h) ==
    LET rec == recs[h]
        parent == recs[rec.parent]
    IN  /\ rec.parent \in DOMAIN recs
        /\ parent.depth + 1 = rec.depth /\ parent.root = rec.root
        /\ parent.allowDelegation
        /\ rec.audience = parent.audience
        /\ rec.expiresAt <= parent.expiresAt
        /\ grantsAreSubset(rec.grants, parent.grants)
        /\ parent.revoked => rec.revoked

validateLoadedRecords(recs) ==
    \A h \in DOMAIN recs :
        /\ IF recs[h].depth = 0 THEN RootLineage(recs, h) ELSE ParentLineage(recs, h)
        /\ recs[h].root \in DOMAIN recs
        /\ recs[recs[h].root].depth = 0
        /\ recs[recs[h].root].root = recs[h].root

validateLoadedBounds(recs) ==
    /\ Cardinality(DOMAIN recs) <= MaxRecords
    /\ \A h \in DOMAIN recs : directChildCount(recs, h) <= MaxChildrenPerToken
    /\ \A h \in DOMAIN recs : rootTokenCount(recs, recs[h].root) <= MaxTokensPerRoot

\* How a persist ends: before the rename, after it without a directory sync,
\* or with everything done.
Outcome == {"failed", "unsynced", "ok"}

\* What a method has so far: the process's map, the file system, the faults it
\* met, and whether the last persist reported success.
Stage(p) == [mem |-> records[p], fs |-> fs, faults |-> faults, ok |-> TRUE]

\* Variant: the live map follows the file only if every step succeeded.
persistInstallingOnSuccess(st, recs, outcome) ==
    LET end == IF EncodedSize(recs) > FileSizeLimit THEN "failed" ELSE outcome
    IN  [mem    |-> IF end = "ok" THEN recs ELSE st.mem,
         fs     |-> IF end = "failed" THEN st.fs
                    ELSE [file |-> recs, durable |-> IF end = "ok" THEN {recs}
                                                     ELSE st.fs.durable \cup {recs}],
         faults |-> IF outcome = "ok" THEN st.faults ELSE st.faults + 1,
         ok     |-> end = "ok"]

persist(st, recs, outcome) ==
    LET end == IF EncodedSize(recs) > FileSizeLimit THEN "failed" ELSE outcome
        renamed == CASE end = "failed"   -> st.fs
                     [] end = "unsynced" -> [file |-> recs, durable |-> st.fs.durable \cup {recs}]
                     [] end = "ok"       -> [file |-> recs, durable |-> {recs}]
    IN  [mem    |-> IF end = "failed" THEN st.mem ELSE recs,
         fs     |-> renamed,
         faults |-> IF outcome = "ok" THEN st.faults ELSE st.faults + 1,
         ok     |-> end = "ok"]

pruneLocked(st, now, outcome) ==
    LET next == pruneInactive(st.mem, now)
    IN  IF InactiveHashes(st.mem, now) = {} THEN st ELSE persist(st, next, outcome)

\* s.records, the file and the fault count after a method of process p.
Install(p, st) ==
    /\ st.faults <= MaxFaults
    /\ records' = [records EXCEPT ![p] = st.mem]
    /\ fs' = st.fs
    /\ faults' = st.faults
    /\ UNCHANGED <<clock, latest, lock>>

-----------------------------------------------------------------------------
(* Methods *)

Init ==
    /\ clock = 0 /\ latest = 0
    /\ lock = NoProcess
    /\ records = [p \in Process |-> Empty]
    /\ fs = [file |-> NoFile, durable |-> {NoFile}]
    /\ faults = 0
    /\ used = {} /\ issued = Empty /\ revoking = {} /\ acked = {}

\* The checks load and Open make on a file, the last two after the prune.
Accepts(loaded, now) ==
    LET pruned == pruneInactive(loaded, now)
    IN  /\ EncodedSize(loaded) <= FileSizeLimit
        /\ decodeDiskState(loaded)
        /\ validateLoadedRecords(loaded)
        /\ validateLoadedBounds(pruned)
        /\ ensureRevocationCapacity(pruned)

\* Open: take the lock, load, prune, check, and persist if anything changed.
\* A failed persist closes the store again, which gives up the lock.
Open(p, outcome) ==
    LET found  == fs.file # NoFile
        loaded == IF found THEN fs.file ELSE Empty
        pruned == pruneInactive(loaded, clock)
        st     == IF found /\ InactiveHashes(loaded, clock) = {}
                  THEN [Stage(p) EXCEPT !.mem = loaded]
                  ELSE persist([Stage(p) EXCEPT !.mem = pruned], pruned, outcome)
    IN  /\ lock = NoProcess
        /\ Accepts(loaded, clock)
        /\ st.faults <= MaxFaults
        /\ fs' = st.fs
        /\ faults' = st.faults
        /\ IF st.ok THEN lock' = p /\ records' = [records EXCEPT ![p] = st.mem]
                    ELSE UNCHANGED <<lock, records>>
        /\ UNCHANGED <<clock, latest, used, issued, revoking, acked>>

\* Close, and the lock the kernel takes back from a process that dies.
Release(p) ==
    /\ lock' = NoProcess
    /\ records' = [records EXCEPT ![p] = Empty]

Close(p) ==
    /\ lock = p
    /\ Release(p)
    /\ UNCHANGED <<clock, latest, fs, faults, used, issued, revoking, acked>>

With(recs, h, rec) == [x \in DOMAIN recs \cup {h} |-> IF x = h THEN rec ELSE recs[x]]

\* The change a method makes once its prune is through.  The bearer reaches
\* the caller only if the directory was synced too.
Issue(p, h, pruned, next, outcome) ==
    LET st == persist(pruned, next, outcome)
    IN  /\ Install(p, st)
        /\ used'   = IF h \in DOMAIN st.mem THEN used \cup {h} ELSE used
        /\ issued' = IF st.ok THEN With(issued, h, next[h].expiresAt) ELSE issued
        /\ UNCHANGED <<revoking, acked>>

\* An early return after the prune leaves only the prune behind.
Refuse(p, pruned) ==
    /\ Install(p, pruned)
    /\ UNCHANGED <<used, issued, revoking, acked>>

\* Variant: a drawn hash is not looked up in the map.
GeneratedUnchecked(recs, h) == h = NoHash \/ h \in Hash

\* generateUniqueTokenLocked: 32 random bytes, drawn again while their hash is
\* in the map; NoHash stands for a failed read or eight collisions.  That a
\* draw never repeats a hash of a pruned record is what 256 random bits give.
Generated(recs, h) == h = NoHash \/ (h \in Hash \ used /\ h \notin DOMAIN recs)

Mint(p, h, w, a, expiresAt, gs, allow, o1, o2) ==
    LET pruned == pruneLocked(Stage(p), clock, o1)
        rec  == [parent |-> NoHash, root |-> h, workload |-> w, audience |-> a,
                 issuedAt |-> clock, expiresAt |-> expiresAt, grants |-> gs,
                 allowDelegation |-> allow, depth |-> 0, revoked |-> FALSE]
        next == With(pruned.mem, h, rec)
        accepted == /\ pruned.ok
                    /\ expiresAt > clock
                    /\ h # NoHash
                    /\ ensureAppendCapacity(next)
    IN  /\ lock = p
        /\ validateGrantSet(gs)
        /\ Generated(pruned.mem, h)
        /\ \/ accepted /\ Issue(p, h, pruned, next, o2)
           \/ ~accepted /\ Refuse(p, pruned)

DepthAllowed(prec) == prec.depth + 1 <= MaxDelegationDepth

Delegate(p, parent, caller, h, w, a, expiresAt, gs, allow, o1, o2) ==
    LET pruned == pruneLocked(Stage(p), clock, o1)
        prec == pruned.mem[parent]
        rec  == [parent |-> parent, root |-> prec.root, workload |-> w,
                 audience |-> prec.audience, issuedAt |-> clock,
                 expiresAt |-> expiresAt, grants |-> gs, allowDelegation |-> allow,
                 depth |-> prec.depth + 1, revoked |-> FALSE]
        next == With(pruned.mem, h, rec)
        accepted == /\ pruned.ok
                    /\ validateLocked(pruned.mem, parent, caller, a, clock)
                    /\ prec.allowDelegation
                    /\ DepthAllowed(prec)
                    /\ expiresAt > clock
                    /\ expiresAt <= prec.expiresAt
                    /\ grantsAreSubset(gs, prec.grants)
                    /\ directChildCount(pruned.mem, parent) < MaxChildrenPerToken
                    /\ rootTokenCount(pruned.mem, prec.root) < MaxTokensPerRoot
                    /\ h # NoHash
                    /\ ensureAppendCapacity(next)
    IN  /\ lock = p
        /\ validateGrantSet(gs)
        /\ Generated(pruned.mem, h)
        /\ \/ accepted /\ Issue(p, h, pruned, next, o2)
           \/ ~accepted /\ Refuse(p, pruned)

\* Variant: the revocation does not reach the descendants.
RevokeToken(recs, h) ==
    [x \in DOMAIN recs |-> IF x = h THEN [recs[x] EXCEPT !.revoked = TRUE] ELSE recs[x]]

\* The records with a whole subtree revoked.
RevokeSubtree(recs, h) ==
    [x \in DOMAIN recs |->
        IF x \in Subtree(recs, {h}) THEN [recs[x] EXCEPT !.revoked = TRUE] ELSE recs[x]]

\* Variant: a token found inactive is reported revoked before its prune is saved.
RevokeReportedEarly(ok, found, wasInactive) == (ok /\ found) \/ wasInactive

\* Whether revokeHash returns nil, given that its persists succeeded, that the
\* prune left the token, and that it was inactive before.
RevokeReported(ok, found, wasInactive) == ok /\ (found \/ wasInactive)

revokeHash(p, h, o1, o2) ==
    LET before == records[p]
        wasInactive == h \in DOMAIN before /\ recordOrAncestorInactive(before, h, clock)
        pruned == pruneLocked(Stage(p), clock, o1)
        found  == h \in DOMAIN pruned.mem
        st == IF pruned.ok /\ found
              THEN persist(pruned, RevokeSubtree(pruned.mem, h), o2)
              ELSE pruned
        success   == RevokeReported(st.ok, found, wasInactive)
        committed == st.mem # pruned.mem
        covered   == Subtree(before, {h})
    IN  /\ lock = p
        /\ Install(p, st)
        /\ revoking' = IF committed \/ success THEN revoking \cup covered ELSE revoking
        /\ acked' = IF success THEN acked \cup covered ELSE acked
        /\ UNCHANGED <<used, issued>>

-----------------------------------------------------------------------------
(* Environment *)

SetClock(t) ==
    /\ clock' = t
    /\ latest' = IF t > latest THEN t ELSE latest
    /\ UNCHANGED <<lock, records, fs, faults, used, issued, revoking, acked>>

\* The server process dies; what it renamed into place stays.
Crash(p) ==
    /\ lock = p
    /\ faults < MaxFaults
    /\ Release(p)
    /\ faults' = faults + 1
    /\ UNCHANGED <<clock, latest, fs, used, issued, revoking, acked>>

\* The machine stops: a rename whose directory was not synced may be lost.
PowerLoss(image) ==
    /\ faults < MaxFaults
    /\ image \in fs.durable
    /\ lock' = NoProcess
    /\ records' = [p \in Process |-> Empty]
    /\ fs' = [file |-> image, durable |-> {image}]
    /\ faults' = faults + 1
    /\ UNCHANGED <<clock, latest, used, issued, revoking, acked>>

\* How a persist of a method can end, within the bound on faults.
PersistOutcome == IF faults < MaxFaults THEN Outcome ELSE {"ok"}

\* How the prune at the start of a method can end, which persists only if there
\* is something to prune.
PruneOutcome(p) == IF InactiveHashes(records[p], clock) = {} THEN {"ok"} ELSE PersistOutcome

\* Bearers a caller can present: those it was given, and ones never generated.
Presentable == DOMAIN issued \cup (Hash \ used)

Next ==
    \/ \E p \in Process :
        \/ \E o \in Outcome : Open(p, o)
        \/ Close(p)
        \/ Crash(p)
        \/ \E o1 \in PruneOutcome(p), o2 \in PersistOutcome :
            \/ \E h \in Hash \cup {NoHash}, w \in Workload, a \in Audience, e \in Expiry,
                  gs \in Requested, allow \in MayDelegate :
                    Mint(p, h, w, a, e, gs, allow, o1, o2)
            \/ \E parent \in Presentable, caller, w \in Workload, h \in Hash \cup {NoHash},
                  a \in Audience, e \in Expiry, gs \in Requested, allow \in MayDelegate :
                    Delegate(p, parent, caller, h, w, a, e, gs, allow, o1, o2)
            \/ \E h \in Hash : revokeHash(p, h, o1, o2)
    \/ \E t \in 0..MaxTime : SetClock(t)
    \/ \E image \in fs.durable : PowerLoss(image)

Spec == Init /\ [][Next]_vars

-----------------------------------------------------------------------------
(* Properties *)

\* Every file a restart can find: the one in place and the ones a power loss
\* may bring back.
Recoverable == (fs.durable \cup {fs.file}) \ {NoFile}

\* The live maps and every file hold well-formed records: their depth is within
\* MaxDelegationDepth and their grants are ones that were requested (store.go
\* record, Mint, Delegate).
TypeOK ==
    /\ clock \in 0..MaxTime /\ latest \in 0..MaxTime
    /\ lock \in Process \cup {NoProcess}
    /\ DOMAIN records = Process /\ \A p \in Process : IsImage(records[p])
    /\ \A image \in Recoverable : IsImage(image)
    /\ faults \in 0..MaxFaults
    /\ used \subseteq Hash /\ revoking \subseteq Hash /\ acked \subseteq Hash
    /\ DOMAIN issued \subseteq Hash /\ issued \in [DOMAIN issued -> Expiry]

\* Open never rejects a file the store itself wrote as corrupt, whichever
\* persist a crash or a power loss interrupted and whatever the clock shows at
\* the restart (store.go Open; persistence.go validateLoadedRecords).
Reloadable == \A image \in Recoverable, t \in 0..MaxTime : Accepts(image, t)

\* The process that has the store open works on exactly what the path holds,
\* also after a persist that failed before or after its commit point, and with
\* several processes opening the path ("keeping the live view consistent with
\* the path that future writes would replace", persistence.go persist).
LiveViewIsFile == lock # NoProcess => records[lock] = fs.file

\* A revocation that returned nil is final for the token and everything
\* delegated from it: no process and no file that a crash or power loss can
\* leave will validate it again (store.go revokeHash).
RevocationIsFinal ==
    \A h \in acked, image \in Recoverable, w \in Workload, a \in Audience, t \in 0..MaxTime :
        ~validateLocked(image, h, w, a, t)

\* A bearer handed to a caller stays valid until its expiry unless a revocation
\* that covers it was requested: neither crash, power loss nor the pruning of
\* other tokens loses it (store.go Mint, Delegate, pruneLocked).
IssuedSurvives ==
    \A h \in DOMAIN issued \ revoking, image \in fs.durable \cup {fs.file} :
        latest < issued[h] =>
            /\ image # NoFile /\ h \in DOMAIN image
            /\ validateLocked(image, h, image[h].workload, image[h].audience, latest)

\* A token is bounded by every token it descends from, not only by its parent:
\* its grants are among theirs and admit no traffic theirs would not, it
\* expires no later, and its audience is the same (store.go Delegate,
\* grantsAreSubset).
NarrowerThanAncestors ==
    \A image \in Recoverable : \A h \in DOMAIN image : \A x \in Chain(image, h) :
        /\ \A g \in DOMAIN image[h].grants :
            /\ g \in DOMAIN image[x].grants
            /\ AdmitsNoMore(image[h].grants[g], image[x].grants[g])
        /\ image[h].expiresAt <= image[x].expiresAt
        /\ image[h].audience = image[x].audience

\* "A store filled by successful issuance can always record that revocation":
\* no revocation of any token is refused because the file would be too large
\* (store.go ensureRevocationCapacity; persistence.go persist).
RevocationAlwaysFits ==
    lock # NoProcess =>
        \A h \in DOMAIN records[lock] :
            EncodedSize(RevokeSubtree(records[lock], h)) <= FileSizeLimit

\* What a step leaves of the claims in the map of a process that keeps the store
\* open, and where a record that it adds comes from.
ClaimsKept(p) ==
    \A h \in DOMAIN records'[p] :
        LET new == records'[p][h]
        IN  IF h \in DOMAIN records[p]
            THEN new = [records[p][h] EXCEPT !.revoked = new.revoked]
                 /\ (records[p][h].revoked => new.revoked)
            ELSE /\ h \notin used
                 /\ new.depth > 0 =>
                      /\ new.parent \in DOMAIN records[p]
                      /\ ~recordOrAncestorInactive(records[p], new.parent, clock)

\* While a process keeps the store open no step changes the claims of a token
\* it knows, clears a revocation, or brings back a hash it has dropped; a new
\* token is a fresh hash, and a delegated one has a parent that is live at that
\* moment (store.go Mint, Delegate, revokeHash, pruneLocked).
ClaimsNeverWiden == [][\A p \in Process : lock = p /\ lock' = p => ClaimsKept(p)]_vars
=============================================================================
