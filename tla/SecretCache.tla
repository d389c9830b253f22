---------------------------- MODULE SecretCache ----------------------------
(***************************************************************************)
(* The bounded LRU cache of internal/secrets/cache.go, with the ownership  *)
(* rules of secrets.go: who has to zero which copy, and how old a value a  *)
(* Get can return while the backend's value is rotated.                    *)
(*                                                                         *)
(* Get holds the lock twice, around its lookup and around its insertion,   *)
(* and loads and zeroes outside of it.  A Secret is an identity; what it   *)
(* holds is the version of the backend's value it was loaded with.         *)
(***************************************************************************)
EXTENDS Naturals, Sequences, FiniteSets, Functions

CONSTANTS
  Getter,         \* goroutines in Get
  Closer,         \* the goroutine that calls Invalidate, Purge or Close
  Reference, SecretId, None,
  TTL, MaxEntries,
  LoadBound,      \* the time limit of a backend load
  MaxTime, MaxVersion

ASSUME CacheAssumption ==
  /\ Closer \notin Getter /\ None \notin SecretId \cup Reference
  /\ TTL \in Nat \ {0} /\ MaxEntries \in Nat \ {0} /\ LoadBound \in Nat
  /\ MaxTime \in Nat /\ MaxVersion \in Nat

VARIABLES
  clock,
  version,       \* of each reference's value at the backend
  rotated,       \* when each version of each reference was superseded
  entries, lru, closed,        \* the Cache; the front of lru is its head
  alive,         \* secrets not yet zeroed
  pc, now, reference,          \* of each getter: stage, the time it read, its argument
  started, candidate,          \* of each getter: when its load began, what it loaded
  doomed,        \* secrets each goroutine has detached and not yet zeroed
  served         \* what each getter's last Get returned

vars == <<clock, version, rotated, entries, lru, closed, alive, pc, now, reference, started,
          candidate, doomed, served>>

cache == <<entries, lru, closed>>
backend == <<clock, version, rotated>>

Time == 0..MaxTime
Version == 0..MaxVersion

\* Later than any time a run reaches: the version is still current.
Never == MaxTime + TTL + LoadBound + 1

Stored == [secret : SecretId, version : Version, expires : Nat]
NoEntry == [secret |-> None, version |-> 0, expires |-> 0]
Nothing == [at |-> 0, reference |-> None, version |-> 0]

Cached == {r \in Reference : entries[r] # NoEntry}

(***************************************************************************)
(* The map and the list.                                                   *)
(***************************************************************************)
RemoveAt(s, i) == SubSeq(s, 1, i - 1) \o SubSeq(s, i + 1, Len(s))

\* An entry is on the list once, so removing its element removes the reference.
Without(r) ==
  IF r \in Range(lru) THEN RemoveAt(lru, CHOOSE i \in DOMAIN lru : lru[i] = r) ELSE lru

MoveToFront(r) == <<r>> \o Without(r)

removeLocked(r) ==
  /\ entries' = [entries EXCEPT ![r] = NoEntry]
  /\ lru' = Without(r)

Return(g, r, v, at) == served' = [served EXCEPT ![g] = [at |-> at, reference |-> r, version |-> v]]

Goto(g, stage) == pc' = [pc EXCEPT ![g] = stage]

(***************************************************************************)
(* Get.                                                                    *)
(***************************************************************************)
\* The time is read before the lock is asked for.
Begin(g, r) ==
  /\ pc[g] = "idle"
  /\ now' = [now EXCEPT ![g] = clock]
  /\ reference' = [reference EXCEPT ![g] = r]
  /\ served' = [served EXCEPT ![g] = Nothing]
  /\ Goto(g, "looking")
  /\ UNCHANGED <<backend, cache, alive, started, candidate, doomed>>

\* Variant: a hit starts the entry's time anew.
HitRenewing(g, r, at) ==
  /\ at < entries[r].expires
  /\ Return(g, r, entries[r].version, at)
  /\ entries' = [entries EXCEPT ![r].expires = at + TTL]
  /\ lru' = MoveToFront(r)

\* An entry that has not expired is copied and moved to the front.
Hit(g, r, at) ==
  /\ at < entries[r].expires
  /\ Return(g, r, entries[r].version, at)
  /\ lru' = MoveToFront(r)
  /\ UNCHANGED entries

Lookup(g) ==
  /\ pc[g] = "looking"
  /\ LET r == reference[g] IN
     \/ closed /\ Goto(g, "idle") /\ UNCHANGED <<entries, lru, served, doomed>>
     \/ /\ ~closed /\ r \in Cached
        /\ Hit(g, r, now[g])
        /\ Goto(g, "idle")
        /\ UNCHANGED doomed
     \/ /\ ~closed /\ r \in Cached /\ now[g] >= entries[r].expires
        /\ removeLocked(r)
        /\ doomed' = [doomed EXCEPT ![g] = {entries[r].secret}]
        /\ Goto(g, "expiring")
        /\ UNCHANGED served
     \/ ~closed /\ r \notin Cached /\ Goto(g, "loading") /\ UNCHANGED <<entries, lru, served, doomed>>
  /\ now' = [now EXCEPT ![g] = 0]
  /\ started' = [started EXCEPT ![g] = IF pc'[g] = "loading" THEN clock ELSE 0]
  /\ UNCHANGED <<backend, closed, alive, reference, candidate>>

\* The detached secrets are zeroed after the unlock, before the load or the return.
Destroy(g) ==
  /\ pc[g] \in {"expiring", "destroying"}
  /\ alive' = alive \ doomed[g]
  /\ doomed' = [doomed EXCEPT ![g] = {}]
  /\ started' = [started EXCEPT ![g] = IF pc[g] = "expiring" THEN clock ELSE 0]
  /\ Goto(g, IF pc[g] = "expiring" THEN "loading" ELSE "idle")
  /\ UNCHANGED <<backend, cache, now, reference, candidate, served>>

LoadFails(g) ==
  /\ pc[g] = "loading"
  /\ started' = [started EXCEPT ![g] = 0]
  /\ Goto(g, "idle")
  /\ UNCHANGED <<backend, cache, alive, now, reference, candidate, doomed, served>>

\* The backend's value is copied into a Secret of its own; the loaded lease and the
\* copy between are released at once.
Load(g) ==
  /\ pc[g] = "loading"
  /\ SecretId # alive
  /\ LET s == CHOOSE s \in SecretId : s \notin alive IN
       /\ alive' = alive \cup {s}
       /\ candidate' = [candidate EXCEPT ![g] = [secret |-> s, version |-> version[reference[g]]]]
  /\ Goto(g, "loaded")
  /\ UNCHANGED <<backend, cache, now, reference, started, doomed, served>>

Discard(g) == doomed' = [doomed EXCEPT ![g] = {candidate[g].secret}]

\* The map and the list with the candidate in front, evicted from the back while
\* there are too many; what is replaced or evicted is to be zeroed.
Put(g, r, at) ==
  LET pushed == MoveToFront(r)
      kept == SubSeq(pushed, 1, IF Len(pushed) > MaxEntries THEN MaxEntries ELSE Len(pushed))
      gone == {entries[x].secret : x \in (Cached \ Range(kept)) \cup ({r} \cap Cached)}
  IN /\ lru' = kept
     /\ entries' = [x \in Reference |->
          IF x \notin Range(kept) THEN NoEntry
          ELSE IF x = r THEN [secret |-> candidate[g].secret, version |-> candidate[g].version,
                              expires |-> at + TTL]
          ELSE entries[x]]
     /\ doomed' = [doomed EXCEPT ![g] = gone]
     /\ Return(g, r, candidate[g].version, at)

\* Variant: the cache may have been closed meanwhile.
InsertIntoClosed(g) ==
  /\ pc[g] = "loaded"
  /\ Put(g, reference[g], clock)
  /\ candidate' = [candidate EXCEPT ![g] = NoEntry]
  /\ started' = [started EXCEPT ![g] = 0]
  /\ Goto(g, "destroying")
  /\ UNCHANGED <<backend, closed, alive, now, reference>>

\* Variant: the candidate of the goroutine that came second is forgotten.
InsertForgetting(g) ==
  /\ pc[g] = "loaded"
  /\ LET r == reference[g] IN
     \/ closed /\ Discard(g) /\ UNCHANGED <<entries, lru, served>>
     \/ ~closed /\ r \in Cached /\ Hit(g, r, clock) /\ UNCHANGED doomed
     \/ ~closed /\ (r \in Cached => clock >= entries[r].expires) /\ Put(g, r, clock)
  /\ candidate' = [candidate EXCEPT ![g] = NoEntry]
  /\ started' = [started EXCEPT ![g] = 0]
  /\ Goto(g, "destroying")
  /\ UNCHANGED <<backend, closed, alive, now, reference>>

\* Under the lock again, with the time read again: the cache may have been closed,
\* and another goroutine may have stored the reference.
Insert(g) ==
  /\ pc[g] = "loaded"
  /\ LET r == reference[g] IN
     \/ closed /\ Discard(g) /\ UNCHANGED <<entries, lru, served>>
     \/ ~closed /\ r \in Cached /\ Hit(g, r, clock) /\ Discard(g)
     \/ ~closed /\ (r \in Cached => clock >= entries[r].expires) /\ Put(g, r, clock)
  /\ candidate' = [candidate EXCEPT ![g] = NoEntry]
  /\ started' = [started EXCEPT ![g] = 0]
  /\ Goto(g, "destroying")
  /\ UNCHANGED <<backend, closed, alive, now, reference>>

(***************************************************************************)
(* Invalidate, Purge and Close, by one goroutine.                          *)
(***************************************************************************)
getting == <<now, reference, started, candidate, served>>

Invalidate(r) ==
  /\ pc[Closer] = "idle" /\ r \in Cached
  /\ removeLocked(r)
  /\ doomed' = [doomed EXCEPT ![Closer] = {entries[r].secret}]
  /\ Goto(Closer, "destroying")
  /\ UNCHANGED <<backend, closed, alive, getting>>

\* detachAll, for Purge and for Close.
detachAll(closeCache) ==
  /\ pc[Closer] = "idle"
  /\ closed' = (closed \/ closeCache)
  /\ doomed' = [doomed EXCEPT ![Closer] = {entries[r].secret : r \in Cached}]
  /\ entries' = [r \in Reference |-> NoEntry]
  /\ lru' = <<>>
  /\ Goto(Closer, "destroying")
  /\ UNCHANGED <<backend, alive, getting>>

Purge == detachAll(FALSE)
Close == ~closed /\ detachAll(TRUE)

DestroyDetached ==
  /\ pc[Closer] = "destroying"
  /\ alive' = alive \ doomed[Closer]
  /\ doomed' = [doomed EXCEPT ![Closer] = {}]
  /\ Goto(Closer, "idle")
  /\ UNCHANGED <<backend, cache, getting>>

(***************************************************************************)
(* The backend and the clock.  Time passes while a load is under way, but  *)
(* no further than the backend's time limit.                               *)
(***************************************************************************)
Rotate(r) ==
  /\ version[r] < MaxVersion
  /\ version' = [version EXCEPT ![r] = @ + 1]
  /\ rotated' = [rotated EXCEPT ![r][version[r]] = clock]
  /\ UNCHANGED <<clock, cache, alive, pc, doomed, getting>>

Tick ==
  /\ clock < MaxTime
  /\ \A g \in Getter : pc[g] \in {"loading", "loaded"} => clock < started[g] + LoadBound
  /\ clock' = clock + 1
  /\ UNCHANGED <<version, rotated, cache, alive, pc, doomed, getting>>

Init ==
  /\ clock = 0
  /\ version = [r \in Reference |-> 0]
  /\ rotated = [r \in Reference |-> [v \in Version |-> Never]]
  /\ entries = [r \in Reference |-> NoEntry] /\ lru = <<>> /\ closed = FALSE
  /\ alive = {}
  /\ pc = [g \in Getter \cup {Closer} |-> "idle"]
  /\ now = [g \in Getter |-> 0] /\ started = [g \in Getter |-> 0]
  /\ reference \in [Getter -> Reference]
  /\ candidate = [g \in Getter |-> NoEntry]
  /\ doomed = [g \in Getter \cup {Closer} |-> {}]
  /\ served = [g \in Getter |-> Nothing]

Get(g) ==
  \/ \E r \in Reference : Begin(g, r)
  \/ Lookup(g) \/ Destroy(g) \/ LoadFails(g) \/ Load(g) \/ Insert(g)

Next ==
  \/ \E g \in Getter : Get(g)
  \/ \E r \in Reference : Invalidate(r) \/ Rotate(r)
  \/ Purge \/ Close \/ DestroyDetached \/ Tick

Spec == Init /\ [][Next]_vars

-----------------------------------------------------------------------------
\* Every variable has its type.
TypeOK ==
  /\ clock \in Time /\ version \in [Reference -> Version]
  /\ entries \in [Reference -> Stored \cup {NoEntry}]
  /\ closed \in BOOLEAN /\ alive \subseteq SecretId
  /\ pc \in [Getter \cup {Closer} -> {"idle", "looking", "expiring", "loading", "loaded", "destroying"}]
  /\ now \in [Getter -> Time] /\ started \in [Getter -> Time] /\ reference \in [Getter -> Reference]
  /\ doomed \in [Getter \cup {Closer} -> SUBSET SecretId]

\* The owners of secrets: the cache, the getters that just loaded one, and the
\* goroutines that have detached some.
CacheOwns(s) == \E r \in Cached : entries[r].secret = s
GetterOwns(g, s) == pc[g] = "loaded" /\ candidate[g].secret = s

\* Every secret that is not zeroed has exactly one owner, who will zero it, and no
\* owner has a zeroed one: a cached secret can always be acquired, and a copy that
\* leaves the cache is zeroed by the goroutine that took it out.
OneOwner ==
  /\ \A s \in alive :
       Cardinality({r \in Cached : entries[r].secret = s})
       + Cardinality({g \in Getter : GetterOwns(g, s)})
       + Cardinality({g \in Getter \cup {Closer} : s \in doomed[g]}) = 1
  /\ \A s \in SecretId \ alive :
       ~CacheOwns(s) /\ \A g \in Getter : ~GetterOwns(g, s) /\ s \notin doomed[g] \cup doomed[Closer]

\* Whenever the lock is free, the list names each cached reference once, there are
\* at most MaxEntries of them, and a closed cache has none, not even what was being
\* loaded when it was closed.
CacheIsSound ==
  /\ TypeOK
  /\ Range(lru) = Cached /\ Len(lru) = Cardinality(Cached)
  /\ Cardinality(Cached) <= MaxEntries
  /\ closed => Cached = {}

\* A Get never returns a value that was superseded longer ago than the TTL and the
\* time limit of one load, however many goroutines load and hit the entry.
StaleBound ==
  \A g \in Getter : served[g] # Nothing =>
    served[g].at < rotated[served[g].reference][served[g].version] + TTL + LoadBound
=============================================================================
