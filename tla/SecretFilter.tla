--------------------------- MODULE SecretFilter ----------------------------
(***************************************************************************)
(* secretFilteringBody (internal/gateway/response.go): the reader between  *)
(* an upstream response and the client that withholds a response from the  *)
(* byte that could begin the credential on, and fails once it is there.    *)
(* The upstream's reader is external: it returns some bytes, an error, or  *)
(* both, and nothing at all for a while.                                   *)
(***************************************************************************)
EXTENDS Naturals, Sequences

CONSTANTS Secret,         \* the pattern, a sequence of bytes
          Byte,
          MaxResponse,    \* bound: bytes the upstream sends
          MaxChunk,       \* bound: bytes of one read or write
          MaxIdle         \* 100 in the code

ASSUME FilterAssumption ==
  /\ Secret \in Seq(Byte) /\ Secret # <<>>
  /\ MaxResponse \in Nat /\ MaxChunk \in Nat \ {0} /\ MaxIdle \in Nat \ {0}

VARIABLES source,   \* what the upstream has sent, and how its body ended
          filter,   \* the fields of the reader
          given     \* bytes handed to the caller

filterVars == <<source, filter, given>>

(***************************************************************************)
(* The automaton, as the code computes it.                                 *)
(***************************************************************************)
\* The inner loop of both functions, and the comparison after it.
Advance(pattern, failure, matched, current) ==
  LET fall[m \in 0..matched] ==
        IF m > 0 /\ current # pattern[m + 1] THEN fall[failure[m]] ELSE m
  IN  IF current = pattern[fall[matched] + 1] THEN fall[matched] + 1 ELSE fall[matched]

prefixFailure(pattern) ==
  LET upTo[n \in 1..Len(pattern)] ==
        IF n = 1 THEN <<0>>
        ELSE Append(upTo[n - 1], Advance(pattern, upTo[n - 1], upTo[n - 1][n - 1], pattern[n]))
  IN  upTo[Len(pattern)]

suffixPrefixOverlap(value, pattern, failure) ==
  LET matched[k \in 0..Len(value)] ==
        IF k = 0 THEN 0
        ELSE LET next == Advance(pattern, failure, matched[k - 1], value[k])
             IN  IF next = Len(pattern) THEN failure[next] ELSE next
  IN  matched[Len(value)]

\* bytes.Contains
Occurs(value, pattern) ==
  \E i \in 0..(Len(value) - Len(pattern)) : SubSeq(value, i + 1, i + Len(pattern)) = pattern

Failure == prefixFailure(Secret)

\* Variant: everything that is pending.
SafeWhole(f) == Len(f.pending)

\* What Read may hand out: all that is pending but the longest suffix that the
\* secret can begin with, and that suffix too once the source has ended.
Safe(f) ==
  Len(f.pending) - (IF f.terminalErr # "nil" THEN 0 ELSE suffixPrefixOverlap(f.pending, Secret, Failure))

(***************************************************************************)
(* One turn of the loop of Read.                                           *)
(***************************************************************************)
Chunk == UNION {[1..n -> Byte] : n \in 0..MaxChunk}

FilterInit ==
  /\ source = [bytes |-> <<>>, end |-> "open"]
  /\ filter = [pending |-> <<>>, terminalErr |-> "nil", found |-> FALSE, idle |-> 0]
  /\ given = <<>>

\* ErrSecretReflection, now and on every later call.
ReadReflects ==
  /\ filter.found \/ Occurs(filter.pending, Secret)
  /\ filter' = [filter EXCEPT !.found = TRUE, !.pending = <<>>]
  /\ UNCHANGED <<source, given>>

ReadGives ==
  /\ ~filter.found /\ ~Occurs(filter.pending, Secret) /\ Safe(filter) > 0
  /\ \E room \in 1..MaxChunk :
       LET n == IF Safe(filter) > room THEN room ELSE Safe(filter)
       IN  /\ given' = given \o SubSeq(filter.pending, 1, n)
           /\ filter' = [filter EXCEPT !.pending = SubSeq(@, n + 1, Len(@))]
  /\ UNCHANGED source

\* The error kept back while bytes were pending.
ReadEnds(err) ==
  /\ ~filter.found /\ ~Occurs(filter.pending, Secret) /\ Safe(filter) = 0
  /\ filter.terminalErr = err /\ err # "nil"
  /\ filter' = [filter EXCEPT !.terminalErr = "nil"]
  /\ UNCHANGED <<source, given>>

\* A read of the source, which repeats its error once it has ended.
ReadSource ==
  /\ ~filter.found /\ ~Occurs(filter.pending, Secret) /\ Safe(filter) = 0
  /\ filter.terminalErr = "nil"
  /\ \E bytes \in Chunk, err \in {"nil", "eof", "failed"} :
       LET idle == IF bytes = <<>> /\ err = "nil" THEN filter.idle + 1
                   ELSE IF bytes # <<>> THEN 0 ELSE filter.idle
       IN  /\ Len(source.bytes) + Len(bytes) <= MaxResponse
           /\ source.end # "open" => bytes = <<>> /\ err = source.end
           /\ source' = [bytes |-> source.bytes \o bytes,
                         end |-> IF err = "nil" THEN source.end ELSE err]
           /\ filter' = [filter EXCEPT
                          !.pending = @ \o bytes, !.idle = idle,
                          !.terminalErr = IF err # "nil" THEN err
                                          ELSE IF idle >= MaxIdle THEN "noProgress" ELSE "nil"]
  /\ UNCHANGED given
=============================================================================
