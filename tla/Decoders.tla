------------------------------ MODULE Decoders ------------------------------
(***************************************************************************)
(* From random bytes to outcomes: the byte streams and the Fisher-Yates    *)
(* shuffle of core/fairness/decoders.py and core/fairness/api.py, and of   *)
(* the stand-alone docs/verifier/verify.py that players check bets with.   *)
(* The games whose decoder is a single remainder of the first bytes        *)
(* (coin flip, dice, roulette, ...) need no model.                         *)
(***************************************************************************)
EXTENDS Integers, FiniteSets, Functions

CONSTANTS
  HeadLen,                     \* bytes of one HMAC (64)
  VerifierLen,                 \* bytes the verifier extends to (4096)
  Requests,                    \* a draw's byte_count and the bytes its decoder reads
  Grids,                       \* sizes of mines grids, numbers of raffle tickets
  Cards, Decks                 \* cards of a deck (52), decks of a shoe

\* A caller asks for one HMAC, or for as many bytes as the decoder will read.
ASSUME DecodersAssumption ==
  /\ HeadLen \in Nat /\ VerifierLen \in Nat /\ HeadLen <= VerifierLen
  /\ Requests \subseteq [byte_count : Nat \ {0}, reads : Nat]
  /\ \A r \in Requests : /\ r.reads <= VerifierLen
                         /\ r.byte_count >= r.reads \/ r.byte_count = HeadLen
  /\ Grids \subseteq Nat \ {0} /\ Cards \in Nat \ {0} /\ Decks \subseteq Nat \ {0}

-----------------------------------------------------------------------------
(* Byte streams.  A byte is <<0, i>>, the i-th of the HMAC, or <<n, i>>,   *)
(* the i-th of the SHA-256 chain over the first n bytes.                   *)

\* _extend: the HMAC, followed by the chain over it.
Extended(i) == IF i <= HeadLen THEN <<0, i>> ELSE <<HeadLen, i - HeadLen>>

\* _byte_stream over n bytes so obtained: these, and then a chain over all n.
Stream(n, i) == IF i <= n THEN Extended(i) ELSE <<n, i - n>>

\* verify.py: the stream over a head extended to a length of its own.
VerifierStream(i) == Stream(VerifierLen, i)

\* The decoder and the verifier read the same bytes for a request.
SameBytes(r) == \A i \in 1 .. VerifierLen :
                  i <= r.reads => Stream(r.byte_count, i) = VerifierStream(i)

-----------------------------------------------------------------------------
(* The shuffle.  picks[i] is the number that is pulled for index i.        *)

Swap(arr, i, j) == [arr EXCEPT ![i] = arr[j], ![j] = arr[i]]

\* Mutant of Pick: the element at i is never left in its place.
PickBelow(p, i) == p % i

\* _pull_uint(stream, 4) % (i + 1).
Pick(p, i) == p % (i + 1)

\* Indices n - 1 down to bound are settled, one swap each.
Shuffle(arr, n, bound, picks) ==
  LET after[i \in bound .. n] ==
        IF i = n THEN arr ELSE Swap(after[i + 1], i, Pick(picks[i], i))
  IN  after[bound]

\* max(1, n - k): index 0 settles itself.
Bound(n, k) == IF n - k > 1 THEN n - k ELSE 1

Identity(n) == [i \in 0 .. n - 1 |-> i]

\* The first k selected: the settled slots from the top down.
FisherYatesPartial(n, k, picks) ==
  LET arr == Shuffle(Identity(n), n, Bound(n, k), picks)
  IN  [m \in 1 .. k |-> arr[n - m]]

DecodeMinesPositions(mines, grid, picks) == FisherYatesPartial(grid, mines, picks)

DecodeRaffleWinners(tickets, picks) == FisherYatesPartial(tickets, 3, picks)

\* [c for c in range(52) for _ in range(decks)]: each card `decks' times.
Shoe(decks) == [i \in 0 .. decks * Cards - 1 |-> i \div decks]

DecodeBlackjackDeck(decks, picks) == Shuffle(Shoe(decks), decks * Cards, 1, picks)

-----------------------------------------------------------------------------
(* Reference: what a fair selection and a fair shoe are.                   *)

\* The numbers a decoder can pull, reduced to the remainders they leave.
PickSequences(n, k) ==
  {p \in [Bound(n, k) .. n - 1 -> 0 .. n - 1] : \A i \in DOMAIN p : p[i] <= i}

\* The k-arrangements of 0 .. n - 1.
Arrangements(n, k) ==
  {f \in [1 .. k -> 0 .. n - 1] : \A x, y \in 1 .. k : f[x] = f[y] => x = y}

\* The orders of a shoe that can be told apart.
ShoeOrders(decks) ==
  {f \in [0 .. decks * Cards - 1 -> 0 .. Cards - 1] :
     \A c \in 0 .. Cards - 1 : Cardinality({i \in DOMAIN f : f[i] = c}) = decks}

\* A decoder has every value of `values', each from equally many sequences.
Fair(decoder, values) ==
  /\ Range(decoder) = values
  /\ \A v \in values :
       Cardinality({p \in DOMAIN decoder : decoder[p] = v}) * Cardinality(values)
         = Cardinality(DOMAIN decoder)

MinesFair ==
  \A grid \in Grids : \A mines \in 1 .. grid - 1 :
    Fair([p \in PickSequences(grid, mines) |-> DecodeMinesPositions(mines, grid, p)],
         Arrangements(grid, mines))

WinnersFair ==
  \A tickets \in {n \in Grids : n >= 3} :
    Fair([p \in PickSequences(tickets, 3) |-> DecodeRaffleWinners(tickets, p)],
         Arrangements(tickets, 3))

DecksFair ==
  \A decks \in Decks :
    Fair([p \in PickSequences(decks * Cards, decks * Cards) |-> DecodeBlackjackDeck(decks, p)],
         ShoeOrders(decks))

\* The shuffles of decoders.py, with their early stop and reversed slice: no
\* selection of mines or winners and no order of a shoe is impossible, and none is
\* more likely than another.
ShufflesFair == MinesFair /\ WinnersFair /\ DecksFair

=============================================================================
