-------------------------- MODULE AuditChain_proofs --------------------------
(***************************************************************************)
(* Theorems about the audit log's hash chain and its verifier, for any     *)
(* number of writers and verifiers and any length of log and batch.        *)
(*                                                                         *)
(* What makes both safety properties true is a fact about ids: they are    *)
(* drawn under the chain's lock, so the rows in flight belong to one       *)
(* transaction and have ids above every committed row.  A commit therefore *)
(* only ever extends the chain at its end, and what a verifier has learnt  *)
(* about the rows up to some id stays true.                                *)
(***************************************************************************)
EXTENDS AuditChain, FiniteSetTheorems, SequenceTheorems, WellFoundedInduction, TLAPS

-----------------------------------------------------------------------------
(* The inductive invariant.                                                *)

\* The row_hash of the last of the rows S before i; none when there is no such row.
HashBefore(rows, S, i) ==
  LET before == {j \in S : j < i}
  IN  IF before = {} THEN <<>> ELSE rows[Max(before)].row_hash

\* Rows in flight belong to one transaction, and lie between the committed ids and
\* the next one.
InFlightAbove ==
  /\ \A w, x \in Writers : InFlight(w) # {} /\ InFlight(x) # {} => w = x
  /\ \A w \in Writers : \A i \in InFlight(w) : i < nextId /\ \A c \in Committed : c < i
  /\ \A c \in Committed : c < nextId

\* Each of the rows S was hashed over the one before it, the first over base.
Linked(rows, S, base) ==
  \A i \in S :
    /\ rows[i].content = i
    /\ rows[i].row_hash =
         Append(IF \E j \in S : j < i THEN HashBefore(rows, S, i) ELSE base, i)

\* Committed rows form a chain, head is its last hash, rows in flight continue it.
ChainLinked ==
  /\ Linked(written, Committed, <<>>)
  /\ head = HashBefore(written, Committed, nextId)
  /\ \A w \in Writers : Linked(pending[w], InFlight(w), head)

\* A row of the log is as it was written, or forged in its content, or gone.
LogSound ==
  /\ \A i \in Present : /\ i \in Committed
                        /\ log[i].row_hash = written[i].row_hash
                        /\ log[i].content \in {i, Forged}
  /\ damage = 0 => log = written

\* Everything up to the row p was vouched for; p is the id of a row, or 0, so that
\* later rows have ids above it.
CoveredIn(committed, good, p) ==
  /\ p = 0 \/ p \in committed
  /\ \A i \in committed : i <= p => i \in good

Covered(p) == CoveredIn(Committed, vouched, p)

\* What a tick has learnt stays true: where it starts from, the hash it was seeded
\* with, and the row it will write to the pointer.
TicksSound ==
  \A v \in Verifiers :
    /\ tick[v].at \in {"called", "seeded"} => Covered(tick[v].from)
    /\ tick[v].at = "seeded" =>
         \/ tick[v].prev = <<>>
         \/ \E q \in Committed : q < tick[v].from /\ tick[v].prev = written[q].row_hash
    /\ tick[v].at = "seeded" /\ damage = 0 =>
         tick[v].prev = HashBefore(written, Committed, tick[v].from)
    /\ tick[v].at = "walked" /\ Advances(tick[v]) => Covered(tick[v].last)

AuditInv ==
  /\ TypeOK /\ InFlightAbove /\ ChainLinked /\ LogSound
  /\ Covered(pointer) /\ TicksSound /\ NoFalseAlarm

-----------------------------------------------------------------------------
(* Sets of ids and the hash before an id.                                  *)

\* Every non-empty set of naturals has a least element.
LEMMA LeastNatural ==
  ASSUME NEW T, T \subseteq Nat, T # {}
  PROVE  \E m \in T : \A n \in T : m <= n
<1>1. PICK m \in T : \A n \in T : ~ (<<n, m>> \in OpToRel(<, Nat))
  BY NatLessThanWellFounded, WFMin
<1>2. \A n \in T : ~ (n < m)
  BY <1>1 DEF OpToRel
<1> QED
  BY <1>2

\* Max is the greatest of a set of ids.
LEMMA MaxOf ==
  ASSUME NEW S, S \subseteq Ids, S # {}
  PROVE  Max(S) \in S /\ \A y \in S : y <= Max(S)
<1>1. IsFiniteSet(Ids) /\ Ids \subseteq Nat
  BY AuditAssumption, FS_Interval DEF Ids
<1>2. S \subseteq Nat /\ IsFiniteSet(S)
  BY <1>1, FS_Subset
<1>3. PICK m \in S : \A n \in S : n <= m
  <2> DEFINE T == {MaxId - n : n \in S}
  <2>1. MaxId \in Nat /\ \A n \in S : n \in Nat /\ n <= MaxId
    BY AuditAssumption DEF Ids
  <2>2. T \subseteq Nat /\ T # {}
    BY <2>1
  <2>3. PICK k \in T : \A n \in T : k <= n
    <3> HIDE DEF T
    <3> QED
      BY <2>2, LeastNatural
  <2>4. PICK m \in S : k = MaxId - m
    BY <2>3
  <2>5. ASSUME NEW n \in S PROVE n <= m
    <3>1. MaxId - n \in T
      OBVIOUS
    <3>2. MaxId - m <= MaxId - n
      BY <2>3, <2>4, <3>1
    <3> QED
      BY <2>1, <3>2
  <2> QED
    BY <2>5
<1>4. \A y \in S : m >= y
  BY <1>2, <1>3
<1>5. Max(S) \in S /\ \A y \in S : Max(S) >= y
  BY <1>4 DEF Max
<1> QED
  BY <1>2, <1>5

\* Min is the least of a set of ids.
LEMMA MinOf ==
  ASSUME NEW S, S \subseteq Ids, S # {}
  PROVE  Min(S) \in S /\ \A y \in S : Min(S) <= y
<1>1. S \subseteq Nat
  BY DEF Ids
<1>2. PICK m \in S : \A n \in S : m <= n
  BY <1>1, LeastNatural
<1>3. \A y \in S : m =< y
  BY <1>1, <1>2
<1> QED
  BY <1>3 DEF Min

\* k is the last row of S before i.
LastBefore(S, i, k) == k \in S /\ k < i /\ \A j \in S : j < i => j <= k

\* Before i, other and T have the rows and the hashes that rows and S have.
SameBefore(rows, S, other, T, i) ==
  /\ \A j \in Ids : j < i => (j \in T <=> j \in S)
  /\ \A j \in S : j < i => other[j].row_hash = rows[j].row_hash

\* Either there is no row of S before i, or there is a last one.
LEMMA HashCases ==
  ASSUME NEW rows, NEW S \in SUBSET Ids, NEW i \in Int
  PROVE  \/ (\A j \in S : ~ (j < i)) /\ HashBefore(rows, S, i) = <<>>
         \/ \E k \in S : LastBefore(S, i, k) /\ HashBefore(rows, S, i) = rows[k].row_hash
<1> DEFINE before == {j \in S : j < i}
<1>1. CASE before = {}
  BY <1>1 DEF HashBefore
<1>2. CASE before # {}
  <2>1. Max(before) \in before /\ \A y \in before : y <= Max(before)
    BY <1>2, MaxOf
  <2>2. HashBefore(rows, S, i) = rows[Max(before)].row_hash
    BY <1>2 DEF HashBefore
  <2> QED
    BY <2>1, <2>2 DEF LastBefore
<1> QED
  BY <1>1, <1>2

\* The first row of S is hashed over nothing.
LEMMA HashFirst ==
  ASSUME NEW rows, NEW S, NEW i, \A j \in S : ~ (j < i)
  PROVE  HashBefore(rows, S, i) = <<>>
BY DEF HashBefore

\* The hash before i is that of the last row before i.
LEMMA HashPrev ==
  ASSUME NEW rows, NEW S \in SUBSET Ids, NEW i \in Int, NEW k, LastBefore(S, i, k)
  PROVE  HashBefore(rows, S, i) = rows[k].row_hash
<1>1. PICK m \in S : LastBefore(S, i, m) /\ HashBefore(rows, S, i) = rows[m].row_hash
  BY HashCases DEF LastBefore
<1>2. k = m
  BY <1>1 DEF Ids, LastBefore
<1> QED
  BY <1>1, <1>2

\* The hash before i depends on the rows before i alone.
LEMMA HashKept ==
  ASSUME NEW rows, NEW S \in SUBSET Ids, NEW other, NEW T \in SUBSET Ids, NEW i \in Int,
         SameBefore(rows, S, other, T, i)
  PROVE  HashBefore(other, T, i) = HashBefore(rows, S, i)
<1>1. CASE \A j \in S : ~ (j < i)
  <2>1. \A j \in T : ~ (j < i)
    BY <1>1 DEF SameBefore
  <2> QED
    BY <1>1, <2>1, HashFirst
<1>2. ASSUME NEW k \in S, LastBefore(S, i, k), HashBefore(rows, S, i) = rows[k].row_hash
      PROVE  HashBefore(other, T, i) = HashBefore(rows, S, i)
  <2>1. LastBefore(T, i, k) /\ other[k].row_hash = rows[k].row_hash
    BY <1>2 DEF LastBefore, SameBefore
  <2>2. HashBefore(other, T, i) = other[k].row_hash
    BY <2>1, HashPrev
  <2> QED
    BY <1>2, <2>1, <2>2
<1> QED
  BY <1>1, <1>2, HashCases

\* A hash is a sequence of contents.
LEMMA HashTyped ==
  ASSUME NEW rows \in [Ids -> Rows], NEW S \in SUBSET Ids, NEW i \in Int
  PROVE  HashBefore(rows, S, i) \in Seq(Ids)
<1>1. <<>> \in Seq(Ids)
  OBVIOUS
<1>2. \A k \in S : rows[k].row_hash \in Seq(Ids)
  BY DEF Rows
<1>3. \/ HashBefore(rows, S, i) = <<>>
      \/ \E k \in S : HashBefore(rows, S, i) = rows[k].row_hash
  BY HashCases, Zenon
<1>4. CASE HashBefore(rows, S, i) = <<>>
  BY <1>1, <1>4, Zenon
<1>5. ASSUME NEW k \in S, HashBefore(rows, S, i) = rows[k].row_hash
      PROVE  HashBefore(rows, S, i) \in Seq(Ids)
  BY <1>2, <1>5, Zenon
<1> QED
  BY <1>3, <1>4, <1>5

-----------------------------------------------------------------------------
(* Types.                                                                  *)

\* The sets of ids that the actions take a maximum of.
LEMMA SetsOfIds ==
  /\ Present \subseteq Ids /\ Committed \subseteq Ids
  /\ \A w \in Writers : InFlight(w) \subseteq Ids
  /\ \A from \in Int : Batch(from) \subseteq Present
BY DEF Present, Committed, InFlight, Batch

\* audit_log_insert_with_chain hashes over a well-formed hash.
LEMMA HeadTyped ==
  ASSUME AuditInv, NEW w \in Writers
  PROVE  HeadSeenBy(w) \in Seq(Ids)
<1>1. head \in Seq(Ids) /\ pending[w] \in [Ids -> Rows]
  BY DEF AuditInv, TypeOK
<1>2. \A i \in Ids : pending[w][i].row_hash \in Seq(Ids)
  BY <1>1 DEF Rows
<1>3. InFlight(w) # {} => Max(InFlight(w)) \in Ids
  BY SetsOfIds, MaxOf
<1> QED
  BY <1>1, <1>2, <1>3 DEF HeadSeenBy

\* LIMIT p_max_rows: a batch has at most as many rows.
LEMMA BatchSize ==
  ASSUME NEW from \in Int, NEW S, S \subseteq Batch(from)
  PROVE  Cardinality(S) \in 0 .. MaxRows
<1> DEFINE B == Batch(from)
           below(m) == {j \in Present : from <= j /\ j < m}
<1>1. IsFiniteSet(Ids) /\ Ids \subseteq Nat
  BY AuditAssumption, FS_Interval DEF Ids
<1>2. /\ B \subseteq Ids /\ Present \subseteq Ids
      /\ \A m \in B : Cardinality(below(m)) < MaxRows
      /\ \A m \in B : m \in Present /\ m >= from
  BY SetsOfIds DEF Batch
<1>3. IsFiniteSet(B) /\ IsFiniteSet(S) /\ \A m \in B : IsFiniteSet(below(m))
  BY <1>1, <1>2, FS_Subset
<1>4. Cardinality(S) \in Nat /\ Cardinality(S) <= Cardinality(B)
  BY <1>3, FS_Subset, FS_CardinalityType
<1>5. Cardinality(B) <= MaxRows
  <2>1. CASE B = {}
    BY <2>1, FS_EmptySet, AuditAssumption
  <2>2. CASE B # {}
    <3>1. PICK m \in B : \A y \in B : y <= m
      BY <1>2, <2>2, MaxOf
    <3>2. B \subseteq below(m) \cup {m} /\ m \notin below(m)
      <4>1. ASSUME NEW y \in B, y # m PROVE y \in below(m)
        <5>1. y \in Nat /\ m \in Nat /\ y <= m /\ y >= from /\ y \in Present
          BY <1>1, <1>2, <3>1
        <5> QED
          BY <4>1, <5>1
      <4>2. m \in Nat
        BY <1>1, <1>2
      <4>3. m \notin below(m)
        BY <4>2
      <4> QED
        BY <4>1, <4>3
    <3> HIDE DEF B, below
    <3>3. /\ IsFiniteSet(below(m) \cup {m})
          /\ Cardinality(below(m) \cup {m}) = Cardinality(below(m)) + 1
      BY <1>3, <3>2, FS_AddElement
    <3>4. Cardinality(B) <= Cardinality(below(m) \cup {m})
      BY <3>2, <3>3, FS_Subset
    <3>5. Cardinality(below(m)) < MaxRows /\ Cardinality(below(m)) \in Nat
      BY <1>2, <1>3, FS_CardinalityType
    <3>6. Cardinality(B) \in Nat
      BY <1>3, FS_CardinalityType
    <3> QED
      BY <3>3, <3>4, <3>5, <3>6, AuditAssumption
  <2> QED
    BY <2>1, <2>2
<1>6. Cardinality(B) \in Nat
  BY <1>3, FS_CardinalityType
<1> HIDE DEF B
<1> QED
  BY <1>4, <1>5, <1>6, AuditAssumption

\* The parts of the loop of verify_audit_chain, by name.
WalkPrev(v, i) ==
  LET earlier == {j \in Batch(tick[v].from) : j < i}
  IN  IF earlier = {} THEN tick[v].prev ELSE log[Max(earlier)].row_hash

WalkBad(v) == {i \in Batch(tick[v].from) : ~ Matches(i, WalkPrev(v, i))}

WalkGood(v) ==
  IF WalkBad(v) = {} THEN Batch(tick[v].from)
  ELSE {j \in Batch(tick[v].from) : j < Min(WalkBad(v))}

\* What the loop reports.
LEMMA WalkResult ==
  ASSUME AuditInv, NEW v \in Verifiers, WalkChain(v)
  PROVE  /\ tick'[v] \in Ticks
         /\ tick'[v].at = "walked"
         /\ tick'[v].checked = Cardinality(WalkGood(v))
         /\ tick'[v].last = IF WalkGood(v) = {} THEN tick[v].from ELSE Max(WalkGood(v))
         /\ tick'[v].broken = IF WalkBad(v) = {} THEN 0 ELSE Min(WalkBad(v))
         /\ \A u \in Verifiers \ {v} : tick'[u] = tick[u]
         /\ vouched' = vouched \cup {i \in WalkGood(v) : ~ Altered(i)}
         /\ UNCHANGED <<db, pointer, alarm, damage>>
<1> DEFINE last == IF WalkGood(v) = {} THEN tick[v].from ELSE Max(WalkGood(v))
           broken == IF WalkBad(v) = {} THEN 0 ELSE Min(WalkBad(v))
           checked == Cardinality(WalkGood(v))
<1>1. /\ tick' = [tick EXCEPT ![v] = [Idle EXCEPT !.at = "walked", !.checked = checked,
                                                  !.last = last, !.broken = broken]]
      /\ vouched' = vouched \cup {i \in WalkGood(v) : ~ Altered(i)}
      /\ UNCHANGED <<db, pointer, alarm, damage>>
  BY DEF WalkChain, WalkGood, WalkBad, WalkPrev
<1>2. tick \in [Verifiers -> Ticks] /\ tick[v].from \in 0 .. MaxId
  BY DEF AuditInv, TypeOK, Ticks
<1>3. /\ WalkBad(v) \subseteq Batch(tick[v].from)
      /\ WalkGood(v) \subseteq Batch(tick[v].from)
      /\ Batch(tick[v].from) \subseteq Ids
  BY <1>2, SetsOfIds, AuditAssumption DEF WalkBad, WalkGood
<1>4. checked \in 0 .. MaxRows
  BY <1>2, <1>3, BatchSize, AuditAssumption
<1>5. last \in 0 .. MaxId /\ broken \in 0 .. MaxId
  BY <1>2, <1>3, MaxOf, MinOf, AuditAssumption DEF Ids
<1> HIDE DEF last, broken, checked
<1>6. Idle \in Ticks
  BY AuditAssumption DEF Idle, Ticks
<1> DEFINE t == [Idle EXCEPT !.at = "walked", !.checked = checked, !.last = last,
                             !.broken = broken]
<1>7. /\ t \in Ticks /\ t.at = "walked"
      /\ t.checked = checked /\ t.last = last /\ t.broken = broken
  BY <1>4, <1>5, <1>6 DEF Ticks
<1> QED
  BY <1>1, <1>2, <1>7 DEF last, broken, checked

\* NULL is a hash, and no row is a row.
LEMMA NoRowTyped ==
  /\ NoRow \in Rows /\ NoRow.content = Forged /\ NoRow.row_hash = <<>>
  /\ NoRows \in [Ids -> Rows] /\ \A i \in Ids : NoRows[i] = NoRow
BY DEF NoRow, Rows, NoRows, Forged

\* audit_log_insert_with_chain adds the row nextId to those w has in flight.
LEMMA InsertFacts ==
  ASSUME AuditInv, NEW w \in Writers, InsertWithChain(w)
  PROVE  /\ nextId \in Ids /\ nextId' = nextId + 1
         /\ pending' \in [Writers -> [Ids -> Rows]]
         /\ pending'[w][nextId].content = nextId
         /\ pending'[w][nextId].row_hash = Append(HeadSeenBy(w), nextId)
         /\ \A i \in Ids \ {nextId} : pending'[w][i] = pending[w][i]
         /\ \A x \in Writers \ {w} : pending'[x] = pending[x] /\ InFlight(x) = {}
         /\ \A i \in Ids : i \in InFlight(w)' <=> i = nextId \/ i \in InFlight(w)
         /\ \A x \in Writers \ {w} : InFlight(x)' = {}
<1> DEFINE r == [content |-> nextId, row_hash |-> Hash(HeadSeenBy(w), nextId)]
<1>1. nextId \in Ids /\ pending' = [pending EXCEPT ![w] = [@ EXCEPT ![nextId] = r]]
  BY DEF InsertWithChain
<1>2. pending \in [Writers -> [Ids -> Rows]] /\ HeadSeenBy(w) \in Seq(Ids)
  BY HeadTyped DEF AuditInv, TypeOK
<1>3. Append(HeadSeenBy(w), nextId) \in Seq(Ids)
  BY <1>1, <1>2
<1>4. /\ r \in Rows /\ r.content = nextId
      /\ r.row_hash = Append(HeadSeenBy(w), nextId)
  BY <1>1, <1>3 DEF Rows, Hash
<1> HIDE DEF r
<1>5. r # NoRow
  BY <1>1, <1>4, NoRowTyped DEF Ids, Forged
<1>6. /\ pending'[w] = [pending[w] EXCEPT ![nextId] = r]
      /\ \A x \in Writers \ {w} : pending'[x] = pending[x]
  BY <1>1, <1>2
<1>7. /\ pending'[w][nextId] = r /\ \A i \in Ids \ {nextId} : pending'[w][i] = pending[w][i]
      /\ pending' \in [Writers -> [Ids -> Rows]]
  BY <1>1, <1>2, <1>4, <1>6
<1>8. \A i \in Ids : i \in InFlight(w)' <=> i = nextId \/ i \in InFlight(w)
  BY <1>1, <1>5, <1>7 DEF InFlight
<1>9. \A x \in Writers \ {w} : InFlight(x) = {} /\ InFlight(x)' = {}
  BY <1>6 DEF InsertWithChain, ChainFree, InFlight
<1>10. nextId' = nextId + 1
  BY DEF InsertWithChain
<1> QED
  BY <1>1, <1>4, <1>6, <1>7, <1>8, <1>9, <1>10

\* The end of a transaction, either way, leaves no row in flight.
LEMMA EndFacts ==
  ASSUME AuditInv, NEW w \in Writers, CommitRows(w) \/ RollBack(w)
  PROVE  /\ InFlight(w) # {} /\ nextId' = nextId
         /\ pending' \in [Writers -> [Ids -> Rows]]
         /\ \A x \in Writers : InFlight(x)' = {}
<1>1. InFlight(w) # {} /\ nextId' = nextId /\ pending' = [pending EXCEPT ![w] = NoRows]
  BY DEF CommitRows, RollBack
<1>2. pending \in [Writers -> [Ids -> Rows]]
  BY DEF AuditInv, TypeOK
<1>3. /\ pending'[w] = NoRows /\ \A x \in Writers \ {w} : pending'[x] = pending[x]
      /\ pending' \in [Writers -> [Ids -> Rows]]
  BY <1>1, <1>2, NoRowTyped
<1>4. \A x \in Writers \ {w} : InFlight(x) = {}
  BY <1>1 DEF AuditInv, InFlightAbove
<1>5. \A x \in Writers : InFlight(x)' = {}
  BY <1>3, <1>4, NoRowTyped DEF InFlight
<1> QED
  BY <1>1, <1>3, <1>5

\* A commit adds the rows in flight to the log.
LEMMA CommitFacts ==
  ASSUME AuditInv, NEW w \in Writers, CommitRows(w)
  PROVE  /\ log' \in [Ids -> Rows] /\ written' \in [Ids -> Rows]
         /\ \A i \in InFlight(w) : written'[i] = pending[w][i] /\ log'[i] = pending[w][i]
         /\ \A i \in Ids \ InFlight(w) : written'[i] = written[i] /\ log'[i] = log[i]
         /\ \A i \in Ids : i \in Committed' <=> i \in Committed \/ i \in InFlight(w)
         /\ head' = pending[w][Max(InFlight(w))].row_hash
         /\ Max(InFlight(w)) \in InFlight(w)
         /\ \A i \in InFlight(w) : i <= Max(InFlight(w))
<1>1. InFlight(w) # {} /\ InFlight(w) \subseteq Ids
  BY SetsOfIds DEF CommitRows
<1>2. /\ log' = [i \in Ids |-> IF i \in InFlight(w) THEN pending[w][i] ELSE log[i]]
      /\ written' = [i \in Ids |-> IF i \in InFlight(w) THEN pending[w][i] ELSE written[i]]
  BY DEF CommitRows
<1>3. /\ pending[w] \in [Ids -> Rows] /\ log \in [Ids -> Rows] /\ written \in [Ids -> Rows]
  BY DEF AuditInv, TypeOK
<1>4. /\ \A i \in InFlight(w) : written'[i] = pending[w][i] /\ log'[i] = pending[w][i]
      /\ \A i \in Ids \ InFlight(w) : written'[i] = written[i] /\ log'[i] = log[i]
  BY <1>1, <1>2
<1>5. log' \in [Ids -> Rows] /\ written' \in [Ids -> Rows]
  BY <1>2, <1>3
<1>6. \A i \in Ids : i \in Committed' <=> i \in Committed \/ i \in InFlight(w)
  BY <1>4 DEF Committed, InFlight
<1>7. head' = pending[w][Max(InFlight(w))].row_hash
  BY <1>1 DEF CommitRows, HeadSeenBy
<1> QED
  BY <1>1, <1>4, <1>5, <1>6, <1>7, MaxOf

\* TypeOK: hashes are sequences of contents, and a tick checks at most MaxRows rows.
LEMMA TypeStep ==
  AuditInv /\ [Next]_vars => TypeOK'
<1> SUFFICES ASSUME AuditInv, [Next]_vars PROVE TypeOK'
  OBVIOUS
<1>1. TypeOK
  BY DEF AuditInv
<1>2. CASE UNCHANGED vars
  BY <1>1, <1>2 DEF TypeOK, vars, db
<1>3. ASSUME NEW w \in Writers, InsertWithChain(w) PROVE TypeOK'
  <2>1. nextId' \in 1 .. MaxId + 1 /\ pending' \in [Writers -> [Ids -> Rows]]
    BY <1>3, InsertFacts, AuditAssumption DEF Ids
  <2> QED
    BY <1>1, <1>3, <2>1 DEF InsertWithChain, TypeOK
<1>4. ASSUME NEW w \in Writers, CommitRows(w) PROVE TypeOK'
  <2>1. head' \in Seq(Ids)
    BY <1>4, HeadTyped DEF CommitRows
  <2>2. /\ pending' \in [Writers -> [Ids -> Rows]]
        /\ log' \in [Ids -> Rows] /\ written' \in [Ids -> Rows]
    BY <1>4, EndFacts, CommitFacts
  <2> QED
    BY <1>1, <1>4, <2>1, <2>2 DEF CommitRows, TypeOK
<1>5. ASSUME NEW w \in Writers, RollBack(w) PROVE TypeOK'
  <2>1. pending' \in [Writers -> [Ids -> Rows]]
    BY <1>5, EndFacts
  <2> QED
    BY <1>1, <1>5, <2>1 DEF RollBack, TypeOK
<1>6. Idle \in Ticks
  BY AuditAssumption DEF Idle, Ticks
<1>7. ASSUME NEW v \in Verifiers, TickStep(v) \/ FailTick(v) PROVE TypeOK'
  <2>1. CASE ReadPointer(v)
    <3>1. [Idle EXCEPT !.at = "called", !.from = pointer] \in Ticks
      BY <1>1, <1>6 DEF TypeOK, Ticks
    <3> QED
      BY <1>1, <2>1, <3>1 DEF ReadPointer, TypeOK, db
  <2>2. CASE SeedWalk(v)
    <3>1. tick[v] \in Ticks /\ tick[v].from \in Int /\ Present \subseteq Ids
      <4>1. tick[v] \in Ticks
        BY <1>1 DEF TypeOK
      <4>2. tick[v].from \in Int
        BY <4>1, AuditAssumption DEF Ticks
      <4> QED
        BY <1>1, <4>1, <4>2, SetsOfIds
    <3>2. SeedHash(tick[v].from) \in Seq(Ids)
      <4>1. SeedHash(tick[v].from) = HashBefore(log, Present, tick[v].from)
        BY DEF SeedHash, HashBefore
      <4> QED
        BY <1>1, <3>1, <4>1, HashTyped DEF TypeOK
    <3>3. [tick[v] EXCEPT !.at = "seeded", !.prev = SeedHash(tick[v].from)] \in Ticks
      BY <3>1, <3>2 DEF Ticks
    <3>4. tick' = [tick EXCEPT ![v] = [@ EXCEPT !.at = "seeded",
                                                !.prev = SeedHash(tick[v].from)]]
      BY <2>2 DEF SeedWalk
    <3>5. tick' \in [Verifiers -> Ticks]
      BY <1>1, <3>3, <3>4 DEF TypeOK
    <3> QED
      BY <1>1, <2>2, <3>5 DEF SeedWalk, TypeOK, db
  <2>3. CASE WalkChain(v)
    <3>1. tick' \in [Verifiers -> Ticks]
      BY <1>1, <2>3, WalkResult DEF TypeOK, WalkChain
    <3>2. vouched' \subseteq Ids
      <4>1. tick[v].from \in Int /\ WalkGood(v) \subseteq Batch(tick[v].from)
        BY <1>1, AuditAssumption DEF TypeOK, Ticks, WalkGood
      <4> QED
        BY <1>1, <2>3, <4>1, WalkResult, SetsOfIds DEF TypeOK
    <3> QED
      BY <1>1, <2>3, <3>1, <3>2 DEF WalkChain, TypeOK, db
  <2>4. CASE EndTick(v)
    <3>1. tick[v] \in Ticks
      BY <1>1 DEF TypeOK
    <3>2. pointer' \in 0 .. MaxId /\ alarm' \in 0 .. MaxId
      BY <1>1, <2>4, <3>1 DEF TypeOK, EndTick, Ticks
    <3> QED
      BY <1>1, <1>6, <2>4, <3>2 DEF EndTick, TypeOK, db
  <2>5. CASE FailTick(v)
    BY <1>1, <1>6, <2>5 DEF FailTick, TypeOK, db
  <2> QED
    BY <1>7, <2>1, <2>2, <2>3, <2>4, <2>5 DEF TickStep
<1>8. ASSUME NEW i \in Ids, AlterRow(i) \/ RemoveRow(i) \/ RepairRow(i) PROVE TypeOK'
  <2>1. log[i] \in Rows /\ written[i] \in Rows
    BY <1>1 DEF TypeOK
  <2>2. [log[i] EXCEPT !.content = Forged] \in Rows
    BY <2>1 DEF Rows
  <2>3. PICK r \in Rows : log' = [log EXCEPT ![i] = r]
    <3>1. CASE AlterRow(i)
      BY <2>2, <3>1 DEF AlterRow, Tamper
    <3>2. CASE RemoveRow(i) \/ RepairRow(i)
      BY <2>1, <3>2, NoRowTyped DEF RemoveRow, RepairRow, Tamper
    <3> QED
      BY <1>8, <3>1, <3>2
  <2>4. log' \in [Ids -> Rows] /\ damage' \in 0 .. MaxDamage
    BY <1>1, <1>8, <2>3, AuditAssumption DEF AlterRow, RemoveRow, RepairRow, Tamper, TypeOK
  <2> QED
    BY <1>1, <1>8, <2>4 DEF AlterRow, RemoveRow, RepairRow, Tamper, TypeOK
<1> QED
  BY <1>2, <1>3, <1>4, <1>5, <1>7, <1>8 DEF Next

-----------------------------------------------------------------------------
(* Writing keeps the chain linked.                                         *)

\* Only the writers change what is committed or in flight.
LEMMA WritersOnly ==
  ASSUME [Next]_vars
  PROVE  \/ \E w \in Writers : InsertWithChain(w) \/ CommitRows(w) \/ RollBack(w)
         \/ UNCHANGED <<head, nextId, pending, written>>
<1>1. CASE UNCHANGED vars
  BY <1>1 DEF vars, db
<1>2. ASSUME NEW v \in Verifiers, TickStep(v) \/ FailTick(v)
      PROVE  UNCHANGED <<head, nextId, pending, written>>
  BY <1>2 DEF TickStep, FailTick, ReadPointer, SeedWalk, WalkChain, EndTick, db
<1>3. ASSUME NEW i \in Ids, AlterRow(i) \/ RemoveRow(i) \/ RepairRow(i)
      PROVE  UNCHANGED <<head, nextId, pending, written>>
  BY <1>3 DEF AlterRow, RemoveRow, RepairRow, Tamper
<1> QED
  BY <1>1, <1>2, <1>3 DEF Next

\* InFlightAbove: the id is drawn with the lock on audit_chain_state held.
LEMMA InFlightStep ==
  AuditInv /\ [Next]_vars => InFlightAbove'
<1> SUFFICES ASSUME AuditInv, [Next]_vars PROVE InFlightAbove'
  OBVIOUS
<1>1. InFlightAbove /\ nextId \in Nat /\ Committed \subseteq Ids /\ Ids \subseteq Nat
  BY SetsOfIds, AuditAssumption DEF AuditInv, TypeOK, Ids
<1>2. ASSUME NEW w \in Writers, InsertWithChain(w) PROVE InFlightAbove'
  <2>1. Committed' = Committed
    BY <1>2 DEF InsertWithChain, Committed
  <2>2. \A x \in Writers : InFlight(x)' # {} => x = w
    BY <1>2, InsertFacts
  <2>3. \A i \in InFlight(w)' : i = nextId \/ i \in InFlight(w)
    BY <1>2, InsertFacts DEF InFlight
  <2>4. \A i \in InFlight(w)' : i < nextId' /\ \A c \in Committed' : c < i
    <3>1. \A i \in InFlight(w) : i \in Nat /\ i < nextId /\ \A c \in Committed : c < i
      BY <1>1, SetsOfIds DEF InFlightAbove
    <3> QED
      BY <1>1, <1>2, <2>1, <2>3, <3>1, InsertFacts DEF InFlightAbove
  <2>5. \A c \in Committed' : c < nextId'
    BY <1>1, <1>2, <2>1, InsertFacts DEF InFlightAbove
  <2> QED
    BY <2>2, <2>4, <2>5 DEF InFlightAbove
<1>3. ASSUME NEW w \in Writers, CommitRows(w) \/ RollBack(w) PROVE InFlightAbove'
  <2>1. nextId' = nextId /\ \A x \in Writers : InFlight(x)' = {}
    BY <1>3, EndFacts
  <2>2. \A c \in Committed' : c \in Committed \/ c \in InFlight(w)
    <3>1. CASE CommitRows(w)
      BY <3>1, CommitFacts DEF Committed
    <3>2. CASE RollBack(w)
      BY <3>2 DEF RollBack, Committed
    <3> QED
      BY <1>3, <3>1, <3>2
  <2>3. \A c \in Committed' : c < nextId'
    BY <1>1, <2>1, <2>2 DEF InFlightAbove
  <2> QED
    BY <2>1, <2>3 DEF InFlightAbove
<1>4. CASE UNCHANGED <<head, nextId, pending, written>>
  BY <1>1, <1>4 DEF InFlightAbove, InFlight, Committed
<1> QED
  BY <1>2, <1>3, <1>4, WritersOnly

\* The hash before i is the hash before n when no row lies between.
LEMMA HashEnd ==
  ASSUME NEW rows, NEW S, NEW i, NEW n, \A c \in S : c < i <=> c < n
  PROVE  HashBefore(rows, S, i) = HashBefore(rows, S, n)
<1>1. {j \in S : j < i} = {j \in S : j < n}
  OBVIOUS
<1> QED
  BY <1>1 DEF HashBefore

\* A row hashed over the last of a chain extends it.
LEMMA LinkedExtend ==
  ASSUME NEW rows, NEW S \in SUBSET Ids, NEW base, Linked(rows, S, base),
         NEW n \in Ids, \A j \in S : j < n,
         NEW new, \A j \in S : new[j] = rows[j], new[n].content = n,
         new[n].row_hash = Append(IF S = {} THEN base ELSE rows[Max(S)].row_hash, n),
         NEW T, T = S \cup {n}
  PROVE  Linked(new, T, base)
<1>1. T \in SUBSET Ids /\ Ids \subseteq Int
  BY DEF Ids
<1> SUFFICES ASSUME NEW i \in T
             PROVE  /\ new[i].content = i
                    /\ new[i].row_hash =
                         Append(IF \E j \in T : j < i THEN HashBefore(new, T, i) ELSE base, i)
  BY DEF Linked
<1>2. CASE i = n
  <2>1. CASE S = {}
    <3>1. ~ \E j \in T : j < i
      BY <1>1, <1>2, <2>1
    <3> QED
      BY <1>2, <2>1, <3>1
  <2>2. CASE S # {}
    <3>1. PICK m \in S : m = Max(S) /\ \A y \in S : y <= m
      BY <2>2, MaxOf
    <3>2. LastBefore(T, i, m) /\ i \in Int
      BY <1>1, <1>2, <3>1 DEF LastBefore
    <3>3. HashBefore(new, T, i) = new[m].row_hash
      BY <1>1, <3>2, HashPrev
    <3>4. \E j \in T : j < i
      BY <1>2, <3>1
    <3> QED
      BY <1>2, <2>2, <3>1, <3>3, <3>4
  <2> QED
    BY <2>1, <2>2
<1>3. CASE i # n
  <2>1. i \in S /\ i \in Int /\ i < n /\ n \in Int
    BY <1>1, <1>3
  <2>2. SameBefore(rows, S, new, T, i)
    BY <1>1, <2>1 DEF SameBefore
  <2>3. HashBefore(new, T, i) = HashBefore(rows, S, i)
    BY <1>1, <2>1, <2>2, HashKept
  <2>4. (\E j \in T : j < i) <=> (\E j \in S : j < i)
    BY <1>1, <2>2 DEF SameBefore
  <2> QED
    BY <2>1, <2>3, <2>4 DEF Linked
<1> QED
  BY <1>2, <1>3

\* The chain T, with the rows more, continues the chain S before n; the rows new of
\* U are both.
Continues(rows, S, more, T, n, new, U) ==
  /\ \A i \in T : \A c \in S : c < i
  /\ \A c \in S : c < n
  /\ \A i \in S : new[i] = rows[i]
  /\ \A i \in T : new[i] = more[i]
  /\ \A i \in Ids : i \in U <=> i \in S \/ i \in T

\* Two chains of which one continues the other make one chain.
LEMMA LinkedJoin ==
  ASSUME NEW rows, NEW S \in SUBSET Ids, Linked(rows, S, <<>>), NEW n \in Int,
         NEW more, NEW T \in SUBSET Ids, Linked(more, T, HashBefore(rows, S, n)),
         NEW new, NEW U \in SUBSET Ids, Continues(rows, S, more, T, n, new, U)
  PROVE  Linked(new, U, <<>>)
<1>1. Ids \subseteq Int
  BY DEF Ids
<1> SUFFICES ASSUME NEW i \in U
             PROVE  /\ new[i].content = i
                    /\ new[i].row_hash =
                         Append(IF \E j \in U : j < i THEN HashBefore(new, U, i) ELSE <<>>, i)
  BY DEF Linked
<1>2. i \in Int /\ ((\E j \in U : j < i) \/ HashBefore(new, U, i) = <<>>)
  BY <1>1, HashFirst
<1>3. CASE i \in S
  <2>1. SameBefore(rows, S, new, U, i)
    BY <1>1, <1>3 DEF SameBefore, Continues
  <2>2. HashBefore(new, U, i) = HashBefore(rows, S, i)
    BY <1>2, <2>1, HashKept
  <2>3. (\E j \in U : j < i) <=> (\E j \in S : j < i)
    BY <2>1 DEF SameBefore
  <2>4. new[i] = rows[i]
    BY <1>3 DEF Continues
  <2> QED
    BY <1>3, <2>2, <2>3, <2>4 DEF Linked
<1>4. CASE i \in T
  <2>1. new[i] = more[i]
    BY <1>4 DEF Continues
  <2>2. CASE \E j \in T : j < i
    <3>1. PICK k \in T : LastBefore(T, i, k) /\ HashBefore(more, T, i) = more[k].row_hash
      BY <1>2, <2>2, HashCases
    <3>2. LastBefore(U, i, k)
      BY <1>1, <3>1 DEF LastBefore, Continues
    <3>3. HashBefore(new, U, i) = new[k].row_hash
      BY <1>2, <3>2, HashPrev
    <3>4. new[k] = more[k] /\ \E j \in U : j < i
      BY <3>1, <3>2 DEF Continues, LastBefore
    <3>5. HashBefore(new, U, i) = HashBefore(more, T, i)
      BY <3>1, <3>3, <3>4
    <3>6. /\ more[i].content = i
          /\ more[i].row_hash = Append(HashBefore(more, T, i), i)
      BY <1>4, <2>2 DEF Linked
    <3> QED
      BY <2>1, <3>4, <3>5, <3>6
  <2>3. CASE ~ \E j \in T : j < i
    <3>1. SameBefore(rows, S, new, U, i)
      BY <1>1, <1>4, <2>3 DEF SameBefore, Continues
    <3>2. HashBefore(new, U, i) = HashBefore(rows, S, i)
      BY <1>2, <3>1, HashKept
    <3>3. \A c \in S : c < i /\ c < n
      BY <1>4 DEF Continues
    <3>4. HashBefore(rows, S, i) = HashBefore(rows, S, n)
      BY <1>2, <3>3, HashEnd
    <3>5. /\ more[i].content = i
          /\ more[i].row_hash = Append(HashBefore(rows, S, n), i)
      BY <1>4, <2>3 DEF Linked
    <3> QED
      BY <1>2, <2>1, <3>2, <3>4, <3>5
  <2> QED
    BY <2>2, <2>3
<1> QED
  BY <1>3, <1>4 DEF Continues

\* ChainLinked: audit_log_insert_with_chain hashes over the last hash it sees, and
\* a commit publishes its rows and that hash together.
LEMMA ChainStep ==
  AuditInv /\ [Next]_vars => ChainLinked'
<1> SUFFICES ASSUME AuditInv, [Next]_vars PROVE ChainLinked'
  OBVIOUS
<1>1. /\ ChainLinked /\ InFlightAbove /\ nextId \in Int
      /\ Committed \subseteq Ids /\ Ids \subseteq Int
  BY SetsOfIds, AuditAssumption DEF AuditInv, TypeOK, Ids
<1>2. ASSUME NEW w \in Writers, InsertWithChain(w) PROVE ChainLinked'
  <2>1. UNCHANGED <<head, written>> /\ Committed' = Committed
    BY <1>2 DEF InsertWithChain, Committed
  <2>2. nextId \in Ids /\ nextId' = nextId + 1
    BY <1>2, InsertFacts
  <2>3. head' = HashBefore(written', Committed', nextId')
    <3>1. \A c \in Committed : c < nextId /\ c < nextId + 1
      BY <1>1 DEF InFlightAbove
    <3>2. HashBefore(written, Committed, nextId) = HashBefore(written, Committed, nextId + 1)
      <4> DEFINE C == Committed
      <4>1. C \in SUBSET Ids /\ nextId + 1 \in Int /\ \A c \in C : c < nextId /\ c < nextId + 1
        BY <1>1, <3>1
      <4> HIDE DEF C
      <4>2. HashBefore(written, C, nextId) = HashBefore(written, C, nextId + 1)
        BY <1>1, <4>1, HashEnd
      <4> QED
        BY <4>2 DEF C
    <3> QED
      BY <1>1, <2>1, <2>2, <3>2 DEF ChainLinked
  <2>4. Linked(pending'[w], InFlight(w)', head')
    <3> DEFINE F == InFlight(w)
               old == pending[w]
               new == pending'[w]
    <3>1. /\ F \subseteq Ids /\ Linked(old, F, head) /\ \A j \in F : j < nextId
          /\ nextId \notin F
      BY <1>1, SetsOfIds DEF ChainLinked, InFlightAbove
    <3>2. /\ \A j \in F : new[j] = old[j]
          /\ new[nextId].content = nextId
          /\ new[nextId].row_hash =
               Append(IF F = {} THEN head ELSE old[Max(F)].row_hash, nextId)
      BY <1>2, <3>1, InsertFacts DEF HeadSeenBy
    <3>3. InFlight(w)' = F \cup {nextId}
      BY <1>2, <3>1, InsertFacts DEF InFlight
    <3> HIDE DEF F, old, new
    <3>4. Linked(new, F \cup {nextId}, head)
      BY <2>2, <3>1, <3>2, LinkedExtend
    <3> QED
      BY <2>1, <3>3, <3>4 DEF new
  <2>5. \A x \in Writers : Linked(pending'[x], InFlight(x)', head')
    <3>1. \A x \in Writers \ {w} : InFlight(x)' = {}
      BY <1>2, InsertFacts
    <3> QED
      BY <2>4, <3>1 DEF Linked
  <2> QED
    BY <1>1, <2>1, <2>3, <2>5 DEF ChainLinked
<1>3. ASSUME NEW w \in Writers, CommitRows(w) PROVE ChainLinked'
  <2> DEFINE F == InFlight(w)
             m == Max(F)
             U == Committed'
             more == pending[w]
  <2>1. /\ F \subseteq Ids /\ U \subseteq Ids /\ nextId' = nextId
        /\ \A i \in F : written'[i] = more[i]
        /\ \A i \in Committed : written'[i] = written[i]
        /\ \A i \in Ids : i \in U <=> i \in Committed \/ i \in F
        /\ m \in F /\ (\A i \in F : i <= m) /\ head' = more[m].row_hash
    <3>1. \A i \in Committed : i \notin F /\ i \in Ids
      BY <1>1 DEF InFlightAbove
    <3> QED
      BY <1>3, <3>1, CommitFacts, EndFacts, SetsOfIds DEF Committed
  <2>2. /\ Linked(written, Committed, <<>>)
        /\ Linked(more, F, HashBefore(written, Committed, nextId))
        /\ \A i \in F : i < nextId /\ \A c \in Committed : c < i
        /\ \A c \in Committed : c < nextId
    BY <1>1 DEF ChainLinked, InFlightAbove
  <2> DEFINE C == Committed
  <2>3. /\ C \in SUBSET Ids /\ F \in SUBSET Ids /\ U \in SUBSET Ids
        /\ Linked(written, C, <<>>) /\ Linked(more, F, HashBefore(written, C, nextId))
        /\ Continues(written, C, more, F, nextId, written', U)
    BY <1>1, <2>1, <2>2 DEF Continues
  <2> HIDE DEF F, m, U, more, C
  <2>4. Linked(written', U, <<>>)
    BY <1>1, <2>3, LinkedJoin
  <2>5. head' = HashBefore(written', U, nextId)
    <3>1. LastBefore(U, nextId, m)
      BY <1>1, <2>1, <2>2 DEF LastBefore
    <3>2. HashBefore(written', U, nextId) = written'[m].row_hash
      BY <1>1, <2>3, <3>1, HashPrev
    <3> QED
      BY <2>1, <3>2
  <2>6. \A x \in Writers : InFlight(x)' = {}
    BY <1>3, EndFacts
  <2> QED
    BY <2>1, <2>4, <2>5, <2>6 DEF ChainLinked, Linked, U
<1>4. ASSUME NEW w \in Writers, RollBack(w) PROVE ChainLinked'
  <2>1. UNCHANGED <<head, written, nextId>> /\ Committed' = Committed
    BY <1>4 DEF RollBack, Committed
  <2>2. \A x \in Writers : InFlight(x)' = {}
    BY <1>4, EndFacts
  <2>3. \A x \in Writers : Linked(pending'[x], InFlight(x)', head')
    BY <2>2 DEF Linked
  <2> QED
    BY <1>1, <2>1, <2>3 DEF ChainLinked
<1>5. CASE UNCHANGED <<head, nextId, pending, written>>
  BY <1>1, <1>5 DEF ChainLinked, InFlight, Committed
<1> QED
  BY <1>2, <1>3, <1>4, <1>5, WritersOnly

-----------------------------------------------------------------------------
(* The log, and what stays true of it.                                     *)

\* A committed row keeps its hash, new rows come after it, and what was vouched for
\* stays so.
LEMMA ChainGrows ==
  ASSUME AuditInv, [Next]_vars
  PROVE  /\ Committed \in SUBSET Ids /\ Committed' \in SUBSET Ids
         /\ Committed \subseteq Committed' /\ vouched \subseteq vouched'
         /\ \A q \in Committed : written'[q] = written[q]
         /\ \A c \in Committed' \ Committed : \A q \in Committed : q < c
         /\ damage \in Nat /\ (damage' = 0 => damage = 0)
<1>1. Committed \in SUBSET Ids /\ Committed' \in SUBSET Ids
  BY DEF Committed
<1>2. ASSUME NEW w \in Writers, CommitRows(w)
      PROVE  /\ Committed \subseteq Committed'
             /\ \A q \in Committed : written'[q] = written[q]
             /\ \A c \in Committed' \ Committed : \A q \in Committed : q < c
  <2>1. \A i \in InFlight(w) : i \in Ids /\ i \notin Committed /\ \A q \in Committed : q < i
    BY <1>1, SetsOfIds DEF AuditInv, InFlightAbove, Ids
  <2> QED
    BY <1>1, <1>2, <2>1, CommitFacts
<1>3. ASSUME UNCHANGED written
      PROVE  /\ Committed' = Committed
             /\ \A q \in Committed : written'[q] = written[q]
  BY <1>3 DEF Committed
<1>4. (\E w \in Writers : CommitRows(w)) \/ UNCHANGED written
  BY WritersOnly DEF InsertWithChain, RollBack
<1>5. vouched \subseteq vouched'
  BY DEF Next, vars, InsertWithChain, CommitRows, RollBack, TickStep, FailTick, ReadPointer,
         SeedWalk, WalkChain, EndTick, AlterRow, RemoveRow, RepairRow, Tamper
<1>6. damage \in Nat /\ (damage' = damage \/ damage' = damage + 1)
  <2>1. damage \in Nat
    BY DEF AuditInv, TypeOK
  <2>2. damage' = damage \/ damage' = damage + 1
    BY DEF Next, vars, InsertWithChain, CommitRows, RollBack, TickStep, FailTick, ReadPointer,
           SeedWalk, WalkChain, EndTick, AlterRow, RemoveRow, RepairRow, Tamper
  <2> QED
    BY <2>1, <2>2
<1>7. damage' = 0 => damage = 0
  BY <1>6
<1> QED
  BY <1>1, <1>2, <1>3, <1>4, <1>5, <1>6, <1>7

\* What a tick has learnt of the rows up to p stays true.
LEMMA CoveredKept ==
  ASSUME AuditInv, [Next]_vars, NEW p, CoveredIn(Committed, vouched, p)
  PROVE  /\ CoveredIn(Committed', vouched', p)
         /\ HashBefore(written', Committed', p) = HashBefore(written, Committed, p)
<1> DEFINE C == Committed
           D == Committed'
<1>1. /\ C \in SUBSET Ids /\ D \in SUBSET Ids /\ C \subseteq D /\ vouched \subseteq vouched'
      /\ \A q \in C : written'[q] = written[q]
      /\ \A c \in D \ C : \A q \in C : q < c
  BY ChainGrows
<1>2. (p = 0 \/ p \in C) /\ \A i \in C : i <= p => i \in vouched
  BY DEF CoveredIn
<1> HIDE DEF C, D
<1>3. p \in Int /\ \A i \in Ids : i \in Int /\ i > 0
  <2>1. \A i \in Ids : i \in Int /\ i > 0
    BY DEF Ids
  <2> QED
    BY <1>1, <1>2, <2>1
<1>4. \A i \in D : i <= p => i \in C
  BY <1>1, <1>2, <1>3
<1>5. CoveredIn(D, vouched', p)
  BY <1>1, <1>2, <1>4 DEF CoveredIn
<1>6. SameBefore(written, C, written', D, p)
  BY <1>1, <1>3, <1>4 DEF SameBefore
<1>7. HashBefore(written', D, p) = HashBefore(written, C, p)
  BY <1>1, <1>3, <1>6, HashKept
<1> QED
  BY <1>5, <1>7 DEF C, D

\* LogSound: the triggers forbid UPDATE and DELETE, so that only a fault changes a
\* committed row, and no fault changes a row_hash.
LEMMA LogStep ==
  AuditInv /\ [Next]_vars => LogSound'
<1> SUFFICES ASSUME AuditInv, [Next]_vars PROVE LogSound'
  OBVIOUS
<1>1. LogSound /\ ChainLinked /\ log \in [Ids -> Rows] /\ written \in [Ids -> Rows]
  BY DEF AuditInv, TypeOK
<1>2. ASSUME UNCHANGED <<log, written, damage>> PROVE LogSound'
  BY <1>1, <1>2 DEF LogSound, Present, Committed
<1>3. ASSUME NEW w \in Writers, CommitRows(w) PROVE LogSound'
  <2>1. /\ log' \in [Ids -> Rows] /\ written' \in [Ids -> Rows]
        /\ \A i \in InFlight(w) : written'[i] = pending[w][i] /\ log'[i] = pending[w][i]
        /\ \A i \in Ids \ InFlight(w) : written'[i] = written[i] /\ log'[i] = log[i]
        /\ \A i \in Ids : i \in Committed' <=> i \in Committed \/ i \in InFlight(w)
    BY <1>3, CommitFacts
  <2>2. \A i \in InFlight(w) : pending[w][i].content = i
    BY <1>1 DEF ChainLinked, Linked
  <2>3. \A i \in Present' : /\ i \in Committed'
                            /\ log'[i].row_hash = written'[i].row_hash
                            /\ log'[i].content \in {i, Forged}
    BY <1>1, <2>1, <2>2 DEF LogSound, Present
  <2>4. damage' = 0 => log' = written'
    <3>1. damage' = damage
      BY <1>3 DEF CommitRows
    <3>2. damage = 0 => \A i \in Ids : log'[i] = written'[i]
      BY <1>1, <2>1 DEF LogSound
    <3> QED
      BY <2>1, <3>1, <3>2
  <2> QED
    BY <2>3, <2>4 DEF LogSound
<1>4. ASSUME NEW i \in Ids, AlterRow(i) \/ RemoveRow(i) \/ RepairRow(i) PROVE LogSound'
  <2>1. /\ UNCHANGED written /\ damage' # 0 /\ Committed' = Committed
        /\ \A j \in Ids \ {i} : log'[j] = log[j]
    BY <1>1, <1>4, ChainGrows
       DEF AlterRow, RemoveRow, RepairRow, Tamper, Committed
  <2>2. i \in Present' => /\ i \in Committed
                          /\ log'[i].row_hash = written[i].row_hash
                          /\ log'[i].content \in {i, Forged}
    <3>1. CASE AlterRow(i)
      <4>1. i \in Present /\ log[i] \in Rows /\ log'[i] = [log[i] EXCEPT !.content = Forged]
        BY <1>1, <3>1 DEF AlterRow, Tamper
      <4>2. log'[i].row_hash = log[i].row_hash /\ log'[i].content = Forged
        BY <4>1 DEF Rows
      <4> QED
        BY <1>1, <4>1, <4>2 DEF LogSound
    <3>2. CASE RemoveRow(i)
      BY <1>1, <3>2 DEF RemoveRow, Tamper, Present
    <3>3. CASE RepairRow(i)
      <4>1. log'[i] = written[i]
        BY <1>1, <3>3 DEF RepairRow, Tamper
      <4> QED
        BY <1>1, <4>1 DEF Present, Committed, ChainLinked, Linked
    <3> QED
      BY <1>4, <3>1, <3>2, <3>3
  <2>3. \A j \in Present' : /\ j \in Committed'
                            /\ log'[j].row_hash = written'[j].row_hash
                            /\ log'[j].content \in {j, Forged}
    BY <1>1, <2>1, <2>2 DEF LogSound, Present
  <2> QED
    BY <2>1, <2>3 DEF LogSound
<1>5. ASSUME NEW w \in Writers, InsertWithChain(w) \/ RollBack(w) PROVE LogSound'
  BY <1>2, <1>5 DEF InsertWithChain, RollBack
<1>6. ASSUME NEW v \in Verifiers, TickStep(v) \/ FailTick(v) PROVE LogSound'
  BY <1>2, <1>6 DEF TickStep, FailTick, ReadPointer, SeedWalk, WalkChain, EndTick, db
<1>7. CASE UNCHANGED vars
  BY <1>2, <1>7 DEF vars, db
<1> QED
  BY <1>3, <1>4, <1>5, <1>6, <1>7 DEF Next

-----------------------------------------------------------------------------
(* The walk of verify_audit_chain.                                         *)

\* The hash of a committed row, as a chain.
LEMMA CommittedHash ==
  ASSUME AuditInv, NEW i \in Committed
  PROVE  /\ i \in Ids /\ i \in Int
         /\ HashBefore(written, Committed, i) \in Seq(Ids)
         /\ written[i].content = i
         /\ written[i].row_hash = Append(HashBefore(written, Committed, i), i)
<1> DEFINE C == Committed
<1>1. C \in SUBSET Ids /\ i \in Ids /\ i \in Int
  BY SetsOfIds DEF Ids
<1>2. written \in [Ids -> Rows] /\ Linked(written, C, <<>>) /\ i \in C
  BY DEF AuditInv, TypeOK, ChainLinked
<1> HIDE DEF C
<1>3. HashBefore(written, C, i) \in Seq(Ids)
  BY <1>1, <1>2, HashTyped
<1>4. (\E j \in C : j < i) \/ HashBefore(written, C, i) = <<>>
  BY HashFirst
<1>5. /\ written[i].content = i
      /\ written[i].row_hash = Append(HashBefore(written, C, i), i)
  BY <1>2, <1>4 DEF Linked
<1> QED
  BY <1>1, <1>3, <1>5 DEF C

\* A hash names the row it is the hash of, and is never NULL.
LEMMA HashNames ==
  ASSUME AuditInv, NEW k \in Committed
  PROVE  /\ written[k].row_hash # <<>> /\ written[k].row_hash \in Seq(Ids)
         /\ \A m \in Committed : written[k].row_hash = written[m].row_hash => k = m
<1>1. /\ k \in Ids /\ HashBefore(written, Committed, k) \in Seq(Ids)
      /\ written[k].row_hash = Append(HashBefore(written, Committed, k), k)
  BY CommittedHash
<1>2. written[k].row_hash # <<>> /\ written[k].row_hash \in Seq(Ids)
  BY <1>1, AppendProperties
<1>3. ASSUME NEW m \in Committed, written[k].row_hash = written[m].row_hash PROVE k = m
  <2>1. /\ m \in Ids /\ HashBefore(written, Committed, m) \in Seq(Ids)
        /\ written[m].row_hash = Append(HashBefore(written, Committed, m), m)
    BY CommittedHash
  <2> DEFINE pk == HashBefore(written, Committed, k)
             pm == HashBefore(written, Committed, m)
  <2>2. pk \in Seq(Ids) /\ pm \in Seq(Ids) /\ Append(pk, k) = Append(pm, m)
    BY <1>1, <1>3, <2>1
  <2> HIDE DEF pk, pm
  <2> QED
    BY <1>1, <2>1, <2>2, AppendInjective
<1> QED
  BY <1>2, <1>3

\* A row that matches is as it was written, and was walked to from the row that
\* precedes it in the chain.
LEMMA MatchFacts ==
  ASSUME AuditInv, NEW i \in Present, NEW prev \in Seq(Ids), Matches(i, prev)
  PROVE  /\ i \in Committed /\ ~ Altered(i)
         /\ prev = HashBefore(written, Committed, i)
<1> DEFINE S == Ids \cup {Forged}
           P == HashBefore(written, Committed, i)
<1>1. i \in Committed /\ log[i].row_hash = written[i].row_hash /\ log[i].content \in {i, Forged}
  BY DEF AuditInv, LogSound
<1>2. /\ i \in Ids /\ P \in Seq(Ids) /\ written[i].content = i
      /\ written[i].row_hash = Append(P, i)
  BY <1>1, CommittedHash
<1>3. Append(prev, log[i].content) = Append(P, i)
  BY <1>1, <1>2 DEF Matches, Hash
<1> HIDE DEF P
<1>4. P \in Seq(S) /\ prev \in Seq(S) /\ i \in S /\ log[i].content \in S
  BY <1>1, <1>2
<1> HIDE DEF S
<1>5. prev = P /\ log[i].content = i
  BY <1>3, <1>4, AppendInjective
<1>6. log[i] \in Rows /\ written[i] \in Rows
  BY <1>2 DEF AuditInv, TypeOK
<1>7. log[i] = written[i]
  <2>1. PICK r \in Rows, q \in Rows : r = log[i] /\ q = written[i]
    BY <1>6
  <2>2. r.content = q.content /\ r.row_hash = q.row_hash
    BY <1>1, <1>2, <1>5, <2>1
  <2>3. r = q
    BY <2>2 DEF Rows
  <2> QED
    BY <2>1, <2>3
<1> QED
  BY <1>1, <1>5, <1>7 DEF Altered, P

\* The hash the loop compares a row with: the seed, or that of the row read before.
LEMMA WalkPrevFacts ==
  ASSUME AuditInv, NEW v \in Verifiers, NEW B, B = Batch(tick[v].from), NEW i \in B
  PROVE  /\ WalkPrev(v, i) \in Seq(Ids)
         /\ \/ (\A j \in B : ~ (j < i)) /\ WalkPrev(v, i) = tick[v].prev
            \/ \E k \in B : /\ LastBefore(B, i, k) /\ k \in Committed
                            /\ WalkPrev(v, i) = log[k].row_hash
                            /\ WalkPrev(v, i) = written[k].row_hash
<1> DEFINE earlier == {j \in B : j < i}
<1>1. tick[v].from \in Int /\ tick[v].prev \in Seq(Ids)
  BY AuditAssumption DEF AuditInv, TypeOK, Ticks
<1>2. B \subseteq Present /\ B \subseteq Ids
  BY <1>1, SetsOfIds
<1>3. WalkPrev(v, i) = IF earlier = {} THEN tick[v].prev ELSE log[Max(earlier)].row_hash
  BY DEF WalkPrev
<1>4. CASE earlier = {}
  BY <1>1, <1>3, <1>4
<1>5. CASE earlier # {}
  <2>1. PICK k \in earlier : k = Max(earlier) /\ \A y \in earlier : y <= k
    BY <1>2, <1>5, MaxOf
  <2>2. LastBefore(B, i, k)
    BY <2>1 DEF LastBefore
  <2>3. k \in Committed /\ log[k].row_hash = written[k].row_hash
    BY <1>2, <2>1 DEF AuditInv, LogSound
  <2>4. written[k].row_hash \in Seq(Ids)
    BY <2>3, HashNames
  <2> QED
    BY <1>3, <1>5, <2>1, <2>2, <2>3, <2>4
<1> QED
  BY <1>4, <1>5

\* When the loop finds nothing wrong, every committed row up to any row of the batch
\* was vouched for before, or was read now and is as it was written.
LEMMA WalkCovers ==
  ASSUME AuditInv, NEW v \in Verifiers, tick[v].at = "seeded", WalkBad(v) = {},
         NEW m \in Batch(tick[v].from), NEW i \in Committed, i <= m
  PROVE  i \in vouched \/ (i \in Batch(tick[v].from) /\ ~ Altered(i))
<1> DEFINE from == tick[v].from
           B == Batch(from)
           C == Committed
<1>1. from \in Int /\ Covered(from)
  BY AuditAssumption DEF AuditInv, TypeOK, Ticks, TicksSound
<1>2. /\ B \subseteq Present /\ B \subseteq Ids /\ C \in SUBSET Ids
      /\ \A j \in Ids : j \in Int
  <2>1. \A j \in Ids : j \in Int
    BY DEF Ids
  <2> QED
    BY <1>1, <2>1, SetsOfIds
<1>3. \A j \in B : /\ ~ Altered(j) /\ j \in C
                   /\ WalkPrev(v, j) = HashBefore(written, C, j)
  <2>1. ASSUME NEW j \in B PROVE Matches(j, WalkPrev(v, j)) /\ WalkPrev(v, j) \in Seq(Ids)
    BY WalkPrevFacts DEF WalkBad
  <2> QED
    BY <1>2, <2>1, MatchFacts
<1>4. CASE i <= from
  BY <1>1, <1>4 DEF Covered, CoveredIn
<1>5. CASE i \in B
  BY <1>3, <1>5
<1>6. ASSUME i > from, i \notin B PROVE FALSE
  <2>1. PICK j \in B : j >= i /\ \A y \in B : y >= i => j <= y
    <3> DEFINE R == {y \in B : y >= i}
    <3>1. R \subseteq Nat /\ m \in R
      BY <1>2 DEF Ids
    <3>2. \E j \in R : \A y \in R : j <= y
      BY <3>1, LeastNatural
    <3> QED
      BY <3>2
  <2>2. j \in Int /\ i \in Int /\ i < j
    BY <1>2, <1>6, <2>1
  <2>3. PICK q \in C : LastBefore(C, j, q) /\ HashBefore(written, C, j) = written[q].row_hash
    BY <1>2, <2>2, HashCases
  <2>4. i <= q /\ q \in Int
    BY <1>2, <2>2, <2>3 DEF LastBefore
  <2>5. WalkPrev(v, j) = written[q].row_hash /\ WalkPrev(v, j) # <<>>
    BY <1>3, <2>3, HashNames
  <2>6. ASSUME NEW k \in B, LastBefore(B, j, k), k \in C,
               WalkPrev(v, j) = written[k].row_hash
        PROVE  FALSE
    <3>1. k = q
      BY <2>3, <2>5, <2>6, HashNames
    <3>2. k < j /\ j <= k
      BY <2>1, <2>4, <2>6, <3>1 DEF LastBefore
    <3> QED
      BY <2>2, <2>4, <3>1, <3>2
  <2>7. ASSUME WalkPrev(v, j) = tick[v].prev PROVE FALSE
    <3>1. PICK p \in C : p < from /\ tick[v].prev = written[p].row_hash
      BY <2>5, <2>7 DEF AuditInv, TicksSound
    <3>2. p = q
      BY <2>3, <2>5, <2>7, <3>1, HashNames
    <3>3. from \in Int /\ from < i
      BY <1>1, <1>6
    <3>4. i \in Int /\ q \in Int /\ i <= q /\ q < from
      BY <2>2, <2>4, <3>1, <3>2
    <3> QED
      BY <3>3, <3>4
  <2> QED
    BY <2>6, <2>7, WalkPrevFacts
<1> QED
  BY <1>1, <1>2, <1>4, <1>5, <1>6

\* ORDER BY id LIMIT: a batch leaves out no row before one that it has.
LEMMA BatchPrefix ==
  ASSUME NEW from \in Int, NEW i \in Batch(from), NEW j \in Present, from <= j, j < i
  PROVE  j \in Batch(from)
<1> DEFINE below(m) == {y \in Present : from <= y /\ y < m}
<1>1. IsFiniteSet(Ids) /\ Present \subseteq Ids /\ \A y \in Ids : y \in Int
  BY AuditAssumption, SetsOfIds, FS_Interval DEF Ids
<1>2. i \in Present /\ Cardinality(below(i)) < MaxRows
  BY DEF Batch
<1>3. below(j) \subseteq below(i)
  BY <1>1, <1>2
<1>4. IsFiniteSet(below(i)) /\ IsFiniteSet(below(j))
  BY <1>1, FS_Subset
<1>5. /\ Cardinality(below(j)) \in Nat /\ Cardinality(below(i)) \in Nat
      /\ Cardinality(below(j)) <= Cardinality(below(i))
  BY <1>3, <1>4, FS_Subset, FS_CardinalityType
<1>6. Cardinality(below(j)) < MaxRows
  BY <1>2, <1>5, AuditAssumption
<1>7. j >= from
  BY <1>1
<1> QED
  BY <1>6, <1>7 DEF Batch

\* In a log nobody has touched, every row of the batch matches.
LEMMA WalkQuiet ==
  ASSUME AuditInv, NEW v \in Verifiers, tick[v].at = "seeded", damage = 0
  PROVE  WalkBad(v) = {}
<1> DEFINE from == tick[v].from
           B == Batch(from)
           C == Committed
<1>1. /\ from \in Int /\ log = written
      /\ tick[v].prev = HashBefore(written, C, from)
  BY AuditAssumption DEF AuditInv, TypeOK, Ticks, TicksSound, LogSound
<1>2. Present = C
  BY <1>1 DEF Present, Committed
<1>3. C \in SUBSET Ids /\ B \subseteq C /\ \A y \in Ids : y \in Int
  <2>1. \A y \in Ids : y \in Int
    BY DEF Ids
  <2> QED
    BY <1>1, <1>2, <2>1, SetsOfIds
<1>4. \A i \in B : from <= i
  BY <1>1, <1>3 DEF Batch
<1>5. ASSUME NEW i \in B PROVE Matches(i, WalkPrev(v, i))
  <2>1. \A j \in C : from <= j /\ j < i => j \in B
    BY <1>1, <1>2, BatchPrefix
  <2>2. i \in Int /\ from <= i
    BY <1>3, <1>4
  <2>3. WalkPrev(v, i) = HashBefore(written, C, i)
    <3>1. CASE (\A j \in B : ~ (j < i)) /\ WalkPrev(v, i) = tick[v].prev
      <4>1. \A j \in C : j < i <=> j < from
        BY <1>1, <1>3, <2>1, <2>2, <3>1
      <4> HIDE DEF C, from
      <4>2. HashBefore(written, C, i) = HashBefore(written, C, from)
        BY <4>1, HashEnd
      <4> QED
        BY <1>1, <3>1, <4>2
    <3>2. ASSUME NEW k \in B, LastBefore(B, i, k), WalkPrev(v, i) = written[k].row_hash
          PROVE  WalkPrev(v, i) = HashBefore(written, C, i)
      <4>1. k \in Int /\ from <= k
        BY <1>3, <1>4
      <4>2. LastBefore(C, i, k)
        BY <1>1, <1>3, <2>1, <2>2, <3>2, <4>1 DEF LastBefore
      <4> HIDE DEF C
      <4>3. HashBefore(written, C, i) = written[k].row_hash
        BY <1>3, <2>2, <4>2, HashPrev
      <4> QED
        BY <3>2, <4>3
    <3> QED
      BY <3>1, <3>2, WalkPrevFacts
  <2>4. /\ written[i].content = i
        /\ written[i].row_hash = Append(HashBefore(written, C, i), i)
    BY <1>3, CommittedHash
  <2> QED
    BY <1>1, <2>3, <2>4 DEF Matches, Hash
<1> QED
  BY <1>5 DEF WalkBad

-----------------------------------------------------------------------------
(* The ticks.                                                              *)

\* What TicksSound says of one tick t.
TickSound(t, committed, good, rows, touched) ==
  /\ t.at \in {"called", "seeded"} => CoveredIn(committed, good, t.from)
  /\ t.at = "seeded" =>
       \/ t.prev = <<>>
       \/ \E q \in committed : q < t.from /\ t.prev = rows[q].row_hash
  /\ t.at = "seeded" /\ ~ touched => t.prev = HashBefore(rows, committed, t.from)
  /\ t.at = "walked" /\ Advances(t) => CoveredIn(committed, good, t.last)

\* TicksSound, tick by tick.
LEMMA TicksSoundMeans ==
  /\ TicksSound <=> \A v \in Verifiers :
       TickSound(tick[v], Committed, vouched, written, damage # 0)
  /\ TicksSound' <=> \A v \in Verifiers :
       TickSound(tick'[v], Committed', vouched', written', damage' # 0)
BY DEF TicksSound, TickSound, Covered

\* A tick that takes no step is as sound as it was.
LEMMA TickKept ==
  ASSUME AuditInv, [Next]_vars, NEW t, TickSound(t, Committed, vouched, written, damage # 0)
  PROVE  TickSound(t, Committed', vouched', written', damage' # 0)
<1>1. \A p : CoveredIn(Committed, vouched, p) =>
        /\ CoveredIn(Committed', vouched', p)
        /\ HashBefore(written', Committed', p) = HashBefore(written, Committed, p)
  BY CoveredKept
<1>2. /\ Committed \subseteq Committed' /\ (damage' = 0 => damage = 0)
      /\ \A q \in Committed : written'[q] = written[q]
  BY ChainGrows
<1>3. t.at = "seeded" => \/ t.prev = <<>>
                         \/ \E q \in Committed' : q < t.from /\ t.prev = written'[q].row_hash
  BY <1>2 DEF TickSound
<1> QED
  BY <1>1, <1>2, <1>3 DEF TickSound

\* An idle tick knows nothing.
LEMMA IdleSound ==
  ASSUME NEW C, NEW V, NEW rows, NEW touched
  PROVE  TickSound(Idle, C, V, rows, touched)
BY DEF TickSound, Idle

\* TicksSound: the pointer is read and written outside any transaction, and the rows
\* of a batch are seeded and walked by separate queries.
LEMMA TicksStep ==
  AuditInv /\ [Next]_vars => TicksSound'
<1> SUFFICES ASSUME AuditInv, [Next]_vars PROVE TicksSound'
  OBVIOUS
<1> DEFINE Sound(t) == TickSound(t, Committed', vouched', written', damage' # 0)
<1>1. tick \in [Verifiers -> Ticks] /\ \A v \in Verifiers : Sound(tick[v])
  BY TicksSoundMeans, TickKept DEF AuditInv, TypeOK
<1>2. \A p : CoveredIn(Committed, vouched, p) => CoveredIn(Committed', vouched', p)
  BY CoveredKept
<1>3. ASSUME NEW v \in Verifiers, TickStep(v) \/ FailTick(v) PROVE Sound(tick'[v])
  <2>1. CASE ReadPointer(v)
    <3>1. tick'[v] = [Idle EXCEPT !.at = "called", !.from = pointer]
      BY <1>1, <2>1 DEF ReadPointer
    <3>2. tick'[v].at = "called" /\ tick'[v].from = pointer
      BY <3>1 DEF Idle
    <3>3. CoveredIn(Committed', vouched', pointer)
      BY <1>2 DEF AuditInv, Covered
    <3> QED
      BY <3>2, <3>3 DEF TickSound
  <2>2. CASE SeedWalk(v)
    <3> DEFINE from == tick[v].from
               prev == HashBefore(log, Present, from)
    <3>1. tick[v].at = "called" /\ tick[v] \in Ticks /\ from \in Int
      BY <1>1, <2>2, AuditAssumption DEF SeedWalk, Ticks
    <3>2. tick'[v] = [tick[v] EXCEPT !.at = "seeded", !.prev = prev]
      BY <1>1, <2>2 DEF SeedWalk, SeedHash, HashBefore
    <3>3. tick'[v].at = "seeded" /\ tick'[v].from = from /\ tick'[v].prev = prev
      BY <3>1, <3>2 DEF Ticks
    <3>4. UNCHANGED <<log, written, damage>> /\ Committed' = Committed
      BY <2>2 DEF SeedWalk, db, Committed
    <3>5. CoveredIn(Committed', vouched', from)
      BY <1>1, <3>1 DEF TickSound
    <3>6. prev = <<>> \/ \E q \in Committed : q < from /\ prev = written[q].row_hash
      <4> DEFINE P == Present
      <4>1. P \in SUBSET Ids /\ \A k \in P : k \in Committed /\ log[k].row_hash = written[k].row_hash
        BY SetsOfIds DEF AuditInv, LogSound
      <4> HIDE DEF P
      <4>2. \/ HashBefore(log, P, from) = <<>>
            \/ \E k \in P : LastBefore(P, from, k) /\ HashBefore(log, P, from) = log[k].row_hash
        BY <3>1, <4>1, HashCases
      <4> QED
        BY <4>1, <4>2 DEF LastBefore, P
    <3>7. damage = 0 => prev = HashBefore(written, Committed, from)
      <4>1. damage = 0 => log = written /\ Present = Committed
        BY DEF AuditInv, LogSound, Present, Committed
      <4> QED
        BY <4>1
    <3> HIDE DEF from, prev
    <3> QED
      BY <3>3, <3>4, <3>5, <3>6, <3>7 DEF TickSound
  <2>3. CASE WalkChain(v)
    <3> DEFINE B == Batch(tick[v].from)
    <3>1. /\ tick[v].at = "seeded" /\ tick'[v].at = "walked"
          /\ tick'[v].checked = Cardinality(WalkGood(v))
          /\ tick'[v].last = IF WalkGood(v) = {} THEN tick[v].from ELSE Max(WalkGood(v))
          /\ tick'[v].broken = IF WalkBad(v) = {} THEN 0 ELSE Min(WalkBad(v))
          /\ vouched' = vouched \cup {i \in WalkGood(v) : ~ Altered(i)}
          /\ Committed' = Committed /\ written' = written
      BY <2>3, WalkResult DEF WalkChain, db, Committed
    <3>2. ASSUME Advances(tick'[v]) PROVE CoveredIn(Committed', vouched', tick'[v].last)
      <4>1. tick[v].from \in Int /\ B \subseteq Ids /\ B \subseteq Present
        BY <1>1, SetsOfIds, AuditAssumption DEF Ticks
      <4>2. WalkBad(v) = {}
        <5>1. WalkBad(v) # {} => Min(WalkBad(v)) \in Ids
          BY <4>1, MinOf DEF WalkBad
        <5> QED
          BY <3>1, <3>2, <5>1 DEF Advances, Ids
      <4>3. WalkGood(v) = B
        BY <4>2 DEF WalkGood
      <4>4. B # {}
        BY <3>1, <3>2, <4>3, FS_EmptySet DEF Advances
      <4>5. PICK m \in B : m = tick'[v].last
        BY <3>1, <4>1, <4>3, <4>4, MaxOf
      <4>6. \A i \in Committed : i <= m => i \in vouched \/ (i \in B /\ ~ Altered(i))
        BY <3>1, <4>2, WalkCovers
      <4>7. m \in Committed
        BY <4>1 DEF AuditInv, LogSound
      <4> HIDE DEF B
      <4> QED
        BY <3>1, <4>3, <4>5, <4>6, <4>7 DEF CoveredIn
    <3> QED
      BY <3>1, <3>2 DEF TickSound
  <2>4. CASE EndTick(v) \/ FailTick(v)
    <3>1. tick'[v] = Idle
      BY <1>1, <2>4 DEF EndTick, FailTick
    <3> QED
      BY <3>1, IdleSound
  <2> QED
    BY <1>3, <2>1, <2>2, <2>3, <2>4 DEF TickStep
<1>4. ASSUME NEW v \in Verifiers, TickStep(v) \/ FailTick(v), NEW u \in Verifiers \ {v}
      PROVE  tick'[u] = tick[u]
  BY <1>1, <1>4 DEF TickStep, FailTick, ReadPointer, SeedWalk, WalkChain, EndTick
<1>5. \/ \E v \in Verifiers : TickStep(v) \/ FailTick(v)
      \/ tick' = tick
  BY DEF Next, vars, InsertWithChain, CommitRows, RollBack, AlterRow, RemoveRow, RepairRow, Tamper
<1>6. \A v \in Verifiers : Sound(tick'[v])
  BY <1>1, <1>3, <1>4, <1>5
<1> QED
  BY <1>6, TicksSoundMeans

\* The pointer is only moved to a row up to which everything was vouched for, also
\* when two verifiers write it one after the other.
LEMMA PointerStep ==
  AuditInv /\ [Next]_vars => Covered(pointer)'
<1> SUFFICES ASSUME AuditInv, [Next]_vars PROVE CoveredIn(Committed', vouched', pointer')
  BY DEF Covered
<1>1. \A p : CoveredIn(Committed, vouched, p) => CoveredIn(Committed', vouched', p)
  BY CoveredKept
<1>2. CoveredIn(Committed, vouched, pointer)
  BY DEF AuditInv, Covered
<1>3. ASSUME NEW v \in Verifiers, EndTick(v)
      PROVE  CoveredIn(Committed, vouched, pointer')
  BY <1>2, <1>3 DEF EndTick, AuditInv, TicksSound, Covered
<1>4. (\E v \in Verifiers : EndTick(v)) \/ pointer' = pointer
  BY DEF Next, vars, InsertWithChain, CommitRows, RollBack, TickStep, FailTick, ReadPointer,
         SeedWalk, WalkChain, AlterRow, RemoveRow, RepairRow, Tamper
<1> QED
  BY <1>1, <1>2, <1>3, <1>4

\* NoFalseAlarm: a walk over an untouched log reports nothing.
LEMMA AlarmStep ==
  AuditInv /\ [Next]_vars => NoFalseAlarm'
<1> SUFFICES ASSUME AuditInv, [Next]_vars, damage' = 0
             PROVE  alarm' = 0 /\ \A v \in Verifiers : tick'[v].broken = 0
  BY DEF NoFalseAlarm
<1>1. damage = 0 /\ tick \in [Verifiers -> Ticks]
  BY ChainGrows DEF AuditInv, TypeOK
<1>2. alarm = 0 /\ \A v \in Verifiers : tick[v].broken = 0
  BY <1>1 DEF AuditInv, NoFalseAlarm
<1>3. ASSUME NEW v \in Verifiers, ReadPointer(v) \/ EndTick(v) \/ FailTick(v)
      PROVE  tick'[v].broken = 0
  <2>1. Idle.broken = 0 /\ [Idle EXCEPT !.at = "called", !.from = pointer].broken = 0
    BY DEF Idle
  <2>2. \/ tick'[v] = Idle
        \/ tick'[v] = [Idle EXCEPT !.at = "called", !.from = pointer]
    BY <1>1, <1>3 DEF ReadPointer, EndTick, FailTick
  <2> QED
    BY <2>1, <2>2
<1>4. ASSUME NEW v \in Verifiers, SeedWalk(v) PROVE tick'[v].broken = 0
  <2>1. tick'[v] = [tick[v] EXCEPT !.at = "seeded", !.prev = SeedHash(tick[v].from)]
    BY <1>1, <1>4 DEF SeedWalk
  <2>2. tick[v] \in Ticks
    BY <1>1
  <2>3. tick'[v].broken = tick[v].broken
    BY <2>1, <2>2 DEF Ticks
  <2> QED
    BY <1>2, <2>3
<1>5. ASSUME NEW v \in Verifiers, WalkChain(v) PROVE tick'[v].broken = 0
  <2>1. WalkBad(v) = {}
    BY <1>1, <1>5, WalkQuiet DEF WalkChain
  <2> QED
    BY <1>5, <2>1, WalkResult
<1>6. ASSUME NEW v \in Verifiers, TickStep(v) \/ FailTick(v)
      PROVE  alarm' = 0 /\ \A u \in Verifiers : tick'[u].broken = 0
  <2>1. \A u \in Verifiers \ {v} : tick'[u] = tick[u]
    BY <1>1, <1>6 DEF TickStep, FailTick, ReadPointer, SeedWalk, WalkChain, EndTick
  <2>2. tick'[v].broken = 0
    BY <1>3, <1>4, <1>5, <1>6 DEF TickStep
  <2>3. alarm' = 0
    BY <1>2, <1>6 DEF TickStep, FailTick, ReadPointer, SeedWalk, WalkChain, EndTick
  <2> QED
    BY <1>2, <2>1, <2>2, <2>3
<1>7. \/ \E v \in Verifiers : TickStep(v) \/ FailTick(v)
      \/ UNCHANGED <<tick, alarm>>
  BY DEF Next, vars, InsertWithChain, CommitRows, RollBack, AlterRow, RemoveRow, RepairRow, Tamper
<1> QED
  BY <1>2, <1>6, <1>7

-----------------------------------------------------------------------------
(* Theorems.                                                               *)

\* The empty log satisfies the invariant.
LEMMA AuditInit == Init => AuditInv
<1> SUFFICES ASSUME Init PROVE AuditInv
  OBVIOUS
<1>1. Idle \in Ticks /\ <<>> \in Seq(Ids)
  BY AuditAssumption DEF Idle, Ticks
<1>2. TypeOK
  BY <1>1, NoRowTyped, AuditAssumption DEF Init, TypeOK
<1>3. /\ Present = {} /\ Committed = {} /\ \A w \in Writers : InFlight(w) = {}
  BY NoRowTyped DEF Init, Present, Committed, InFlight
<1>4. InFlightAbove
  BY <1>3 DEF InFlightAbove
<1>5. ChainLinked
  BY <1>3, HashFirst DEF ChainLinked, Linked, Init
<1>6. LogSound
  BY <1>3 DEF LogSound, Init
<1>7. Covered(pointer)
  BY <1>3 DEF Covered, CoveredIn, Init
<1>8. \A v \in Verifiers : tick[v] = Idle /\ tick[v].broken = 0
  BY DEF Init, Idle
<1>9. TicksSound
  BY <1>8, IdleSound, TicksSoundMeans
<1>10. NoFalseAlarm
  BY <1>8 DEF NoFalseAlarm, Init
<1> QED
  BY <1>2, <1>4, <1>5, <1>6, <1>7, <1>9, <1>10 DEF AuditInv

\* The invariant holds in every reachable state.
LEMMA AuditInvariant == Spec => []AuditInv
<1>1. AuditInv /\ [Next]_vars => AuditInv'
  BY TypeStep, InFlightStep, ChainStep, LogStep, PointerStep, TicksStep, AlarmStep
     DEF AuditInv
<1> QED
  BY <1>1, AuditInit, PTL DEF Spec

\* The rows of core.audit_log, the pointer and the ticks keep their types; above all,
\* a tick checks at most MaxRows rows.
THEOREM AuditTyped == Spec => []TypeOK
<1>1. AuditInv => TypeOK
  BY DEF AuditInv
<1> QED
  BY <1>1, AuditInvariant, PTL

\* audit_log_insert_with_chain and verify_audit_chain agree about the chain: for any
\* number of writers, verifiers, roll-backs and failing ticks, no break is reported
\* in a log that nobody has touched.
THEOREM AlarmsAreReal == Spec => []NoFalseAlarm
<1>1. AuditInv => NoFalseAlarm
  BY DEF AuditInv
<1> QED
  BY <1>1, AuditInvariant, PTL

\* last_verified_audit_row_id, read and written outside the walk by concurrent ticks,
\* never passes a row that no tick has read as it had been written, even when rows
\* are altered, removed and repaired meanwhile.
THEOREM PointerVouched == Spec => []NothingSkipped
<1>1. AuditInv => NothingSkipped
  BY DEF AuditInv, Covered, CoveredIn, NothingSkipped
<1> QED
  BY <1>1, AuditInvariant, PTL

=============================================================================
