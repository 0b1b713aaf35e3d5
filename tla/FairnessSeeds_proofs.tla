------------------------ MODULE FairnessSeeds_proofs ------------------------
(***************************************************************************)
(* Theorems about the provably fair draws, for any number of players,      *)
(* concurrent calls, seeds, nonces and interrupted scripts.                *)
(*                                                                         *)
(* The inductive invariant says who may hold a seed number (the live row   *)
(* of one player, or history, never both), that a player's row is held by  *)
(* at most one draw, and how many nonces of each seed have been taken for  *)
(* good: while a draw is between next_nonce and its commit, one less than  *)
(* the row says.  What is taken is then handed out or lost, once.          *)
(*                                                                         *)
(* The last part proves the decoders' shuffles fair for every size: the    *)
(* selections are one to one with the picks, and the orders of a shoe are  *)
(* reached from equally many of them.                                      *)
(***************************************************************************)
EXTENDS FairnessSeeds, FiniteSetTheorems, TLAPS

-----------------------------------------------------------------------------
(* The inductive invariant.                                                *)

Clients == ClientSeeds \cup {"hex"}

\* Seed numbers in use have been generated; a number is the live seed of one
\* player at most, and never again once it is in the history.
SeedsDistinct ==
  /\ \A u \in Users :
       /\ seeds[u].seed <= generated
       /\ HasRow(u) <=> seeds[u].seed # 0
       /\ HasRow(u) => seeds[u].client \in Clients
  /\ \A u, v \in Users : HasRow(u) /\ seeds[u].seed = seeds[v].seed => u = v
  /\ \A h \in history : h.seed <= generated /\ \A u \in Users : seeds[u].seed # h.seed

\* A draw holds the row of an existing player, and no two draws hold the same.
OneDrawPerUser ==
  /\ \A d \in Drawers : drawing[d] # NoDraw => HasRow(drawing[d].user)
  /\ \A d, e \in Drawers :
       drawing[d] # NoDraw /\ drawing[e] # NoDraw /\ drawing[d].user = drawing[e].user
         => d = e

\* A draw of the player u has taken its nonce and has not committed.
Counted(u) == \E d \in Drawers : drawing[d].at = "counted" /\ drawing[d].user = u

\* The tickets of T that were drawn from the seed s.
From(T, s) == {x \in T : x.seed = s}

\* T has, of the seed s, the nonces 0 to n - 1, one ticket each.
DenseIn(T, s, n) ==
  /\ {x.nonce : x \in From(T, s)} = 0 .. n - 1
  /\ Cardinality(From(T, s)) = n

\* How many nonces of each seed have been taken.
DrawsDense ==
  /\ \A h \in history : DenseIn(Taken, h.seed, h.last_nonce)
  /\ \A u \in Users : HasRow(u) /\ ~ Counted(u) =>
       DenseIn(Taken, seeds[u].seed, seeds[u].nonce)
  /\ \A d \in Drawers : drawing[d].at = "counted" =>
       /\ seeds[drawing[d].user].nonce = drawing[d].nonce + 1
       /\ DenseIn(Taken, seeds[drawing[d].user].seed, drawing[d].nonce)

\* What a call has committed is handed out or lost, and not both.
HandedOnce ==
  /\ IsFiniteSet(tickets) /\ IsFiniteSet(committed) /\ IsFiniteSet(lost)
  /\ Cardinality(tickets) = draws
  /\ tickets \cap (committed \cup lost) = {} /\ committed \cap lost = {}

\* The seed of a ticket is its player's live one, or revealed in the history.
TicketsOwned ==
  \A x \in Taken :
    \/ seeds[x.user].seed = x.seed
    \/ \E h \in history : h.user = x.user /\ h.seed = x.seed /\ x.nonce < h.last_nonce

\* The seed force_rotate has still to audit is one of its own.
AuditPending ==
  /\ \A s \in byAdmin : s <= generated
  /\ script.pending # 0 => script.pending \in byAdmin \ audited
  /\ script.inserting => script.pending = 0
  /\ RotationsAudited

SeedsInv ==
  /\ TypeOK /\ SeedsDistinct /\ OneDrawPerUser
  /\ DrawsDense /\ HandedOnce /\ TicketsOwned /\ AuditPending

-----------------------------------------------------------------------------
(* Sets of tickets, apart from the state they belong to.                   *)

\* Dense is DenseIn of the nonces taken.
LEMMA DenseMeans == \A s, n : Dense(s, n) <=> DenseIn(Taken, s, n)
BY DEF Dense, DenseIn, From

\* A seed nothing was drawn from has no nonces.
LEMMA DenseUnused ==
  ASSUME NEW T, NEW s, \A x \in T : x.seed # s
  PROVE  DenseIn(T, s, 0)
<1>1. From(T, s) = {}
  BY DEF From
<1>2. 0 .. 0 - 1 = {}
  OBVIOUS
<1> QED
  BY <1>1, <1>2, FS_EmptySet DEF DenseIn

\* A ticket of another seed changes nothing.
LEMMA DenseOther ==
  ASSUME NEW T, NEW s, NEW n, NEW t, t.seed # s, DenseIn(T, s, n)
  PROVE  DenseIn(T \cup {t}, s, n)
<1>1. From(T \cup {t}, s) = From(T, s)
  BY DEF From
<1> QED
  BY <1>1 DEF DenseIn

\* The nonces drawn are the ones below n.
LEMMA DenseBelow ==
  ASSUME NEW T, NEW s, NEW n \in Nat, DenseIn(T, s, n), NEW x \in T, x.seed = s
  PROVE  x.nonce \in Nat /\ x.nonce < n
<1>1. x.nonce \in 0 .. n - 1
  BY DEF DenseIn, From
<1> QED
  BY <1>1

\* The ticket with the next nonce is a new one, and extends them by one.
LEMMA DenseNext ==
  ASSUME NEW T, IsFiniteSet(T), NEW s, NEW n \in Nat, DenseIn(T, s, n),
         NEW t, t.seed = s, t.nonce = n
  PROVE  t \notin T /\ DenseIn(T \cup {t}, s, n + 1)
<1>1. t \notin T
  BY DenseBelow
<1>2. From(T \cup {t}, s) = From(T, s) \cup {t}
  BY DEF From
<1>3. IsFiniteSet(From(T, s)) /\ t \notin From(T, s)
  BY <1>1, FS_Subset DEF From
<1>4. Cardinality(From(T \cup {t}, s)) = n + 1
  <2>1. Cardinality(From(T, s) \cup {t}) = Cardinality(From(T, s)) + 1
    BY <1>3, FS_AddElement
  <2>2. Cardinality(From(T, s)) = n
    BY DEF DenseIn
  <2> QED
    BY <1>2, <2>1, <2>2
<1>5. {x.nonce : x \in From(T \cup {t}, s)} = {x.nonce : x \in From(T, s)} \cup {n}
  BY <1>2
<1>6. (0 .. n - 1) \cup {n} = 0 .. (n + 1) - 1
  OBVIOUS
<1> QED
  BY <1>1, <1>4, <1>5, <1>6 DEF DenseIn

-----------------------------------------------------------------------------
(* What the parts of the invariant say, in the form the steps need.        *)

\* A draw is idle exactly when it is not between its statements.
LEMMA IdleDraw ==
  ASSUME TypeOK, NEW d \in Drawers
  PROVE  /\ drawing[d] = NoDraw <=> drawing[d].at = "idle"
         /\ drawing[d] # NoDraw => drawing[d] \in
              [at : {"locked", "counted"}, user : Users, nonce : 0 .. MaxNonce]
BY DEF TypeOK, NoDraw

\* When no draw holds the row of u, its nonces are all committed.
LEMMA UnlockedDense ==
  ASSUME SeedsInv, NEW u \in Users, HasRow(u), Unlocked(u)
  PROVE  DenseIn(Taken, seeds[u].seed, seeds[u].nonce)
<1>1. ~ Counted(u)
  BY IdleDraw DEF SeedsInv, Unlocked, Counted
<1> QED
  BY <1>1 DEF SeedsInv, DrawsDense

-----------------------------------------------------------------------------
(* Types and seed numbers.                                                 *)

SeedRows == [seed : 0 .. MaxSeeds, client : ClientSeeds \cup {"none", "hex"},
             nonce : 0 .. MaxNonce]

\* A rotation replaces one well-formed row by another, and the nonces of the row it
\* replaces are all committed.
LEMMA RotateTyped ==
  ASSUME SeedsInv, NEW u \in Users, RotateRow(u)
  PROVE  /\ generated \in Nat /\ generated' = generated + 1 /\ generated' \in SeedIds
         /\ seeds' \in [Users -> SeedRows]
         /\ \A v \in Users \ {u} : seeds'[v] = seeds[v]
         /\ seeds'[u].seed = generated' /\ seeds'[u].client = seeds[u].client
         /\ seeds'[u].nonce = 0
         /\ seeds[u].client \in Clients /\ seeds[u].seed \in SeedIds
         /\ seeds[u].seed <= generated /\ seeds[u].nonce \in 0 .. MaxNonce
         /\ DenseIn(Taken, seeds[u].seed, seeds[u].nonce)
<1>1. generated \in Nat /\ generated' = generated + 1 /\ generated' \in SeedIds
  BY SeedsAssumption DEF SeedsInv, TypeOK, RotateRow, Generate, SeedIds
<1>2. seeds \in [Users -> SeedRows] /\ seeds[u] \in SeedRows
  BY DEF SeedsInv, TypeOK, SeedRows
<1>3. /\ Fresh(seeds[u]) \in SeedRows /\ Fresh(seeds[u]).seed = generated'
      /\ Fresh(seeds[u]).client = seeds[u].client /\ Fresh(seeds[u]).nonce = 0
  <2>1. /\ generated + 1 \in 0 .. MaxSeeds /\ 0 \in 0 .. MaxNonce
        /\ generated' = generated + 1
    BY <1>1, SeedsAssumption DEF SeedIds
  <2> QED
    BY <2>1, <1>2 DEF Fresh, SeedRows
<1>4. /\ seeds[u].client \in Clients /\ seeds[u].seed # 0
      /\ seeds[u].seed <= generated
  BY DEF SeedsInv, SeedsDistinct, RotateRow
<1>5. DenseIn(Taken, seeds[u].seed, seeds[u].nonce)
  BY UnlockedDense DEF RotateRow
<1>6. seeds[u].seed \in SeedIds /\ seeds[u].nonce \in 0 .. MaxNonce
  BY <1>2, <1>4 DEF SeedRows, SeedIds
<1>7. /\ seeds' \in [Users -> SeedRows] /\ seeds'[u] = Fresh(seeds[u])
      /\ \A v \in Users \ {u} : seeds'[v] = seeds[v]
  BY <1>2, <1>3 DEF RotateRow
<1> QED
  BY <1>1, <1>3, <1>4, <1>5, <1>6, <1>7

\* TypeOK: every handler leaves well-formed rows.
LEMMA TypeStep ==
  SeedsInv /\ [Next]_vars => TypeOK'
<1> SUFFICES ASSUME SeedsInv, [Next]_vars PROVE TypeOK'
  OBVIOUS
<1> DEFINE Row == [seed : 0 .. MaxSeeds, client : ClientSeeds \cup {"none", "hex"},
                   nonce : 0 .. MaxNonce]
           Draw == [at : {"locked", "counted"}, user : Users, nonce : 0 .. MaxNonce]
           HistoryRow == [user : Users, seed : SeedIds, client : ClientSeeds \cup {"hex"},
                          last_nonce : 0 .. MaxNonce]
           CallRow == [at : {"ensure", "insert"}, user : Users]
<1>1. TypeOK
  BY DEF SeedsInv
<1>2. CASE UNCHANGED vars
  BY <1>1, <1>2 DEF TypeOK, vars, ops, answers
<1>3. ASSUME NEW u \in Users, RotateRow(u)
      PROVE  /\ seeds' \in [Users -> Row] /\ history' \subseteq HistoryRow
             /\ generated' \in 0 .. MaxSeeds
             /\ UNCHANGED <<drawing, answers>>
  <2>1. seeds' \in [Users -> Row] /\ generated' \in 0 .. MaxSeeds
    BY <1>3, RotateTyped DEF SeedRows, SeedIds
  <2>2. [user |-> u, seed |-> seeds[u].seed, client |-> seeds[u].client,
         last_nonce |-> seeds[u].nonce] \in HistoryRow
    BY <1>3, RotateTyped DEF Clients
  <2>3. history' \subseteq HistoryRow
    BY <2>2, <1>1, <1>3 DEF RotateRow, Archive, TypeOK
  <2> QED
    BY <2>1, <2>3, <1>3 DEF RotateRow
<1>4. ASSUME NEW u \in Users, InsertRow(u)
      PROVE  /\ seeds' \in [Users -> Row] /\ generated' \in 0 .. MaxSeeds
             /\ UNCHANGED <<history, drawing, answers>>
  BY <1>1, <1>4, SeedsAssumption DEF InsertRow, TypeOK, Generate
<1>4a. ASSUME NEW u \in Users, RotateRow(u) \/ InsertRow(u), SetByScript(u) PROVE TypeOK'
  <2>1. generated + 1 \in SeedIds
    BY <1>1, <1>4a, SeedsAssumption DEF RotateRow, InsertRow, Generate, TypeOK, SeedIds
  <2>2. script' \in [todo : SUBSET Users, inserting : BOOLEAN, pending : 0 .. MaxSeeds]
    BY <2>1, <1>1, <1>4a DEF SetByScript, TypeOK, SeedIds
  <2>3. byAdmin' \subseteq SeedIds
    BY <2>1, <1>1, <1>4a DEF SetByScript, TypeOK
  <2>4. seeds' \in [Users -> Row] /\ generated' \in 0 .. MaxSeeds
    BY <1>3, <1>4, <1>4a
  <2>5. history' \subseteq HistoryRow /\ UNCHANGED <<drawing, answers>>
    BY <1>1, <1>3, <1>4, <1>4a DEF TypeOK
  <2> QED
    BY <2>2, <2>3, <2>4, <2>5, <1>1, <1>4a DEF SetByScript, TypeOK, answers
<1>4b. ASSUME NEW u \in Users,
              Rotate(u) \/ ForceRotate(u) \/ ScriptFindsNoRow(u) \/ ScriptInserts(u)
       PROVE  TypeOK'
  <2>1. CASE Rotate(u)
    BY <2>1, <1>1, <1>3 DEF Rotate, ops, TypeOK, answers
  <2>2. CASE ForceRotate(u)
    BY <2>2, <1>4a DEF ForceRotate
  <2>3. CASE ScriptFindsNoRow(u)
    BY <2>3, <1>1 DEF ScriptFindsNoRow, TypeOK, answers
  <2>4. CASE ScriptInserts(u)
    <3>1. CASE InsertRow(u) /\ SetByScript(u)
      BY <3>1, <1>4a
    <3>2. CASE /\ script' = NoScript
               /\ UNCHANGED <<seeds, history, generated, drawing, calls, answers, byAdmin,
                              audited, crashes>>
      BY <3>2, <1>1, SeedsAssumption DEF TypeOK, answers, NoScript
    <3> QED
      BY <2>4, <3>1, <3>2 DEF ScriptInserts
  <2> QED
    BY <1>4b, <2>1, <2>2, <2>3, <2>4
<1>5. ASSUME NEW c \in Callers, NEW u \in Users,
             BeginEnsure(c, u) \/ EnsureRotates(c, u) \/ FindNoRow(c, u) \/ InsertFirst(c, u)
      PROVE  TypeOK'
  <2>1. calls' \in [Callers -> {NoCall} \cup CallRow]
    BY <1>1, <1>5 DEF TypeOK, BeginEnsure, EnsureRotates, FindNoRow, InsertFirst, Call
  <2>2. CASE BeginEnsure(c, u) \/ FindNoRow(c, u)
    BY <2>1, <2>2, <1>1 DEF BeginEnsure, FindNoRow, TypeOK, ops, answers
  <2>3. CASE EnsureRotates(c, u)
    BY <2>1, <2>3, <1>1, <1>3 DEF EnsureRotates, TypeOK, ops, answers
  <2>4. CASE InsertFirst(c, u)
    <3>1. seeds' \in [Users -> Row] /\ generated' \in 0 .. MaxSeeds
      BY <2>4, <1>1, <1>4 DEF InsertFirst, TypeOK
    <3>2. UNCHANGED <<history, drawing, answers>>
      BY <2>4, <1>4 DEF InsertFirst
    <3> QED
      BY <3>1, <3>2, <2>1, <2>4, <1>1 DEF InsertFirst, TypeOK, ops, answers
  <2> QED
    BY <1>5, <2>2, <2>3, <2>4
<1>6. ASSUME NEW u \in Users, NEW s \in ClientSeeds, SetClientSeed(u, s) PROVE TypeOK'
  <2>1. seeds' \in [Users -> Row]
    BY <1>1, <1>6 DEF SetClientSeed, TypeOK
  <2> QED
    BY <2>1, <1>1, <1>6 DEF SetClientSeed, TypeOK, ops, answers
<1>7. ASSUME NEW d \in Drawers, NEW u \in Users, LockSeed(d, u) PROVE TypeOK'
  <2>1. drawing' \in [Drawers -> {NoDraw} \cup Draw]
    BY <1>1, <1>7, SeedsAssumption DEF LockSeed, TypeOK
  <2> QED
    BY <2>1, <1>1, <1>7 DEF LockSeed, TypeOK, ops, answers
<1>8. ASSUME NEW d \in Drawers, NextNonce(d) PROVE TypeOK'
  <2>1. drawing[d] \in Draw /\ drawing[d].user \in Users
    BY <1>1, <1>8, IdleDraw DEF NextNonce
  <2>2. seeds[drawing[d].user] \in Row
    BY <2>1, <1>1 DEF TypeOK
  <2>3. drawing' \in [Drawers -> {NoDraw} \cup Draw]
    BY <1>1, <1>8, <2>1, <2>2 DEF NextNonce, NonceTaken, TypeOK
  <2>4. seeds' \in [Users -> Row]
    <3> DEFINE u == drawing[d].user
    <3>1. seeds[u].nonce + 1 \in 0 .. MaxNonce
      BY <1>8, <2>2, SeedsAssumption DEF NextNonce
    <3>2. seeds' = [seeds EXCEPT ![u] = [@ EXCEPT !.nonce = seeds[u].nonce + 1]]
      BY <1>8 DEF NextNonce
    <3>3. [seeds[u] EXCEPT !.nonce = seeds[u].nonce + 1] \in Row
      BY <3>1, <2>2
    <3> QED
      BY <3>2, <3>3, <2>1, <1>1 DEF TypeOK
  <2> QED
    BY <2>3, <2>4, <1>1, <1>8 DEF NextNonce, TypeOK, ops, answers
<1>9. ASSUME NEW d \in Drawers, CommitDraw(d) PROVE TypeOK'
  <2> DEFINE u == drawing[d].user
  <2>1. drawing[d] \in Draw /\ u \in Users
    BY <1>1, <1>9, IdleDraw DEF CommitDraw
  <2>2. HasRow(u) /\ seeds[u] \in Row
    BY <2>1, <1>1, <1>9, IdleDraw DEF TypeOK, SeedsInv, OneDrawPerUser, CommitDraw
  <2>3. seeds[u].client \in ClientSeeds \cup {"hex"} /\ seeds[u].seed \in SeedIds
    BY <2>1, <2>2 DEF SeedsInv, SeedsDistinct, Clients, SeedIds
  <2>4. committed' \subseteq Tickets
    <3>1. TicketOf(d) \in Tickets
      BY <2>1, <2>3 DEF TicketOf, Tickets
    <3> QED
      BY <3>1, <1>1, <1>9 DEF CommitDraw, TypeOK
  <2>5. drawing' \in [Drawers -> {NoDraw} \cup Draw]
    BY <1>1, <1>9 DEF CommitDraw, TypeOK
  <2> QED
    BY <2>4, <2>5, <1>1, <1>9 DEF CommitDraw, TypeOK, ops
<1>10. ASSUME NEW d \in Drawers, RollBackDraw(d) PROVE TypeOK'
  <2>1. drawing[d] \in Draw /\ drawing[d].user \in Users
    BY <1>1, <1>10, IdleDraw DEF RollBackDraw
  <2>2. seeds' \in [Users -> Row]
    BY <2>1, <1>1, <1>10 DEF RollBackDraw, TypeOK
  <2>3. drawing' \in [Drawers -> {NoDraw} \cup Draw]
    BY <1>1, <1>10 DEF RollBackDraw, TypeOK
  <2> QED
    BY <2>2, <2>3, <1>1, <1>10 DEF RollBackDraw, TypeOK, ops, answers
<1>11. ASSUME NEW S \in SUBSET Users, StartScript(S) PROVE TypeOK'
  BY <1>1, <1>11, SeedsAssumption DEF StartScript, TypeOK, answers, NoScript
<1>12. CASE AuditRotation
  <2>1. script.pending \in SeedIds
    BY <1>1, <1>12 DEF TypeOK, AuditRotation, SeedIds
  <2>2. audited' \subseteq SeedIds
    BY <2>1, <1>1, <1>12 DEF AuditRotation, SeedToAudit, TypeOK
  <2>3. script' \in [todo : SUBSET Users, inserting : BOOLEAN, pending : 0 .. MaxSeeds]
    BY <1>1, <1>12, SeedsAssumption DEF AuditRotation, TypeOK
  <2> QED
    BY <2>2, <2>3, <1>1, <1>12 DEF AuditRotation, TypeOK, answers
<1>13. CASE CrashScript
  BY <1>1, <1>13, SeedsAssumption DEF CrashScript, NoScript, TypeOK, answers
<1>14. ASSUME NEW x \in committed, ReturnTicket(x) \/ LoseTicket(x) PROVE TypeOK'
  <2>1. /\ committed' \subseteq Tickets /\ tickets' \subseteq Tickets
        /\ lost' \subseteq Tickets /\ draws' \in Nat
    BY <1>1, <1>14 DEF ReturnTicket, LoseTicket, TypeOK
  <2> QED
    BY <2>1, <1>1, <1>14 DEF ReturnTicket, LoseTicket, TypeOK, ops
<1> QED
  BY <1>2, <1>5, <1>6, <1>7, <1>8, <1>9, <1>10, <1>11, <1>12, <1>13, <1>14, <1>4b DEF Next

-----------------------------------------------------------------------------
(* The kinds of step, as far as seeds and tickets are concerned.           *)

Quiet == UNCHANGED <<seeds, history, generated, drawing, answers>>

\* A committed draw is returned, or its call dies.
HandOver == \E x \in committed : ReturnTicket(x) \/ LoseTicket(x)

\* The handlers of force_rotate.py and of ensure_seeds rotate a row, insert a first
\* one, or leave seeds and tickets alone.
LEMMA StepKinds ==
  ASSUME [Next]_vars
  PROVE  \/ Quiet
         \/ \E u \in Users : RotateRow(u)
         \/ \E u \in Users : InsertRow(u)
         \/ \E u \in Users, s \in ClientSeeds : SetClientSeed(u, s)
         \/ \E d \in Drawers, u \in Users : LockSeed(d, u)
         \/ \E d \in Drawers : NextNonce(d)
         \/ \E d \in Drawers : CommitDraw(d)
         \/ \E d \in Drawers : RollBackDraw(d)
         \/ HandOver
<1>1. CASE UNCHANGED vars
  BY <1>1 DEF vars, Quiet
<1>2. ASSUME NEW u \in Users,
             Rotate(u) \/ ForceRotate(u) \/ ScriptFindsNoRow(u) \/ ScriptInserts(u)
      PROVE  RotateRow(u) \/ InsertRow(u) \/ Quiet
  BY <1>2 DEF Rotate, ForceRotate, ScriptFindsNoRow, ScriptInserts, Quiet
<1>3. ASSUME NEW c \in Callers, NEW u \in Users, BeginEnsure(c, u) \/ FindNoRow(c, u)
      PROVE  Quiet
  BY <1>3 DEF BeginEnsure, FindNoRow, Quiet
<1>4. ASSUME NEW c \in Callers, NEW u \in Users, EnsureRotates(c, u) PROVE RotateRow(u)
  BY <1>4 DEF EnsureRotates
<1>5. ASSUME NEW c \in Callers, NEW u \in Users, InsertFirst(c, u)
      PROVE  Quiet \/ InsertRow(u)
  BY <1>5 DEF InsertFirst, Quiet
<1>6. ASSUME NEW S \in SUBSET Users, StartScript(S) PROVE Quiet
  BY <1>6 DEF StartScript, Quiet
<1>7. ASSUME AuditRotation \/ CrashScript PROVE Quiet
  BY <1>7 DEF AuditRotation, CrashScript, Quiet
<1> QED
  BY <1>1, <1>2, <1>3, <1>4, <1>5, <1>6, <1>7 DEF Next, HandOver

\* The first row of a player.
LEMMA FirstTyped ==
  ASSUME SeedsInv, NEW u \in Users, InsertRow(u)
  PROVE  /\ generated \in Nat /\ generated' = generated + 1
         /\ \A v \in Users \ {u} : seeds'[v] = seeds[v]
         /\ seeds'[u].seed = generated' /\ seeds'[u].client = "hex"
         /\ seeds'[u].nonce = 0
<1>1. seeds'[u] = [seed |-> generated + 1, client |-> "hex", nonce |-> 0]
  BY DEF InsertRow, SeedsInv, TypeOK
<1> QED
  BY <1>1 DEF InsertRow, SeedsInv, TypeOK, Generate

\* A draw that is not idle, and the row it holds.
LEMMA HeldRow ==
  ASSUME SeedsInv, NEW d \in Drawers, drawing[d].at # "idle"
  PROVE  /\ drawing[d] # NoDraw /\ drawing[d].user \in Users
         /\ HasRow(drawing[d].user)
         /\ drawing[d].at \in {"locked", "counted"} /\ drawing[d].nonce \in Nat
         /\ seeds[drawing[d].user] \in SeedRows
<1>1. /\ drawing[d] # NoDraw
      /\ drawing[d] \in [at : {"locked", "counted"}, user : Users, nonce : 0 .. MaxNonce]
  BY IdleDraw DEF SeedsInv
<1>2. drawing[d].user \in Users
  BY <1>1
<1> QED
  BY <1>1, <1>2 DEF SeedsInv, TypeOK, SeedRows, OneDrawPerUser

\* set_client_seed, next_nonce and a roll-back change one row, and not its seed.
LEMMA SameSeeds ==
  ASSUME SeedsInv,
         \/ \E u \in Users, s \in ClientSeeds : SetClientSeed(u, s)
         \/ \E d \in Drawers : NextNonce(d)
         \/ \E d \in Drawers : RollBackDraw(d)
  PROVE  \A v \in Users :
           /\ seeds'[v].seed = seeds[v].seed
           /\ seeds[v].client \in Clients => seeds'[v].client \in Clients
           /\ ~ HasRow(v) => seeds'[v] = seeds[v]
<1>1. seeds \in [Users -> SeedRows]
  BY DEF SeedsInv, TypeOK, SeedRows
<1>2. ASSUME NEW u \in Users, NEW s \in ClientSeeds, SetClientSeed(u, s), NEW v \in Users
      PROVE  /\ seeds'[v].seed = seeds[v].seed
             /\ seeds[v].client \in Clients => seeds'[v].client \in Clients
             /\ ~ HasRow(v) => seeds'[v] = seeds[v]
  BY <1>1, <1>2 DEF SetClientSeed, SeedRows, Clients
<1>3. ASSUME NEW d \in Drawers, NextNonce(d), NEW v \in Users
      PROVE  /\ seeds'[v].seed = seeds[v].seed
             /\ seeds[v].client \in Clients => seeds'[v].client \in Clients
             /\ ~ HasRow(v) => seeds'[v] = seeds[v]
  <2>1. drawing[d].user \in Users /\ HasRow(drawing[d].user)
    BY <1>3, HeldRow DEF NextNonce
  <2> QED
    BY <2>1, <1>1, <1>3 DEF NextNonce, SeedRows
<1>4. ASSUME NEW d \in Drawers, RollBackDraw(d), NEW v \in Users
      PROVE  /\ seeds'[v].seed = seeds[v].seed
             /\ seeds[v].client \in Clients => seeds'[v].client \in Clients
             /\ ~ HasRow(v) => seeds'[v] = seeds[v]
  <2>1. drawing[d].user \in Users /\ HasRow(drawing[d].user)
    BY <1>4, HeldRow DEF RollBackDraw
  <2> QED
    BY <2>1, <1>1, <1>4 DEF RollBackDraw, SeedRows
<1> QED
  BY <1>2, <1>3, <1>4

\* SeedsDistinct: a new seed has a number of its own, and the one it replaces goes
\* to the history.
LEMMA DistinctStep ==
  SeedsInv /\ [Next]_vars => SeedsDistinct'
<1> SUFFICES ASSUME SeedsInv, [Next]_vars PROVE SeedsDistinct'
  OBVIOUS
<1>1. SeedsDistinct /\ \A u \in Users : seeds[u].seed \in Nat
  BY DEF SeedsInv, TypeOK
<1>2. generated \in Nat /\ \A h \in history : h.seed \in Nat
  BY DEF SeedsInv, TypeOK, SeedIds
<1>3. NoRow.seed = 0
  BY DEF NoRow
<1>4. ASSUME UNCHANGED <<seeds, history, generated>> PROVE SeedsDistinct'
  BY <1>1, <1>4 DEF SeedsDistinct, HasRow
<1>5. ASSUME NEW u \in Users, RotateRow(u) PROVE SeedsDistinct'
  <2> DEFINE h0 == [user |-> u, seed |-> seeds[u].seed, client |-> seeds[u].client,
                    last_nonce |-> seeds[u].nonce]
  <2>1. /\ history' = history \cup {h0} /\ h0.seed = seeds[u].seed
        /\ HasRow(u) /\ seeds[u].seed # 0
    BY <1>1, <1>5 DEF RotateRow, Archive, SeedsDistinct
  <2>2. /\ generated' = generated + 1 /\ \A v \in Users \ {u} : seeds'[v] = seeds[v]
        /\ seeds'[u].seed = generated + 1 /\ seeds'[u].client \in Clients
    BY <1>5, RotateTyped
  <2>3. \A v \in Users \ {u} : HasRow(v)' <=> HasRow(v)
    BY <2>2 DEF HasRow
  <2>4. HasRow(u)'
    BY <2>2, <1>2, <1>3 DEF HasRow
  <2> HIDE DEF h0
  <2>5. \A v \in Users :
          /\ seeds'[v].seed <= generated'
          /\ HasRow(v)' <=> seeds'[v].seed # 0
          /\ HasRow(v)' => seeds'[v].client \in Clients
    BY <1>1, <1>2, <2>2, <2>3, <2>4 DEF SeedsDistinct
  <2>6. \A v, w \in Users : HasRow(v)' /\ seeds'[v].seed = seeds'[w].seed => v = w
    BY <1>1, <1>2, <2>2, <2>3, <2>4 DEF SeedsDistinct
  <2>7. \A h \in history' : h.seed <= generated' /\ \A v \in Users : seeds'[v].seed # h.seed
    BY <1>1, <1>2, <2>1, <2>2 DEF SeedsDistinct
  <2> QED
    BY <2>5, <2>6, <2>7 DEF SeedsDistinct
<1>6. ASSUME NEW u \in Users, InsertRow(u) PROVE SeedsDistinct'
  <2>1. /\ generated' = generated + 1 /\ \A v \in Users \ {u} : seeds'[v] = seeds[v]
        /\ seeds'[u].seed = generated + 1 /\ seeds'[u].client \in Clients
    BY <1>6, FirstTyped DEF Clients
  <2>2. \A v \in Users \ {u} : HasRow(v)' <=> HasRow(v)
    BY <2>1 DEF HasRow
  <2>3. HasRow(u)' /\ history' = history
    BY <2>1, <1>2, <1>3, <1>6 DEF HasRow, InsertRow
  <2>4. \A v \in Users :
          /\ seeds'[v].seed <= generated'
          /\ HasRow(v)' <=> seeds'[v].seed # 0
          /\ HasRow(v)' => seeds'[v].client \in Clients
    BY <1>1, <1>2, <2>1, <2>2, <2>3 DEF SeedsDistinct
  <2>5. \A v, w \in Users : HasRow(v)' /\ seeds'[v].seed = seeds'[w].seed => v = w
    BY <1>1, <1>2, <2>1, <2>2, <2>3 DEF SeedsDistinct
  <2>6. \A h \in history' : h.seed <= generated' /\ \A v \in Users : seeds'[v].seed # h.seed
    BY <1>1, <1>2, <2>1, <2>3 DEF SeedsDistinct
  <2> QED
    BY <2>4, <2>5, <2>6 DEF SeedsDistinct
<1>7. ASSUME \/ \E u \in Users, s \in ClientSeeds : SetClientSeed(u, s)
             \/ \E d \in Drawers : NextNonce(d)
             \/ \E d \in Drawers : RollBackDraw(d)
      PROVE  SeedsDistinct'
  <2>1. UNCHANGED <<history, generated>>
    BY <1>7 DEF SetClientSeed, NextNonce, RollBackDraw
  <2>2. \A v \in Users :
          /\ seeds'[v].seed = seeds[v].seed
          /\ seeds[v].client \in Clients => seeds'[v].client \in Clients
          /\ ~ HasRow(v) => seeds'[v] = seeds[v]
    BY <1>7, SameSeeds
  <2>3. \A v \in Users : HasRow(v)' <=> HasRow(v)
    BY <2>2, <1>1, <1>3 DEF HasRow, SeedsDistinct
  <2> QED
    BY <2>1, <2>2, <2>3, <1>1 DEF SeedsDistinct
<1>8. ASSUME NEW d \in Drawers, CommitDraw(d) \/ \E u \in Users : LockSeed(d, u)
      PROVE  SeedsDistinct'
  BY <1>4, <1>8 DEF CommitDraw, LockSeed
<1>9. ASSUME Quiet \/ HandOver PROVE SeedsDistinct'
  BY <1>4, <1>9 DEF Quiet, HandOver, ReturnTicket, LoseTicket
<1> QED
  BY <1>5, <1>6, <1>7, <1>8, <1>9, StepKinds

\* A player who has a row keeps it, and the player of a ticket keeps a seed.
LEMMA RowsStay ==
  ASSUME SeedsInv, [Next]_vars, NEW u \in Users, HasRow(u)
  PROVE  HasRow(u)'
<1>1. SeedsDistinct'
  BY DistinctStep
<1>2. generated \in Nat /\ seeds[u].seed # 0
  BY DEF SeedsInv, TypeOK, SeedsDistinct
<1>3. seeds'[u].seed # 0
  <2>1. CASE UNCHANGED seeds
    BY <2>1, <1>2
  <2>2. ASSUME NEW v \in Users, RotateRow(v) \/ InsertRow(v) PROVE seeds'[u].seed # 0
    BY <2>2, <1>2, RotateTyped, FirstTyped
  <2>3. CASE \/ \E v \in Users, s \in ClientSeeds : SetClientSeed(v, s)
             \/ \E d \in Drawers : NextNonce(d)
             \/ \E d \in Drawers : RollBackDraw(d)
    BY <2>3, <1>2, SameSeeds
  <2> QED
    BY <2>1, <2>2, <2>3, StepKinds DEF Quiet, CommitDraw, LockSeed, HandOver, ReturnTicket, LoseTicket
<1> QED
  BY <1>1, <1>3 DEF SeedsDistinct

-----------------------------------------------------------------------------
(* The draws.                                                              *)

\* What a handler of request_outcome_bytes does to the draws in progress: one is
\* begun for a player whose row is free, one advances, or one ends.
LEMMA DrawingStep ==
  ASSUME SeedsInv, [Next]_vars
  PROVE  \/ drawing' = drawing
         \/ \E d \in Drawers :
              /\ \A e \in Drawers \ {d} : drawing'[e] = drawing[e]
              /\ \/ /\ HasRow(drawing'[d].user) /\ Unlocked(drawing'[d].user)
                    /\ drawing'[d].user \in Users
                 \/ /\ drawing[d] # NoDraw
                    /\ drawing'[d] = NoDraw \/ drawing'[d].user = drawing[d].user
<1>1. ASSUME NEW d \in Drawers, NEW u \in Users, LockSeed(d, u)
      PROVE  /\ \A e \in Drawers \ {d} : drawing'[e] = drawing[e]
             /\ HasRow(drawing'[d].user) /\ Unlocked(drawing'[d].user)
             /\ drawing'[d].user \in Users
  <2>1. drawing'[d] = [at |-> "locked", user |-> u, nonce |-> 0]
    BY <1>1 DEF LockSeed, SeedsInv, TypeOK
  <2>2. drawing'[d].user = u
    BY <2>1
  <2> QED
    BY <2>2, <1>1 DEF LockSeed, SeedsInv, TypeOK
<1>2. ASSUME NEW d \in Drawers, NextNonce(d) \/ CommitDraw(d) \/ RollBackDraw(d)
      PROVE  /\ \A e \in Drawers \ {d} : drawing'[e] = drawing[e]
             /\ drawing[d] # NoDraw
             /\ drawing'[d] = NoDraw \/ drawing'[d].user = drawing[d].user
  <2>1. drawing[d] # NoDraw
    BY <1>2, HeldRow DEF NextNonce, CommitDraw, RollBackDraw
  <2>2. CASE CommitDraw(d) \/ RollBackDraw(d)
    BY <2>1, <2>2 DEF CommitDraw, RollBackDraw, SeedsInv, TypeOK
  <2>3. CASE NextNonce(d)
    <3>1. drawing'[d] = [drawing[d] EXCEPT !.at = "counted", !.nonce = NonceTaken(drawing[d].user)]
      BY <2>3 DEF NextNonce, SeedsInv, TypeOK
    <3>2. drawing[d] \in [at : {"locked", "counted"}, user : Users, nonce : 0 .. MaxNonce]
      BY <2>1, IdleDraw DEF SeedsInv
    <3>3. drawing'[d].user = drawing[d].user
      BY <3>1, <3>2
    <3> QED
      BY <3>3, <2>1, <2>3 DEF NextNonce, SeedsInv, TypeOK
  <2> QED
    BY <1>2, <2>2, <2>3
<1>3. ASSUME NEW u \in Users, RotateRow(u) \/ InsertRow(u) PROVE drawing' = drawing
  BY <1>3 DEF RotateRow, InsertRow
<1>4. ASSUME NEW u \in Users, NEW s \in ClientSeeds, SetClientSeed(u, s)
      PROVE  drawing' = drawing
  BY <1>4 DEF SetClientSeed
<1> QED
  BY <1>1, <1>2, <1>3, <1>4, StepKinds DEF Quiet, HandOver, ReturnTicket, LoseTicket

\* OneDrawPerUser: SELECT ... FOR UPDATE lets one draw at a time hold a row.
LEMMA OneDrawStep ==
  SeedsInv /\ [Next]_vars => OneDrawPerUser'
<1> SUFFICES ASSUME SeedsInv, [Next]_vars PROVE OneDrawPerUser'
  OBVIOUS
<1>1. /\ OneDrawPerUser /\ TypeOK
      /\ \A d \in Drawers : drawing[d] # NoDraw => drawing[d].user \in Users
  BY IdleDraw DEF SeedsInv
<1>2. \A u \in Users : HasRow(u) => HasRow(u)'
  BY RowsStay
<1>3. CASE drawing' = drawing
  BY <1>1, <1>2, <1>3 DEF OneDrawPerUser, HasRow
<1>4. ASSUME NEW d \in Drawers,
             \A e \in Drawers \ {d} : drawing'[e] = drawing[e],
             \/ /\ HasRow(drawing'[d].user) /\ Unlocked(drawing'[d].user)
                /\ drawing'[d].user \in Users
             \/ /\ drawing[d] # NoDraw
                /\ drawing'[d] = NoDraw \/ drawing'[d].user = drawing[d].user
      PROVE  OneDrawPerUser'
  <2>1. \A e \in Drawers : drawing'[e] # NoDraw => seeds'[drawing'[e].user] # NoRow
    BY <1>1, <1>2, <1>4 DEF OneDrawPerUser, HasRow
  <2>2. \A e \in Drawers \ {d} :
          drawing'[d] # NoDraw /\ drawing'[e] # NoDraw => drawing'[d].user # drawing'[e].user
    BY <1>1, <1>4 DEF OneDrawPerUser, Unlocked
  <2>3. \A e, f \in Drawers :
          drawing'[e] # NoDraw /\ drawing'[f] # NoDraw /\ drawing'[e].user = drawing'[f].user
            => e = f
    BY <1>1, <1>4, <2>2 DEF OneDrawPerUser
  <2> QED
    BY <2>1, <2>3 DEF OneDrawPerUser, NoDraw, HasRow
<1> QED
  BY <1>3, <1>4, DrawingStep

\* Nothing is drawn from a seed before it is generated.
LEMMA TicketSeeds ==
  ASSUME SeedsInv
  PROVE  \A x \in Taken : x.seed # generated + 1
<1>1. generated \in Nat /\ \A x \in Taken : x.user \in Users
  BY DEF SeedsInv, TypeOK, Taken, Tickets
<1>2. /\ \A u \in Users : seeds[u].seed \in Nat /\ seeds[u].seed <= generated
      /\ \A h \in history : h.seed \in Nat /\ h.seed <= generated
  BY DEF SeedsInv, SeedsDistinct, TypeOK, SeedIds
<1> QED
  BY <1>1, <1>2 DEF SeedsInv, TicketsOwned

\* Finitely many nonces have been taken.
LEMMA TakenFinite ==
  ASSUME SeedsInv
  PROVE  IsFiniteSet(Taken)
BY FS_Union DEF SeedsInv, HandedOnce, Taken

\* DrawsDense: next_nonce, the commit, the roll-back and the rotation keep the count
\* of what was drawn from each seed.
LEMMA DenseStep ==
  SeedsInv /\ [Next]_vars => DrawsDense'
<1> SUFFICES ASSUME SeedsInv, [Next]_vars PROVE DrawsDense'
  OBVIOUS
<1>1. DrawsDense /\ OneDrawPerUser /\ SeedsDistinct
  BY DEF SeedsInv
<1>2. \A d \in Drawers :
        /\ drawing[d].at = "counted" => drawing[d] # NoDraw
        /\ drawing[d] # NoDraw => drawing[d].user \in Users
  BY HeldRow, IdleDraw DEF SeedsInv
<1>3. generated \in Nat /\ NoDraw.at = "idle"
  BY DEF SeedsInv, TypeOK, NoDraw
<1>4. ASSUME UNCHANGED <<history, drawing, Taken>>,
             NEW u \in Users,
             \A v \in Users \ {u} : seeds'[v] = seeds[v],
             ~ HasRow(u) \/ Unlocked(u),
             DenseIn(Taken, seeds'[u].seed, seeds'[u].nonce)
      PROVE  DrawsDense'
  <2>1. \A d \in Drawers : drawing[d].at = "counted" => drawing[d].user # u
    BY <1>1, <1>2, <1>4 DEF OneDrawPerUser, Unlocked
  <2>2. \A v \in Users \ {u} : HasRow(v)' <=> HasRow(v)
    BY <1>4 DEF HasRow
  <2>3. \A v \in Users : Counted(v)' <=> Counted(v)
    BY <1>4 DEF Counted
  <2> QED
    BY <1>1, <1>2, <1>4, <2>1, <2>2, <2>3 DEF DrawsDense
<1>5. ASSUME UNCHANGED <<seeds, history, Taken>>,
             \A d \in Drawers : \/ drawing'[d] = drawing[d]
                                \/ drawing[d].at # "counted" /\ drawing'[d].at # "counted"
      PROVE  DrawsDense'
  <2>1. \A v \in Users : (Counted(v)' <=> Counted(v)) /\ (HasRow(v)' <=> HasRow(v))
    BY <1>5 DEF Counted, HasRow
  <2>2. \A d \in Drawers : drawing'[d].at = "counted" => drawing'[d] = drawing[d]
    BY <1>5
  <2> QED
    BY <1>1, <1>5, <2>1, <2>2 DEF DrawsDense
<1>5a. UNCHANGED answers => UNCHANGED Taken
  BY DEF answers, Taken
<1>6. CASE Quiet
  BY <1>5, <1>6, <1>5a DEF Quiet
<1>6a. CASE HandOver
  <2>1. Taken' = Taken /\ UNCHANGED <<seeds, history, drawing>>
    BY <1>6a DEF HandOver, ReturnTicket, LoseTicket, Taken
  <2> QED
    BY <1>5, <2>1
<1>7. ASSUME NEW d \in Drawers, NEW u \in Users, LockSeed(d, u) PROVE DrawsDense'
  <2>1. drawing'[d] = [at |-> "locked", user |-> u, nonce |-> 0]
    BY <1>7 DEF LockSeed, SeedsInv, TypeOK
  <2>2. drawing'[d].at = "locked"
    BY <2>1
  <2>3. \A e \in Drawers \ {d} : drawing'[e] = drawing[e]
    BY <1>7 DEF LockSeed, SeedsInv, TypeOK
  <2>4. drawing[d].at = "idle"
    BY <1>3, <1>7 DEF LockSeed
  <2> QED
    BY <1>5, <1>7, <1>5a, <2>2, <2>3, <2>4 DEF LockSeed
<1>8. ASSUME NEW u \in Users, RotateRow(u) PROVE DrawsDense'
  <2> DEFINE h0 == [user |-> u, seed |-> seeds[u].seed, client |-> seeds[u].client,
                    last_nonce |-> seeds[u].nonce]
  <2>1. /\ history' = history \cup {h0} /\ h0.seed = seeds[u].seed
        /\ h0.last_nonce = seeds[u].nonce
    BY <1>8 DEF RotateRow, Archive
  <2> HIDE DEF h0
  <2>2. DenseIn(Taken, h0.seed, h0.last_nonce)
    BY <1>8, <2>1, RotateTyped
  <2>3. DenseIn(Taken, seeds'[u].seed, seeds'[u].nonce)
    BY <1>8, RotateTyped, TicketSeeds, DenseUnused
  <2>4. \A d \in Drawers : drawing[d].at = "counted" => drawing[d].user # u
    BY <1>2, <1>8 DEF RotateRow, Unlocked
  <2>5. \A v \in Users \ {u} : seeds'[v] = seeds[v] /\ (HasRow(v)' <=> HasRow(v))
    BY <1>8, RotateTyped DEF HasRow
  <2>6. UNCHANGED <<drawing, Taken>> /\ \A v \in Users : Counted(v)' <=> Counted(v)
    BY <1>8, <1>5a DEF RotateRow, Counted
  <2>7. \A h \in history' : DenseIn(Taken', h.seed, h.last_nonce)
    BY <1>1, <2>1, <2>2, <2>6 DEF DrawsDense
  <2> QED
    BY <1>1, <1>2, <2>3, <2>4, <2>5, <2>6, <2>7 DEF DrawsDense
<1>9. ASSUME NEW u \in Users, InsertRow(u) PROVE DrawsDense'
  <2>1. DenseIn(Taken, seeds'[u].seed, seeds'[u].nonce)
    BY <1>9, FirstTyped, TicketSeeds, DenseUnused
  <2> QED
    BY <1>4, <1>9, <1>5a, <2>1, FirstTyped DEF InsertRow
<1>10. ASSUME NEW u \in Users, NEW s \in ClientSeeds, SetClientSeed(u, s) PROVE DrawsDense'
  <2>1. seeds'[u].seed = seeds[u].seed /\ seeds'[u].nonce = seeds[u].nonce
    BY <1>10 DEF SetClientSeed, SeedsInv, TypeOK
  <2>2. \A v \in Users \ {u} : seeds'[v] = seeds[v]
    BY <1>10 DEF SetClientSeed, SeedsInv, TypeOK
  <2>3. DenseIn(Taken, seeds'[u].seed, seeds'[u].nonce)
    BY <1>10, <2>1, UnlockedDense DEF SetClientSeed
  <2> QED
    BY <1>4, <1>10, <1>5a, <2>2, <2>3 DEF SetClientSeed
<1>11. ASSUME NEW d \in Drawers, drawing[d].at # "idle"
       PROVE  LET u == drawing[d].user IN
              /\ \A e \in Drawers \ {d} : drawing[e].at = "counted" => drawing[e].user # u
              /\ drawing[d].at = "locked" =>
                   DenseIn(Taken, seeds[u].seed, seeds[u].nonce)
              /\ drawing[d].at = "counted" =>
                   /\ DenseIn(Taken, seeds[u].seed, drawing[d].nonce)
                   /\ seeds[u].nonce = drawing[d].nonce + 1
  <2>1. drawing[d] # NoDraw /\ drawing[d].user \in Users /\ HasRow(drawing[d].user)
    BY <1>11, HeldRow
  <2>2. \A e \in Drawers \ {d} :
          drawing[e].at = "counted" => drawing[e].user # drawing[d].user
    BY <1>1, <1>2, <2>1 DEF OneDrawPerUser
  <2>3. drawing[d].at = "locked" => ~ Counted(drawing[d].user)
    BY <2>2 DEF Counted
  <2> QED
    BY <1>1, <2>1, <2>2, <2>3 DEF DrawsDense
<1>12. ASSUME NEW d \in Drawers, NextNonce(d) PROVE DrawsDense'
  <2> DEFINE u == drawing[d].user
             n == seeds[u].nonce
  <2>1. drawing[d].at = "locked" /\ u \in Users /\ HasRow(u) /\ seeds[u] \in SeedRows
    BY <1>12, HeldRow DEF NextNonce
  <2>2. drawing[d] \in [at : {"locked", "counted"}, user : Users, nonce : 0 .. MaxNonce]
    BY <2>1, IdleDraw DEF SeedsInv, NoDraw
  <2>3. /\ drawing'[d].at = "counted" /\ drawing'[d].user = u /\ drawing'[d].nonce = n
        /\ \A e \in Drawers \ {d} : drawing'[e] = drawing[e]
    BY <1>12, <2>2 DEF NextNonce, NonceTaken, SeedsInv, TypeOK
  <2>4. /\ seeds'[u].seed = seeds[u].seed /\ seeds'[u].nonce = n + 1
        /\ \A v \in Users \ {u} : seeds'[v] = seeds[v]
    BY <1>12, <2>1 DEF NextNonce, SeedsInv, TypeOK, SeedRows
  <2>5. /\ \A e \in Drawers \ {d} : drawing[e].at = "counted" => drawing[e].user # u
        /\ DenseIn(Taken, seeds[u].seed, n)
    BY <1>11, <2>1
  <2> HIDE DEF u, n
  <2>6. \A v \in Users : IF v = u THEN Counted(v)' ELSE HasRow(v)' <=> HasRow(v)
    BY <2>3, <2>4 DEF Counted, HasRow
  <2>7. \A v \in Users \ {u} : Counted(v) => Counted(v)'
    BY <2>1, <2>3 DEF Counted, u
  <2>8. UNCHANGED <<history, Taken>>
    BY <1>12, <1>5a DEF NextNonce
  <2>9. \A e \in Drawers : drawing'[e].at = "counted" =>
          /\ seeds'[drawing'[e].user].nonce = drawing'[e].nonce + 1
          /\ DenseIn(Taken', seeds'[drawing'[e].user].seed, drawing'[e].nonce)
    BY <1>1, <1>2, <2>3, <2>4, <2>5, <2>8 DEF DrawsDense
  <2> QED
    BY <1>1, <2>4, <2>6, <2>7, <2>8, <2>9 DEF DrawsDense
<1>13. ASSUME NEW d \in Drawers, CommitDraw(d) PROVE DrawsDense'
  <2> DEFINE u == drawing[d].user
             n == drawing[d].nonce
             t == TicketOf(d)
  <2>1. drawing[d].at = "counted" /\ u \in Users /\ HasRow(u) /\ n \in Nat
    BY <1>13, HeldRow DEF CommitDraw
  <2>2. /\ Taken' = Taken \cup {t} /\ UNCHANGED <<seeds, history>>
        /\ t.seed = seeds[u].seed /\ t.nonce = n
    BY <1>13 DEF CommitDraw, TicketOf, Taken
  <2>3. drawing'[d] = NoDraw /\ \A e \in Drawers \ {d} : drawing'[e] = drawing[e]
    BY <1>13 DEF CommitDraw, SeedsInv, TypeOK
  <2>4. /\ \A e \in Drawers \ {d} : drawing[e].at = "counted" => drawing[e].user # u
        /\ DenseIn(Taken, seeds[u].seed, n) /\ seeds[u].nonce = n + 1
    BY <1>11, <2>1
  <2> HIDE DEF u, n, t
  <2>6. DenseIn(Taken', seeds[u].seed, n + 1)
    <3>1. IsFiniteSet(Taken)
      BY TakenFinite
    <3> QED
      BY <3>1, <2>1, <2>2, <2>4, DenseNext
  <2>8. \A h \in history' : DenseIn(Taken', h.seed, h.last_nonce)
    <3>1. \A h \in history : t.seed # h.seed
      BY <1>1, <2>1, <2>2 DEF SeedsDistinct
    <3> QED
      BY <1>1, <2>2, <3>1, DenseOther DEF DrawsDense
  <2>9. \A v \in Users \ {u} : HasRow(v) => t.seed # seeds[v].seed
    BY <1>1, <2>1, <2>2 DEF SeedsDistinct
  <2>10. \A v \in Users : HasRow(v)' /\ ~ Counted(v)' =>
           DenseIn(Taken', seeds'[v].seed, seeds'[v].nonce)
    <3>1. \A v \in Users \ {u} : Counted(v) => Counted(v)'
      BY <2>3 DEF Counted, u
    <3>2. \A v \in Users : HasRow(v)' <=> HasRow(v)
      BY <2>2 DEF HasRow
    <3>3. \A v \in Users \ {u} : HasRow(v) /\ ~ Counted(v) =>
            DenseIn(Taken \cup {t}, seeds[v].seed, seeds[v].nonce)
      BY <1>1, <2>9, DenseOther DEF DrawsDense
    <3> QED
      BY <2>2, <2>4, <2>6, <3>1, <3>2, <3>3
  <2>11. \A e \in Drawers : drawing'[e].at = "counted" =>
           /\ seeds'[drawing'[e].user].nonce = drawing'[e].nonce + 1
           /\ DenseIn(Taken', seeds'[drawing'[e].user].seed, drawing'[e].nonce)
    <3> SUFFICES ASSUME NEW e \in Drawers, drawing'[e].at = "counted"
                 PROVE  /\ seeds[drawing[e].user].nonce = drawing[e].nonce + 1
                        /\ DenseIn(Taken \cup {t}, seeds[drawing[e].user].seed,
                                   drawing[e].nonce)
                        /\ drawing'[e] = drawing[e]
      BY <2>2
    <3>1. e # d /\ drawing'[e] = drawing[e]
      BY <1>3, <2>3
    <3>2. /\ drawing[e].user \in Users \ {u} /\ HasRow(drawing[e].user)
          /\ drawing[e].at = "counted"
      BY <1>1, <1>2, <2>4, <3>1 DEF OneDrawPerUser
    <3>3. t.seed # seeds[drawing[e].user].seed
      BY <2>9, <3>2
    <3>4. DenseIn(Taken, seeds[drawing[e].user].seed, drawing[e].nonce)
      BY <1>1, <3>2 DEF DrawsDense
    <3> QED
      BY <1>1, <3>1, <3>2, <3>3, <3>4, DenseOther DEF DrawsDense
  <2> QED
    BY <2>8, <2>10, <2>11 DEF DrawsDense
<1>14. ASSUME NEW d \in Drawers, RollBackDraw(d) PROVE DrawsDense'
  <2> DEFINE u == drawing[d].user
             n == drawing[d].nonce
  <2>1. /\ drawing[d].at \in {"locked", "counted"} /\ u \in Users
        /\ HasRow(u) /\ seeds[u] \in SeedRows
    BY <1>14, HeldRow DEF RollBackDraw
  <2>2. /\ drawing'[d] = NoDraw /\ \A e \in Drawers \ {d} : drawing'[e] = drawing[e]
        /\ UNCHANGED <<history, Taken>>
    BY <1>14, <1>5a DEF RollBackDraw, SeedsInv, TypeOK
  <2>3. \A e \in Drawers \ {d} : drawing[e].at = "counted" => drawing[e].user # u
    BY <1>11, <2>1
  <2>4. \A v \in Users \ {u} : seeds'[v] = seeds[v]
    BY <1>14 DEF RollBackDraw, SeedsInv, TypeOK
  <2>5. DenseIn(Taken, seeds'[u].seed, seeds'[u].nonce)
    <3>1. CASE drawing[d].at = "locked"
      BY <1>11, <1>14, <3>1 DEF RollBackDraw
    <3>2. CASE drawing[d].at = "counted"
      <4>1. seeds'[u].seed = seeds[u].seed /\ seeds'[u].nonce = n
        BY <1>14, <2>1, <3>2 DEF RollBackDraw, SeedsInv, TypeOK, SeedRows
      <4> QED
        BY <1>11, <3>2, <4>1
    <3> QED
      BY <2>1, <3>1, <3>2
  <2> HIDE DEF u, n
  <2>6. \A v \in Users \ {u} : (Counted(v) => Counted(v)') /\ (HasRow(v)' <=> HasRow(v))
    BY <2>2, <2>4 DEF Counted, HasRow, u
  <2>7. \A e \in Drawers : drawing'[e].at = "counted" =>
          /\ seeds'[drawing'[e].user].nonce = drawing'[e].nonce + 1
          /\ DenseIn(Taken', seeds'[drawing'[e].user].seed, drawing'[e].nonce)
    BY <1>1, <1>2, <1>3, <2>2, <2>3, <2>4 DEF DrawsDense
  <2> QED
    BY <1>1, <2>2, <2>4, <2>5, <2>6, <2>7 DEF DrawsDense
<1> QED
  BY <1>6, <1>7, <1>8, <1>9, <1>10, <1>12, <1>13, <1>14, <1>6a, StepKinds

\* HandedOnce: the nonce of a commit is one that was not taken before, and what is
\* handed out or lost leaves the calls in progress.
LEMMA HandedStep ==
  SeedsInv /\ [Next]_vars => HandedOnce'
<1> SUFFICES ASSUME SeedsInv, [Next]_vars PROVE HandedOnce'
  OBVIOUS
<1>1. HandedOnce /\ draws \in Nat
  BY DEF SeedsInv, TypeOK
<1>2. ASSUME UNCHANGED answers PROVE HandedOnce'
  BY <1>1, <1>2 DEF HandedOnce, answers
<1>3. ASSUME NEW d \in Drawers, CommitDraw(d) PROVE HandedOnce'
  <2> DEFINE t == TicketOf(d)
  <2>1. /\ committed' = committed \cup {t} /\ UNCHANGED <<tickets, draws, lost>>
        /\ t.seed = seeds[drawing[d].user].seed /\ t.nonce = drawing[d].nonce
        /\ drawing[d].at = "counted"
    BY <1>3 DEF CommitDraw, TicketOf
  <2> HIDE DEF t
  <2>2. drawing[d].nonce \in Nat /\ DenseIn(Taken, t.seed, drawing[d].nonce)
    BY <2>1, HeldRow DEF SeedsInv, DrawsDense
  <2>3. t \notin Taken
    BY <2>1, <2>2, TakenFinite, DenseNext
  <2>4. IsFiniteSet(committed')
    BY <1>1, <2>1, FS_AddElement DEF HandedOnce
  <2> QED
    BY <1>1, <2>1, <2>3, <2>4 DEF HandedOnce, Taken
<1>4. ASSUME NEW x \in committed, ReturnTicket(x) \/ LoseTicket(x) PROVE HandedOnce'
  <2>1. x \notin tickets /\ x \notin lost
    BY <1>1, <1>4 DEF HandedOnce
  <2>2. /\ IsFiniteSet(committed \ {x}) /\ IsFiniteSet(tickets \cup {x})
        /\ IsFiniteSet(lost \cup {x}) /\ Cardinality(tickets \cup {x}) = draws + 1
    BY <1>1, <2>1, FS_AddElement, FS_RemoveElement DEF HandedOnce
  <2> QED
    BY <1>1, <1>4, <2>1, <2>2 DEF HandedOnce, ReturnTicket, LoseTicket
<1>5. ASSUME \/ Quiet
             \/ \E u \in Users : RotateRow(u) \/ InsertRow(u)
             \/ \E u \in Users, s \in ClientSeeds : SetClientSeed(u, s)
             \/ \E d \in Drawers, u \in Users : LockSeed(d, u)
             \/ \E d \in Drawers : NextNonce(d) \/ RollBackDraw(d)
      PROVE  UNCHANGED answers
  BY <1>5 DEF Quiet, RotateRow, InsertRow, SetClientSeed, LockSeed, NextNonce, RollBackDraw
<1> QED
  BY <1>2, <1>3, <1>4, <1>5, StepKinds DEF HandOver

\* TicketsOwned: a rotation reveals the seed with a last_nonce above its draws.
LEMMA OwnedStep ==
  SeedsInv /\ [Next]_vars => TicketsOwned'
<1> SUFFICES ASSUME SeedsInv, [Next]_vars PROVE TicketsOwned'
  OBVIOUS
<1>1. TicketsOwned /\ SeedsDistinct /\ \A x \in Taken : x.user \in Users /\ x.seed # 0
  BY DEF SeedsInv, TypeOK, SeedIds, Taken, Tickets
<1>1a. UNCHANGED answers => UNCHANGED Taken
  BY DEF answers, Taken
<1>2. ASSUME \A u \in Users : seeds'[u].seed = seeds[u].seed,
             UNCHANGED <<history, Taken>>
      PROVE  TicketsOwned'
  BY <1>1, <1>2 DEF TicketsOwned
<1>3. ASSUME NEW u \in Users, RotateRow(u) PROVE TicketsOwned'
  <2> DEFINE h0 == [user |-> u, seed |-> seeds[u].seed, client |-> seeds[u].client,
                    last_nonce |-> seeds[u].nonce]
  <2>1. /\ history' = history \cup {h0} /\ Taken' = Taken
        /\ h0.user = u /\ h0.seed = seeds[u].seed /\ h0.last_nonce = seeds[u].nonce
    BY <1>3, <1>1a DEF RotateRow, Archive
  <2> HIDE DEF h0
  <2>2. \A v \in Users \ {u} : seeds'[v] = seeds[v]
    BY <1>3, RotateTyped
  <2>3. seeds[u].nonce \in Nat /\ DenseIn(Taken, seeds[u].seed, seeds[u].nonce)
    BY <1>3, RotateTyped
  <2>4. \A x \in Taken : x.seed = seeds[u].seed => x.nonce < h0.last_nonce
    BY <2>1, <2>3, DenseBelow
  <2> QED
    BY <1>1, <2>1, <2>2, <2>4 DEF TicketsOwned
<1>4. ASSUME NEW u \in Users, InsertRow(u) PROVE TicketsOwned'
  <2>1. seeds[u].seed = 0 /\ UNCHANGED <<history, Taken>>
    BY <1>1, <1>4, <1>1a DEF InsertRow, SeedsDistinct
  <2>2. \A v \in Users \ {u} : seeds'[v] = seeds[v]
    BY <1>4, FirstTyped
  <2> QED
    BY <1>1, <2>1, <2>2 DEF TicketsOwned
<1>5. ASSUME \/ \E u \in Users, s \in ClientSeeds : SetClientSeed(u, s)
             \/ \E d \in Drawers : NextNonce(d)
             \/ \E d \in Drawers : RollBackDraw(d)
      PROVE  TicketsOwned'
  <2>1. UNCHANGED <<history, Taken>>
    BY <1>5, <1>1a DEF SetClientSeed, NextNonce, RollBackDraw
  <2> QED
    BY <1>2, <1>5, <2>1, SameSeeds
<1>6. ASSUME NEW d \in Drawers, CommitDraw(d) PROVE TicketsOwned'
  <2> DEFINE t == TicketOf(d)
  <2>1. /\ Taken' = Taken \cup {t} /\ UNCHANGED <<seeds, history>>
        /\ seeds[t.user].seed = t.seed
    BY <1>6 DEF CommitDraw, TicketOf, Taken
  <2> HIDE DEF t
  <2> QED
    BY <1>1, <2>1 DEF TicketsOwned
<1>7. ASSUME NEW d \in Drawers, NEW u \in Users, LockSeed(d, u) PROVE TicketsOwned'
  BY <1>2, <1>7, <1>1a DEF LockSeed
<1>8. ASSUME Quiet \/ HandOver PROVE TicketsOwned'
  BY <1>2, <1>8, <1>1a DEF Quiet, HandOver, ReturnTicket, LoseTicket, Taken
<1> QED
  BY <1>3, <1>4, <1>5, <1>6, <1>7, <1>8, StepKinds

-----------------------------------------------------------------------------
(* The audit rows of force_rotate.py.                                      *)

\* Seed numbers are issued in order.
LEMMA GeneratedGrows ==
  ASSUME SeedsInv, [Next]_vars
  PROVE  generated \in Nat /\ generated' \in Nat /\ generated <= generated'
<1>1. generated \in Nat
  BY DEF SeedsInv, TypeOK
<1>2. ASSUME NEW u \in Users, RotateRow(u) \/ InsertRow(u) PROVE generated' = generated + 1
  BY <1>2, RotateTyped, FirstTyped
<1>3. ASSUME NEW u \in Users, NEW s \in ClientSeeds, SetClientSeed(u, s)
      PROVE  generated' = generated
  BY <1>3 DEF SetClientSeed
<1>4. ASSUME NEW d \in Drawers,
             \/ NextNonce(d) \/ CommitDraw(d) \/ RollBackDraw(d)
             \/ \E u \in Users : LockSeed(d, u)
      PROVE  generated' = generated
  BY <1>4 DEF NextNonce, CommitDraw, RollBackDraw, LockSeed
<1>5. generated' = generated \/ generated' = generated + 1
  BY <1>2, <1>3, <1>4, StepKinds DEF Quiet, HandOver, ReturnTicket, LoseTicket
<1> QED
  BY <1>1, <1>5

\* AuditPending: a seed without its audit row is the one the script is working on,
\* or was left so by a crash.
LEMMA AuditStep ==
  SeedsInv /\ [Next]_vars => AuditPending'
<1> SUFFICES ASSUME SeedsInv, [Next]_vars PROVE AuditPending'
  OBVIOUS
<1> DEFINE Open == byAdmin \ audited
<1>1. AuditPending /\ RotationsAudited
  BY DEF SeedsInv, AuditPending
<1>2. /\ byAdmin \subseteq SeedIds /\ crashes \in Nat
      /\ script \in [todo : SUBSET Users, inserting : BOOLEAN, pending : 0 .. MaxSeeds]
  BY SeedsAssumption DEF SeedsInv, TypeOK
<1>3. IsFiniteSet(Open) /\ Cardinality(Open) \in Nat
  <2>1. IsFiniteSet(1 .. MaxSeeds)
    BY SeedsAssumption, FS_Interval
  <2> QED
    BY <1>2, <2>1, FS_Subset, FS_CardinalityType DEF SeedIds
<1>4. /\ generated \in Nat /\ generated' \in Nat /\ generated <= generated'
      /\ \A s \in byAdmin : s \in Nat /\ s <= generated
  BY <1>1, <1>2, GeneratedGrows DEF AuditPending, SeedIds
<1>5. CASE UNCHANGED <<script, byAdmin, audited, crashes>>
  BY <1>1, <1>4, <1>5 DEF AuditPending, RotationsAudited
<1>6. ASSUME NEW u \in Users, RotateRow(u) \/ InsertRow(u), SetByScript(u), script.pending = 0
      PROVE  AuditPending'
  <2>1. /\ generated' = generated + 1 /\ script.pending = 0
        /\ script'.pending = generated + 1 /\ byAdmin' = byAdmin \cup {generated + 1}
        /\ UNCHANGED <<audited, crashes>> /\ script'.inserting = FALSE
    BY <1>6, RotateTyped, FirstTyped DEF SetByScript
  <2>2. /\ generated + 1 \notin byAdmin /\ audited \subseteq byAdmin
        /\ Cardinality(Open) <= crashes
    BY <1>1, <1>2, <1>4, <2>1 DEF RotationsAudited
  <2>3. (byAdmin \ audited)' = Open \cup {generated + 1} /\ generated + 1 \notin Open
    BY <2>1, <2>2
  <2> HIDE DEF Open
  <2>4. Cardinality((byAdmin \ audited)') = Cardinality(Open) + 1
    BY <2>3, <1>3, FS_AddElement
  <2>5. Cardinality((byAdmin \ audited)') <= crashes' + 1
    BY <2>1, <2>2, <2>4, <1>2, <1>3
  <2> QED
    BY <1>4, <2>1, <2>2, <2>3, <2>5 DEF AuditPending, RotationsAudited, Open
<1>7. CASE AuditRotation
  <2>1. /\ script.pending # 0 /\ script'.pending = 0
        /\ audited' = audited \cup {script.pending} /\ UNCHANGED <<byAdmin, crashes>>
    BY <1>2, <1>7 DEF AuditRotation, SeedToAudit
  <2>2. /\ script.pending \in Open /\ audited \subseteq byAdmin
        /\ Cardinality(Open) <= crashes + 1
    BY <1>1, <2>1 DEF AuditPending, RotationsAudited
  <2>3. (byAdmin \ audited)' = Open \ {script.pending} /\ audited' \subseteq byAdmin
    BY <2>1, <2>2
  <2> HIDE DEF Open
  <2>4. Cardinality((byAdmin \ audited)') = Cardinality(Open) - 1
    BY <2>2, <2>3, <1>3, FS_RemoveElement
  <2>5. Cardinality((byAdmin \ audited)') <= crashes
    BY <2>2, <2>4, <1>2, <1>3
  <2> QED
    BY <1>2, <1>4, <2>1, <2>3, <2>5 DEF AuditPending, RotationsAudited
<1>8. CASE CrashScript
  <2>1. /\ script'.pending = 0 /\ crashes' = crashes + 1 /\ UNCHANGED <<byAdmin, audited>>
    BY <1>8 DEF CrashScript, NoScript
  <2>2. Cardinality(Open) <= crashes'
    BY <1>1, <1>2, <1>3, <2>1 DEF RotationsAudited
  <2> QED
    BY <1>1, <1>4, <2>1, <2>2 DEF AuditPending, RotationsAudited
<1>9. ASSUME NEW S \in SUBSET Users, StartScript(S) PROVE AuditPending'
  <2>1. /\ script.pending = 0 /\ script'.pending = 0
        /\ UNCHANGED <<byAdmin, audited, crashes>>
    BY <1>9 DEF StartScript, NoScript
  <2> QED
    BY <1>1, <1>4, <2>1 DEF AuditPending, RotationsAudited
<1>10. ASSUME NEW u \in Users, Rotate(u) PROVE UNCHANGED <<script, byAdmin, audited, crashes>>
  BY <1>10 DEF Rotate, ops
<1>11. ASSUME NEW c \in Callers, NEW u \in Users,
              BeginEnsure(c, u) \/ EnsureRotates(c, u) \/ FindNoRow(c, u) \/ InsertFirst(c, u)
       PROVE  UNCHANGED <<script, byAdmin, audited, crashes>>
  BY <1>11 DEF BeginEnsure, EnsureRotates, FindNoRow, InsertFirst, ops
<1>12. ASSUME NEW u \in Users, NEW s \in ClientSeeds, SetClientSeed(u, s)
       PROVE  UNCHANGED <<script, byAdmin, audited, crashes>>
  BY <1>12 DEF SetClientSeed, ops
<1>13. ASSUME NEW d \in Drawers,
              \/ NextNonce(d) \/ CommitDraw(d) \/ RollBackDraw(d)
              \/ \E u \in Users : LockSeed(d, u)
       PROVE  UNCHANGED <<script, byAdmin, audited, crashes>>
  BY <1>13 DEF NextNonce, CommitDraw, RollBackDraw, LockSeed, ops
<1>14. ASSUME NEW u \in Users,
              ForceRotate(u) \/ ScriptFindsNoRow(u) \/ ScriptInserts(u)
       PROVE  AuditPending'
  <2>1. CASE /\ script'.pending = 0 /\ script.pending = 0
             /\ UNCHANGED <<byAdmin, audited, crashes>>
    BY <1>1, <1>4, <2>1 DEF AuditPending, RotationsAudited
  <2>2. CASE ForceRotate(u)
    BY <2>2, <1>6 DEF ForceRotate
  <2>3. CASE ScriptFindsNoRow(u)
    BY <2>1, <2>3, <1>2 DEF ScriptFindsNoRow
  <2>4. CASE ScriptInserts(u)
    <3>1. script.pending = 0
      BY <2>4, <1>1 DEF ScriptInserts, AuditPending
    <3>2. NoScript.pending = 0
      BY DEF NoScript
    <3> QED
      BY <2>1, <2>4, <3>1, <3>2, <1>6 DEF ScriptInserts
  <2> QED
    BY <1>14, <2>2, <2>3, <2>4
<1>15. ASSUME NEW x \in committed, ReturnTicket(x) \/ LoseTicket(x)
       PROVE  UNCHANGED <<script, byAdmin, audited, crashes>>
  BY <1>15 DEF ReturnTicket, LoseTicket, ops
<1> QED
  BY <1>5, <1>7, <1>8, <1>9, <1>10, <1>11, <1>12, <1>13, <1>14, <1>15 DEF Next, vars, ops

-----------------------------------------------------------------------------
(* Theorems.                                                               *)

\* The initial state, with no rows and no draws, satisfies the invariant.
LEMMA SeedsInit == Init => SeedsInv
<1> SUFFICES ASSUME Init PROVE SeedsInv
  OBVIOUS
<1>1. TypeOK
  BY SeedsAssumption DEF Init, TypeOK, NoRow, NoDraw, NoCall, NoScript, SeedIds
<1>2. \A u \in Users : seeds[u] = NoRow /\ seeds[u].seed = 0
  BY DEF Init, NoRow
<1>3. SeedsDistinct
  BY <1>2 DEF Init, SeedsDistinct, HasRow
<1>4. \A d \in Drawers : drawing[d] = NoDraw /\ drawing[d].at = "idle"
  BY DEF Init, NoDraw
<1>5. OneDrawPerUser
  BY <1>4 DEF OneDrawPerUser
<1>6. DrawsDense
  BY <1>2, <1>4 DEF Init, DrawsDense, HasRow
<1>7. TicketsOwned /\ HandedOnce
  BY FS_EmptySet DEF Init, TicketsOwned, HandedOnce, Taken
<1>8. byAdmin \ audited = {} /\ script.pending = 0 /\ crashes = 0
  BY DEF Init, NoScript
<1>9. Cardinality(byAdmin \ audited) = 0
  BY <1>8, FS_EmptySet
<1>10. AuditPending
  BY <1>8, <1>9 DEF Init, AuditPending, RotationsAudited
<1> QED
  BY <1>1, <1>3, <1>5, <1>6, <1>7, <1>10 DEF SeedsInv

\* The invariant holds in every reachable state.
LEMMA SeedsInvariant == Spec => []SeedsInv
<1>1. SeedsInv /\ [Next]_vars => SeedsInv'
  BY TypeStep, DistinctStep, OneDrawStep, DenseStep, HandedStep, OwnedStep, AuditStep DEF SeedsInv
<1> QED
  BY <1>1, SeedsInit, PTL DEF Spec

\* The tables of schema fairness and the calls in progress keep their types:
\* NOT NULL columns are set, and no nonce goes below zero by a roll-back.
THEOREM SeedsTyped == Spec => []TypeOK
<1>1. SeedsInv => TypeOK
  BY DEF SeedsInv
<1> QED
  BY <1>1, SeedsInvariant, PTL

\* next_nonce and rotate_user_seed, for any number of concurrent calls: no nonce is
\* drawn twice, and below the row's nonce (or the history's last_nonce) each one belongs
\* to a ticket that was or will be handed out, or to a call that died after its COMMIT.
THEOREM NoncesUsedOnce == Spec => []NoncesAccounted
<1>1. SeedsInv => NoncesAccounted
  <2> SUFFICES ASSUME SeedsInv PROVE NoncesAccounted
    OBVIOUS
  <2>1. \A u \in Users : HasRow(u) /\ Unlocked(u) => Dense(seeds[u].seed, seeds[u].nonce)
    BY UnlockedDense, DenseMeans
  <2>2. \A h \in history : Dense(h.seed, h.last_nonce)
    BY DenseMeans DEF SeedsInv, DrawsDense
  <2> QED
    BY <2>1, <2>2 DEF NoncesAccounted, Unlocked, SeedsInv, HandedOnce
<1> QED
  BY <1>1, SeedsInvariant, PTL

\* verify.py, which extends the HMAC to 4096 bytes, reads the bytes the decoder has
\* read, whatever the draw's byte_count: _extend and _byte_stream build the same
\* chain as long as the decoder stays within what it asked for.
LEMMA VerifierReadsSame == \A r \in Requests : SameBytes(r)
<1> SUFFICES ASSUME NEW r \in Requests, NEW i \in 1 .. VerifierLen, i <= r.reads
             PROVE  Stream(r.byte_count, i) = VerifierStream(i)
  BY DEF SameBytes
<1>1. /\ r.byte_count \in Nat /\ r.reads \in Nat /\ HeadLen \in Nat /\ VerifierLen \in Nat
      /\ r.byte_count >= r.reads \/ r.byte_count = HeadLen
  BY DecodersAssumption
<1>2. VerifierStream(i) = Extended(i)
  BY <1>1 DEF VerifierStream, Stream
<1>3. Stream(r.byte_count, i) = Extended(i)
  BY <1>1 DEF Stream, Extended
<1> QED
  BY <1>2, <1>3

\* Every draw can be verified: its seed is the player's live one or is revealed in
\* the player's history with a last_nonce above it, and the verifier reads the bytes
\* the decoder has read.
THEOREM DrawsVerifiable == Spec => []DrawsReproducible
<1>1. SeedsInv => DrawsReproducible
  BY VerifierReadsSame DEF SeedsInv, TicketsOwned, DrawsReproducible, Taken
<1> QED
  BY <1>1, SeedsInvariant, PTL

\* force_rotate.py, which commits a rotation before it writes the audit row: at most
\* one rotation for each time it died, and the one it is at, has no audit row.
THEOREM RotationsOnRecord == Spec => []RotationsAudited
<1>1. SeedsInv => RotationsAudited
  BY DEF SeedsInv, AuditPending
<1> QED
  BY <1>1, SeedsInvariant, PTL

-----------------------------------------------------------------------------
(* The shuffle is fair.  The recursion of Shuffle has one course for each  *)
(* sequence of picks; a slot is settled by its own swap, so different      *)
(* picks end in different selections, and the pick for any selection can   *)
(* be found slot by slot.  Inductions run over the set of the indices for  *)
(* which a fact holds, from the top down.                                  *)

\* A set of naturals has a least one.
LEMMA LeastNumber ==
  ASSUME NEW T \in SUBSET Nat, T # {}
  PROVE  \E m \in T : \A k \in T : m <= k
<1>1. PICK m \in T : \A k \in T : ~ (<<k, m>> \in OpToRel(<, Nat))
  BY NatLessThanWellFounded, WFMin
<1>2. \A k \in T : ~ (k < m)
  <2> SUFFICES ASSUME NEW k \in T, k < m PROVE FALSE
    OBVIOUS
  <2>1. <<k, m>> \in OpToRel(<, Nat)
    BY DEF OpToRel
  <2> QED
    BY <1>1, <2>1
<1> QED
  BY <1>2

\* What holds for n, and for i when it holds for i + 1, holds down to b.
LEMMA Downwards ==
  ASSUME NEW b \in Nat, NEW n \in Nat, NEW S, b <= n, n \in S,
         \A i \in b .. n - 1 : i + 1 \in S => i \in S
  PROVE  b .. n \subseteq S
<1> DEFINE T == {d \in 0 .. n - b : n - d \notin S}
<1>1. ASSUME T # {} PROVE FALSE
  <2>1. PICK d \in T : \A k \in T : d <= k
    <3>1. T \in SUBSET Nat
      OBVIOUS
    <3> HIDE DEF T
    <3> QED
      BY <1>1, <3>1, LeastNumber
  <2>2. d \in 0 .. n - b /\ n - d \notin S
    OBVIOUS
  <2>3. d # 0
    BY <2>2
  <2>4. d - 1 \in 0 .. n - b /\ d - 1 \notin T
    BY <2>1, <2>2, <2>3
  <2>5. n - d \in b .. n - 1 /\ (n - d) + 1 = n - (d - 1)
    BY <2>2, <2>3
  <2>6. (n - d) + 1 \in S
    BY <2>4, <2>5
  <2> QED
    BY <2>2, <2>5, <2>6
<1>2. ASSUME NEW i \in b .. n PROVE i \in S
  <2>1. n - i \in 0 .. n - b /\ n - (n - i) = i
    OBVIOUS
  <2>2. n - i \notin T
    BY <1>1
  <2> QED
    BY <2>1, <2>2
<1> QED
  BY <1>2

-----------------------------------------------------------------------------
(* The course of a shuffle.                                                *)

\* g has the arrays that a shuffle goes through, from index n down to b.
Course(g, a, n, b, picks) ==
  g = [i \in b .. n |-> IF i = n THEN a ELSE Swap(g[i + 1], i, Pick(picks[i], i))]

\* The picks for the indices from b, reduced.
Picks(n, b) == {p \in [b .. n - 1 -> 0 .. n - 1] : \A i \in DOMAIN p : p[i] <= i}

Perms(n) == {f \in [0 .. n - 1 -> 0 .. n - 1] : \A x, y \in 0 .. n - 1 : f[x] = f[y] => x = y}

\* A course goes one swap further.
LEMMA CourseGoesOn ==
  ASSUME NEW n \in Nat, NEW b \in Nat, b < n, NEW a, NEW p, NEW q, NEW g,
         Course(g, a, n, b + 1, p), \A i \in b + 1 .. n - 1 : q[i] = p[i]
  PROVE  \E h : Course(h, a, n, b, q) /\ h[b] = Swap(g[b + 1], b, Pick(q[b], b))
<1> DEFINE h == [i \in b .. n |-> IF i = b THEN Swap(g[b + 1], b, Pick(q[b], b)) ELSE g[i]]
<1>1. \A i \in b + 1 .. n :
        g[i] = IF i = n THEN a ELSE Swap(g[i + 1], i, Pick(p[i], i))
  BY DEF Course
<1>2. ASSUME NEW i \in b .. n
      PROVE  h[i] = IF i = n THEN a ELSE Swap(h[i + 1], i, Pick(q[i], i))
  <2>1. CASE i = b
    <3>1. i # n /\ i + 1 \in b .. n /\ i + 1 # b
      BY <2>1
    <3>2. h[i + 1] = g[b + 1]
      BY <2>1, <3>1
    <3> QED
      BY <2>1, <3>1, <3>2
  <2>2. CASE i # b /\ i # n
    <3>1. i \in b + 1 .. n - 1 /\ i \in b + 1 .. n /\ i + 1 \in b .. n /\ i + 1 # b
      BY <2>2
    <3>2. h[i] = g[i] /\ h[i + 1] = g[i + 1] /\ q[i] = p[i]
      BY <2>2, <3>1
    <3>3. g[i] = Swap(g[i + 1], i, Pick(p[i], i))
      BY <1>1, <2>2, <3>1
    <3> QED
      BY <2>2, <3>2, <3>3
  <2>3. CASE i = n
    BY <1>1, <2>3
  <2> QED
    BY <2>1, <2>2, <2>3
<1>3. h = [i \in b .. n |-> h[i]] /\ h[b] = Swap(g[b + 1], b, Pick(q[b], b))
  OBVIOUS
<1> HIDE DEF h
<1>4. Course(h, a, n, b, q)
  BY <1>2, <1>3 DEF Course
<1> QED
  BY <1>3, <1>4

\* Every shuffle has a course: the recursion in Shuffle is well defined.
LEMMA CourseExists ==
  ASSUME NEW n \in Nat, NEW b \in Nat, b <= n, NEW a, NEW p
  PROVE  \E g : Course(g, a, n, b, p)
<1> DEFINE S == {i \in b .. n : \E g : Course(g, a, n, i, p)}
<1>1. n \in S
  <2> DEFINE g == [i \in n .. n |-> a]
  <2>1. g = [i \in n .. n |-> IF i = n THEN a ELSE Swap(g[i + 1], i, Pick(p[i], i))]
    OBVIOUS
  <2>2. Course(g, a, n, n, p)
    BY <2>1 DEF Course
  <2> HIDE DEF g
  <2> QED
    BY <2>2
<1>2. ASSUME NEW i \in b .. n - 1, i + 1 \in S PROVE i \in S
  <2>1. PICK g : Course(g, a, n, i + 1, p)
    BY <1>2
  <2>2. i \in Nat /\ i < n /\ i \in b .. n
    OBVIOUS
  <2> HIDE DEF S
  <2>3. \E h : Course(h, a, n, i, p)
    BY <2>1, <2>2, CourseGoesOn
  <2> QED
    BY <2>2, <2>3 DEF S
<1> HIDE DEF S
<1>3. b .. n \subseteq S
  BY <1>1, <1>2, Downwards
<1> QED
  BY <1>3 DEF S

\* ... and Shuffle returns where it ends.
LEMMA ShuffleEnds ==
  ASSUME NEW n \in Nat, NEW b \in Nat, b <= n, NEW a, NEW p
  PROVE  \E g : Course(g, a, n, b, p) /\ Shuffle(a, n, b, p) = g[b]
<1> DEFINE after == CHOOSE g : Course(g, a, n, b, p)
<1>1. Course(after, a, n, b, p)
  BY CourseExists
<1>2. Shuffle(a, n, b, p) = after[b]
  BY DEF Shuffle, Course
<1> QED
  BY <1>1, <1>2
\* A course, index by index.
LEMMA CourseSteps ==
  ASSUME NEW n \in Nat, NEW b \in Nat, b <= n, NEW a, NEW g, NEW p \in Picks(n, b),
         Course(g, a, n, b, p)
  PROVE  /\ g[n] = a
         /\ \A i \in b .. n - 1 : g[i] = Swap(g[i + 1], i, p[i]) /\ p[i] \in 0 .. i
<1>1. \A i \in b .. n : g[i] = IF i = n THEN a ELSE Swap(g[i + 1], i, Pick(p[i], i))
  BY DEF Course
<1>2. g[n] = a
  BY <1>1
<1>3. ASSUME NEW i \in b .. n - 1
      PROVE  g[i] = Swap(g[i + 1], i, p[i]) /\ p[i] \in 0 .. i
  <2>1. p[i] \in 0 .. i /\ i \in Nat
    BY DEF Picks
  <2>2. p[i] % (i + 1) = p[i]
    BY <2>1
  <2>3. Pick(p[i], i) = p[i]
    BY <2>2 DEF Pick
  <2>4. i \in b .. n /\ i # n
    OBVIOUS
  <2> QED
    BY <1>1, <2>1, <2>3, <2>4
<1> QED
  BY <1>2, <1>3

\* There is one course only.
LEMMA CourseUnique ==
  ASSUME NEW n \in Nat, NEW b \in Nat, b <= n, NEW a, NEW g, NEW h, NEW p \in Picks(n, b),
         Course(g, a, n, b, p), Course(h, a, n, b, p)
  PROVE  g = h
<1> DEFINE S == {i \in b .. n : g[i] = h[i]}
<1>1. n \in S
  BY CourseSteps
<1>2. ASSUME NEW i \in b .. n - 1, i + 1 \in S PROVE i \in S
  <2>1. g[i + 1] = h[i + 1] /\ i \in b .. n
    BY <1>2
  <2>2. g[i] = h[i]
    BY <2>1, CourseSteps
  <2> QED
    BY <2>1, <2>2
<1>3. b .. n \subseteq S
  <2> HIDE DEF S
  <2> QED
    BY <1>1, <1>2, Downwards
<1>4. \A i \in b .. n : g[i] = h[i]
  BY <1>3
<1>5. /\ g = [i \in b .. n |-> IF i = n THEN a ELSE Swap(g[i + 1], i, Pick(p[i], i))]
      /\ h = [i \in b .. n |-> IF i = n THEN a ELSE Swap(h[i + 1], i, Pick(p[i], i))]
  BY Zenon DEF Course
<1>6. g = [i \in b .. n |-> g[i]] /\ h = [i \in b .. n |-> h[i]]
  BY <1>5
<1> QED
  BY <1>4, <1>6

\* A swap of a permutation is one.
LEMMA SwapArranges ==
  ASSUME NEW n \in Nat, NEW a \in Perms(n), NEW i \in 0 .. n - 1, NEW j \in 0 .. n - 1
  PROVE  Swap(a, i, j) \in Perms(n)
<1> DEFINE s == Swap(a, i, j)
           other == [x \in 0 .. n - 1 |-> IF x = i THEN j ELSE IF x = j THEN i ELSE x]
<1>1. a \in [0 .. n - 1 -> 0 .. n - 1]
  BY DEF Perms
<1>2. /\ s \in [0 .. n - 1 -> 0 .. n - 1] /\ s[i] = a[j] /\ s[j] = a[i]
      /\ \A x \in 0 .. n - 1 : x # i /\ x # j => s[x] = a[x]
  BY <1>1 DEF Swap
<1>3. \A x, y \in 0 .. n - 1 : a[x] = a[y] => x = y
  BY DEF Perms
<1> HIDE DEF s
<1>4. ASSUME NEW x \in 0 .. n - 1, NEW y \in 0 .. n - 1, s[x] = s[y] PROVE x = y
  <2>1. s[x] = a[other[x]] /\ s[y] = a[other[y]]
    BY <1>2
  <2>2. other[x] \in 0 .. n - 1 /\ other[y] \in 0 .. n - 1
    OBVIOUS
  <2>3. other[x] = other[y]
    BY <1>3, <1>4, <2>1, <2>2
  <2> QED
    BY <2>3
<1>5. s \in Perms(n)
  BY <1>2, <1>4 DEF Perms
<1> QED
  BY <1>5 DEF s

\* All of 0 .. n - 1 stays in the array.
LEMMA CourseArranges ==
  ASSUME NEW n \in Nat, NEW b \in Nat, b <= n, NEW g, NEW p \in Picks(n, b),
         Course(g, Identity(n), n, b, p)
  PROVE  \A i \in b .. n : g[i] \in Perms(n)
<1> DEFINE S == {i \in b .. n : g[i] \in Perms(n)}
<1>1. n \in S
  <2>1. Identity(n) \in Perms(n)
    BY DEF Identity, Perms
  <2> QED
    BY <2>1, CourseSteps
<1>2. ASSUME NEW i \in b .. n - 1, i + 1 \in S PROVE i \in S
  <2>1. i \in b .. n /\ g[i + 1] \in Perms(n)
    BY <1>2
  <2>2. g[i] = Swap(g[i + 1], i, p[i]) /\ p[i] \in 0 .. n - 1 /\ i \in 0 .. n - 1
    BY CourseSteps
  <2> QED
    BY <2>1, <2>2, SwapArranges
<1> HIDE DEF S
<1>3. b .. n \subseteq S
  BY <1>1, <1>2, Downwards
<1> QED
  BY <1>3 DEF S

\* A permutation leaves nothing out.
LEMMA PermsAreOnto ==
  ASSUME NEW n \in Nat, NEW f \in Perms(n), NEW v \in 0 .. n - 1
  PROVE  \E x \in 0 .. n - 1 : f[x] = v
<1>1. f \in Injection(0 .. n - 1, 0 .. n - 1)
  BY DEF Perms, Injection, IsInjective
<1>2. IsFiniteSet(0 .. n - 1)
  BY FS_Interval
<1>3. f \in Surjection(0 .. n - 1, 0 .. n - 1)
  BY <1>1, <1>2, FS_Injection
<1> QED
  BY <1>3 DEF Surjection

\* A slot is settled by its own swap: no later one reaches it.
LEMMA SlotSettles ==
  ASSUME NEW n \in Nat, NEW b \in Nat, b <= n, NEW g, NEW p \in Picks(n, b),
         Course(g, Identity(n), n, b, p), NEW j \in b .. n - 1
  PROVE  g[b][j] = g[j + 1][p[j]]
<1>1. \A i \in b .. n : g[i] \in [0 .. n - 1 -> 0 .. n - 1]
  BY CourseArranges DEF Perms
<1>2. \A i \in b .. n - 1 : g[i] = Swap(g[i + 1], i, p[i]) /\ p[i] \in 0 .. i
  BY CourseSteps
<1> DEFINE S == {i \in b .. j : g[i][j] = g[j + 1][p[j]]}
<1>3. j \in S
  <2>1. g[j] = Swap(g[j + 1], j, p[j]) /\ p[j] \in 0 .. n - 1 /\ j \in 0 .. n - 1
    BY <1>2
  <2>2. g[j + 1] \in [0 .. n - 1 -> 0 .. n - 1]
    <3>1. j + 1 \in b .. n
      OBVIOUS
    <3> QED
      BY <1>1, <3>1, Zenon
  <2> DEFINE h == g[j + 1]
             k == p[j]
  <2>3. Swap(h, j, k)[j] = h[k]
    <3>1. h \in [0 .. n - 1 -> 0 .. n - 1] /\ j \in 0 .. n - 1 /\ k \in 0 .. n - 1
      BY <2>1, <2>2
    <3> HIDE DEF h, k
    <3> QED
      BY <3>1 DEF Swap
  <2> QED
    BY <2>1, <2>3
<1>4. ASSUME NEW i \in b .. j - 1, i + 1 \in S PROVE i \in S
  <2>1. g[i + 1][j] = g[j + 1][p[j]] /\ i \in b .. j
    BY <1>4
  <2>2. /\ g[i] = Swap(g[i + 1], i, p[i]) /\ p[i] \in 0 .. n - 1 /\ i \in 0 .. n - 1
        /\ j \in 0 .. n - 1 /\ j # i /\ j # p[i]
    BY <1>2
  <2>3. g[i + 1] \in [0 .. n - 1 -> 0 .. n - 1]
    BY <1>1
  <2>4. g[i][j] = g[i + 1][j]
    BY <2>2, <2>3 DEF Swap
  <2> QED
    BY <2>1, <2>4
<1> HIDE DEF S
<1>5. b .. j \subseteq S
  BY <1>3, <1>4, Downwards
<1>6. b \in S
  BY <1>5
<1> QED
  BY <1>6 DEF S

\* Different picks settle some slot differently.
LEMMA SlotsTellPicks ==
  ASSUME NEW n \in Nat, NEW b \in Nat, b <= n,
         NEW p \in Picks(n, b), NEW q \in Picks(n, b), NEW g, NEW h,
         Course(g, Identity(n), n, b, p), Course(h, Identity(n), n, b, q),
         \A j \in b .. n - 1 : g[b][j] = h[b][j]
  PROVE  p = q
<1> DEFINE S == {i \in b .. n : g[i] = h[i] /\ \A j \in i .. n - 1 : p[j] = q[j]}
<1>1. n \in S
  BY CourseSteps
<1>2. ASSUME NEW i \in b .. n - 1, i + 1 \in S PROVE i \in S
  <2>1. g[i + 1] = h[i + 1] /\ (\A j \in i + 1 .. n - 1 : p[j] = q[j]) /\ i \in b .. n
    BY <1>2
  <2>2. g[i + 1][p[i]] = h[i + 1][q[i]]
    BY SlotSettles
  <2>3. p[i] \in 0 .. n - 1 /\ q[i] \in 0 .. n - 1
    BY CourseSteps
  <2>4. g[i + 1] \in Perms(n)
    BY CourseArranges
  <2>5. p[i] = q[i]
    BY <2>1, <2>2, <2>3, <2>4 DEF Perms
  <2>6. g[i] = h[i]
    BY <2>1, <2>5, CourseSteps
  <2>7. \A j \in i .. n - 1 : p[j] = q[j]
    BY <2>1, <2>5
  <2> QED
    BY <2>1, <2>6, <2>7
<1>3. b .. n \subseteq S
  <2> HIDE DEF S
  <2> QED
    BY <1>1, <1>2, Downwards
<1>4. \A j \in b .. n - 1 : p[j] = q[j]
  BY <1>3
<1> QED
  BY <1>4 DEF Picks

\* Some picks settle the slots from b on as f has them.
Reached(n, b, f) ==
  \E p \in Picks(n, b) : \E g :
    /\ Course(g, Identity(n), n, b, p)
    /\ \A j \in b .. n - 1 : g[b][j] = f[j]

\* One more pick puts any value that is left into the next slot.
LEMMA NextSlot ==
  ASSUME NEW n \in Nat, NEW m \in Nat, NEW b \in m .. n - 1,
         NEW f \in [m .. n - 1 -> 0 .. n - 1], \A x, y \in m .. n - 1 : f[x] = f[y] => x = y,
         Reached(n, b + 1, f)
  PROVE  Reached(n, b, f)
<1>p. PICK p \in Picks(n, b + 1) :
        \E g : /\ Course(g, Identity(n), n, b + 1, p)
               /\ \A j \in b + 1 .. n - 1 : g[b + 1][j] = f[j]
  BY DEF Reached
<1>0. PICK g : /\ Course(g, Identity(n), n, b + 1, p)
               /\ \A j \in b + 1 .. n - 1 : g[b + 1][j] = f[j]
  BY <1>p
<1>1. g[b + 1] \in Perms(n) /\ b \in 0 .. n - 1 /\ b \in Nat /\ b < n /\ b \in b .. n - 1
  BY <1>0, CourseArranges
<1>2. f[b] \in 0 .. n - 1
  BY <1>1
<1>3. PICK x \in 0 .. n - 1 : g[b + 1][x] = f[b]
  <2> DEFINE a == g[b + 1]
             v == f[b]
  <2>0. \A h \in Perms(n) : \A w \in 0 .. n - 1 : \E x \in 0 .. n - 1 : h[x] = w
    BY PermsAreOnto
  <2>1. a \in Perms(n) /\ v \in 0 .. n - 1
    BY <1>1, <1>2
  <2> HIDE DEF a, v
  <2>2. \E x \in 0 .. n - 1 : a[x] = v
    BY <2>0, <2>1
  <2> QED
    BY <2>2 DEF a, v
<1>4. x <= b
  <2> SUFFICES ASSUME x > b PROVE FALSE
    OBVIOUS
  <2>1. x \in b + 1 .. n - 1 /\ x \in m .. n - 1
    OBVIOUS
  <2>2. f[x] = f[b]
    BY <1>0, <1>3, <2>1
  <2> QED
    BY <1>1, <2>1, <2>2
<1> DEFINE q == [i \in b .. n - 1 |-> IF i = b THEN x ELSE p[i]]
<1>5. q \in Picks(n, b)
  <2>1. ASSUME NEW i \in b .. n - 1 PROVE q[i] \in 0 .. n - 1 /\ q[i] <= i
    <3>1. CASE i = b
      BY <1>4, <3>1
    <3>2. CASE i # b
      <4>1. i \in b + 1 .. n - 1
        BY <3>2
      <4>2. p[i] \in 0 .. n - 1 /\ p[i] <= i
        BY <4>1 DEF Picks
      <4> QED
        BY <3>2, <4>2
    <3> QED
      BY <3>1, <3>2
  <2> QED
    BY <2>1 DEF Picks
<1>6. q[b] = x /\ \A i \in b + 1 .. n - 1 : q[i] = p[i]
  BY <1>1
<1> HIDE DEF q
<1>7. PICK h : Course(h, Identity(n), n, b, q) /\ h[b] = Swap(g[b + 1], b, Pick(q[b], b))
  BY <1>0, <1>6, CourseGoesOn
<1>8. Pick(q[b], b) = x
  <2>1. x \in 0 .. b /\ b \in Nat
    BY <1>1, <1>4
  <2>2. x % (b + 1) = x
    <3> HIDE DEF q
    <3> QED
      BY <2>1
  <2> QED
    BY <1>6, <2>2 DEF Pick
<1>9. ASSUME NEW j \in b .. n - 1 PROVE h[b][j] = f[j]
  <2>1. g[b + 1] \in [0 .. n - 1 -> 0 .. n - 1]
    BY <1>1 DEF Perms
  <2>0. j \in 0 .. n - 1
    OBVIOUS
  <2>2. CASE j = b
    BY <1>1, <1>3, <1>7, <1>8, <2>0, <2>1, <2>2 DEF Swap
  <2>3. CASE j # b
    <3>1. j # x /\ h[b] = Swap(g[b + 1], b, x)
      BY <1>4, <1>7, <1>8, <2>3
    <3>2. h[b][j] = g[b + 1][j]
      BY <2>0, <2>1, <2>3, <3>1 DEF Swap
    <3> QED
      BY <1>0, <2>3, <3>2
  <2> QED
    BY <2>2, <2>3
<1> QED
  BY <1>5, <1>7, <1>9 DEF Reached

\* Some picks settle the slots as wanted.
LEMMA PicksForSlots ==
  ASSUME NEW n \in Nat, NEW b \in Nat, b <= n,
         NEW f \in [b .. n - 1 -> 0 .. n - 1], \A x, y \in b .. n - 1 : f[x] = f[y] => x = y
  PROVE  Reached(n, b, f)
<1> DEFINE S == {i \in b .. n : Reached(n, i, f)}
<1>1. n \in S
  <2> DEFINE p == [i \in n .. n - 1 |-> 0]
  <2>1. p \in Picks(n, n)
    BY DEF Picks
  <2> HIDE DEF p
  <2>2. PICK g : Course(g, Identity(n), n, n, p)
    BY CourseExists
  <2>3. n \in b .. n /\ \A j \in n .. n - 1 : g[n][j] = f[j]
    OBVIOUS
  <2> QED
    BY <2>1, <2>2, <2>3 DEF Reached
<1>2. ASSUME NEW i \in b .. n - 1, i + 1 \in S PROVE i \in S
  <2>1. Reached(n, i + 1, f) /\ i \in b .. n
    BY <1>2
  <2> QED
    BY <2>1, NextSlot
<1> HIDE DEF S
<1>3. b .. n \subseteq S
  BY <1>1, <1>2, Downwards
<1>4. b \in S
  BY <1>3
<1> QED
  BY <1>4 DEF S

-----------------------------------------------------------------------------
(* Selections.                                                             *)

\* How far a selection of k out of n shuffles.
LEMMA Bounds ==
  ASSUME NEW n \in Nat \ {0}, NEW k \in 1 .. n
  PROVE  /\ Bound(n, k) \in 1 .. n /\ n - k <= Bound(n, k)
         /\ Bound(n, k) # n - k => Bound(n, k) = 1 /\ k = n
         /\ PickSequences(n, k) = Picks(n, Bound(n, k))
<1>1. PickSequences(n, k) = Picks(n, Bound(n, k))
  BY Zenon DEF PickSequences, Picks
<1>2. /\ Bound(n, k) \in 1 .. n /\ n - k <= Bound(n, k)
      /\ Bound(n, k) # n - k => Bound(n, k) = 1 /\ k = n
  BY DEF Bound
<1> QED
  BY <1>1, <1>2

\* FisherYatesPartial reads the end of the course.
LEMMA SelectionEnds ==
  ASSUME NEW n \in Nat \ {0}, NEW k \in 1 .. n, NEW p \in PickSequences(n, k), NEW g,
         Course(g, Identity(n), n, Bound(n, k), p)
  PROVE  /\ FisherYatesPartial(n, k, p) = [m \in 1 .. k |-> g[Bound(n, k)][n - m]]
         /\ g[Bound(n, k)] \in Perms(n)
<1> DEFINE b == Bound(n, k)
<1>1. b \in Nat /\ b <= n /\ p \in Picks(n, b)
  BY Bounds
<1> HIDE DEF b
<1>2. Course(g, Identity(n), n, b, p)
  BY DEF b
<1>3. PICK h : Course(h, Identity(n), n, b, p) /\ Shuffle(Identity(n), n, b, p) = h[b]
  BY <1>1, ShuffleEnds
<1>4. h = g
  BY <1>1, <1>2, <1>3, CourseUnique
<1>5. FisherYatesPartial(n, k, p) = [m \in 1 .. k |-> Shuffle(Identity(n), n, b, p)[n - m]]
  BY DEF FisherYatesPartial, b
<1>6. g[b] \in Perms(n)
  BY <1>1, <1>2, CourseArranges
<1> QED
  BY <1>3, <1>4, <1>5, <1>6 DEF b

\* What is selected is selected once.
LEMMA SelectionArranges ==
  ASSUME NEW n \in Nat \ {0}, NEW k \in 1 .. n, NEW p \in PickSequences(n, k)
  PROVE  FisherYatesPartial(n, k, p) \in Arrangements(n, k)
<1> DEFINE b == Bound(n, k)
<1>1. b \in Nat /\ b <= n
  BY Bounds
<1>2. PICK g : Course(g, Identity(n), n, b, p)
  BY <1>1, CourseExists
<1> DEFINE a == g[b]
<1>3. FisherYatesPartial(n, k, p) = [m \in 1 .. k |-> a[n - m]] /\ a \in Perms(n)
  BY <1>2, SelectionEnds
<1> HIDE DEF a, b
<1>4. \A m \in 1 .. k : n - m \in 0 .. n - 1
  OBVIOUS
<1>5. \A x, y \in 1 .. k : a[n - x] = a[n - y] => x = y
  <2> SUFFICES ASSUME NEW x \in 1 .. k, NEW y \in 1 .. k, a[n - x] = a[n - y] PROVE x = y
    OBVIOUS
  <2>1. n - x = n - y
    BY <1>3, <1>4 DEF Perms
  <2> QED
    BY <2>1
<1>6. \A m \in 1 .. k : a[n - m] \in 0 .. n - 1
  BY <1>3, <1>4 DEF Perms
<1> DEFINE r == [m \in 1 .. k |-> a[n - m]]
<1>7. r \in Arrangements(n, k)
  BY <1>5, <1>6 DEF Arrangements
<1> QED
  BY <1>3, <1>7

\* Different picks select differently.
LEMMA SelectionTellsPicks ==
  ASSUME NEW n \in Nat \ {0}, NEW k \in 1 .. n,
         NEW p \in PickSequences(n, k), NEW q \in PickSequences(n, k),
         FisherYatesPartial(n, k, p) = FisherYatesPartial(n, k, q)
  PROVE  p = q
<1> DEFINE b == Bound(n, k)
<1>1. b \in 1 .. n /\ n - k <= b /\ p \in Picks(n, b) /\ q \in Picks(n, b)
  BY Bounds
<1>2. b \in Nat /\ b <= n
  BY <1>1
<1>3. PICK g : Course(g, Identity(n), n, b, p)
  BY <1>2, CourseExists
<1>4. PICK h : Course(h, Identity(n), n, b, q)
  BY <1>2, CourseExists
<1>5. /\ FisherYatesPartial(n, k, p) = [m \in 1 .. k |-> g[b][n - m]]
      /\ FisherYatesPartial(n, k, q) = [m \in 1 .. k |-> h[b][n - m]]
  BY <1>3, <1>4, SelectionEnds
<1> HIDE DEF b
<1>6. \A m \in 1 .. k : g[b][n - m] = h[b][n - m]
  BY <1>5
<1>7. ASSUME NEW j \in b .. n - 1 PROVE g[b][j] = h[b][j]
  <2>1. n - j \in 1 .. k /\ n - (n - j) = j
    BY <1>1
  <2> QED
    BY <1>6, <2>1
<1> QED
  BY <1>1, <1>2, <1>3, <1>4, <1>7, SlotsTellPicks

\* Every selection is some picks'.
LEMMA SelectionPossible ==
  ASSUME NEW n \in Nat \ {0}, NEW k \in 1 .. n, NEW f \in Arrangements(n, k)
  PROVE  \E p \in PickSequences(n, k) : FisherYatesPartial(n, k, p) = f
<1> DEFINE b == Bound(n, k)
           e == [j \in b .. n - 1 |-> f[n - j]]
<1>1. b \in 1 .. n /\ n - k <= b /\ (b # n - k => b = 1 /\ k = n)
  BY Bounds
<1>2. b \in Nat /\ b <= n
  BY <1>1
<1>3. PickSequences(n, k) = Picks(n, b)
  BY Bounds
<1>4. f \in [1 .. k -> 0 .. n - 1] /\ \A x, y \in 1 .. k : f[x] = f[y] => x = y
  BY DEF Arrangements
<1> HIDE DEF b
<1>5. \A j \in b .. n - 1 : n - j \in 1 .. k
  BY <1>1
<1>6. e \in [b .. n - 1 -> 0 .. n - 1]
  BY <1>4, <1>5
<1>7. \A x, y \in b .. n - 1 : e[x] = e[y] => x = y
  <2> SUFFICES ASSUME NEW x \in b .. n - 1, NEW y \in b .. n - 1, e[x] = e[y] PROVE x = y
    OBVIOUS
  <2>1. n - x = n - y
    BY <1>4, <1>5
  <2>2. x \in Int /\ y \in Int
    BY <1>1
  <2> QED
    BY <2>1, <2>2
<1>8. \A j \in b .. n - 1 : e[j] = f[n - j]
  OBVIOUS
<1> HIDE DEF e
<1>9. Reached(n, b, e)
  BY <1>2, <1>6, <1>7, PicksForSlots
<1>p. PICK p \in Picks(n, b) :
        \E g : /\ Course(g, Identity(n), n, b, p)
               /\ \A j \in b .. n - 1 : g[b][j] = e[j]
  BY <1>9 DEF Reached
<1>10. PICK g : /\ Course(g, Identity(n), n, b, p)
                /\ \A j \in b .. n - 1 : g[b][j] = e[j]
  BY <1>p
<1> DEFINE a == g[b]
<1>11. FisherYatesPartial(n, k, p) = [m \in 1 .. k |-> a[n - m]] /\ a \in Perms(n)
  BY <1>3, <1>10, SelectionEnds DEF b
<1>12. \A j \in b .. n - 1 : a[j] = f[n - j]
  BY <1>8, <1>10
<1> HIDE DEF a
<1>13. ASSUME NEW m \in 1 .. k PROVE a[n - m] = f[m]
  <2>1. CASE n - m >= b
    <3>1. n - m \in b .. n - 1 /\ n - (n - m) = m
      BY <2>1
    <3> QED
      BY <1>12, <3>1
  <2>2. CASE n - m < b
    <3>1. m = n /\ k = n /\ b = 1 /\ n - m = 0
      BY <1>1, <2>2
    <3>2. f[n] \in 0 .. n - 1 /\ n \in 1 .. k
      BY <1>4, <3>1
    <3> DEFINE v == f[n]
    <3>3. v \in 0 .. n - 1
      BY <3>2
    <3> HIDE DEF v
    <3>4. PICK x \in 0 .. n - 1 : a[x] = v
      <4>1. a \in Perms(n) /\ n \in Nat
        BY <1>11
      <4> QED
        BY <3>3, <4>1, PermsAreOnto, Zenon
    <3>5. ASSUME x # 0 PROVE FALSE
      <4>1. x \in b .. n - 1 /\ n - x \in 1 .. k /\ n - x # n
        BY <3>1, <3>5
      <4>2. f[n - x] = f[n]
        BY <1>12, <3>4, <4>1 DEF v
      <4> QED
        BY <1>4, <3>2, <4>1, <4>2
    <3> QED
      BY <3>1, <3>4, <3>5 DEF v
  <2> QED
    BY <1>1, <2>1, <2>2
<1>14. [m \in 1 .. k |-> a[n - m]] = f
  BY <1>4, <1>13
<1> QED
  BY <1>3, <1>10, <1>11, <1>14

-----------------------------------------------------------------------------
(* Counting.                                                               *)

\* Functions between finite sets are finitely many: their graphs are sets of pairs.
LEMMA FunctionsFinite ==
  ASSUME NEW S, IsFiniteSet(S), NEW T, IsFiniteSet(T)
  PROVE  IsFiniteSet([S -> T])
<1> DEFINE graph == [f \in [S -> T] |-> {<<x, f[x]>> : x \in S}]
           F == [S -> T]
           G == SUBSET (S \X T)
<1>1. IsFiniteSet(G)
  BY FS_Product, FS_SUBSET
<1>2. \A f \in F : graph[f] \in G
  OBVIOUS
<1>3. ASSUME NEW f \in F, NEW h \in F, graph[f] = graph[h] PROVE f = h
  <2>1. ASSUME NEW x \in S PROVE f[x] = h[x]
    <3>1. <<x, f[x]>> \in {<<y, h[y]>> : y \in S}
      BY <1>3
    <3> QED
      BY <3>1
  <2> QED
    BY <2>1
<1>4. graph \in [F -> G]
  BY <1>2
<1> HIDE DEF graph, G, F
<1>5. graph \in Injection(F, G)
  BY <1>3, <1>4 DEF Injection, IsInjective
<1>6. IsFiniteSet(F)
  BY <1>1, <1>5, FS_Injection
<1> QED
  BY <1>6 DEF F

\* The numbers that a decoder can pull are finitely many.
LEMMA PicksFinite ==
  ASSUME NEW n \in Nat, NEW k \in Nat
  PROVE  IsFiniteSet(PickSequences(n, k))
<1> DEFINE b == Bound(n, k)
           F == [b .. n - 1 -> 0 .. n - 1]
<1>1. b \in Int /\ 0 \in Int /\ n - 1 \in Int
  BY DEF Bound
<1>2. IsFiniteSet(b .. n - 1) /\ IsFiniteSet(0 .. n - 1)
  <2> HIDE DEF b
  <2> QED
    BY <1>1, FS_Interval
<1>3. IsFiniteSet(F)
  BY <1>2, FunctionsFinite
<1>4. PickSequences(n, k) \in SUBSET F
  BY DEF PickSequences
<1> HIDE DEF F
<1> QED
  BY <1>3, <1>4, FS_Subset

\* A decoder that is one to one is fair.
LEMMA OneToOneIsFair ==
  ASSUME NEW S, IsFiniteSet(S), NEW V, NEW d \in [S -> V],
         \A p, q \in S : d[p] = d[q] => p = q,
         \A v \in V : \E p \in S : d[p] = v
  PROVE  Fair(d, V)
<1>1. DOMAIN d = S /\ Range(d) = V
  BY DEF Range
<1>2. d \in Bijection(S, V)
  BY DEF Bijection, Injection, Surjection, IsInjective
<1>3. Cardinality(V) = Cardinality(S) /\ Cardinality(V) \in Nat
  BY <1>2, FS_Bijection, FS_CardinalityType DEF ExistsBijection
<1>4. ASSUME NEW v \in V PROVE Cardinality({p \in S : d[p] = v}) = 1
  <2>1. PICK p \in S : d[p] = v
    OBVIOUS
  <2>2. {q \in S : d[q] = v} = {p}
    BY <2>1
  <2> QED
    BY <2>2, FS_Singleton
<1> QED
  BY <1>1, <1>3, <1>4 DEF Fair

\* A selection of k out of n, for any of the games.
LEMMA SelectionFair ==
  ASSUME NEW n \in Nat \ {0}, NEW k \in 1 .. n
  PROVE  Fair([p \in PickSequences(n, k) |-> FisherYatesPartial(n, k, p)], Arrangements(n, k))
<1> DEFINE d == [p \in PickSequences(n, k) |-> FisherYatesPartial(n, k, p)]
           S == PickSequences(n, k)
           V == Arrangements(n, k)
<1>1. IsFiniteSet(S)
  BY PicksFinite
<1>2. \A p \in S : d[p] = FisherYatesPartial(n, k, p)
  OBVIOUS
<1>3. d \in [S -> V]
  BY SelectionArranges
<1>4. \A p, q \in S : d[p] = d[q] => p = q
  BY <1>2, SelectionTellsPicks
<1>5. \A v \in V : \E p \in S : d[p] = v
  BY <1>2, SelectionPossible
<1> HIDE DEF d, S, V
<1>6. Fair(d, V)
  BY <1>1, <1>3, <1>4, <1>5, OneToOneIsFair
<1> QED
  BY <1>6 DEF d, S, V

\* decode_mines_positions: every selection of mines, from one sequence of picks each.
LEMMA MinesAreFair == MinesFair
<1> SUFFICES ASSUME NEW grid \in Grids, NEW mines \in 1 .. grid - 1
             PROVE  Fair([p \in PickSequences(grid, mines) |-> DecodeMinesPositions(mines, grid, p)],
                         Arrangements(grid, mines))
  BY DEF MinesFair
<1>1. grid \in Nat \ {0} /\ mines \in 1 .. grid
  BY DecodersAssumption
<1>2. [p \in PickSequences(grid, mines) |-> DecodeMinesPositions(mines, grid, p)]
        = [p \in PickSequences(grid, mines) |-> FisherYatesPartial(grid, mines, p)]
  BY DEF DecodeMinesPositions
<1> QED
  BY <1>1, <1>2, SelectionFair

\* decode_raffle_winners: the same for three winners, also of exactly three tickets.
LEMMA WinnersAreFair == WinnersFair
<1> SUFFICES ASSUME NEW n \in Grids, n >= 3
             PROVE  Fair([p \in PickSequences(n, 3) |-> DecodeRaffleWinners(n, p)],
                         Arrangements(n, 3))
  BY DEF WinnersFair
<1>1. n \in Nat \ {0} /\ 3 \in 1 .. n
  BY DecodersAssumption
<1>2. [p \in PickSequences(n, 3) |-> DecodeRaffleWinners(n, p)]
        = [p \in PickSequences(n, 3) |-> FisherYatesPartial(n, 3, p)]
  BY DEF DecodeRaffleWinners
<1> QED
  BY <1>1, <1>2, SelectionFair

-----------------------------------------------------------------------------
(* Shoes.                                                                  *)

\* What s has, in the order f.
Reordered(s, n, f) == [j \in 0 .. n - 1 |-> s[f[j]]]

\* Shuffling s reorders it as the same picks reorder the indices.
LEMMA CourseReorders ==
  ASSUME NEW n \in Nat, NEW b \in Nat, b <= n, NEW p \in Picks(n, b), NEW g, NEW h,
         NEW s, s = [j \in 0 .. n - 1 |-> s[j]],
         Course(g, Identity(n), n, b, p), Course(h, s, n, b, p)
  PROVE  \A i \in b .. n : h[i] = Reordered(s, n, g[i])
<1> DEFINE S == {i \in b .. n : h[i] = Reordered(s, n, g[i])}
<1>1. n \in S
  <2>1. h[n] = s /\ g[n] = Identity(n) /\ n \in b .. n
    BY CourseSteps
  <2>2. Reordered(s, n, Identity(n)) = s
    BY DEF Reordered, Identity
  <2> QED
    BY <2>1, <2>2
<1>2. ASSUME NEW i \in b .. n - 1, i + 1 \in S PROVE i \in S
  <2> DEFINE a == g[i + 1]
             c == h[i + 1]
             x == p[i]
  <2>1. c = Reordered(s, n, a) /\ i \in b .. n
    BY <1>2
  <2>2. g[i] = Swap(a, i, x) /\ h[i] = Swap(c, i, x) /\ x \in 0 .. i
    BY CourseSteps
  <2>3. x \in 0 .. n - 1 /\ i \in 0 .. n - 1
    BY <2>2
  <2>4. a \in [0 .. n - 1 -> 0 .. n - 1]
    BY CourseArranges DEF Perms
  <2> HIDE DEF a, c, x
  <2>5. Swap(c, i, x) = Reordered(s, n, Swap(a, i, x))
    <3>1. Swap(c, i, x) = [j \in 0 .. n - 1 |-> IF j = x THEN c[i] ELSE IF j = i THEN c[x] ELSE c[j]]
      BY <2>1, <2>3 DEF Swap, Reordered
    <3>2. Swap(a, i, x) = [j \in 0 .. n - 1 |-> IF j = x THEN a[i] ELSE IF j = i THEN a[x] ELSE a[j]]
      BY <2>3, <2>4 DEF Swap
    <3>3. \A j \in 0 .. n - 1 : c[j] = s[a[j]]
      BY <2>1 DEF Reordered
    <3>4. ASSUME NEW j \in 0 .. n - 1
          PROVE  (IF j = x THEN c[i] ELSE IF j = i THEN c[x] ELSE c[j]) = s[Swap(a, i, x)[j]]
      BY <2>3, <3>2, <3>3
    <3> QED
      BY <3>1, <3>4 DEF Reordered
  <2> QED
    BY <2>1, <2>2, <2>5
<1> HIDE DEF S
<1>3. b .. n \subseteq S
  BY <1>1, <1>2, Downwards
<1> QED
  BY <1>3 DEF S

\* What a whole shuffle makes of the indices.
Shuffled(n, p) == Shuffle(Identity(n), n, 1, p)

\* A shuffle down to index 1, of the indices and of anything else.
LEMMA WholeShuffle ==
  ASSUME NEW n \in Nat \ {0}, NEW p \in PickSequences(n, n)
  PROVE  /\ Shuffled(n, p) \in Perms(n)
         /\ FisherYatesPartial(n, n, p) = [m \in 1 .. n |-> Shuffled(n, p)[n - m]]
         /\ \A s : s = [j \in 0 .. n - 1 |-> s[j]] =>
              Shuffle(s, n, 1, p) = Reordered(s, n, Shuffled(n, p))
<1>1. /\ 1 \in Nat /\ 1 <= n /\ n \in 1 .. n /\ Bound(n, n) = 1 /\ p \in Picks(n, 1)
  BY Bounds DEF Bound
<1>2. PICK g : Course(g, Identity(n), n, 1, p) /\ Shuffled(n, p) = g[1]
  BY <1>1, ShuffleEnds DEF Shuffled
<1>3. /\ FisherYatesPartial(n, n, p) = [m \in 1 .. n |-> g[1][n - m]]
      /\ g[1] \in Perms(n)
  BY <1>1, <1>2, SelectionEnds
<1>4. ASSUME NEW s, s = [j \in 0 .. n - 1 |-> s[j]]
      PROVE  Shuffle(s, n, 1, p) = Reordered(s, n, Shuffled(n, p))
  <2>1. PICK h : Course(h, s, n, 1, p) /\ Shuffle(s, n, 1, p) = h[1]
    BY <1>1, ShuffleEnds
  <2>2. 1 \in 1 .. n
    BY <1>1
  <2>3. h[1] = Reordered(s, n, g[1])
    <3>1. n \in Nat
      OBVIOUS
    <3>2. \A i \in 1 .. n : h[i] = Reordered(s, n, g[i])
      BY <1>1, <1>2, <1>4, <2>1, <3>1, CourseReorders
    <3> QED
      BY <2>2, <3>2
  <2> QED
    BY <1>2, <2>1, <2>3
<1> QED
  BY <1>2, <1>3, <1>4

\* A whole shuffle puts the indices into every order, by one sequence of picks each.
LEMMA ShuffledBijective ==
  ASSUME NEW n \in Nat \ {0}
  PROVE  [p \in PickSequences(n, n) |-> Shuffled(n, p)]
           \in Bijection(PickSequences(n, n), Perms(n))
<1> DEFINE A == [p \in PickSequences(n, n) |-> Shuffled(n, p)]
           S == PickSequences(n, n)
<1>0. n \in 1 .. n
  OBVIOUS
<1>1. A \in [S -> Perms(n)]
  BY WholeShuffle
<1>2. ASSUME NEW p \in S, NEW q \in S, A[p] = A[q] PROVE p = q
  <2>1. Shuffled(n, p) = Shuffled(n, q)
    BY <1>2
  <2>2. FisherYatesPartial(n, n, p) = FisherYatesPartial(n, n, q)
    BY <2>1, WholeShuffle
  <2> QED
    BY <1>0, <2>2, SelectionTellsPicks
<1>3. ASSUME NEW f \in Perms(n) PROVE \E p \in S : A[p] = f
  <2> DEFINE e == [m \in 1 .. n |-> f[n - m]]
  <2>1. f \in [0 .. n - 1 -> 0 .. n - 1] /\ \A x, y \in 0 .. n - 1 : f[x] = f[y] => x = y
    BY DEF Perms
  <2>2. e \in Arrangements(n, n)
    <3>1. \A m \in 1 .. n : n - m \in 0 .. n - 1
      OBVIOUS
    <3>2. \A x, y \in 1 .. n : e[x] = e[y] => x = y
      <4> SUFFICES ASSUME NEW x \in 1 .. n, NEW y \in 1 .. n, e[x] = e[y] PROVE x = y
        OBVIOUS
      <4>1. n - x = n - y
        BY <2>1, <3>1
      <4> QED
        BY <4>1
    <3>3. e \in [1 .. n -> 0 .. n - 1]
      BY <2>1, <3>1
    <3> HIDE DEF e
    <3> QED
      BY <3>2, <3>3 DEF Arrangements
  <2>3. \A m \in 1 .. n : e[m] = f[n - m]
    OBVIOUS
  <2> HIDE DEF e
  <2>4. PICK p \in S : FisherYatesPartial(n, n, p) = e
    BY <1>0, <2>2, SelectionPossible
  <2> DEFINE a == Shuffled(n, p)
  <2>5. a \in Perms(n) /\ e = [m \in 1 .. n |-> a[n - m]]
    BY <2>4, WholeShuffle
  <2>6. A[p] = a
    OBVIOUS
  <2> HIDE DEF a, A
  <2>7. \A j \in 0 .. n - 1 : a[j] = f[j]
    <3> SUFFICES ASSUME NEW j \in 0 .. n - 1 PROVE a[j] = f[j]
      OBVIOUS
    <3>1. n - j \in 1 .. n /\ n - (n - j) = j
      OBVIOUS
    <3> QED
      BY <2>3, <2>5, <3>1
  <2>8. a = f
    BY <2>1, <2>5, <2>7 DEF Perms
  <2> QED
    BY <2>6, <2>8
<1> HIDE DEF A, S
<1>4. A \in Bijection(S, Perms(n))
  BY <1>1, <1>2, <1>3 DEF Bijection, Injection, Surjection, IsInjective
<1> QED
  BY <1>4 DEF A, S

\* The orders of s that a permutation turns into w are as many as those that leave s.
LEMMA SameFibre ==
  ASSUME NEW n \in Nat \ {0}, NEW s, s = [j \in 0 .. n - 1 |-> s[j]],
         NEW t \in Perms(n), NEW w, w = Reordered(s, n, t)
  PROVE  [f \in {x \in Perms(n) : Reordered(s, n, x) = s} |-> Reordered(f, n, t)]
           \in Bijection({x \in Perms(n) : Reordered(s, n, x) = s},
                         {x \in Perms(n) : Reordered(s, n, x) = w})
<1> DEFINE F == {x \in Perms(n) : Reordered(s, n, x) = s}
           W == {x \in Perms(n) : Reordered(s, n, x) = w}
           M == [f \in F |-> Reordered(f, n, t)]
           D == 0 .. n - 1
<1>1. /\ t \in [D -> D] /\ (\A x, y \in D : t[x] = t[y] => x = y)
      /\ \A x \in D : \E j \in D : t[j] = x
  BY PermsAreOnto DEF Perms
<1>2. \A f \in Perms(n) : f \in [D -> D] /\ \A x, y \in D : f[x] = f[y] => x = y
  BY DEF Perms
<1>3. \A f \in [D -> D] : (\A x, y \in D : f[x] = f[y] => x = y) => f \in Perms(n)
  BY DEF Perms
<1>4. \A r, f : Reordered(r, n, f) = [j \in D |-> r[f[j]]]
  BY DEF Reordered
<1> HIDE DEF D
<1>5. ASSUME NEW f \in F PROVE M[f] \in W
  <2>1. f \in Perms(n) /\ (\A j \in D : s[f[j]] = s[j]) /\ M[f] = [j \in D |-> f[t[j]]]
    <3>1. f \in Perms(n) /\ Reordered(s, n, f) = s /\ M[f] = Reordered(f, n, t)
      OBVIOUS
    <3>2. s = [j \in D |-> s[f[j]]]
      <4>1. Reordered(s, n, f) = [j \in D |-> s[f[j]]]
        BY <1>4
      <4> QED
        BY <3>1, <4>1
    <3>3. M[f] = [j \in D |-> f[t[j]]]
      BY <1>4, <3>1
    <3> HIDE DEF M
    <3>4. \A j \in D : s[f[j]] = s[j]
      BY <3>2
    <3> QED
      BY <3>1, <3>3, <3>4
  <2>2. M[f] \in Perms(n)
    <3> DEFINE h == [j \in D |-> f[t[j]]]
    <3>1. f \in [D -> D] /\ \A x, y \in D : f[x] = f[y] => x = y
      BY <1>2, <2>1
    <3>2. h \in [D -> D] /\ \A x, y \in D : h[x] = h[y] => x = y
      BY <1>1, <3>1
    <3> HIDE DEF h, M
    <3>3. h \in Perms(n)
      BY <1>3, <3>2
    <3> QED
      BY <2>1, <3>3 DEF h
  <2>3. [j \in D |-> s[f[t[j]]]] = [j \in D |-> s[t[j]]]
    BY <1>1, <2>1
  <2>4. Reordered(s, n, M[f]) = [j \in D |-> s[f[t[j]]]]
    BY <1>4, <2>1
  <2>5. w = [j \in D |-> s[t[j]]]
    BY <1>4
  <2> QED
    BY <2>2, <2>3, <2>4, <2>5
<1>6. ASSUME NEW f \in F, NEW h \in F, M[f] = M[h] PROVE f = h
  <2>1. f \in [D -> D] /\ h \in [D -> D]
    BY <1>2
  <2>2. [j \in D |-> f[t[j]]] = [j \in D |-> h[t[j]]]
    BY <1>4, <1>6
  <2>3. ASSUME NEW x \in D PROVE f[x] = h[x]
    <3>1. PICK j \in D : t[j] = x
      BY <1>1
    <3> QED
      BY <2>2, <3>1
  <2> QED
    BY <2>1, <2>3
<1>7. ASSUME NEW h \in W PROVE \E f \in F : M[f] = h
  <2> DEFINE back == [x \in D |-> CHOOSE j \in D : t[j] = x]
             f == [x \in D |-> h[back[x]]]
  <2>1. \A x \in D : back[x] \in D /\ t[back[x]] = x
    BY <1>1
  <2>2. \A j \in D : back[t[j]] = j
    BY <1>1, <2>1
  <2> HIDE DEF back
  <2>3. h \in Perms(n) /\ h \in [D -> D] /\ (\A x, y \in D : h[x] = h[y] => x = y)
    BY <1>2
  <2>4. \A j \in D : s[h[j]] = s[t[j]]
    <3>1. Reordered(s, n, h) = Reordered(s, n, t)
      OBVIOUS
    <3>2. Reordered(s, n, h) = [j \in D |-> s[h[j]]]
      BY <1>4
    <3>3. Reordered(s, n, t) = [j \in D |-> s[t[j]]]
      BY <1>4
    <3>4. ASSUME NEW j \in D PROVE s[h[j]] = s[t[j]]
      <4>1. Reordered(s, n, h)[j] = s[h[j]] /\ Reordered(s, n, t)[j] = s[t[j]]
        BY <3>2, <3>3
      <4> QED
        BY <3>1, <4>1
    <3> QED
      BY <3>4
  <2>5. \A x \in D : f[x] = h[back[x]]
    OBVIOUS
  <2>6. f \in [D -> D]
    BY <2>1, <2>3
  <2> HIDE DEF f
  <2>7. \A x, y \in D : f[x] = f[y] => x = y
    BY <2>1, <2>3, <2>5
  <2>8. f \in Perms(n)
    BY <1>3, <2>6, <2>7
  <2>9. \A x \in D : s[f[x]] = s[x]
    BY <2>1, <2>4, <2>5
  <2>10. Reordered(s, n, f) = s
    <3>1. s = [x \in D |-> s[x]]
      BY DEF D
    <3>2. Reordered(s, n, f) = [x \in D |-> s[f[x]]]
      BY <1>4
    <3>3. [x \in D |-> s[f[x]]] = [x \in D |-> s[x]]
      BY <2>9
    <3> QED
      BY <3>1, <3>2, <3>3
  <2>11. f \in F
    BY <2>8, <2>10
  <2>12. M[f] = [j \in D |-> f[t[j]]]
    BY <1>4, <2>11
  <2>13. \A j \in D : f[t[j]] = h[j]
    BY <1>1, <2>2, <2>5
  <2>14. M[f] = h
    BY <2>3, <2>12, <2>13
  <2> QED
    BY <2>11, <2>14
<1>8. M \in [F -> W]
  BY <1>5
<1> HIDE DEF F, W, M
<1>9. M \in Bijection(F, W)
  BY <1>6, <1>7, <1>8 DEF Bijection, Injection, Surjection, IsInjective
<1> QED
  BY <1>9 DEF F, W, M

\* There are finitely many orders.
LEMMA PermsFinite ==
  ASSUME NEW n \in Nat
  PROVE  IsFiniteSet(Perms(n))
<1>1. IsFiniteSet(0 .. n - 1)
  BY FS_Interval
<1>2. IsFiniteSet([0 .. n - 1 -> 0 .. n - 1])
  BY <1>1, FunctionsFinite
<1>3. Perms(n) \in SUBSET [0 .. n - 1 -> 0 .. n - 1]
  BY DEF Perms
<1> QED
  BY <1>2, <1>3, FS_Subset

\* Fairness of reordering: when V has what s can be reordered to, and nothing else, no
\* member of V has more permutations than another.
LEMMA ReorderingFair ==
  ASSUME NEW n \in Nat \ {0}, NEW C, NEW s \in [0 .. n - 1 -> C], NEW V, s \in V,
         \A f \in Perms(n) : Reordered(s, n, f) \in V,
         \A w \in V : \E t \in Perms(n) : w = Reordered(s, n, t)
  PROVE  Fair([f \in Perms(n) |-> Reordered(s, n, f)], V)
<1> DEFINE R == [f \in Perms(n) |-> Reordered(s, n, f)]
           P == Perms(n)
           Of(w) == {x \in P : Reordered(s, n, x) = w}
           F == Of(s)
           way == [w \in V |-> CHOOSE t \in P : w = Reordered(s, n, t)]
           M == [x \in V \X F |-> Reordered(x[2], n, way[x[1]])]
<1>0. s = [j \in 0 .. n - 1 |-> s[j]]
  OBVIOUS
<1>1. /\ R \in [P -> V] /\ DOMAIN R = P /\ \A f \in P : R[f] = Reordered(s, n, f)
      /\ F \in SUBSET P
  OBVIOUS
<1>2. \A w \in V : way[w] \in P /\ w = Reordered(s, n, way[w])
  OBVIOUS
<1>3. \A w \in V : \E f \in P : R[f] = w
  BY <1>1, <1>2
<1>4. ASSUME NEW w \in V
      PROVE  [f \in F |-> Reordered(f, n, way[w])] \in Bijection(F, Of(w))
  <2> DEFINE t == way[w]
  <2>1. t \in P /\ w = Reordered(s, n, t)
    BY <1>2
  <2> HIDE DEF t, way
  <2>2. [f \in F |-> Reordered(f, n, t)] \in Bijection(F, Of(w))
    BY <1>0, <2>1, SameFibre
  <2> QED
    BY <2>2 DEF t
<1> HIDE DEF way, R
<1>5. IsFiniteSet(P) /\ IsFiniteSet(F)
  BY <1>1, PermsFinite, FS_Subset
<1>6. IsFiniteSet(V)
  <2>1. R \in Surjection(P, V)
    BY <1>1, <1>3 DEF Surjection
  <2> QED
    BY <1>5, <2>1, FS_Surjection
<1>7. ASSUME NEW w \in V PROVE Cardinality(Of(w)) = Cardinality(F)
  <2> DEFINE W == Of(w)
             m == [f \in F |-> Reordered(f, n, way[w])]
  <2>1. m \in Bijection(F, W)
    BY <1>4
  <2> HIDE DEF W, F, m
  <2>2. Cardinality(W) = Cardinality(F)
    BY <1>5, <2>1, FS_Bijection DEF ExistsBijection
  <2> QED
    BY <2>2 DEF W
<1>8. \A w \in V : \A f \in F : Reordered(f, n, way[w]) \in Of(w)
  <2> SUFFICES ASSUME NEW w \in V, NEW f \in F PROVE Reordered(f, n, way[w]) \in Of(w)
    OBVIOUS
  <2> DEFINE m == [x \in F |-> Reordered(x, n, way[w])]
             W == Of(w)
  <2>1. m \in Bijection(F, W) /\ m[f] = Reordered(f, n, way[w])
    BY <1>4
  <2> HIDE DEF m, F, W
  <2>2. m[f] \in W
    BY <2>1 DEF Bijection, Injection
  <2> QED
    BY <2>1, <2>2 DEF W
<1>9. \A w \in V : \A f, h \in F : Reordered(f, n, way[w]) = Reordered(h, n, way[w]) => f = h
  <2> SUFFICES ASSUME NEW w \in V, NEW f \in F, NEW h \in F,
                      Reordered(f, n, way[w]) = Reordered(h, n, way[w])
               PROVE  f = h
    OBVIOUS
  <2> DEFINE m == [x \in F |-> Reordered(x, n, way[w])]
             W == Of(w)
  <2>1. m \in Bijection(F, W) /\ m[f] = m[h]
    BY <1>4
  <2> HIDE DEF m, F, W
  <2> QED
    BY <2>1 DEF Bijection, Injection, IsInjective
<1>10. \A w \in V : \A h \in Of(w) : \E f \in F : Reordered(f, n, way[w]) = h
  <2> SUFFICES ASSUME NEW w \in V, NEW h \in Of(w)
               PROVE  \E f \in F : Reordered(f, n, way[w]) = h
    OBVIOUS
  <2> DEFINE m == [x \in F |-> Reordered(x, n, way[w])]
             W == Of(w)
  <2>1. m \in Bijection(F, W) /\ h \in W /\ \A f \in F : m[f] = Reordered(f, n, way[w])
    BY <1>4
  <2> HIDE DEF m, F, W
  <2>2. PICK f \in F : m[f] = h
    BY <2>1 DEF Bijection, Surjection
  <2> QED
    BY <2>1, <2>2
<1>11. M \in Bijection(V \X F, P)
  <2> DEFINE VF == V \X F
  <2>1. ASSUME NEW w \in V, NEW f \in F PROVE M[<<w, f>>] = Reordered(f, n, way[w])
    OBVIOUS
  <2>2. \A x \in VF : \E w \in V, f \in F : x = <<w, f>>
    OBVIOUS
  <2>3. M \in [VF -> P]
    BY <1>8
  <2>4. ASSUME NEW x \in VF, NEW y \in VF, M[x] = M[y] PROVE x = y
    <3>1. PICK w \in V, f \in F : x = <<w, f>>
      BY <2>2
    <3>2. PICK v \in V, h \in F : y = <<v, h>>
      BY <2>2
    <3>3. Reordered(f, n, way[w]) = Reordered(h, n, way[v])
      BY <2>1, <2>4, <3>1, <3>2
    <3>4. w = v
      BY <1>8, <3>3
    <3>5. f = h
      BY <1>9, <3>3, <3>4
    <3> QED
      BY <3>1, <3>2, <3>4, <3>5
  <2>5. ASSUME NEW h \in P PROVE \E x \in VF : M[x] = h
    <3> DEFINE w == Reordered(s, n, h)
    <3>1. w \in V /\ h \in Of(w)
      OBVIOUS
    <3> HIDE DEF w
    <3>2. PICK f \in F : Reordered(f, n, way[w]) = h
      BY <1>10, <3>1
    <3>3. <<w, f>> \in VF /\ M[<<w, f>>] = h
      BY <2>1, <3>1, <3>2
    <3> QED
      BY <3>3
  <2> HIDE DEF M, VF, P, F
  <2>6. M \in Bijection(VF, P)
    BY <2>3, <2>4, <2>5 DEF Bijection, Injection, Surjection, IsInjective
  <2> QED
    BY <2>6 DEF VF
<1>12. Cardinality(P) = Cardinality(V) * Cardinality(F)
  <2> DEFINE VF == V \X F
  <2> HIDE DEF M, P, F
  <2>1. IsFiniteSet(VF) /\ Cardinality(VF) = Cardinality(V) * Cardinality(F)
    BY <1>5, <1>6, FS_Product
  <2>2. M \in Bijection(VF, P)
    BY <1>11
  <2> HIDE DEF VF
  <2>3. Cardinality(P) = Cardinality(VF)
    BY <2>1, <2>2, FS_Bijection DEF ExistsBijection
  <2> QED
    BY <2>1, <2>3
<1>13. Cardinality(V) \in Nat /\ Cardinality(F) \in Nat
  BY <1>5, <1>6, FS_CardinalityType
<1>14. Range(R) = V
  BY <1>1, <1>3 DEF Range
<1>15. ASSUME NEW w \in V
       PROVE  Cardinality({f \in P : R[f] = w}) * Cardinality(V) = Cardinality(P)
  <2>1. {f \in P : R[f] = w} = Of(w)
    BY <1>1
  <2>2. Cardinality({f \in P : R[f] = w}) = Cardinality(F)
    BY <1>7, <2>1
  <2> HIDE DEF P, F
  <2> QED
    BY <1>12, <1>13, <2>2
<1> HIDE DEF P, F
<1>16. Fair(R, V)
  BY <1>1, <1>14, <1>15 DEF Fair
<1> QED
  BY <1>16 DEF R

\* Fairness is kept by choosing the arguments with a bijection.
LEMMA FairThrough ==
  ASSUME NEW S, IsFiniteSet(S), NEW T, NEW A \in Bijection(S, T), NEW V,
         NEW R, DOMAIN R = T, Fair(R, V)
  PROVE  Fair([p \in S |-> R[A[p]]], V)
<1> DEFINE d == [p \in S |-> R[A[p]]]
<1>1. /\ A \in [S -> T] /\ (\A p, q \in S : A[p] = A[q] => p = q)
      /\ \A f \in T : \E p \in S : A[p] = f
  BY DEF Bijection, Injection, Surjection, IsInjective
<1>2. DOMAIN d = S /\ \A p \in S : d[p] = R[A[p]]
  OBVIOUS
<1> HIDE DEF d
<1>3. Range(R) = V /\ \A v \in V :
        Cardinality({f \in T : R[f] = v}) * Cardinality(V) = Cardinality(T)
  BY DEF Fair
<1>4. Range(d) = V
  BY <1>1, <1>2, <1>3 DEF Range
<1>5. Cardinality(T) = Cardinality(S)
  BY FS_Bijection DEF ExistsBijection
<1>6. ASSUME NEW v \in V
      PROVE  Cardinality({p \in S : d[p] = v}) = Cardinality({f \in T : R[f] = v})
  <2> DEFINE X == {p \in S : d[p] = v}
             Y == {f \in T : R[f] = v}
             m == [p \in X |-> A[p]]
  <2>1. m \in [X -> Y]
    BY <1>1, <1>2
  <2>2. \A p, q \in X : m[p] = m[q] => p = q
    BY <1>1
  <2>3. \A f \in Y : \E p \in X : m[p] = f
    BY <1>1, <1>2
  <2>4. IsFiniteSet(X)
    BY FS_Subset
  <2> HIDE DEF X, Y, m
  <2>5. m \in Bijection(X, Y)
    BY <2>1, <2>2, <2>3 DEF Bijection, Injection, Surjection, IsInjective
  <2>6. Cardinality(Y) = Cardinality(X)
    BY <2>4, <2>5, FS_Bijection DEF ExistsBijection
  <2> QED
    BY <2>6 DEF X, Y
<1>7. Fair(d, V)
  BY <1>2, <1>3, <1>4, <1>5, <1>6 DEF Fair
<1> QED
  BY <1>7 DEF d

Rows(n, C) == [0 .. n - 1 -> C]

\* How often c comes in w.
Count(n, w, c) == Cardinality({j \in 0 .. n - 1 : w[j] = c})

\* What has as many of each value is a reordering.
LEMMA SameCountsReorder ==
  ASSUME NEW n \in Nat \ {0}, NEW C, NEW v \in Rows(n, C), NEW w \in Rows(n, C),
         \A c \in C : Count(n, v, c) = Count(n, w, c)
  PROVE  \E t \in Perms(n) : w = Reordered(v, n, t)
<1> DEFINE D == 0 .. n - 1
           In(f, c) == {j \in D : f[j] = c}
           match == [c \in C |-> CHOOSE b : b \in Bijection(In(w, c), In(v, c))]
           t == [j \in D |-> match[w[j]][j]]
<1>1. ASSUME NEW c \in C PROVE match[c] \in Bijection(In(w, c), In(v, c))
  <2>1. IsFiniteSet(D)
    BY FS_Interval
  <2>2. IsFiniteSet(In(w, c)) /\ IsFiniteSet(In(v, c))
    <3> HIDE DEF D
    <3> QED
      BY <2>1, FS_Subset
  <2>3. Cardinality(In(w, c)) = Cardinality(In(v, c))
    BY DEF Count
  <2>4. \E b : b \in Bijection(In(w, c), In(v, c))
    <3> DEFINE X == In(w, c)
               Y == In(v, c)
    <3>1. IsFiniteSet(X) /\ IsFiniteSet(Y) /\ Cardinality(X) = Cardinality(Y)
      BY <2>2, <2>3
    <3> HIDE DEF X, Y
    <3>2. \E b : b \in Bijection(X, Y)
      BY <3>1, FS_SameCardinalityBij DEF ExistsBijection
    <3> QED
      BY <3>2 DEF X, Y
  <2> HIDE DEF In, D
  <2> QED
    BY <2>4
<1>2. \A j \in D : w[j] \in C /\ j \in In(w, w[j])
  BY DEF Rows
<1>3. \A j \in D : t[j] = match[w[j]][j]
  OBVIOUS
<1> HIDE DEF match, t
<1>4. ASSUME NEW j \in D PROVE t[j] \in D /\ v[t[j]] = w[j]
  <2>1. match[w[j]] \in [In(w, w[j]) -> In(v, w[j])]
    BY <1>1, <1>2 DEF Bijection, Injection
  <2>2. t[j] \in In(v, w[j])
    BY <1>2, <1>3, <2>1
  <2> QED
    BY <2>2
<1>5. ASSUME NEW x \in D, NEW y \in D, t[x] = t[y] PROVE x = y
  <2>1. w[x] = w[y]
    BY <1>4, <1>5
  <2> DEFINE c == w[x]
             X == In(w, c)
             b == match[c]
  <2>2. x \in X /\ y \in X /\ b[x] = b[y]
    BY <1>2, <1>3, <1>5, <2>1
  <2>3. b \in Bijection(X, In(v, c))
    BY <1>1, <1>2
  <2> HIDE DEF X, b, c
  <2> QED
    BY <2>2, <2>3 DEF Bijection, Injection, IsInjective
<1>6. t = [j \in D |-> t[j]]
  BY DEF t
<1>7. t \in Perms(n)
  BY <1>4, <1>5, <1>6 DEF Perms
<1>8. w = Reordered(v, n, t)
  <2>1. w = [j \in D |-> w[j]]
    BY DEF Rows
  <2>2. [j \in D |-> w[j]] = [j \in D |-> v[t[j]]]
    BY <1>4
  <2>3. Reordered(v, n, t) = [j \in D |-> v[t[j]]]
    BY DEF Reordered
  <2> QED
    BY <2>1, <2>2, <2>3
<1> QED
  BY <1>7, <1>8

\* A reordering has as many of each value.
LEMMA ReorderedCounts ==
  ASSUME NEW n \in Nat \ {0}, NEW s, NEW f \in Perms(n), NEW c
  PROVE  Count(n, Reordered(s, n, f), c) = Count(n, s, c)
<1> DEFINE X == {j \in 0 .. n - 1 : Reordered(s, n, f)[j] = c}
           Y == {x \in 0 .. n - 1 : s[x] = c}
           m == [j \in X |-> f[j]]
<1>1. /\ f \in [0 .. n - 1 -> 0 .. n - 1]
      /\ \A x, y \in 0 .. n - 1 : f[x] = f[y] => x = y
      /\ \A x \in 0 .. n - 1 : \E j \in 0 .. n - 1 : f[j] = x
  BY PermsAreOnto DEF Perms
<1>2. X = {j \in 0 .. n - 1 : s[f[j]] = c}
  BY DEF Reordered
<1>3. m \in [X -> Y] /\ \A p, q \in X : m[p] = m[q] => p = q
  BY <1>1, <1>2
<1>4. \A x \in Y : \E j \in X : m[j] = x
  BY <1>1, <1>2
<1>5. IsFiniteSet(X)
  <2>1. IsFiniteSet(0 .. n - 1)
    BY FS_Interval
  <2>2. X \in SUBSET (0 .. n - 1)
    OBVIOUS
  <2> HIDE DEF X
  <2> QED
    BY <2>1, <2>2, FS_Subset
<1> HIDE DEF X, Y, m
<1>6. m \in Bijection(X, Y)
  BY <1>3, <1>4 DEF Bijection, Injection, Surjection, IsInjective
<1>7. Cardinality(Y) = Cardinality(X)
  BY <1>5, <1>6, FS_Bijection DEF ExistsBijection
<1> QED
  BY <1>7 DEF X, Y, Count

\* A shoe has each card once for every deck.
LEMMA ShoeCounts ==
  ASSUME NEW decks \in Nat \ {0}
  PROVE  /\ decks * Cards \in Nat \ {0}
         /\ Shoe(decks) \in [0 .. decks * Cards - 1 -> 0 .. Cards - 1]
         /\ \A c \in 0 .. Cards - 1 : Count(decks * Cards, Shoe(decks), c) = decks
<1>0. Cards \in Nat \ {0}
  BY DecodersAssumption
<1> DEFINE n == decks * Cards
<1>1. n \in Nat \ {0}
  BY <1>0
<1>2. ASSUME NEW i \in 0 .. n - 1 PROVE i \div decks \in 0 .. Cards - 1
  <2>1. i \in Nat /\ i < decks * Cards
    BY <1>1
  <2>2. i \div decks \in Nat /\ i \div decks < Cards
    BY <1>0, <2>1
  <2> QED
    BY <1>0, <2>2
<1>3. \A i \in 0 .. n - 1 : Shoe(decks)[i] = i \div decks
  BY DEF Shoe
<1>4. Shoe(decks) \in [0 .. n - 1 -> 0 .. Cards - 1]
  BY <1>2 DEF Shoe
<1>5. ASSUME NEW c \in 0 .. Cards - 1
      PROVE  Count(n, Shoe(decks), c) = decks
  <2> DEFINE low == decks * c
  <2>1. low \in Nat /\ low + decks <= n
    BY <1>0
  <2>2. ASSUME NEW i \in Nat PROVE i \div decks = c <=> low <= i /\ i < low + decks
    OBVIOUS
  <2> HIDE DEF low, n
  <2>3. {i \in 0 .. n - 1 : i \div decks = c} = low .. low + decks - 1
    BY <1>1, <2>1, <2>2
  <2>4. {i \in 0 .. n - 1 : Shoe(decks)[i] = c} = low .. low + decks - 1
    BY <1>3, <2>3
  <2>5. Cardinality(low .. low + decks - 1) = decks
    BY <2>1, FS_Interval
  <2> QED
    BY <2>4, <2>5 DEF Count
<1> QED
  BY <1>1, <1>4, <1>5

\* decode_blackjack_deck: every order of a shoe that can be told apart, from as many
\* sequences of picks as any other.
LEMMA DecksAreFair == DecksFair
<1> SUFFICES ASSUME NEW decks \in Decks
             PROVE  Fair([p \in PickSequences(decks * Cards, decks * Cards) |->
                            DecodeBlackjackDeck(decks, p)],
                         ShoeOrders(decks))
  BY DEF DecksFair
<1> DEFINE n == decks * Cards
           s == Shoe(decks)
           C == 0 .. Cards - 1
           S == PickSequences(n, n)
           V == ShoeOrders(decks)
           A == [p \in S |-> Shuffled(n, p)]
           R == [f \in Perms(n) |-> Reordered(s, n, f)]
           d == [p \in S |-> DecodeBlackjackDeck(decks, p)]
<1>1. decks \in Nat \ {0}
  BY DecodersAssumption
<1>2. /\ n \in Nat \ {0} /\ s \in [0 .. n - 1 -> C]
      /\ \A c \in C : Count(n, s, c) = decks
  BY <1>1, ShoeCounts
<1>3. V = {f \in [0 .. n - 1 -> C] : \A c \in C : Count(n, f, c) = decks}
  <2>1. V = {f \in [0 .. n - 1 -> C] :
               \A c \in C : Cardinality({i \in DOMAIN f : f[i] = c}) = decks}
    BY Zenon DEF ShoeOrders
  <2> HIDE DEF n, C, V
  <2>2. V = {f \in [0 .. n - 1 -> C] :
               \A c \in C : Cardinality({i \in 0 .. n - 1 : f[i] = c}) = decks}
    BY <2>1
  <2> QED
    BY <2>2, Zenon DEF Count
<1>4. \A p \in S : DecodeBlackjackDeck(decks, p) = Shuffle(s, n, 1, p)
  BY DEF DecodeBlackjackDeck
<1> HIDE DEF n, s, C, V
<1>5. \A f \in Perms(n) : Reordered(s, n, f) \in V
  <2> SUFFICES ASSUME NEW f \in Perms(n) PROVE Reordered(s, n, f) \in V
    OBVIOUS
  <2> DEFINE r == Reordered(s, n, f)
  <2>1. r \in [0 .. n - 1 -> C]
    <3>1. f \in [0 .. n - 1 -> 0 .. n - 1]
      BY DEF Perms
    <3> QED
      BY <1>2, <3>1 DEF Reordered
  <2>2. \A c \in C : Count(n, r, c) = decks
    BY <1>2, ReorderedCounts
  <2> HIDE DEF r
  <2>3. r \in V
    BY <1>3, <2>1, <2>2
  <2> QED
    BY <2>3 DEF r
<1>6. \A w \in V : \E t \in Perms(n) : w = Reordered(s, n, t)
  <2> SUFFICES ASSUME NEW w \in V PROVE \E t \in Perms(n) : w = Reordered(s, n, t)
    OBVIOUS
  <2>1. w \in [0 .. n - 1 -> C]
    BY <1>3
  <2>2. \A c \in C : Count(n, s, c) = Count(n, w, c)
    BY <1>2, <1>3
  <2> QED
    <3>1. s \in Rows(n, C) /\ w \in Rows(n, C)
      BY <1>2, <2>1 DEF Rows
    <3> QED
      BY <1>2, <2>2, <3>1, SameCountsReorder
<1>7. s \in V
  BY <1>2, <1>3
<1>8. Fair(R, V)
  BY <1>2, <1>5, <1>6, <1>7, ReorderingFair
<1>9. IsFiniteSet(S) /\ A \in Bijection(S, Perms(n)) /\ DOMAIN R = Perms(n)
  BY <1>2, PicksFinite, ShuffledBijective
<1>10. d = [p \in S |-> R[A[p]]]
  <2>1. s = [j \in 0 .. n - 1 |-> s[j]]
    BY <1>2
  <2>2. ASSUME NEW p \in S PROVE DecodeBlackjackDeck(decks, p) = R[A[p]]
    <3>1. Shuffled(n, p) \in Perms(n) /\ Shuffle(s, n, 1, p) = Reordered(s, n, Shuffled(n, p))
      BY <1>2, <2>1, WholeShuffle
    <3>2. A[p] = Shuffled(n, p) /\ R[Shuffled(n, p)] = Reordered(s, n, Shuffled(n, p))
      BY <3>1
    <3> QED
      BY <1>4, <3>1, <3>2
  <2> HIDE DEF S, R, A
  <2> QED
    BY <2>2
<1> HIDE DEF S, A, R
<1>11. Fair([p \in S |-> R[A[p]]], V)
  <2> DEFINE T == Perms(n)
  <2>1. A \in Bijection(S, T) /\ DOMAIN R = T
    BY <1>9
  <2> HIDE DEF T
  <2> QED
    BY <1>8, <1>9, <2>1, FairThrough
<1>12. Fair(d, V)
  BY <1>10, <1>11
<1> QED
  BY <1>12 DEF S, V, n

\* The outcomes are fair: for grids, raffles, decks and shoes of any size, the bytes of
\* a draw select mines and winners and order a shoe without excluding or preferring
\* anything, as far as the remainders they leave are uniform.
THEOREM OutcomesAreFair == Spec => []OutcomesFair
<1>1. OutcomesFair
  BY MinesAreFair, WinnersAreFair, DecksAreFair DEF OutcomesFair, ShufflesFair
<1> QED
  BY <1>1, PTL

=============================================================================
