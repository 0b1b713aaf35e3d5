------------------------- MODULE TicketIntake_proofs -------------------------
(***************************************************************************)
(* Proofs about opening a ticket, for any users, any threads, any capacity *)
(* and window of the limiter, and however long the process runs:           *)
(*                                                                         *)
(*   - a ticket always has its thread, with its owner in it;               *)
(*   - the limiter never grants more than Capacity calls in a window.      *)
(*                                                                         *)
(* The two invariants speak of different variables: HandlersSound says     *)
(* what a handler may rely on at each of its stages, BucketsSound that a   *)
(* bucket is the end of the list of granted calls and that whatever is no  *)
(* longer in it is at least a window old.                                  *)
(***************************************************************************)
EXTENDS TicketIntake, SequenceTheorems, WellFoundedInduction, TLAPS

-----------------------------------------------------------------------------
(* The inductive invariant.                                                *)

\* A thread that was never created has neither ticket nor handler; until the
\* call has committed there is no row; the call is made once the user is in.
HandlersSound ==
  \A h \in Threads :
    /\ thread[h].state = "none" => ticket[h] = Null /\ handler[h] = "done"
    /\ handler[h] \in {"adding", "calling"} =>
         thread[h].state = "live" /\ thread[h].user \in Users
    /\ handler[h] \in {"adding", "calling", "deleting"} => ticket[h] = Null
    /\ handler[h] = "calling" => h \in members

\* How many of u's granted calls have left the bucket.
Dropped(u) == Len(granted[u]) - Len(bucket[u])

\* u's bucket ends the list of the granted calls, and what was dropped is stale.
BucketSound(u) ==
  /\ Dropped(u) \in Nat
  /\ \A i \in 1 .. Len(bucket[u]) : bucket[u][i] = granted[u][Dropped(u) + i]
  /\ \A i \in 1 .. Dropped(u) : granted[u][i] <= now - Window

BucketsSound == \A u \in Users : BucketSound(u)

IntakeInv ==
  TypeOK /\ HandlersSound /\ TicketsReachable /\ BucketsSound /\ GrantsWithinLimit

-----------------------------------------------------------------------------
(* FixedWindowLimiter: what pruning leaves.                                *)

\* The loop that pops stale timestamps ends: it has popped a prefix of them and
\* stands at the end or at a timestamp after the cutoff.
LEMMA PruningEnds ==
  ASSUME TypeOK, NEW u \in Users, NEW c \in Int
  PROVE  /\ StaleCount(u, c) \in 0 .. Len(bucket[u])
         /\ \A i \in 1 .. StaleCount(u, c) : bucket[u][i] <= c
<1> DEFINE b == bucket[u]
           Stops == {n \in Nat : n >= Len(b) \/ b[n + 1] > c}
<1>1. b \in Seq(0 .. MaxTime) /\ Len(b) \in Nat /\ MaxTime \in Nat
  BY IntakeAssumption DEF TypeOK
<1>2. \A i \in 1 .. Len(b) : b[i] \in Int
  BY <1>1
<1> HIDE DEF b
<1>3. Stops \subseteq Nat /\ Len(b) \in Stops
  BY <1>1
<1>4. PICK m \in Stops : \A n \in Stops : m <= n
  <2>1. PICK m \in Stops : \A n \in Stops : ~ (<<n, m>> \in OpToRel(<, Nat))
    BY <1>3, NatLessThanWellFounded, WFMin
  <2>2. \A n \in Stops : ~ (n < m)
    BY <1>3, <2>1 DEF OpToRel
  <2> QED
    BY <1>3, <2>2
<1>5. m \in 0 .. Len(b) /\ (m < Len(b) => b[m + 1] > c)
  BY <1>1, <1>3, <1>4
<1>6. ASSUME NEW i \in 1 .. m PROVE b[i] <= c
  <2>1. i - 1 \in Nat /\ ~ (m <= i - 1) /\ i \in 1 .. Len(b) /\ (i - 1) + 1 = i
    <3>1. m \in Nat /\ m <= Len(b)
      BY <1>1, <1>5
    <3> QED
      BY <1>1, <3>1
  <2>2. i - 1 \notin Stops
    BY <1>4, <2>1
  <2> QED
    BY <1>2, <2>1, <2>2
<1>7. \E n \in 0 .. Len(b) :
        /\ \A i \in 1 .. n : b[i] <= c
        /\ n < Len(b) => b[n + 1] > c
  BY <1>5, <1>6
<1> QED
  BY <1>7 DEF b, StaleCount

\* Pruning drops a prefix of the bucket, and only timestamps a window old.
LEMMA PrunedIsTail ==
  ASSUME TypeOK, NEW u \in Users
  PROVE  \E k \in 0 .. Len(bucket[u]) :
           /\ Recent(u) \in Seq(0 .. MaxTime)
           /\ Len(Recent(u)) = Len(bucket[u]) - k
           /\ \A i \in 1 .. Len(bucket[u]) - k : Recent(u)[i] = bucket[u][k + i]
           /\ \A i \in 1 .. k : bucket[u][i] <= now - Window
<1> DEFINE b == bucket[u]
           c == now - Window
           k == StaleCount(u, c)
<1>1. /\ b \in Seq(0 .. MaxTime) /\ Len(b) \in Nat
      /\ c \in Int
  BY IntakeAssumption DEF TypeOK
<1>2. k \in 0 .. Len(b) /\ \A i \in 1 .. k : b[i] <= c
  BY <1>1, PruningEnds
<1>3. Recent(u) = SubSeq(b, k + 1, Len(b))
  BY DEF Recent, Pruned
<1> HIDE DEF b, c, k
<1>4. /\ Recent(u) \in Seq(0 .. MaxTime)
      /\ Len(Recent(u)) = Len(b) - k
      /\ \A i \in 1 .. Len(b) - k : Recent(u)[i] = b[k + i]
  <2>1. k \in Int /\ k + 1 \in Int /\ \A i \in k + 1 .. Len(b) : b[i] \in 0 .. MaxTime
    <3>1. k \in Int /\ \A i \in k + 1 .. Len(b) : i \in 1 .. Len(b)
      BY <1>1, <1>2
    <3>2. \A i \in 1 .. Len(b) : b[i] \in 0 .. MaxTime
      BY <1>1, ElementOfSeq
    <3> QED
      BY <3>1, <3>2
  <2>2. /\ SubSeq(b, k + 1, Len(b)) \in Seq(0 .. MaxTime)
        /\ Len(SubSeq(b, k + 1, Len(b)))
             = IF k + 1 <= Len(b) THEN Len(b) - (k + 1) + 1 ELSE 0
        /\ \A i \in 1 .. Len(b) - (k + 1) + 1 :
             SubSeq(b, k + 1, Len(b))[i] = b[k + 1 + i - 1]
    BY <1>1, <2>1, SubSeqProperties
  <2>3. \A i \in 1 .. Len(b) - k : i \in 1 .. Len(b) - (k + 1) + 1 /\ k + 1 + i - 1 = k + i
    BY <1>1, <2>1
  <2> QED
    BY <1>1, <1>2, <1>3, <2>1, <2>2, <2>3
<1> QED
  BY <1>2, <1>4 DEF b, c

-----------------------------------------------------------------------------
(* The limiter's part of the invariant.                                    *)

\* What a call to the limiter leaves of the bucket still ends the list of the
\* granted calls, and everything before it is a window old.
LEMMA RecentSound ==
  ASSUME IntakeInv, NEW u \in Users
  PROVE  /\ Recent(u) \in Seq(0 .. MaxTime) /\ Len(Recent(u)) <= Capacity
         /\ Len(granted[u]) - Len(Recent(u)) \in Nat
         /\ \A i \in 1 .. Len(Recent(u)) :
              Recent(u)[i] = granted[u][Len(granted[u]) - Len(Recent(u)) + i]
         /\ \A i \in 1 .. Len(granted[u]) - Len(Recent(u)) :
              granted[u][i] <= now - Window
<1> DEFINE b == bucket[u]
           g == granted[u]
           r == Recent(u)
           d == Len(g) - Len(b)
<1>1. /\ Len(b) \in Nat /\ Len(g) \in Nat /\ Len(b) <= Capacity /\ Capacity \in Nat
      /\ d \in Nat
      /\ \A i \in 1 .. Len(b) : b[i] = g[d + i]
      /\ \A i \in 1 .. d : g[i] <= now - Window
  BY IntakeAssumption DEF IntakeInv, TypeOK, BucketsSound, BucketSound, Dropped
<1>2. PICK k \in 0 .. Len(b) :
        /\ r \in Seq(0 .. MaxTime)
        /\ Len(r) = Len(b) - k
        /\ \A i \in 1 .. Len(b) - k : r[i] = b[k + i]
        /\ \A i \in 1 .. k : b[i] <= now - Window
  BY PrunedIsTail DEF IntakeInv
<1> HIDE DEF b, g, r
<1>3. k \in Nat /\ Len(r) \in Nat /\ Len(g) - Len(r) = d + k
  BY <1>1, <1>2
<1>4. ASSUME NEW i \in 1 .. Len(r) PROVE r[i] = g[d + k + i]
  <2>1. k + i \in 1 .. Len(b) /\ d + (k + i) = d + k + i /\ i \in 1 .. Len(b) - k
    BY <1>1, <1>2, <1>3
  <2> QED
    BY <1>1, <1>2, <2>1
<1>5. ASSUME NEW i \in 1 .. d + k PROVE g[i] <= now - Window
  <2>1. CASE i <= d
    BY <1>1, <2>1
  <2>2. CASE i > d
    <3>1. i - d \in 1 .. k /\ i - d \in 1 .. Len(b) /\ d + (i - d) = i
      BY <1>1, <1>3, <2>2
    <3> QED
      BY <1>1, <1>2, <3>1
  <2> QED
    BY <1>1, <2>1, <2>2
<1> DEFINE e == Len(g) - Len(r)
<1>6. e \in Nat /\ e = d + k
  BY <1>1, <1>3
<1> HIDE DEF d, e
<1>7. /\ \A i \in 1 .. Len(r) : r[i] = g[e + i]
      /\ \A i \in 1 .. e : g[i] <= now - Window
  BY <1>4, <1>5, <1>6
<1>8. Len(r) <= Capacity
  BY <1>1, <1>2, <1>3
<1> QED
  BY <1>2, <1>6, <1>7, <1>8 DEF e, g, r

\* A granted call: the new bucket, one timestamp longer than what pruning left.
LEMMA CommandSound ==
  ASSUME IntakeInv, NEW u \in Users, Command(u)
  PROVE  TypeOK' /\ BucketsSound' /\ GrantsWithinLimit'
<1> DEFINE g == granted[u]
           r == Recent(u)
           b2 == Append(r, now)
           g2 == Append(g, now)
           d == Len(g) - Len(r)
<1>1. TypeOK /\ now \in 0 .. MaxTime /\ now \in Int /\ Window \in Nat /\ Capacity \in Nat
  BY IntakeAssumption DEF IntakeInv, TypeOK
<1>2. /\ r \in Seq(0 .. MaxTime) /\ Len(r) \in Nat /\ Len(r) < Capacity
      /\ g \in Seq(0 .. MaxTime) /\ Len(g) \in Nat
      /\ d \in Nat
      /\ \A i \in 1 .. Len(r) : r[i] = g[d + i]
      /\ \A i \in 1 .. d : g[i] <= now - Window
  BY <1>1, RecentSound DEF Command, HasRoom, TypeOK
<1>3. /\ bucket' = [bucket EXCEPT ![u] = b2]
      /\ granted' = [granted EXCEPT ![u] = g2]
      /\ modals' = [modals EXCEPT ![u] = @ + 1]
      /\ UNCHANGED <<now, handler, thread, members, ticket>>
  BY DEF Command
<1>4. bucket'[u] = b2 /\ granted'[u] = g2
  BY <1>1, <1>3 DEF TypeOK
<1>5. \A v \in Users \ {u} : bucket'[v] = bucket[v] /\ granted'[v] = granted[v]
  BY <1>1, <1>3 DEF TypeOK
<1> HIDE DEF g, r
<1>6. /\ b2 \in Seq(0 .. MaxTime) /\ Len(b2) = Len(r) + 1
      /\ \A i \in 1 .. Len(r) : b2[i] = r[i]
      /\ b2[Len(r) + 1] = now
  BY <1>1, <1>2, AppendProperties
<1>7. /\ g2 \in Seq(0 .. MaxTime) /\ Len(g2) = Len(g) + 1
      /\ \A i \in 1 .. Len(g) : g2[i] = g[i]
      /\ g2[Len(g) + 1] = now
  BY <1>1, <1>2, AppendProperties
<1> HIDE DEF b2, g2
<1>8. TypeOK'
  <2>1. /\ bucket' \in [Users -> Seq(0 .. MaxTime)]
        /\ granted' \in [Users -> Seq(0 .. MaxTime)]
        /\ modals' \in [Users -> Nat]
    BY <1>1, <1>3, <1>6, <1>7 DEF TypeOK
  <2>2. ASSUME NEW v \in Users PROVE Len(bucket'[v]) <= Capacity
    <3>1. CASE v = u
      BY <1>1, <1>2, <1>4, <1>6, <3>1
    <3>2. CASE v # u
      BY <1>1, <1>5, <3>2 DEF TypeOK
    <3> QED
      BY <3>1, <3>2
  <2> QED
    BY <1>1, <1>3, <2>1, <2>2 DEF TypeOK
<1>9. BucketsSound'
  <2>1. ASSUME NEW v \in Users PROVE BucketSound(v)'
    <3>1. CASE v = u
      <4>1. Len(g2) - Len(b2) = d
        BY <1>2, <1>6, <1>7
      <4>2. ASSUME NEW i \in 1 .. Len(b2) PROVE b2[i] = g2[d + i]
        <5>1. CASE i = Len(r) + 1
          <6>1. d + i = Len(g) + 1
            BY <1>2, <5>1
          <6> QED
            BY <1>6, <1>7, <5>1, <6>1
        <5>2. CASE i # Len(r) + 1
          <6>1. i \in 1 .. Len(r) /\ d + i \in 1 .. Len(g)
            BY <1>2, <1>6, <5>2
          <6> QED
            BY <1>2, <1>6, <1>7, <6>1
        <5> QED
          BY <5>1, <5>2
      <4>3. ASSUME NEW i \in 1 .. d PROVE g2[i] <= now - Window
        <5>1. i \in 1 .. Len(g)
          BY <1>2
        <5> QED
          BY <1>2, <1>7, <5>1
      <4> QED
        BY <1>2, <1>3, <1>4, <3>1, <4>1, <4>2, <4>3 DEF BucketSound, Dropped
    <3>2. CASE v # u
      <4>1. bucket'[v] = bucket[v] /\ granted'[v] = granted[v] /\ now' = now
        BY <1>3, <1>5, <3>2
      <4>2. BucketSound(v)
        BY DEF IntakeInv, BucketsSound
      <4> QED
        BY <4>1, <4>2 DEF BucketSound, Dropped
    <3> QED
      BY <3>1, <3>2
  <2> QED
    BY <2>1 DEF BucketsSound
<1>10. GrantsWithinLimit'
  <2>1. ASSUME NEW v \in Users, NEW i \in 1 .. Len(granted'[v]) - Capacity
        PROVE  granted'[v][i + Capacity] - granted'[v][i] >= Window
    <3> Capacity \in Nat \ {0}
      BY IntakeAssumption
    <3>0. ASSUME v = u PROVE i \in Nat \ {0} /\ i + Capacity <= Len(g) + 1
      <4>1. Len(granted'[v]) = Len(g) + 1
        BY <1>4, <1>7, <3>0
      <4>2. i \in 1 .. (Len(g) + 1) - Capacity
        BY <4>1
      <4> QED
        BY <1>2, <4>2
    <3>1. CASE v # u
      BY <1>5, <3>1 DEF IntakeInv, GrantsWithinLimit
    <3>2. CASE v = u /\ i + Capacity = Len(g) + 1
      <4>1. i \in 1 .. d /\ i \in 1 .. Len(g)
        BY <1>2, <3>0, <3>2
      <4>2. g2[i] = g[i] /\ g[i] <= now - Window
        BY <1>2, <1>7, <4>1
      <4>3. g[i] \in 0 .. MaxTime
        BY <1>2, <4>1, ElementOfSeq
      <4>4. g[i] \in Int
        BY <4>3
      <4> QED
        BY <1>1, <1>4, <1>7, <3>2, <4>2, <4>4
    <3>3. CASE v = u /\ i + Capacity # Len(g) + 1
      <4>1. /\ i \in 1 .. Len(g) - Capacity /\ i \in 1 .. Len(g)
            /\ i + Capacity \in 1 .. Len(g)
        <5>1. i \in Nat \ {0} /\ i + Capacity <= Len(g)
          <6>1. i \in Nat \ {0} /\ i + Capacity <= Len(g) + 1
            BY <3>0, <3>3
          <6>2. Len(g) \in Nat /\ i + Capacity # Len(g) + 1
            BY <1>2, <3>3
          <6> DEFINE n == Len(g)
          <6> HIDE DEF n
          <6>3. n \in Nat /\ i + Capacity <= n + 1 /\ i + Capacity # n + 1
            BY <6>1, <6>2 DEF n
          <6>4. i + Capacity <= n
            BY <6>1, <6>3
          <6> QED
            BY <6>1, <6>4 DEF n
        <5> QED
          BY <1>2, <5>1
      <4>2. g[i + Capacity] - g[i] >= Window
        BY <4>1 DEF g, IntakeInv, GrantsWithinLimit
      <4> QED
        BY <1>4, <1>7, <3>3, <4>1, <4>2
    <3> QED
      BY <3>1, <3>2, <3>3
  <2> QED
    BY <2>1 DEF GrantsWithinLimit
<1> QED
  BY <1>8, <1>9, <1>10

\* A denied call: the bucket is pruned and nothing is granted.
LEMMA DenySound ==
  ASSUME IntakeInv, NEW u \in Users, DenyCommand(u)
  PROVE  TypeOK' /\ BucketsSound' /\ GrantsWithinLimit'
<1>1. /\ bucket' = [bucket EXCEPT ![u] = Recent(u)]
      /\ UNCHANGED <<now, granted, modals, handler, thread, members, ticket>>
  BY DEF DenyCommand
<1> DEFINE r == Recent(u)
<1>2. /\ r \in Seq(0 .. MaxTime) /\ Len(r) <= Capacity
      /\ Len(granted[u]) - Len(r) \in Nat
      /\ \A i \in 1 .. Len(r) : r[i] = granted[u][Len(granted[u]) - Len(r) + i]
      /\ \A i \in 1 .. Len(granted[u]) - Len(r) : granted[u][i] <= now - Window
  BY RecentSound
<1> HIDE DEF r
<1>3. TypeOK
  BY DEF IntakeInv
<1>4. bucket'[u] = r /\ \A v \in Users \ {u} : bucket'[v] = bucket[v]
  BY <1>1, <1>3 DEF TypeOK, r
<1>5. TypeOK'
  <2>1. bucket' \in [Users -> Seq(0 .. MaxTime)]
    BY <1>1, <1>2, <1>3 DEF TypeOK, r
  <2>2. \A v \in Users : Len(bucket'[v]) <= Capacity
    BY <1>2, <1>3, <1>4 DEF TypeOK
  <2> QED
    BY <1>1, <1>3, <2>1, <2>2 DEF TypeOK
<1>6. ASSUME NEW v \in Users PROVE BucketSound(v)'
  <2>1. CASE v = u
    BY <1>1, <1>2, <1>4, <2>1 DEF BucketSound, Dropped
  <2>2. CASE v # u
    <3>1. bucket'[v] = bucket[v] /\ granted'[v] = granted[v] /\ now' = now
      BY <1>1, <1>4, <2>2
    <3>2. BucketSound(v)
      BY DEF IntakeInv, BucketsSound
    <3> QED
      BY <3>1, <3>2 DEF BucketSound, Dropped
  <2> QED
    BY <2>1, <2>2
<1>7. GrantsWithinLimit'
  BY <1>1 DEF IntakeInv, GrantsWithinLimit
<1> QED
  BY <1>5, <1>6, <1>7 DEF BucketsSound

\* Time passes: what was stale stays stale.
LEMMA TickSound ==
  ASSUME IntakeInv, Tick
  PROVE  TypeOK' /\ BucketsSound' /\ GrantsWithinLimit'
<1>1. now < MaxTime /\ now' = now + 1
  BY DEF Tick
<1>2. UNCHANGED <<bucket, granted, modals, handler, thread, members, ticket>>
  BY DEF Tick, limiter
<1>3. TypeOK /\ MaxTime \in Nat /\ Window \in Nat /\ now \in Int
  BY IntakeAssumption DEF IntakeInv, TypeOK
<1>4. TypeOK'
  <2>1. now' \in 0 .. MaxTime
    BY <1>1, <1>3 DEF TypeOK
  <2> QED
    BY <1>2, <1>3, <2>1 DEF TypeOK
<1>5. ASSUME NEW u \in Users PROVE BucketSound(u)'
  <2>1. BucketSound(u)
    BY DEF IntakeInv, BucketsSound
  <2>2. Len(granted[u]) \in Nat /\ \A i \in 1 .. Len(granted[u]) : granted[u][i] \in Int
    <3>1. granted[u] \in Seq(0 .. MaxTime)
      BY <1>3 DEF TypeOK
    <3>2. \A i \in 1 .. Len(granted[u]) : granted[u][i] \in 0 .. MaxTime
      BY <3>1, ElementOfSeq
    <3> QED
      BY <3>1, <3>2
  <2>3. Len(bucket[u]) \in Nat
    BY <1>3 DEF TypeOK
  <2>4. ASSUME NEW i \in 1 .. Dropped(u) PROVE granted[u][i] <= now' - Window
    <3>1. granted[u][i] <= now - Window
      BY <2>1 DEF BucketSound
    <3>2. i \in 1 .. Len(granted[u])
      BY <2>2, <2>3 DEF Dropped
    <3>3. granted[u][i] \in Int
      BY <2>2, <3>2
    <3> QED
      BY <1>1, <1>3, <3>1, <3>3
  <2> QED
    BY <1>2, <2>1, <2>4 DEF BucketSound, Dropped
<1>6. GrantsWithinLimit'
  BY <1>2 DEF IntakeInv, GrantsWithinLimit
<1> QED
  BY <1>4, <1>5, <1>6 DEF BucketsSound

\* The process dies: the limiter and its history start again.
LEMMA CrashSound ==
  ASSUME IntakeInv, Crash
  PROVE  TypeOK' /\ BucketsSound' /\ GrantsWithinLimit'
<1>1. /\ bucket' = [u \in Users |-> <<>>] /\ granted' = [u \in Users |-> <<>>]
      /\ modals' = [u \in Users |-> 0]
      /\ handler' = [h \in Threads |-> "done"]
      /\ UNCHANGED <<now, thread, members, ticket>>
  BY DEF Crash
<1>2. TypeOK'
  <2>1. Capacity \in Nat /\ Len(<<>>) = 0 /\ <<>> \in Seq(0 .. MaxTime)
    BY IntakeAssumption
  <2>2. \A u \in Users : Len(bucket'[u]) <= Capacity
    BY <1>1, <2>1
  <2> QED
    BY <1>1, <2>1, <2>2 DEF IntakeInv, TypeOK, Stages
<1>3. BucketsSound'
  BY <1>1 DEF BucketsSound, BucketSound, Dropped
<1>4. GrantsWithinLimit'
  <2>1. \A u \in Users : Len(granted'[u]) = 0
    BY <1>1
  <2>2. \A u \in Users : 1 .. Len(granted'[u]) - Capacity = {}
    BY <2>1, IntakeAssumption
  <2> QED
    BY <2>2 DEF GrantsWithinLimit
<1> QED
  BY <1>2, <1>3, <1>4

\* No other step touches the limiter or the clock.
LEMMA LimiterKept ==
  ASSUME IntakeInv, UNCHANGED <<now, bucket, granted>>
  PROVE  BucketsSound' /\ GrantsWithinLimit'
BY DEF IntakeInv, BucketsSound, BucketSound, Dropped, GrantsWithinLimit

-----------------------------------------------------------------------------
(* The handlers' part of the invariant.                                    *)

\* Steps that leave threads, rows and handlers alone.
LEMMA HandlersKept ==
  ASSUME IntakeInv, UNCHANGED <<handler, thread, members, ticket>>
  PROVE  HandlersSound' /\ TicketsReachable'
BY DEF IntakeInv, HandlersSound, TicketsReachable

\* create_thread: the handler starts with a live thread and no row.
LEMMA SubmitSound ==
  ASSUME IntakeInv, NEW u \in Users, NEW h \in Threads, SubmitModal(u, h)
  PROVE  TypeOK' /\ HandlersSound' /\ TicketsReachable'
<1>1. /\ modals[u] > 0 /\ thread[h].state = "none"
      /\ modals' = [modals EXCEPT ![u] = @ - 1]
      /\ thread' = [thread EXCEPT ![h] = [state |-> "live", user |-> u]]
      /\ handler' = [handler EXCEPT ![h] = "adding"]
      /\ UNCHANGED <<now, bucket, granted, members, ticket>>
  BY DEF SubmitModal, GoesTo, limiter
<1>2. TypeOK /\ HandlersSound /\ TicketsReachable
  BY DEF IntakeInv
<1>3. TypeOK'
  <2>1. modals' \in [Users -> Nat]
    BY <1>1, <1>2 DEF TypeOK
  <2>2. /\ handler' \in [Threads -> Stages]
        /\ thread' \in [Threads -> [state : {"none", "live", "deleted"}, user : Users \cup {Null}]]
    BY <1>1, <1>2 DEF TypeOK, Stages
  <2> QED
    BY <1>1, <1>2, <2>1, <2>2 DEF TypeOK
<1>4. ticket[h] = Null
  BY <1>1, <1>2 DEF HandlersSound
<1>5. HandlersSound'
  BY <1>1, <1>2, <1>4 DEF HandlersSound, TypeOK
<1>6. TicketsReachable'
  BY <1>1, <1>2, <1>4 DEF TicketsReachable, TypeOK
<1> QED
  BY <1>3, <1>5, <1>6

\* The steps of a handler, whatever fails in them: the row is written while the
\* thread is live with its user in it, and the thread is deleted only when no
\* row was.
LEMMA HandlerStepSound ==
  ASSUME IntakeInv, NEW h \in Threads, HandlerStep(h)
  PROVE  TypeOK' /\ HandlersSound' /\ TicketsReachable'
<1>1. TypeOK /\ HandlersSound /\ TicketsReachable
  BY DEF IntakeInv
<1>2. UNCHANGED <<now, bucket, granted, modals>>
  BY DEF HandlerStep, AddUser, CallCommits, CallFails, PostOpen, SafeDeleteThread, limiter
<1>3. ASSUME NEW s \in Stages, GoesTo(h, s)
      PROVE  /\ handler' \in [Threads -> Stages] /\ handler'[h] = s
             /\ \A g \in Threads \ {h} : handler'[g] = handler[g]
  BY <1>1, <1>3 DEF GoesTo, TypeOK
<1>4. CASE AddUser(h)
  <2>1. handler[h] = "adding" /\ UNCHANGED <<thread, ticket>>
    BY <1>4 DEF AddUser
  <2>2. /\ handler' \in [Threads -> Stages]
        /\ \/ handler'[h] = "calling" /\ members' = members \cup {h}
           \/ handler'[h] = "done" /\ members' = members
        /\ \A g \in Threads \ {h} : handler'[g] = handler[g]
    BY <1>3, <1>4 DEF AddUser, OnError, Stages
  <2>3. TypeOK'
    BY <1>1, <1>2, <2>1, <2>2 DEF TypeOK
  <2>4. HandlersSound'
    BY <1>1, <2>1, <2>2 DEF HandlersSound
  <2>5. TicketsReachable'
    BY <1>1, <2>1, <2>2 DEF TicketsReachable
  <2> QED
    BY <2>3, <2>4, <2>5
<1>5. CASE CallCommits(h)
  <2>1. /\ handler[h] = "calling" /\ UNCHANGED <<thread, members>>
        /\ ticket' = [ticket EXCEPT ![h] = thread[h].user]
    BY <1>5 DEF CallCommits
  <2>2. /\ handler' \in [Threads -> Stages] /\ handler'[h] \in {"posting", "done"}
        /\ \A g \in Threads \ {h} : handler'[g] = handler[g]
    BY <1>3, <1>5 DEF CallCommits, OnError, Stages
  <2>3. thread[h].state = "live" /\ thread[h].user \in Users /\ h \in members
    BY <1>1, <2>1 DEF HandlersSound
  <2>4. /\ ticket' \in [Threads -> Users \cup {Null}] /\ ticket'[h] = thread[h].user
        /\ \A g \in Threads \ {h} : ticket'[g] = ticket[g]
    BY <1>1, <2>1, <2>3 DEF TypeOK
  <2>5. thread[h] = [state |-> "live", user |-> ticket'[h]]
    BY <1>1, <2>3, <2>4 DEF TypeOK
  <2>6. TypeOK'
    BY <1>1, <1>2, <2>1, <2>2, <2>4 DEF TypeOK
  <2>7. HandlersSound'
    BY <1>1, <2>1, <2>2, <2>3, <2>4 DEF HandlersSound
  <2>8. TicketsReachable'
    BY <1>1, <2>1, <2>3, <2>4, <2>5 DEF TicketsReachable
  <2> QED
    BY <2>6, <2>7, <2>8
<1>6. CASE CallFails(h)
  <2>1. handler[h] = "calling" /\ UNCHANGED <<thread, members, ticket>>
    BY <1>6 DEF CallFails
  <2>2. /\ handler' \in [Threads -> Stages] /\ handler'[h] \in {"deleting", "done"}
        /\ \A g \in Threads \ {h} : handler'[g] = handler[g]
    BY <1>3, <1>6 DEF CallFails, OnError, Stages
  <2>3. TypeOK'
    BY <1>1, <1>2, <2>1, <2>2 DEF TypeOK
  <2>4. HandlersSound'
    BY <1>1, <2>1, <2>2 DEF HandlersSound
  <2>5. TicketsReachable'
    BY <1>1, <2>1 DEF TicketsReachable
  <2> QED
    BY <2>3, <2>4, <2>5
<1>7. CASE PostOpen(h)
  <2>1. handler[h] = "posting" /\ UNCHANGED <<thread, members, ticket>>
    BY <1>7 DEF PostOpen
  <2>2. /\ handler' \in [Threads -> Stages] /\ handler'[h] = "done"
        /\ \A g \in Threads \ {h} : handler'[g] = handler[g]
    BY <1>3, <1>7 DEF PostOpen, Stages
  <2>3. TypeOK'
    BY <1>1, <1>2, <2>1, <2>2 DEF TypeOK
  <2>4. HandlersSound'
    BY <1>1, <2>1, <2>2 DEF HandlersSound
  <2>5. TicketsReachable'
    BY <1>1, <2>1 DEF TicketsReachable
  <2> QED
    BY <2>3, <2>4, <2>5
<1>8. CASE SafeDeleteThread(h)
  <2>1. /\ handler[h] = "deleting" /\ UNCHANGED <<members, ticket>>
        /\ thread' = [thread EXCEPT ![h].state = "deleted"] \/ thread' = thread
    BY <1>8 DEF SafeDeleteThread
  <2>2. /\ handler' \in [Threads -> Stages] /\ handler'[h] = "done"
        /\ \A g \in Threads \ {h} : handler'[g] = handler[g]
    BY <1>3, <1>8 DEF SafeDeleteThread, Stages
  <2>3. ticket[h] = Null
    BY <1>1, <2>1 DEF HandlersSound
  <2>4. /\ thread' \in [Threads -> [state : {"none", "live", "deleted"}, user : Users \cup {Null}]]
        /\ \A g \in Threads \ {h} : thread'[g] = thread[g]
    <3>1. CASE thread' = [thread EXCEPT ![h].state = "deleted"]
      BY <1>1, <3>1 DEF TypeOK
    <3>2. CASE thread' = thread
      BY <1>1, <3>2 DEF TypeOK
    <3> QED
      BY <2>1, <3>1, <3>2
  <2>5. TypeOK'
    BY <1>1, <1>2, <2>1, <2>2, <2>4 DEF TypeOK
  <2>6. HandlersSound'
    BY <1>1, <2>1, <2>2, <2>3, <2>4 DEF HandlersSound
  <2>7. TicketsReachable'
    BY <1>1, <2>1, <2>3, <2>4 DEF TicketsReachable
  <2> QED
    BY <2>5, <2>6, <2>7
<1> QED
  BY <1>4, <1>5, <1>6, <1>7, <1>8 DEF HandlerStep

-----------------------------------------------------------------------------
(* The invariant holds, and the properties of the run with it.             *)

\* At start-up there are no threads, no rows and no granted calls.
LEMMA IntakeInit == ASSUME Init PROVE IntakeInv
<1>1. TypeOK
  <2>1. Capacity \in Nat /\ MaxTime \in Nat /\ Len(<<>>) = 0 /\ <<>> \in Seq(0 .. MaxTime)
    BY IntakeAssumption
  <2> QED
    BY <2>1 DEF Init, TypeOK, Stages, NoThread
<1>2. HandlersSound /\ TicketsReachable
  BY DEF Init, HandlersSound, TicketsReachable, NoThread
<1>3. BucketsSound
  BY DEF Init, BucketsSound, BucketSound, Dropped
<1>4. GrantsWithinLimit
  <2>1. \A u \in Users : 1 .. Len(granted[u]) - Capacity = {}
    BY IntakeAssumption DEF Init
  <2> QED
    BY <2>1 DEF GrantsWithinLimit
<1> QED
  BY <1>1, <1>2, <1>3, <1>4 DEF IntakeInv

\* Every step of a command, a handler or the clock keeps the invariant.
LEMMA IntakeStep == ASSUME IntakeInv, [Next]_vars PROVE IntakeInv'
<1>1. ASSUME NEW u \in Users, Command(u) PROVE IntakeInv'
  <2>1. UNCHANGED <<handler, thread, members, ticket>>
    BY <1>1 DEF Command
  <2> QED
    BY <1>1, <2>1, CommandSound, HandlersKept DEF IntakeInv
<1>2. ASSUME NEW u \in Users, DenyCommand(u) PROVE IntakeInv'
  <2>1. UNCHANGED <<handler, thread, members, ticket>>
    BY <1>2 DEF DenyCommand
  <2> QED
    BY <1>2, <2>1, DenySound, HandlersKept DEF IntakeInv
<1>3. ASSUME NEW u \in Users, DropModal(u) PROVE IntakeInv'
  <2>1. UNCHANGED <<now, bucket, granted, handler, thread, members, ticket>>
    BY <1>3 DEF DropModal, limiter
  <2>2. modals' \in [Users -> Nat]
    BY <1>3 DEF DropModal, IntakeInv, TypeOK
  <2>3. TypeOK'
    BY <2>1, <2>2 DEF IntakeInv, TypeOK
  <2> QED
    BY <2>1, <2>3, LimiterKept, HandlersKept DEF IntakeInv
<1>4. ASSUME NEW u \in Users, NEW h \in Threads, SubmitModal(u, h) PROVE IntakeInv'
  <2>1. UNCHANGED <<now, bucket, granted>>
    BY <1>4 DEF SubmitModal, limiter
  <2> QED
    BY <1>4, <2>1, SubmitSound, LimiterKept DEF IntakeInv
<1>5. ASSUME NEW h \in Threads, HandlerStep(h) PROVE IntakeInv'
  <2>1. UNCHANGED <<now, bucket, granted>>
    BY <1>5 DEF HandlerStep, AddUser, CallCommits, CallFails, PostOpen,
                SafeDeleteThread, limiter
  <2> QED
    BY <1>5, <2>1, HandlerStepSound, LimiterKept DEF IntakeInv
<1>6. CASE Tick
  <2>1. UNCHANGED <<handler, thread, members, ticket>>
    BY <1>6 DEF Tick
  <2> QED
    BY <1>6, <2>1, TickSound, HandlersKept DEF IntakeInv
<1>7. CASE Crash
  <2>1. handler' = [h \in Threads |-> "done"] /\ UNCHANGED <<thread, members, ticket>>
    BY <1>7 DEF Crash
  <2>2. HandlersSound' /\ TicketsReachable'
    BY <2>1 DEF IntakeInv, HandlersSound, TicketsReachable
  <2> QED
    BY <1>7, <2>2, CrashSound DEF IntakeInv
<1>8. CASE UNCHANGED vars
  <2>1. UNCHANGED <<now, bucket, granted, modals, handler, thread, members, ticket>>
    BY <1>8 DEF vars
  <2>2. TypeOK'
    BY <2>1 DEF IntakeInv, TypeOK
  <2> QED
    BY <2>1, <2>2, LimiterKept, HandlersKept DEF IntakeInv
<1> QED
  BY <1>1, <1>2, <1>3, <1>4, <1>5, <1>6, <1>7, <1>8 DEF Next

\* The invariant holds of every behaviour of the commands.
LEMMA IntakeCorrect == Spec => []IntakeInv
<1>1. Init => IntakeInv
  BY IntakeInit
<1>2. IntakeInv /\ [Next]_vars => IntakeInv'
  BY IntakeStep
<1> QED
  BY <1>1, <1>2, PTL DEF Spec

\* The values stay in their types; in particular no bucket outgrows the
\* capacity of the limiter.
THEOREM IntakeTyped == Spec => []TypeOK
<1>1. IntakeInv => TypeOK
  BY DEF IntakeInv
<1> QED
  BY <1>1, IntakeCorrect, PTL

\* Whatever call of _on_modal_validated fails, whichever answer is lost and
\* wherever the process dies, a ticket row has a thread that exists and that the
\* ticket's owner is in.
THEOREM TicketsHaveThreads == Spec => []TicketsReachable
<1>1. IntakeInv => TicketsReachable
  BY DEF IntakeInv
<1> QED
  BY <1>1, IntakeCorrect, PTL

\* FixedWindowLimiter: for every capacity and window, more than Capacity calls
\* granted to one user by one process always span at least a window.
THEOREM LimiterHolds == Spec => []GrantsWithinLimit
<1>1. IntakeInv => GrantsWithinLimit
  BY DEF IntakeInv
<1> QED
  BY <1>1, IntakeCorrect, PTL

=============================================================================
