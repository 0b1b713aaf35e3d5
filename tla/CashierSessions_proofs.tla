----------------------- MODULE CashierSessions_proofs -----------------------
(***************************************************************************)
(* That no time on duty is lost, for any number of cashiers and of first   *)
(* calls that overlap.  The order of last_active_at and the list of the    *)
(* worker decide only who is taken off duty and when: nothing is assumed   *)
(* of them, so the result holds for a worker that works through any list.  *)
(***************************************************************************)
EXTENDS CashierSessions, TLAPS

\* The status row and the number of open session rows of each cashier.
RowsTyped ==
  /\ status \in [Cashiers -> Statuses \cup {"never"}]
  /\ open \in [Cashiers -> Nat]

\* What a call of set_cashier_status or expire_cashier preserves.
DutyInv == RowsTyped /\ OnlineHasSession

\* The upsert and its session row keep the invariant when the status that the
\* call has read is the row's, and also when the call has read NULL and the row
\* was written since: then a session too many may be open, never one too few.
LEMMA WriteKeeps ==
  ASSUME DutyInv, NEW c, NEW old, NEW s \in Statuses,
         (c \in Cashiers => old \in {status[c], "never"}), Write(c, old, s)
  PROVE  DutyInv'
<1>1. RowsTyped'
  <2> DEFINE n == IF Opens(old, s) THEN open[c] + 1
                  ELSE IF Closes(old, s) THEN 0 ELSE open[c]
  <2>1. c \in Cashiers => n \in Nat
    BY DEF DutyInv, RowsTyped
  <2>2. open' = [open EXCEPT ![c] = n]
    BY DEF Write
  <2> HIDE DEF n
  <2>3. open' \in [Cashiers -> Nat]
    BY <2>1, <2>2 DEF DutyInv, RowsTyped
  <2>4. status' \in [Cashiers -> Statuses \cup {"never"}]
    BY DEF DutyInv, RowsTyped, Write
  <2> QED
    BY <2>3, <2>4 DEF RowsTyped
<1>2. OnlineHasSession'
  <2> SUFFICES ASSUME NEW d \in Cashiers, status'[d] = "online"
               PROVE  open'[d] > 0
    BY DEF OnlineHasSession
  <2>1. CASE d # c
    BY <2>1 DEF DutyInv, RowsTyped, OnlineHasSession, Write
  <2>2. CASE d = c
    <3>1. s = "online" /\ old \in {status[c], "never"}
      BY <2>2 DEF DutyInv, RowsTyped, Write
    <3>2. CASE Opens(old, s)
      BY <2>2, <3>2 DEF DutyInv, RowsTyped, Write
    <3>3. CASE ~ Opens(old, s)
      <4>1. old = "online" /\ ~ Closes(old, s)
        BY <3>1, <3>3 DEF Opens, Closes
      <4>2. status[c] = "online"
        BY <3>1, <4>1
      <4>3. open'[c] = open[c]
        BY <2>2, <3>3, <4>1 DEF DutyInv, RowsTyped, Write
      <4> QED
        BY <2>2, <4>2, <4>3 DEF DutyInv, OnlineHasSession
    <3> QED
      BY <3>2, <3>3
  <2> QED
    BY <2>1, <2>2
<1> QED
  BY <1>1, <1>2 DEF DutyInv

\* Every step keeps the invariant: a call writes, and any other step leaves the
\* status and the sessions alone.
LEMMA DutyInvariant == Spec => []DutyInv
<1>1. Init => DutyInv
  BY DEF Init, DutyInv, RowsTyped, OnlineHasSession
<1>2. DutyInv /\ [Next]_vars => DutyInv'
  <2> SUFFICES ASSUME DutyInv, [Next]_vars
               PROVE  DutyInv'
    OBVIOUS
  <2>1. ASSUME UNCHANGED <<status, open>>
        PROVE  DutyInv'
    BY <2>1 DEF DutyInv, RowsTyped, OnlineHasSession
  <2>2. CASE UNCHANGED vars
    BY <2>1, <2>2 DEF vars, rows
  <2>3. ASSUME NEW c \in Cashiers, GoIdle(c)
        PROVE  DutyInv'
    BY <2>1, <2>3 DEF GoIdle
  <2>4. ASSUME NEW c \in Cashiers, NEW s \in Statuses, SetCashierStatus(c, s)
        PROVE  DutyInv'
    BY <2>4, WriteKeeps DEF SetCashierStatus
  <2>5. ASSUME NEW c \in Cashiers, NEW s \in Statuses, BeginFirstStatus(c, s)
        PROVE  DutyInv'
    BY <2>1, <2>5 DEF BeginFirstStatus, rows
  <2>6. ASSUME NEW c \in Cashiers, NEW s \in Statuses, EndFirstStatus(c, s)
        PROVE  DutyInv'
    BY <2>6, WriteKeeps DEF EndFirstStatus
  <2>7. CASE FetchIdle
    BY <2>1, <2>7 DEF FetchIdle, rows
  <2>8. CASE ExpireOne
    <3>1. CASE status[Head(list)] = "online"
      <4>1. Write(Head(list), "online", "offline") /\ "offline" \in Statuses
        BY <2>8, <3>1 DEF ExpireOne, Statuses
      <4> QED
        BY <3>1, <4>1, WriteKeeps
    <3>2. CASE status[Head(list)] # "online"
      BY <2>1, <2>8, <3>2 DEF ExpireOne, rows
    <3> QED
      BY <3>1, <3>2
  <2>9. CASE FailTick \/ EndTick \/ Crash
    BY <2>1, <2>9 DEF FailTick, EndTick, Crash, rows
  <2> QED
    BY <2>2, <2>3, <2>4, <2>5, <2>6, <2>7, <2>8, <2>9 DEF Next
<1> QED
  BY <1>1, <1>2, PTL DEF Spec

\* A cashier shown online has an open session, whatever calls of
\* set_cashier_status overlap, however stale the worker's list is and wherever
\* the process dies.
THEOREM OnlineIsCounted == Spec => []OnlineHasSession
<1>1. DutyInv => OnlineHasSession
  BY DEF DutyInv
<1> QED
  BY <1>1, DutyInvariant, PTL

=============================================================================
