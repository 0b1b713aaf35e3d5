-------------------------- MODULE TicketDesk_proofs --------------------------
(***************************************************************************)
(* Proofs about the ticket desk, for any sets of tickets and cashiers: it  *)
(* implements TicketLifecycle, and a stale list releases nothing.  Then    *)
(* about the desk with its threads: the posts change nothing at the desk,  *)
(* and no thread announces an outcome that its ticket does not have.       *)
(***************************************************************************)
EXTENDS TicketThread, TLAPS

\* The inductive invariant: the types, and that a claimed ticket has a claimer
\* (so that the claim_idle worker's lists name cashiers).
DeskInv ==
  /\ TypeOK
  /\ \A t \in Tickets : status[t] = "claimed" => claimedBy[t] \in Cashiers

\* What a step does to the ticket rows: one of the functions' effects on one
\* ticket, or time passing, or nothing.
RowStep ==
  \/ UNCHANGED <<status, claimedBy>>
  \/ \E t \in Tickets : \/ status[t] = "none" /\ UNCHANGED claimedBy
                             /\ status' = [status EXCEPT ![t] = "open"]
                        \/ IsLive(t) /\ DoFinish(t, "cancelled")
                        \/ \E c \in Cashiers : \/ status[t] = "open" /\ DoClaim(t, c)
                                               \/ HeldBy(t, c) /\ DoRelease(t)
                                               \/ HeldBy(t, c) /\ DoFinish(t, "confirmed")

LEMMA StepsMoveRows == [Next]_vars => RowStep
<1> SUFFICES ASSUME [Next]_vars PROVE RowStep
  OBVIOUS
<1>1. ASSUME NEW t \in Tickets, DeskStep(t)
      PROVE  RowStep
  <2>1. CASE OpenTicket(t) \/ Cancel(t)
    BY <2>1 DEF OpenTicket, Cancel, RowStep
  <2>2. CASE CheckCancelMine(t) \/ CallCancelMine(t)
    BY <2>2 DEF CheckCancelMine, CallCancelMine, RowStep, rows
  <2>3. CASE Expire(t)
    BY <2>3 DEF Expire, RowStep
  <2>4. ASSUME NEW c \in Cashiers,
               Claim(t, c) \/ Release(t, c) \/ Age(t, c) \/ AskConfirm(t, c)
                 \/ SubmitConfirm(t, c) \/ DismissConfirm(t, c)
        PROVE  RowStep
    BY <2>4 DEF Claim, Release, Age, AskConfirm, SubmitConfirm, DismissConfirm, RowStep, rows
  <2> QED
    BY <1>1, <2>1, <2>2, <2>3, <2>4 DEF DeskStep
<1>2. CASE TimeoutStep
  BY <1>2 DEF TimeoutStep, FetchExpiredDeposits, FetchExpiredWithdraws, FetchExpired,
              EndTimeoutTick, FailTimeoutTick, CancelExpired, RowStep, rows
<1>3. CASE IdleStep
  BY <1>3 DEF IdleStep, FetchIdleClaims, FetchLongClaims, EndIdleTick, FailIdleTick,
              ReleaseIdle, CancelLong, RowStep, rows
<1>4. CASE Crash
  BY <1>4 DEF Crash, RowStep, rows
<1>5. CASE UNCHANGED vars
  BY <1>5 DEF vars, RowStep, rows
<1> QED
  BY <1>1, <1>2, <1>3, <1>4, <1>5 DEF Next

-----------------------------------------------------------------------------
\* The desk's rows, handlers and worker lists are well typed, and a claimed
\* ticket always names its claimer, whatever crashes or fails.
THEOREM DeskCorrect == Spec => []DeskInv
<1>1. Init => DeskInv
  BY DEF Init, DeskInv, TypeOK, Statuses, Asleep
<1>2. DeskInv /\ [Next]_vars => DeskInv'
  <2> SUFFICES ASSUME DeskInv, [Next]_vars PROVE DeskInv'
    OBVIOUS
  <2>1. /\ status' \in [Tickets -> Statuses]
        /\ claimedBy' \in [Tickets -> Cashiers \cup {Null}]
        /\ \A t \in Tickets : status'[t] = "claimed" => claimedBy'[t] \in Cashiers
    <3>1. CASE UNCHANGED <<status, claimedBy>>
      BY <3>1 DEF DeskInv, TypeOK
    <3>2. ASSUME NEW t \in Tickets, NEW s \in Statuses \ {"claimed"}, UNCHANGED claimedBy,
                 status' = [status EXCEPT ![t] = s]
          PROVE  <2>1!1 /\ <2>1!2 /\ <2>1!3
      BY <3>2 DEF DeskInv, TypeOK
    <3>3. ASSUME NEW t \in Tickets, DoRelease(t)
          PROVE  <2>1!1 /\ <2>1!2 /\ <2>1!3
      BY <3>3 DEF DoRelease, DeskInv, TypeOK, Statuses
    <3>4. ASSUME NEW t \in Tickets, NEW c \in Cashiers, DoClaim(t, c)
          PROVE  <2>1!1 /\ <2>1!2 /\ <2>1!3
      BY <3>4 DEF DoClaim, DeskInv, TypeOK, Statuses
    <3> QED
      BY <3>1, <3>2, <3>3, <3>4, StepsMoveRows DEF RowStep, DoFinish, Statuses
  <2> DEFINE Times == expired' \subseteq Tickets /\ age' \in [Tickets -> {"fresh", "idle", "overdue"}]
             Hands == modals' \subseteq Cashiers \X Tickets /\ cancelling' \subseteq Tickets
             TimeoutOK == timeout' \in [at : {"sleep", "deposits", "withdraws"}, list : SUBSET Tickets]
             IdlerOK == idler' \in [at : {"sleep", "release", "cancel"},
                                   list : SUBSET (Tickets \X Cashiers)]
  <2>2. /\ UNCHANGED <<expired, age>> => Times
        /\ UNCHANGED handlers => Hands
        /\ UNCHANGED timeout => TimeoutOK
        /\ UNCHANGED idler => IdlerOK
        /\ timeout' = Asleep => TimeoutOK
        /\ idler' = Asleep => IdlerOK
    BY DEF DeskInv, TypeOK, handlers, Asleep
  <2>3. \A t \in Tickets, c \in Cashiers, s \in Statuses :
          DoClaim(t, c) \/ DoRelease(t) \/ DoFinish(t, s) => Times
    BY DEF DoClaim, DoRelease, DoFinish, DeskInv, TypeOK
  <2>4. ASSUME NEW t \in Tickets, DeskStep(t)
        PROVE  Times /\ Hands /\ TimeoutOK /\ IdlerOK
    <3>1. UNCHANGED <<timeout, idler>>
      BY <2>4 DEF DeskStep, OpenTicket, Cancel, CheckCancelMine, CallCancelMine, Expire, Age,
                  Claim, Release, AskConfirm, SubmitConfirm, DismissConfirm
    <3>2. Hands
      <4>1. \/ UNCHANGED handlers
            \/ \E c \in Cashiers :
                 /\ modals' = modals \cup {<<c, t>>} \/ modals' = modals \ {<<c, t>>}
                 /\ UNCHANGED cancelling
            \/ /\ cancelling' = cancelling \cup {t} \/ cancelling' = cancelling \ {t}
               /\ UNCHANGED modals
        BY <2>4 DEF DeskStep, OpenTicket, Cancel, CheckCancelMine, CallCancelMine, Expire,
                    Age, Claim, Release, AskConfirm, SubmitConfirm, DismissConfirm, handlers
      <4> QED
        BY <2>2, <4>1 DEF DeskInv, TypeOK
    <3>3. ASSUME Expire(t) \/ \E c \in Cashiers : Age(t, c) PROVE Times
      BY <3>3 DEF Expire, Age, DeskInv, TypeOK
    <3>4. ASSUME ~ (Expire(t) \/ \E c \in Cashiers : Age(t, c)) PROVE Times
      <4>1. \/ UNCHANGED <<expired, age>>
            \/ DoFinish(t, "confirmed") \/ DoFinish(t, "cancelled") \/ DoRelease(t)
            \/ \E c \in Cashiers : DoClaim(t, c)
        BY <2>4, <3>4
           DEF DeskStep, OpenTicket, Cancel, CheckCancelMine, CallCancelMine, Claim, Release,
               AskConfirm, SubmitConfirm, DismissConfirm, rows
      <4> QED
        BY <2>2, <4>1 DEF DoClaim, DoRelease, DoFinish, DeskInv, TypeOK
    <3> QED
      BY <2>2, <3>1, <3>2, <3>3, <3>4
  <2>5. ASSUME TimeoutStep PROVE Times /\ Hands /\ TimeoutOK /\ IdlerOK
    <3>1. UNCHANGED <<handlers, idler>>
      BY <2>5 DEF TimeoutStep, FetchExpiredDeposits, FetchExpiredWithdraws, FetchExpired,
                  CancelExpired, EndTimeoutTick, FailTimeoutTick
    <3>2. TimeoutOK
      <4>1. FetchExpiredDeposits \/ FetchExpiredWithdraws => TimeoutOK
        BY DEF FetchExpiredDeposits, FetchExpiredWithdraws, FetchExpired, Overtime, Tickets
      <4>2. \A t \in Tickets : CancelExpired(t) => TimeoutOK
        BY DEF CancelExpired, DeskInv, TypeOK
      <4> QED
        BY <2>2, <2>5, <4>1, <4>2 DEF TimeoutStep, EndTimeoutTick, FailTimeoutTick
    <3>3. Times
      <4>1. UNCHANGED <<expired, age>> \/ \E t \in Tickets : DoFinish(t, "cancelled")
        BY <2>5 DEF TimeoutStep, FetchExpiredDeposits, FetchExpiredWithdraws, FetchExpired,
                    CancelExpired, EndTimeoutTick, FailTimeoutTick, rows
      <4> QED
        BY <2>2, <4>1 DEF DoFinish
    <3> QED
      BY <2>2, <3>1, <3>2, <3>3
  <2>6. ASSUME IdleStep PROVE Times /\ Hands /\ TimeoutOK /\ IdlerOK
    <3>1. UNCHANGED <<handlers, timeout>>
      BY <2>6 DEF IdleStep, FetchIdleClaims, FetchLongClaims, EndIdleTick, FailIdleTick,
                  ReleaseIdle, CancelLong
    <3>2. \A S \in SUBSET IdleClaims : {<<t, claimedBy[t]>> : t \in S} \subseteq Tickets \X Cashiers
      BY DEF IdleClaims, DeskInv
    <3>3. IdlerOK
      <4>1. ASSUME FetchIdleClaims PROVE IdlerOK
        BY <3>2, <4>1 DEF FetchIdleClaims
      <4>2. ASSUME FetchLongClaims PROVE IdlerOK
        <5>1. {x \in IdleClaims : age[x] = "overdue"} \in SUBSET IdleClaims
          OBVIOUS
        <5> QED
          BY <3>2, <4>2, <5>1 DEF FetchLongClaims
      <4>3. \A t \in Tickets, c \in Cashiers : ReleaseIdle(t, c) \/ CancelLong(t, c) => IdlerOK
        BY DEF ReleaseIdle, CancelLong, DeskInv, TypeOK
      <4> QED
        BY <2>2, <2>6, <4>1, <4>2, <4>3 DEF IdleStep, EndIdleTick, FailIdleTick
    <3>4. Times
      BY <2>2, <2>3, <2>6
         DEF IdleStep, FetchIdleClaims, FetchLongClaims, EndIdleTick, FailIdleTick,
             ReleaseIdle, CancelLong, rows, Statuses
    <3> QED
      BY <2>2, <3>1, <3>3, <3>4
  <2>7. ASSUME Crash PROVE Times /\ Hands /\ TimeoutOK /\ IdlerOK
    BY <2>2, <2>7 DEF Crash, rows
  <2>8. ASSUME UNCHANGED vars PROVE Times /\ Hands /\ TimeoutOK /\ IdlerOK
    BY <2>2, <2>8 DEF vars, rows
  <2>9. Times /\ Hands /\ TimeoutOK /\ IdlerOK
    BY <2>4, <2>5, <2>6, <2>7, <2>8 DEF Next
  <2> QED
    BY <2>1, <2>9 DEF DeskInv, TypeOK
<1> QED
  BY <1>1, <1>2, PTL DEF Spec

-----------------------------------------------------------------------------
\* However commands, workers and crashes interleave, a ticket at the desk is
\* opened once, has one holder at a time, is confirmed and released only in the
\* holder's name and is never moved once finished.
THEOREM DeskKeepsLifecycle == Spec => KeepsLifecycle
<1>1. Init => Lifecycle!Init
  BY DEF Init, Lifecycle!Init
<1>2. [Next]_vars => [Lifecycle!Next]_<<status, claimedBy>>
  <2> SUFFICES ASSUME [Next]_vars PROVE [Lifecycle!Next]_<<status, claimedBy>>
    OBVIOUS
  <2>1. RowStep
    BY StepsMoveRows
  <2>2. ASSUME NEW t \in Tickets, NEW c \in Cashiers, status[t] = "open", DoClaim(t, c)
        PROVE  Lifecycle!Claim(t, c)
    BY <2>2 DEF DoClaim, Lifecycle!Claim, Lifecycle!Move
  <2>3. ASSUME NEW t \in Tickets, NEW c \in Cashiers, HeldBy(t, c), DoRelease(t)
        PROVE  Lifecycle!Release(t, c)
    BY <2>3 DEF HeldBy, DoRelease, Lifecycle!Release, Lifecycle!Holds, Lifecycle!Move
  <2>4. ASSUME NEW t \in Tickets, NEW c \in Cashiers, HeldBy(t, c), DoFinish(t, "confirmed")
        PROVE  Lifecycle!Confirm(t, c)
    BY <2>4 DEF HeldBy, DoFinish, Lifecycle!Confirm, Lifecycle!Holds, Lifecycle!Move
  <2>5. ASSUME NEW t \in Tickets, IsLive(t), DoFinish(t, "cancelled")
        PROVE  Lifecycle!Cancel(t)
    BY <2>5 DEF IsLive, DoFinish, Lifecycle!Cancel, Lifecycle!Move
  <2>6. ASSUME NEW t \in Tickets, status[t] = "none", UNCHANGED claimedBy,
               status' = [status EXCEPT ![t] = "open"]
        PROVE  Lifecycle!Open(t)
    BY <2>6 DEF Lifecycle!Open, Lifecycle!Move
  <2> QED
    BY <2>1, <2>2, <2>3, <2>4, <2>5, <2>6 DEF RowStep, Lifecycle!Next
<1> QED
  BY <1>1, <1>2, PTL DEF Spec, KeepsLifecycle, Lifecycle!Spec, vars, rows

\* The claim_idle worker releases a ticket only from the cashier it listed: an
\* entry whose ticket has changed hands leaves the row alone.
THEOREM ClaimsNeverStolen == Spec => WorkerNeverStealsClaim
<1>1. DeskInv /\ [Next]_vars => [ReleasesOnlyListed]_vars
  <2> SUFFICES ASSUME DeskInv, [Next]_vars,
                      NEW t \in Tickets, NEW c \in Cashiers,
                      idler.at = "release", <<t, c>> \in idler.list, claimedBy[t] # c,
                      idler'.at = "release", <<t, c>> \notin idler'.list
               PROVE  rows' = rows
    BY DEF ReleasesOnlyListed
  <2>1. idler' # idler
    OBVIOUS
  <2>2. IdleStep
    <3>1. ASSUME NEW x \in Tickets, DeskStep(x) PROVE FALSE
      BY <2>1, <3>1 DEF DeskStep, OpenTicket, Cancel, CheckCancelMine, CallCancelMine, Expire, Age,
                        Claim, Release, AskConfirm, SubmitConfirm, DismissConfirm
    <3>2. ASSUME TimeoutStep PROVE FALSE
      BY <2>1, <3>2 DEF TimeoutStep, FetchExpiredDeposits, FetchExpiredWithdraws, FetchExpired,
                        CancelExpired, EndTimeoutTick, FailTimeoutTick
    <3>3. ~ Crash
      BY DEF Crash, Asleep
    <3> QED
      BY <2>1, <3>1, <3>2, <3>3 DEF Next, vars
  <2>3. PICK x \in Tickets, d \in Cashiers : ReleaseIdle(x, d)
    BY <2>2 DEF IdleStep, FetchIdleClaims, FetchLongClaims, EndIdleTick, FailIdleTick,
                CancelLong, Asleep
  <2>4. <<x, d>> = <<t, c>>
    BY <2>3 DEF ReleaseIdle, DeskInv, TypeOK
  <2> QED
    BY <2>3, <2>4 DEF ReleaseIdle, HeldBy
<1> QED
  BY <1>1, DeskCorrect, PTL DEF Spec, WorkerNeverStealsClaim

-----------------------------------------------------------------------------
(* The threads.                                                            *)

\* The inductive invariant of the desk with its threads.
ThreadInv == DeskInv /\ ThreadTypeOK /\ ThreadTellsOneStory

\* A step that posts is a step of the desk, or leaves the desk alone.
LEMMA ThreadStepsAreDeskSteps == [ThreadNext]_<<vars, posts>> => [Next]_vars
<1> SUFFICES ASSUME [ThreadNext]_<<vars, posts>> PROVE [Next]_vars
  OBVIOUS
<1>1. ASSUME NEW t \in Tickets,
             OpenTicket(t) \/ CheckCancelMine(t) \/ Expire(t) \/ CancelAndPost(t)
               \/ CancelMineAndPost(t)
      PROVE  Next
  BY <1>1 DEF CancelAndPost, CancelMineAndPost, Next, DeskStep
<1>2. ASSUME NEW t \in Tickets, NEW c \in Cashiers,
             ClaimAndPost(t, c) \/ ConfirmAndPost(t, c) \/ Release(t, c) \/ Age(t, c)
               \/ AskConfirm(t, c) \/ DismissConfirm(t, c)
      PROVE  Next
  BY <1>2 DEF ClaimAndPost, ConfirmAndPost, Next, DeskStep
<1>3. ASSUME NEW e \in posting, Post(e) \/ FailPost(e) PROVE UNCHANGED vars
  BY <1>3 DEF Post, FailPost
<1> QED
  BY <1>1, <1>2, <1>3 DEF ThreadNext, CrashPosts, Next

\* A step of the desk leaves a finished ticket finished.
LEMMA OutcomeIsFinal ==
  ASSUME DeskInv, [Next]_vars, NEW t \in Tickets, status[t] \in Final
  PROVE  status'[t] = status[t]
<1>1. RowStep
  BY StepsMoveRows
<1> QED
  BY <1>1 DEF RowStep, DoFinish, DoClaim, DoRelease, IsLive, HeldBy, Final, DeskInv, TypeOK

\* Every embed that is new in a step is one that a handler goes on to post, and
\* if it announces an outcome, the ticket has it.
LEMMA NewEmbedsTrue ==
  ASSUME DeskInv, ThreadTypeOK, [ThreadNext]_<<vars, posts>>,
         NEW e \in posting' \cup thread'
  PROVE  e \in posting \cup thread \/ (e \in Embeds /\ (e.kind \in Final => status'[e.ticket] = e.kind))
<1> DEFINE Told == e \in Embeds /\ (e.kind \in Final => status'[e.ticket] = e.kind)
<1>0. ASSUME NEW t \in Tickets, NEW kind \in {"claimed"} \cup Final, WillPost(t, kind),
             kind \in Final => status'[t] = kind
      PROVE  e \in posting \cup thread \/ Told
  <2>1. Embed(t, kind) \in Embeds
    BY DEF Embeds
  <2>2. Embed(t, kind).ticket = t /\ Embed(t, kind).kind = kind
    BY DEF Embed
  <2>3. e \in posting \cup thread \/ e = Embed(t, kind)
    BY <1>0 DEF WillPost
  <2> QED
    BY <1>0, <2>1, <2>2, <2>3
<1>1. ASSUME UNCHANGED posts PROVE e \in posting \cup thread
  BY <1>1 DEF posts
<1>2. ASSUME NEW t \in Tickets, DoFinish(t, "cancelled") PROVE status'[t] = "cancelled"
  BY <1>2 DEF DoFinish, DeskInv, TypeOK
<1>3. ASSUME NEW t \in Tickets, CancelAndPost(t) PROVE e \in posting \cup thread \/ Told
  BY <1>0, <1>1, <1>2, <1>3 DEF CancelAndPost, Cancel, Final
<1>4. ASSUME NEW t \in Tickets, CancelMineAndPost(t) PROVE e \in posting \cup thread \/ Told
  BY <1>0, <1>1, <1>2, <1>4 DEF CancelMineAndPost, CallCancelMine, Final
<1>5. ASSUME NEW t \in Tickets, NEW c \in Cashiers, ClaimAndPost(t, c)
      PROVE  e \in posting \cup thread \/ Told
  BY <1>0, <1>5 DEF ClaimAndPost, Final
<1>6. ASSUME NEW t \in Tickets, NEW c \in Cashiers, ConfirmAndPost(t, c)
      PROVE  e \in posting \cup thread \/ Told
  <2>1. Succeeds(t, c) => status'[t] = "confirmed"
    BY <1>6 DEF ConfirmAndPost, SubmitConfirm, Succeeds, HeldBy, DoFinish, rows, DeskInv, TypeOK
  <2> QED
    BY <1>0, <1>1, <1>6, <2>1 DEF ConfirmAndPost, Final
<1>7. ASSUME NEW d \in posting, Post(d) \/ FailPost(d) PROVE e \in posting \cup thread
  BY <1>7 DEF Post, FailPost
<1>8. ASSUME CrashPosts PROVE e \in posting \cup thread
  BY <1>8 DEF CrashPosts
<1> HIDE DEF Told
<1>9. e \in posting \cup thread \/ Told
  BY <1>1, <1>3, <1>4, <1>5, <1>6, <1>7, <1>8 DEF ThreadNext
<1> QED
  BY <1>9 DEF Told

-----------------------------------------------------------------------------
\* The posts are seen by nobody at the desk: with them, the rows, the handlers
\* and the workers still behave as TicketDesk specifies, so what holds of the
\* desk holds of the desk with its threads.
THEOREM ThreadImplementsDesk == ThreadSpec => Spec
  BY ThreadStepsAreDeskSteps, PTL DEF ThreadSpec, ThreadInit, Spec

\* However late, refused or lost its posts are, a thread never says of a ticket
\* that it is confirmed or cancelled unless the database says the same.
THEOREM ThreadsTellTheTruth == ThreadSpec => []ThreadTellsOneStory
<1>1. ThreadInit => ThreadInv
  BY DEF ThreadInit, Init, ThreadInv, ThreadTypeOK, ThreadTellsOneStory, DeskInv, TypeOK,
         Statuses, Asleep
<1>2. ThreadSpec => []DeskInv
  BY ThreadImplementsDesk, DeskCorrect, PTL
<1>3. ThreadInv /\ DeskInv' /\ [ThreadNext]_<<vars, posts>> => ThreadInv'
  <2> SUFFICES ASSUME ThreadInv, DeskInv', [ThreadNext]_<<vars, posts>> PROVE ThreadInv'
    OBVIOUS
  <2>1. [Next]_vars
    BY ThreadStepsAreDeskSteps
  <2>2. ASSUME NEW e \in posting' \cup thread'
        PROVE  e \in Embeds /\ (e.kind \in Final => status'[e.ticket] = e.kind)
    <3>1. CASE e \in posting \cup thread
      <4>1. e \in Embeds /\ e.ticket \in Tickets
        BY <3>1 DEF ThreadInv, ThreadTypeOK, Embeds, Embed
      <4>2. e.kind \in Final => status[e.ticket] = e.kind
        BY <3>1 DEF ThreadInv, ThreadTellsOneStory
      <4> QED
        BY <2>1, <4>1, <4>2, OutcomeIsFinal DEF ThreadInv
    <3>2. CASE e \notin posting \cup thread
      BY <2>2, <3>2, NewEmbedsTrue DEF ThreadInv
    <3> QED
      BY <3>1, <3>2
  <2>3. Embeds' = Embeds
    BY DEF Embeds, Embed
  <2>4. raised' \subseteq Tickets
    <3>1. \A e \in Embeds : e.ticket \in Tickets
      BY DEF Embeds, Embed
    <3>2. \A e \in posting : Post(e) => raised' \subseteq raised \cup {e.ticket}
      BY DEF Post
    <3>3. UNCHANGED raised \/ \E e \in posting : Post(e)
      BY DEF ThreadNext, posts, WillPost, ClaimAndPost, CancelAndPost, CancelMineAndPost,
             ConfirmAndPost, FailPost, CrashPosts
    <3> QED
      BY <3>1, <3>2, <3>3 DEF ThreadInv, ThreadTypeOK
  <2> QED
    BY <2>2, <2>3, <2>4 DEF ThreadInv, ThreadTypeOK, ThreadTellsOneStory, DeskInv
<1> QED
  BY <1>1, <1>2, <1>3, PTL DEF ThreadSpec, ThreadInv

=============================================================================
