---------------------------- MODULE TicketIntake ----------------------------
(***************************************************************************)
(* Opening a ticket with /deposit or /withdraw: the rate limiter, the      *)
(* modal, the private thread created for the ticket, the database call and *)
(* what follows it.  The two commands have the same steps; an instance     *)
(* stands for one of them (each has its own limiter).                      *)
(*                                                                         *)
(* The thread comes first because the ticket row needs its id.  From then  *)
(* on a handler awaits Discord or the database at every step, and each     *)
(* await may fail, or never return because the process dies.  Only an      *)
(* error that the function itself raised (a BalanceError) is caught; any   *)
(* other exception ends the handler where it stands.                       *)
(***************************************************************************)
EXTENDS Integers, Sequences, FiniteSets

CONSTANTS
  Users,                       \* Discord ids
  Threads,                     \* ids Discord can give to threads
  Capacity, Window,            \* of the FixedWindowLimiter: 1 per 60 s
  MaxTime,                     \* bound on the clock
  Null

ASSUME IntakeAssumption ==
  /\ Capacity \in Nat \ {0} /\ Window \in Nat \ {0} /\ MaxTime \in Nat
  /\ Null \notin Users

VARIABLES
  now,                         \* the clock, in units of the window
  bucket,                      \* the limiter's timestamps for each user
  granted,                     \* when this process granted each user's calls
  modals,                      \* modals open on a user's screen
  handler,                     \* where the handler that created a thread is
  thread,                      \* the threads on Discord and for whom they are
  members,                     \* threads whose user has been added
  ticket                       \* thread_id -> owner of the ticket row, or Null

vars == <<now, bucket, granted, modals, handler, thread, members, ticket>>
limiter == <<bucket, granted>>

-----------------------------------------------------------------------------
NoThread == [state |-> "none", user |-> Null]
Stages == {"done", "adding", "calling", "posting", "deleting"}

TypeOK ==
  /\ now \in 0 .. MaxTime
  /\ bucket \in [Users -> Seq(0 .. MaxTime)] /\ granted \in [Users -> Seq(0 .. MaxTime)]
  /\ \A u \in Users : Len(bucket[u]) <= Capacity
  /\ modals \in [Users -> Nat]
  /\ handler \in [Threads -> Stages]
  /\ thread \in [Threads -> [state : {"none", "live", "deleted"}, user : Users \cup {Null}]]
  /\ members \subseteq Threads
  /\ ticket \in [Threads -> Users \cup {Null}]

Init ==
  /\ now = 0
  /\ bucket = [u \in Users |-> <<>>] /\ granted = [u \in Users |-> <<>>]
  /\ modals = [u \in Users |-> 0]
  /\ handler = [h \in Threads |-> "done"]
  /\ thread = [h \in Threads |-> NoThread]
  /\ members = {}
  /\ ticket = [h \in Threads |-> Null]

-----------------------------------------------------------------------------
(* FixedWindowLimiter.acquire.                                             *)

\* The timestamps at the head of u's bucket that are at or before the cutoff.
StaleCount(u, cutoff) ==
  CHOOSE n \in 0 .. Len(bucket[u]) :
    /\ \A i \in 1 .. n : bucket[u][i] <= cutoff
    /\ n < Len(bucket[u]) => bucket[u][n + 1] > cutoff

\* What is left of u's bucket when these have been popped from its left.
Pruned(u, cutoff) == SubSeq(bucket[u], StaleCount(u, cutoff) + 1, Len(bucket[u]))

\* Mutant of Recent: a timestamp is dropped one unit too early.
RecentShort(u) == Pruned(u, now - Window + 1)

\* What pruning leaves, with the cutoff a window before now.
Recent(u) == Pruned(u, now - Window)

HasRoom(u) == Len(Recent(u)) < Capacity

\* The command: a granted call is recorded and opens the modal.
Command(u) ==
  /\ HasRoom(u)
  /\ bucket' = [bucket EXCEPT ![u] = Append(Recent(u), now)]
  /\ granted' = [granted EXCEPT ![u] = Append(@, now)]
  /\ modals' = [modals EXCEPT ![u] = @ + 1]
  /\ UNCHANGED <<now, handler, thread, members, ticket>>

\* A denied call only prunes.
DenyCommand(u) ==
  /\ ~ HasRoom(u)
  /\ bucket' = [bucket EXCEPT ![u] = Recent(u)]
  /\ UNCHANGED <<now, granted, modals, handler, thread, members, ticket>>

\* The user dismisses the modal, its input is invalid, or no thread can be
\* created.
DropModal(u) ==
  /\ modals[u] > 0
  /\ modals' = [modals EXCEPT ![u] = @ - 1]
  /\ UNCHANGED <<now, limiter, handler, thread, members, ticket>>

-----------------------------------------------------------------------------
(* _on_modal_validated.                                                    *)

\* The handler goes on to stage s.
GoesTo(h, s) == handler' = [handler EXCEPT ![h] = s]

\* Mutant of OnError: whatever went wrong, the thread is torn down.
OnErrorTearDown(h) == GoesTo(h, "deleting")

\* An exception that is no BalanceError leaves the handler: nothing is cleaned up.
OnError(h) == GoesTo(h, "done")

\* create_thread.
SubmitModal(u, h) ==
  /\ modals[u] > 0 /\ thread[h].state = "none"
  /\ modals' = [modals EXCEPT ![u] = @ - 1]
  /\ thread' = [thread EXCEPT ![h] = [state |-> "live", user |-> u]]
  /\ GoesTo(h, "adding")
  /\ UNCHANGED <<now, limiter, members, ticket>>

\* thread.add_user, which may fail.
AddUser(h) ==
  /\ handler[h] = "adding"
  /\ \/ GoesTo(h, "calling") /\ members' = members \cup {h}
     \/ OnError(h) /\ UNCHANGED members
  /\ UNCHANGED <<now, limiter, modals, thread, ticket>>

\* create_*_ticket commits; its answer reaches the handler or is lost.
CallCommits(h) ==
  /\ handler[h] = "calling"
  /\ ticket' = [ticket EXCEPT ![h] = thread[h].user]
  /\ GoesTo(h, "posting") \/ OnError(h)
  /\ UNCHANGED <<now, limiter, modals, thread, members>>

\* The function raises (banned, out of range, ...), or the call fails before it
\* commits.
CallFails(h) ==
  /\ handler[h] = "calling"
  /\ GoesTo(h, "deleting") \/ OnError(h)
  /\ UNCHANGED <<now, limiter, modals, thread, members, ticket>>

\* The thread is renamed and the embeds are posted, or one of these calls fails.
PostOpen(h) ==
  /\ handler[h] = "posting"
  /\ GoesTo(h, "done")
  /\ UNCHANGED <<now, limiter, modals, thread, members, ticket>>

\* _safe_delete_thread: a failure is logged and swallowed.
SafeDeleteThread(h) ==
  /\ handler[h] = "deleting"
  /\ GoesTo(h, "done")
  /\ \/ thread' = [thread EXCEPT ![h].state = "deleted"]
     \/ UNCHANGED thread
  /\ UNCHANGED <<now, limiter, modals, members, ticket>>

-----------------------------------------------------------------------------
Tick ==
  /\ now < MaxTime
  /\ now' = now + 1
  /\ UNCHANGED <<limiter, modals, handler, thread, members, ticket>>

\* The limiter, the modals and the handlers live in the process.
Crash ==
  /\ bucket' = [u \in Users |-> <<>>] /\ granted' = [u \in Users |-> <<>>]
  /\ modals' = [u \in Users |-> 0]
  /\ handler' = [h \in Threads |-> "done"]
  /\ UNCHANGED <<now, thread, members, ticket>>

HandlerStep(h) ==
  AddUser(h) \/ CallCommits(h) \/ CallFails(h) \/ PostOpen(h) \/ SafeDeleteThread(h)

Next ==
  \/ \E u \in Users : \/ Command(u) \/ DenyCommand(u) \/ DropModal(u)
                      \/ \E h \in Threads : SubmitModal(u, h)
  \/ \E h \in Threads : HandlerStep(h)
  \/ Tick \/ Crash

Spec == Init /\ [][Next]_vars

-----------------------------------------------------------------------------
(* Properties.                                                             *)

\* Whatever fails and wherever the process dies, a ticket in the database has a
\* thread that exists and that its owner is in: were it torn down, nobody could
\* claim, confirm or cancel the ticket from it.
TicketsReachable ==
  \A h \in Threads :
    ticket[h] # Null =>
      /\ thread[h] = [state |-> "live", user |-> ticket[h]]
      /\ h \in members

\* Of any Capacity + 1 calls granted to a user by one process, the last comes at
\* least a window after the first.
GrantsWithinLimit ==
  \A u \in Users : \A i \in 1 .. Len(granted[u]) - Capacity :
    granted[u][i + Capacity] - granted[u][i] >= Window

=============================================================================
