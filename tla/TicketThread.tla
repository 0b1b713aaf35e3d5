---------------------------- MODULE TicketThread ----------------------------
(***************************************************************************)
(* The desk (TicketDesk) together with the embeds its handlers post in the *)
(* tickets' threads.  A handler posts after its call has returned, so      *)
(* other handlers and the workers get in between, Discord may refuse the   *)
(* message and a crash loses it.  The workers and the admins' force-cancel *)
(* post nothing in the thread.                                             *)
(***************************************************************************)
EXTENDS TicketDesk

VARIABLES
  posting,                     \* embeds of handlers whose call has succeeded
  thread,                      \* embeds posted in the tickets' threads
  raised                       \* tickets whose /confirm handler raised

posts == <<posting, thread, raised>>

\* The columns that _resolve_ticket_context selects.
ContextColumns ==
  {"ticket_type", "ticket_uid", "discord_id", "status", "char_name", "realm",
   "region", "faction", "amount"}

\* An embed, by what it announces; the rest of it is layout.
Embed(t, kind) == [ticket |-> t, kind |-> kind]

Embeds == {Embed(t, kind) : t \in Tickets, kind \in {"claimed"} \cup Final}

ThreadTypeOK ==
  TypeOK /\ posting \subseteq Embeds /\ thread \subseteq Embeds /\ raised \subseteq Tickets

ThreadInit == Init /\ posting = {} /\ thread = {} /\ raised = {}

-----------------------------------------------------------------------------
\* What a handler goes on to post, once its call has succeeded.
WillPost(t, kind) ==
  /\ posting' = posting \cup {Embed(t, kind)}
  /\ UNCHANGED <<thread, raised>>

ClaimAndPost(t, c) == Claim(t, c) /\ WillPost(t, "claimed")

\* /cancel posts; /admin-force-cancel-ticket does not.
CancelAndPost(t) == Cancel(t) /\ (WillPost(t, "cancelled") \/ UNCHANGED posts)

CancelMineAndPost(t) ==
  /\ CallCancelMine(t)
  /\ IF IsLive(t) THEN WillPost(t, "cancelled") ELSE UNCHANGED posts

\* Mutant of Succeeds: the outcome is taken for a success as soon as the ticket
\* is confirmed or claimed by anyone.
SucceedsForAnyone(t, c) == status[t] \in {"claimed", "confirmed"}

\* confirm_* returns: the first time, and when the same cashier repeats it.
Succeeds(t, c) == status[t] \in {"claimed", "confirmed"} /\ claimedBy[t] = c

ConfirmAndPost(t, c) ==
  /\ SubmitConfirm(t, c)
  /\ IF Succeeds(t, c) THEN WillPost(t, "confirmed") ELSE UNCHANGED posts

\* The embed is sent.  /confirm then reads claimed_at from its row.
Post(e) ==
  /\ e \in posting
  /\ posting' = posting \ {e}
  /\ thread' = thread \cup {e}
  /\ raised' = raised \cup {t \in {e.ticket} : e.kind = "confirmed"
                                               /\ "claimed_at" \notin ContextColumns}
  /\ UNCHANGED vars

\* Discord refuses the message and the handler ends.
FailPost(e) ==
  /\ e \in posting
  /\ posting' = posting \ {e}
  /\ UNCHANGED <<vars, thread, raised>>

CrashPosts == Crash /\ posting' = {} /\ UNCHANGED <<thread, raised>>

ThreadNext ==
  \/ \E t \in Tickets :
       \/ (OpenTicket(t) \/ CheckCancelMine(t) \/ Expire(t)) /\ UNCHANGED posts
       \/ CancelAndPost(t) \/ CancelMineAndPost(t)
       \/ \E c \in Cashiers :
            \/ ClaimAndPost(t, c) \/ ConfirmAndPost(t, c)
            \/ (Release(t, c) \/ Age(t, c) \/ AskConfirm(t, c) \/ DismissConfirm(t, c)) /\ UNCHANGED posts
  \/ \E e \in posting : Post(e) \/ FailPost(e)
  \/ (TimeoutStep \/ IdleStep) /\ UNCHANGED posts
  \/ CrashPosts

ThreadSpec == ThreadInit /\ [][ThreadNext]_<<vars, posts>>

\* The workers' fairness is the desk's; nothing is assumed of the posts.
ThreadFairSpec == ThreadSpec /\ TimeoutFairness /\ IdleFairness

-----------------------------------------------------------------------------
(* Properties.                                                             *)

\* The thread tells one story: an embed that says a ticket is confirmed or
\* cancelled, posted or about to be, says what the database says, however late
\* it is posted and whoever else finished the ticket meanwhile.
ThreadTellsOneStory ==
  \A e \in posting \cup thread : e.kind \in Final => status[e.ticket] = e.kind

=============================================================================
