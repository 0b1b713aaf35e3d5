-------------------------- MODULE TicketLifecycle --------------------------
(***************************************************************************)
(* What a ticket promises to everyone who works with it, whatever the bot, *)
(* its workers and its admins do: it is opened once, held by at most one   *)
(* cashier at a time, confirmed or released by its holder only, and never  *)
(* touched again once it is confirmed or cancelled.  DwLedger (the         *)
(* database functions) and TicketDesk (the commands and workers that call  *)
(* them) both implement this specification.                                *)
(***************************************************************************)
CONSTANTS
  Tickets,
  Cashiers,
  Null

VARIABLES
  status,                      \* of each ticket; "none" before it is opened
  holder                       \* the cashier who claimed it last, or Null

Init ==
  /\ status = [t \in Tickets |-> "none"]
  /\ holder = [t \in Tickets |-> Null]

Holds(t, c) == status[t] = "claimed" /\ holder[t] = c

Move(t, from, to) == status[t] \in from /\ status' = [status EXCEPT ![t] = to]

Open(t) == Move(t, {"none"}, "open") /\ UNCHANGED holder

Claim(t, c) == Move(t, {"open"}, "claimed") /\ holder' = [holder EXCEPT ![t] = c]

Release(t, c) ==
  Holds(t, c) /\ Move(t, {"claimed"}, "open") /\ holder' = [holder EXCEPT ![t] = Null]

Confirm(t, c) == Holds(t, c) /\ Move(t, {"claimed"}, "confirmed") /\ UNCHANGED holder

Cancel(t) == Move(t, {"open", "claimed"}, "cancelled") /\ UNCHANGED holder

Next ==
  \E t \in Tickets :
    \/ Open(t)
    \/ Cancel(t)
    \/ \E c \in Cashiers : Claim(t, c) \/ Release(t, c) \/ Confirm(t, c)

Spec == Init /\ [][Next]_<<status, holder>>

=============================================================================
