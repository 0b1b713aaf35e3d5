--------------------------- MODULE BoardMessages ---------------------------
(***************************************************************************)
(* The embeds the bot keeps up to date in the channels of GuildSetup, each *)
(* posted once and edited from then on:                                    *)
(*                                                                         *)
(*  - the guides of welcome.py: a row of dw.dynamic_embeds, reconciled by  *)
(*    on_ready and /admin-setup and edited by /admin-set-*-guide;          *)
(*  - the roster of cashiers/live_updater.py, every 30 seconds;            *)
(*  - a dispute's embed (disputes.py): posted by /admin-dispute-open,      *)
(*    edited by /admin-dispute-resolve and -reject.                        *)
(*                                                                         *)
(* Which one it is depends on the channel that is followed.  All of them   *)
(* send a message and persist its id in a second step, and all of them     *)
(* work on what they have read earlier.  An embed's content is numbered:   *)
(* each change of the guide, of the roster or of the dispute is the next   *)
(* number.                                                                 *)
(***************************************************************************)
EXTENDS GuildSetup

CONSTANTS
  Tasks(_),                    \* coroutines that may be at work on the embed
  MaxMessages,                 \* bound: messages sent
  MaxContent,                  \* bound: changes of the content
  MaxOverlaps                  \* bound: tasks started while another is at work

ASSUME BoardAssumption == {MaxMessages, MaxContent, MaxOverlaps} \subseteq Nat

VARIABLES
  row,                         \* dw.dynamic_embeds, or the message id in dw.disputes
  content,                     \* what the embed should show
  messages, sent,              \* the messages that are not deleted; how many were sent
  tasks,
  updater,                     \* the channel OnlineCashiersUpdater was started with, or 0
  lost, overlaps               \* tasks that ended between send and persist; see above

board == <<row, content, messages, sent, updater, lost, overlaps>>
vars == <<guild, deletions, faults, board, tasks>>

-----------------------------------------------------------------------------
IsGuide == key \in {"how_to_deposit", "how_to_withdraw", "cashier_onboarding"}
IsRoster == key = "online_cashiers"
IsDispute == key = "disputes"

NoTask == [does |-> "nothing"]
Jobs == {"reconcile", "edit", "tick", "open", "close"}
Places == {"config", "write", "row", "retarget", "insert", "reread", "deliver", "persist", "done"}
NoRow == [channel |-> 0, message |-> 0]
Messages == 1 .. MaxMessages

BoardTypeOK ==
  /\ SetupTypeOK
  /\ row \in [channel : 0 .. MaxIds, message : 0 .. MaxMessages]
  /\ content \in 0 .. MaxContent
  /\ messages \subseteq [id : Messages, channel : Ids, shows : 0 .. MaxContent]
  /\ sent \in 0 .. MaxMessages
  /\ tasks \in [Tasks(key) -> {NoTask} \cup
       [does : Jobs, at : Places, channel : 0 .. MaxIds, message : 0 .. MaxMessages,
        shows : 0 .. MaxContent, alone : BOOLEAN, told : BOOLEAN]]
  /\ updater \in 0 .. MaxIds
  /\ lost \in 0 .. MaxFaults * Cardinality(Tasks(key)) /\ overlaps \in 0 .. MaxOverlaps

BoardInit ==
  /\ SetupInit
  /\ row = NoRow /\ content = 0
  /\ messages = {} /\ sent = 0
  /\ tasks = [t \in Tasks(key) |-> NoTask]
  /\ updater = 0 /\ lost = 0 /\ overlaps = 0

-----------------------------------------------------------------------------
Busy(t) == tasks[t] # NoTask

\* The message is there for fetch_message: not deleted, and in that channel.
Found(id, channel) ==
  /\ channel \in ChannelIds
  /\ \E m \in messages : m.id = id /\ m.channel = channel

\* Something else moves, and the tasks at work are no longer alone.
Disturbed == [t \in Tasks(key) |-> IF Busy(t) THEN [tasks[t] EXCEPT !.alone = FALSE] ELSE NoTask]

\* A coroutine enters the code below at place `at'.
Start(t, does, at, channel, shows) ==
  LET others == \E x \in Tasks(key) : Busy(x)
  IN  /\ ~ Busy(t) /\ (others => overlaps < MaxOverlaps)
      /\ overlaps' = IF others THEN overlaps + 1 ELSE overlaps
      /\ tasks' = [Disturbed EXCEPT ![t] =
           [does |-> does, at |-> at, channel |-> channel, message |-> 0,
            shows |-> shows, alone |-> ~ others, told |-> FALSE]]

Moves(t, at) == tasks' = [tasks EXCEPT ![t].at = at]

At(t, at) == Busy(t) /\ tasks[t].at = at

-----------------------------------------------------------------------------
(* The callers.                                                            *)

\* on_ready, at start-up and whenever the gateway reconnects.
OnReadyReconciles(t) ==
  /\ IsGuide
  /\ Start(t, "reconcile", "config", 0, content)
  /\ UNCHANGED <<guild, deletions, faults, row, content, messages, sent, updater, lost>>

OnReadyStartsUpdater ==
  /\ IsRoster /\ updater = 0 /\ config.channel # 0
  /\ updater' = config.channel
  /\ UNCHANGED <<guild, deletions, faults, row, content, messages, sent, tasks, lost, overlaps>>

\* The last step of /admin-setup reconciles the guides.
SetupReconciles(a, t) ==
  /\ IsGuide /\ EndSetup(a)
  /\ Start(t, "reconcile", "config", 0, content)
  /\ UNCHANGED <<row, content, messages, sent, updater, lost>>

\* The modal of /admin-set-*-guide needs a row; it is submitted some time later.
SubmitGuide(t) ==
  /\ IsGuide /\ row # NoRow
  /\ Start(t, "edit", "write", 0, content)
  /\ UNCHANGED <<guild, deletions, faults, row, content, messages, sent, updater, lost>>

\* One query over the cashiers' statuses and characters.
RosterSnapshot == content

\* The loop of the updater, one tick at a time; the snapshot is taken first.
Tick(t) ==
  /\ updater \in ChannelIds
  /\ \A x \in Tasks(key) : ~ Busy(x)
  /\ Start(t, "tick", "row", updater, RosterSnapshot)
  /\ UNCHANGED <<guild, deletions, faults, row, content, messages, sent, updater, lost>>

\* A cashier goes on or off duty.
ChangeRoster ==
  /\ IsRoster /\ content < MaxContent
  /\ content' = content + 1
  /\ tasks' = Disturbed
  /\ UNCHANGED <<guild, deletions, faults, row, messages, sent, updater, lost, overlaps>>

\* The dispute is opened (1), and later resolved or rejected (2); the function's
\* commit and the first read after it are two steps.
DisputeCommand(t, does, at, old) ==
  /\ IsDispute /\ content = old
  /\ content' = old + 1
  /\ Start(t, does, at, 0, old + 1)
  /\ UNCHANGED <<guild, deletions, faults, row, messages, sent, updater, lost>>

DisputeOpen(t) == DisputeCommand(t, "open", "config", 0)

DisputeClose(t) == DisputeCommand(t, "close", "row", 1)

-----------------------------------------------------------------------------
(* What they do.                                                           *)

\* channel_id_<key>, or none: the row may still have one.
ReadConfig(t) ==
  /\ At(t, "config") /\ IsGuide
  /\ tasks' = [tasks EXCEPT ![t].channel = config.channel, ![t].at = "row"]
  /\ UNCHANGED <<guild, deletions, faults, board>>

\* update_dynamic_embed_content writes the row before it reads it.
WriteContent(t) ==
  /\ At(t, "write") /\ content < MaxContent
  /\ content' = content + 1
  /\ Moves(t, "row")
  /\ UNCHANGED <<guild, deletions, faults, row, messages, sent, updater, lost, overlaps>>

\* Where a task goes once it has the row.
AfterRow(target) ==
  CASE row = NoRow               -> "insert"
    [] target \notin ChannelIds  -> "done"
    [] OTHER                     -> "deliver"

\* The configured channel goes before the row's.
Target(t) == IF tasks[t].channel # 0 THEN tasks[t].channel ELSE row.channel

\* SELECT * FROM dw.dynamic_embeds, and the content with it: reconcile_welcome_embed.
ReadRow(t) ==
  /\ At(t, "row") /\ tasks[t].does = "reconcile"
  /\ tasks' = [tasks EXCEPT ![t].channel = Target(t), ![t].message = row.message,
                            ![t].shows = content,
                            ![t].at = CASE Target(t) = 0 -> "done"
                                        [] row.channel \notin {0, Target(t)} -> "retarget"
                                        [] OTHER -> AfterRow(Target(t))]
  /\ UNCHANGED <<guild, deletions, faults, board>>

\* The same for an edit, which stays in the row's channel.
ReadRowToEdit(t) ==
  /\ At(t, "row") /\ tasks[t].does = "edit"
  /\ tasks' = [tasks EXCEPT ![t].channel = row.channel, ![t].message = row.message,
                            ![t].shows = content, ![t].at = AfterRow(row.channel)]
  /\ UNCHANGED <<guild, deletions, faults, board>>

\* The same for a tick, which has its content and its channel.
ReadRowToTick(t) ==
  /\ At(t, "row") /\ tasks[t].does = "tick"
  /\ tasks' = [tasks EXCEPT ![t].message = row.message, ![t].at = AfterRow(tasks[t].channel)]
  /\ UNCHANGED <<guild, deletions, faults, board>>

\* The row follows the configured channel and forgets its message.
Retarget(t) ==
  /\ At(t, "retarget")
  /\ row' = [channel |-> tasks[t].channel, message |-> 0]
  /\ Moves(t, "reread")
  /\ UNCHANGED <<guild, deletions, faults, content, messages, sent, updater, lost, overlaps>>

\* The first row, with default content.  When another task has inserted it in the
\* meantime, the primary key makes this one fail.
InsertRow(t) ==
  /\ At(t, "insert")
  /\ IF row = NoRow
     THEN /\ row' = [channel |-> tasks[t].channel, message |-> 0]
          /\ Moves(t, "reread")
     ELSE /\ tasks' = [tasks EXCEPT ![t] = NoTask]
          /\ UNCHANGED row
  /\ UNCHANGED <<guild, deletions, faults, content, messages, sent, updater, lost, overlaps>>

\* After either the row is read again, for its message and content: the channel to
\* post in is decided.
ReadAgain(t) ==
  /\ At(t, "reread")
  /\ tasks' = [tasks EXCEPT ![t].message = row.message,
                            ![t].shows = IF tasks[t].does = "tick" THEN @ ELSE content,
                            ![t].at = AfterRow(tasks[t].channel)]
  /\ UNCHANGED <<guild, deletions, faults, board>>

\* Mutant of Edits: the message is posted again every time.
EditsNever(t) == FALSE

\* Mutant of Edits: NotFound is swallowed.
EditsAny(t) == tasks[t].message # 0

\* fetch_message and edit succeed.
Edits(t) == tasks[t].message # 0 /\ Found(tasks[t].message, tasks[t].channel)

EditMessage(t) ==
  /\ At(t, "deliver") /\ Edits(t)
  /\ messages' = {IF m.id = tasks[t].message THEN [m EXCEPT !.shows = tasks[t].shows] ELSE m
                    : m \in messages}
  /\ tasks' = [tasks EXCEPT ![t].at = "done", ![t].told = TRUE]
  /\ UNCHANGED <<guild, deletions, faults, row, content, sent, updater, lost, overlaps>>

\* The channel is still there, and the bot may write in it.
CanPost(id) == \E c \in channels : c.id = id /\ Can("bot", c) = Permissions

\* channel.send.
Send(t) ==
  /\ CanPost(tasks[t].channel) /\ sent < MaxMessages
  /\ sent' = sent + 1
  /\ messages' = messages \cup
       {[id |-> sent + 1, channel |-> tasks[t].channel, shows |-> tasks[t].shows]}
  /\ tasks' = [tasks EXCEPT ![t].at = "persist", ![t].message = sent + 1]
  /\ UNCHANGED <<guild, deletions, faults, row, content, updater, lost, overlaps>>

\* There is no message yet, or NotFound is raised.
SendMessage(t) == At(t, "deliver") /\ ~ IsDispute /\ ~ Edits(t) /\ Send(t)

\* The channel is gone by now, or an operator's that the bot may not write in, and the
\* call raises.
ChannelGone(t) ==
  /\ At(t, "deliver") /\ ~ Edits(t) /\ ~ CanPost(tasks[t].channel)
  /\ Moves(t, "done")
  /\ UNCHANGED <<guild, deletions, faults, board>>

\* Mutant of Persisted: an id that is there already is kept.
PersistedOnce(old, new) == IF old = 0 THEN new ELSE old

\* UPDATE ... SET message_id.
Persisted(old, new) == new

PersistMessageId(t) ==
  /\ At(t, "persist")
  /\ row' = [row EXCEPT !.message = Persisted(@, tasks[t].message)]
  /\ tasks' = [tasks EXCEPT ![t].at = "done", ![t].told = TRUE]
  /\ UNCHANGED <<guild, deletions, faults, content, messages, sent, updater, lost, overlaps>>

-----------------------------------------------------------------------------
(* The dispute's embed: what it cannot do, it leaves undone.               *)

\* SELECT discord_message_id: the update is skipped when there is none.
ReadDispute(t) ==
  /\ At(t, "row") /\ tasks[t].does = "close"
  /\ tasks' = [tasks EXCEPT ![t].at = IF row.message = 0 THEN "done" ELSE "config",
                            ![t].message = row.message]
  /\ UNCHANGED <<guild, deletions, faults, board>>

\* resolve_channel_id and get_channel.
ReadDisputeChannel(t) ==
  /\ At(t, "config") /\ IsDispute
  /\ tasks' = [tasks EXCEPT ![t].channel = config.channel,
                            ![t].at = IF config.channel \in ChannelIds THEN "deliver" ELSE "done"]
  /\ UNCHANGED <<guild, deletions, faults, board>>

PostDispute(t) == At(t, "deliver") /\ tasks[t].does = "open" /\ Send(t)

\* A message that was deleted is not posted anew.
DisputeGone(t) ==
  /\ At(t, "deliver") /\ tasks[t].does = "close" /\ ~ Edits(t)
  /\ CanPost(tasks[t].channel)
  /\ Moves(t, "done")
  /\ UNCHANGED <<guild, deletions, faults, board>>

-----------------------------------------------------------------------------
(* Ends and faults.                                                        *)

EndTask(t) ==
  /\ At(t, "done")
  /\ tasks' = [tasks EXCEPT ![t] = NoTask]
  /\ UNCHANGED <<guild, deletions, faults, board>>

\* A call raises: on_ready, the command or the updater's loop logs it.
FailTask(t) ==
  /\ Busy(t) /\ faults < MaxFaults
  /\ faults' = faults + 1
  /\ lost' = IF At(t, "persist") THEN lost + 1 ELSE lost
  /\ tasks' = [tasks EXCEPT ![t] = NoTask]
  /\ UNCHANGED <<guild, deletions, row, content, messages, sent, updater, overlaps>>

\* The bot stops or dies, with all its coroutines.
Crash ==
  /\ faults < MaxFaults
  /\ faults' = faults + 1
  /\ lost' = lost + Cardinality({t \in Tasks(key) : At(t, "persist")})
  /\ tasks' = [t \in Tasks(key) |-> NoTask]
  /\ setups' = [a \in Admins(key) |-> NoSetup]
  /\ updater' = 0
  /\ UNCHANGED <<key, categories, channels, nextId, config, called, overlapped, deletions,
                 row, content, messages, sent, overlaps>>

\* An operator deletes the message.
DeleteMessage(m) ==
  /\ m \in messages /\ deletions < MaxDeletions
  /\ messages' = messages \ {m}
  /\ deletions' = deletions + 1
  /\ tasks' = Disturbed
  /\ UNCHANGED <<guild, faults, row, content, sent, updater, lost, overlaps>>

-----------------------------------------------------------------------------
TaskStep(t) ==
  \/ ReadConfig(t) \/ WriteContent(t)
  \/ ReadRow(t) \/ ReadRowToEdit(t) \/ ReadRowToTick(t) \/ Retarget(t) \/ InsertRow(t)
  \/ ReadAgain(t) \/ EditMessage(t) \/ SendMessage(t) \/ ChannelGone(t) \/ PersistMessageId(t)
  \/ ReadDispute(t) \/ ReadDisputeChannel(t) \/ PostDispute(t) \/ DisputeGone(t)
  \/ EndTask(t)

Next ==
  \/ \E a \in Admins(key) : SetupStep(a) /\ UNCHANGED <<board, tasks>>
  \/ \E a \in Admins(key) : PersistChannelId(a) /\ tasks' = Disturbed /\ UNCHANGED board
  \/ \E c \in channels : DeleteChannel(c) /\ tasks' = Disturbed /\ UNCHANGED board
  \/ \E a \in Admins(key), t \in Tasks(key) : SetupReconciles(a, t)
  \/ \E a \in Admins(key) : ~ IsGuide /\ EndSetup(a) /\ UNCHANGED <<board, tasks>>
  \/ \E t \in Tasks(key) : OnReadyReconciles(t) \/ SubmitGuide(t) \/ Tick(t)
                        \/ DisputeOpen(t) \/ DisputeClose(t)
  \/ \E t \in Tasks(key) : TaskStep(t) \/ FailTask(t)
  \/ \E m \in messages : DeleteMessage(m)
  \/ OnReadyStartsUpdater \/ ChangeRoster \/ Crash

Spec == BoardInit /\ [][Next]_vars

\* A restarted bot gets its on_ready, the updater ticks every 30 seconds and a
\* coroutine that awaits is resumed.  Faults are bounded: a call does not fail for ever.
FairSpec ==
  /\ Spec
  /\ WF_vars(OnReadyStartsUpdater)
  /\ WF_vars(\E t \in Tasks(key) : Tick(t))
  /\ WF_vars(\E t \in Tasks(key) : TaskStep(t))

-----------------------------------------------------------------------------
(* Properties.                                                             *)

\* The message that the row names is there and shows what it should.
Shown(channel) ==
  /\ Found(row.message, channel)
  /\ \A m \in messages : m.id = row.message => m.shows = content

\* A task that was alone and reported a message posted, edited or reposted has left
\* the row naming a message in the right channel with the current content: at the
\* first post, after deletions, re-targeting, failed tasks and restarts alike.
DeliveredIsShown ==
  \A t \in Tasks(key) :
    At(t, "done") /\ tasks[t].told /\ tasks[t].alone => Shown(tasks[t].channel)

\* Messages in a channel that the row does not name and no task is about to persist.
Orphans(c) ==
  {m \in messages : /\ m.channel = c /\ m.id # row.message
                    /\ \A t \in Tasks(key) : At(t, "persist") => tasks[t].message # m.id}

\* A second message in a channel is never the bot's normal course: each one goes back
\* to a task that died between its send and its persist or that ran beside another.
OrphansHaveCause ==
  ~ overlapped => \A c \in ChannelIds : Cardinality(Orphans(c)) <= lost + overlaps

\* The roster is always brought up to date again: after changes, deleted messages,
\* failed ticks and restarts, as long as the updater's channel exists and the bot may
\* write in it.
RosterCatchesUp ==
  []<>(~ IsRoster \/ config.channel = 0 \/ ~ CanPost(updater) \/ Shown(updater))

=============================================================================
