------------------------ MODULE BoardMessages_proofs ------------------------
(***************************************************************************)
(* Proofs about the guild's channels and the embeds in them, for any of    *)
(* the bot's channels, any number of admins and coroutines, and any bounds *)
(* on what is created, deleted and fails:                                  *)
(*                                                                         *)
(*   - setups that fail and are repeated create nothing twice;             *)
(*   - a setup leaves the configuration pointing at a channel that exists; *)
(*   - a coroutine that was alone and reported an embed has left it shown; *)
(*   - every second message in a channel goes back to a lost id or to two  *)
(*     coroutines at once.                                                 *)
(*                                                                         *)
(* The coroutines of BoardMessages leave the guild alone, so the proofs    *)
(* go through GuildStep, which says what any step does to it.  The last    *)
(* part counts: Accounted bounds the messages of a channel together with   *)
(* the coroutines that may still add one.                                  *)
(***************************************************************************)
EXTENDS BoardMessages, FiniteSetTheorems, TLAPS

-----------------------------------------------------------------------------
(* The guild's part of the invariant.                                      *)

Running(a) == setups[a] # NoSetup

\* The commands count as overlapped from the moment two of them run.
OneAtATime ==
  ~ overlapped => \A a, b \in Admins(key) : Running(a) /\ Running(b) => a = b

AtMostOne(S) == \A x, y \in S : x = y

\* A command that is about to create a place has found none, and nobody else has
\* created one since.
CreatesFirst ==
  ~ overlapped =>
    /\ AtMostOne(categories) /\ AtMostOne(channels)
    /\ \A a \in Admins(key) : /\ setups[a].at = "newcategory" => categories = {}
                              /\ setups[a].at = "newchannel" => channels = {}

\* Nothing was deleted that the command a relies on.
Undisturbed(a) == setups[a].deleted = deletions /\ (overlapped => deletions = 0)

\* What a command has found or created, and what it has persisted, is there.
HoldsChannel ==
  \A a \in Admins(key) :
    /\ setups[a].at # "idle" => setups[a].deleted <= deletions
    /\ setups[a].at = "persist" /\ Undisturbed(a) => setups[a].channel \in ChannelIds
    /\ setups[a].at \in {"roles", "welcome"} /\ Undisturbed(a) => config.channel \in ChannelIds

GuildInv == SetupTypeOK /\ OneAtATime /\ CreatesFirst /\ HoldsChannel

-----------------------------------------------------------------------------
(* What a step does to the guild.                                          *)

\* The bot dies, and the commands with it.
SetupsDie ==
  /\ setups' = [a \in Admins(key) |-> NoSetup]
  /\ faults' \in 0 .. MaxFaults
  /\ UNCHANGED <<key, categories, channels, nextId, config, called, overlapped, deletions>>

\* A step of the embeds only counts: a fault, or a message that was deleted.
GuildQuiet ==
  /\ UNCHANGED guild
  /\ deletions' \in deletions .. MaxDeletions /\ faults' \in 0 .. MaxFaults

GuildStep ==
  \/ \E a \in Admins(key) : SetupStep(a) \/ PersistChannelId(a) \/ EndSetup(a)
  \/ \E c \in channels : DeleteChannel(c)
  \/ SetupsDie \/ GuildQuiet

\* The coroutines that post and edit leave the guild alone.
LEMMA TasksLeaveGuild ==
  ASSUME SetupTypeOK, NEW t \in Tasks(key), TaskStep(t) \/ FailTask(t)
  PROVE  GuildQuiet
<1>1. /\ MaxDeletions \in Nat /\ MaxFaults \in Nat
      /\ deletions \in 0 .. MaxDeletions /\ faults \in 0 .. MaxFaults
  BY SetupAssumption DEF SetupTypeOK
<1>2. deletions \in deletions .. MaxDeletions
  BY <1>1
<1>3. ASSUME UNCHANGED <<guild, deletions, faults>> PROVE GuildQuiet
  BY <1>1, <1>2, <1>3 DEF GuildQuiet
<1>4. CASE FailTask(t)
  <2>1. UNCHANGED <<guild, deletions>> /\ faults < MaxFaults /\ faults' = faults + 1
    BY <1>4 DEF FailTask
  <2>2. faults' \in 0 .. MaxFaults
    BY <1>1, <2>1
  <2> QED
    BY <1>2, <2>1, <2>2 DEF GuildQuiet
<1>5. CASE TaskStep(t)
  <2>1. UNCHANGED <<guild, deletions, faults>>
    BY <1>5 DEF TaskStep, ReadConfig, WriteContent, ReadRow, ReadRowToEdit, ReadRowToTick,
                Retarget, InsertRow, ReadAgain, EditMessage, SendMessage, Send, ChannelGone,
                PersistMessageId, ReadDispute, ReadDisputeChannel, PostDispute, DisputeGone,
                EndTask
  <2> QED
    BY <1>3, <2>1
<1> QED
  BY <1>4, <1>5

\* Every step is one of the command's, one of an operator's, or leaves the guild
\* alone.
LEMMA StepsOfTheGuild ==
  ASSUME SetupTypeOK, [Next]_vars
  PROVE  GuildStep
<1>1. /\ MaxDeletions \in Nat /\ MaxFaults \in Nat
      /\ deletions \in 0 .. MaxDeletions /\ faults \in 0 .. MaxFaults
  BY SetupAssumption DEF SetupTypeOK
<1>2. deletions \in deletions .. MaxDeletions
  BY <1>1
<1>3. ASSUME UNCHANGED <<guild, deletions, faults>> PROVE GuildQuiet
  BY <1>1, <1>2, <1>3 DEF GuildQuiet
<1>4. ASSUME NEW a \in Admins(key),
             SetupStep(a) \/ PersistChannelId(a) \/ EndSetup(a)
      PROVE  GuildStep
  BY <1>4 DEF GuildStep
<1>5. ASSUME NEW c \in channels, DeleteChannel(c) PROVE GuildStep
  BY <1>5 DEF GuildStep
<1>6. ASSUME NEW a \in Admins(key), NEW t \in Tasks(key), SetupReconciles(a, t)
      PROVE  GuildStep
  BY <1>4, <1>6 DEF SetupReconciles
<1>7. ASSUME NEW t \in Tasks(key),
             OnReadyReconciles(t) \/ SubmitGuide(t) \/ Tick(t) \/ DisputeOpen(t) \/ DisputeClose(t)
      PROVE  GuildQuiet
  <2>1. UNCHANGED <<guild, deletions, faults>>
    BY <1>7 DEF OnReadyReconciles, SubmitGuide, Tick, DisputeOpen, DisputeClose, DisputeCommand
  <2> QED
    BY <1>3, <2>1
<1>8. ASSUME NEW t \in Tasks(key), TaskStep(t) \/ FailTask(t) PROVE GuildQuiet
  BY <1>8, TasksLeaveGuild
<1>9. ASSUME NEW m \in messages, DeleteMessage(m) PROVE GuildQuiet
  <2>1. UNCHANGED <<guild, faults>> /\ deletions < MaxDeletions /\ deletions' = deletions + 1
    BY <1>9 DEF DeleteMessage
  <2>2. deletions' \in deletions .. MaxDeletions
    BY <1>1, <2>1
  <2> QED
    BY <1>1, <2>1, <2>2 DEF GuildQuiet
<1>10. CASE OnReadyStartsUpdater \/ ChangeRoster
  <2>1. UNCHANGED <<guild, deletions, faults>>
    BY <1>10 DEF OnReadyStartsUpdater, ChangeRoster
  <2> QED
    BY <1>3, <2>1 DEF GuildStep
<1>11. CASE Crash
  <2>1. faults' \in 0 .. MaxFaults
    BY <1>1, <1>11 DEF Crash
  <2>2. SetupsDie
    BY <1>11, <2>1 DEF Crash, SetupsDie
  <2> QED
    BY <2>2 DEF GuildStep
<1>12. CASE UNCHANGED vars
  <2>1. UNCHANGED <<guild, deletions, faults>>
    BY <1>12 DEF vars
  <2> QED
    BY <1>3, <2>1 DEF GuildStep
<1> QED
  BY <1>4, <1>5, <1>6, <1>7, <1>8, <1>9, <1>10, <1>11, <1>12 DEF Next, GuildStep

-----------------------------------------------------------------------------
(* What a command's step does to the commands.                             *)

Stages ==
  {"category", "newcategory", "channel", "newchannel", "persist", "roles", "welcome"}

\* A command at work.
AtWork ==
  [at : Stages, roles : SUBSET StaffRoles, category : 0 .. MaxIds, channel : 0 .. MaxIds,
   deleted : 0 .. MaxDeletions]

\* a's command becomes r, and the others stay as they are.
Becomes(a, r) == setups'[a] = r /\ \A b \in Admins(key) \ {a} : setups'[b] = setups[b]

Commands == [Admins(key) -> {NoSetup} \cup AtWork]

\* Either there is no command, or there is one at work.
LEMMA CommandTypes ==
  ASSUME SetupTypeOK
  PROVE  /\ setups \in Commands
         /\ \A a \in Admins(key) : /\ setups[a] = NoSetup \/ setups[a] \in AtWork
                                   /\ setups[a] = NoSetup <=> setups[a].at = "idle"
         /\ key \in Keys
         /\ MaxIds \in Nat /\ MaxSetups \in Nat /\ MaxDeletions \in Nat /\ MaxFaults \in Nat
<1>1. setups \in Commands
  BY DEF SetupTypeOK, Commands, AtWork, Stages
<1>2. ASSUME NEW a \in Admins(key)
      PROVE  /\ setups[a] = NoSetup \/ setups[a] \in AtWork
             /\ setups[a] = NoSetup <=> setups[a].at = "idle"
  <2>1. setups[a] = NoSetup \/ setups[a] \in AtWork
    BY <1>1 DEF Commands
  <2>2. NoSetup.at = "idle"
    BY DEF NoSetup
  <2>3. \A r \in AtWork : r.at # "idle"
    BY DEF AtWork, Stages
  <2> QED
    BY <2>1, <2>2, <2>3
<1> QED
  BY <1>1, <1>2, SetupAssumption DEF SetupTypeOK

\* Replacing a command by one at work, or by none.
LEMMA CommandReplaced ==
  ASSUME SetupTypeOK, NEW a \in Admins(key), NEW r \in {NoSetup} \cup AtWork,
         setups' = [setups EXCEPT ![a] = r]
  PROVE  setups' \in Commands /\ Becomes(a, r)
BY CommandTypes DEF Commands, Becomes

\* A command that only goes on to another stage.
LEMMA CommandMoves ==
  ASSUME SetupTypeOK, NEW a \in Admins(key), NEW at \in Stages, setups[a].at # "idle",
         setups' = [setups EXCEPT ![a].at = at]
  PROVE  /\ setups' \in Commands
         /\ \E r \in AtWork : /\ Becomes(a, r) /\ r.at = at
                              /\ r.roles = setups[a].roles /\ r.category = setups[a].category
                              /\ r.channel = setups[a].channel
                              /\ r.deleted = setups[a].deleted
<1> DEFINE r == [setups[a] EXCEPT !.at = at]
<1>1. setups[a] \in AtWork
  BY CommandTypes
<1>2. /\ r \in AtWork /\ r.at = at
      /\ r.roles = setups[a].roles /\ r.category = setups[a].category
      /\ r.channel = setups[a].channel /\ r.deleted = setups[a].deleted
  BY <1>1 DEF AtWork
<1>3. setups' = [setups EXCEPT ![a] = r]
  OBVIOUS
<1> HIDE DEF r
<1> QED
  BY <1>2, <1>3, CommandReplaced

\* A command that has its category.
LEMMA CommandHasCategory ==
  ASSUME SetupTypeOK, NEW a \in Admins(key), NEW n \in 0 .. MaxIds, setups[a].at # "idle",
         setups' = [setups EXCEPT ![a].at = "channel", ![a].category = n]
  PROVE  /\ setups' \in Commands
         /\ \E r \in AtWork : /\ Becomes(a, r) /\ r.at = "channel"
                              /\ r.roles = setups[a].roles
                              /\ r.deleted = setups[a].deleted
<1> DEFINE q == [setups[a] EXCEPT !.at = "channel"]
           r == [q EXCEPT !.category = n]
<1>1. setups[a] \in AtWork
  BY CommandTypes
<1>2. /\ q \in AtWork /\ q.at = "channel"
      /\ q.roles = setups[a].roles /\ q.deleted = setups[a].deleted
  BY <1>1 DEF AtWork, Stages
<1>3. setups' = [setups EXCEPT ![a] = r]
  OBVIOUS
<1> HIDE DEF q
<1>4. /\ r \in AtWork /\ r.at = q.at /\ r.roles = q.roles /\ r.deleted = q.deleted
  BY <1>2 DEF AtWork
<1> HIDE DEF r
<1> QED
  BY <1>2, <1>3, <1>4, CommandReplaced

\* A command that has its channel, and has seen it just now.
LEMMA CommandHasChannel ==
  ASSUME SetupTypeOK, NEW a \in Admins(key), NEW n \in 0 .. MaxIds, setups[a].at # "idle",
         setups' = [setups EXCEPT ![a].at = "persist", ![a].channel = n, ![a].deleted = deletions]
  PROVE  /\ setups' \in Commands
         /\ \E r \in AtWork : /\ Becomes(a, r) /\ r.at = "persist"
                              /\ r.channel = n /\ r.deleted = deletions
<1> DEFINE p == [setups[a] EXCEPT !.at = "persist"]
           q == [p EXCEPT !.channel = n]
           r == [q EXCEPT !.deleted = deletions]
<1>1. setups[a] \in AtWork /\ deletions \in 0 .. MaxDeletions
  BY CommandTypes DEF SetupTypeOK
<1>2. p \in AtWork /\ p.at = "persist"
  BY <1>1 DEF AtWork, Stages
<1>3. setups' = [setups EXCEPT ![a] = r]
  OBVIOUS
<1> HIDE DEF p
<1>4. q \in AtWork /\ q.at = p.at /\ q.channel = n
  BY <1>2 DEF AtWork
<1> HIDE DEF q
<1>5. r \in AtWork /\ r.at = q.at /\ r.channel = q.channel /\ r.deleted = deletions
  BY <1>1, <1>4 DEF AtWork
<1> HIDE DEF r
<1> QED
  BY <1>2, <1>3, <1>4, <1>5, CommandReplaced

\* While no two commands overlap, no step but a start adds to those that run.
LEMMA OneAtATimeKept ==
  ASSUME OneAtATime, UNCHANGED <<key, overlapped>>,
         \A b \in Admins(key) : setups'[b] # NoSetup => setups[b] # NoSetup
  PROVE  OneAtATime'
BY DEF OneAtATime, Running

\* The command that runs alone decides about what is created.
LEMMA CreatesFirstKept ==
  ASSUME GuildInv, NEW a \in Admins(key), NEW r, Becomes(a, r), setups[a] # NoSetup,
         UNCHANGED <<key, overlapped>>,
         ~ overlapped =>
           /\ AtMostOne(categories') /\ AtMostOne(channels')
           /\ r.at = "newcategory" => categories' = {}
           /\ r.at = "newchannel" => channels' = {}
  PROVE  CreatesFirst'
<1> SUFFICES ASSUME ~ overlapped
             PROVE  /\ AtMostOne(categories') /\ AtMostOne(channels')
                    /\ \A b \in Admins(key) :
                         /\ setups'[b].at = "newcategory" => categories' = {}
                         /\ setups'[b].at = "newchannel" => channels' = {}
  BY DEF CreatesFirst, AtMostOne
<1>1. ASSUME NEW b \in Admins(key) \ {a} PROVE setups'[b].at = "idle"
  BY CommandTypes DEF Becomes, GuildInv, OneAtATime, Running
<1> QED
  BY <1>1 DEF Becomes

\* A step that deletes no channel: the others still hold what they held.
LEMMA HoldsChannelKept ==
  ASSUME GuildInv, NEW a \in Admins(key), NEW r \in {NoSetup} \cup AtWork, Becomes(a, r),
         UNCHANGED <<key, overlapped, deletions>>,
         channels \subseteq channels',
         r # NoSetup => r.deleted <= deletions,
         r.deleted = deletions /\ (overlapped => deletions = 0) =>
           /\ r.at = "persist" => r.channel \in ChannelIds'
           /\ r.at \in {"roles", "welcome"} => config'.channel \in ChannelIds',
         \A b \in Admins(key) \ {a} :
           setups[b].at \in {"roles", "welcome"} /\ Undisturbed(b) =>
             config'.channel \in ChannelIds'
  PROVE  HoldsChannel'
<1>1. ChannelIds \subseteq ChannelIds'
  BY DEF ChannelIds
<1>2. ASSUME NEW b \in Admins(key)
      PROVE  /\ setups'[b].at # "idle" => setups'[b].deleted <= deletions
             /\ setups'[b].at = "persist" /\ Undisturbed(b)' => setups'[b].channel \in ChannelIds'
             /\ setups'[b].at \in {"roles", "welcome"} /\ Undisturbed(b)' =>
                  config'.channel \in ChannelIds'
  <2>1. CASE b = a
    <3>1. setups'[b] = r /\ (r.at # "idle" => r # NoSetup)
      BY <2>1 DEF Becomes, NoSetup
    <3> QED
      BY <3>1 DEF Undisturbed
  <2>2. CASE b # a
    <3>1. setups'[b] = setups[b]
      BY <2>2 DEF Becomes
    <3>2. Undisturbed(b)' = Undisturbed(b)
      BY <3>1 DEF Undisturbed
    <3> QED
      BY <1>1, <2>2, <3>1, <3>2 DEF GuildInv, HoldsChannel
  <2> QED
    BY <2>1, <2>2
<1> QED
  BY <1>2 DEF HoldsChannel

-----------------------------------------------------------------------------
(* The command's steps keep the invariant.                                 *)

\* /admin-setup is called; from here on two commands may overlap.
LEMMA StartSetupSound ==
  ASSUME GuildInv, NEW a \in Admins(key), NEW given \in RolesGiven(key), StartSetup(a, given)
  PROVE  GuildInv'
<1> DEFINE r == [at |-> "category", roles |-> given, category |-> 0, channel |-> 0,
                 deleted |-> deletions]
<1>1. /\ setups[a] = NoSetup /\ called < MaxSetups
      /\ setups' = [setups EXCEPT ![a] = r]
      /\ called' = called + 1
      /\ overlapped' = (overlapped \/ \E x \in Admins(key) : setups[x] # NoSetup)
      /\ UNCHANGED <<key, categories, channels, nextId, config, deletions, faults>>
  BY DEF StartSetup
<1>2. SetupTypeOK /\ MaxIds \in Nat /\ MaxSetups \in Nat /\ MaxDeletions \in Nat /\ key \in Keys
  BY CommandTypes DEF GuildInv
<1>3. r \in AtWork /\ r.at = "category" /\ r.deleted = deletions
  <2>1. given \in SUBSET StaffRoles /\ deletions \in 0 .. MaxDeletions /\ 0 \in 0 .. MaxIds
    BY <1>2, SetupAssumption DEF SetupTypeOK
  <2> QED
    BY <2>1 DEF AtWork, Stages
<1> HIDE DEF r
<1>4. setups' \in Commands /\ Becomes(a, r)
  BY <1>1, <1>2, <1>3, CommandReplaced
<1>5. SetupTypeOK'
  <2>1. called' \in 0 .. MaxSetups /\ overlapped' \in BOOLEAN
    BY <1>1, <1>2 DEF SetupTypeOK
  <2> QED
    BY <1>1, <1>2, <1>4, <2>1 DEF SetupTypeOK, Commands, AtWork, Stages
<1>6. OneAtATime'
  <2> SUFFICES ASSUME ~ overlapped', NEW x \in Admins(key), NEW y \in Admins(key),
                      setups'[x] # NoSetup, setups'[y] # NoSetup
               PROVE  x = y
    BY <1>1 DEF OneAtATime, Running
  <2>1. \A z \in Admins(key) : setups[z] = NoSetup
    BY <1>1
  <2>2. \A z \in Admins(key) \ {a} : setups'[z] = NoSetup
    BY <1>4, <2>1 DEF Becomes
  <2> QED
    BY <2>2
<1>7. CreatesFirst'
  BY <1>1, <1>3, <1>4 DEF GuildInv, CreatesFirst, Becomes
<1>8. HoldsChannel'
  <2>1. ASSUME NEW b \in Admins(key)
        PROVE  /\ setups'[b].at # "idle" => setups'[b].deleted <= deletions
               /\ setups'[b].at = "persist" /\ Undisturbed(b)' =>
                    setups'[b].channel \in ChannelIds
               /\ setups'[b].at \in {"roles", "welcome"} /\ Undisturbed(b)' =>
                    config.channel \in ChannelIds
    <3>1. CASE b = a
      <4>1. deletions <= deletions
        BY <1>2 DEF SetupTypeOK
      <4> QED
        BY <1>3, <1>4, <3>1, <4>1 DEF Becomes
    <3>2. CASE b # a
      <4>1. setups'[b] = setups[b] /\ (Undisturbed(b)' => Undisturbed(b))
        BY <1>1, <1>4, <3>2 DEF Becomes, Undisturbed
      <4> QED
        BY <4>1 DEF GuildInv, HoldsChannel
    <3> QED
      BY <3>1, <3>2
  <2>2. ChannelIds' = ChannelIds
    BY <1>1 DEF ChannelIds
  <2> QED
    BY <1>1, <2>1, <2>2 DEF HoldsChannel
<1> QED
  BY <1>5, <1>6, <1>7, <1>8 DEF GuildInv

\* The factory looks for the category: it reuses one or goes on to create it.
LEMMA FindCategorySound ==
  ASSUME GuildInv, NEW a \in Admins(key), FindCategory(a)
  PROVE  GuildInv'
<1>1. /\ setups[a].at = "category"
      /\ UNCHANGED <<key, categories, channels, nextId, config, called, overlapped, deletions, faults>>
  BY DEF FindCategory
<1>2. SetupTypeOK /\ setups[a] # NoSetup /\ setups[a] \in AtWork
  BY <1>1, CommandTypes DEF GuildInv
<1>3. PICK r \in AtWork :
        /\ setups' \in Commands /\ Becomes(a, r)
        /\ \/ r.at = "newcategory" /\ categories = {}
           \/ r.at = "channel"
        /\ r.deleted = setups[a].deleted
  <2>1. CASE categories = {} /\ setups' = [setups EXCEPT ![a].at = "newcategory"]
    <3>1. "newcategory" \in Stages
      BY DEF Stages
    <3> QED
      BY <1>1, <1>2, <2>1, <3>1, CommandMoves
  <2>2. ASSUME NEW c \in categories,
               setups' = [setups EXCEPT ![a].at = "channel", ![a].category = c.id]
        PROVE  \E r \in AtWork : /\ setups' \in Commands /\ Becomes(a, r)
                                 /\ r.at = "channel" /\ r.deleted = setups[a].deleted
    <3>1. c.id \in 0 .. MaxIds
      BY <1>2 DEF SetupTypeOK, Ids
    <3> QED
      BY <1>1, <1>2, <2>2, <3>1, CommandHasCategory
  <2> QED
    BY <2>1, <2>2 DEF FindCategory
<1>4. SetupTypeOK'
  BY <1>1, <1>2, <1>3 DEF SetupTypeOK, Commands, AtWork, Stages
<1>5. OneAtATime'
  BY <1>1, <1>2, <1>3, OneAtATimeKept DEF GuildInv, Becomes
<1>6. CreatesFirst'
  BY <1>1, <1>2, <1>3, CreatesFirstKept DEF GuildInv, CreatesFirst
<1>7. HoldsChannel'
  <2>1. ChannelIds' = ChannelIds
    BY <1>1 DEF ChannelIds
  <2>2. setups[a].deleted <= deletions
    BY <1>1 DEF GuildInv, HoldsChannel
  <2> QED
    BY <1>1, <1>3, <2>1, <2>2, HoldsChannelKept DEF GuildInv, HoldsChannel
<1> QED
  BY <1>4, <1>5, <1>6, <1>7 DEF GuildInv

\* The category is created with the overwrites of the roles that were passed.
LEMMA CreateCategorySound ==
  ASSUME GuildInv, NEW a \in Admins(key), CreateCategory(a)
  PROVE  GuildInv'
<1> DEFINE ow == CategoryOverwrites(CategoryOf(key), setups[a].roles)
           new == [id |-> nextId, ow |-> ow]
<1>1. /\ setups[a].at = "newcategory" /\ nextId \in Ids
      /\ categories' = categories \cup {new}
      /\ setups' = [setups EXCEPT ![a].at = "channel", ![a].category = nextId]
      /\ nextId' = nextId + 1
      /\ UNCHANGED <<key, channels, config, called, overlapped, deletions, faults>>
  BY DEF CreateCategory
<1>2. /\ SetupTypeOK /\ setups[a] # NoSetup /\ setups[a] \in AtWork
      /\ setups[a].roles \in SUBSET StaffRoles /\ MaxIds \in Nat
  BY <1>1, CommandTypes DEF GuildInv, AtWork
<1>3. PICK r \in AtWork : /\ setups' \in Commands /\ Becomes(a, r)
                          /\ r.at = "channel" /\ r.deleted = setups[a].deleted
  <2>1. nextId \in 0 .. MaxIds
    BY <1>1, <1>2 DEF Ids
  <2> QED
    BY <1>1, <1>2, <2>1, CommandHasCategory
<1>4. ow \in Overwrites
  <2>1. {Inherit, Hidden, ReadOnly, Reader, Full} \subseteq
          [allow : SUBSET Permissions, deny : SUBSET Permissions]
    BY DEF Inherit, Hidden, ReadOnly, Reader, Full, Permissions
  <2> QED
    BY <2>1 DEF CategoryOverwrites, WithRoles, Overwrites, Roles, StaffRoles
<1>5. new.ow = ow /\ new \in [id : Ids, ow : Overwrites]
  BY <1>1, <1>4
<1> HIDE DEF new, ow
<1>6. SetupTypeOK'
  <2>1. nextId' \in 1 .. MaxIds + 1
    BY <1>1, <1>2 DEF Ids
  <2>2. categories' \subseteq [id : Ids, ow : Overwrites]
    BY <1>1, <1>2, <1>5 DEF SetupTypeOK
  <2> QED
    BY <1>1, <1>2, <1>3, <2>1, <2>2 DEF SetupTypeOK, Commands, AtWork, Stages
<1>7. OneAtATime'
  BY <1>1, <1>2, <1>3, OneAtATimeKept DEF GuildInv, Becomes
<1>8. CreatesFirst'
  <2>1. ~ overlapped => categories = {} /\ AtMostOne(channels)
    BY <1>1 DEF GuildInv, CreatesFirst
  <2>2. ~ overlapped => AtMostOne(categories') /\ AtMostOne(channels')
    BY <1>1, <2>1 DEF AtMostOne
  <2> QED
    BY <1>1, <1>2, <1>3, <2>2, CreatesFirstKept
<1>9. HoldsChannel'
  <2>1. ChannelIds' = ChannelIds
    BY <1>1 DEF ChannelIds
  <2>2. setups[a].deleted <= deletions
    BY <1>1 DEF GuildInv, HoldsChannel
  <2> QED
    BY <1>1, <1>3, <2>1, <2>2, HoldsChannelKept DEF GuildInv, HoldsChannel
<1> QED
  BY <1>6, <1>7, <1>8, <1>9 DEF GuildInv

\* The factory looks for the channel by its name.
LEMMA FindChannelSound ==
  ASSUME GuildInv, NEW a \in Admins(key), FindChannel(a)
  PROVE  GuildInv'
<1>1. /\ setups[a].at = "channel"
      /\ UNCHANGED <<key, categories, channels, nextId, config, called, overlapped, deletions, faults>>
  BY DEF FindChannel
<1>2. SetupTypeOK /\ setups[a] # NoSetup /\ setups[a] \in AtWork /\ deletions \in Nat
  BY <1>1, CommandTypes DEF GuildInv, SetupTypeOK
<1>3. PICK r \in AtWork :
        /\ setups' \in Commands /\ Becomes(a, r)
        /\ \/ r.at = "newchannel" /\ channels = {} /\ r.deleted = setups[a].deleted
           \/ r.at = "persist" /\ r.channel \in ChannelIds /\ r.deleted = deletions
  <2>1. CASE channels = {} /\ setups' = [setups EXCEPT ![a].at = "newchannel"]
    <3>1. "newchannel" \in Stages
      BY DEF Stages
    <3> QED
      BY <1>1, <1>2, <2>1, <3>1, CommandMoves
  <2>2. ASSUME NEW c \in channels,
               setups' = [setups EXCEPT ![a].at = "persist", ![a].channel = c.id,
                                        ![a].deleted = deletions]
        PROVE  \E r \in AtWork : /\ setups' \in Commands /\ Becomes(a, r)
                                 /\ r.at = "persist" /\ r.channel \in ChannelIds
                                 /\ r.deleted = deletions
    <3>1. c.id \in 0 .. MaxIds /\ c.id \in ChannelIds
      BY <1>2 DEF SetupTypeOK, Ids, ChannelIds
    <3>2. setups[a].at # "idle"
      BY <1>1
    <3> DEFINE n == c.id
    <3>3. /\ n \in 0 .. MaxIds /\ n \in ChannelIds
          /\ setups' = [setups EXCEPT ![a].at = "persist", ![a].channel = n,
                                      ![a].deleted = deletions]
      BY <2>2, <3>1
    <3> HIDE DEF n
    <3>4. /\ setups' \in Commands
          /\ \E r \in AtWork : /\ Becomes(a, r) /\ r.at = "persist"
                               /\ r.channel = n /\ r.deleted = deletions
      BY <1>2, <3>2, <3>3, CommandHasChannel
    <3> QED
      BY <3>3, <3>4
  <2> QED
    BY <2>1, <2>2 DEF FindChannel, Reusable
<1>4. SetupTypeOK'
  BY <1>1, <1>2, <1>3 DEF SetupTypeOK, Commands, AtWork, Stages
<1>5. OneAtATime'
  BY <1>1, <1>2, <1>3, OneAtATimeKept DEF GuildInv, Becomes
<1>6. CreatesFirst'
  BY <1>1, <1>2, <1>3, CreatesFirstKept DEF GuildInv, CreatesFirst
<1>7. HoldsChannel'
  <2>1. ChannelIds' = ChannelIds
    BY <1>1 DEF ChannelIds
  <2>2. setups[a].deleted <= deletions /\ deletions <= deletions
    BY <1>1, <1>2 DEF GuildInv, HoldsChannel
  <2> QED
    BY <1>1, <1>3, <2>1, <2>2, HoldsChannelKept DEF GuildInv, HoldsChannel
<1> QED
  BY <1>4, <1>5, <1>6, <1>7 DEF GuildInv

\* The channel is created with the overwrites of the roles that were passed.
LEMMA CreateChannelSound ==
  ASSUME GuildInv, NEW a \in Admins(key), CreateChannel(a)
  PROVE  GuildInv'
<1> DEFINE ow == ChannelOverwrites(key, setups[a].roles)
           new == [id |-> nextId, ow |-> ow]
<1>1. /\ setups[a].at = "newchannel" /\ nextId \in Ids
      /\ channels' = channels \cup {new}
      /\ setups' = [setups EXCEPT ![a].at = "persist", ![a].channel = nextId,
                                  ![a].deleted = deletions]
      /\ nextId' = nextId + 1
      /\ UNCHANGED <<key, categories, config, called, overlapped, deletions, faults>>
  BY DEF CreateChannel
<1>2. /\ SetupTypeOK /\ setups[a] # NoSetup /\ setups[a] \in AtWork
      /\ setups[a].roles \in SUBSET StaffRoles /\ MaxIds \in Nat /\ deletions \in Nat
  BY <1>1, CommandTypes DEF GuildInv, AtWork, SetupTypeOK
<1>3. PICK r \in AtWork : /\ setups' \in Commands /\ Becomes(a, r)
                          /\ r.at = "persist" /\ r.channel = nextId /\ r.deleted = deletions
  <2>1. nextId \in 0 .. MaxIds
    BY <1>1, <1>2 DEF Ids
  <2>2. /\ SetupTypeOK /\ setups[a].at # "idle"
        /\ setups' = [setups EXCEPT ![a].at = "persist", ![a].channel = nextId,
                                    ![a].deleted = deletions]
    BY <1>1, <1>2
  <2> QED
    BY <2>1, <2>2, CommandHasChannel
<1>4. ow \in Overwrites
  <2>1. {Inherit, Hidden, ReadOnly, Reader, Full} \subseteq
          [allow : SUBSET Permissions, deny : SUBSET Permissions]
    BY DEF Inherit, Hidden, ReadOnly, Reader, Full, Permissions
  <2> QED
    BY <2>1 DEF ChannelOverwrites, EveryoneOverwrite, CashierOverwrite, AdminOverwrite,
                BotOverwrite, WithRoles, Overwrites, Roles, StaffRoles
<1>5. new.ow = ow /\ new.id = nextId /\ new \in [id : Ids, ow : Overwrites]
  BY <1>1, <1>4
<1> HIDE DEF new, ow
<1>6. SetupTypeOK'
  <2>1. nextId' \in 1 .. MaxIds + 1
    BY <1>1, <1>2 DEF Ids
  <2>2. channels' \subseteq [id : Ids, ow : Overwrites]
    BY <1>1, <1>2, <1>5 DEF SetupTypeOK
  <2> QED
    BY <1>1, <1>2, <1>3, <2>1, <2>2 DEF SetupTypeOK, Commands, AtWork, Stages
<1>7. OneAtATime'
  BY <1>1, <1>2, <1>3, OneAtATimeKept DEF GuildInv, Becomes
<1>8. CreatesFirst'
  <2>1. ~ overlapped => channels = {} /\ AtMostOne(categories)
    BY <1>1 DEF GuildInv, CreatesFirst
  <2>2. ~ overlapped => AtMostOne(categories') /\ AtMostOne(channels')
    BY <1>1, <2>1 DEF AtMostOne
  <2> QED
    BY <1>1, <1>2, <1>3, <2>2, CreatesFirstKept
<1>9. HoldsChannel'
  <2>1. channels \subseteq channels' /\ nextId \in ChannelIds' /\ ChannelIds \subseteq ChannelIds'
    BY <1>1, <1>5 DEF ChannelIds
  <2>2. deletions <= deletions
    BY <1>2
  <2> QED
    BY <1>1, <1>3, <2>1, <2>2, HoldsChannelKept DEF GuildInv, HoldsChannel
<1> QED
  BY <1>6, <1>7, <1>8, <1>9 DEF GuildInv

\* The channel's id is persisted.  A command that has got past its own write sees
\* it replaced only by one that overlaps, and then nothing was ever deleted.
LEMMA PersistChannelIdSound ==
  ASSUME GuildInv, NEW a \in Admins(key), PersistChannelId(a)
  PROVE  GuildInv'
<1>1. /\ setups[a].at = "persist"
      /\ config' = [config EXCEPT !.channel = setups[a].channel]
      /\ setups' = [setups EXCEPT ![a].at = "roles"]
      /\ UNCHANGED <<key, categories, channels, nextId, called, overlapped, deletions, faults>>
  BY DEF PersistChannelId, Upserted
<1>2. /\ SetupTypeOK /\ setups[a] # NoSetup /\ setups[a] \in AtWork
      /\ deletions \in Nat /\ setups[a].deleted \in Nat
  BY <1>1, CommandTypes DEF GuildInv, AtWork, SetupTypeOK
<1>3. /\ config' \in [channel : 0 .. MaxIds, roles : SUBSET StaffRoles]
      /\ config'.channel = setups[a].channel
  BY <1>1, <1>2 DEF SetupTypeOK, AtWork
<1>4. PICK r \in AtWork : /\ setups' \in Commands /\ Becomes(a, r)
                          /\ r.at = "roles" /\ r.deleted = setups[a].deleted
  <2>1. "roles" \in Stages
    BY DEF Stages
  <2> QED
    BY <1>1, <1>2, <2>1, CommandMoves
<1>5. SetupTypeOK'
  BY <1>1, <1>2, <1>3, <1>4 DEF SetupTypeOK, Commands, AtWork, Stages
<1>6. OneAtATime'
  BY <1>1, <1>2, <1>4, OneAtATimeKept DEF GuildInv, Becomes
<1>7. CreatesFirst'
  BY <1>1, <1>2, <1>4, CreatesFirstKept DEF GuildInv, CreatesFirst
<1>8. HoldsChannel'
  <2>1. ChannelIds' = ChannelIds
    BY <1>1 DEF ChannelIds
  <2>2. setups[a].deleted <= deletions
    BY <1>1 DEF GuildInv, HoldsChannel
  <2>3. Undisturbed(a) => setups[a].channel \in ChannelIds
    BY <1>1 DEF GuildInv, HoldsChannel
  <2>4. ASSUME NEW b \in Admins(key) \ {a}, setups[b].at \in {"roles", "welcome"},
               Undisturbed(b)
        PROVE  config'.channel \in ChannelIds'
    <3>1. setups[b] # NoSetup
      BY <1>2, <2>4, CommandTypes
    <3>2. overlapped
      BY <1>2, <3>1 DEF GuildInv, OneAtATime, Running
    <3>3. deletions = 0
      BY <2>4, <3>2 DEF Undisturbed
    <3>4. setups[a].deleted = deletions
      BY <1>2, <2>2, <3>3
    <3> QED
      BY <1>3, <2>1, <2>3, <3>3, <3>4 DEF Undisturbed
  <2>5. r.deleted = deletions /\ (overlapped => deletions = 0) =>
          config'.channel \in ChannelIds'
    BY <1>3, <1>4, <2>1, <2>3 DEF Undisturbed
  <2> QED
    BY <1>1, <1>4, <2>2, <2>4, <2>5, HoldsChannelKept
<1> QED
  BY <1>5, <1>6, <1>7, <1>8 DEF GuildInv

\* The roles' ids are persisted.
LEMMA PersistRoleIdsSound ==
  ASSUME GuildInv, NEW a \in Admins(key), PersistRoleIds(a)
  PROVE  GuildInv'
<1>1. /\ setups[a].at = "roles"
      /\ config' = [config EXCEPT !.roles = config.roles \cup setups[a].roles]
      /\ setups' = [setups EXCEPT ![a].at = "welcome"]
      /\ UNCHANGED <<key, categories, channels, nextId, called, overlapped, deletions, faults>>
  BY DEF PersistRoleIds
<1>2. SetupTypeOK /\ setups[a] # NoSetup /\ setups[a] \in AtWork
  BY <1>1, CommandTypes DEF GuildInv
<1>3. /\ config' \in [channel : 0 .. MaxIds, roles : SUBSET StaffRoles]
      /\ config'.channel = config.channel
  BY <1>1, <1>2 DEF SetupTypeOK
<1>4. PICK r \in AtWork : /\ setups' \in Commands /\ Becomes(a, r)
                          /\ r.at = "welcome" /\ r.deleted = setups[a].deleted
  <2>1. "welcome" \in Stages
    BY DEF Stages
  <2> QED
    BY <1>1, <1>2, <2>1, CommandMoves
<1>5. SetupTypeOK'
  BY <1>1, <1>2, <1>3, <1>4 DEF SetupTypeOK, Commands, AtWork, Stages
<1>6. OneAtATime'
  BY <1>1, <1>2, <1>4, OneAtATimeKept DEF GuildInv, Becomes
<1>7. CreatesFirst'
  BY <1>1, <1>2, <1>4, CreatesFirstKept DEF GuildInv, CreatesFirst
<1>8. HoldsChannel'
  <2>1. ChannelIds' = ChannelIds
    BY <1>1 DEF ChannelIds
  <2>2. setups[a].deleted <= deletions
    BY <1>1 DEF GuildInv, HoldsChannel
  <2>3. r.deleted = deletions /\ (overlapped => deletions = 0) =>
          config'.channel \in ChannelIds'
    BY <1>1, <1>3, <1>4, <2>1 DEF GuildInv, HoldsChannel, Undisturbed
  <2> QED
    BY <1>1, <1>3, <1>4, <2>1, <2>2, <2>3, HoldsChannelKept DEF GuildInv, HoldsChannel
<1> QED
  BY <1>5, <1>6, <1>7, <1>8 DEF GuildInv

\* The command ends, or a call raises or is refused and ends it.
LEMMA SetupEndsSound ==
  ASSUME GuildInv, NEW a \in Admins(key), EndSetup(a) \/ FailSetup(a) \/ RefuseChannel(a)
  PROVE  GuildInv'
<1>1. /\ setups[a] # NoSetup /\ SetupTypeOK
      /\ MaxFaults \in Nat
  BY CommandTypes DEF EndSetup, FailSetup, RefuseChannel, GuildInv
<1>2. /\ setups' = [setups EXCEPT ![a] = NoSetup]
      /\ UNCHANGED <<key, categories, channels, nextId, config, called, overlapped, deletions>>
      /\ faults' \in 0 .. MaxFaults
  BY <1>1 DEF EndSetup, FailSetup, RefuseChannel, SetupTypeOK
<1>3. setups' \in Commands /\ Becomes(a, NoSetup)
  BY <1>1, <1>2, CommandReplaced
<1>4. NoSetup.at = "idle"
  BY DEF NoSetup
<1>5. SetupTypeOK'
  BY <1>1, <1>2, <1>3 DEF SetupTypeOK, Commands, AtWork, Stages
<1>6. OneAtATime'
  BY <1>1, <1>2, <1>3, OneAtATimeKept DEF GuildInv, Becomes
<1>7. CreatesFirst'
  BY <1>1, <1>2, <1>3, <1>4, CreatesFirstKept DEF GuildInv, CreatesFirst
<1>8. HoldsChannel'
  <2>1. ChannelIds' = ChannelIds
    BY <1>2 DEF ChannelIds
  <2> QED
    BY <1>2, <1>3, <1>4, <2>1, HoldsChannelKept DEF GuildInv, HoldsChannel
<1> QED
  BY <1>5, <1>6, <1>7, <1>8 DEF GuildInv

\* A deletion: no command that runs is undisturbed any more.
LEMMA DeletionSound ==
  ASSUME GuildInv, deletions' \in deletions + 1 .. MaxDeletions,
         channels' \subseteq channels, faults' \in 0 .. MaxFaults,
         UNCHANGED <<key, categories, nextId, config, setups, called, overlapped>>
  PROVE  GuildInv'
<1>1. SetupTypeOK /\ MaxDeletions \in Nat /\ deletions \in Nat /\ deletions' \in Nat
  BY CommandTypes DEF GuildInv, SetupTypeOK
<1>2. deletions' \in 0 .. MaxDeletions /\ deletions' > deletions
  BY <1>1
<1>3. SetupTypeOK'
  BY <1>1, <1>2 DEF SetupTypeOK
<1>4. OneAtATime'
  BY OneAtATimeKept DEF GuildInv
<1>5. CreatesFirst'
  BY DEF GuildInv, CreatesFirst, AtMostOne
<1>6. HoldsChannel'
  <2>1. ASSUME NEW b \in Admins(key), setups[b].at # "idle"
        PROVE  setups[b].deleted < deletions'
    <3>1. setups[b].deleted <= deletions
      BY <2>1 DEF GuildInv, HoldsChannel
    <3>2. setups[b] \in AtWork
      BY <1>1, <2>1, CommandTypes
    <3>3. setups[b].deleted \in 0 .. MaxDeletions
      BY <3>2 DEF AtWork
    <3> QED
      BY <1>1, <1>2, <3>1, <3>3
  <2>2. ASSUME NEW b \in Admins(key), setups[b].at # "idle"
        PROVE  setups[b].deleted <= deletions' /\ setups[b].deleted # deletions'
    <3>1. setups[b] \in AtWork
      BY <1>1, <2>2, CommandTypes
    <3>2. setups[b].deleted \in 0 .. MaxDeletions
      BY <3>1 DEF AtWork
    <3> QED
      BY <1>1, <2>1, <2>2, <3>2
  <2> QED
    BY <2>2 DEF HoldsChannel, Undisturbed
<1> QED
  BY <1>3, <1>4, <1>5, <1>6 DEF GuildInv

\* Steps that leave the guild alone, or that end all the commands.
LEMMA OthersSound ==
  ASSUME GuildInv, SetupsDie \/ GuildQuiet
  PROVE  GuildInv'
<1>1. SetupTypeOK /\ MaxDeletions \in Nat /\ deletions \in Nat /\ deletions \in 0 .. MaxDeletions
  BY CommandTypes DEF GuildInv, SetupTypeOK
<1>2. CASE SetupsDie
  <2>1. /\ setups' = [a \in Admins(key) |-> NoSetup] /\ faults' \in 0 .. MaxFaults
        /\ UNCHANGED <<key, categories, channels, nextId, config, called, overlapped, deletions>>
    BY <1>2 DEF SetupsDie
  <2>2. \A a \in Admins(key) : setups'[a] = NoSetup /\ setups'[a].at = "idle"
    BY <2>1 DEF NoSetup
  <2>3. SetupTypeOK'
    BY <1>1, <2>1 DEF SetupTypeOK
  <2>4. OneAtATime'
    BY <2>1, <2>2 DEF OneAtATime, Running
  <2>5. CreatesFirst'
    BY <2>1, <2>2 DEF GuildInv, CreatesFirst
  <2>6. HoldsChannel'
    BY <2>1, <2>2 DEF HoldsChannel
  <2> QED
    BY <2>3, <2>4, <2>5, <2>6 DEF GuildInv
<1>3. CASE GuildQuiet
  <2>1. /\ UNCHANGED <<key, categories, channels, nextId, config, setups, called, overlapped>>
        /\ deletions' \in deletions .. MaxDeletions /\ faults' \in 0 .. MaxFaults
    BY <1>3 DEF GuildQuiet, guild
  <2>2. CASE deletions' = deletions
    <3>1. ChannelIds' = ChannelIds
      BY <2>1 DEF ChannelIds
    <3>2. SetupTypeOK'
      BY <1>1, <2>1, <2>2 DEF SetupTypeOK
    <3>3. OneAtATime' /\ CreatesFirst'
      BY <2>1 DEF GuildInv, OneAtATime, Running, CreatesFirst
    <3>4. HoldsChannel'
      BY <2>1, <2>2, <3>1 DEF GuildInv, HoldsChannel, Undisturbed
    <3> QED
      BY <3>2, <3>3, <3>4 DEF GuildInv
  <2>3. CASE deletions' # deletions
    <3>1. deletions' \in deletions + 1 .. MaxDeletions
      BY <1>1, <2>1, <2>3
    <3> QED
      BY <2>1, <3>1, DeletionSound
  <2> QED
    BY <2>2, <2>3
<1> QED
  BY <1>2, <1>3

\* Every step keeps the guild's invariant.
LEMMA GuildStepSound ==
  ASSUME GuildInv, [Next]_vars
  PROVE  GuildInv'
<1>1. GuildStep
  BY StepsOfTheGuild DEF GuildInv
<1>2. ASSUME NEW a \in Admins(key), SetupStep(a) PROVE GuildInv'
  BY <1>2, StartSetupSound, FindCategorySound, CreateCategorySound, FindChannelSound,
     CreateChannelSound, PersistRoleIdsSound, SetupEndsSound DEF SetupStep
<1>3. ASSUME NEW a \in Admins(key), PersistChannelId(a) \/ EndSetup(a) PROVE GuildInv'
  BY <1>3, PersistChannelIdSound, SetupEndsSound
<1>4. ASSUME NEW c \in channels, DeleteChannel(c) PROVE GuildInv'
  <2>1. /\ deletions < MaxDeletions /\ deletions' = deletions + 1
        /\ channels' \subseteq channels
        /\ UNCHANGED <<key, categories, nextId, config, setups, called, overlapped, faults>>
    BY <1>4 DEF DeleteChannel
  <2>2. MaxDeletions \in Nat /\ deletions \in 0 .. MaxDeletions /\ faults \in 0 .. MaxFaults
    BY CommandTypes DEF GuildInv, SetupTypeOK
  <2>3. deletions' \in deletions + 1 .. MaxDeletions
    BY <2>1, <2>2
  <2> QED
    BY <2>1, <2>2, <2>3, DeletionSound
<1> QED
  BY <1>1, <1>2, <1>3, <1>4, OthersSound DEF GuildStep

\* A guild with what operators made, at most one category and one channel, and no
\* command running.
LEMMA GuildInitSound == ASSUME BoardInit PROVE GuildInv
<1>1. SetupInit /\ {MaxIds, MaxSetups, MaxDeletions, MaxFaults} \subseteq Nat /\ MaxIds > 1
  BY SetupAssumption DEF BoardInit
<1>2. ASSUME NEW id \in Ids, NEW places \in MadeByOperators(id)
      PROVE  places \subseteq [id : Ids, ow : Overwrites] /\ AtMostOne(places)
  <2>1. OperatorOverwrites(key) \subseteq Overwrites
    BY <1>1, SetupAssumption DEF SetupInit
  <2>2. places = {} \/ \E o \in OperatorOverwrites(key) : places = {[id |-> id, ow |-> o]}
    BY <1>2 DEF MadeByOperators
  <2> QED
    BY <2>1, <2>2 DEF AtMostOne
<1>3. /\ categories \subseteq [id : Ids, ow : Overwrites] /\ AtMostOne(categories)
      /\ channels \subseteq [id : Ids, ow : Overwrites] /\ AtMostOne(channels)
  <2>1. 1 \in Ids /\ 2 \in Ids
    BY <1>1 DEF Ids
  <2>2. categories \in MadeByOperators(1) /\ (channels = {} \/ channels \in MadeByOperators(2))
    BY <1>1 DEF SetupInit
  <2> QED
    BY <1>2, <2>1, <2>2 DEF AtMostOne
<1>4. SetupTypeOK
  <2>1. /\ 3 \in 1 .. MaxIds + 1 /\ 0 \in 0 .. MaxIds /\ 0 \in 0 .. MaxSetups
        /\ 0 \in 0 .. MaxDeletions /\ 0 \in 0 .. MaxFaults
    BY <1>1
  <2> QED
    BY <1>1, <1>3, <2>1 DEF SetupInit, SetupTypeOK
<1>5. \A a \in Admins(key) : setups[a] = NoSetup /\ setups[a].at = "idle"
  BY <1>1 DEF SetupInit, NoSetup
<1>6. OneAtATime /\ CreatesFirst
  BY <1>3, <1>5 DEF OneAtATime, Running, CreatesFirst
<1>7. HoldsChannel
  BY <1>5 DEF HoldsChannel
<1> QED
  BY <1>4, <1>6, <1>7 DEF GuildInv

\* The guild's invariant holds, whatever commands and coroutines do.
LEMMA GuildCorrect == Spec => []GuildInv
<1>1. BoardInit => GuildInv
  BY GuildInitSound
<1>2. GuildInv /\ [Next]_vars => GuildInv'
  BY GuildStepSound
<1> QED
  BY <1>1, <1>2, PTL DEF Spec

-----------------------------------------------------------------------------
(* The theorems about the guild.                                           *)

\* A set whose members are all equal has at most one.
LEMMA AtMostOneCounts ==
  ASSUME NEW S, AtMostOne(S)
  PROVE  Cardinality(S) <= 1
<1>1. CASE S = {}
  BY <1>1, FS_EmptySet
<1>2. CASE S # {}
  <2>1. PICK x \in S : TRUE
    BY <1>2
  <2>2. S = {x}
    BY <2>1 DEF AtMostOne
  <2>3. Cardinality({x}) = 1
    BY FS_Singleton
  <2> QED
    BY <2>2, <2>3
<1> QED
  BY <1>1, <1>2

\* ensure_category and ensure_channel: setups that fail half-way and are run again
\* never leave two categories or two channels of one name, unless two overlapped.
THEOREM SetupIsRepeatable == Spec => []NoDuplicates
<1>1. GuildInv => NoDuplicates
  BY AtMostOneCounts DEF GuildInv, CreatesFirst, NoDuplicates
<1> QED
  BY <1>1, GuildCorrect, PTL

\* persist_channel_ids: past its writes, a setup has left the configuration naming a
\* channel of the guild, unless one was deleted under it.
THEOREM ConfigHealed == Spec => []SetupHealsConfig
<1>1. GuildInv => SetupHealsConfig
  BY DEF GuildInv, HoldsChannel, Undisturbed, SetupHealsConfig
<1> QED
  BY <1>1, GuildCorrect, PTL

-----------------------------------------------------------------------------
(* The embeds' part of the invariant.                                      *)

\* A coroutine at work.
Working ==
  [does : Jobs, at : Places, channel : Nat, message : Nat, shows : Nat,
   alone : BOOLEAN, told : BOOLEAN]

Coroutines == [Tasks(key) -> {NoTask} \cup Working]

EmbedsTyped ==
  /\ row \in [channel : Nat, message : Nat]
  /\ content \in Nat /\ sent \in Nat /\ updater \in Nat
  /\ messages \subseteq [id : Nat, channel : Nat, shows : Nat]
  /\ tasks \in Coroutines

\* Discord gives every message an id of its own.
IdsUnique ==
  /\ \A m \in messages : m.id <= sent
  /\ \A m, n \in messages : m.id = n.id => m = n

Disputing == {"open", "close"}

\* The coroutines that can be at work on the embed that is followed, and where.
JobsFit ==
  /\ updater # 0 => IsRoster
  /\ \A t \in Tasks(key) : Busy(t) =>
       /\ tasks[t].does \in Disputing <=> IsDispute
       /\ tasks[t].does \in Disputing =>
            tasks[t].at \notin {"write", "reread", "insert", "retarget"}
       /\ tasks[t].at = "write" => tasks[t].does = "edit"
       /\ tasks[t].told => tasks[t].at = "done"

\* The message that t has sent and is about to persist.
InFlight(t) ==
  /\ tasks[t].channel \in ChannelIds
  /\ \E m \in messages : /\ m.id = tasks[t].message /\ m.channel = tasks[t].channel
                         /\ m.shows = content

\* What a coroutine that is alone may rely on: what it has read is still so.
Relies(t) ==
  /\ \A x \in Tasks(key) \ {t} : ~ Busy(x)
  /\ tasks[t].does \in {"tick", "open", "close"} \/ tasks[t].at \in {"deliver", "persist"} =>
       tasks[t].shows = content
  /\ tasks[t].does # "open" /\ tasks[t].at = "deliver" => tasks[t].message = row.message
  /\ tasks[t].does = "close" /\ tasks[t].at = "config" => tasks[t].message = row.message
  /\ tasks[t].does = "open" /\ tasks[t].at \in {"config", "deliver"} => tasks[t].message = 0
  /\ tasks[t].at = "persist" => InFlight(t)
  /\ tasks[t].at = "done" /\ tasks[t].told => Shown(tasks[t].channel)

AloneRelies == \A t \in Tasks(key) : Busy(t) /\ tasks[t].alone => Relies(t)

BoardInv == GuildInv /\ EmbedsTyped /\ IdsUnique /\ JobsFit /\ AloneRelies

-----------------------------------------------------------------------------
(* What a coroutine's step does to the coroutines.                         *)

\* t's coroutine becomes r, and the others stay as they are.
Turns(t, r) == tasks'[t] = r /\ \A x \in Tasks(key) \ {t} : tasks'[x] = tasks[x]

\* Either there is no coroutine, or there is one at work.
LEMMA TaskTypes ==
  ASSUME EmbedsTyped
  PROVE  /\ \A t \in Tasks(key) : Busy(t) <=> tasks[t] \in Working
         /\ \A r \in Working : r # NoTask
<1>1. \A r \in Working : r.does # "nothing"
  BY DEF Working, Jobs
<1>2. NoTask.does = "nothing"
  BY DEF NoTask
<1>3. \A t \in Tasks(key) : tasks[t] = NoTask \/ tasks[t] \in Working
  BY DEF EmbedsTyped, Coroutines
<1> QED
  BY <1>1, <1>2, <1>3 DEF Busy

\* Replacing a coroutine by another state of it, or by none.
LEMMA TaskReplaced ==
  ASSUME EmbedsTyped, NEW t \in Tasks(key), NEW r \in {NoTask} \cup Working,
         tasks' = [tasks EXCEPT ![t] = r]
  PROVE  tasks' \in Coroutines /\ Turns(t, r)
BY DEF EmbedsTyped, Coroutines, Turns

\* A step of t leaves the others' jobs as they are, and nobody else was alone.
LEMMA TurnSound ==
  ASSUME BoardInv, NEW t \in Tasks(key), Busy(t), NEW r \in Working,
         tasks' \in Coroutines, Turns(t, r), UNCHANGED <<key, updater>>,
         r.does = tasks[t].does, r.alone = tasks[t].alone,
         r.does \in Disputing => r.at \notin {"write", "reread", "insert", "retarget"},
         r.at = "write" => r.does = "edit",
         r.told => r.at = "done",
         r.alone => Relies(t)'
  PROVE  JobsFit' /\ AloneRelies'
<1>1. IsDispute' = IsDispute /\ IsRoster' = IsRoster
  BY DEF IsDispute, IsRoster
<1>2. JobsFit'
  <2>1. ASSUME NEW x \in Tasks(key), tasks'[x] # NoTask
        PROVE  /\ tasks'[x].does \in Disputing <=> IsDispute
               /\ tasks'[x].does \in Disputing =>
                    tasks'[x].at \notin {"write", "reread", "insert", "retarget"}
               /\ tasks'[x].at = "write" => tasks'[x].does = "edit"
               /\ tasks'[x].told => tasks'[x].at = "done"
    <3>1. CASE x = t
      BY <3>1 DEF Turns, BoardInv, JobsFit
    <3>2. CASE x # t
      BY <2>1, <3>2 DEF Turns, BoardInv, JobsFit, Busy
    <3> QED
      BY <3>1, <3>2
  <2> QED
    BY <1>1, <2>1 DEF BoardInv, JobsFit, Busy
<1>3. AloneRelies'
  <2>1. ASSUME NEW x \in Tasks(key), tasks'[x] # NoTask, tasks'[x].alone
        PROVE  Relies(x)'
    <3>1. CASE x = t
      BY <2>1, <3>1 DEF Turns
    <3>2. CASE x # t
      <4>1. Busy(x) /\ tasks[x].alone
        BY <2>1, <3>2 DEF Turns, Busy
      <4>2. Relies(x)
        BY <4>1 DEF BoardInv, AloneRelies
      <4>3. ~ Busy(t)
        BY <3>2, <4>2 DEF Relies
      <4> QED
        BY <4>3
    <3> QED
      BY <3>1, <3>2
  <2> QED
    BY <2>1 DEF AloneRelies, Busy
<1> QED
  BY <1>2, <1>3

\* A coroutine ends or fails: the others' jobs are what they were, and none of
\* them was alone.
LEMMA TaskEndsSound ==
  ASSUME BoardInv, NEW t \in Tasks(key), Busy(t), tasks' \in Coroutines, Turns(t, NoTask),
         UNCHANGED <<key, updater>>
  PROVE  JobsFit' /\ AloneRelies'
<1>1. IsDispute' = IsDispute /\ IsRoster' = IsRoster
  BY DEF IsDispute, IsRoster
<1>2. \A x \in Tasks(key) : tasks'[x] # NoTask => x # t /\ tasks'[x] = tasks[x]
  BY DEF Turns
<1>3. JobsFit'
  BY <1>1, <1>2 DEF BoardInv, JobsFit, Busy
<1>4. \A x \in Tasks(key) : tasks'[x] # NoTask => ~ tasks'[x].alone
  BY <1>2 DEF BoardInv, AloneRelies, Relies, Busy
<1>5. AloneRelies'
  BY <1>4 DEF AloneRelies, Busy
<1> QED
  BY <1>3, <1>5

\* Something else has moved: no coroutine is alone.
LEMMA DisturbedSound ==
  ASSUME BoardInv, tasks' = Disturbed, UNCHANGED <<key, updater>>
  PROVE  tasks' \in Coroutines /\ JobsFit' /\ AloneRelies'
<1>1. EmbedsTyped
  BY DEF BoardInv
<1>2. IsDispute' = IsDispute /\ IsRoster' = IsRoster
  BY DEF IsDispute, IsRoster
<1>3. ASSUME NEW x \in Tasks(key)
      PROVE  /\ ~ Busy(x) => tasks'[x] = NoTask
             /\ Busy(x) => /\ tasks'[x] \in Working /\ ~ tasks'[x].alone
                           /\ tasks'[x].does = tasks[x].does /\ tasks'[x].at = tasks[x].at
                           /\ tasks'[x].told = tasks[x].told
  <2>1. CASE Busy(x)
    <3>1. tasks'[x] = [tasks[x] EXCEPT !.alone = FALSE] /\ tasks[x] \in Working
      BY <1>1, <2>1, TaskTypes DEF Disturbed
    <3> QED
      BY <2>1, <3>1 DEF Working
  <2>2. CASE ~ Busy(x)
    BY <2>2 DEF Disturbed
  <2> QED
    BY <2>1, <2>2
<1>4. tasks' \in Coroutines
  <2>1. \A x \in Tasks(key) : tasks'[x] \in {NoTask} \cup Working
    BY <1>3
  <2> QED
    BY <2>1 DEF Coroutines, Disturbed
<1>5. JobsFit'
  BY <1>2, <1>3 DEF BoardInv, JobsFit, Busy
<1>6. AloneRelies'
  BY <1>3 DEF AloneRelies, Busy
<1> QED
  BY <1>4, <1>5, <1>6

\* A coroutine starts: it is alone when nobody else is at work, and whoever was
\* alone no longer is.
LEMMA StartSound ==
  ASSUME BoardInv, NEW t \in Tasks(key), NEW does \in Jobs, NEW at \in {"config", "row", "write"},
         NEW channel \in Nat, NEW shows \in Nat, Start(t, does, at, channel, shows),
         UNCHANGED <<key, updater>>,
         does \in Disputing <=> IsDispute,
         at = "write" => does = "edit",
         does = "close" => at = "row",
         does \in {"tick", "open", "close"} => shows = content'
  PROVE  tasks' \in Coroutines /\ JobsFit' /\ AloneRelies'
<1> DEFINE others == \E x \in Tasks(key) : Busy(x)
           r == [does |-> does, at |-> at, channel |-> channel, message |-> 0,
                 shows |-> shows, alone |-> ~ others, told |-> FALSE]
<1>1. ~ Busy(t) /\ tasks' = [Disturbed EXCEPT ![t] = r]
  BY DEF Start
<1>2. /\ r \in Working /\ r.does = does /\ r.at = at /\ r.message = 0 /\ r.shows = shows
      /\ ~ r.told /\ (r.alone => ~ others)
  BY DEF Working, Jobs, Places
<1> HIDE DEF r
<1>3. IsDispute' = IsDispute /\ IsRoster' = IsRoster /\ EmbedsTyped
  BY DEF IsDispute, IsRoster, BoardInv
<1>4. tasks'[t] = r
  BY <1>1 DEF Disturbed
<1>5. ASSUME NEW x \in Tasks(key) \ {t}
      PROVE  /\ ~ Busy(x) => tasks'[x] = NoTask
             /\ Busy(x) => /\ tasks'[x] \in Working /\ ~ tasks'[x].alone
                           /\ tasks'[x].does = tasks[x].does /\ tasks'[x].at = tasks[x].at
                           /\ tasks'[x].told = tasks[x].told
  <2>1. CASE Busy(x)
    <3>1. tasks'[x] = [tasks[x] EXCEPT !.alone = FALSE] /\ tasks[x] \in Working
      BY <1>1, <1>3, <2>1, TaskTypes DEF Disturbed
    <3> QED
      BY <2>1, <3>1 DEF Working
  <2>2. CASE ~ Busy(x)
    BY <1>1, <2>2 DEF Disturbed
  <2> QED
    BY <2>1, <2>2
<1>6. tasks' \in Coroutines
  <2>1. \A x \in Tasks(key) : tasks'[x] \in {NoTask} \cup Working
    BY <1>2, <1>4, <1>5
  <2> QED
    BY <1>1, <2>1 DEF Coroutines, Disturbed
<1>7. JobsFit'
  <2>1. ASSUME NEW x \in Tasks(key), tasks'[x] # NoTask
        PROVE  /\ tasks'[x].does \in Disputing <=> IsDispute
               /\ tasks'[x].does \in Disputing =>
                    tasks'[x].at \notin {"write", "reread", "insert", "retarget"}
               /\ tasks'[x].at = "write" => tasks'[x].does = "edit"
               /\ tasks'[x].told => tasks'[x].at = "done"
    <3>1. CASE x = t
      BY <1>2, <1>4, <3>1 DEF Disputing
    <3>2. CASE x # t
      BY <1>5, <2>1, <3>2 DEF BoardInv, JobsFit
    <3> QED
      BY <3>1, <3>2
  <2> QED
    BY <1>3, <2>1 DEF BoardInv, JobsFit, Busy
<1>8. AloneRelies'
  <2>1. ASSUME NEW x \in Tasks(key), tasks'[x] # NoTask, tasks'[x].alone
        PROVE  Relies(x)'
    <3>1. x = t /\ ~ others
      BY <1>2, <1>4, <1>5, <2>1
    <3>2. \A y \in Tasks(key) \ {t} : tasks'[y] = NoTask
      BY <1>5, <3>1
    <3> QED
      BY <1>2, <1>4, <3>1, <3>2 DEF Relies, Busy
  <2> QED
    BY <2>1 DEF AloneRelies, Busy
<1> QED
  BY <1>6, <1>7, <1>8

\* Steps that leave the coroutines alone and change nothing they rely on.
LEMMA RelianceKept ==
  ASSUME BoardInv, UNCHANGED <<key, row, content, messages, sent, tasks>>,
         channels \subseteq channels', updater' # 0 => IsRoster
  PROVE  IdsUnique' /\ JobsFit' /\ AloneRelies'
<1>1. ChannelIds \subseteq ChannelIds'
  BY DEF ChannelIds
<1>2. IsDispute' = IsDispute /\ IsRoster' = IsRoster
  BY DEF IsDispute, IsRoster
<1>3. IdsUnique' /\ JobsFit'
  BY <1>2 DEF BoardInv, IdsUnique, JobsFit, Busy
<1>4. ASSUME NEW t \in Tasks(key), Busy(t), tasks[t].alone PROVE Relies(t)'
  <2>1. Relies(t)
    BY <1>4 DEF BoardInv, AloneRelies
  <2>2. InFlight(t) => InFlight(t)'
    BY <1>1 DEF InFlight
  <2>3. Shown(tasks[t].channel) => Shown(tasks[t].channel)'
    BY <1>1 DEF Shown, Found
  <2> QED
    BY <2>1, <2>2, <2>3 DEF Relies, Busy
<1> QED
  BY <1>3, <1>4 DEF AloneRelies, Busy

-----------------------------------------------------------------------------
(* The coroutines' steps keep the invariant.                               *)

EmbedInv == EmbedsTyped /\ IdsUnique /\ JobsFit /\ AloneRelies

\* A step that only reads, with what has to be true of what it has read.
LEMMA ReaderSound ==
  ASSUME BoardInv, NEW t \in Tasks(key), Busy(t), NEW r \in Working,
         tasks' = [tasks EXCEPT ![t] = r], UNCHANGED <<guild, board>>,
         r.does = tasks[t].does, r.alone = tasks[t].alone, r.told = tasks[t].told,
         tasks[t].at # "done", r.at \notin {"write", "persist"},
         r.does \in Disputing => r.at \notin {"reread", "insert", "retarget"},
         r.alone => /\ r.does \in {"tick", "open", "close"} \/ r.at = "deliver" =>
                         r.shows = content
                    /\ r.does # "open" /\ r.at = "deliver" => r.message = row.message
                    /\ r.does = "close" /\ r.at = "config" => r.message = row.message
                    /\ r.does = "open" /\ r.at \in {"config", "deliver"} => r.message = 0
  PROVE  EmbedInv'
<1>1. /\ UNCHANGED <<key, channels, row, content, messages, sent, updater>>
      /\ EmbedsTyped
  BY DEF guild, board, BoardInv
<1>2. tasks' \in Coroutines /\ Turns(t, r)
  BY <1>1, TaskReplaced
<1>3. EmbedsTyped' /\ IdsUnique'
  BY <1>1, <1>2 DEF BoardInv, EmbedsTyped, IdsUnique, Coroutines
<1>4. ~ r.told
  <2>1. tasks[t].told => tasks[t].at = "done"
    BY DEF BoardInv, JobsFit
  <2> QED
    BY <2>1
<1>5. ASSUME r.alone PROVE Relies(t)'
  <2>1. \A x \in Tasks(key) \ {t} : ~ Busy(x)
    BY <1>5 DEF BoardInv, AloneRelies, Relies
  <2> QED
    BY <1>1, <1>2, <1>4, <1>5, <2>1 DEF Relies, Busy, Turns
<1>6. JobsFit' /\ AloneRelies'
  BY <1>1, <1>2, <1>4, <1>5, TurnSound
<1> QED
  BY <1>3, <1>6 DEF EmbedInv

\* resolve_channel_id, before a guide's row is read.
LEMMA ReadConfigSound ==
  ASSUME BoardInv, NEW t \in Tasks(key), ReadConfig(t)
  PROVE  EmbedInv'
<1> DEFINE q == [tasks[t] EXCEPT !.channel = config.channel]
           r == [q EXCEPT !.at = "row"]
<1>1. /\ Busy(t) /\ tasks[t].at = "config" /\ IsGuide
      /\ tasks' = [tasks EXCEPT ![t] = r] /\ UNCHANGED <<guild, board>>
  BY DEF ReadConfig, At
<1>2. tasks[t] \in Working /\ config.channel \in Nat
  BY <1>1, TaskTypes DEF BoardInv, GuildInv, SetupTypeOK
<1>3. /\ r \in Working /\ r.at = "row" /\ r.does = tasks[t].does
      /\ r.alone = tasks[t].alone /\ r.told = tasks[t].told
      /\ r.shows = tasks[t].shows
  BY <1>2 DEF Working, Places
<1> HIDE DEF r
<1>4. r.does \notin Disputing
  BY <1>1, <1>3 DEF BoardInv, JobsFit, IsGuide, IsDispute
<1>5. ASSUME r.alone PROVE r.does \in {"tick", "open", "close"} => r.shows = content
  BY <1>1, <1>3, <1>5 DEF BoardInv, AloneRelies, Relies
<1> QED
  BY <1>1, <1>3, <1>4, <1>5, ReaderSound DEF Disputing

\* Where the row sends a coroutine that keeps a guide or the roster.
LEMMA AfterRowPlaces ==
  ASSUME NEW target
  PROVE  AfterRow(target) \in {"insert", "done", "deliver"}
BY DEF AfterRow

\* The row of a guide is read by the reconciliation.
LEMMA ReadRowSound ==
  ASSUME BoardInv, NEW t \in Tasks(key), ReadRow(t)
  PROVE  EmbedInv'
<1> DEFINE at == CASE Target(t) = 0 -> "done"
                   [] row.channel \notin {0, Target(t)} -> "retarget"
                   [] OTHER -> AfterRow(Target(t))
           o == [tasks[t] EXCEPT !.channel = Target(t)]
           p == [o EXCEPT !.message = row.message]
           q == [p EXCEPT !.shows = content]
           r == [q EXCEPT !.at = at]
<1>1. /\ Busy(t) /\ tasks[t].at = "row" /\ tasks[t].does = "reconcile"
      /\ tasks' = [tasks EXCEPT ![t] = r] /\ UNCHANGED <<guild, board>>
  <2>1. tasks' = [tasks EXCEPT ![t].channel = Target(t), ![t].message = row.message,
                               ![t].shows = content, ![t].at = at]
    BY Zenon DEF ReadRow
  <2> HIDE DEF at
  <2>2. tasks' = [tasks EXCEPT ![t] = r]
    BY <2>1
  <2> QED
    BY <2>2 DEF ReadRow, At
<1>2. /\ tasks[t] \in Working /\ row.channel \in Nat /\ row.message \in Nat /\ content \in Nat
      /\ at \in {"done", "retarget", "insert", "deliver"}
  BY <1>1, TaskTypes, AfterRowPlaces DEF BoardInv, EmbedsTyped
<1>3. Target(t) \in Nat
  BY <1>2 DEF Target, Working
<1> HIDE DEF at
<1>4. /\ r \in Working /\ r.at = at /\ r.does = "reconcile"
      /\ r.alone = tasks[t].alone /\ r.told = tasks[t].told
      /\ r.shows = content /\ r.message = row.message
  BY <1>1, <1>2, <1>3 DEF Working, Places
<1> HIDE DEF r
<1> QED
  BY <1>1, <1>2, <1>4, ReaderSound DEF Disputing

\* The row of a guide is read by an edit.
LEMMA ReadRowToEditSound ==
  ASSUME BoardInv, NEW t \in Tasks(key), ReadRowToEdit(t)
  PROVE  EmbedInv'
<1> DEFINE at == AfterRow(row.channel)
           o == [tasks[t] EXCEPT !.channel = row.channel]
           p == [o EXCEPT !.message = row.message]
           q == [p EXCEPT !.shows = content]
           r == [q EXCEPT !.at = at]
<1>1. /\ Busy(t) /\ tasks[t].at = "row" /\ tasks[t].does = "edit"
      /\ tasks' = [tasks EXCEPT ![t] = r] /\ UNCHANGED <<guild, board>>
  BY DEF ReadRowToEdit, At
<1>2. /\ tasks[t] \in Working /\ row.channel \in Nat /\ row.message \in Nat /\ content \in Nat
      /\ at \in {"done", "insert", "deliver"}
  BY <1>1, TaskTypes, AfterRowPlaces DEF BoardInv, EmbedsTyped
<1> HIDE DEF at
<1>3. /\ r \in Working /\ r.at = at /\ r.does = "edit"
      /\ r.alone = tasks[t].alone /\ r.told = tasks[t].told
      /\ r.shows = content /\ r.message = row.message
  BY <1>1, <1>2 DEF Working, Places
<1> HIDE DEF r
<1> QED
  BY <1>1, <1>2, <1>3, ReaderSound DEF Disputing

\* The roster's row is read by a tick.
LEMMA ReadRowToTickSound ==
  ASSUME BoardInv, NEW t \in Tasks(key), ReadRowToTick(t)
  PROVE  EmbedInv'
<1> DEFINE at == AfterRow(tasks[t].channel)
           q == [tasks[t] EXCEPT !.message = row.message]
           r == [q EXCEPT !.at = at]
<1>1. /\ Busy(t) /\ tasks[t].at = "row" /\ tasks[t].does = "tick"
      /\ tasks' = [tasks EXCEPT ![t] = r] /\ UNCHANGED <<guild, board>>
  BY DEF ReadRowToTick, At
<1>2. /\ tasks[t] \in Working /\ row.message \in Nat
      /\ at \in {"done", "insert", "deliver"}
  BY <1>1, TaskTypes, AfterRowPlaces DEF BoardInv, EmbedsTyped
<1> HIDE DEF at
<1>3. /\ r \in Working /\ r.at = at /\ r.does = "tick"
      /\ r.alone = tasks[t].alone /\ r.told = tasks[t].told
      /\ r.shows = tasks[t].shows /\ r.message = row.message
  BY <1>1, <1>2 DEF Working, Places
<1> HIDE DEF r
<1>4. ASSUME r.alone PROVE r.shows = content
  BY <1>1, <1>3, <1>4 DEF BoardInv, AloneRelies, Relies
<1> QED
  BY <1>1, <1>2, <1>3, <1>4, ReaderSound DEF Disputing

\* The row is read again after it was inserted or re-targeted.
LEMMA ReadAgainSound ==
  ASSUME BoardInv, NEW t \in Tasks(key), ReadAgain(t)
  PROVE  EmbedInv'
<1> DEFINE at == AfterRow(tasks[t].channel)
           shows == IF tasks[t].does = "tick" THEN tasks[t].shows ELSE content
           p == [tasks[t] EXCEPT !.message = row.message]
           q == [p EXCEPT !.shows = shows]
           r == [q EXCEPT !.at = at]
<1>1. /\ Busy(t) /\ tasks[t].at = "reread"
      /\ tasks' = [tasks EXCEPT ![t] = r] /\ UNCHANGED <<guild, board>>
  <2>1. Busy(t) /\ tasks[t].at = "reread" /\ UNCHANGED <<guild, board>>
    BY DEF ReadAgain, At
  <2>2. tasks[t] \in Working
    BY <2>1, TaskTypes DEF BoardInv
  <2>3. p.shows = tasks[t].shows
    BY <2>2 DEF Working
  <2>4. tasks' = [tasks EXCEPT ![t].message = row.message,
                               ![t].shows = IF tasks[t].does = "tick" THEN @ ELSE content,
                               ![t].at = at]
    BY DEF ReadAgain
  <2> QED
    BY <2>1, <2>3, <2>4
<1>2. /\ tasks[t] \in Working /\ row.message \in Nat /\ content \in Nat
      /\ at \in {"done", "insert", "deliver"}
  BY <1>1, TaskTypes, AfterRowPlaces DEF BoardInv, EmbedsTyped
<1>3. shows \in Nat
  BY <1>2 DEF Working
<1> HIDE DEF at, shows
<1>4. /\ r \in Working /\ r.at = at /\ r.does = tasks[t].does
      /\ r.alone = tasks[t].alone /\ r.told = tasks[t].told
      /\ r.shows = shows /\ r.message = row.message
  BY <1>1, <1>2, <1>3 DEF Working, Places
<1> HIDE DEF r
<1>5. r.does \notin Disputing
  BY <1>1, <1>4 DEF BoardInv, JobsFit
<1>6. ASSUME r.alone PROVE shows = content
  <2>1. Relies(t)
    BY <1>1, <1>4, <1>6 DEF BoardInv, AloneRelies
  <2> QED
    BY <2>1 DEF Relies, shows
<1> QED
  BY <1>1, <1>2, <1>4, <1>5, <1>6, ReaderSound DEF Disputing

\* The channel or the dispute's message is gone: nothing is told.
LEMMA GoneSound ==
  ASSUME BoardInv, NEW t \in Tasks(key), ChannelGone(t) \/ DisputeGone(t)
  PROVE  EmbedInv'
<1> DEFINE r == [tasks[t] EXCEPT !.at = "done"]
<1>1. /\ Busy(t) /\ tasks[t].at = "deliver"
      /\ tasks' = [tasks EXCEPT ![t] = r] /\ UNCHANGED <<guild, board>>
  BY DEF ChannelGone, DisputeGone, At, Moves
<1>2. tasks[t] \in Working
  BY <1>1, TaskTypes DEF BoardInv
<1>3. /\ r \in Working /\ r.at = "done" /\ r.does = tasks[t].does
      /\ r.alone = tasks[t].alone /\ r.told = tasks[t].told
      /\ r.shows = tasks[t].shows
  BY <1>2 DEF Working, Places
<1> HIDE DEF r
<1>4. ASSUME r.alone PROVE r.shows = content
  BY <1>1, <1>3, <1>4 DEF BoardInv, AloneRelies, Relies
<1> QED
  BY <1>1, <1>3, <1>4, ReaderSound

\* SELECT discord_message_id, before a dispute's embed is updated.
LEMMA ReadDisputeSound ==
  ASSUME BoardInv, NEW t \in Tasks(key), ReadDispute(t)
  PROVE  EmbedInv'
<1> DEFINE at == IF row.message = 0 THEN "done" ELSE "config"
           q == [tasks[t] EXCEPT !.at = at]
           r == [q EXCEPT !.message = row.message]
<1>1. /\ Busy(t) /\ tasks[t].at = "row" /\ tasks[t].does = "close"
      /\ tasks' = [tasks EXCEPT ![t] = r] /\ UNCHANGED <<guild, board>>
  BY DEF ReadDispute, At
<1>2. tasks[t] \in Working /\ row.message \in Nat /\ at \in {"done", "config"}
  BY <1>1, TaskTypes DEF BoardInv, EmbedsTyped
<1> HIDE DEF at
<1>3. /\ r \in Working /\ r.at = at /\ r.does = "close"
      /\ r.alone = tasks[t].alone /\ r.told = tasks[t].told
      /\ r.shows = tasks[t].shows /\ r.message = row.message
  BY <1>1, <1>2 DEF Working, Places
<1> HIDE DEF r
<1>4. ASSUME r.alone PROVE r.shows = content
  BY <1>1, <1>3, <1>4 DEF BoardInv, AloneRelies, Relies
<1> QED
  BY <1>1, <1>2, <1>3, <1>4, ReaderSound DEF Disputing

\* resolve_channel_id, before a dispute's embed is posted or updated.
LEMMA ReadDisputeChannelSound ==
  ASSUME BoardInv, NEW t \in Tasks(key), ReadDisputeChannel(t)
  PROVE  EmbedInv'
<1> DEFINE at == IF config.channel \in ChannelIds THEN "deliver" ELSE "done"
           q == [tasks[t] EXCEPT !.channel = config.channel]
           r == [q EXCEPT !.at = at]
<1>1. /\ Busy(t) /\ tasks[t].at = "config" /\ IsDispute
      /\ tasks' = [tasks EXCEPT ![t] = r] /\ UNCHANGED <<guild, board>>
  BY DEF ReadDisputeChannel, At
<1>2. tasks[t] \in Working /\ config.channel \in Nat /\ at \in {"deliver", "done"}
  BY <1>1, TaskTypes DEF BoardInv, GuildInv, SetupTypeOK
<1> HIDE DEF at
<1>3. /\ r \in Working /\ r.at = at /\ r.does = tasks[t].does
      /\ r.alone = tasks[t].alone /\ r.told = tasks[t].told
      /\ r.shows = tasks[t].shows /\ r.message = tasks[t].message
  BY <1>1, <1>2 DEF Working, Places
<1> HIDE DEF r
<1>4. r.does \in {"open", "close"}
  BY <1>1, <1>3 DEF BoardInv, JobsFit, Disputing
<1>5. ASSUME r.alone
      PROVE  /\ r.shows = content
             /\ r.does = "close" => r.message = row.message
             /\ r.does = "open" => r.message = 0
  <2>1. Relies(t)
    BY <1>1, <1>3, <1>5 DEF BoardInv, AloneRelies
  <2> QED
    BY <1>1, <1>3, <1>4, <2>1 DEF Relies
<1> QED
  BY <1>1, <1>2, <1>3, <1>4, <1>5, ReaderSound DEF Disputing

\* update_dynamic_embed_content: the new content is in the row before it is read.
LEMMA WriteContentSound ==
  ASSUME BoardInv, NEW t \in Tasks(key), WriteContent(t)
  PROVE  EmbedInv'
<1> DEFINE r == [tasks[t] EXCEPT !.at = "row"]
<1>1. /\ Busy(t) /\ tasks[t].at = "write" /\ content' = content + 1
      /\ tasks' = [tasks EXCEPT ![t] = r]
      /\ UNCHANGED <<key, channels, row, messages, sent, updater>>
  BY DEF WriteContent, At, Moves, guild
<1>2. tasks[t] \in Working /\ EmbedsTyped
  BY <1>1, TaskTypes DEF BoardInv
<1>3. /\ r \in Working /\ r.at = "row" /\ r.does = tasks[t].does
      /\ r.alone = tasks[t].alone /\ r.told = tasks[t].told
  BY <1>2 DEF Working, Places
<1> HIDE DEF r
<1>4. tasks' \in Coroutines /\ Turns(t, r)
  BY <1>1, <1>2, <1>3, TaskReplaced
<1>5. EmbedsTyped' /\ IdsUnique'
  BY <1>1, <1>2, <1>4 DEF BoardInv, EmbedsTyped, IdsUnique, Coroutines
<1>6. r.does = "edit" /\ ~ r.told
  BY <1>1, <1>3 DEF BoardInv, JobsFit
<1>7. ASSUME r.alone PROVE Relies(t)'
  <2>1. \A x \in Tasks(key) \ {t} : ~ Busy(x)
    BY <1>1, <1>3, <1>7 DEF BoardInv, AloneRelies, Relies
  <2> QED
    BY <1>1, <1>3, <1>4, <1>6, <2>1 DEF Relies, Busy, Turns
<1>8. JobsFit' /\ AloneRelies'
  BY <1>1, <1>3, <1>4, <1>6, <1>7, TurnSound DEF Disputing
<1> QED
  BY <1>5, <1>8 DEF EmbedInv

\* The row is inserted or re-targeted, and then read again.
LEMMA RowWrittenSound ==
  ASSUME BoardInv, NEW t \in Tasks(key), Busy(t), tasks[t].at \in {"insert", "retarget"},
         row' = [channel |-> tasks[t].channel, message |-> 0], Moves(t, "reread"),
         UNCHANGED <<key, channels, content, messages, sent, updater>>
  PROVE  EmbedInv'
<1> DEFINE r == [tasks[t] EXCEPT !.at = "reread"]
<1>1. tasks' = [tasks EXCEPT ![t] = r]
  BY DEF Moves
<1>2. tasks[t] \in Working /\ EmbedsTyped
  BY TaskTypes DEF BoardInv
<1>3. /\ r \in Working /\ r.at = "reread" /\ r.does = tasks[t].does
      /\ r.alone = tasks[t].alone /\ r.told = tasks[t].told /\ r.shows = tasks[t].shows
  BY <1>2 DEF Working, Places
<1> HIDE DEF r
<1>4. tasks' \in Coroutines /\ Turns(t, r)
  BY <1>1, <1>2, <1>3, TaskReplaced
<1>5. EmbedsTyped' /\ IdsUnique'
  <2>1. row' \in [channel : Nat, message : Nat]
    BY <1>2 DEF Working
  <2> QED
    BY <1>2, <1>4, <2>1 DEF BoardInv, EmbedsTyped, IdsUnique, Coroutines
<1>6. r.does \notin Disputing /\ ~ r.told
  BY <1>3 DEF BoardInv, JobsFit
<1>7. ASSUME r.alone PROVE Relies(t)'
  <2>1. Relies(t)
    BY <1>3, <1>7 DEF BoardInv, AloneRelies
  <2> QED
    BY <1>3, <1>4, <1>6, <2>1 DEF Relies, Busy, Turns, Disputing
<1>8. JobsFit' /\ AloneRelies'
  BY <1>3, <1>4, <1>6, <1>7, TurnSound
<1> QED
  BY <1>5, <1>8 DEF EmbedInv

\* A coroutine is over.
LEMMA TaskOverSound ==
  ASSUME BoardInv, NEW t \in Tasks(key), Busy(t), tasks' = [tasks EXCEPT ![t] = NoTask],
         UNCHANGED <<key, row, content, messages, sent, updater>>
  PROVE  EmbedInv'
<1>1. EmbedsTyped
  BY DEF BoardInv
<1>2. tasks' \in Coroutines /\ Turns(t, NoTask)
  BY <1>1, TaskReplaced
<1>3. EmbedsTyped' /\ IdsUnique'
  BY <1>1, <1>2 DEF BoardInv, EmbedsTyped, IdsUnique, Coroutines
<1> QED
  BY <1>2, <1>3, TaskEndsSound DEF EmbedInv

\* The two ways to write the row; an insert that comes second fails.
LEMMA RowStepsSound ==
  ASSUME BoardInv, NEW t \in Tasks(key), Retarget(t) \/ InsertRow(t)
  PROVE  EmbedInv'
<1>1. CASE Retarget(t)
  <2>1. /\ Busy(t) /\ tasks[t].at = "retarget" /\ Moves(t, "reread")
        /\ row' = [channel |-> tasks[t].channel, message |-> 0]
        /\ UNCHANGED <<key, channels, content, messages, sent, updater>>
    BY <1>1 DEF Retarget, At, guild
  <2> QED
    BY <2>1, RowWrittenSound
<1>2. CASE InsertRow(t)
  <2>1. /\ Busy(t) /\ tasks[t].at = "insert"
        /\ UNCHANGED <<key, channels, content, messages, sent, updater>>
    BY <1>2 DEF InsertRow, At, guild
  <2>2. CASE row = NoRow
    BY <1>2, <2>1, <2>2, RowWrittenSound DEF InsertRow
  <2>3. CASE row # NoRow
    BY <1>2, <2>1, <2>3, TaskOverSound DEF InsertRow
  <2> QED
    BY <2>2, <2>3
<1> QED
  BY <1>1, <1>2

\* A coroutine that was told of success: the row names a message with its content.
LEMMA ToldSound ==
  ASSUME BoardInv, NEW t \in Tasks(key), Busy(t), tasks[t].at \in {"deliver", "persist"},
         tasks' = [tasks EXCEPT ![t].at = "done", ![t].told = TRUE],
         UNCHANGED <<key, content, sent, updater>>,
         tasks[t].alone => Shown(tasks[t].channel)'
  PROVE  tasks' \in Coroutines /\ JobsFit' /\ AloneRelies'
<1> DEFINE q == [tasks[t] EXCEPT !.at = "done"]
           r == [q EXCEPT !.told = TRUE]
<1>1. tasks' = [tasks EXCEPT ![t] = r]
  OBVIOUS
<1>2. tasks[t] \in Working /\ EmbedsTyped
  BY TaskTypes DEF BoardInv
<1>3. /\ r \in Working /\ r.at = "done" /\ r.does = tasks[t].does
      /\ r.alone = tasks[t].alone /\ r.told /\ r.channel = tasks[t].channel
      /\ r.shows = tasks[t].shows
  BY <1>2 DEF Working, Places
<1> HIDE DEF r
<1>4. tasks' \in Coroutines /\ Turns(t, r)
  BY <1>1, <1>2, <1>3, TaskReplaced
<1>5. ASSUME r.alone PROVE Relies(t)'
  <2>1. Relies(t)
    BY <1>3, <1>5 DEF BoardInv, AloneRelies
  <2>2. r.shows = content
    BY <1>3, <2>1 DEF Relies
  <2>3. tasks'[t] = r /\ \A x \in Tasks(key) \ {t} : tasks'[x] = NoTask
    BY <1>4, <2>1 DEF Turns, Relies, Busy
  <2> QED
    BY <1>3, <1>5, <2>2, <2>3 DEF Relies, Busy
<1> QED
  BY <1>3, <1>4, <1>5, TurnSound

\* fetch_message and edit: the row's message gets the content.
LEMMA EditMessageSound ==
  ASSUME BoardInv, NEW t \in Tasks(key), EditMessage(t)
  PROVE  EmbedInv'
<1> DEFINE id == tasks[t].message
           shows == tasks[t].shows
           Edited(m) == IF m.id = id THEN [m EXCEPT !.shows = shows] ELSE m
<1>1. /\ Busy(t) /\ tasks[t].at = "deliver"
      /\ id # 0 /\ tasks[t].channel \in ChannelIds
      /\ \E m \in messages : m.id = id /\ m.channel = tasks[t].channel
      /\ messages' = {Edited(m) : m \in messages}
      /\ tasks' = [tasks EXCEPT ![t].at = "done", ![t].told = TRUE]
      /\ UNCHANGED <<key, channels, row, content, sent, updater>>
  BY DEF EditMessage, At, Edits, Found, guild
<1>2. tasks[t] \in Working /\ EmbedsTyped /\ shows \in Nat
  BY <1>1, TaskTypes DEF BoardInv, Working
<1> HIDE DEF id, shows
<1>3. ASSUME NEW m \in messages
      PROVE  /\ Edited(m) \in [id : Nat, channel : Nat, shows : Nat]
             /\ Edited(m).id = m.id /\ Edited(m).channel = m.channel
             /\ m.id = id => Edited(m).shows = shows
  BY <1>2 DEF EmbedsTyped
<1> HIDE DEF Edited
<1>4. messages' \subseteq [id : Nat, channel : Nat, shows : Nat]
  BY <1>1, <1>3
<1>5. IdsUnique'
  <2>1. \A m \in messages' : m.id <= sent
    BY <1>1, <1>3 DEF BoardInv, IdsUnique
  <2>2. \A m, n \in messages' : m.id = n.id => m = n
    BY <1>1, <1>3 DEF BoardInv, IdsUnique
  <2> QED
    BY <1>1, <2>1, <2>2 DEF IdsUnique
<1>6. ASSUME tasks[t].alone PROVE Shown(tasks[t].channel)'
  <2>1. Relies(t)
    BY <1>1, <1>6 DEF BoardInv, AloneRelies
  <2>2. shows = content /\ id = row.message
    BY <1>1, <2>1 DEF Relies, id, shows
  <2>3. tasks'[t].channel = tasks[t].channel
    BY <1>1, <1>2 DEF Working, EmbedsTyped, Coroutines
  <2>4. \A m \in messages' : m.id = row.message => m.shows = content
    BY <1>1, <1>3, <2>2
  <2>5. \E m \in messages' : m.id = row.message /\ m.channel = tasks[t].channel
    BY <1>1, <1>3, <2>2
  <2> QED
    BY <1>1, <2>3, <2>4, <2>5 DEF Shown, Found, ChannelIds
<1>7. tasks' \in Coroutines /\ JobsFit' /\ AloneRelies'
  BY <1>1, <1>6, ToldSound
<1>8. EmbedsTyped'
  BY <1>1, <1>2, <1>4, <1>7 DEF EmbedsTyped, Coroutines
<1> QED
  BY <1>5, <1>7, <1>8 DEF EmbedInv

\* A channel that the bot may write in is there.
LEMMA PostedWhereItExists == \A id : CanPost(id) => id \in ChannelIds
BY DEF CanPost, ChannelIds

\* channel.send: the message is there, under an id of its own.
LEMMA SendSound ==
  ASSUME BoardInv, NEW t \in Tasks(key), Busy(t), tasks[t].at = "deliver", Send(t)
  PROVE  EmbedInv'
<1> DEFINE channel == tasks[t].channel
           shows == tasks[t].shows
           new == [id |-> sent + 1, channel |-> channel, shows |-> shows]
           q == [tasks[t] EXCEPT !.at = "persist"]
           r == [q EXCEPT !.message = sent + 1]
<1>1. /\ channel \in ChannelIds /\ sent' = sent + 1
      /\ messages' = messages \cup {new}
      /\ tasks' = [tasks EXCEPT ![t] = r]
      /\ UNCHANGED <<key, channels, row, content, updater>>
  BY PostedWhereItExists DEF Send, guild
<1>2. tasks[t] \in Working /\ EmbedsTyped /\ sent \in Nat /\ channel \in Nat /\ shows \in Nat
  BY TaskTypes DEF BoardInv, Working, EmbedsTyped
<1>3. /\ r \in Working /\ r.at = "persist" /\ r.does = tasks[t].does
      /\ r.alone = tasks[t].alone /\ r.told = tasks[t].told
      /\ r.channel = channel /\ r.shows = shows /\ r.message = sent + 1
  <2>1. /\ q \in Working /\ q.at = "persist" /\ q.does = tasks[t].does
        /\ q.alone = tasks[t].alone /\ q.told = tasks[t].told
        /\ q.channel = channel /\ q.shows = shows
    BY <1>2 DEF Working, Places
  <2>2. sent + 1 \in Nat
    BY <1>2
  <2> HIDE DEF q
  <2> QED
    BY <2>1, <2>2 DEF Working
<1> HIDE DEF r
<1>4. tasks' \in Coroutines /\ Turns(t, r)
  BY <1>1, <1>2, <1>3, TaskReplaced
<1> HIDE DEF channel, shows
<1>5. /\ new \in [id : Nat, channel : Nat, shows : Nat]
      /\ new.id = sent + 1 /\ new.channel = channel /\ new.shows = shows
  BY <1>2
<1> HIDE DEF new
<1>6. EmbedsTyped'
  BY <1>1, <1>2, <1>4, <1>5 DEF EmbedsTyped, Coroutines
<1>7. IdsUnique'
  <2>1. \A m \in messages : m.id \in Nat /\ m.id <= sent
    BY <1>2 DEF BoardInv, IdsUnique, EmbedsTyped
  <2>2. \A m \in messages : m.id <= sent + 1 /\ m.id # sent + 1
    BY <1>2, <2>1
  <2>3. \A m \in messages' : m.id <= sent + 1
    BY <1>1, <1>2, <1>5, <2>2
  <2>4. \A m, n \in messages' : m.id = n.id => m = n
    BY <1>1, <1>5, <2>2 DEF BoardInv, IdsUnique
  <2> QED
    BY <1>1, <2>3, <2>4 DEF IdsUnique
<1>8. ~ r.told
  BY <1>3 DEF BoardInv, JobsFit
<1>9. ASSUME r.alone PROVE Relies(t)'
  <2>1. Relies(t)
    BY <1>3, <1>9 DEF BoardInv, AloneRelies
  <2>2. shows = content
    BY <2>1 DEF Relies, shows
  <2>3. tasks'[t] = r /\ \A x \in Tasks(key) \ {t} : tasks'[x] = NoTask
    BY <1>4, <2>1 DEF Turns, Relies, Busy
  <2>4. InFlight(t)'
    BY <1>1, <1>3, <1>5, <2>2, <2>3 DEF InFlight, ChannelIds
  <2> QED
    BY <1>1, <1>3, <1>8, <2>2, <2>3, <2>4 DEF Relies, Busy
<1>10. JobsFit' /\ AloneRelies'
  BY <1>1, <1>3, <1>4, <1>8, <1>9, TurnSound
<1> QED
  BY <1>6, <1>7, <1>10 DEF EmbedInv

\* The id is persisted: the row names the message that was sent.
LEMMA PersistMessageIdSound ==
  ASSUME BoardInv, NEW t \in Tasks(key), PersistMessageId(t)
  PROVE  EmbedInv'
<1>1. /\ Busy(t) /\ tasks[t].at = "persist"
      /\ row' = [row EXCEPT !.message = tasks[t].message]
      /\ tasks' = [tasks EXCEPT ![t].at = "done", ![t].told = TRUE]
      /\ UNCHANGED <<key, channels, content, messages, sent, updater>>
  BY DEF PersistMessageId, At, Persisted, guild
<1>2. tasks[t] \in Working /\ EmbedsTyped
  BY <1>1, TaskTypes DEF BoardInv
<1>3. row' \in [channel : Nat, message : Nat] /\ row'.message = tasks[t].message
  BY <1>1, <1>2 DEF EmbedsTyped, Working
<1>4. ASSUME tasks[t].alone PROVE Shown(tasks[t].channel)'
  <2>1. InFlight(t)
    BY <1>1, <1>4 DEF BoardInv, AloneRelies, Relies
  <2>2. tasks'[t].channel = tasks[t].channel
    BY <1>1, <1>2 DEF Working, EmbedsTyped, Coroutines
  <2>3. PICK m \in messages : /\ m.id = tasks[t].message /\ m.channel = tasks[t].channel
                              /\ m.shows = content
    BY <2>1 DEF InFlight
  <2>4. \A n \in messages : n.id = tasks[t].message => n.shows = content
    BY <2>3 DEF BoardInv, IdsUnique
  <2> QED
    BY <1>1, <1>3, <2>1, <2>2, <2>3, <2>4 DEF Shown, Found, ChannelIds, InFlight
<1>5. tasks' \in Coroutines /\ JobsFit' /\ AloneRelies'
  BY <1>1, <1>4, ToldSound
<1>6. EmbedsTyped' /\ IdsUnique'
  BY <1>1, <1>2, <1>3, <1>5 DEF BoardInv, EmbedsTyped, Coroutines, IdsUnique
<1> QED
  BY <1>5, <1>6 DEF EmbedInv

-----------------------------------------------------------------------------
(* All the steps together.                                                 *)

\* A coroutine's own steps.
LEMMA TaskStepSound ==
  ASSUME BoardInv, NEW t \in Tasks(key), TaskStep(t) \/ FailTask(t)
  PROVE  EmbedInv'
<1>1. ASSUME SendMessage(t) \/ PostDispute(t) PROVE EmbedInv'
  BY <1>1, SendSound DEF SendMessage, PostDispute, At
<1>2. ASSUME EndTask(t) PROVE EmbedInv'
  <2>1. /\ Busy(t) /\ tasks' = [tasks EXCEPT ![t] = NoTask]
        /\ UNCHANGED <<key, row, content, messages, sent, updater>>
    BY <1>2 DEF EndTask, At, guild, board
  <2> QED
    BY <2>1, TaskOverSound
<1>3. ASSUME FailTask(t) PROVE EmbedInv'
  <2>1. /\ Busy(t) /\ tasks' = [tasks EXCEPT ![t] = NoTask]
        /\ UNCHANGED <<key, row, content, messages, sent, updater>>
    BY <1>3 DEF FailTask, guild
  <2> QED
    BY <2>1, TaskOverSound
<1> QED
  BY <1>1, <1>2, <1>3, ReadConfigSound, WriteContentSound, ReadRowSound, ReadRowToEditSound,
     ReadRowToTickSound, RowStepsSound, ReadAgainSound, EditMessageSound, GoneSound,
     PersistMessageIdSound, ReadDisputeSound, ReadDisputeChannelSound DEF TaskStep

\* The callers that start a coroutine.
LEMMA StartsSound ==
  ASSUME BoardInv, NEW t \in Tasks(key),
         \/ OnReadyReconciles(t) \/ SubmitGuide(t) \/ Tick(t)
         \/ DisputeOpen(t) \/ DisputeClose(t)
         \/ \E a \in Admins(key) : SetupReconciles(a, t)
  PROVE  EmbedInv'
<1>1. /\ UNCHANGED <<key, row, messages, sent, updater>>
      /\ EmbedsTyped /\ content \in Nat /\ updater \in Nat
  BY DEF OnReadyReconciles, SubmitGuide, Tick, DisputeOpen, DisputeClose, DisputeCommand,
         SetupReconciles, EndSetup, guild, BoardInv, EmbedsTyped
<1>2. tasks' \in Coroutines /\ JobsFit' /\ AloneRelies' /\ content' \in Nat
  <2>1. CASE OnReadyReconciles(t) \/ \E a \in Admins(key) : SetupReconciles(a, t)
    <3>1. Start(t, "reconcile", "config", 0, content) /\ IsGuide /\ content' = content
      BY <2>1 DEF OnReadyReconciles, SetupReconciles
    <3>2. "reconcile" \in Jobs /\ ("reconcile" \in Disputing <=> IsDispute)
      BY <3>1 DEF Jobs, Disputing, IsGuide, IsDispute
    <3> QED
      BY <1>1, <3>1, <3>2, StartSound
  <2>2. CASE SubmitGuide(t)
    <3>1. Start(t, "edit", "write", 0, content) /\ IsGuide /\ content' = content
      BY <2>2 DEF SubmitGuide
    <3>2. "edit" \in Jobs /\ ("edit" \in Disputing <=> IsDispute)
      BY <3>1 DEF Jobs, Disputing, IsGuide, IsDispute
    <3> QED
      BY <1>1, <3>1, <3>2, StartSound
  <2>3. CASE Tick(t)
    <3>1. /\ Start(t, "tick", "row", updater, content) /\ updater \in ChannelIds
          /\ content' = content
      BY <2>3 DEF Tick, RosterSnapshot
    <3>2. updater # 0
      BY <3>1 DEF BoardInv, GuildInv, SetupTypeOK, ChannelIds, Ids
    <3>3. "tick" \in Jobs /\ ("tick" \in Disputing <=> IsDispute)
      BY <3>2 DEF BoardInv, JobsFit, Jobs, Disputing, IsRoster, IsDispute
    <3> QED
      BY <1>1, <3>1, <3>3, StartSound
  <2>4. CASE DisputeOpen(t)
    <3>1. Start(t, "open", "config", 0, 1) /\ IsDispute /\ content' = 1
      BY <2>4 DEF DisputeOpen, DisputeCommand
    <3>2. "open" \in Jobs /\ ("open" \in Disputing <=> IsDispute)
      BY <3>1 DEF Jobs, Disputing
    <3> QED
      BY <1>1, <3>1, <3>2, StartSound
  <2>5. CASE DisputeClose(t)
    <3>1. Start(t, "close", "row", 0, 2) /\ IsDispute /\ content' = 2
      BY <2>5 DEF DisputeClose, DisputeCommand
    <3>2. "close" \in Jobs /\ ("close" \in Disputing <=> IsDispute)
      BY <3>1 DEF Jobs, Disputing
    <3> QED
      BY <1>1, <3>1, <3>2, StartSound
  <2> QED
    BY <2>1, <2>2, <2>3, <2>4, <2>5
<1>3. EmbedsTyped' /\ IdsUnique'
  BY <1>1, <1>2 DEF BoardInv, EmbedsTyped, Coroutines, IdsUnique
<1> QED
  BY <1>2, <1>3 DEF EmbedInv

\* What disturbs the coroutines at work.
LEMMA DisturbanceSound ==
  ASSUME BoardInv, tasks' = Disturbed, content' \in Nat, messages' \subseteq messages,
         UNCHANGED <<key, row, sent, updater>>
  PROVE  EmbedInv'
<1>1. EmbedsTyped
  BY DEF BoardInv
<1>2. tasks' \in Coroutines /\ JobsFit' /\ AloneRelies'
  BY DisturbedSound
<1>3. EmbedsTyped' /\ IdsUnique'
  BY <1>1, <1>2 DEF BoardInv, EmbedsTyped, Coroutines, IdsUnique
<1> QED
  BY <1>2, <1>3 DEF EmbedInv

\* Steps of /admin-setup that change nothing a coroutine relies on.
LEMMA SetupBesideTasks ==
  ASSUME BoardInv, NEW a \in Admins(key), SetupStep(a) \/ EndSetup(a),
         UNCHANGED <<board, tasks>>
  PROVE  EmbedInv'
<1>1. UNCHANGED <<key, row, content, messages, sent, tasks, updater>> /\ channels \subseteq channels'
  BY DEF SetupStep, EndSetup, StartSetup, FindCategory, CreateCategory, FindChannel,
         CreateChannel, RefuseChannel, PersistRoleIds, FailSetup, board
<1>2. EmbedsTyped'
  BY <1>1 DEF BoardInv, EmbedsTyped, Coroutines
<1>3. IdsUnique' /\ JobsFit' /\ AloneRelies'
  BY <1>1, RelianceKept DEF BoardInv, JobsFit
<1> QED
  BY <1>2, <1>3 DEF EmbedInv

\* Every step keeps the embeds' invariant.
LEMMA BoardStepSound ==
  ASSUME BoardInv, [Next]_vars
  PROVE  BoardInv'
<1>1. GuildInv'
  BY GuildStepSound DEF BoardInv
<1>2. content \in Nat /\ EmbedsTyped
  BY DEF BoardInv, EmbedsTyped
<1>3. ASSUME NEW a \in Admins(key), SetupStep(a) \/ EndSetup(a), UNCHANGED <<board, tasks>>
      PROVE  EmbedInv'
  BY <1>3, SetupBesideTasks
<1>4. ASSUME NEW a \in Admins(key), PersistChannelId(a), tasks' = Disturbed, UNCHANGED board
      PROVE  EmbedInv'
  <2>1. UNCHANGED <<key, row, content, messages, sent, updater>>
    BY <1>4 DEF PersistChannelId, board
  <2> QED
    BY <1>2, <1>4, <2>1, DisturbanceSound
<1>5. ASSUME NEW c \in channels, DeleteChannel(c), tasks' = Disturbed, UNCHANGED board
      PROVE  EmbedInv'
  <2>1. UNCHANGED <<key, row, content, messages, sent, updater>>
    BY <1>5 DEF DeleteChannel, board
  <2> QED
    BY <1>2, <1>5, <2>1, DisturbanceSound
<1>6. ASSUME NEW m \in messages, DeleteMessage(m) PROVE EmbedInv'
  <2>1. /\ UNCHANGED <<key, row, content, sent, updater>> /\ tasks' = Disturbed
        /\ messages' \subseteq messages
    BY <1>6 DEF DeleteMessage, guild
  <2> QED
    BY <1>2, <2>1, DisturbanceSound
<1>7. ASSUME ChangeRoster PROVE EmbedInv'
  <2>1. /\ UNCHANGED <<key, row, messages, sent, updater>> /\ tasks' = Disturbed
        /\ content' \in Nat
    BY <1>2, <1>7 DEF ChangeRoster, guild
  <2> QED
    BY <2>1, DisturbanceSound
<1>8. ASSUME OnReadyStartsUpdater PROVE EmbedInv'
  <2>1. /\ UNCHANGED <<key, channels, row, content, messages, sent, tasks>>
        /\ IsRoster /\ updater' = config.channel
    BY <1>8 DEF OnReadyStartsUpdater, guild
  <2>2. updater' \in Nat
    BY <2>1 DEF BoardInv, GuildInv, SetupTypeOK
  <2>3. EmbedsTyped'
    BY <1>2, <2>1, <2>2 DEF EmbedsTyped, Coroutines
  <2>4. IdsUnique' /\ JobsFit' /\ AloneRelies'
    BY <2>1, RelianceKept
  <2> QED
    BY <2>3, <2>4 DEF EmbedInv
<1>9. ASSUME Crash PROVE EmbedInv'
  <2>1. /\ tasks' = [t \in Tasks(key) |-> NoTask] /\ updater' = 0
        /\ UNCHANGED <<key, row, content, messages, sent>>
    BY <1>9 DEF Crash
  <2>2. EmbedsTyped' /\ IdsUnique'
    BY <1>2, <2>1 DEF BoardInv, EmbedsTyped, Coroutines, IdsUnique
  <2>3. JobsFit' /\ AloneRelies'
    BY <2>1 DEF JobsFit, AloneRelies, Busy
  <2> QED
    BY <2>2, <2>3 DEF EmbedInv
<1>10. ASSUME UNCHANGED vars PROVE EmbedInv'
  <2>1. UNCHANGED <<key, channels, row, content, messages, sent, tasks, updater>>
    BY <1>10 DEF vars, guild, board
  <2>2. EmbedsTyped'
    BY <1>2, <2>1 DEF EmbedsTyped, Coroutines
  <2>3. IdsUnique' /\ JobsFit' /\ AloneRelies'
    BY <2>1, RelianceKept DEF BoardInv, JobsFit
  <2> QED
    BY <2>2, <2>3 DEF EmbedInv
<1>11. ASSUME NEW t \in Tasks(key), TaskStep(t) \/ FailTask(t) PROVE EmbedInv'
  BY <1>11, TaskStepSound
<1>12. ASSUME NEW t \in Tasks(key),
              \/ OnReadyReconciles(t) \/ SubmitGuide(t) \/ Tick(t)
              \/ DisputeOpen(t) \/ DisputeClose(t)
              \/ \E a \in Admins(key) : SetupReconciles(a, t)
       PROVE  EmbedInv'
  BY <1>12, StartsSound
<1>13. EmbedInv'
  BY <1>3, <1>4, <1>5, <1>6, <1>7, <1>8, <1>9, <1>10, <1>11, <1>12 DEF Next
<1> QED
  BY <1>1, <1>13 DEF BoardInv, EmbedInv

\* No row, no message and no coroutine.
LEMMA BoardInitSound == ASSUME BoardInit PROVE BoardInv
<1>1. GuildInv
  BY GuildInitSound
<1>2. EmbedsTyped
  BY DEF BoardInit, EmbedsTyped, NoRow, Coroutines
<1>3. IdsUnique /\ JobsFit /\ AloneRelies
  BY DEF BoardInit, IdsUnique, JobsFit, AloneRelies, Busy
<1> QED
  BY <1>1, <1>2, <1>3 DEF BoardInv

\* A guide, the roster or a dispute: whatever messages were deleted, channels moved,
\* calls failed and restarts came before, a coroutine that was alone and reported
\* success leaves the row naming a message that exists, in the right channel, with the
\* current content.
THEOREM EmbedsDelivered == Spec => []DeliveredIsShown
<1>1. BoardInit => BoardInv
  BY BoardInitSound
<1>2. BoardInv /\ [Next]_vars => BoardInv'
  BY BoardStepSound
<1>3. BoardInv => DeliveredIsShown
  BY DEF BoardInv, AloneRelies, Relies, DeliveredIsShown, At
<1> QED
  BY <1>1, <1>2, <1>3, PTL DEF Spec

-----------------------------------------------------------------------------
(* The messages of a channel and what accounts for them.                   *)

\* The ids of the messages in channel c.
Posted(c) == {m.id : m \in {x \in messages : x.channel = c}}

\* r has sent its message and is about to persist the id.
Persisting(r) == r # NoTask /\ r.at = "persist"

\* r has decided to deliver into c.
BoundFor(r, c) ==
  r # NoTask /\ r.does # "close" /\ r.at \in {"reread", "deliver"} /\ r.channel = c

\* r may still decide to.
MayChoose(r, c) ==
  /\ r # NoTask /\ r.does # "close"
  /\ r.at \in {"config", "write", "row", "retarget"} \/ (r.at = "insert" /\ r.channel = c)

\* r may send one more message into c, or make the row name one that is not in c,
\* so that somebody else has to.
MayAdd(r, c, posted) ==
  MayChoose(r, c) \/ BoundFor(r, c) \/ (Persisting(r) /\ r.message \notin posted)

\* r will find the row's message when it comes to it.
WillFind(r, c, posted) ==
  /\ r.does # "open" /\ r.at \notin {"persist", "retarget"}
  /\ r.at = "row" /\ r.does = "reconcile" => r.channel \in {0, c}
  /\ r.at = "deliver" => r.message \in posted

Holders(c) == {t \in Tasks(key) : Persisting(tasks[t]) /\ tasks[t].message \in Posted(c)}
Committed(c) == {t \in Tasks(key) : BoundFor(tasks[t], c)}
Adders(c) == {t \in Tasks(key) : MayAdd(tasks[t], c, Posted(c))}

\* A guide's row follows its channel; the others' have nothing to do with it.
Matched(c) == IsGuide => row.channel = c

\* The row names a message of c, or will soon.
Kept(c) == row.message \in Posted(c) \/ Holders(c) # {}

\* Nobody will send: the row names a message of c and everybody will find it.
Settled(c) ==
  /\ Matched(c) /\ row.message \in Posted(c) /\ Holders(c) = {}
  /\ \A t \in Adders(c) : WillFind(tasks[t], c, Posted(c))

\* n messages with a adders, k of them committed, when most are accounted for.
Within(n, a, k, most, settled, matched, kept) ==
  /\ n <= most /\ n + a <= most + 1
  /\ ~ settled => n + a <= most
  /\ ~ kept => n + 1 <= most
  /\ ~ matched => n + k + 1 <= most

\* One message is the embed; a lost id and an overlap account for one more each.
Accounted(c) ==
  Within(Cardinality(Posted(c)), Cardinality(Adders(c)), Cardinality(Committed(c)),
         1 + lost + overlaps, Settled(c), Matched(c), Kept(c))

AllAccounted == ~ overlapped => \A c \in ChannelIds : Accounted(c)

-----------------------------------------------------------------------------
(* What the account rests on.                                              *)

Workers == {t \in Tasks(key) : Busy(t)}

\* Coroutines overlap one start at a time.
Counted ==
  /\ IsFiniteSet(messages) /\ lost \in Nat /\ overlaps \in Nat
  /\ IsFiniteSet(Workers) /\ Cardinality(Workers) <= 1 + overlaps

\* What the guild has and what is configured is never ahead of the ids given out.
GuildAged ==
  /\ config.channel < nextId
  /\ \A c \in ChannelIds : c < nextId
  /\ \A a \in Admins(key) : setups[a].at = "persist" => setups[a].channel < nextId

\* A command that is about to persist a channel has seen the only one there is.
PersistsTheOne ==
  ~ overlapped =>
    \A a \in Admins(key) : setups[a].at = "persist" => ChannelIds \subseteq {setups[a].channel}

\* Nor are the row, the messages and what the coroutines have read.
Aged ==
  /\ row.message <= sent /\ row.channel < nextId /\ updater < nextId
  /\ \A m \in messages : m.id # 0 /\ m.channel < nextId
  /\ \A t \in Tasks(key) : Busy(t) => tasks[t].message <= sent /\ tasks[t].channel < nextId

\* Nobody else is about to persist the same message.
OwnMessages ==
  \A t, x \in Tasks(key) :
    Persisting(tasks[t]) /\ Persisting(tasks[x]) /\ tasks[t].message = tasks[x].message => t = x

\* A channel that exists and is written down anywhere is the configured one.
ConfigFollows ==
  IsGuide /\ ~ overlapped =>
    /\ row.channel \in ChannelIds => row.channel = config.channel
    /\ \A t \in Tasks(key) :
         Busy(t) /\ tasks[t].channel \in ChannelIds => tasks[t].channel = config.channel

\* Before a guide's row has a channel there is nothing to deliver or to edit.
RowFirst ==
  /\ IsGuide /\ row.channel = 0 => row.message = 0
  /\ \A t \in Tasks(key) : Busy(t) /\ IsGuide =>
       /\ row.channel = 0 =>
            tasks[t].at \notin {"reread", "deliver", "persist"} /\ tasks[t].does # "edit"
       /\ tasks[t].at \in {"retarget", "insert"} => tasks[t].channel # 0
  /\ \A t \in Tasks(key) : Busy(t) =>
       /\ tasks[t].does = "reconcile" => IsGuide
       /\ tasks[t].does = "tick" => ~ IsGuide

\* A dispute is opened once.
OpenedFirst ==
  IsDispute /\ content = 0 => messages = {} /\ \A t \in Tasks(key) : ~ Busy(t)

Grounds == Counted /\ Aged /\ OwnMessages /\ ConfigFollows /\ RowFirst /\ OpenedFirst

CauseInv == GuildAged /\ PersistsTheOne /\ Grounds /\ AllAccounted

-----------------------------------------------------------------------------
(* What a coroutine's step leaves of it.                                   *)

OthersStay(t) == \A x \in Tasks(key) \ {t} : tasks'[x] = tasks[x]

\* t goes on at `at', with that channel and message.
GoesOn(t, at, channel, message) ==
  /\ Busy(t) /\ tasks'[t] # NoTask /\ tasks'[t].does = tasks[t].does
  /\ tasks'[t].at = at /\ tasks'[t].channel = channel /\ tasks'[t].message = message
  /\ OthersStay(t)

Leaves(t) == Busy(t) /\ tasks'[t] = NoTask /\ OthersStay(t)

\* A step that changes at most these three fields of a coroutine, its content and
\* whether it has reported.
LEMMA GoingOn ==
  ASSUME EmbedsTyped, NEW t \in Tasks(key), Busy(t), NEW r \in Working,
         tasks' = [tasks EXCEPT ![t] = r], r.does = tasks[t].does
  PROVE  GoesOn(t, r.at, r.channel, r.message)
<1>1. Turns(t, r) /\ r # NoTask
  BY TaskReplaced, TaskTypes
<1> QED
  BY <1>1 DEF Turns, GoesOn, OthersStay

\* A coroutine that only goes on to the next place.
LEMMA MovingOn ==
  ASSUME EmbedsTyped, NEW t \in Tasks(key), Busy(t), NEW at \in Places,
         \/ tasks' = [tasks EXCEPT ![t].at = at]
         \/ tasks' = [tasks EXCEPT ![t].at = at, ![t].told = TRUE]
  PROVE  GoesOn(t, at, tasks[t].channel, tasks[t].message)
<1> DEFINE q == [tasks[t] EXCEPT !.at = at]
           r == [q EXCEPT !.told = TRUE]
<1>1. tasks[t] \in Working
  BY TaskTypes
<1>2. /\ q \in Working /\ q.does = tasks[t].does /\ q.at = at
      /\ q.channel = tasks[t].channel /\ q.message = tasks[t].message
  BY <1>1 DEF Working
<1>3. CASE tasks' = [tasks EXCEPT ![t].at = at]
  <2>1. tasks' = [tasks EXCEPT ![t] = q]
    BY <1>3
  <2> HIDE DEF q
  <2> QED
    BY <1>2, <2>1, GoingOn
<1>4. CASE tasks' = [tasks EXCEPT ![t].at = at, ![t].told = TRUE]
  <2>1. tasks' = [tasks EXCEPT ![t] = r]
    BY <1>4
  <2> HIDE DEF q
  <2>2. /\ r \in Working /\ r.does = q.does /\ r.at = q.at
        /\ r.channel = q.channel /\ r.message = q.message
    BY <1>2 DEF Working
  <2> HIDE DEF r
  <2> QED
    BY <1>2, <2>1, <2>2, GoingOn
<1> QED
  BY <1>3, <1>4

\* A coroutine that is over.
LEMMA Leaving ==
  ASSUME EmbedsTyped, NEW t \in Tasks(key), Busy(t), tasks' = [tasks EXCEPT ![t] = NoTask]
  PROVE  Leaves(t)
BY TaskReplaced DEF Turns, Leaves, OthersStay

\* The reads, in the order of the code.
LEMMA ReadConfigGoesOn ==
  ASSUME BoardInv, NEW t \in Tasks(key), ReadConfig(t)
  PROVE  GoesOn(t, "row", config.channel, tasks[t].message)
<1> DEFINE q == [tasks[t] EXCEPT !.channel = config.channel]
           r == [q EXCEPT !.at = "row"]
<1>1. Busy(t) /\ tasks' = [tasks EXCEPT ![t] = r] /\ EmbedsTyped
  BY DEF ReadConfig, At, BoardInv
<1>2. tasks[t] \in Working /\ config.channel \in Nat
  BY <1>1, TaskTypes DEF BoardInv, GuildInv, SetupTypeOK
<1>3. /\ r \in Working /\ r.at = "row" /\ r.does = tasks[t].does
      /\ r.channel = config.channel /\ r.message = tasks[t].message
  BY <1>2 DEF Working, Places
<1> HIDE DEF r
<1> QED
  BY <1>1, <1>3, GoingOn

\* Where a reconciliation goes from the row.
Onward(t) == CASE Target(t) = 0 -> "done"
               [] row.channel \notin {0, Target(t)} -> "retarget"
               [] OTHER -> AfterRow(Target(t))

\* ReadRow: the channel it decides on, with the message of the row as it is then.
LEMMA ReadRowGoesOn ==
  ASSUME BoardInv, NEW t \in Tasks(key), ReadRow(t)
  PROVE  GoesOn(t, Onward(t), Target(t), row.message)
<1> DEFINE o == [tasks[t] EXCEPT !.channel = Target(t)]
           p == [o EXCEPT !.message = row.message]
           q == [p EXCEPT !.shows = content]
           r == [q EXCEPT !.at = Onward(t)]
<1>1. Busy(t) /\ tasks' = [tasks EXCEPT ![t] = r] /\ EmbedsTyped
  <2>1. tasks' = [tasks EXCEPT ![t].channel = Target(t), ![t].message = row.message,
                               ![t].shows = content, ![t].at = Onward(t)]
    BY Zenon DEF ReadRow, Onward
  <2>2. tasks' = [tasks EXCEPT ![t] = r]
    BY <2>1
  <2> QED
    BY <2>2 DEF ReadRow, At, BoardInv
<1>2. /\ tasks[t] \in Working /\ row.channel \in Nat /\ row.message \in Nat /\ content \in Nat
      /\ Onward(t) \in Places
  BY <1>1, TaskTypes, AfterRowPlaces DEF EmbedsTyped, Onward, Places
<1>3. Target(t) \in Nat
  BY <1>2 DEF Target, Working
<1>4. /\ r \in Working /\ r.at = Onward(t) /\ r.does = tasks[t].does
      /\ r.channel = Target(t) /\ r.message = row.message
  BY <1>2, <1>3 DEF Working
<1> HIDE DEF r
<1> QED
  BY <1>1, <1>4, GoingOn

\* ReadRowToEdit: the channel and the message of the row as it is then.
LEMMA ReadRowToEditGoesOn ==
  ASSUME BoardInv, NEW t \in Tasks(key), ReadRowToEdit(t)
  PROVE  GoesOn(t, AfterRow(row.channel), row.channel, row.message)
<1> DEFINE at == AfterRow(row.channel)
           o == [tasks[t] EXCEPT !.channel = row.channel]
           p == [o EXCEPT !.message = row.message]
           q == [p EXCEPT !.shows = content]
           r == [q EXCEPT !.at = at]
<1>1. Busy(t) /\ tasks' = [tasks EXCEPT ![t] = r] /\ EmbedsTyped
  BY DEF ReadRowToEdit, At, BoardInv
<1>2. /\ tasks[t] \in Working /\ row.channel \in Nat /\ row.message \in Nat /\ content \in Nat
      /\ at \in Places
  BY <1>1, TaskTypes, AfterRowPlaces DEF EmbedsTyped, Places
<1> HIDE DEF at
<1>3. /\ r \in Working /\ r.at = at /\ r.does = tasks[t].does
      /\ r.channel = row.channel /\ r.message = row.message
  BY <1>2 DEF Working
<1> HIDE DEF r
<1>4. GoesOn(t, at, row.channel, row.message)
  BY <1>1, <1>3, GoingOn
<1> QED
  BY <1>4 DEF at

\* ReadRowToTick and ReadAgain: the message of the row as it is then.
LEMMA RowReadGoesOn ==
  ASSUME BoardInv, NEW t \in Tasks(key), ReadRowToTick(t) \/ ReadAgain(t)
  PROVE  GoesOn(t, AfterRow(tasks[t].channel), tasks[t].channel, row.message)
<1> DEFINE at == AfterRow(tasks[t].channel)
           shows == IF tasks[t].does = "tick" THEN tasks[t].shows ELSE content
           o == [tasks[t] EXCEPT !.message = row.message]
           p == [o EXCEPT !.shows = shows]
           q == [o EXCEPT !.at = at]
           r == [p EXCEPT !.at = at]
<1>1. Busy(t) /\ EmbedsTyped
  BY DEF ReadRowToTick, ReadAgain, At, BoardInv
<1>2. /\ tasks[t] \in Working /\ row.message \in Nat /\ content \in Nat /\ at \in Places
  BY <1>1, TaskTypes, AfterRowPlaces DEF EmbedsTyped, Places
<1>3. shows \in Nat
  BY <1>2 DEF Working
<1>4. tasks' = [tasks EXCEPT ![t] = q] \/ tasks' = [tasks EXCEPT ![t] = r]
  <2>1. CASE ReadRowToTick(t)
    BY <2>1 DEF ReadRowToTick
  <2>2. CASE ReadAgain(t)
    <3>1. tasks' = [tasks EXCEPT ![t].message = row.message,
                     ![t].shows = IF tasks[t].does = "tick" THEN @ ELSE content,
                     ![t].at = at]
      BY <2>2 DEF ReadAgain
    <3>2. tasks' = [tasks EXCEPT ![t].message = row.message, ![t].shows = shows, ![t].at = at]
      BY <1>1, <1>2, <3>1 DEF Working, EmbedsTyped, Coroutines
    <3> HIDE DEF at, shows
    <3> QED
      BY <3>2
  <2> QED
    BY <2>1, <2>2
<1> HIDE DEF at, shows
<1>5. /\ q \in Working /\ q.at = at /\ q.does = tasks[t].does
      /\ q.channel = tasks[t].channel /\ q.message = row.message
  BY <1>2 DEF Working
<1>6. /\ r \in Working /\ r.at = at /\ r.does = tasks[t].does
      /\ r.channel = tasks[t].channel /\ r.message = row.message
  BY <1>2, <1>3 DEF Working
<1> HIDE DEF q, r
<1>7. GoesOn(t, at, tasks[t].channel, row.message)
  <2>1. CASE tasks' = [tasks EXCEPT ![t] = q]
    BY <1>1, <1>5, <2>1, GoingOn
  <2>2. CASE tasks' = [tasks EXCEPT ![t] = r]
    BY <1>1, <1>6, <2>2, GoingOn
  <2> QED
    BY <1>4, <2>1, <2>2
<1> QED
  BY <1>7 DEF at

\* ReadDispute: a dispute without a message ends the coroutine.
LEMMA ReadDisputeGoesOn ==
  ASSUME BoardInv, NEW t \in Tasks(key), ReadDispute(t)
  PROVE  \E at \in {"done", "config"} : GoesOn(t, at, tasks[t].channel, row.message)
<1> DEFINE at == IF row.message = 0 THEN "done" ELSE "config"
           q == [tasks[t] EXCEPT !.at = at]
           r == [q EXCEPT !.message = row.message]
<1>1. Busy(t) /\ tasks' = [tasks EXCEPT ![t] = r] /\ EmbedsTyped
  BY DEF ReadDispute, At, BoardInv
<1>2. tasks[t] \in Working /\ row.message \in Nat /\ at \in {"done", "config"}
  BY <1>1, TaskTypes DEF EmbedsTyped
<1> HIDE DEF at
<1>3. /\ r \in Working /\ r.at = at /\ r.does = tasks[t].does
      /\ r.channel = tasks[t].channel /\ r.message = row.message
  BY <1>2 DEF Working, Places
<1> HIDE DEF r
<1> QED
  BY <1>1, <1>2, <1>3, GoingOn

\* ReadDisputeChannel: a channel that is gone ends the coroutine.
LEMMA ReadDisputeChannelGoesOn ==
  ASSUME BoardInv, NEW t \in Tasks(key), ReadDisputeChannel(t)
  PROVE  \E at \in {"done", "deliver"} : GoesOn(t, at, config.channel, tasks[t].message)
<1> DEFINE at == IF config.channel \in ChannelIds THEN "deliver" ELSE "done"
           q == [tasks[t] EXCEPT !.channel = config.channel]
           r == [q EXCEPT !.at = at]
<1>1. Busy(t) /\ tasks' = [tasks EXCEPT ![t] = r] /\ EmbedsTyped
  BY DEF ReadDisputeChannel, At, BoardInv
<1>2. tasks[t] \in Working /\ config.channel \in Nat /\ at \in {"done", "deliver"}
  BY <1>1, TaskTypes DEF BoardInv, GuildInv, SetupTypeOK
<1> HIDE DEF at
<1>3. /\ r \in Working /\ r.at = at /\ r.does = tasks[t].does
      /\ r.channel = config.channel /\ r.message = tasks[t].message
  BY <1>2 DEF Working, Places
<1> HIDE DEF r
<1> QED
  BY <1>1, <1>2, <1>3, GoingOn

\* The steps that write.
LEMMA WritesGoOn ==
  ASSUME BoardInv, NEW t \in Tasks(key)
  PROVE  /\ WriteContent(t) => GoesOn(t, "row", tasks[t].channel, tasks[t].message)
         /\ Retarget(t) \/ (InsertRow(t) /\ row = NoRow) =>
              GoesOn(t, "reread", tasks[t].channel, tasks[t].message)
         /\ EditMessage(t) \/ ChannelGone(t) \/ PersistMessageId(t) \/ DisputeGone(t) =>
              GoesOn(t, "done", tasks[t].channel, tasks[t].message)
         /\ EndTask(t) \/ FailTask(t) \/ (InsertRow(t) /\ row # NoRow) => Leaves(t)
<1>1. EmbedsTyped /\ {"row", "reread", "done"} \subseteq Places
  BY DEF BoardInv, Places
<1>2. ASSUME WriteContent(t) PROVE GoesOn(t, "row", tasks[t].channel, tasks[t].message)
  BY <1>1, <1>2, MovingOn DEF WriteContent, Moves, At
<1>3. ASSUME Retarget(t) \/ (InsertRow(t) /\ row = NoRow)
      PROVE  GoesOn(t, "reread", tasks[t].channel, tasks[t].message)
  BY <1>1, <1>3, MovingOn DEF Retarget, InsertRow, Moves, At
<1>4. ASSUME EditMessage(t) \/ ChannelGone(t) \/ PersistMessageId(t) \/ DisputeGone(t)
      PROVE  GoesOn(t, "done", tasks[t].channel, tasks[t].message)
  BY <1>1, <1>4, MovingOn DEF EditMessage, ChannelGone, PersistMessageId, DisputeGone, Moves, At
<1>5. ASSUME EndTask(t) \/ FailTask(t) \/ (InsertRow(t) /\ row # NoRow) PROVE Leaves(t)
  BY <1>1, <1>5, Leaving DEF EndTask, FailTask, InsertRow, At
<1> QED
  BY <1>2, <1>3, <1>4, <1>5

\* Send: the coroutine holds the new message's id, which no row has yet.
LEMMA SendGoesOn ==
  ASSUME BoardInv, NEW t \in Tasks(key), At(t, "deliver"), Send(t)
  PROVE  GoesOn(t, "persist", tasks[t].channel, sent + 1)
<1> DEFINE q == [tasks[t] EXCEPT !.at = "persist"]
           r == [q EXCEPT !.message = sent + 1]
<1>1. Busy(t) /\ tasks' = [tasks EXCEPT ![t] = r] /\ EmbedsTyped
  BY DEF Send, At, BoardInv
<1>2. tasks[t] \in Working /\ sent + 1 \in Nat
  BY <1>1, TaskTypes DEF EmbedsTyped
<1>3. /\ r \in Working /\ r.at = "persist" /\ r.does = tasks[t].does
      /\ r.channel = tasks[t].channel /\ r.message = sent + 1
  BY <1>2 DEF Working, Places
<1> HIDE DEF r
<1> QED
  BY <1>1, <1>3, GoingOn

-----------------------------------------------------------------------------
(* What any step of a coroutine may do.                                    *)

\* Where t goes, with which channel and message.
Proceeds(t) ==
  /\ tasks'[t] # NoTask /\ tasks'[t].does = tasks[t].does
  /\ tasks'[t].channel \in {tasks[t].channel, config.channel, row.channel}
  /\ \/ tasks'[t].message \in {tasks[t].message, row.message}
     \/ tasks'[t].message = sent + 1 /\ sent' = sent + 1
  /\ tasks'[t].at = "persist" =>
       tasks[t].at = "deliver" /\ tasks'[t].message = sent + 1 /\ sent' = sent + 1
  /\ tasks'[t].at = "reread" =>
       tasks[t].at \in {"retarget", "insert"} /\ row'.channel = tasks[t].channel
  /\ tasks'[t].at = "deliver" => IsDispute \/ row # NoRow
  /\ tasks'[t].at \in {"retarget", "insert"} =>
       \/ tasks'[t].channel # 0
       \/ row = NoRow /\ (tasks[t].does \in {"edit", "tick"} \/ tasks[t].at = "reread")

\* What becomes of the row and of the messages.
Writes(t) ==
  /\ \/ row' = row
     \/ /\ tasks[t].at \in {"retarget", "insert"}
        /\ row' = [channel |-> tasks[t].channel, message |-> 0]
     \/ /\ tasks[t].at = "persist"
        /\ row' = [channel |-> row.channel, message |-> tasks[t].message]
  /\ IsFiniteSet(messages) => IsFiniteSet(messages')
  /\ \A m \in messages' : \/ \E x \in messages : x.id = m.id /\ x.channel = m.channel
                          \/ m.id = sent + 1 /\ m.channel = tasks[t].channel
  /\ sent' \in {sent, sent + 1} /\ content' \in {content, content + 1}
  /\ lost' \in {lost, lost + 1}

Works(t) ==
  /\ Busy(t) /\ OthersStay(t) /\ (tasks'[t] = NoTask \/ Proceeds(t)) /\ Writes(t)
  /\ UNCHANGED <<guild, updater, overlaps>>

\* The image of a finite set.
LEMMA ImageIsFinite ==
  ASSUME NEW S, NEW f, f = [x \in S |-> f[x]], IsFiniteSet(S)
  PROVE  /\ IsFiniteSet({f[x] : x \in S})
         /\ Cardinality({f[x] : x \in S}) <= Cardinality(S)
<1>1. f \in Surjection(S, {f[x] : x \in S})
  BY DEF Surjection
<1> QED
  BY <1>1, FS_Surjection

\* A step that leaves row and messages alone.
LEMMA WritesNothing ==
  ASSUME NEW t \in Tasks(key), UNCHANGED <<row, messages, sent>>,
         content' \in {content, content + 1}, lost' \in {lost, lost + 1}
  PROVE  Writes(t)
BY DEF Writes

\* A step that says where it goes, and is not one of those that need more.
LEMMA ProceedsPlainly ==
  ASSUME NEW t \in Tasks(key), NEW at, NEW channel, NEW message, GoesOn(t, at, channel, message),
         channel \in {tasks[t].channel, config.channel, row.channel},
         message \in {tasks[t].message, row.message},
         at \in {"config", "row", "done"}
  PROVE  Proceeds(t) /\ Busy(t) /\ OthersStay(t)
BY DEF GoesOn, Proceeds

\* A row that has been read.
LEMMA ProceedsFromRow ==
  ASSUME NEW t \in Tasks(key), NEW channel, GoesOn(t, AfterRow(channel), channel, row.message),
         channel \in {tasks[t].channel, config.channel, row.channel},
         \/ channel # 0
         \/ tasks[t].does \in {"edit", "tick"} \/ tasks[t].at = "reread"
  PROVE  Proceeds(t) /\ Busy(t) /\ OthersStay(t)
<1>1. /\ AfterRow(channel) \in {"insert", "done", "deliver"}
      /\ AfterRow(channel) = "insert" => row = NoRow
      /\ AfterRow(channel) = "deliver" => row # NoRow
  BY DEF AfterRow
<1> QED
  BY <1>1 DEF GoesOn, Proceeds

\* Every step of a coroutine is one of these.
LEMMA TaskStepWorks ==
  ASSUME BoardInv, NEW t \in Tasks(key), TaskStep(t) \/ FailTask(t)
  PROVE  Works(t)
<1> USE DEF guild, board
<1>1. ASSUME ReadConfig(t) PROVE Works(t)
  <2>1. UNCHANGED <<guild, board>>
    BY <1>1 DEF ReadConfig
  <2> QED
    BY <1>1, <2>1, ReadConfigGoesOn, ProceedsPlainly, WritesNothing DEF Works
<1>2. ASSUME WriteContent(t) PROVE Works(t)
  <2>1. UNCHANGED <<guild, row, messages, sent, updater, lost, overlaps>> /\ content' = content + 1
    BY <1>2 DEF WriteContent
  <2> QED
    BY <1>2, <2>1, WritesGoOn, ProceedsPlainly, WritesNothing DEF Works
<1>3. ASSUME ReadRow(t) PROVE Works(t)
  <2>1. UNCHANGED <<guild, board>> /\ GoesOn(t, Onward(t), Target(t), row.message)
    BY <1>3, ReadRowGoesOn DEF ReadRow
  <2>2. Target(t) \in {tasks[t].channel, row.channel}
    BY DEF Target
  <2>3. CASE Target(t) = 0
    <3>1. Onward(t) = "done"
      BY <2>3 DEF Onward, Target
    <3> QED
      BY <2>1, <2>2, <3>1, ProceedsPlainly, WritesNothing DEF Works
  <2>4. CASE Target(t) # 0 /\ row.channel \notin {0, Target(t)}
    <3>1. Onward(t) = "retarget"
      BY <2>4 DEF Onward
    <3>2. Proceeds(t) /\ Busy(t) /\ OthersStay(t)
      BY <2>1, <2>2, <2>4, <3>1 DEF GoesOn, Proceeds
    <3> QED
      BY <2>1, <3>2, WritesNothing DEF Works
  <2>5. CASE Target(t) # 0 /\ row.channel \in {0, Target(t)}
    <3>1. Onward(t) = AfterRow(Target(t))
      BY <2>5 DEF Onward
    <3>2. Proceeds(t) /\ Busy(t) /\ OthersStay(t)
      BY <2>1, <2>2, <2>5, <3>1, ProceedsFromRow
    <3> QED
      BY <2>1, <3>2, WritesNothing DEF Works
  <2> QED
    BY <2>3, <2>4, <2>5
<1>4. ASSUME ReadRowToEdit(t) PROVE Works(t)
  <2>1. /\ UNCHANGED <<guild, board>> /\ tasks[t].does = "edit"
        /\ GoesOn(t, AfterRow(row.channel), row.channel, row.message)
    BY <1>4, ReadRowToEditGoesOn DEF ReadRowToEdit
  <2>2. Proceeds(t) /\ Busy(t) /\ OthersStay(t)
    BY <2>1, ProceedsFromRow
  <2> QED
    BY <2>1, <2>2, WritesNothing DEF Works
<1>5. ASSUME ReadRowToTick(t) \/ ReadAgain(t) PROVE Works(t)
  <2>1. /\ UNCHANGED <<guild, board>> /\ (tasks[t].does = "tick" \/ tasks[t].at = "reread")
        /\ GoesOn(t, AfterRow(tasks[t].channel), tasks[t].channel, row.message)
    BY <1>5, RowReadGoesOn DEF ReadRowToTick, ReadAgain, At
  <2>2. Proceeds(t) /\ Busy(t) /\ OthersStay(t)
    BY <2>1, ProceedsFromRow
  <2> QED
    BY <2>1, <2>2, WritesNothing DEF Works
<1>6. ASSUME Retarget(t) \/ (InsertRow(t) /\ row = NoRow) PROVE Works(t)
  <2>1. /\ UNCHANGED <<guild, content, messages, sent, updater, lost, overlaps>>
        /\ tasks[t].at \in {"retarget", "insert"}
        /\ row' = [channel |-> tasks[t].channel, message |-> 0]
    BY <1>6 DEF Retarget, InsertRow, At
  <2>2. Proceeds(t) /\ Busy(t) /\ OthersStay(t)
    BY <1>6, <2>1, WritesGoOn DEF GoesOn, Proceeds
  <2>3. Writes(t)
    BY <2>1 DEF Writes
  <2> QED
    BY <2>1, <2>2, <2>3 DEF Works
<1>7. ASSUME EditMessage(t) PROVE Works(t)
  <2> DEFINE Edited(m) == IF m.id = tasks[t].message THEN [m EXCEPT !.shows = tasks[t].shows] ELSE m
  <2>1. /\ messages' = {Edited(m) : m \in messages}
        /\ UNCHANGED <<guild, row, content, sent, updater, lost, overlaps>>
    BY <1>7 DEF EditMessage
  <2>2. \A m \in messages : Edited(m).id = m.id /\ Edited(m).channel = m.channel
    BY DEF BoardInv, EmbedsTyped
  <2>3. IsFiniteSet(messages) => IsFiniteSet({Edited(m) : m \in messages})
    <3> DEFINE f == [m \in messages |-> Edited(m)]
    <3>1. {Edited(m) : m \in messages} = {f[m] : m \in messages} /\ f = [m \in messages |-> f[m]]
      OBVIOUS
    <3> HIDE DEF f, Edited
    <3>2. IsFiniteSet(messages) => IsFiniteSet({f[m] : m \in messages})
      BY <3>1, ImageIsFinite
    <3> QED
      BY <3>1, <3>2
  <2> HIDE DEF Edited
  <2>4. Writes(t)
    BY <2>1, <2>2, <2>3 DEF Writes
  <2> QED
    BY <1>7, <2>1, <2>4, WritesGoOn, ProceedsPlainly DEF Works
<1>8. ASSUME ChannelGone(t) \/ DisputeGone(t) PROVE Works(t)
  <2>1. UNCHANGED <<guild, board>>
    BY <1>8 DEF ChannelGone, DisputeGone
  <2> QED
    BY <1>8, <2>1, WritesGoOn, ProceedsPlainly, WritesNothing DEF Works
<1>9. ASSUME PersistMessageId(t) PROVE Works(t)
  <2>1. /\ UNCHANGED <<guild, content, messages, sent, updater, lost, overlaps>>
        /\ tasks[t].at = "persist" /\ row' = [row EXCEPT !.message = tasks[t].message]
    BY <1>9 DEF PersistMessageId, Persisted, At
  <2>2. row' = [channel |-> row.channel, message |-> tasks[t].message]
    BY <2>1 DEF BoardInv, EmbedsTyped
  <2>3. Writes(t)
    BY <2>1, <2>2 DEF Writes
  <2> QED
    BY <1>9, <2>1, <2>3, WritesGoOn, ProceedsPlainly DEF Works
<1>10. ASSUME SendMessage(t) \/ PostDispute(t) PROVE Works(t)
  <2>1. At(t, "deliver") /\ Send(t)
    BY <1>10 DEF SendMessage, PostDispute
  <2> DEFINE new == [id |-> sent + 1, channel |-> tasks[t].channel, shows |-> tasks[t].shows]
  <2>2. /\ messages' = messages \cup {new} /\ sent' = sent + 1 /\ tasks[t].at = "deliver"
        /\ UNCHANGED <<guild, row, content, updater, lost, overlaps>>
    BY <2>1 DEF Send, At
  <2>3. new.id = sent + 1 /\ new.channel = tasks[t].channel
    OBVIOUS
  <2> HIDE DEF new
  <2>4. IsFiniteSet(messages) => IsFiniteSet(messages \cup {new})
    BY FS_AddElement
  <2>5. Writes(t)
    BY <2>2, <2>3, <2>4 DEF Writes
  <2>6. Proceeds(t) /\ Busy(t) /\ OthersStay(t)
    BY <2>1, <2>2, SendGoesOn DEF GoesOn, Proceeds
  <2> QED
    BY <2>2, <2>5, <2>6 DEF Works
<1>11. ASSUME ReadDispute(t) PROVE Works(t)
  <2>1. UNCHANGED <<guild, board>>
    BY <1>11 DEF ReadDispute
  <2> QED
    BY <1>11, <2>1, ReadDisputeGoesOn, ProceedsPlainly, WritesNothing DEF Works
<1>12. ASSUME ReadDisputeChannel(t) PROVE Works(t)
  <2>1. UNCHANGED <<guild, board>> /\ IsDispute
    BY <1>12 DEF ReadDisputeChannel
  <2>2. Proceeds(t) /\ Busy(t) /\ OthersStay(t)
    BY <1>12, <2>1, ReadDisputeChannelGoesOn DEF GoesOn, Proceeds
  <2> QED
    BY <2>1, <2>2, WritesNothing DEF Works
<1>13. ASSUME EndTask(t) \/ FailTask(t) \/ (InsertRow(t) /\ row # NoRow) PROVE Works(t)
  <2>1. UNCHANGED <<guild, row, content, messages, sent, updater, overlaps>> /\ lost' \in {lost, lost + 1}
    BY <1>13 DEF EndTask, FailTask, InsertRow
  <2> QED
    BY <1>13, <2>1, WritesGoOn, WritesNothing DEF Works, Leaves
<1> QED
  BY <1>1, <1>2, <1>3, <1>4, <1>5, <1>6, <1>7, <1>8, <1>9, <1>10, <1>11, <1>12, <1>13
     DEF TaskStep

-----------------------------------------------------------------------------
(* What any step does to the coroutines, the row and the messages.         *)

\* The same coroutine, but for its content, and for whether it is alone.
Alike(r, q) ==
  /\ r = NoTask <=> q = NoTask
  /\ q # NoTask =>
       r.does = q.does /\ r.at = q.at /\ r.channel = q.channel /\ r.message = q.message

\* The coroutines stand still while something else happens.
StandStill ==
  /\ \A x \in Tasks(key) : Alike(tasks'[x], tasks[x])
  /\ messages' = messages \/ \E m \in messages : messages' = messages \ {m} /\ UNCHANGED channels
  /\ content' \in {content, content + 1} /\ updater' \in {updater, config.channel}
  /\ UNCHANGED <<key, row, sent, lost, overlaps>>

\* A coroutine begins, beside those that are at work.
Begins(t) ==
  /\ ~ Busy(t) /\ \A x \in Tasks(key) \ {t} : Alike(tasks'[x], tasks[x])
  /\ tasks'[t] # NoTask /\ tasks'[t].at \in {"config", "write", "row"}
  /\ tasks'[t].message = 0 /\ tasks'[t].channel \in {0, updater}
  /\ IsGuide => tasks'[t].channel = 0
  /\ tasks'[t].does = "reconcile" => IsGuide /\ tasks'[t].at = "config"
  /\ tasks'[t].does = "tick" => ~ IsGuide
  /\ tasks'[t].does = "edit" => row # NoRow
  /\ tasks'[t].does = "open" => IsDispute /\ content = 0
  /\ IsDispute => content' # 0
  /\ overlaps' = IF Workers # {} THEN overlaps + 1 ELSE overlaps
  /\ UNCHANGED <<key, channels, row, messages, sent, updater, lost>>

\* Losing the claim to have been alone changes nothing else about a coroutine.
LEMMA DisturbedAlike ==
  ASSUME EmbedsTyped, NEW x \in Tasks(key)
  PROVE  Alike(Disturbed[x], tasks[x])
<1>1. CASE Busy(x)
  <2>1. Disturbed[x] = [tasks[x] EXCEPT !.alone = FALSE] /\ tasks[x] \in Working
    BY <1>1, TaskTypes DEF Disturbed
  <2> DEFINE r == [tasks[x] EXCEPT !.alone = FALSE]
  <2>2. /\ r \in Working /\ r.does = tasks[x].does /\ r.at = tasks[x].at
        /\ r.channel = tasks[x].channel /\ r.message = tasks[x].message
    BY <2>1 DEF Working
  <2> HIDE DEF r
  <2>3. r # NoTask
    BY <2>2, TaskTypes
  <2> QED
    BY <1>1, <2>1, <2>2, <2>3 DEF Alike, r, Busy
<1>2. CASE ~ Busy(x)
  BY <1>2 DEF Disturbed, Alike, Busy
<1> QED
  BY <1>1, <1>2

\* What every caller's Start amounts to.
LEMMA StartBegins ==
  ASSUME BoardInv, NEW t \in Tasks(key), NEW does \in Jobs, NEW at \in {"config", "write", "row"},
         NEW channel \in {0, updater}, NEW shows, Start(t, does, at, channel, shows),
         IsGuide => channel = 0,
         does = "reconcile" => IsGuide /\ at = "config",
         does = "tick" => ~ IsGuide,
         does = "edit" => row # NoRow,
         does = "open" => IsDispute /\ content = 0,
         IsDispute => content' # 0,
         UNCHANGED <<key, channels, row, messages, sent, updater, lost>>
  PROVE  Begins(t)
<1> DEFINE others == \E x \in Tasks(key) : Busy(x)
           r == [does |-> does, at |-> at, channel |-> channel, message |-> 0,
                 shows |-> shows, alone |-> ~ others, told |-> FALSE]
<1>1. /\ ~ Busy(t) /\ tasks' = [Disturbed EXCEPT ![t] = r]
      /\ overlaps' = IF others THEN overlaps + 1 ELSE overlaps
  BY DEF Start
<1>2. others <=> Workers # {}
  BY DEF Workers
<1>3. r.does = does /\ r.at = at /\ r.message = 0 /\ r.channel = channel
  OBVIOUS
<1> HIDE DEF r, others
<1>4. tasks'[t] = r /\ \A x \in Tasks(key) \ {t} : tasks'[x] = Disturbed[x]
  BY <1>1 DEF Disturbed
<1>5. r # NoTask
  BY <1>3 DEF NoTask, Jobs
<1>6. \A x \in Tasks(key) \ {t} : Alike(tasks'[x], tasks[x])
  BY <1>4, DisturbedAlike DEF BoardInv
<1> QED
  BY <1>1, <1>2, <1>3, <1>4, <1>5, <1>6 DEF Begins

\* The callers.
LEMMA CallersBegin ==
  ASSUME BoardInv, NEW t \in Tasks(key),
         \/ OnReadyReconciles(t) \/ SubmitGuide(t) \/ Tick(t)
         \/ DisputeOpen(t) \/ DisputeClose(t)
         \/ \E a \in Admins(key) : SetupReconciles(a, t)
  PROVE  Begins(t)
<1>1. UNCHANGED <<key, channels, row, messages, sent, updater, lost>>
  BY DEF OnReadyReconciles, SubmitGuide, Tick, DisputeOpen, DisputeClose, DisputeCommand,
         SetupReconciles, EndSetup, guild
<1>2. CASE OnReadyReconciles(t) \/ \E a \in Admins(key) : SetupReconciles(a, t)
  <2>1. Start(t, "reconcile", "config", 0, content) /\ IsGuide
    BY <1>2 DEF OnReadyReconciles, SetupReconciles
  <2>2. "reconcile" \in Jobs /\ ~ IsDispute
    BY <2>1 DEF Jobs, IsGuide, IsDispute
  <2> QED
    BY <1>1, <2>1, <2>2, StartBegins
<1>3. CASE SubmitGuide(t)
  <2>1. Start(t, "edit", "write", 0, content) /\ IsGuide /\ row # NoRow
    BY <1>3 DEF SubmitGuide
  <2>2. "edit" \in Jobs /\ ~ IsDispute
    BY <2>1 DEF Jobs, IsGuide, IsDispute
  <2> QED
    BY <1>1, <2>1, <2>2, StartBegins
<1>4. CASE Tick(t)
  <2>1. Start(t, "tick", "row", updater, content) /\ updater \in ChannelIds
    BY <1>4 DEF Tick, RosterSnapshot
  <2>2. updater # 0
    BY <2>1 DEF BoardInv, GuildInv, SetupTypeOK, ChannelIds, Ids
  <2>3. "tick" \in Jobs /\ ~ IsDispute /\ ~ IsGuide
    BY <2>2 DEF BoardInv, JobsFit, Jobs, IsRoster, IsDispute, IsGuide
  <2> QED
    BY <1>1, <2>1, <2>3, StartBegins
<1>5. CASE DisputeOpen(t)
  <2>1. Start(t, "open", "config", 0, 1) /\ IsDispute /\ content = 0 /\ content' = 1
    BY <1>5 DEF DisputeOpen, DisputeCommand
  <2>2. "open" \in Jobs /\ ~ IsGuide
    BY <2>1 DEF Jobs, IsGuide, IsDispute
  <2> QED
    BY <1>1, <2>1, <2>2, StartBegins
<1>6. CASE DisputeClose(t)
  <2>1. Start(t, "close", "row", 0, 2) /\ IsDispute /\ content' = 2
    BY <1>6 DEF DisputeClose, DisputeCommand
  <2>2. "close" \in Jobs /\ ~ IsGuide
    BY <2>1 DEF Jobs, IsGuide, IsDispute
  <2> QED
    BY <1>1, <2>1, <2>2, StartBegins
<1> QED
  BY <1>2, <1>3, <1>4, <1>5, <1>6

\* A coroutine works, one begins, all stand still or all are gone.
LEMMA StepsOfTheBoard ==
  ASSUME BoardInv, [Next]_vars
  PROVE  \/ \E t \in Tasks(key) : Works(t) /\ (TaskStep(t) \/ FailTask(t))
         \/ \E t \in Tasks(key) : Begins(t)
         \/ StandStill \/ Crash
<1>1. /\ \A x \in Tasks(key) : Alike(tasks[x], tasks[x])
      /\ \A x \in Tasks(key) : Alike(Disturbed[x], tasks[x])
  BY DisturbedAlike DEF Alike, BoardInv
<1>2. ASSUME UNCHANGED <<key, board>>, tasks' \in {tasks, Disturbed} PROVE StandStill
  BY <1>1, <1>2 DEF StandStill, board
<1>3. ASSUME NEW a \in Admins(key), SetupStep(a) \/ EndSetup(a), UNCHANGED <<board, tasks>>
      PROVE  StandStill
  <2>1. UNCHANGED key
    BY <1>3 DEF SetupStep, EndSetup, StartSetup, FindCategory, CreateCategory, FindChannel,
                CreateChannel, RefuseChannel, PersistRoleIds, FailSetup
  <2> QED
    BY <1>2, <1>3, <2>1
<1>4. ASSUME NEW a \in Admins(key), PersistChannelId(a), tasks' = Disturbed, UNCHANGED board
      PROVE  StandStill
  BY <1>2, <1>4 DEF PersistChannelId
<1>5. ASSUME NEW c \in channels, DeleteChannel(c), tasks' = Disturbed, UNCHANGED board
      PROVE  StandStill
  BY <1>2, <1>5 DEF DeleteChannel
<1>6. ASSUME NEW m \in messages, DeleteMessage(m) PROVE StandStill
  <2>1. /\ messages' = messages \ {m} /\ tasks' = Disturbed
        /\ UNCHANGED <<key, channels, row, content, sent, updater, lost, overlaps>>
    BY <1>6 DEF DeleteMessage, guild
  <2> QED
    BY <1>1, <2>1 DEF StandStill
<1>7. ASSUME ChangeRoster \/ OnReadyStartsUpdater PROVE StandStill
  <2>1. /\ content' \in {content, content + 1} /\ updater' \in {updater, config.channel}
        /\ tasks' \in {tasks, Disturbed}
        /\ UNCHANGED <<key, row, messages, sent, lost, overlaps>>
    BY <1>7 DEF ChangeRoster, OnReadyStartsUpdater, guild
  <2> QED
    BY <1>1, <2>1 DEF StandStill
<1>8. ASSUME UNCHANGED vars PROVE StandStill
  BY <1>2, <1>8 DEF vars, guild
<1>9. ASSUME NEW t \in Tasks(key), TaskStep(t) \/ FailTask(t) PROVE Works(t)
  BY <1>9, TaskStepWorks
<1>10. ASSUME NEW t \in Tasks(key),
              \/ OnReadyReconciles(t) \/ SubmitGuide(t) \/ Tick(t)
              \/ DisputeOpen(t) \/ DisputeClose(t)
              \/ \E a \in Admins(key) : SetupReconciles(a, t)
       PROVE  Begins(t)
  BY <1>10, CallersBegin
<1> QED
  BY <1>3, <1>4, <1>5, <1>6, <1>7, <1>8, <1>9, <1>10 DEF Next

-----------------------------------------------------------------------------
(* The channels that are written down.                                     *)

\* A channel that was written down before the step, and that exists after it, is
\* still the configured one.
StillConfigured ==
  ~ overlapped' =>
    \A c \in Nat : c < nextId /\ c \in ChannelIds' /\ (c \in ChannelIds => c = config.channel) =>
                     c = config'.channel

GuildFollows ==
  /\ GuildAged' /\ PersistsTheOne' /\ StillConfigured
  /\ nextId <= nextId' /\ (overlapped => overlapped')
  /\ \A c \in ChannelIds' : c \in ChannelIds \/ c = nextId

\* The ids of the guild are numbers, and none of them is 0.
LEMMA IdsAreNumbers ==
  ASSUME SetupTypeOK
  PROVE  /\ nextId \in Nat /\ config.channel \in Nat
         /\ \A c \in ChannelIds : c \in Nat /\ c # 0
BY DEF SetupTypeOK, ChannelIds, Ids

\* Steps that leave the channels, the configured one and what is to be persisted.
LEMMA NothingNewFollows ==
  ASSUME GuildInv, GuildAged, PersistsTheOne, UNCHANGED key,
         overlapped => overlapped', channels' \subseteq channels,
         nextId' \in {nextId, nextId + 1}, config'.channel = config.channel,
         \A b \in Admins(key) : setups'[b].at = "persist" => setups'[b] = setups[b]
  PROVE  GuildFollows
<1>1. ChannelIds' \subseteq ChannelIds /\ nextId \in Nat /\ config.channel \in Nat
      /\ \A c \in ChannelIds : c \in Nat
  BY IdsAreNumbers DEF ChannelIds, GuildInv
<1>2. nextId <= nextId' /\ \A n \in Nat : n < nextId => n < nextId'
  BY <1>1
<1>3. \A b \in Admins(key) : setups[b].at = "persist" => setups[b].channel \in Nat
  BY CommandTypes DEF GuildInv, AtWork, NoSetup
<1>4. GuildAged'
  BY <1>1, <1>2, <1>3 DEF GuildAged
<1>5. PersistsTheOne' /\ StillConfigured
  BY <1>1 DEF PersistsTheOne, StillConfigured
<1> QED
  BY <1>1, <1>2, <1>4, <1>5 DEF GuildFollows

\* A command has found the channel that is there.
LEMMA FindChannelFollows ==
  ASSUME GuildInv, GuildAged, PersistsTheOne, NEW a \in Admins(key), FindChannel(a)
  PROVE  GuildFollows
<1>1. /\ setups[a].at = "channel"
      /\ UNCHANGED <<key, channels, nextId, config, overlapped>>
  BY DEF FindChannel
<1>2. SetupTypeOK /\ setups \in Commands /\ setups[a].at # "idle"
  BY <1>1, CommandTypes DEF GuildInv
<1>3. CASE setups' = [setups EXCEPT ![a].at = "newchannel"]
  <2>1. "newchannel" \in Stages /\ "newchannel" # "persist"
    BY DEF Stages
  <2>2. \E r \in AtWork : Becomes(a, r) /\ r.at = "newchannel"
    BY <1>2, <1>3, <2>1, CommandMoves
  <2>3. \A b \in Admins(key) : setups'[b].at = "persist" => setups'[b] = setups[b]
    BY <2>2 DEF Becomes
  <2> QED
    BY <1>1, <2>3, NothingNewFollows
<1>4. ASSUME NEW c \in channels,
             setups' = [setups EXCEPT ![a].at = "persist", ![a].channel = c.id, ![a].deleted = deletions]
      PROVE  GuildFollows
  <2>1. /\ c.id \in ChannelIds /\ c.id \in 0 .. MaxIds /\ c.id < nextId /\ nextId \in Nat
        /\ ChannelIds' = ChannelIds /\ config.channel \in Nat
        /\ \A x \in ChannelIds : x \in Nat
    BY <1>1, <1>2, IdsAreNumbers DEF ChannelIds, GuildAged, SetupTypeOK, Ids
  <2>2. PICK r \in AtWork : Becomes(a, r) /\ r.at = "persist" /\ r.channel = c.id
    BY <1>2, <1>4, <2>1, CommandHasChannel
  <2>3. GuildAged'
    <3>1. \A b \in Admins(key) : setups'[b].at = "persist" => setups'[b].channel < nextId
      BY <2>1, <2>2 DEF Becomes, GuildAged
    <3> QED
      BY <1>1, <2>1, <3>1 DEF GuildAged
  <2>4. PersistsTheOne'
    <3>1. ~ overlapped => AtMostOne(channels)
      BY DEF GuildInv, CreatesFirst
    <3>2. ~ overlapped => ChannelIds \subseteq {c.id}
      BY <3>1 DEF AtMostOne, ChannelIds
    <3> QED
      BY <1>1, <2>1, <2>2, <3>2 DEF Becomes, PersistsTheOne
  <2> QED
    BY <1>1, <2>1, <2>3, <2>4 DEF GuildFollows, StillConfigured
<1> QED
  BY <1>3, <1>4 DEF FindChannel, Reusable

\* A command has created the channel, and there was none.
LEMMA CreateChannelFollows ==
  ASSUME GuildInv, GuildAged, PersistsTheOne, NEW a \in Admins(key), CreateChannel(a)
  PROVE  GuildFollows
<1> DEFINE new == [id |-> nextId, ow |-> ChannelOverwrites(key, setups[a].roles)]
<1>1. /\ setups[a].at = "newchannel" /\ nextId \in Ids /\ nextId' = nextId + 1
      /\ channels' = channels \cup {new}
      /\ setups' = [setups EXCEPT ![a].at = "persist", ![a].channel = nextId, ![a].deleted = deletions]
      /\ UNCHANGED <<key, config, overlapped>>
  BY DEF CreateChannel
<1>2. /\ SetupTypeOK /\ setups[a].at # "idle" /\ nextId \in Nat /\ nextId \in 0 .. MaxIds
      /\ config.channel \in Nat /\ \A x \in ChannelIds : x \in Nat
  BY <1>1, IdsAreNumbers DEF GuildInv, Ids
<1>3. new.id = nextId
  OBVIOUS
<1> HIDE DEF new
<1>4. ChannelIds' = ChannelIds \cup {nextId}
  BY <1>1, <1>3 DEF ChannelIds
<1>5. PICK r \in AtWork : Becomes(a, r) /\ r.at = "persist" /\ r.channel = nextId
  BY <1>1, <1>2, CommandHasChannel
<1>6. GuildAged'
  <2>1. \A b \in Admins(key) : setups[b].at = "persist" => setups[b].channel \in Nat
    BY CommandTypes DEF GuildInv, AtWork, NoSetup
  <2>2. \A b \in Admins(key) : setups'[b].at = "persist" => setups'[b].channel < nextId + 1
    BY <1>2, <1>5, <2>1 DEF Becomes, GuildAged
  <2>3. config.channel < nextId + 1 /\ \A c \in ChannelIds \cup {nextId} : c < nextId + 1
    BY <1>2 DEF GuildAged
  <2>4. UNCHANGED <<key, config>> /\ nextId' = nextId + 1
    BY <1>1
  <2> QED
    BY <1>4, <2>2, <2>3, <2>4 DEF GuildAged
<1>7. PersistsTheOne'
  <2>1. ~ overlapped => channels = {}
    BY <1>1 DEF GuildInv, CreatesFirst
  <2>2. ~ overlapped => ChannelIds = {}
    BY <2>1 DEF ChannelIds
  <2>3. ~ overlapped => \A b \in Admins(key) \ {a} : setups[b].at # "persist"
    BY <1>1, CommandTypes DEF GuildInv, OneAtATime, Running
  <2>4. UNCHANGED <<key, overlapped>>
    BY <1>1
  <2>5. ASSUME ~ overlapped, NEW b \in Admins(key), setups'[b].at = "persist"
        PROVE  ChannelIds' \subseteq {setups'[b].channel}
    <3>1. b = a
      BY <1>5, <2>3, <2>5 DEF Becomes
    <3> QED
      BY <1>4, <1>5, <2>2, <2>5, <3>1 DEF Becomes
  <2> QED
    BY <2>4, <2>5 DEF PersistsTheOne
<1>8. StillConfigured
  BY <1>1, <1>2, <1>4 DEF StillConfigured
<1> QED
  BY <1>1, <1>2, <1>4, <1>6, <1>7, <1>8 DEF GuildFollows

\* The command configures the one channel it has found or created.
LEMMA PersistChannelIdFollows ==
  ASSUME GuildInv, GuildAged, PersistsTheOne, NEW a \in Admins(key), PersistChannelId(a)
  PROVE  GuildFollows
<1>1. /\ setups[a].at = "persist" /\ config' = [config EXCEPT !.channel = setups[a].channel]
      /\ setups' = [setups EXCEPT ![a].at = "roles"]
      /\ UNCHANGED <<key, channels, nextId, overlapped>>
  BY DEF PersistChannelId, Upserted
<1>2. /\ SetupTypeOK /\ setups[a].at # "idle" /\ nextId \in Nat
      /\ config'.channel = setups[a].channel /\ ChannelIds' = ChannelIds
  BY <1>1, IdsAreNumbers DEF GuildInv, SetupTypeOK, ChannelIds
<1>3. "roles" \in Stages /\ "roles" # "persist"
  BY DEF Stages
<1>4. \E r \in AtWork : Becomes(a, r) /\ r.at = "roles"
  BY <1>1, <1>2, <1>3, CommandMoves
<1>5. \A b \in Admins(key) : setups'[b].at = "persist" => setups'[b] = setups[b]
  BY <1>4 DEF Becomes
<1>6. GuildAged' /\ PersistsTheOne' /\ StillConfigured
  BY <1>1, <1>2, <1>5 DEF GuildAged, PersistsTheOne, StillConfigured
<1> QED
  BY <1>1, <1>2, <1>6 DEF GuildFollows

\* Whatever happens to the guild.
LEMMA GuildStepFollows ==
  ASSUME GuildInv, GuildAged, PersistsTheOne, GuildStep
  PROVE  GuildFollows
<1>1. SetupTypeOK /\ nextId \in Nat
  BY IdsAreNumbers DEF GuildInv
<1>2. ASSUME NEW a \in Admins(key), NEW given \in RolesGiven(key), StartSetup(a, given)
      PROVE  GuildFollows
  <2>1. /\ setups' = [setups EXCEPT ![a] = [at |-> "category", roles |-> given, category |-> 0,
                                            channel |-> 0, deleted |-> deletions]]
        /\ overlapped => overlapped'
        /\ UNCHANGED <<key, channels, nextId, config>>
    BY <1>2 DEF StartSetup
  <2>2. \A b \in Admins(key) : setups'[b].at = "persist" => setups'[b] = setups[b]
    BY <1>1, <2>1, CommandTypes DEF Commands
  <2> QED
    BY <2>1, <2>2, NothingNewFollows
<1>3. ASSUME NEW a \in Admins(key),
             \E at \in Stages \ {"persist"} : setups' = [setups EXCEPT ![a].at = at],
             setups[a].at # "idle"
      PROVE  \A b \in Admins(key) : setups'[b].at = "persist" => setups'[b] = setups[b]
  <2>1. PICK at \in Stages \ {"persist"} : setups' = [setups EXCEPT ![a].at = at]
    BY <1>3
  <2>2. at \in Stages /\ at # "persist" /\ setups[a].at # "idle"
    BY <1>3
  <2>3. SetupTypeOK
    BY <1>1
  <2>4. \E r \in AtWork : Becomes(a, r) /\ r.at = at
    BY <2>1, <2>2, <2>3, CommandMoves
  <2> QED
    BY <2>2, <2>4 DEF Becomes
<1>4. ASSUME NEW a \in Admins(key), NEW n \in 0 .. MaxIds, setups[a].at # "idle",
             setups' = [setups EXCEPT ![a].at = "channel", ![a].category = n]
      PROVE  \A b \in Admins(key) : setups'[b].at = "persist" => setups'[b] = setups[b]
  <2>1. \E r \in AtWork : Becomes(a, r) /\ r.at = "channel"
    BY <1>1, <1>4, CommandHasCategory
  <2> QED
    BY <2>1 DEF Becomes
<1>5. ASSUME NEW a \in Admins(key), setups' = [setups EXCEPT ![a] = NoSetup]
      PROVE  \A b \in Admins(key) : setups'[b].at = "persist" => setups'[b] = setups[b]
  <2>1. NoSetup.at = "idle"
    BY DEF NoSetup
  <2> QED
    BY <1>1, <1>5, <2>1, CommandTypes DEF Commands
<1>6. ASSUME NEW a \in Admins(key), FindCategory(a) PROVE GuildFollows
  <2>1. /\ setups[a].at # "idle" /\ UNCHANGED <<key, channels, nextId, config, overlapped>>
        /\ "newcategory" \in Stages \ {"persist"}
    BY <1>6 DEF FindCategory, Stages
  <2>2. \A c \in categories : c.id \in 0 .. MaxIds
    BY <1>1 DEF SetupTypeOK, Ids
  <2>3. \A b \in Admins(key) : setups'[b].at = "persist" => setups'[b] = setups[b]
    BY <1>3, <1>4, <1>6, <2>1, <2>2 DEF FindCategory
  <2> QED
    BY <2>1, <2>3, NothingNewFollows
<1>7. ASSUME NEW a \in Admins(key), CreateCategory(a) PROVE GuildFollows
  <2>1. /\ setups[a].at # "idle" /\ UNCHANGED <<key, channels, config, overlapped>>
        /\ nextId' = nextId + 1 /\ nextId \in 0 .. MaxIds
        /\ setups' = [setups EXCEPT ![a].at = "channel", ![a].category = nextId]
    BY <1>7 DEF CreateCategory, Ids
  <2>2. \A b \in Admins(key) : setups'[b].at = "persist" => setups'[b] = setups[b]
    BY <1>4, <2>1
  <2> QED
    BY <2>1, <2>2, NothingNewFollows
<1>8. ASSUME NEW a \in Admins(key), PersistRoleIds(a) PROVE GuildFollows
  <2>1. /\ setups[a].at # "idle" /\ UNCHANGED <<key, channels, nextId, overlapped>>
        /\ setups' = [setups EXCEPT ![a].at = "welcome"] /\ "welcome" \in Stages \ {"persist"}
        /\ config'.channel = config.channel
    BY <1>1, <1>8 DEF PersistRoleIds, Stages, SetupTypeOK
  <2>2. \A b \in Admins(key) : setups'[b].at = "persist" => setups'[b] = setups[b]
    BY <1>3, <2>1
  <2> QED
    BY <2>1, <2>2, NothingNewFollows
<1>9. ASSUME NEW a \in Admins(key), EndSetup(a) \/ FailSetup(a) \/ RefuseChannel(a) PROVE GuildFollows
  <2>1. /\ setups' = [setups EXCEPT ![a] = NoSetup]
        /\ UNCHANGED <<key, channels, nextId, config, overlapped>>
    BY <1>9 DEF EndSetup, FailSetup, RefuseChannel
  <2> QED
    BY <1>5, <2>1, NothingNewFollows
<1>10. ASSUME NEW c \in channels, DeleteChannel(c) PROVE GuildFollows
  <2>1. /\ channels' \subseteq channels /\ UNCHANGED <<key, nextId, config, setups, overlapped>>
    BY <1>10 DEF DeleteChannel
  <2> QED
    BY <2>1, NothingNewFollows
<1>11. ASSUME SetupsDie PROVE GuildFollows
  <2>1. /\ UNCHANGED <<key, channels, nextId, config, overlapped>>
        /\ \A b \in Admins(key) : setups'[b].at = "idle"
    BY <1>11 DEF SetupsDie, NoSetup
  <2> QED
    BY <2>1, NothingNewFollows
<1>12. ASSUME GuildQuiet PROVE GuildFollows
  <2>1. UNCHANGED <<key, channels, nextId, config, setups, overlapped>>
    BY <1>12 DEF GuildQuiet, guild
  <2> QED
    BY <2>1, NothingNewFollows
<1> QED
  BY <1>2, <1>6, <1>7, <1>8, <1>9, <1>10, <1>11, <1>12,
     FindChannelFollows, CreateChannelFollows, PersistChannelIdFollows DEF GuildStep, SetupStep

-----------------------------------------------------------------------------
(* Every step keeps what the account rests on.                             *)

\* The types that the steps below need.
LEMMA BoardNumbers ==
  ASSUME BoardInv
  PROVE  /\ row.channel \in Nat /\ row.message \in Nat /\ sent \in Nat /\ content \in Nat
         /\ updater \in Nat /\ nextId \in Nat /\ config.channel \in Nat
         /\ \A m \in messages : m.id \in Nat /\ m.channel \in Nat
         /\ \A t \in Tasks(key) : Busy(t) => tasks[t].channel \in Nat /\ tasks[t].message \in Nat
         /\ \A c \in ChannelIds : c \in Nat /\ c # 0
         /\ row = NoRow <=> row.channel = 0 /\ row.message = 0
<1>1. SetupTypeOK /\ EmbedsTyped
  BY DEF BoardInv, GuildInv
<1>2. \A t \in Tasks(key) : Busy(t) => tasks[t].channel \in Nat /\ tasks[t].message \in Nat
  BY <1>1, TaskTypes DEF Working
<1>3. row = NoRow <=> row.channel = 0 /\ row.message = 0
  BY <1>1 DEF EmbedsTyped, NoRow
<1> QED
  BY <1>1, <1>2, <1>3, IdsAreNumbers DEF EmbedsTyped

\* A coroutine's step keeps what the account rests on ...
LEMMA WorksKeepsGrounds ==
  ASSUME BoardInv, GuildAged, Grounds, NEW t \in Tasks(key), Works(t)
  PROVE  Grounds'
<1>1. /\ Busy(t) /\ (tasks'[t] = NoTask \/ Proceeds(t)) /\ Writes(t)
      /\ UNCHANGED <<key, channels, nextId, config, overlapped, updater, overlaps>>
      /\ \A x \in Tasks(key) : x # t => tasks'[x] = tasks[x]
  BY DEF Works, guild, OthersStay
<1>2. /\ IsGuide' = IsGuide /\ IsDispute' = IsDispute /\ ChannelIds' = ChannelIds
      /\ (IsGuide => ~ IsDispute)
  BY <1>1 DEF IsGuide, IsDispute, ChannelIds
<1>3. Counted'
  <2>1. Workers' \subseteq Workers
    BY <1>1 DEF Workers, Busy
  <2>2. IsFiniteSet(Workers) /\ overlaps \in Nat /\ Cardinality(Workers) <= 1 + overlaps
    BY DEF Grounds, Counted
  <2>3. IsFiniteSet(Workers') /\ Cardinality(Workers') <= Cardinality(Workers)
    BY <2>1, <2>2, FS_Subset
  <2>4. Cardinality(Workers) \in Nat /\ Cardinality(Workers') \in Nat
    BY <2>2, <2>3, FS_CardinalityType
  <2>5. Cardinality(Workers') <= 1 + overlaps
    BY <2>2, <2>3, <2>4
  <2>6. IsFiniteSet(messages') /\ lost' \in Nat
    BY <1>1 DEF Writes, Grounds, Counted
  <2> QED
    BY <1>1, <2>2, <2>3, <2>5, <2>6 DEF Counted
<1>4. Aged'
  <2>1. sent' \in {sent, sent + 1} /\ sent \in Nat /\ sent <= sent' /\ sent' \in Nat
    BY <1>1, BoardNumbers DEF Writes
  <2>2. row'.message <= sent' /\ row'.channel < nextId
    BY <1>1, <2>1, BoardNumbers DEF Writes, Grounds, Aged
  <2>3. \A m \in messages' : m.id # 0 /\ m.channel < nextId
    <3>1. ASSUME NEW m \in messages' PROVE m.id # 0 /\ m.channel < nextId
      <4>1. CASE \E x \in messages : x.id = m.id /\ x.channel = m.channel
        BY <4>1 DEF Grounds, Aged
      <4>2. CASE m.id = sent + 1 /\ m.channel = tasks[t].channel
        BY <1>1, <2>1, <4>2 DEF Grounds, Aged
      <4> QED
        BY <1>1, <4>1, <4>2 DEF Writes
    <3> QED
      BY <3>1
  <2>4. ASSUME NEW x \in Tasks(key), tasks'[x] # NoTask
        PROVE  tasks'[x].message <= sent' /\ tasks'[x].channel < nextId
    <3>1. CASE x # t
      BY <1>1, <2>1, <2>4, <3>1, BoardNumbers DEF Grounds, Aged, Busy
    <3>2. CASE x = t
      <4>1. Proceeds(t)
        BY <1>1, <2>4, <3>2
      <4>2. tasks'[t].channel < nextId
        BY <1>1, <4>1 DEF Proceeds, Grounds, Aged, GuildAged
      <4>3. tasks'[t].message <= sent'
        BY <1>1, <2>1, <4>1, BoardNumbers DEF Proceeds, Grounds, Aged
      <4> QED
        BY <3>2, <4>2, <4>3
    <3> QED
      BY <3>1, <3>2
  <2> QED
    BY <1>1, <2>2, <2>3, <2>4 DEF Grounds, Aged, Busy
<1>5. OwnMessages'
  <2>1. ASSUME NEW x \in Tasks(key), x # t, Persisting(tasks'[x]), Persisting(tasks'[t])
        PROVE  tasks'[x].message # tasks'[t].message
    <3>1. tasks'[t].message = sent + 1
      BY <1>1, <2>1 DEF Persisting, Proceeds
    <3>2. tasks'[x] = tasks[x] /\ Busy(x)
      BY <1>1, <2>1 DEF Persisting, Busy
    <3>3. tasks[x].message <= sent /\ sent \in Nat /\ tasks[x].message \in Nat
      BY <3>2, BoardNumbers DEF Grounds, Aged
    <3> QED
      BY <3>1, <3>2, <3>3
  <2>2. ASSUME NEW x \in Tasks(key), NEW y \in Tasks(key), Persisting(tasks'[x]),
               Persisting(tasks'[y]), tasks'[x].message = tasks'[y].message, x # y
        PROVE  FALSE
    <3>1. CASE x = t \/ y = t
      BY <2>1, <2>2, <3>1
    <3>2. CASE x # t /\ y # t
      BY <1>1, <2>2, <3>2 DEF Grounds, OwnMessages
    <3> QED
      BY <3>1, <3>2
  <2> QED
    BY <1>1, <2>2 DEF OwnMessages
<1>6. ConfigFollows'
  <2> SUFFICES ASSUME IsGuide, ~ overlapped
               PROVE  /\ row'.channel \in ChannelIds => row'.channel = config.channel
                      /\ \A x \in Tasks(key) : tasks'[x] # NoTask /\ tasks'[x].channel \in ChannelIds =>
                                                 tasks'[x].channel = config.channel
    BY <1>1, <1>2 DEF ConfigFollows, Busy
  <2>1. /\ row.channel \in ChannelIds => row.channel = config.channel
        /\ \A x \in Tasks(key) : Busy(x) /\ tasks[x].channel \in ChannelIds =>
                                   tasks[x].channel = config.channel
    BY DEF Grounds, ConfigFollows
  <2>2. row'.channel \in {row.channel, tasks[t].channel}
    BY <1>1 DEF Writes
  <2>3. ASSUME NEW x \in Tasks(key), tasks'[x] # NoTask, tasks'[x].channel \in ChannelIds
        PROVE  tasks'[x].channel = config.channel
    <3>1. CASE x # t
      BY <1>1, <2>1, <2>3, <3>1 DEF Busy
    <3>2. CASE x = t
      BY <1>1, <2>1, <2>3, <3>2 DEF Proceeds
    <3> QED
      BY <3>1, <3>2
  <2> QED
    BY <1>1, <2>1, <2>2, <2>3
<1>7. RowFirst'
  <2>1. ASSUME IsGuide
        PROVE  /\ row'.channel = 0 => row'.message = 0 /\ row.channel = 0
               /\ row'.channel = 0 => row' = row
    BY <1>1, <2>1, BoardNumbers DEF Grounds, RowFirst, Writes
  <2>2. ASSUME NEW x \in Tasks(key), tasks'[x] # NoTask, IsGuide
        PROVE  /\ row'.channel = 0 =>
                    tasks'[x].at \notin {"reread", "deliver", "persist"} /\ tasks'[x].does # "edit"
               /\ tasks'[x].at \in {"retarget", "insert"} => tasks'[x].channel # 0
    <3>1. CASE x # t
      BY <1>1, <2>1, <2>2, <3>1 DEF Grounds, RowFirst, Busy
    <3>2. CASE x = t
      <4>1. Proceeds(t)
        BY <1>1, <2>2, <3>2
      <4>2. ASSUME row'.channel = 0
            PROVE  tasks'[t].at \notin {"reread", "deliver", "persist"} /\ tasks'[t].does # "edit"
        <5>1. row.channel = 0 /\ row = NoRow
          BY <2>1, <2>2, <4>2, BoardNumbers DEF Grounds, RowFirst
        <5>2. /\ tasks[t].at \notin {"reread", "deliver", "persist"} /\ tasks[t].does # "edit"
              /\ tasks[t].at \in {"retarget", "insert"} => tasks[t].channel # 0
          BY <1>1, <2>2, <5>1 DEF Grounds, RowFirst
        <5> QED
          BY <1>2, <2>2, <4>1, <4>2, <5>1, <5>2 DEF Proceeds
      <4>3. ASSUME tasks'[t].at \in {"retarget", "insert"} PROVE tasks'[t].channel # 0
        <5>1. row = NoRow => row.channel = 0
          BY BoardNumbers
        <5> QED
          BY <1>1, <2>2, <4>1, <4>3, <5>1 DEF Proceeds, Grounds, RowFirst
      <4> QED
        BY <3>2, <4>2, <4>3
    <3> QED
      BY <3>1, <3>2
  <2>3. ASSUME NEW x \in Tasks(key), tasks'[x] # NoTask
        PROVE  /\ tasks'[x].does = "reconcile" => IsGuide
               /\ tasks'[x].does = "tick" => ~ IsGuide
    <3>1. CASE x # t
      BY <1>1, <2>3, <3>1 DEF Grounds, RowFirst, Busy
    <3>2. CASE x = t
      <4>1. tasks'[t].does = tasks[t].does
        BY <1>1, <2>3, <3>2 DEF Proceeds
      <4> QED
        BY <1>1, <3>2, <4>1 DEF Grounds, RowFirst
    <3> QED
      BY <3>1, <3>2
  <2> QED
    BY <1>1, <1>2, <2>1, <2>2, <2>3 DEF RowFirst, Busy
<1>8. OpenedFirst'
  <2>1. content' = 0 => content = 0
    BY <1>1, BoardNumbers DEF Writes
  <2> QED
    BY <1>1, <1>2, <2>1 DEF Grounds, OpenedFirst
<1> QED
  BY <1>3, <1>4, <1>5, <1>6, <1>7, <1>8 DEF Grounds

\* ... as do the guild's steps, which leave the coroutines where they are ...
LEMMA StandStillKeepsGrounds ==
  ASSUME BoardInv, BoardInv', GuildAged, Grounds, GuildFollows, StandStill
  PROVE  Grounds'
<1>1. /\ \A x \in Tasks(key) : Alike(tasks'[x], tasks[x])
      /\ messages' \subseteq messages
      /\ content' \in {content, content + 1} /\ updater' \in {updater, config.channel}
      /\ UNCHANGED <<key, row, sent, lost, overlaps>>
  BY DEF StandStill
<1>2. IsGuide' = IsGuide /\ IsDispute' = IsDispute
  BY <1>1 DEF IsGuide, IsDispute
<1>3. Counted'
  <2>1. Workers' = Workers
    BY <1>1 DEF Workers, Busy, Alike
  <2>2. IsFiniteSet(messages')
    BY <1>1, FS_Subset DEF Grounds, Counted
  <2> QED
    BY <1>1, <2>1, <2>2 DEF Grounds, Counted
<1>4. nextId <= nextId' /\ nextId \in Nat /\ nextId' \in Nat
  <2>1. nextId' \in Nat
    BY BoardNumbers DEF BoardInv, GuildInv, SetupTypeOK, SetupAssumption
  <2> QED
    BY <2>1, BoardNumbers DEF GuildFollows
<1>5. \A n \in Nat : n < nextId => n < nextId'
  BY <1>4
<1>6. Aged'
  <2>1. row.message <= sent /\ row.channel < nextId' /\ updater' < nextId'
    BY <1>1, <1>5, BoardNumbers DEF Grounds, Aged, GuildAged
  <2>2. \A m \in messages' : m.id # 0 /\ m.channel < nextId'
    BY <1>1, <1>5, BoardNumbers DEF Grounds, Aged
  <2>3. ASSUME NEW x \in Tasks(key), tasks'[x] # NoTask
        PROVE  tasks'[x].message <= sent /\ tasks'[x].channel < nextId'
    <3>1. Busy(x) /\ tasks'[x].message = tasks[x].message /\ tasks'[x].channel = tasks[x].channel
      BY <1>1, <2>3 DEF Alike, Busy
    <3> QED
      BY <1>5, <3>1, BoardNumbers DEF Grounds, Aged
  <2> QED
    BY <1>1, <2>1, <2>2, <2>3 DEF Aged, Busy
<1>7. OwnMessages'
  <2>1. \A x \in Tasks(key) : Persisting(tasks'[x]) =>
                                Persisting(tasks[x]) /\ tasks'[x].message = tasks[x].message
    BY <1>1 DEF Persisting, Alike
  <2> QED
    BY <1>1, <2>1 DEF Grounds, OwnMessages
<1>8. ConfigFollows'
  <2> SUFFICES ASSUME IsGuide, ~ overlapped'
               PROVE  /\ row.channel \in ChannelIds' => row.channel = config'.channel
                      /\ \A x \in Tasks(key) : tasks'[x] # NoTask /\ tasks'[x].channel \in ChannelIds' =>
                                                 tasks'[x].channel = config'.channel
    BY <1>1, <1>2 DEF ConfigFollows, Busy
  <2>1. ~ overlapped /\ StillConfigured
    BY DEF GuildFollows
  <2>2. row.channel \in ChannelIds' => row.channel = config'.channel
    BY <2>1, BoardNumbers DEF StillConfigured, Grounds, ConfigFollows, Aged
  <2>3. ASSUME NEW x \in Tasks(key), tasks'[x] # NoTask, tasks'[x].channel \in ChannelIds'
        PROVE  tasks'[x].channel = config'.channel
    <3>1. Busy(x) /\ tasks'[x].channel = tasks[x].channel
      BY <1>1, <2>3 DEF Alike, Busy
    <3>2. tasks[x].channel \in Nat /\ tasks[x].channel < nextId
      BY <3>1, BoardNumbers DEF Grounds, Aged
    <3>3. tasks[x].channel \in ChannelIds => tasks[x].channel = config.channel
      BY <2>1, <3>1 DEF Grounds, ConfigFollows
    <3> QED
      BY <2>1, <2>3, <3>1, <3>2, <3>3 DEF StillConfigured
  <2> QED
    BY <2>2, <2>3
<1>9. RowFirst'
  <2>1. \A x \in Tasks(key) : tasks'[x] # NoTask =>
          Busy(x) /\ tasks'[x].does = tasks[x].does /\ tasks'[x].at = tasks[x].at
                  /\ tasks'[x].channel = tasks[x].channel
    BY <1>1 DEF Alike, Busy
  <2> QED
    BY <1>1, <1>2, <2>1 DEF Grounds, RowFirst, Busy
<1>10. OpenedFirst'
  <2>1. content' = 0 => content = 0
    BY <1>1, BoardNumbers
  <2>2. \A x \in Tasks(key) : tasks[x] = NoTask => tasks'[x] = NoTask
    BY <1>1 DEF Alike
  <2> QED
    BY <1>1, <1>2, <2>1, <2>2 DEF Grounds, OpenedFirst, Busy
<1> QED
  BY <1>3, <1>6, <1>7, <1>8, <1>9, <1>10 DEF Grounds

\* ... a start, which is counted as an overlap when another coroutine runs ...
LEMMA BeginsKeepsGrounds ==
  ASSUME BoardInv, BoardInv', GuildAged, Grounds, GuildFollows, NEW t \in Tasks(key), Begins(t)
  PROVE  Grounds'
<1>1. /\ ~ Busy(t) /\ \A x \in Tasks(key) : x # t => Alike(tasks'[x], tasks[x])
      /\ tasks'[t] # NoTask /\ tasks'[t].at \in {"config", "write", "row"}
      /\ tasks'[t].message = 0 /\ tasks'[t].channel \in {0, updater}
      /\ UNCHANGED <<key, channels, row, messages, sent, updater, lost>>
  BY DEF Begins
<1>2. IsGuide' = IsGuide /\ IsDispute' = IsDispute /\ ChannelIds' = ChannelIds
  BY <1>1 DEF IsGuide, IsDispute, ChannelIds
<1>3. \A x \in Tasks(key) : x # t /\ tasks'[x] # NoTask =>
        /\ Busy(x) /\ tasks'[x].does = tasks[x].does /\ tasks'[x].at = tasks[x].at
        /\ tasks'[x].channel = tasks[x].channel /\ tasks'[x].message = tasks[x].message
  BY <1>1 DEF Alike, Busy
<1>4. Counted'
  <2>1. Workers' = Workers \cup {t} /\ t \notin Workers
    BY <1>1 DEF Workers, Busy, Alike
  <2>2. /\ IsFiniteSet(Workers) /\ overlaps \in Nat /\ Cardinality(Workers) <= 1 + overlaps
        /\ Cardinality(Workers) \in Nat
    BY FS_CardinalityType DEF Grounds, Counted
  <2>3. IsFiniteSet(Workers') /\ Cardinality(Workers') = Cardinality(Workers) + 1
    BY <2>1, <2>2, FS_AddElement
  <2>4. Workers = {} => Cardinality(Workers) = 0
    BY FS_EmptySet
  <2>5. overlaps' = IF Workers # {} THEN overlaps + 1 ELSE overlaps
    BY DEF Begins
  <2>6. overlaps' \in Nat /\ Cardinality(Workers') <= 1 + overlaps'
    BY <2>2, <2>3, <2>4, <2>5
  <2> QED
    BY <1>1, <2>3, <2>6 DEF Grounds, Counted
<1>5. nextId <= nextId' /\ nextId \in Nat /\ nextId' \in Nat
  <2>1. nextId' \in Nat
    BY BoardNumbers DEF BoardInv, GuildInv, SetupTypeOK, SetupAssumption
  <2> QED
    BY <2>1, BoardNumbers DEF GuildFollows
<1>6. \A n \in Nat : n < nextId => n < nextId'
  BY <1>5
<1>7. 0 < nextId
  BY BoardNumbers DEF Grounds, Aged
<1>8. Aged'
  <2>1. row.message <= sent /\ row.channel < nextId' /\ updater < nextId'
    BY <1>6, BoardNumbers DEF Grounds, Aged
  <2>2. \A m \in messages : m.id # 0 /\ m.channel < nextId'
    BY <1>6, BoardNumbers DEF Grounds, Aged
  <2>3. ASSUME NEW x \in Tasks(key), tasks'[x] # NoTask
        PROVE  tasks'[x].message <= sent /\ tasks'[x].channel < nextId'
    <3>1. CASE x # t
      BY <1>3, <1>6, <2>3, <3>1, BoardNumbers DEF Grounds, Aged
    <3>2. CASE x = t
      BY <1>1, <1>6, <1>7, <2>1, <3>2, BoardNumbers
    <3> QED
      BY <3>1, <3>2
  <2> QED
    BY <1>1, <2>1, <2>2, <2>3 DEF Aged, Busy
<1>9. OwnMessages'
  <2>1. \A x \in Tasks(key) : Persisting(tasks'[x]) =>
          x # t /\ Persisting(tasks[x]) /\ tasks'[x].message = tasks[x].message
    BY <1>1, <1>3 DEF Persisting, Busy
  <2> QED
    BY <1>1, <2>1 DEF Grounds, OwnMessages
<1>10. ConfigFollows'
  <2> SUFFICES ASSUME IsGuide, ~ overlapped'
               PROVE  /\ row.channel \in ChannelIds' => row.channel = config'.channel
                      /\ \A x \in Tasks(key) : tasks'[x] # NoTask /\ tasks'[x].channel \in ChannelIds' =>
                                                 tasks'[x].channel = config'.channel
    BY <1>1, <1>2 DEF ConfigFollows, Busy
  <2>1. ~ overlapped /\ StillConfigured
    BY DEF GuildFollows
  <2>2. row.channel \in ChannelIds' => row.channel = config'.channel
    BY <2>1, BoardNumbers DEF StillConfigured, Grounds, ConfigFollows, Aged
  <2>3. ASSUME NEW x \in Tasks(key), tasks'[x] # NoTask, tasks'[x].channel \in ChannelIds'
        PROVE  tasks'[x].channel = config'.channel
    <3>1. x # t
      BY <1>2, <2>3, BoardNumbers DEF Begins
    <3>2. Busy(x) /\ tasks'[x].channel = tasks[x].channel
      BY <1>3, <2>3, <3>1
    <3>3. tasks[x].channel \in Nat /\ tasks[x].channel < nextId
      BY <3>2, BoardNumbers DEF Grounds, Aged
    <3>4. tasks[x].channel \in ChannelIds => tasks[x].channel = config.channel
      BY <2>1, <3>2 DEF Grounds, ConfigFollows
    <3> QED
      BY <2>1, <2>3, <3>2, <3>3, <3>4 DEF StillConfigured
  <2> QED
    BY <2>2, <2>3
<1>11. RowFirst'
  <2>1. ASSUME NEW x \in Tasks(key), tasks'[x] # NoTask
        PROVE  /\ IsGuide /\ row.channel = 0 =>
                    tasks'[x].at \notin {"reread", "deliver", "persist"} /\ tasks'[x].does # "edit"
               /\ IsGuide /\ tasks'[x].at \in {"retarget", "insert"} => tasks'[x].channel # 0
               /\ tasks'[x].does = "reconcile" => IsGuide
               /\ tasks'[x].does = "tick" => ~ IsGuide
    <3>1. CASE x # t
      BY <1>3, <2>1, <3>1 DEF Grounds, RowFirst
    <3>2. CASE x = t
      <4>1. IsGuide /\ row.channel = 0 => row = NoRow
        BY BoardNumbers DEF Grounds, RowFirst
      <4> QED
        BY <1>1, <3>2, <4>1 DEF Begins
    <3> QED
      BY <3>1, <3>2
  <2> QED
    BY <1>1, <1>2, <2>1 DEF Grounds, RowFirst, Busy
<1>12. OpenedFirst'
  BY <1>2 DEF Begins, OpenedFirst
<1> QED
  BY <1>4, <1>8, <1>9, <1>10, <1>11, <1>12 DEF Grounds

\* ... and a restart, which counts the ids that it loses.
LEMMA CrashKeepsGrounds ==
  ASSUME BoardInv, GuildAged, Grounds, Crash
  PROVE  Grounds'
<1> DEFINE persisting == {t \in Tasks(key) : At(t, "persist")}
<1>1. /\ tasks' = [t \in Tasks(key) |-> NoTask] /\ updater' = 0
      /\ lost' = lost + Cardinality(persisting)
      /\ UNCHANGED <<key, channels, nextId, config, overlapped, row, content, messages, sent, overlaps>>
  BY DEF Crash
<1>2. IsGuide' = IsGuide /\ IsDispute' = IsDispute /\ ChannelIds' = ChannelIds
  BY <1>1 DEF IsGuide, IsDispute, ChannelIds
<1>3. \A x \in Tasks(key) : tasks'[x] = NoTask
  BY <1>1
<1>4. Counted'
  <2>1. persisting \subseteq Workers
    BY DEF Workers, At
  <2>2. IsFiniteSet(persisting)
    BY <2>1, FS_Subset DEF Grounds, Counted
  <2>3. Cardinality(persisting) \in Nat
    BY <2>2, FS_CardinalityType
  <2>4. lost' \in Nat
    BY <1>1, <2>3 DEF Grounds, Counted
  <2>5. Workers' = {}
    BY <1>1, <1>3 DEF Workers, Busy
  <2>6. IsFiniteSet(Workers') /\ Cardinality(Workers') = 0
    BY <2>5, FS_EmptySet
  <2> QED
    BY <1>1, <2>4, <2>6 DEF Grounds, Counted
<1>5. Aged'
  <2>1. 0 < nextId
    BY BoardNumbers DEF Grounds, Aged
  <2> QED
    BY <1>1, <1>3, <2>1 DEF Grounds, Aged, Busy
<1>6. OwnMessages' /\ RowFirst'
  BY <1>1, <1>2, <1>3 DEF OwnMessages, Persisting, Grounds, RowFirst, Busy
<1>7. ConfigFollows' /\ OpenedFirst'
  BY <1>1, <1>2, <1>3 DEF Grounds, ConfigFollows, OpenedFirst, Busy
<1> QED
  BY <1>4, <1>5, <1>6, <1>7 DEF Grounds

-----------------------------------------------------------------------------
(* The account of a channel, step by step.                                 *)

\* The numbers in it.
LEMMA AccountNumbers ==
  ASSUME Counted, NEW c
  PROVE  /\ IsFiniteSet(Posted(c)) /\ IsFiniteSet(Adders(c)) /\ IsFiniteSet(Committed(c))
         /\ Cardinality(Posted(c)) \in Nat /\ Cardinality(Adders(c)) \in Nat
         /\ Cardinality(Committed(c)) \in Nat /\ Cardinality(Workers) \in Nat
         /\ Cardinality(Committed(c)) <= Cardinality(Adders(c))
         /\ Cardinality(Adders(c)) <= Cardinality(Workers)
         /\ lost \in Nat /\ overlaps \in Nat
<1> DEFINE M == {x \in messages : x.channel = c}
           f == [m \in M |-> m.id]
<1>1. IsFiniteSet(M)
  BY FS_Subset DEF Counted
<1>2. Posted(c) = {f[m] : m \in M} /\ f = [m \in M |-> f[m]]
  BY DEF Posted
<1> HIDE DEF f, M
<1>3. IsFiniteSet({f[m] : m \in M})
  BY <1>1, <1>2, ImageIsFinite
<1>4. Committed(c) \subseteq Adders(c) /\ Adders(c) \subseteq Workers
  BY DEF Committed, Adders, Workers, MayAdd, MayChoose, BoundFor, Persisting, Busy
<1>5. IsFiniteSet(Workers)
  BY DEF Counted
<1>6. IsFiniteSet(Adders(c)) /\ Cardinality(Adders(c)) <= Cardinality(Workers)
  BY <1>4, <1>5, FS_Subset
<1>7. IsFiniteSet(Committed(c)) /\ Cardinality(Committed(c)) <= Cardinality(Adders(c))
  BY <1>4, <1>6, FS_Subset
<1> QED
  BY <1>2, <1>3, <1>5, <1>6, <1>7, FS_CardinalityType DEF Counted

\* Everybody either stays as he is, or does nothing that the account has not foreseen.
LEMMA CalmStep ==
  ASSUME Grounds, NEW c, Accounted(c), UNCHANGED <<key, row, lost, overlaps>>,
         Posted(c)' = Posted(c),
         \A x \in Tasks(key) :
           /\ MayAdd(tasks'[x], c, Posted(c)) =>
                /\ MayAdd(tasks[x], c, Posted(c))
                /\ Settled(c) => WillFind(tasks'[x], c, Posted(c))
           /\ Persisting(tasks'[x]) /\ tasks'[x].message \in Posted(c) <=>
                Persisting(tasks[x]) /\ tasks[x].message \in Posted(c)
           /\ ~ Matched(c) /\ BoundFor(tasks'[x], c) => BoundFor(tasks[x], c)
  PROVE  Accounted(c)'
<1>1. Holders(c)' = Holders(c) /\ Adders(c)' \subseteq Adders(c)
  BY DEF Holders, Adders
<1>2. ~ Matched(c) => Committed(c)' \subseteq Committed(c)
  BY DEF Committed
<1>3. Matched(c)' = Matched(c) /\ Kept(c)' = Kept(c)
  BY <1>1 DEF Matched, Kept, IsGuide
<1>4. Settled(c) => Settled(c)'
  <2>1. ASSUME NEW x \in Adders(c)', Settled(c) PROVE WillFind(tasks'[x], c, Posted(c))
    BY <2>1 DEF Adders
  <2> QED
    BY <1>1, <1>3, <2>1 DEF Settled
<1>5. /\ IsFiniteSet(Adders(c)) /\ IsFiniteSet(Committed(c))
      /\ Cardinality(Posted(c)) \in Nat /\ Cardinality(Adders(c)) \in Nat
      /\ Cardinality(Committed(c)) \in Nat /\ 1 + lost + overlaps \in Nat
  BY AccountNumbers DEF Grounds
<1>6. /\ IsFiniteSet(Adders(c)') /\ Cardinality(Adders(c)') <= Cardinality(Adders(c))
      /\ Cardinality(Adders(c)') \in Nat
  BY <1>1, <1>5, FS_Subset, FS_CardinalityType
<1>7. ~ Matched(c) => Cardinality(Committed(c)') <= Cardinality(Committed(c))
  BY <1>2, <1>5, FS_Subset
<1>8. Committed(c)' \subseteq Adders(c)'
  BY DEF Committed, Adders, MayAdd
<1>9. Cardinality(Committed(c)') \in Nat
  BY <1>6, <1>8, FS_Subset, FS_CardinalityType
<1>10. Settled(c) \in BOOLEAN /\ Matched(c) \in BOOLEAN /\ Kept(c) \in BOOLEAN
       /\ Settled(c)' \in BOOLEAN
  BY DEF Settled, Matched, Kept
<1> DEFINE n == Cardinality(Posted(c))
           a == Cardinality(Adders(c))
           k == Cardinality(Committed(c))
           a2 == Cardinality(Adders(c)')
           k2 == Cardinality(Committed(c)')
           most == 1 + lost + overlaps
           settled == Settled(c)
           matched == Matched(c)
           kept == Kept(c)
           settled2 == Settled(c)'
<1>11. Within(n, a, k, most, settled, matched, kept)
  BY DEF Accounted
<1>12. /\ n \in Nat /\ a \in Nat /\ k \in Nat /\ most \in Nat /\ a2 \in Nat /\ k2 \in Nat
       /\ a2 <= a /\ (settled => settled2) /\ (~ matched => k2 <= k)
       /\ settled \in BOOLEAN /\ settled2 \in BOOLEAN /\ matched \in BOOLEAN /\ kept \in BOOLEAN
  BY <1>4, <1>5, <1>6, <1>7, <1>9, <1>10
<1> HIDE DEF n, a, k, a2, k2, most, settled, matched, kept, settled2
<1>13. Within(n, a2, k2, most, settled2, matched, kept)
  BY <1>11, <1>12 DEF Within
<1> QED
  BY <1>3, <1>13 DEF Accounted, n, a2, k2, most, settled2, matched, kept

\* The same when only t moves, and neither has a message to persist nor gets one.
LEMMA CalmTurn ==
  ASSUME Grounds, NEW c, Accounted(c), UNCHANGED <<key, row, lost, overlaps>>,
         Posted(c)' = Posted(c), NEW t \in Tasks(key), OthersStay(t),
         ~ Persisting(tasks[t]), ~ Persisting(tasks'[t]),
         MayAdd(tasks'[t], c, Posted(c)) => MayAdd(tasks[t], c, Posted(c)),
         Settled(c) /\ MayAdd(tasks'[t], c, Posted(c)) => WillFind(tasks'[t], c, Posted(c)),
         ~ Matched(c) /\ BoundFor(tasks'[t], c) => BoundFor(tasks[t], c)
  PROVE  Accounted(c)'
<1>1. ASSUME NEW x \in Tasks(key)
      PROVE  /\ MayAdd(tasks'[x], c, Posted(c)) =>
                  /\ MayAdd(tasks[x], c, Posted(c))
                  /\ Settled(c) => WillFind(tasks'[x], c, Posted(c))
             /\ Persisting(tasks'[x]) /\ tasks'[x].message \in Posted(c) <=>
                  Persisting(tasks[x]) /\ tasks[x].message \in Posted(c)
             /\ ~ Matched(c) /\ BoundFor(tasks'[x], c) => BoundFor(tasks[x], c)
  <2>1. CASE x = t
    BY <2>1
  <2>2. CASE x # t
    BY <2>2 DEF OthersStay, Settled, Adders
  <2> QED
    BY <2>1, <2>2
<1> QED
  BY <1>1, CalmStep

\* The row that everybody has settled on.
LEMMA SettledRow ==
  ASSUME BoardInv, Grounds, ~ overlapped, NEW c \in ChannelIds, Settled(c)
  PROVE  /\ row.message \in Posted(c) /\ row.message # 0 /\ row # NoRow /\ c # 0
         /\ IsGuide => row.channel = c /\ config.channel = c
         /\ AfterRow(c) = "deliver"
         /\ \A target : AfterRow(target) \in {"done", "deliver"}
<1>1. row.message \in Posted(c) /\ (IsGuide => row.channel = c)
  BY DEF Settled, Matched
<1>2. row.message # 0
  BY <1>1 DEF Posted, Grounds, Aged
<1>3. row # NoRow /\ c # 0
  BY <1>2, BoardNumbers
<1>4. IsGuide => config.channel = c
  BY <1>1 DEF Grounds, ConfigFollows
<1>5. AfterRow(c) = "deliver" /\ \A target : AfterRow(target) \in {"done", "deliver"}
  BY <1>3 DEF AfterRow
<1> QED
  BY <1>1, <1>2, <1>3, <1>4, <1>5

\* Steps that only end, or only go to an end.
LEMMA EndsAreCalm ==
  ASSUME BoardInv, Grounds, NEW c, Accounted(c), NEW t \in Tasks(key), ~ Persisting(tasks[t]),
         UNCHANGED <<key, row, lost, overlaps>>, Posted(c)' = Posted(c),
         Leaves(t) \/ \E channel, message : GoesOn(t, "done", channel, message)
  PROVE  Accounted(c)'
<1>1. OthersStay(t) /\ (tasks'[t] # NoTask => tasks'[t].at = "done")
  BY DEF Leaves, GoesOn
<1>2. /\ ~ Persisting(tasks'[t]) /\ ~ MayAdd(tasks'[t], c, Posted(c))
      /\ ~ BoundFor(tasks'[t], c)
  BY <1>1 DEF Persisting, MayAdd, MayChoose, BoundFor
<1> QED
  BY <1>1, <1>2, CalmTurn

\* Steps that read: whoever decides for c was counted, and when all is settled finds
\* the row's message.
LEMMA ReadsAreCalm ==
  ASSUME BoardInv, Grounds, ~ overlapped, NEW c \in ChannelIds, Accounted(c), NEW t \in Tasks(key),
         \/ ReadConfig(t) \/ WriteContent(t) \/ ReadRow(t) \/ ReadRowToEdit(t)
         \/ ReadRowToTick(t) \/ ReadAgain(t) \/ ReadDispute(t) \/ ReadDisputeChannel(t)
  PROVE  Accounted(c)'
<1> DEFINE S == Posted(c)
<1>1. Busy(t) /\ UNCHANGED <<key, row, messages, lost, overlaps>>
  BY DEF ReadConfig, WriteContent, ReadRow, ReadRowToEdit, ReadRowToTick, ReadAgain,
         ReadDispute, ReadDisputeChannel, guild, board, At
<1>2. Posted(c)' = Posted(c)
  BY <1>1 DEF Posted
<1>3. /\ tasks[t].does \in Disputing <=> IsDispute
      /\ tasks[t].does \in Disputing => tasks[t].at \notin {"write", "reread", "insert", "retarget"}
      /\ tasks[t].at = "write" => tasks[t].does = "edit"
      /\ tasks[t].does = "reconcile" => IsGuide
      /\ IsGuide => ~ IsDispute
  BY <1>1 DEF BoardInv, JobsFit, Grounds, RowFirst, IsGuide, IsDispute
<1>4. ASSUME OthersStay(t), ~ Persisting(tasks[t]), ~ Persisting(tasks'[t]),
             MayAdd(tasks'[t], c, S) => MayAdd(tasks[t], c, S),
             Settled(c) /\ MayAdd(tasks'[t], c, S) => WillFind(tasks'[t], c, S),
             ~ Matched(c) /\ BoundFor(tasks'[t], c) => BoundFor(tasks[t], c)
      PROVE  Accounted(c)'
  BY <1>1, <1>2, <1>4, CalmTurn
<1>5. ASSUME Settled(c), MayAdd(tasks[t], c, S) PROVE WillFind(tasks[t], c, S)
  BY <1>5 DEF Settled, Adders
<1>6. ASSUME Settled(c)
      PROVE  /\ row.message \in S /\ row.message # 0 /\ row # NoRow /\ c # 0
             /\ IsGuide => row.channel = c /\ config.channel = c
             /\ AfterRow(c) = "deliver"
             /\ \A target : AfterRow(target) \in {"done", "deliver"}
  BY <1>6, SettledRow
<1> HIDE DEF S
<1>7. CASE ReadConfig(t)
  <2>1. GoesOn(t, "row", config.channel, tasks[t].message) /\ tasks[t].at = "config" /\ IsGuide
    BY <1>7, ReadConfigGoesOn DEF ReadConfig, At
  <2>2. tasks[t].does # "close" /\ tasks[t].does # "open"
    BY <1>3, <2>1 DEF Disputing
  <2>3. MayAdd(tasks[t], c, S) /\ ~ Persisting(tasks[t])
    BY <1>1, <2>1, <2>2 DEF MayAdd, MayChoose, Persisting, Busy
  <2>4. OthersStay(t) /\ ~ Persisting(tasks'[t]) /\ ~ BoundFor(tasks'[t], c)
    BY <2>1 DEF GoesOn, Persisting, BoundFor
  <2>5. Settled(c) => WillFind(tasks'[t], c, S)
    BY <1>6, <2>1, <2>2 DEF WillFind, GoesOn
  <2> QED
    BY <1>4, <2>3, <2>4, <2>5
<1>8. CASE WriteContent(t)
  <2>1. GoesOn(t, "row", tasks[t].channel, tasks[t].message) /\ tasks[t].at = "write"
    BY <1>8, WritesGoOn DEF WriteContent, At
  <2>2. tasks[t].does = "edit"
    BY <1>3, <2>1
  <2>3. MayAdd(tasks[t], c, S) /\ ~ Persisting(tasks[t])
    BY <1>1, <2>1, <2>2 DEF MayAdd, MayChoose, Persisting, Busy
  <2>4. OthersStay(t) /\ ~ Persisting(tasks'[t]) /\ ~ BoundFor(tasks'[t], c)
    BY <2>1 DEF GoesOn, Persisting, BoundFor
  <2>5. WillFind(tasks'[t], c, S)
    BY <2>1, <2>2 DEF WillFind, GoesOn
  <2> QED
    BY <1>4, <2>3, <2>4, <2>5
<1>9. CASE ReadRow(t)
  <2>1. /\ GoesOn(t, Onward(t), Target(t), row.message)
        /\ tasks[t].at = "row" /\ tasks[t].does = "reconcile" /\ IsGuide
    BY <1>3, <1>9, ReadRowGoesOn DEF ReadRow, At
  <2>2. MayAdd(tasks[t], c, S) /\ ~ Persisting(tasks[t])
    BY <1>1, <2>1 DEF MayAdd, MayChoose, Persisting, Busy
  <2>3. /\ Onward(t) \in {"done", "retarget", "insert", "deliver"}
        /\ Onward(t) = "deliver" => row.channel \in {0, Target(t)} /\ row # NoRow
    BY DEF Onward, AfterRow, Target
  <2>4. OthersStay(t) /\ ~ Persisting(tasks'[t])
    BY <2>1, <2>3 DEF GoesOn, Persisting
  <2>5. ASSUME Settled(c) PROVE WillFind(tasks'[t], c, S)
    <3>1. tasks[t].channel \in {0, c} /\ row.channel = c
      BY <1>5, <1>6, <2>1, <2>2, <2>5 DEF WillFind
    <3>2. Target(t) = c
      BY <3>1 DEF Target
    <3>3. Onward(t) = "deliver"
      BY <1>6, <2>5, <3>1, <3>2 DEF Onward
    <3> QED
      BY <1>6, <2>1, <2>5, <3>3 DEF WillFind, GoesOn
  <2>6. ASSUME ~ Matched(c), BoundFor(tasks'[t], c) PROVE FALSE
    <3>1. Onward(t) = "deliver" /\ Target(t) = c
      BY <2>1, <2>3, <2>6 DEF BoundFor, GoesOn
    <3>2. row.channel = 0 /\ row # NoRow
      BY <2>3, <2>6, <3>1 DEF Matched
    <3>3. row = NoRow
      BY <2>1, <3>2, BoardNumbers DEF Grounds, RowFirst
    <3> QED
      BY <3>2, <3>3
  <2> QED
    BY <1>4, <2>2, <2>4, <2>5, <2>6
<1>10. CASE ReadRowToEdit(t)
  <2>1. /\ GoesOn(t, AfterRow(row.channel), row.channel, row.message)
        /\ tasks[t].at = "row" /\ tasks[t].does = "edit"
    BY <1>10, ReadRowToEditGoesOn DEF ReadRowToEdit, At
  <2>2. MayAdd(tasks[t], c, S) /\ ~ Persisting(tasks[t])
    BY <1>1, <2>1 DEF MayAdd, MayChoose, Persisting, Busy
  <2>3. OthersStay(t) /\ ~ Persisting(tasks'[t])
    BY <2>1, AfterRowPlaces DEF GoesOn, Persisting
  <2>4. Settled(c) => WillFind(tasks'[t], c, S)
    BY <1>6, <2>1 DEF WillFind, GoesOn
  <2>5. BoundFor(tasks'[t], c) => Matched(c)
    BY <2>1 DEF BoundFor, GoesOn, Matched
  <2> QED
    BY <1>4, <2>2, <2>3, <2>4, <2>5
<1>11. CASE ReadRowToTick(t) \/ ReadAgain(t)
  <2>1. /\ GoesOn(t, AfterRow(tasks[t].channel), tasks[t].channel, row.message)
        /\ \/ tasks[t].at = "row" /\ tasks[t].does = "tick"
           \/ tasks[t].at = "reread"
    BY <1>11, RowReadGoesOn DEF ReadRowToTick, ReadAgain, At
  <2>2. tasks[t].does # "close" /\ tasks[t].does # "open"
    BY <1>3, <2>1 DEF Disputing
  <2>3. ~ Persisting(tasks[t]) /\ OthersStay(t) /\ ~ Persisting(tasks'[t])
    BY <2>1, AfterRowPlaces DEF GoesOn, Persisting
  <2>4. Settled(c) => WillFind(tasks'[t], c, S)
    BY <1>6, <2>1, <2>2 DEF WillFind, GoesOn
  <2>5. ASSUME MayAdd(tasks'[t], c, S) PROVE MayAdd(tasks[t], c, S)
    <3>1. tasks'[t].channel = c /\ tasks'[t].channel = tasks[t].channel
      BY <2>1, <2>3, <2>5, AfterRowPlaces DEF MayAdd, MayChoose, BoundFor, GoesOn
    <3> QED
      BY <1>1, <2>1, <2>2, <3>1 DEF MayAdd, MayChoose, BoundFor, Busy
  <2>6. ASSUME ~ Matched(c), BoundFor(tasks'[t], c) PROVE BoundFor(tasks[t], c)
    <3>1. IsGuide /\ tasks[t].does # "tick"
      BY <1>1, <2>6 DEF Matched, Grounds, RowFirst
    <3> QED
      BY <1>1, <2>1, <2>2, <2>6, <3>1 DEF BoundFor, GoesOn, Busy
  <2> QED
    BY <1>4, <2>3, <2>4, <2>5, <2>6
<1>12. CASE ReadDispute(t)
  <2>1. PICK at \in {"done", "config"} : GoesOn(t, at, tasks[t].channel, row.message)
    BY <1>12, ReadDisputeGoesOn
  <2>2. tasks[t].does = "close" /\ tasks[t].at = "row"
    BY <1>12 DEF ReadDispute, At
  <2>3. /\ ~ Persisting(tasks[t]) /\ ~ Persisting(tasks'[t]) /\ OthersStay(t)
        /\ ~ MayAdd(tasks'[t], c, S) /\ ~ BoundFor(tasks'[t], c)
    BY <2>1, <2>2 DEF GoesOn, MayAdd, MayChoose, BoundFor, Persisting
  <2> QED
    BY <1>4, <2>3
<1>13. CASE ReadDisputeChannel(t)
  <2>1. PICK at \in {"done", "deliver"} : GoesOn(t, at, config.channel, tasks[t].message)
    BY <1>13, ReadDisputeChannelGoesOn
  <2>2. tasks[t].at = "config" /\ IsDispute /\ ~ IsGuide /\ Matched(c)
    BY <1>3, <1>13 DEF ReadDisputeChannel, At, Matched
  <2>3. ~ Persisting(tasks[t]) /\ ~ Persisting(tasks'[t]) /\ OthersStay(t)
    BY <2>1, <2>2 DEF GoesOn, Persisting
  <2>4. CASE tasks[t].does = "close"
    <3>1. ~ MayAdd(tasks'[t], c, S)
      BY <2>1, <2>3, <2>4 DEF GoesOn, MayAdd, MayChoose, BoundFor
    <3> QED
      BY <1>4, <2>2, <2>3, <3>1
  <2>5. CASE tasks[t].does = "open"
    <3>1. MayAdd(tasks[t], c, S)
      BY <1>1, <2>2, <2>5 DEF MayAdd, MayChoose, Busy
    <3>2. ~ Settled(c)
      BY <1>5, <2>5, <3>1 DEF WillFind
    <3> QED
      BY <1>4, <2>2, <2>3, <3>1, <3>2
  <2> QED
    BY <1>3, <2>2, <2>4, <2>5 DEF Disputing
<1> QED
  BY <1>7, <1>8, <1>9, <1>10, <1>11, <1>12, <1>13

\* A message that is edited stays where it is.
LEMMA EditKeepsPosted ==
  ASSUME BoardInv, NEW t \in Tasks(key), EditMessage(t), NEW c
  PROVE  Posted(c)' = Posted(c)
<1> DEFINE Edited(m) == IF m.id = tasks[t].message THEN [m EXCEPT !.shows = tasks[t].shows] ELSE m
<1>1. messages' = {Edited(m) : m \in messages}
  BY DEF EditMessage
<1>2. \A m \in messages : Edited(m).id = m.id /\ Edited(m).channel = m.channel
  BY DEF BoardInv, EmbedsTyped
<1> HIDE DEF Edited
<1> QED
  BY <1>1, <1>2 DEF Posted

\* t stops being an adder, and whoever else is one stays one.
LEMMA AdderGone ==
  ASSUME Grounds, NEW c, NEW t \in Tasks(key), t \in Adders(c), Adders(c)' = Adders(c) \ {t}
  PROVE  /\ Cardinality(Adders(c)') \in Nat
         /\ Cardinality(Adders(c)') + 1 = Cardinality(Adders(c))
<1>1. IsFiniteSet(Adders(c)) /\ Cardinality(Adders(c)) \in Nat
  BY AccountNumbers DEF Grounds
<1>2. /\ IsFiniteSet(Adders(c) \ {t})
      /\ Cardinality(Adders(c) \ {t}) = Cardinality(Adders(c)) - 1
  BY <1>1, FS_RemoveElement
<1>3. Cardinality(Adders(c) \ {t}) \in Nat
  BY <1>2, FS_CardinalityType
<1> QED
  BY <1>1, <1>2, <1>3

\* The row is inserted, or follows the configured channel: it names no message.
LEMMA RowWrittenAccounted ==
  ASSUME BoardInv, Grounds, ~ overlapped, NEW c \in ChannelIds, Accounted(c), NEW t \in Tasks(key),
         Retarget(t) \/ (InsertRow(t) /\ row = NoRow)
  PROVE  Accounted(c)'
<1> DEFINE S == Posted(c)
<1>1. /\ Busy(t) /\ tasks[t].at \in {"retarget", "insert"}
      /\ tasks[t].at = "insert" => row = NoRow
      /\ row' = [channel |-> tasks[t].channel, message |-> 0]
      /\ UNCHANGED <<key, messages, lost, overlaps>>
  BY DEF Retarget, InsertRow, At, guild
<1>2. GoesOn(t, "reread", tasks[t].channel, tasks[t].message)
  BY WritesGoOn
<1>3. Posted(c)' = S /\ 0 \notin S /\ row'.message = 0 /\ row'.channel = tasks[t].channel
  BY <1>1 DEF Posted, Grounds, Aged
<1>4. tasks[t].does # "close" /\ IsGuide' = IsGuide /\ c # 0
  BY <1>1, BoardNumbers DEF BoardInv, JobsFit, Disputing, IsGuide
<1>5. ~ Settled(c) /\ ~ Settled(c)'
  <2>1. CASE tasks[t].at = "insert"
    <3>1. row.message = 0
      BY <1>1, <2>1, BoardNumbers
    <3> QED
      BY <1>3, <3>1 DEF Settled
  <2>2. CASE tasks[t].at = "retarget"
    <3>1. t \in Adders(c) /\ ~ WillFind(tasks[t], c, S)
      BY <1>1, <1>4, <2>2 DEF Adders, MayAdd, MayChoose, WillFind, Busy
    <3> QED
      BY <1>3, <3>1 DEF Settled
  <2> QED
    BY <1>1, <2>1, <2>2, <1>3 DEF Settled
<1>6. \A x \in Tasks(key) \ {t} : tasks'[x] = tasks[x]
  BY <1>2 DEF GoesOn, OthersStay
<1>7. Holders(c)' = Holders(c)
  BY <1>1, <1>2, <1>3, <1>6 DEF Holders, Persisting, GoesOn
<1> DEFINE n == Cardinality(Posted(c))
           a == Cardinality(Adders(c))
           k == Cardinality(Committed(c))
           a2 == Cardinality(Adders(c)')
           k2 == Cardinality(Committed(c)')
           most == 1 + lost + overlaps
<1>8. n \in Nat /\ a \in Nat /\ k \in Nat /\ most \in Nat /\ k <= a
  BY AccountNumbers DEF Grounds
<1>9. /\ n + a <= most /\ (~ Kept(c) => n + 1 <= most)
      /\ ~ Matched(c) => n + k + 1 <= most
  BY <1>5 DEF Accounted, Within
<1>10. CASE tasks[t].channel = c
  <2>1. MayAdd(tasks[t], c, S) /\ MayAdd(tasks'[t], c, S)
    BY <1>1, <1>2, <1>4, <1>10 DEF MayAdd, MayChoose, BoundFor, GoesOn, Busy
  <2>2. Adders(c)' = Adders(c) /\ t \in Adders(c)
    BY <1>1, <1>3, <1>6, <2>1 DEF Adders
  <2>3. a2 = a /\ a # 0
    BY <2>2, AccountNumbers, FS_EmptySet DEF Grounds
  <2>4. Matched(c)'
    BY <1>1, <1>3, <1>10 DEF Matched
  <2> HIDE DEF n, a, k, a2, k2, most
  <2>5. n + a2 <= most /\ n <= most /\ n + 1 <= most /\ n + a2 <= most + 1
    BY <1>8, <1>9, <2>3
  <2>6. UNCHANGED <<lost, overlaps>>
    BY <1>1
  <2> QED
    BY <1>3, <1>5, <2>4, <2>5, <2>6 DEF Accounted, Within, n, a2, most
<1>11. CASE tasks[t].channel # c
  <2>1. ~ MayAdd(tasks'[t], c, S) /\ ~ BoundFor(tasks'[t], c) /\ ~ BoundFor(tasks[t], c)
    BY <1>1, <1>2, <1>4, <1>11 DEF MayAdd, MayChoose, BoundFor, GoesOn, Busy, Persisting
  <2>2. Committed(c)' = Committed(c)
    BY <1>1, <1>6, <2>1 DEF Committed
  <2>3. Kept(c)' => Kept(c)
    BY <1>3, <1>7 DEF Kept
  <2>4. CASE tasks[t].at = "insert"
    <3>1. ~ MayAdd(tasks[t], c, S)
      BY <1>1, <1>11, <2>4 DEF MayAdd, MayChoose, BoundFor, Persisting
    <3>2. Adders(c)' = Adders(c)
      BY <1>1, <1>3, <1>6, <2>1, <3>1 DEF Adders
    <3>3. Matched(c)' = Matched(c)
      BY <1>1, <1>3, <1>4, <1>11, <2>4, BoardNumbers DEF Matched
    <3>4. Kept(c)' = Kept(c)
      BY <1>1, <1>3, <1>7, <2>4, BoardNumbers DEF Kept
    <3>5. UNCHANGED <<lost, overlaps>>
      BY <1>1
    <3> QED
      BY <1>3, <1>5, <2>2, <3>2, <3>3, <3>4, <3>5 DEF Accounted, Within
  <2>5. CASE tasks[t].at = "retarget"
    <3>1. MayAdd(tasks[t], c, S)
      BY <1>1, <1>4, <2>5 DEF MayAdd, MayChoose, Busy
    <3>2. Adders(c)' = Adders(c) \ {t} /\ t \in Adders(c)
      BY <1>1, <1>3, <1>6, <2>1, <3>1 DEF Adders
    <3>3. a2 \in Nat /\ a2 + 1 = a /\ k2 = k
      BY <2>2, <3>2, AdderGone
    <3>4. Committed(c) \subseteq Adders(c) \ {t}
      BY <2>1 DEF Committed, Adders, MayAdd
    <3>5. k <= a2
      BY <3>2, <3>4, FS_Subset, FS_RemoveElement, AccountNumbers DEF Grounds
    <3> HIDE DEF n, a, k, a2, k2, most
    <3>6. /\ n + a2 <= most /\ n <= most /\ n + 1 <= most /\ n + a2 <= most + 1
          /\ n + k2 + 1 <= most
      BY <1>8, <1>9, <3>3, <3>5
    <3>7. UNCHANGED <<lost, overlaps>>
      BY <1>1
    <3> QED
      BY <1>3, <1>5, <3>6, <3>7 DEF Accounted, Within, n, a2, k2, most
  <2> QED
    BY <1>1, <2>4, <2>5
<1> QED
  BY <1>10, <1>11

\* A message is sent: one adder less, one message more.
LEMMA SendAccounted ==
  ASSUME BoardInv, Grounds, ~ overlapped, NEW c \in ChannelIds, Accounted(c), NEW t \in Tasks(key),
         SendMessage(t) \/ PostDispute(t)
  PROVE  Accounted(c)'
<1> DEFINE S == Posted(c)
           new == [id |-> sent + 1, channel |-> tasks[t].channel, shows |-> tasks[t].shows]
<1>1. /\ Busy(t) /\ tasks[t].at = "deliver" /\ tasks[t].channel \in ChannelIds
      /\ messages' = messages \cup {new}
      /\ UNCHANGED <<key, row, lost, overlaps>>
  BY PostedWhereItExists DEF SendMessage, PostDispute, Send, At, guild
<1>2. GoesOn(t, "persist", tasks[t].channel, sent + 1)
  BY SendGoesOn DEF SendMessage, PostDispute
<1>3. tasks[t].channel = c
  <2>1. AtMostOne(channels)
    BY DEF BoardInv, GuildInv, CreatesFirst
  <2> QED
    BY <1>1, <2>1 DEF AtMostOne, ChannelIds
<1>4. new.id = sent + 1 /\ new.channel = c
  BY <1>3
<1> HIDE DEF new
<1>5. Posted(c)' = S \cup {sent + 1}
  BY <1>1, <1>4 DEF Posted
<1>6. /\ sent + 1 \notin S /\ row.message # sent + 1 /\ 0 \notin S
      /\ \A x \in Tasks(key) : Busy(x) => tasks[x].message # sent + 1
  <2>1. sent \in Nat /\ \A m \in messages : m.id \in Nat /\ m.id <= sent
    BY BoardNumbers DEF BoardInv, IdsUnique
  <2>2. \A m \in messages : m.id # sent + 1 /\ m.id # 0
    BY <2>1 DEF Grounds, Aged
  <2>3. row.message # sent + 1
    BY <2>1, BoardNumbers DEF Grounds, Aged
  <2>4. ASSUME NEW x \in Tasks(key), Busy(x) PROVE tasks[x].message # sent + 1
    BY <2>1, <2>4, BoardNumbers DEF Grounds, Aged
  <2> QED
    BY <2>2, <2>3, <2>4 DEF Posted
<1>7. tasks[t].does # "close" /\ ~ WillFind(tasks[t], c, S)
  <2>1. CASE PostDispute(t)
    BY <2>1 DEF PostDispute, WillFind
  <2>2. CASE SendMessage(t)
    <3>1. ~ IsDispute /\ ~ Edits(t)
      BY <2>2 DEF SendMessage
    <3>2. tasks[t].does # "close"
      BY <1>1, <3>1 DEF BoardInv, JobsFit, Disputing
    <3>3. tasks[t].message \notin S
      BY <1>1, <1>3, <1>6, <3>1 DEF Edits, Found, Posted
    <3> QED
      BY <1>1, <3>2, <3>3 DEF WillFind
  <2> QED
    BY <2>1, <2>2
<1>8. t \in Adders(c) /\ t \in Committed(c) /\ ~ Settled(c)
  BY <1>1, <1>3, <1>7 DEF Adders, Committed, MayAdd, BoundFor, Busy, Settled
<1>9. \A x \in Tasks(key) \ {t} : tasks'[x] = tasks[x]
  BY <1>2 DEF GoesOn, OthersStay
<1>10. t \in Holders(c)' /\ t \notin Adders(c)' /\ t \notin Committed(c)'
  BY <1>1, <1>2, <1>5 DEF Holders, Adders, Committed, Persisting, MayAdd, MayChoose, BoundFor, GoesOn
<1>11. Adders(c)' = Adders(c) \ {t} /\ Committed(c)' = Committed(c) \ {t}
  <2>1. ASSUME NEW x \in Tasks(key) \ {t}
        PROVE  /\ MayAdd(tasks'[x], c, Posted(c)') <=> MayAdd(tasks[x], c, S)
               /\ BoundFor(tasks'[x], c) <=> BoundFor(tasks[x], c)
    BY <1>5, <1>6, <1>9 DEF MayAdd, Persisting, Busy
  <2>2. /\ Adders(c)' = {x \in Tasks(key) : MayAdd(tasks'[x], c, Posted(c)')}
        /\ Committed(c)' = {x \in Tasks(key) : BoundFor(tasks'[x], c)}
    BY <1>1 DEF Adders, Committed
  <2> QED
    BY <1>10, <2>1, <2>2 DEF Adders, Committed
<1>12. Kept(c)' /\ ~ Settled(c)' /\ Matched(c)' = Matched(c)
  BY <1>1, <1>10 DEF Kept, Settled, Matched, IsGuide
<1> DEFINE n == Cardinality(Posted(c))
           a == Cardinality(Adders(c))
           k == Cardinality(Committed(c))
           n2 == Cardinality(Posted(c)')
           a2 == Cardinality(Adders(c)')
           k2 == Cardinality(Committed(c)')
           most == 1 + lost + overlaps
<1>13. n \in Nat /\ a \in Nat /\ k \in Nat /\ most \in Nat
  BY AccountNumbers DEF Grounds
<1>14. n2 = n + 1
  BY <1>5, <1>6, FS_AddElement, AccountNumbers DEF Grounds
<1>15. a2 \in Nat /\ a2 + 1 = a
  BY <1>8, <1>11, AdderGone
<1>16. IsFiniteSet(Committed(c))
  BY AccountNumbers DEF Grounds
<1>17. /\ IsFiniteSet(Committed(c) \ {t})
       /\ Cardinality(Committed(c) \ {t}) = Cardinality(Committed(c)) - 1
  BY <1>8, <1>16, FS_RemoveElement
<1>18. k2 \in Nat /\ k2 = k - 1
  BY <1>11, <1>17, FS_CardinalityType
<1>19. n + a <= most /\ (~ Matched(c) => n + k + 1 <= most)
  BY <1>8 DEF Accounted, Within
<1> HIDE DEF n, a, k, n2, a2, k2, most
<1>20. /\ n2 <= most /\ n2 + a2 <= most /\ n2 + a2 <= most + 1
       /\ ~ Matched(c) => n2 + k2 + 1 <= most
  BY <1>13, <1>14, <1>15, <1>18, <1>19
<1>21. UNCHANGED <<lost, overlaps>>
  BY <1>1
<1> QED
  BY <1>12, <1>20, <1>21 DEF Accounted, Within, n2, a2, k2, most

\* The id is persisted: the row names the message, if it still is in c.
LEMMA PersistAccounted ==
  ASSUME BoardInv, Grounds, NEW c, Accounted(c), NEW t \in Tasks(key), PersistMessageId(t)
  PROVE  Accounted(c)'
<1> DEFINE S == Posted(c)
<1>1. /\ Busy(t) /\ tasks[t].at = "persist"
      /\ row' = [row EXCEPT !.message = tasks[t].message]
      /\ UNCHANGED <<key, messages, lost, overlaps>>
  BY DEF PersistMessageId, Persisted, At, guild
<1>2. GoesOn(t, "done", tasks[t].channel, tasks[t].message)
  BY WritesGoOn
<1>3. row'.message = tasks[t].message /\ row'.channel = row.channel
  BY <1>1 DEF BoardInv, EmbedsTyped
<1>4. Posted(c)' = S /\ UNCHANGED <<key, lost, overlaps>>
  BY <1>1 DEF Posted
<1>5. Matched(c)' = Matched(c)
  BY <1>3, <1>4 DEF Matched, IsGuide
<1>6. \A x \in Tasks(key) \ {t} : tasks'[x] = tasks[x]
  BY <1>2 DEF GoesOn, OthersStay
<1>7. ~ Persisting(tasks'[t]) /\ ~ MayAdd(tasks'[t], c, S) /\ ~ BoundFor(tasks'[t], c)
  BY <1>2 DEF GoesOn, Persisting, MayAdd, MayChoose, BoundFor
<1>8. /\ Persisting(tasks[t]) /\ ~ BoundFor(tasks[t], c)
      /\ MayAdd(tasks[t], c, S) <=> tasks[t].message \notin S
      /\ ~ WillFind(tasks[t], c, S)
  BY <1>1 DEF Persisting, MayAdd, MayChoose, BoundFor, WillFind, Busy
<1>9. Committed(c)' = Committed(c) /\ Adders(c)' = Adders(c) \ {t}
  BY <1>4, <1>6, <1>7, <1>8 DEF Committed, Adders
<1>10. ~ Settled(c)
  BY <1>8 DEF Settled, Holders, Adders
<1> DEFINE n == Cardinality(Posted(c))
           a == Cardinality(Adders(c))
           k == Cardinality(Committed(c))
           a2 == Cardinality(Adders(c)')
           most == 1 + lost + overlaps
<1>11. n \in Nat /\ a \in Nat /\ k \in Nat /\ most \in Nat
  BY AccountNumbers DEF Grounds
<1>12. n + a <= most /\ (~ Matched(c) => n + k + 1 <= most)
  BY <1>10 DEF Accounted, Within
<1>13. CASE tasks[t].message \in S
  <2>1. Adders(c)' = Adders(c)
    BY <1>8, <1>9, <1>13 DEF Adders
  <2>2. Kept(c)'
    BY <1>3, <1>4, <1>13 DEF Kept
  <2> HIDE DEF n, a, k, most
  <2>3. n <= most /\ n + a <= most + 1
    BY <1>11, <1>12
  <2> QED
    BY <1>4, <1>5, <1>9, <1>12, <2>1, <2>2, <2>3 DEF Accounted, Within, n, a, k, most
<1>14. CASE tasks[t].message \notin S
  <2>1. t \in Adders(c)
    BY <1>8, <1>14 DEF Adders
  <2>2. a2 \in Nat /\ a2 + 1 = a
    BY <1>9, <2>1, AdderGone
  <2> HIDE DEF n, a, k, a2, most
  <2>3. n <= most /\ n + a2 <= most + 1 /\ n + a2 <= most /\ n + 1 <= most
    BY <1>11, <1>12, <2>2
  <2> QED
    BY <1>4, <1>5, <1>9, <1>12, <2>3 DEF Accounted, Within, n, k, a2, most
<1> QED
  BY <1>13, <1>14

\* A coroutine ends between its send and its persist: one message more is accounted for.
LEMMA LostAccounted ==
  ASSUME BoardInv, Grounds, NEW c, Accounted(c), NEW t \in Tasks(key), FailTask(t),
         Persisting(tasks[t])
  PROVE  Accounted(c)'
<1> DEFINE S == Posted(c)
<1>1. /\ lost' = lost + 1 /\ Leaves(t)
      /\ UNCHANGED <<key, row, messages, overlaps>>
  BY WritesGoOn DEF FailTask, guild, At, Persisting
<1>2. Posted(c)' = S /\ Matched(c)' = Matched(c)
  BY <1>1 DEF Posted, Matched, IsGuide
<1>3. \A x \in Tasks(key) \ {t} : tasks'[x] = tasks[x]
  BY <1>1 DEF Leaves, OthersStay
<1>4. /\ ~ MayAdd(tasks'[t], c, S) /\ ~ BoundFor(tasks'[t], c)
      /\ ~ BoundFor(tasks[t], c)
  BY <1>1 DEF Leaves, MayAdd, MayChoose, BoundFor, Persisting
<1>5. Adders(c)' \subseteq Adders(c) /\ Committed(c)' = Committed(c)
  BY <1>1, <1>2, <1>3, <1>4 DEF Adders, Committed
<1> DEFINE n == Cardinality(Posted(c))
           a == Cardinality(Adders(c))
           k == Cardinality(Committed(c))
           a2 == Cardinality(Adders(c)')
           most == 1 + lost + overlaps
           most2 == 1 + lost' + overlaps'
<1>6. n \in Nat /\ a \in Nat /\ k \in Nat /\ most \in Nat /\ most2 = most + 1
  BY <1>1, AccountNumbers DEF Grounds
<1>7. a2 \in Nat /\ a2 <= a
  BY <1>5, AccountNumbers, FS_Subset, FS_CardinalityType DEF Grounds
<1>8. n <= most /\ n + a <= most + 1 /\ (~ Matched(c) => n + k + 1 <= most)
  BY DEF Accounted, Within
<1> HIDE DEF n, a, k, a2, most, most2
<1>9. /\ n <= most2 /\ n + a2 <= most2 /\ n + a2 <= most2 + 1 /\ n + 1 <= most2
      /\ ~ Matched(c) => n + k + 1 <= most2
  BY <1>6, <1>7, <1>8
<1> QED
  BY <1>2, <1>5, <1>9 DEF Accounted, Within, n, k, a2, most2

\* What a coroutine does.
LEMMA TaskStepAccounted ==
  ASSUME BoardInv, Grounds, ~ overlapped, NEW c \in ChannelIds, Accounted(c), NEW t \in Tasks(key),
         TaskStep(t) \/ FailTask(t)
  PROVE  Accounted(c)'
<1>1. ASSUME UNCHANGED <<key, row, messages, lost, overlaps>>, ~ Persisting(tasks[t]),
             Leaves(t) \/ \E channel, message : GoesOn(t, "done", channel, message)
      PROVE  Accounted(c)'
  <2>1. Posted(c)' = Posted(c)
    BY <1>1 DEF Posted
  <2> QED
    BY <1>1, <2>1, EndsAreCalm
<1>2. ASSUME EditMessage(t) PROVE Accounted(c)'
  <2>1. UNCHANGED <<key, row, lost, overlaps>> /\ ~ Persisting(tasks[t])
    BY <1>2 DEF EditMessage, guild, At, Persisting
  <2>2. Posted(c)' = Posted(c)
    BY <1>2, EditKeepsPosted
  <2>3. GoesOn(t, "done", tasks[t].channel, tasks[t].message)
    BY <1>2, WritesGoOn
  <2> QED
    BY <2>1, <2>2, <2>3, EndsAreCalm
<1>3. ASSUME ChannelGone(t) \/ DisputeGone(t) PROVE Accounted(c)'
  <2>1. UNCHANGED <<key, row, messages, lost, overlaps>> /\ ~ Persisting(tasks[t])
    BY <1>3 DEF ChannelGone, DisputeGone, guild, board, At, Persisting
  <2>2. GoesOn(t, "done", tasks[t].channel, tasks[t].message)
    BY <1>3, WritesGoOn
  <2> QED
    BY <1>1, <2>1, <2>2
<1>4. ASSUME EndTask(t) \/ (InsertRow(t) /\ row # NoRow) PROVE Accounted(c)'
  <2>1. UNCHANGED <<key, row, messages, lost, overlaps>> /\ ~ Persisting(tasks[t])
    BY <1>4 DEF EndTask, InsertRow, guild, board, At, Persisting
  <2>2. Leaves(t)
    BY <1>4, WritesGoOn
  <2> QED
    BY <1>1, <2>1, <2>2
<1>5. ASSUME FailTask(t) PROVE Accounted(c)'
  <2>1. CASE Persisting(tasks[t])
    BY <1>5, <2>1, LostAccounted
  <2>2. CASE ~ Persisting(tasks[t])
    <3>1. UNCHANGED <<key, row, messages, lost, overlaps>>
      BY <1>5, <2>2 DEF FailTask, guild, At, Persisting, Busy
    <3>2. Leaves(t)
      BY <1>5, WritesGoOn
    <3> QED
      BY <1>1, <2>2, <3>1, <3>2
  <2> QED
    BY <2>1, <2>2
<1> QED
  BY <1>2, <1>3, <1>4, <1>5, ReadsAreCalm, RowWrittenAccounted, SendAccounted, PersistAccounted
     DEF TaskStep

-----------------------------------------------------------------------------
(* The account, when the coroutines stand still, begin or are gone.        *)

\* A coroutine that looks the same counts the same.
LEMMA AlikeCounts ==
  ASSUME NEW r, NEW q, Alike(r, q), NEW c, NEW S
  PROVE  /\ Persisting(r) <=> Persisting(q)
         /\ Persisting(q) => r.message = q.message
         /\ BoundFor(r, c) <=> BoundFor(q, c)
         /\ MayAdd(r, c, S) <=> MayAdd(q, c, S)
         /\ q # NoTask => (WillFind(r, c, S) <=> WillFind(q, c, S))
<1>1. CASE q = NoTask
  BY <1>1 DEF Alike, Persisting, BoundFor, MayAdd, MayChoose
<1>2. CASE q # NoTask
  <2>1. r # NoTask /\ r.does = q.does /\ r.at = q.at /\ r.channel = q.channel /\ r.message = q.message
    BY <1>2 DEF Alike
  <2> QED
    BY <1>2, <2>1 DEF Persisting, BoundFor, MayAdd, MayChoose, WillFind
<1> QED
  BY <1>1, <1>2

\* An operator deletes a message of c: one less, and at most one coroutine that was
\* about to persist it now counts as an adder.
LEMMA DeletedAccounted ==
  ASSUME BoardInv, Grounds, NEW c, Accounted(c), UNCHANGED <<key, row, lost, overlaps>>,
         \A x \in Tasks(key) : Alike(tasks'[x], tasks[x]),
         NEW m \in messages, m.channel = c, messages' = messages \ {m}
  PROVE  Accounted(c)'
<1> DEFINE S == Posted(c)
<1>1. Posted(c)' = S \ {m.id} /\ m.id \in S
  <2>1. \A x \in messages : x # m => x.id # m.id
    BY DEF BoardInv, IdsUnique
  <2> QED
    BY <2>1 DEF Posted
<1>2. Matched(c)' = Matched(c)
  BY DEF Matched, IsGuide
<1>3. Committed(c)' = Committed(c)
  BY AlikeCounts DEF Committed
<1> DEFINE orphaned == {x \in Tasks(key) : Persisting(tasks[x]) /\ tasks[x].message = m.id}
<1>4. Adders(c)' = Adders(c) \cup orphaned
  <2>1. ASSUME NEW x \in Tasks(key)
        PROVE  MayAdd(tasks'[x], c, S \ {m.id}) <=> MayAdd(tasks[x], c, S) \/ x \in orphaned
    <3>1. MayAdd(tasks'[x], c, S \ {m.id}) <=> MayAdd(tasks[x], c, S \ {m.id})
      BY AlikeCounts
    <3> QED
      BY <1>1, <3>1 DEF MayAdd
  <2>2. Adders(c)' = {x \in Tasks(key) : MayAdd(tasks'[x], c, S \ {m.id})}
    BY <1>1 DEF Adders
  <2> HIDE DEF orphaned
  <2>3. orphaned \subseteq Tasks(key)
    BY DEF orphaned
  <2> QED
    BY <2>1, <2>2, <2>3 DEF Adders
<1>5. orphaned \subseteq Holders(c)
  BY <1>1 DEF Holders
<1>6. \A x, y \in orphaned : x = y
  BY DEF Grounds, OwnMessages
<1> HIDE DEF orphaned
<1> DEFINE n == Cardinality(Posted(c))
           a == Cardinality(Adders(c))
           k == Cardinality(Committed(c))
           n2 == Cardinality(Posted(c)')
           a2 == Cardinality(Adders(c)')
           most == 1 + lost + overlaps
<1>7. /\ n \in Nat /\ a \in Nat /\ k \in Nat /\ most \in Nat
      /\ IsFiniteSet(S) /\ IsFiniteSet(Adders(c))
  BY AccountNumbers DEF Grounds
<1>8. n2 = n - 1 /\ n2 \in Nat
  BY <1>1, <1>7, FS_RemoveElement, FS_CardinalityType
<1>9. a2 \in Nat /\ a2 <= a + 1 /\ (Holders(c) = {} => a2 = a)
  <2>1. CASE orphaned = {}
    <3>1. Adders(c)' = Adders(c)
      BY <1>4, <2>1
    <3> QED
      BY <1>7, <3>1
  <2>2. CASE orphaned # {}
    <3>1. PICK x \in orphaned : TRUE
      BY <2>2
    <3>2. Adders(c)' = Adders(c) \cup {x} /\ Holders(c) # {}
      BY <1>4, <1>5, <1>6, <3>1
    <3>3. CASE x \in Adders(c)
      <4>1. Adders(c)' = Adders(c)
        BY <3>2, <3>3
      <4>2. a2 = a /\ a \in Nat
        BY <1>7, <4>1
      <4> HIDE DEF a, a2
      <4> QED
        BY <3>2, <4>2
    <3>4. CASE x \notin Adders(c)
      <4>1. Cardinality(Adders(c) \cup {x}) = Cardinality(Adders(c)) + 1
        BY <1>7, <3>4, FS_AddElement
      <4> QED
        BY <1>7, <3>2, <4>1
    <3> QED
      BY <3>3, <3>4
  <2> QED
    BY <2>1, <2>2
<1>10. /\ n <= most /\ n + a <= most + 1 /\ (~ Settled(c) => n + a <= most)
       /\ ~ Matched(c) => n + k + 1 <= most
  BY DEF Accounted, Within
<1>11. Settled(c) => a2 = a
  BY <1>9 DEF Settled
<1> HIDE DEF n, a, k, n2, a2, most
<1>12. /\ n2 <= most /\ n2 + a2 <= most + 1 /\ n2 + a2 <= most /\ n2 + 1 <= most
       /\ ~ Matched(c) => n2 + k + 1 <= most
  BY <1>7, <1>8, <1>9, <1>10, <1>11
<1> QED
  BY <1>2, <1>3, <1>12 DEF Accounted, Within, n2, k, a2, most

\* A channel that has just been created has no message, and nobody has chosen it.
LEMMA NewbornAccounted ==
  ASSUME BoardInv, Grounds, StandStill, NEW c, c = nextId
  PROVE  Accounted(c)'
<1>1. /\ \A x \in Tasks(key) : Alike(tasks'[x], tasks[x])
      /\ messages' \subseteq messages /\ UNCHANGED <<key, lost, overlaps>>
  BY DEF StandStill
<1>2. nextId \in Nat
  BY BoardNumbers
<1>3. Posted(c)' = {}
  <2>1. \A m \in messages : m.channel # c
    BY <1>2, BoardNumbers DEF Grounds, Aged
  <2> QED
    BY <1>1, <2>1 DEF Posted
<1>4. Committed(c)' = {}
  <2>1. \A x \in Tasks(key) : ~ BoundFor(tasks[x], c)
    BY <1>2, BoardNumbers DEF Grounds, Aged, BoundFor, Busy
  <2> QED
    BY <1>1, <2>1, AlikeCounts DEF Committed
<1>5. Adders(c)' \subseteq Workers
  BY <1>1 DEF Adders, Workers, MayAdd, MayChoose, BoundFor, Persisting, Busy, Alike
<1> DEFINE a2 == Cardinality(Adders(c)')
           w == Cardinality(Workers)
<1>6. IsFiniteSet(Workers) /\ w \in Nat /\ w <= 1 + overlaps /\ overlaps \in Nat /\ lost \in Nat
  BY AccountNumbers DEF Grounds, Counted
<1>7. a2 \in Nat /\ a2 <= w
  BY <1>5, <1>6, FS_Subset, FS_CardinalityType
<1>8. Cardinality({}) = 0
  BY FS_EmptySet
<1> HIDE DEF a2, w
<1>9. /\ 0 <= 1 + lost + overlaps /\ 0 + a2 <= 1 + lost + overlaps
      /\ 0 + a2 <= 1 + lost + overlaps + 1
      /\ 0 + 1 <= 1 + lost + overlaps /\ 0 + 0 + 1 <= 1 + lost + overlaps
  BY <1>6, <1>7
<1> QED
  BY <1>1, <1>3, <1>4, <1>8, <1>9 DEF Accounted, Within, a2

\* The guild's steps take messages away, or give a channel that has none yet.
LEMMA StandStillAccounted ==
  ASSUME BoardInv, Grounds, GuildFollows, AllAccounted, StandStill
  PROVE  AllAccounted'
<1> SUFFICES ASSUME ~ overlapped', NEW c \in ChannelIds' PROVE Accounted(c)'
  BY DEF AllAccounted
<1>1. ~ overlapped /\ (c \in ChannelIds \/ c = nextId)
  BY DEF GuildFollows
<1>2. CASE c \notin ChannelIds
  BY <1>1, <1>2, NewbornAccounted
<1>3. CASE c \in ChannelIds
  <2>1. Accounted(c)
    BY <1>1, <1>3 DEF AllAccounted
  <2>2. /\ \A x \in Tasks(key) : Alike(tasks'[x], tasks[x])
        /\ UNCHANGED <<key, row, lost, overlaps>>
        /\ messages' = messages \/ \E m \in messages : messages' = messages \ {m}
    BY DEF StandStill
  <2>3. CASE \E m \in messages : messages' = messages \ {m} /\ m.channel = c
    BY <2>1, <2>2, <2>3, DeletedAccounted
  <2>4. CASE messages' = messages \/ \E m \in messages : messages' = messages \ {m} /\ m.channel # c
    <3>1. Posted(c)' = Posted(c)
      BY <2>4 DEF Posted
    <3>2. ASSUME NEW x \in Tasks(key), MayAdd(tasks[x], c, Posted(c)), Settled(c)
          PROVE  WillFind(tasks[x], c, Posted(c)) /\ tasks[x] # NoTask
      BY <3>2 DEF Settled, Adders, MayAdd, MayChoose, BoundFor, Persisting
    <3>3. ASSUME NEW x \in Tasks(key)
          PROVE  /\ MayAdd(tasks'[x], c, Posted(c)) =>
                      /\ MayAdd(tasks[x], c, Posted(c))
                      /\ Settled(c) => WillFind(tasks'[x], c, Posted(c))
                 /\ Persisting(tasks'[x]) /\ tasks'[x].message \in Posted(c) <=>
                      Persisting(tasks[x]) /\ tasks[x].message \in Posted(c)
                 /\ ~ Matched(c) /\ BoundFor(tasks'[x], c) => BoundFor(tasks[x], c)
      <4>1. Alike(tasks'[x], tasks[x])
        BY <2>2
      <4>2. /\ Persisting(tasks'[x]) <=> Persisting(tasks[x])
            /\ Persisting(tasks[x]) => tasks'[x].message = tasks[x].message
            /\ BoundFor(tasks'[x], c) <=> BoundFor(tasks[x], c)
            /\ MayAdd(tasks'[x], c, Posted(c)) <=> MayAdd(tasks[x], c, Posted(c))
            /\ tasks[x] # NoTask =>
                 (WillFind(tasks'[x], c, Posted(c)) <=> WillFind(tasks[x], c, Posted(c)))
        BY <4>1, AlikeCounts
      <4> QED
        BY <3>2, <4>2
    <3> QED
      BY <2>1, <2>2, <3>1, <3>3, CalmStep
  <2> QED
    BY <2>2, <2>3, <2>4
<1> QED
  BY <1>2, <1>3

\* A coroutine begins: it is one adder more, and the overlap accounts for it unless it
\* is alone; when all is settled it will find the row's message.
LEMMA BeginsAccounted ==
  ASSUME BoardInv, Grounds, NEW c, Accounted(c), NEW t \in Tasks(key), Begins(t)
  PROVE  Accounted(c)'
<1> DEFINE S == Posted(c)
<1>1. /\ ~ Busy(t) /\ \A x \in Tasks(key) \ {t} : Alike(tasks'[x], tasks[x])
      /\ tasks'[t] # NoTask /\ tasks'[t].at \in {"config", "write", "row"}
      /\ tasks'[t].does = "reconcile" => tasks'[t].at = "config"
      /\ tasks'[t].does = "open" => IsDispute /\ content = 0
      /\ overlaps' = IF Workers # {} THEN overlaps + 1 ELSE overlaps
      /\ UNCHANGED <<key, row, messages, lost>>
  BY DEF Begins
<1>2. Posted(c)' = S /\ Matched(c)' = Matched(c)
  BY <1>1 DEF Posted, Matched, IsGuide
<1>3. /\ ~ Persisting(tasks'[t]) /\ ~ BoundFor(tasks'[t], c)
      /\ ~ Persisting(tasks[t]) /\ ~ BoundFor(tasks[t], c) /\ ~ MayAdd(tasks[t], c, S)
  BY <1>1 DEF Persisting, BoundFor, MayAdd, MayChoose, Busy
<1>4. ASSUME NEW x \in Tasks(key)
      PROVE  /\ Persisting(tasks'[x]) <=> Persisting(tasks[x])
             /\ Persisting(tasks[x]) => tasks'[x].message = tasks[x].message
             /\ BoundFor(tasks'[x], c) <=> BoundFor(tasks[x], c)
             /\ x # t => (MayAdd(tasks'[x], c, S) <=> MayAdd(tasks[x], c, S))
             /\ x # t /\ tasks[x] # NoTask =>
                  (WillFind(tasks'[x], c, S) <=> WillFind(tasks[x], c, S))
  <2>1. CASE x = t
    BY <1>3, <2>1
  <2>2. CASE x # t
    BY <1>1, <2>2, AlikeCounts
  <2> QED
    BY <2>1, <2>2
<1>5. Holders(c)' = Holders(c) /\ Committed(c)' = Committed(c)
  BY <1>1, <1>2, <1>4 DEF Holders, Committed
<1>6. Kept(c)' = Kept(c)
  BY <1>1, <1>2, <1>5 DEF Kept
<1>7. /\ t \notin Adders(c) /\ Adders(c) \subseteq Adders(c)'
      /\ Adders(c)' \subseteq Adders(c) \cup {t}
  BY <1>1, <1>2, <1>3, <1>4 DEF Adders
<1>8. ASSUME Settled(c) PROVE Settled(c)'
  <2>1. tasks'[t].does # "open"
    <3>1. messages # {}
      BY <1>8 DEF Settled, Posted
    <3> QED
      BY <1>1, <3>1 DEF Grounds, OpenedFirst
  <2>2. WillFind(tasks'[t], c, S)
    BY <1>1, <2>1 DEF WillFind
  <2>3. ASSUME NEW x \in Adders(c)' PROVE WillFind(tasks'[x], c, S)
    <3>1. CASE x = t
      BY <2>2, <3>1
    <3>2. CASE x # t
      <4>1. x \in Adders(c) /\ x \in Tasks(key)
        BY <1>1, <1>7, <2>3, <3>2 DEF Adders
      <4>2. tasks[x] # NoTask /\ WillFind(tasks[x], c, S)
        BY <1>8, <4>1 DEF Settled, Adders, MayAdd, MayChoose, BoundFor, Persisting
      <4> QED
        BY <1>4, <3>2, <4>1, <4>2
    <3> QED
      BY <3>1, <3>2
  <2> QED
    BY <1>1, <1>2, <1>5, <1>8, <2>3 DEF Settled
<1> DEFINE n == Cardinality(Posted(c))
           a == Cardinality(Adders(c))
           k == Cardinality(Committed(c))
           a2 == Cardinality(Adders(c)')
           most == 1 + lost + overlaps
           most2 == 1 + lost' + overlaps'
<1>9. /\ n \in Nat /\ a \in Nat /\ k \in Nat /\ most \in Nat /\ lost \in Nat /\ overlaps \in Nat
      /\ IsFiniteSet(Adders(c))
  BY AccountNumbers DEF Grounds
<1>10. a2 \in Nat /\ a2 <= a + 1
  <2>1. /\ IsFiniteSet(Adders(c) \cup {t})
        /\ Cardinality(Adders(c) \cup {t}) = Cardinality(Adders(c)) + 1
    BY <1>7, <1>9, FS_AddElement
  <2> QED
    BY <1>7, <2>1, FS_Subset, FS_CardinalityType
<1>11. /\ n <= most /\ n + a <= most + 1
       /\ ~ Settled(c) => n + a <= most
       /\ ~ Kept(c) => n + 1 <= most
       /\ ~ Matched(c) => n + k + 1 <= most
  BY DEF Accounted, Within
<1>12. CASE Workers # {}
  <2>1. most2 = most + 1
    BY <1>1, <1>9, <1>12
  <2> HIDE DEF n, a, k, a2, most, most2
  <2>2. /\ n <= most2 /\ n + a2 <= most2 + 1
        /\ ~ Settled(c)' => n + a2 <= most2
        /\ ~ Kept(c) => n + 1 <= most2
        /\ ~ Matched(c) => n + k + 1 <= most2
    BY <1>8, <1>9, <1>10, <1>11, <2>1
  <2> QED
    BY <1>2, <1>5, <1>6, <2>2 DEF Accounted, Within, n, k, a2, most2
<1>13. CASE Workers = {}
  <2>1. most2 = most
    BY <1>1, <1>9, <1>13
  <2>2. \A x \in Tasks(key) : tasks[x] = NoTask
    BY <1>13 DEF Workers, Busy
  <2>3. Adders(c) = {} /\ Holders(c) = {}
    BY <2>2 DEF Adders, Holders, MayAdd, MayChoose, BoundFor, Persisting
  <2>4. a = 0
    BY <2>3, FS_EmptySet
  <2>5. ~ Settled(c) => ~ Matched(c) \/ ~ Kept(c)
    BY <2>3 DEF Settled, Kept
  <2> HIDE DEF n, a, k, a2, most, most2
  <2>6. ~ Settled(c) => n + 1 <= most
    BY <1>9, <1>11, <2>5
  <2>7. /\ n <= most2 /\ n + a2 <= most2 + 1
        /\ ~ Settled(c)' => n + a2 <= most2
        /\ ~ Kept(c) => n + 1 <= most2
        /\ ~ Matched(c) => n + k + 1 <= most2
    BY <1>8, <1>9, <1>10, <1>11, <2>1, <2>4, <2>6
  <2> QED
    BY <1>2, <1>5, <1>6, <2>7 DEF Accounted, Within, n, k, a2, most2
<1> QED
  BY <1>12, <1>13

\* The bot dies: every message that was about to be persisted is accounted for.
LEMMA CrashAccounted ==
  ASSUME BoardInv, Grounds, NEW c, Accounted(c), Crash
  PROVE  Accounted(c)'
<1> DEFINE persisting == {t \in Tasks(key) : At(t, "persist")}
           n == Cardinality(Posted(c))
           a == Cardinality(Adders(c))
           k == Cardinality(Committed(c))
           p == Cardinality(persisting)
           most == 1 + lost + overlaps
           most2 == 1 + lost' + overlaps'
<1>1. /\ tasks' = [t \in Tasks(key) |-> NoTask] /\ lost' = lost + Cardinality(persisting)
      /\ UNCHANGED <<key, row, messages, overlaps>>
  BY DEF Crash
<1>2. Posted(c)' = Posted(c) /\ Matched(c)' = Matched(c)
  BY <1>1 DEF Posted, Matched, IsGuide
<1>3. Adders(c)' = {} /\ Committed(c)' = {} /\ Holders(c)' = {}
  BY <1>1 DEF Adders, Committed, Holders, MayAdd, MayChoose, BoundFor, Persisting
<1>4. Cardinality({}) = 0
  BY FS_EmptySet
<1>5. /\ n \in Nat /\ a \in Nat /\ k \in Nat /\ most \in Nat /\ lost \in Nat /\ overlaps \in Nat
      /\ IsFiniteSet(Workers)
  BY AccountNumbers DEF Grounds, Counted
<1>6. persisting \subseteq Workers
  BY DEF Workers, At
<1>7. IsFiniteSet(persisting) /\ p \in Nat
  BY <1>5, <1>6, FS_Subset, FS_CardinalityType
<1>8. Holders(c) \subseteq persisting
  BY DEF Holders, Persisting, At, Busy
<1>9. Holders(c) # {} => p >= 1
  BY <1>7, <1>8, FS_EmptySet
<1>10. ~ Kept(c)' => ~ Kept(c) \/ p >= 1
  BY <1>1, <1>2, <1>3, <1>9 DEF Kept
<1>11. /\ n <= most
       /\ ~ Kept(c) => n + 1 <= most
       /\ ~ Matched(c) => n + k + 1 <= most
  BY DEF Accounted, Within
<1>12. most2 = most + p
  BY <1>1, <1>5, <1>7
<1> HIDE DEF n, a, k, p, most, most2
<1>13. /\ n <= most2 /\ n + 0 <= most2 + 1 /\ n + 0 <= most2
       /\ ~ Kept(c)' => n + 1 <= most2
       /\ ~ Matched(c) => n + 0 + 1 <= most2
  BY <1>5, <1>7, <1>10, <1>11, <1>12
<1> QED
  BY <1>2, <1>3, <1>4, <1>13 DEF Accounted, Within, n, most2

-----------------------------------------------------------------------------
(* Second messages.                                                        *)

\* Every step of the board keeps the account.
LEMMA CauseStepSound ==
  ASSUME BoardInv, BoardInv', CauseInv, [Next]_vars
  PROVE  CauseInv'
<1>1. GuildFollows /\ GuildAged' /\ PersistsTheOne' /\ GuildAged /\ Grounds /\ AllAccounted
  <2>1. GuildStep
    BY StepsOfTheGuild DEF BoardInv, GuildInv
  <2> QED
    BY <2>1, GuildStepFollows DEF CauseInv, BoardInv, GuildFollows
<1>2. ASSUME NEW t \in Tasks(key), Works(t), TaskStep(t) \/ FailTask(t)
      PROVE  Grounds' /\ AllAccounted'
  <2>1. Grounds'
    BY <1>1, <1>2, WorksKeepsGrounds
  <2>2. UNCHANGED <<channels, overlapped>>
    BY <1>2 DEF Works, guild
  <2>3. ASSUME ~ overlapped, NEW c \in ChannelIds PROVE Accounted(c)'
    BY <1>1, <1>2, <2>3, TaskStepAccounted DEF AllAccounted
  <2> QED
    BY <2>1, <2>2, <2>3 DEF AllAccounted, ChannelIds
<1>3. ASSUME NEW t \in Tasks(key), Begins(t) PROVE Grounds' /\ AllAccounted'
  <2>1. Grounds'
    BY <1>1, <1>3, BeginsKeepsGrounds
  <2>2. UNCHANGED channels /\ (overlapped => overlapped')
    BY <1>1, <1>3 DEF Begins, GuildFollows
  <2>3. ASSUME ~ overlapped, NEW c \in ChannelIds PROVE Accounted(c)'
    BY <1>1, <1>3, <2>3, BeginsAccounted DEF AllAccounted
  <2> QED
    BY <2>1, <2>2, <2>3 DEF AllAccounted, ChannelIds
<1>4. ASSUME StandStill PROVE Grounds' /\ AllAccounted'
  BY <1>1, <1>4, StandStillKeepsGrounds, StandStillAccounted
<1>5. ASSUME Crash PROVE Grounds' /\ AllAccounted'
  <2>1. Grounds'
    BY <1>1, <1>5, CrashKeepsGrounds
  <2>2. UNCHANGED <<channels, overlapped>>
    BY <1>5 DEF Crash
  <2>3. ASSUME ~ overlapped, NEW c \in ChannelIds PROVE Accounted(c)'
    BY <1>1, <1>5, <2>3, CrashAccounted DEF AllAccounted
  <2> QED
    BY <2>1, <2>2, <2>3 DEF AllAccounted, ChannelIds
<1> QED
  BY <1>1, <1>2, <1>3, <1>4, <1>5, StepsOfTheBoard DEF CauseInv

\* At most one channel is there, an operator's; nothing has been sent or started.
LEMMA CauseInitSound == ASSUME BoardInit PROVE CauseInv
<1>1. /\ nextId = 3 /\ config.channel = 0 /\ \A c \in ChannelIds : c = 2
      /\ \A a \in Admins(key) : setups[a].at = "idle"
  <2>1. channels = {} \/ channels \in MadeByOperators(2)
    BY DEF BoardInit, SetupInit
  <2>2. \A c \in channels : c.id = 2
    BY <2>1 DEF MadeByOperators
  <2> QED
    BY <2>2 DEF BoardInit, SetupInit, NoSetup, ChannelIds
<1>2. /\ row.channel = 0 /\ row.message = 0 /\ messages = {} /\ sent = 0 /\ updater = 0
      /\ lost = 0 /\ overlaps = 0 /\ \A t \in Tasks(key) : tasks[t] = NoTask
  BY DEF BoardInit, NoRow
<1>3. Workers = {} /\ 0 \notin ChannelIds
  BY <1>1, <1>2 DEF Workers, Busy
<1>4. GuildAged /\ PersistsTheOne
  BY <1>1 DEF GuildAged, PersistsTheOne
<1>5. AllAccounted
  <2> SUFFICES ASSUME NEW c \in ChannelIds PROVE Accounted(c)
    BY DEF AllAccounted
  <2>1. Posted(c) = {} /\ Adders(c) = {} /\ Committed(c) = {}
    BY <1>2 DEF Posted, Adders, Committed, MayAdd, MayChoose, BoundFor, Persisting
  <2>2. Cardinality({}) = 0
    BY FS_EmptySet
  <2> QED
    BY <1>2, <2>1, <2>2 DEF Accounted, Within
<1>6. Counted
  BY <1>2, <1>3, FS_EmptySet DEF Counted
<1>7. Aged
  BY <1>1, <1>2 DEF Aged, Busy
<1>8. OwnMessages /\ ConfigFollows /\ RowFirst /\ OpenedFirst
  BY <1>2, <1>3 DEF OwnMessages, Persisting, ConfigFollows, RowFirst, OpenedFirst, Busy
<1> QED
  BY <1>4, <1>5, <1>6, <1>7, <1>8 DEF CauseInv, Grounds

\* What is accounted for leaves no more second messages than it has causes.
LEMMA AccountedOrphans ==
  ASSUME BoardInv, Grounds, NEW c, Accounted(c)
  PROVE  Cardinality(Orphans(c)) <= lost + overlaps
<1> DEFINE f == [m \in Orphans(c) |-> m.id]
           ids == {f[m] : m \in Orphans(c)}
           n == Cardinality(Posted(c))
           o == Cardinality(Orphans(c))
           i == Cardinality(ids)
           b == lost + overlaps
<1>1. Orphans(c) \subseteq messages
  BY DEF Orphans
<1>2. f \in Bijection(Orphans(c), ids)
  <2>1. \A m, x \in Orphans(c) : f[m] = f[x] => m = x
    BY <1>1 DEF BoardInv, IdsUnique
  <2> QED
    BY <2>1 DEF Bijection, Injection, Surjection, IsInjective
<1>3. ExistsBijection(Orphans(c), ids)
  BY <1>2 DEF ExistsBijection
<1>4. ids \subseteq Posted(c)
  BY DEF Orphans, Posted
<1>5. /\ IsFiniteSet(Posted(c)) /\ n \in Nat /\ b \in Nat
      /\ n <= b + 1 /\ (~ Kept(c) => n <= b)
  <2>1. /\ IsFiniteSet(Posted(c)) /\ Cardinality(Posted(c)) \in Nat
        /\ lost \in Nat /\ overlaps \in Nat
    BY AccountNumbers DEF Grounds
  <2> QED
    BY <2>1 DEF Accounted, Within
<1>6. IsFiniteSet(Orphans(c))
  BY <1>1, FS_Subset DEF Grounds, Counted
<1>7. i = o
  BY <1>3, <1>6, FS_Bijection
<1>8. Kept(c) => \E x \in Posted(c) : x \notin ids
  <2>1. CASE row.message \in Posted(c)
    BY <2>1 DEF Orphans
  <2>2. CASE Holders(c) # {}
    <3>1. PICK t \in Tasks(key) : Persisting(tasks[t]) /\ tasks[t].message \in Posted(c)
      BY <2>2 DEF Holders
    <3>2. tasks[t].message \notin ids
      BY <3>1 DEF Orphans, At, Persisting, Busy
    <3> QED
      BY <3>1, <3>2
  <2> QED
    BY <2>1, <2>2 DEF Kept
<1> HIDE DEF ids, f
<1>9. i \in Nat /\ i <= n /\ (ids # Posted(c) => i < n)
  BY <1>4, <1>5, FS_Subset, FS_CardinalityType
<1>10. CASE Kept(c)
  <2>1. i < n
    BY <1>8, <1>9, <1>10
  <2> HIDE DEF n, o, i, b
  <2>2. o <= b
    BY <1>5, <1>7, <1>9, <2>1
  <2> QED
    BY <2>2 DEF o, b
<1>11. CASE ~ Kept(c)
  <2> HIDE DEF n, o, i, b
  <2>1. o <= b
    BY <1>5, <1>7, <1>9, <1>11
  <2> QED
    BY <2>1 DEF o, b
<1> QED
  BY <1>10, <1>11

\* No reconciliation, tick or dispute posts an embed twice of its own accord: for any
\* number of coroutines, restarts, deleted messages and moved channels, each message
\* that a channel has beside the one that the row names goes back to a coroutine that
\* ended between its send and its persist, or to one that started beside another, as
\* long as no two admins run the set-up at once.
THEOREM OrphansCaused == Spec => []OrphansHaveCause
<1>1. BoardInit => BoardInv /\ CauseInv
  BY BoardInitSound, CauseInitSound
<1>2. BoardInv /\ CauseInv /\ [Next]_vars => BoardInv' /\ CauseInv'
  BY BoardStepSound, CauseStepSound
<1>3. BoardInv /\ CauseInv => OrphansHaveCause
  BY AccountedOrphans DEF CauseInv, AllAccounted, OrphansHaveCause
<1> QED
  BY <1>1, <1>2, <1>3, PTL DEF Spec

=============================================================================
