----------------------------- MODULE GuildSetup -----------------------------
(***************************************************************************)
(* /admin-setup: the channel factory (setup/channel_factory.py), the ids   *)
(* it persists in dw.global_config (setup/global_config_writer.py) and the *)
(* command around them (cogs/admin.py).  The factory treats its channels   *)
(* one after the other and alike, so one of them is followed: `key', any   *)
(* of Keys, chosen at the start, with its category.  What operators made   *)
(* by hand before, under the names of the layout, the factory reuses as it *)
(* is.                                                                     *)
(*                                                                         *)
(* Looking for a channel and creating it are two steps, because the        *)
(* handler awaits in between.  A dry run changes nothing and is left out.  *)
(***************************************************************************)
EXTENDS Integers, FiniteSets

CONSTANTS
  Keys,                        \* of CHANNEL_SPECS
  Admins(_),                   \* concurrent calls of /admin-setup, for a key that is followed
  RolesGiven(_),               \* bound: which of the roles are passed to the command
  OperatorOverwrites(_),       \* bound: what a place made by an operator may allow and deny
  MaxIds,                      \* bound: categories and channels, the operators' two included
  MaxSetups,                   \* bound: calls of /admin-setup
  MaxDeletions,                \* bound: channels and messages operators delete
  MaxFaults                    \* bound: failing calls and crashes

VARIABLES
  key,                         \* the channel that is followed
  categories, channels,        \* those of the guild that have the spec's names
  nextId,
  config,                      \* dw.global_config: channel_id_<key>, role ids or not
  setups,                      \* the calls of /admin-setup
  called, overlapped,          \* how many there were; whether two overlapped
  deletions, faults

guild == <<key, categories, channels, nextId, config, setups, called, overlapped>>

-----------------------------------------------------------------------------
(* Permissions.  An overwrite allows and denies; the rest is inherited.    *)

StaffRoles == {"cashier", "admin"}
Roles == StaffRoles \cup {"everyone", "bot"}
Permissions == {"view", "send"}
Overwrites == [Roles -> [allow : SUBSET Permissions, deny : SUBSET Permissions]]
Inherit == [allow |-> {}, deny |-> {}]
Hidden == [allow |-> {}, deny |-> {"view"}]
ReadOnly == [allow |-> {"view"}, deny |-> {"send"}]
Reader == [allow |-> {"view"}, deny |-> {}]
Full == [allow |-> {"view", "send"}, deny |-> {}]

Boards == {"how_to_deposit", "how_to_withdraw", "online_cashiers"}
Counters == {"deposit", "withdraw"}
CashierOnly == {"cashier_alerts", "cashier_onboarding"}
AdminOnly == {"disputes", "audit_log"}

CategoryOf(k) ==
  CASE k \in Boards \cup Counters        -> "banking"
    [] k \in CashierOnly \cup {"disputes"} -> "cashier"
    [] k = "audit_log"                     -> "admin"

EveryoneOverwrite(k) ==
  CASE k \in Boards -> ReadOnly [] k \in Counters -> Full [] OTHER -> Hidden

CashierOverwrite(k) ==
  CASE k \in Boards -> ReadOnly [] k \in Counters -> Reader
    [] k \in CashierOnly -> Full [] OTHER -> Hidden

AdminOverwrite(k) == Full
BotOverwrite(k) == Full

\* The overwrites of roles that were not passed to the command are left out.
WithRoles(given, ow) ==
  [r \in Roles |-> IF r \in StaffRoles \ given THEN Inherit ELSE ow[r]]

ChannelOverwrites(k, given) ==
  WithRoles(given, [everyone |-> EveryoneOverwrite(k), cashier |-> CashierOverwrite(k),
                    admin |-> AdminOverwrite(k), bot |-> BotOverwrite(k)])

CategoryOverwrites(c, given) ==
  WithRoles(given,
    [everyone |-> IF c = "banking" THEN Reader ELSE Hidden,
     cashier  |-> CASE c = "admin" -> Hidden [] c = "cashier" -> Reader [] OTHER -> Inherit,
     admin    |-> Full,
     bot      |-> Full])

\* Discord's rule: everyone may do everything, then the overwrite for everyone,
\* then the role's or the member's.
Apply(perms, o) == (perms \ o.deny) \cup o.allow
Can(r, place) ==
  LET all == Apply(Permissions, place.ow["everyone"])
  IN  IF r = "everyone" THEN all ELSE Apply(all, place.ow[r])

ASSUME SetupAssumption ==
  /\ Keys \subseteq Boards \cup Counters \cup CashierOnly \cup AdminOnly
  /\ \A k \in Keys : /\ RolesGiven(k) \subseteq SUBSET StaffRoles
                     /\ OperatorOverwrites(k) \subseteq Overwrites
  /\ {MaxIds, MaxSetups, MaxDeletions, MaxFaults} \subseteq Nat /\ MaxIds > 1

-----------------------------------------------------------------------------
NoSetup == [at |-> "idle"]
Ids == 1 .. MaxIds
ChannelIds == {c.id : c \in channels}

SetupTypeOK ==
  /\ key \in Keys
  /\ categories \subseteq [id : Ids, ow : Overwrites]
  /\ channels \subseteq [id : Ids, ow : Overwrites]
  /\ nextId \in 1 .. MaxIds + 1
  /\ config \in [channel : 0 .. MaxIds, roles : SUBSET StaffRoles]
  /\ setups \in [Admins(key) -> {NoSetup} \cup
       [at : {"category", "newcategory", "channel", "newchannel", "persist", "roles", "welcome"},
        roles : SUBSET StaffRoles, category : 0 .. MaxIds, channel : 0 .. MaxIds, deleted : 0 .. MaxDeletions]]
  /\ called \in 0 .. MaxSetups /\ overlapped \in BOOLEAN
  /\ deletions \in 0 .. MaxDeletions /\ faults \in 0 .. MaxFaults

\* The place of that name which operators made before the first setup, if they did.
MadeByOperators(id) == {{}} \cup {{[id |-> id, ow |-> o]} : o \in OperatorOverwrites(key)}

SetupInit ==
  /\ key \in Keys
  /\ categories \in MadeByOperators(1)
  /\ channels \in IF categories = {} THEN {{}} ELSE MadeByOperators(2)
  /\ nextId = 3
  /\ config = [channel |-> 0, roles |-> {}]
  /\ setups = [a \in Admins(key) |-> NoSetup]
  /\ called = 0 /\ overlapped = FALSE /\ deletions = 0 /\ faults = 0

-----------------------------------------------------------------------------
(* The command.                                                            *)

StartSetup(a, given) ==
  /\ setups[a] = NoSetup /\ called < MaxSetups
  /\ setups' = [setups EXCEPT ![a] =
       [at |-> "category", roles |-> given, category |-> 0, channel |-> 0, deleted |-> deletions]]
  /\ called' = called + 1
  /\ overlapped' = (overlapped \/ \E x \in Admins(key) : setups[x] # NoSetup)
  /\ UNCHANGED <<key, categories, channels, nextId, config, deletions, faults>>

FindCategory(a) ==
  /\ setups[a].at = "category"
  /\ \/ /\ categories = {}
        /\ setups' = [setups EXCEPT ![a].at = "newcategory"]
     \/ \E c \in categories :
          setups' = [setups EXCEPT ![a].at = "channel", ![a].category = c.id]
  /\ UNCHANGED <<key, categories, channels, nextId, config, called, overlapped, deletions, faults>>

CreateCategory(a) ==
  /\ setups[a].at = "newcategory" /\ nextId \in Ids
  /\ categories' = categories \cup
       {[id |-> nextId, ow |-> CategoryOverwrites(CategoryOf(key), setups[a].roles)]}
  /\ setups' = [setups EXCEPT ![a].at = "channel", ![a].category = nextId]
  /\ nextId' = nextId + 1
  /\ UNCHANGED <<key, channels, config, called, overlapped, deletions, faults>>

\* Mutant of Reusable: the configured channel, instead of one with the name.
ReusableConfigured == {c \in channels : c.id = config.channel}

\* By name, below a category of the right name.
Reusable == channels

FindChannel(a) ==
  /\ setups[a].at = "channel"
  /\ \/ /\ Reusable = {}
        /\ setups' = [setups EXCEPT ![a].at = "newchannel"]
     \/ \E c \in Reusable :
          setups' = [setups EXCEPT ![a].at = "persist", ![a].channel = c.id, ![a].deleted = deletions]
  /\ UNCHANGED <<key, categories, channels, nextId, config, called, overlapped, deletions, faults>>

\* The bot can see the category.
Sees(id) == \E c \in categories : c.id = id /\ "view" \in Can("bot", c)

CreateChannel(a) ==
  /\ setups[a].at = "newchannel" /\ nextId \in Ids
  /\ Sees(setups[a].category)
  /\ channels' = channels \cup {[id |-> nextId, ow |-> ChannelOverwrites(key, setups[a].roles)]}
  /\ setups' = [setups EXCEPT ![a].at = "persist", ![a].channel = nextId, ![a].deleted = deletions]
  /\ nextId' = nextId + 1
  /\ UNCHANGED <<key, categories, config, called, overlapped, deletions, faults>>

\* Discord refuses a channel below a category that the bot cannot see: the call raises,
\* and the command with it.
RefuseChannel(a) ==
  /\ setups[a].at = "newchannel" /\ ~ Sees(setups[a].category)
  /\ setups' = [setups EXCEPT ![a] = NoSetup]
  /\ UNCHANGED <<key, categories, channels, nextId, config, called, overlapped, deletions, faults>>

\* Mutant of Upserted: an id that is there already is kept.
InsertedOnly(old, new) == IF old = 0 THEN new ELSE old

\* ON CONFLICT (key) DO UPDATE.
Upserted(old, new) == new

PersistChannelId(a) ==
  /\ setups[a].at = "persist"
  /\ config' = [config EXCEPT !.channel = Upserted(@, setups[a].channel)]
  /\ setups' = [setups EXCEPT ![a].at = "roles"]
  /\ UNCHANGED <<key, categories, channels, nextId, called, overlapped, deletions, faults>>

PersistRoleIds(a) ==
  /\ setups[a].at = "roles"
  /\ config' = [config EXCEPT !.roles = @ \cup setups[a].roles]
  /\ setups' = [setups EXCEPT ![a].at = "welcome"]
  /\ UNCHANGED <<key, categories, channels, nextId, called, overlapped, deletions, faults>>

\* The command is over, after the reconciliation that its last step starts.
EndSetup(a) ==
  /\ setups[a].at = "welcome"
  /\ setups' = [setups EXCEPT ![a] = NoSetup]
  /\ UNCHANGED <<key, categories, channels, nextId, config, called, overlapped, deletions, faults>>

\* A call to Discord or to the database raises, and the command with it.
FailSetup(a) ==
  /\ setups[a] # NoSetup /\ faults < MaxFaults
  /\ setups' = [setups EXCEPT ![a] = NoSetup]
  /\ faults' = faults + 1
  /\ UNCHANGED <<key, categories, channels, nextId, config, called, overlapped, deletions>>

\* An operator deletes the channel.
DeleteChannel(c) ==
  /\ c \in channels /\ deletions < MaxDeletions
  /\ channels' = channels \ {c}
  /\ deletions' = deletions + 1
  /\ UNCHANGED <<key, categories, nextId, config, setups, called, overlapped, faults>>

SetupStep(a) ==
  \/ \E given \in RolesGiven(key) : StartSetup(a, given)
  \/ FindCategory(a) \/ CreateCategory(a) \/ FindChannel(a) \/ CreateChannel(a)
  \/ RefuseChannel(a) \/ PersistRoleIds(a) \/ FailSetup(a)

-----------------------------------------------------------------------------
(* Properties.                                                             *)

\* Setups that fail half-way and are run again reuse what is there, whoever made it: the
\* guild never has two of a channel or category, unless two admins ran the command at
\* once.
NoDuplicates == ~ overlapped => Cardinality(categories) <= 1 /\ Cardinality(channels) <= 1

\* A setup that gets past its writes leaves the configuration pointing at a channel
\* that exists, whatever was configured, deleted or half done before, unless one
\* was deleted while it ran (or, when commands overlap, while any of them did).
SetupHealsConfig ==
  \A a \in Admins(key) :
    /\ setups[a].at \in {"roles", "welcome"}
    /\ setups[a].deleted = deletions /\ (overlapped => deletions = 0)
    => config.channel \in ChannelIds

=============================================================================
