# DeathRoll: TLA+ specification

DeathRoll is a Discord casino bot for World of Warcraft gold. Players *deposit* in-game gold with
a human cashier and get a balance in the bot, spend it in games, and *withdraw* it again through a
cashier, less a fee. This directory specifies that program from its source: the PL/pgSQL functions
that move the gold (`ops/alembic/versions/`), the bot that calls them
(`deathroll_deposit_withdraw/`), the shared library (`deathroll_core/`) and the database side of
the second bot, the games (schemas `luck` and `fairness`). TLC checks small
instances; TLAPS proves the main results about the ledger for instances of any size.

Paths below are relative to the repository's root. `PROJECT.json` maps every definition to the
lines it models.

## 1. Inventory

### The parts and the state they keep

| Part | State | Operations | Specified in |
|---|---|---|---|
| Accounts (`core.users`, `core.balances`) | balance, locked balance, ban flag, the treasury row (id 0) | written only by the functions below | `CoreAccounts` |
| Deposit/withdraw ledger (schema `dw`, migrations 0003–0015) | ticket rows, disputes, cashier characters and statistics, configuration | create / confirm / cancel for deposits and withdraws, claim, release, dispute open / resolve / reject, treasury sweep and transfer, ban, unban, set configuration, add and remove characters | `DwLedger` |
| Ticket desk (`cogs/ticket.py`, admins' force-cancel, `workers/ticket_timeout.py`, `workers/claim_idle.py`) | open modals, handlers between two awaits, the workers' lists | `/claim`, `/release`, `/confirm`, `/cancel`, `/cancel-mine`, worker ticks | `TicketDesk`, `TicketThread` |
| Ticket intake (`cogs/deposit.py`, `cogs/withdraw.py`, `tickets/`) | rate limiter, modals, half-created threads | `/deposit`, `/withdraw` | `TicketIntake` |
| Cashier duty (`cogs/cashier.py`, migrations 0009, 0016, `workers/cashier_idle.py`) | status, work sessions, last activity | set status, expire, worker tick | `CashierSessions` |
| Audit log (migrations 0002, 0017 and `workers/audit_chain_verifier.py`) | hash-chained rows, chain head, the verifier's pointer | insert, commit, roll back; a tick of the verifier, by the worker or by `/admin-verify-audit` | `AuditChain` |
| Luck bets (migrations 0020–0023) | bets, raffle periods and pools, totals | apply, resolve, refund, cash out | `LuckBets`, with the ledger `Casino` |
| Fair seeds (migrations 0019, 0024, 0025, `deathroll_core/fairness/`, `ops/scripts/force_rotate.py`, `docs/verifier/`) | server seed, client seed, nonce, history | ensure, rotate, set client seed, draw, force rotate; decoders and verifier | `FairnessSeeds`, `Decoders` |
| Channel set-up (`setup/`, `/admin-setup`) | the guild's categories and channels with their overwrites, ids in `dw.global_config` | the command, step by step | `GuildSetup` |
| Guides, live roster, dispute embeds (`welcome.py`, `cashiers/live_updater.py`, `disputes.py`) | message ids in `dw.dynamic_embeds` and `dw.disputes`, messages | reconcile, edit, tick, post, close | `BoardMessages` |
| Client start-up and shutdown, `PeriodicWorker` | tasks | `on_ready`, start, stop | `BoardMessages` (`on_ready`, the updater), loops and crashes in the modules that have workers |
| Statistics aggregator, metrics, audit channel | derived values | refresh | left out |
| Embeds, input models, configuration, logging | – | – | left out |

### How the parts interact

Every change of gold or of a ticket's status is one call of a PostgreSQL function. The function
runs in one transaction and takes the rows whose gold or status it decides on `FOR UPDATE`, so on
these calls are serialised by the database. Some of what a function decides on it reads unlocked:
the ban flag in `create_deposit_ticket` (0015, line 66) and `apply_bet` (0023, line 206), the
idempotency key, and everywhere the configuration. Everything around a call is concurrent: slash-command handlers and modals are
asyncio tasks that interleave at every `await`; periodic workers fetch a list of rows and then
work through it, call by call, while cashiers, owners and admins act on the same tickets; Discord
may refuse or lose any message; the process may die anywhere, and the database and Discord keep
what they had. The two bots share nothing but the database: the rows of `core.balances` (one
`locked_balance` for withdraws and stakes, one treasury), the ban flag and the audit chain.

### What is hard here

* **Protocol sequences.** A coin can be in five places (a balance, locked, the treasury, swept,
  in game) and a dozen functions move it. `locked_balance` is one number per player for several
  live withdraws: one slip and the next confirm fails for ever with
  `invariant_violation_locked_too_low`.
* **Stale decisions.** Workers act on lists; `/cancel-mine` checks a row it read earlier; a fee
  quoted at creation is charged after the rate has changed.
* **Partial failure.** The thread of a ticket exists before its row does; an answer can be lost
  after the commit; embeds are posted after the call; what follows can raise.
* **Races on a missing row.** `SELECT … FOR UPDATE` locks nothing if there is no row yet.
* **Two bots, one row.** Stakes and withdraws are locked in one number, and a sweep of the treasury
  can take the commission that a refund has to give back.
* **Unlocked checks.** `apply_bet` looks for the idempotency key, and `ensure_seeds` for a row,
  before anything is locked; a ban can be committed between the check of the flag and the insert.
* **Post, then persist.** Every embed is sent first and its id written afterwards, by several
  writers that work on rows they read earlier.
* **Resuming.** The chain verifier goes on from a pointer, in batches, beside a second verifier and
  beside transactions that have drawn an id and not committed.
* **Liveness.** Expired tickets (and the gold they lock) must not stay, although ticks fail.

The list with source lines, and the property that watches each item, is `hazards` in
`PROJECT.json`.

### What makes each part correct

* *Ledger:* gold is conserved, locked gold backs exactly the live withdraws, each credit has one
  cause, quotes are honoured, finished tickets are frozen, statistics agree with tickets.
* *Desk:* a ticket has one holder at a time and one outcome, whoever races; workers never take a
  ticket from a cashier who is not on their list; expired tickets and idle claims end.
* *Thread:* what is announced is what happened.
* *Intake:* a ticket always has a live thread with its owner in it; the limiter grants at most its
  capacity in any window.
* *Duty:* a cashier shown online has a session that counts; idle cashiers leave the roster.
* *Audit log:* no false alarm, nothing skipped by the pointer, everything verified in the end.
* *Bets:* gold is conserved over both bots, locked gold is exactly withdraws and stakes, a key is
  charged once, totals and pools agree with the bets, a ban stops every call but those it overtook.
* *Seeds:* no nonce is used twice, one that no draw used is accounted for by a call that died, each
  draw can be reproduced from a revealed seed, shuffles are fair, forced rotations are audited.
* *Set-up:* repeating a half-done set-up heals it and creates nothing twice.
* *Embeds:* what a task reports as posted is there, a second message has a cause, the roster
  catches up.

## 2. Modules

```
Gold ── CoreAccounts ── DwLedger ── MCDwLedger
                           │  └───── DwLedger_proofs ──┐
                           ├─ implements ─ TicketLifecycle
                           │                     │     │
             TicketDesk ───┴───── implements ────┘     │
                  │                                    │
             TicketThread ── TicketDesk_proofs         │
                                                       │
CoreAccounts ── LuckBets ──┐                           │
DwLedger ──────────────────┴─ Casino ── MCCasino       │
                                 └───── Casino_proofs ─┘

Decoders ── FairnessSeeds ── MCFairnessSeeds
                  └───────── FairnessSeeds_proofs
GuildSetup ── BoardMessages ── MCBoardMessages
                  └─────────── BoardMessages_proofs

AuditChain           TicketIntake           CashierSessions
└ AuditChain_proofs  └ TicketIntake_proofs  └ CashierSessions_proofs
```

**Gold** defines `Total(f)`, the sum of a function over its domain, without recursion: the number
of coins, that is of pairs ⟨x, n⟩ with n ∈ 1..f[x]. That makes sums a matter of cardinalities,
about which the provers' library has theorems. The first lemmas of `DwLedger_proofs` show how
`Total` changes when one entry changes.

**CoreAccounts** holds the account rows. The treasury (`discord_id = 0`) is a variable of its own.
A player's rows in `core.users` and `core.balances` are created together, so one set `registered`
stands for both. The column `version` is incremented everywhere and read nowhere: left out.

**DwLedger** has one action per function. A rejected call changes nothing and is a stuttering step,
as is the idempotent answer to a repeated `confirm_*` of the same cashier. Tickets of both kinds
live in one function `tickets`; character and realm are one model value, factions are left out
(no function reads them), and times are left out (no function of the ledger reads them). The
audit log appears in one place only: its foreign key to `core.users` makes `open_dispute` fail
for a player without an account. `SetConfig` writes one key at a time, as the admin command does.
`create_deposit_ticket` is two steps, `BeginDeposit` that reads the ban flag and
`CreateDepositTicket` that inserts the row, because the flag is not locked; `create_withdraw_ticket`
locks it and is one. Limits are read in the step that uses them, since no property relates a ticket
to the limits of the moment it was opened.

**TicketLifecycle** is the abstract promise: a ticket is opened once, held by at most one cashier,
confirmed and released only in the holder's name, and left alone when it is finished. `DwLedger`
and `TicketDesk` both implement it (`KeepsLifecycle`).

**TicketDesk** adds what surrounds the calls. A `/confirm` modal stays open for as long as its
cashier likes; `/cancel-mine` is two steps with anything in between; each worker is a list and a
position. Deadlines are flags that time raises: `expired` for `expires_at`, and the age of a claim
(fresh, idle after 30 minutes, overdue after two hours). Both of the latter count from the claim,
because no function updates `last_activity_at` of a claimed ticket. `Crash` empties everything
that is in memory.

**TicketThread** extends the desk with the embeds that the handlers post once their call has
returned, each of which may come late, be refused or die with the process. `ContextColumns` is the
column list of `_resolve_ticket_context`: what a handler finds in its row is what it can use. No
property needs the columns, nor the mark of a handler that raised; they are there because a missing
one ends the confirm handler in its middle (section 6).

**TicketIntake** follows one `/deposit` (or `/withdraw`, the steps are the same) from the rate
limiter through the modal, the thread, the database call and the posts, or the teardown. The limiter's
bucket is pruned as the code does it, from its old end up to the first timestamp within the window.
Only errors raised by the function are caught by the code; every other failure ends the handler where
it stands. Discord's threads outlive a crash, the limiter does not.

**CashierSessions** has `set_cashier_status` as one atomic step for a cashier who has a row, and as
two (read nothing; upsert) for one who does not. The worker's list is ordered by last activity,
as its query is, which matters when one entry fails every time.

**AuditChain** takes the hash of a row to be the sequence of all contents up to it: HMACs are
injective and nothing else. A transaction holds the chain-head row from its first insert to its end,
and the id is drawn under that lock. A tick is four steps, because each of its queries sees what is
committed when it starts; the worker and the admin's command may be in it together. Altering,
removing and repairing rows are steps of the environment, behind the triggers' back.

**LuckBets** has the functions of schema `luck`. `apply_bet` is three steps: the unlocked look for
the idempotency key and the reading of rates (`BeginBet`); the lock of the player's balance row and
the reading of the ban flag, which is in another row (`LockBalance`); and the rest (`PlaceBet`).
While a call has the balance row (`Held`), nothing else changes it. A `CHECK` that would fail is a guard, since it rolls the call back. Raffle
periods and the rake rate are changed by operators (no code of the repository does).

**Casino** is the conjunction of both bots: the accounts are the same variables, every step is a
step of one of them and leaves the other's tables alone. A ledger step that would change a balance
row waits while a bet being placed has it.

**Decoders** are pure: where a decoder's bytes come from (the HMAC, then a SHA-256 chain over what
was asked for) for the bot and for the verifier, and the Fisher–Yates shuffles, compared with
reference definitions (arrangements, orders of a shoe). The one-byte decoders are left out.

**FairnessSeeds** numbers server seeds in the order they are generated. A draw is a transaction of
three statements that holds the user's row; its COMMIT and the return of the ticket are two steps,
and the call may die between them, when the nonce is taken and no draw has it. A first call finds no
row and so locks nothing. `force_rotate.py`, for one user (with or without a row) or for all that
have one, commits each rotation before its audit row and may die in between.

**GuildSetup** follows one channel of `CHANNEL_SPECS`, any of them, with its category: the factory
treats them alike, one after the other. Operators may have made a category of that name, and a
channel in it, before the first set-up, with overwrites of their own; the factory reuses such a
place as it is. Of the permissions view and send are kept, evaluated by Discord's rule for
overwrites: a set-up ends at a category that the bot cannot see, and an embed is not posted in a
channel that it cannot write in. The two optional roles of the command are a set.

**BoardMessages** adds the embed of that channel: a guide, the roster or a dispute's, whichever the
channel holds. Content is a number that grows with each change, so an older embed is told from
the current one. `alone` marks a task beside which nothing happened, `lost` and `overlaps` count what
may leave a second message.

## 3. Runs

All bounds are constants of the configurations; two workers finish each run in about three
minutes or less.

| Run | Instance | Shows |
|---|---|---|
| `ledger_gold` | 2 players, 1 cashier, 1 deposit, 2 withdraws, amounts {1, 2}, fee 50 % or 0 | `TypeOK`, `RowsConsistent`, `Conservation`, `LockedBacksWithdraws`, `CreditsAccounted`, `PayoutHonoursQuote` |
| `ledger_cashiers` | 1 player, 2 cashiers, 2 deposits, 1 withdraw, limits that change | `StatsMatchTickets`, `TerminalRowsFrozen`, `KeepsLifecycle` |
| `desk_expiry` | no cashier, 1 deposit, 2 withdraws, fair workers | `ExpiredTicketsEnd` |
| `thread_story` | 2 cashiers, 1 withdraw, posts, fair workers | `ThreadTellsOneStory`, `KeepsLifecycle`, `WorkerNeverStealsClaim`, `IdleClaimsEnd`, `ExpiredTicketsEnd` |
| `intake_open` | 2 users, 2 threads, capacity 1, window 2, clock up to 4 | `TicketsReachable`, `GrantsWithinLimit` |
| `sessions_duty` | 2 cashiers, both players, up to 2 overlapping first calls | `OnlineHasSession`, `IdleCashiersLeave` |
| `sessions_blocked` | 2 cashiers, one not a player | `IdleCashiersLeave` fails (section 6) |
| `audit_chain` | 2 transactions, worker and admin, batches of 2, ids up to 3, two faults | `NoFalseAlarm`, `NothingSkipped`, `EveryRowVerified`, `AlterationReported` |
| `casino` | 1 player, 1 cashier, 1 deposit, 1 withdraw, 2 bets, 2 keys, 2 overlapping calls, a raffle period, rake 0 or 25 % | `CasinoTypeOK`, `CasinoConservation`, `LockedBacksBoth`, `ChargedOncePerKey`, `TotalsMatchBets`, `PoolBacksRakes`, `BanOvertakenOnce` |
| `casino_ban` | the same | `BannedOpenNothing` fails (section 6) |
| `fair_draws` | 2 users, 2 draws and a first call at once, 2 draws in all, one lost after its COMMIT, 3 seeds, 2 of them forced, 2 nonces, one crash of the script; grids up to 5, shoes of up to 4 cards | `NoncesAccounted`, `DrawsReproducible`, `RotationsAudited`, `OutcomesFair` |
| `guild_board` | each of 7 channels, made by operators or not; 2 set-ups, up to 2 tasks, 3 messages, one deletion, one fault | `NoDuplicates`, `SetupHealsConfig`, `DeliveredIsShown`, `OrphansHaveCause`, `RosterCatchesUp` |

The type invariants of the ledger and of the casino are part of their runs, because they say that no
balance, lock or treasury goes below zero; those of the other modules only describe the state.

*Why the bounds are enough.* Two withdraws of one player are the least that can confuse a shared
`locked_balance`; amounts 1 and 2 with a rate of 50 % give a fee that is rounded down and one that
is not; a second rate lets it change between creation and confirmation. Two cashiers are the least
that can compete, and tickets do not interact in the desk except through the workers' lists, for
which `desk_expiry` has three. A window of 2 on a clock up to 4 has timestamps inside, exactly at
and beyond the window's edge. What the ledger's runs show for these numbers is proved for all.
A batch of two rows with three ids has a walk that ends within the log, one resumed in its middle
and a gap left by a roll-back; two faults are an alteration and its repair. One player suffices for
the casino, because no function touches two players' rows; a deposit of 8 pays for a withdraw and a
bet, or for two bets, of 4, whose commission and rake of a quarter leave a stake. Disputes are kept
out of that run (`MCNoDisputes`): they touch the accounts as a payment out of the treasury does, and
the ledger's own runs have them. Three seeds let a seed be rotated away while another user's is
live; two draws are the least that can take one nonce twice, and the first may be the lost one;
grids of up to 5 have shuffles that stop early, at the last index and at all between. In
`guild_board` a channel without an embed has two admins who may overlap, passing no role, one or
both; one with an embed has one admin and, where the embed has several writers, two tasks. What an
operator made is open to all, or closed to all but the admins, the bot included; the deposit guide,
with its two tasks, starts without such a place, the withdraw guide, with one, also with it. Three
more ids than the operators' two let two overlapping set-ups create a place each. One fault and one deletion are enough for every half-done state, since each
is followed by any number of repairs. `MCSymmetry` is used for safety properties only;
`OutcomesFair` is a statement about pure functions and is evaluated in the states before the
first seed, which are few.

*Fairness.* `PeriodicWorker._run` ticks, sleeps and ticks again, and `_safe_tick` swallows what the
tick raises; so a worker that is up starts another tick (`WF` on its first fetch and its end). A
later step of a tick may be pre-empted for ever by a failure or crash before it, hence `SF` on
each call: database, Discord and process do not fail at the same place every time. A failure that
*is* certain (the foreign key in `ExpireOne`) is a guard, so fairness does not wish it away. Users
and cashiers are under no obligation: no fairness on commands. The chain verifier is treated
alike: `WF` on the start of the worker's tick, `SF` on its later steps, none on the admin's command
and none on transactions. Nothing is assumed of
the posts of `thread_story`. The roster's updater has `WF` on its start (`on_ready` follows every
start of the process), on its tick and on a coroutine's next step; its faults are bounded by a
constant, so weak fairness is enough there.

## 4. Proofs

`tlapm` checks the eight `*_proofs` modules, from the assumptions that the modules name: finite
sets of players, cashiers, tickets, bets and raffle periods, amounts and bounds in Nat, fee rates up
to 100 % (the admin commands refuse others), commission and rake that do not exceed the bet. The
theorems hold for every value of the constants, the bounds of the runs included. An inductive
invariant was first checked by TLC as an invariant of the component's run.

Three techniques recur. Sums are cardinalities (`Gold`), so that a step which changes one row is
followed with `TotalUpdate`. Where the code takes a least or a last element (`MIN`, `MAX`, the
first timestamp to keep), the lemma that it exists comes from the well-foundedness of < on Nat. And
where a fact has to be shown by induction along a recursive function, it is stated as a set of
indices, which must reach the end because the set of those outside it would have a greatest or a
least element (`Downwards`).

**`DwLedger_proofs`**

* `RowsCorrect`, `LedgerTyped`: `TypeOK` and `RowsConsistent` together are inductive and carry the
  other proofs: a withdraw's owner has an account, its fee is at most its amount, exactly claimed
  and confirmed rows name a cashier who may be charged.
* `GoldConserved`: each action changes at most two of the sums in `Conservation`, and by the same
  amount; `TotalUpdate` reduces this to arithmetic.
* `LockedGoldBacked`: needs `RowsConsistent` for the owner of the one row that changes; for other
  players neither side moves.
* `StatsAccurate`: a confirmation adds one ticket to the set that the counter counts, and no step
  takes a confirmed ticket away or changes who confirmed it.
* `FinishedTicketsFrozen`, `QuoteHonoured`, `EveryCreditAccounted`: action properties, from the
  invariant and the guards.
* `LedgerKeepsLifecycle`: the functions implement `TicketLifecycle`, step by step.

**`TicketDesk_proofs`**

* `DeskKeepsLifecycle`, `ClaimsNeverStolen`: the desk, whatever its workers hold on their lists,
  implements `TicketLifecycle`, and a stale list entry releases nothing. Lemma `StepsMoveRows`
  reduces every step to the effect of one function on one row (`RowStep`); the invariant
  `DeskInv` is the types and that a claimed ticket names its claimer, without which the worker's
  lists would not name cashiers.
* `ThreadImplementsDesk`, `ThreadsTellTheTruth`: adding the posts changes nothing at the desk, and
  an embed that announces an outcome announces the ticket's. The invariant covers the embeds that
  are still to be posted; `OutcomeIsFinal` keeps them true while they wait.

**`Casino_proofs`** (both bots on the same balance rows)

* `CasinoTyped`, `LockedShared`, `TotalsFollowBets`, `PoolsBacked`: one invariant, `CasinoInv`. The
  types need the sums: that settling a bet leaves the locked balance at zero or above follows only
  because locked gold is withdraws plus stakes, and likewise for a refund from a pool. A step of
  the ledger enters through the lemmas of `DwLedger_proofs` (`UnbackedStep`: it leaves the
  difference between locked gold and live withdraws alone), a step of `luck` through its one bet.
* `CasinoConserves`: a ledger step leaves the surplus of the books alone, a betting step moves gold
  between terms of the sum.
* `KeyChargedOnce`: a bet with a key is inserted only when no row has it, at the insert and not at
  the earlier unlocked look.
* `BanHolds`: an action property. What a banned player may still come by (the tickets and bets there
  are, and one for each call past its ban check) never grows. No step takes a call of a banned
  player past the check; a call that opens something is used up by it; and the invariant
  `CallsConsistent` keeps a call that has the balance row one of a registered player.
* `CasinoKeepsLifecycle`, `CasinoFreezesTickets`, `CasinoHonoursQuotes`, `CasinoStatsAccurate`: what
  `DwLedger_proofs` shows of the ledger alone holds with the bets beside it. This is not automatic:
  `LockedBacksWithdraws`, `Conservation` and `CreditsAccounted` do not survive as they stand. A step
  of the composition is a step of the ledger or leaves the tickets alone (`LedgerOrBets`).
* `BetsEndOnce`, `CasinoCredits`: a finished bet is final, and a balance rises only by a ticket, a
  payment, or the end of one open bet of that player, by what its row then says it paid. The
  statements of these six theorems were first checked by TLC on the instance of run `casino`.

**`FairnessSeeds_proofs`**

* `SeedsTyped`, `NoncesUsedOnce`, `DrawsVerifiable`, `RotationsOnRecord`. The invariant says who may
  hold a seed number (one live row, or the history, never both), that one draw at a time holds a
  player's row, and that a draw between `next_nonce` and its commit is one nonce ahead of the
  tickets taken. Those are of three kinds, handed out, committed and lost, which stay disjoint
  because a commit adds a nonce that none of them has. Density is a statement about a set of tickets
  (`DenseIn`), so that roll-backs need no case of their own.
* `OutcomesAreFair`: for every grid, number of mines or winners, and shoe. The recursive function of
  the shuffle has exactly one course for given picks; a slot is settled by its own swap and never
  touched again, so the selection tells the picks (`SlotsTellPicks`), and picks for any selection are
  found slot by slot (`PicksForSlots`): picks and selections are one to one. A shoe has equal cards,
  so several permutations lead to one order; composing with a permutation is a one-to-one map between
  the permutations of any two orders (`SameFibre`), so they are equally many. A pick is the
  remainder that the pulled number leaves; the statement counts remainders, not bytes.

**`AuditChain_proofs`**

* `AuditTyped`, `AlarmsAreReal`, `PointerVouched`. Ids are drawn under the chain's lock, so rows in
  flight belong to one transaction and lie above all committed ids (`InFlightAbove`): a commit
  extends the chain at its end, and what a verifier has learnt about the rows up to some id stays
  true (`TicksSound`) however late it writes its pointer. The walk over a batch is followed by the
  least row at which it could break.

**`TicketIntake_proofs`**

* `IntakeTyped`, `TicketsHaveThreads`: `HandlersSound` says what a handler may rely on at each
  stage; the thread that it made is its own, so no other handler's teardown removes it.
* `LimiterHolds`: a bucket is the end of the list of granted calls, and what is no longer in it is
  a window old (`BucketsSound`); for any capacity and window, and however long the process runs.

**`CashierSessions_proofs`**

* `OnlineIsCounted`: a call that read NULL while another wrote the row may open one session too
  many, never one too few. Nothing is assumed of the worker's list, so it may be arbitrarily stale.

**`BoardMessages_proofs`** (the coroutines' steps leave the guild alone, `GuildStep`)

* `SetupIsRepeatable`, `ConfigHealed`: without overlap at most one command is at work, it creates
  only what its look has not found, and what it holds exists unless something was deleted since;
  whatever operators had made before, and with whatever overwrites.
* `EmbedsDelivered`: `AloneRelies` says what a coroutine that met no other may rely on at each of
  its stages: what it has read is still so, and the message that it is about to persist is there.
* `OrphansCaused`: orphans alone are not inductive, since a coroutine that is about to send makes one
  later without any further cause. `Accounted` therefore bounds the messages of a channel together
  with the coroutines that may still add one, by one plus `lost + overlaps`; it is stricter while
  some coroutine will not find the message that the row names, while the row names none there and
  nobody is about to persist one, and while a guide's row names another channel (`Settled`, `Kept`,
  `Matched`). It rests on `Grounds`: overlaps count the coroutines at work, ids grow, no two
  coroutines hold one message, and a guide's rows and coroutines follow the configured channel. The
  last holds only as long as no two set-ups overlapped: these can leave two channels that are used
  in turn, which is why the property is conditional.

**Only model-checked.** Liveness (`EveryRowVerified`, `AlterationReported`, `RosterCatchesUp`,
`IdleClaimsEnd`, `ExpiredTicketsEnd`, `IdleCashiersLeave`) is out of the prover's reach.
Every invariant and every other action property of the passing runs is proved. The type invariant of
`CashierSessions`, which no run lists, speaks of `SelectSeq`, of which the provers know nothing;
only the part that `OnlineIsCounted` needs is proved.

## 5. What is not modelled

* *Formatting of embeds, parsing of modal input* (a modal may be rejected), logging, metrics, the
  audit channel and the statistics aggregator: views of the ledger that no other part reads.
* *Read-only commands* (statistics, lists, `/admin-view-audit`), promote and demote, which only
  answer, `/admin-force-close-thread`; loading of cogs, command sync, health check.
* *`consume_rate_token` and `grant_raffle_tickets`* of migration 0024: no code of the repository calls
  them. The games themselves are not written yet; their payouts are a set of values.
* *Row locks and their order.* The functions' locks are taken as what makes them atomic;
  `confirm_withdraw` and `apply_bet` lock the player's balance row and then the treasury's,
  `treasury_withdraw_to_user` and `resolve_dispute` the other way round, so PostgreSQL may abort
  one, which is a call without effect here.
* *Cryptography.* HMAC and SHA-256 are injective; seeds never repeat; nobody guesses one.
* *The one-byte decoders* are a remainder of a byte each and keep no state (but see section 6).
* *Discord permissions* other than view and send; roles of members; operators who move or rename
  places, edit overwrites or make several places of one name.
* *The text of a dispute's resolution* and other columns that no function reads.
* BIGINT overflow is out of reach of any gold the game has.

## 6. Where code and text differ

Shown by a run that exhibits the counterexample:

* `sessions_blocked` – one idle cashier without a row in `core.users` makes every `cashier_idle`
  tick end at that entry; idle cashiers behind it stay online for ever.
* `casino_ban` – "banned users cannot open deposit tickets either" (0015, line 63), in "parity with
  create_withdraw_ticket". But that function locks the flag it reads (0007, line 86), while
  `create_deposit_ticket` and `apply_bet` do not: a ban committed between the check and the insert
  does not stop the call. `BanOvertakenOnce` is what holds.

Met while modelling, without a run of their own. About tickets and gold:

* *refund-full* is described as the refund of a confirmed withdraw (migration 0010, lines 17 and
  141); the function does not look at the ticket's status, so a live one is refunded from the
  treasury and can be cancelled, and refunded, again.
* The two-hour "auto-cancel" of `claim_idle` (line 12) is reached only by claims that the
  30-minute release did not touch first: normally a two-hour claim is put back in the pool (line 81).
* `/cancel` is called a "claimed-by-me action" (`cogs/ticket.py`, line 17); neither the command nor
  `cancel_deposit` and `cancel_withdraw` compare the caller with the claimer, so anybody who may run
  the command in the thread can cancel a live ticket, claimed or not.
* `/cancel-mine` relies on the function to refuse a ticket claimed in the meantime
  (`cogs/ticket.py`, line 20); it does not (line 378).
* Every successful `/confirm` ends in a `KeyError: 'claimed_at'` after the embed is posted
  (`cogs/ticket.py`, line 319): the duration metric and the log line after it are never written.
* The identity stated in `tests/integration/dw/test_treasury_invariant.py` leaves out
  `locked_balance`, so it does not hold while a withdraw is open; `Conservation` is the identity
  that does.
* The embeds of a claimed and of a confirmed withdraw show the gross amount and a 2 % fee,
  because the row they are built from has no fee column.
* A deposit opened before a ban is confirmed after it: `confirm_deposit` reads no ban flag.
* Orphan threads are said to be swept by a cleanup worker; there is none.
* The limiter counts modals, not tickets: two kept modals can be submitted together.
* Two overlapping first `/cashier-set-status` calls can open two sessions, or leave one open for a
  cashier who is offline; `OnlineHasSession` is what remains true.
* `claim_idle` and `cashier_idle` act on a list without checking the deadline again, so a cashier
  who re-claimed, or came back, after the list was fetched is released or set offline.
* The two limits of a pair are written by two statements; two admins at once can leave the minimum
  above the maximum, which makes every amount out of range.

About the audit log, bets and seeds:

* `audit_chain_verifier.py` (lines 13–15) says that an empty range skips the update of the pointer;
  the last verified row is read again by every tick, so the range is never empty.
* Rows below the pointer are never read again: what is altered there stays unnoticed.
  `AlterationReported` is about rows no tick has read yet.
* Two overlapping `apply_bet` calls with one key: the second raises on the unique constraint instead
  of returning the first bet. `ChargedOncePerKey` holds all the same.
* `refund_bet` fails on the treasury's `CHECK` when the treasury was swept below the bet's
  commission; the bet stays open and its stake locked.
* `ensure_seeds` calls itself idempotent; of two overlapping first calls the second may rotate the
  row that the first has just inserted.
* A ticket's nonce is called "one-to-one with the bet" (`fairness/api.py`, line 49); a call that dies
  after its COMMIT has taken a nonce that no bet will have. `NoncesAccounted` counts it.
* The decoders that reduce one byte (modulo 100, modulo 12) are not exactly uniform, as 256 is no
  multiple of either.

About channels and embeds:

* ADR 0017 (line 40) has `/admin-setup` use the configured role ids when none are passed;
  `cogs/admin.py`, line 170, passes `None`, so a channel that was deleted and is created anew by a
  call without roles shuts the staff out.
* `/admin-setup` reuses a channel as it is: roles passed to a later call are not applied to channels
  that exist, and a staff channel that an operator made visible to players stays so. The ADR says
  as much ("no overwrite stomping", line 32; drift is "not reconciled", line 49); no property is about
  the permissions of a reused place.
* The roster's updater keeps the channel it was started with until the process restarts.
* `live_updater.py` (line 10) says that restarts do not create duplicate live messages; a crash
  between send and persist does. `OrphansHaveCause` counts them.
* An online cashier without an active character appears nowhere in the roster.
* The guide's modal is filled with the content of the moment it is opened: of two admins who edit at
  once the later submit wins. A reconciliation that read the row before an edit can put the older
  text back on display.
* A dispute closed before the opening command has persisted its message keeps an embed that says
  open.

## 7. Plan

Done: ledger, life cycle, desk, thread, intake, cashier duty, audit chain, bets and their
composition with the ledger, seeds and decoders, channel set-up and embeds; proofs of the safety
invariants and action properties of section 4. Next:

1. More of the refinements: the desk's use of the ledger's functions stated as one composition, as
   `Casino` does for the bets.
2. The type invariants of `CashierSessions` and `BoardMessages`, which no other proof needs whole.

Worth modelling later: the order of row locks in the functions that touch two balance rows, and the
games once they exist.
