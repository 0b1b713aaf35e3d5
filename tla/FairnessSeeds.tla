--------------------------- MODULE FairnessSeeds ---------------------------
(***************************************************************************)
(* Provably fair draws: fairness.user_seeds and its history (migrations    *)
(* 0019, 0024 and 0025), core/fairness/seeds.py, the draw of               *)
(* core/fairness/api.py and the operators' force_rotate.py.                *)
(*                                                                         *)
(* A player is promised that the server seed behind the published hash     *)
(* fixes every outcome in advance: no nonce is used twice, a seed is       *)
(* never used after it was revealed, and the revealed seed reproduces each *)
(* outcome.  Seeds are random and never repeat: they are numbered in the   *)
(* order they are generated, and the number stands for the hash as well.   *)
(***************************************************************************)
EXTENDS Decoders

CONSTANTS
  Users,
  ClientSeeds,                 \* what set_client_seed accepts
  Drawers,                     \* concurrent calls of request_outcome_bytes
  Callers,                     \* concurrent calls of ensure_seeds and rotate
  MaxSeeds, MaxNonce, MaxDraws, \* bounds: seeds generated, draws per seed and in all
  MaxForced, MaxCrashes,       \* bounds: seeds set by force_rotate, scripts interrupted
  MaxLost                      \* bound: calls that die after their COMMIT

ASSUME SeedsAssumption ==
  /\ MaxSeeds \in Nat /\ MaxNonce \in Nat /\ MaxDraws \in Nat
  /\ MaxForced \in Nat /\ MaxCrashes \in Nat /\ MaxLost \in Nat

VARIABLES
  seeds,                       \* fairness.user_seeds
  history,                     \* fairness.history
  generated,                   \* how many server seeds there have been
  drawing,                     \* the transactions of request_outcome_bytes
  calls,                       \* calls that found no row for the user
  committed,                   \* what calls hold after their COMMIT, before they return
  tickets, draws,              \* the FairnessTickets handed out, and how many
  lost,                        \* those whose call has died after its COMMIT
  script,                      \* force_rotate.py: users to go, inserting a first row,
                               \* the seed not audited yet
  byAdmin, audited,            \* seeds force_rotate has set; those with an audit row
  crashes

ops == <<script, byAdmin, audited, crashes>>
answers == <<committed, tickets, draws, lost>>
vars == <<seeds, history, generated, drawing, calls, answers, ops>>

-----------------------------------------------------------------------------
SeedIds == 1 .. MaxSeeds
NoRow == [seed |-> 0, client |-> "none", nonce |-> 0]
NoDraw == [at |-> "idle"]
NoCall == [at |-> "idle"]
Call(at, u) == [at |-> at, user |-> u]
NoScript == [todo |-> {}, inserting |-> FALSE, pending |-> 0]

Tickets == [user : Users, seed : SeedIds, client : ClientSeeds \cup {"hex"},
            nonce : 0 .. MaxNonce]

HasRow(u) == seeds[u] # NoRow

\* The nonces taken for good: of the tickets handed out, about to be, and lost.
Taken == tickets \cup committed \cup lost

TypeOK ==
  /\ seeds \in [Users -> [seed : 0 .. MaxSeeds, client : ClientSeeds \cup {"none", "hex"},
                          nonce : 0 .. MaxNonce]]
  /\ history \subseteq [user : Users, seed : SeedIds, client : ClientSeeds \cup {"hex"},
                        last_nonce : 0 .. MaxNonce]
  /\ generated \in 0 .. MaxSeeds
  /\ drawing \in [Drawers -> {NoDraw} \cup
       [at : {"locked", "counted"}, user : Users, nonce : 0 .. MaxNonce]]
  /\ calls \in [Callers -> {NoCall} \cup [at : {"ensure", "insert"}, user : Users]]
  /\ committed \subseteq Tickets /\ tickets \subseteq Tickets /\ lost \subseteq Tickets
  /\ draws \in Nat
  /\ script \in [todo : SUBSET Users, inserting : BOOLEAN, pending : 0 .. MaxSeeds]
  /\ byAdmin \subseteq SeedIds /\ audited \subseteq SeedIds
  /\ crashes \in 0 .. MaxCrashes

Init ==
  /\ seeds = [u \in Users |-> NoRow]
  /\ history = {} /\ generated = 0
  /\ drawing = [d \in Drawers |-> NoDraw]
  /\ calls = [c \in Callers |-> NoCall]
  /\ committed = {} /\ tickets = {} /\ draws = 0 /\ lost = {}
  /\ script = NoScript /\ byAdmin = {} /\ audited = {} /\ crashes = 0

-----------------------------------------------------------------------------
(* Rotation.                                                               *)

\* Mutant of Unlocked: the draw's statements are not one transaction.
UnlockedAlways(u) == TRUE

\* No transaction holds the user's row.
Unlocked(u) == \A d \in Drawers : drawing[d] # NoDraw => drawing[d].user # u

\* The row after a rotation: a new seed, nonce 0, the client seed kept.
Fresh(row) == [row EXCEPT !.seed = generated + 1, !.nonce = 0]

Generate == generated < MaxSeeds /\ generated' = generated + 1

\* Mutant of Archive: the row is not written to the history.
ArchiveNothing(u) == UNCHANGED history

\* The old seed is revealed in the append-only history.
Archive(u) ==
  history' = history \cup {[user |-> u, seed |-> seeds[u].seed, client |-> seeds[u].client,
                            last_nonce |-> seeds[u].nonce]}

\* rotate_user_seed for a user with a row.
RotateRow(u) ==
  /\ HasRow(u) /\ Unlocked(u) /\ Generate
  /\ Archive(u)
  /\ seeds' = [seeds EXCEPT ![u] = Fresh(seeds[u])]
  /\ UNCHANGED <<drawing, answers>>

\* rotate, on behalf of the player.
Rotate(u) == RotateRow(u) /\ UNCHANGED <<calls, ops>>

\* ensure_seeds reads no row ...
BeginEnsure(c, u) ==
  /\ calls[c] = NoCall /\ ~ HasRow(u)
  /\ calls' = [calls EXCEPT ![c] = Call("ensure", u)]
  /\ UNCHANGED <<seeds, history, generated, drawing, answers, ops>>

\* ... and calls rotate_user_seed, which finds one now and rotates it ...
EnsureRotates(c, u) ==
  /\ calls[c] = Call("ensure", u)
  /\ RotateRow(u)
  /\ calls' = [calls EXCEPT ![c] = NoCall]
  /\ UNCHANGED ops

\* ... or still finds none (so may rotate, when it is the first call).
FindNoRow(c, u) ==
  /\ calls[c] \in {NoCall, Call("ensure", u)} /\ ~ HasRow(u)
  /\ calls' = [calls EXCEPT ![c] = Call("insert", u)]
  /\ UNCHANGED <<seeds, history, generated, drawing, answers, ops>>

\* The first row, with a client seed of random hex digits.
InsertRow(u) ==
  /\ ~ HasRow(u) /\ Generate
  /\ seeds' = [seeds EXCEPT ![u] = [seed |-> generated + 1, client |-> "hex", nonce |-> 0]]
  /\ UNCHANGED <<history, drawing, answers>>

\* When another call has inserted one meanwhile, the primary key makes this call fail.
InsertFirst(c, u) ==
  /\ calls[c] = Call("insert", u)
  /\ calls' = [calls EXCEPT ![c] = NoCall]
  /\ \/ InsertRow(u)
     \/ HasRow(u) /\ UNCHANGED <<seeds, history, generated, drawing, answers>>
  /\ UNCHANGED ops

\* The nonce is not reset.
SetClientSeed(u, s) ==
  /\ HasRow(u) /\ Unlocked(u)
  /\ seeds' = [seeds EXCEPT ![u].client = s]
  /\ UNCHANGED <<history, generated, drawing, calls, answers, ops>>

-----------------------------------------------------------------------------
(* request_outcome_bytes: three statements in a transaction that holds the *)
(* user's row from the first to the last.                                  *)

LockSeed(d, u) ==
  /\ drawing[d] = NoDraw /\ HasRow(u) /\ Unlocked(u) /\ Cardinality(Taken) < MaxDraws
  /\ drawing' = [drawing EXCEPT ![d] = [at |-> "locked", user |-> u, nonce |-> 0]]
  /\ UNCHANGED <<seeds, history, generated, calls, answers, ops>>

\* next_nonce returns the value before its increment.
NonceTaken(u) == seeds[u].nonce

NextNonce(d) ==
  /\ drawing[d].at = "locked"
  /\ LET u == drawing[d].user IN
       /\ seeds[u].nonce < MaxNonce
       /\ drawing' = [drawing EXCEPT ![d].at = "counted", ![d].nonce = NonceTaken(u)]
       /\ seeds' = [seeds EXCEPT ![u].nonce = @ + 1]
  /\ UNCHANGED <<history, generated, calls, answers, ops>>

\* What the call has read in its transaction, the ticket it will return.
TicketOf(d) ==
  LET u == drawing[d].user IN
  [user |-> u, seed |-> seeds[u].seed, client |-> seeds[u].client, nonce |-> drawing[d].nonce]

\* The seed is read and the transaction commits: the row is free again, and the nonce
\* is taken whether or not the call lives to return its ticket.
CommitDraw(d) ==
  /\ drawing[d].at = "counted"
  /\ committed' = committed \cup {TicketOf(d)}
  /\ drawing' = [drawing EXCEPT ![d] = NoDraw]
  /\ UNCHANGED <<seeds, history, generated, calls, tickets, draws, lost, ops>>

\* The HMAC is computed and the ticket returned.
ReturnTicket(x) ==
  /\ x \in committed
  /\ committed' = committed \ {x}
  /\ tickets' = tickets \cup {x} /\ draws' = draws + 1
  /\ UNCHANGED <<seeds, history, generated, drawing, calls, lost, ops>>

\* The process dies, or the answer to its COMMIT is lost and the call raises.
LoseTicket(x) ==
  /\ x \in committed /\ Cardinality(lost) < MaxLost
  /\ committed' = committed \ {x}
  /\ lost' = lost \cup {x}
  /\ UNCHANGED <<seeds, history, generated, drawing, calls, tickets, draws, ops>>

\* The transaction is rolled back, and with it the increment.
RollBackDraw(d) ==
  /\ drawing[d].at # "idle"
  /\ seeds' = IF drawing[d].at = "locked" THEN seeds
              ELSE [seeds EXCEPT ![drawing[d].user].nonce = drawing[d].nonce]
  /\ drawing' = [drawing EXCEPT ![d] = NoDraw]
  /\ UNCHANGED <<history, generated, calls, answers, ops>>

-----------------------------------------------------------------------------
(* force_rotate.py: each user's rotation commits before its audit row is   *)
(* written, and the script may die in between.                             *)

\* One user, or --all: every user with a row.
StartScript(S) ==
  /\ script = NoScript /\ Cardinality(byAdmin) < MaxForced
  /\ S # {} /\ (S = {u \in Users : HasRow(u)} \/ \E u \in Users : S = {u})
  /\ script' = [NoScript EXCEPT !.todo = S]
  /\ UNCHANGED <<seeds, history, generated, drawing, calls, answers, byAdmin, audited, crashes>>

\* The user's new seed is committed, and next its audit row is due.
SetByScript(u) ==
  /\ script' = [todo |-> script.todo \ {u}, inserting |-> FALSE, pending |-> generated + 1]
  /\ byAdmin' = byAdmin \cup {generated + 1}
  /\ UNCHANGED <<calls, audited, crashes>>

ForceRotate(u) ==
  /\ u \in script.todo /\ script.pending = 0 /\ ~ script.inserting
  /\ RotateRow(u)
  /\ SetByScript(u)

\* rotate_user_seed finds no row for the one user ...
ScriptFindsNoRow(u) ==
  /\ u \in script.todo /\ script.pending = 0 /\ ~ script.inserting /\ ~ HasRow(u)
  /\ script' = [script EXCEPT !.inserting = TRUE]
  /\ UNCHANGED <<seeds, history, generated, drawing, calls, answers, byAdmin, audited, crashes>>

\* ... and inserts the first, or fails on the primary key, which ends the script.
ScriptInserts(u) ==
  /\ u \in script.todo /\ script.inserting
  /\ \/ InsertRow(u) /\ SetByScript(u)
     \/ /\ HasRow(u) /\ script' = NoScript
        /\ UNCHANGED <<seeds, history, generated, drawing, calls, answers, byAdmin, audited, crashes>>

\* Mutant of SeedToAudit: the seed is looked up again after the rotation.
SeedLookedUp == generated

\* The audit row names the hash that the rotation has returned.
SeedToAudit == script.pending

AuditRotation ==
  /\ script.pending # 0
  /\ audited' = audited \cup {SeedToAudit}
  /\ script' = [script EXCEPT !.pending = 0]
  /\ UNCHANGED <<seeds, history, generated, drawing, calls, answers, byAdmin, crashes>>

CrashScript ==
  /\ script # NoScript /\ crashes < MaxCrashes
  /\ crashes' = crashes + 1
  /\ script' = NoScript
  /\ UNCHANGED <<seeds, history, generated, drawing, calls, answers, byAdmin, audited>>

-----------------------------------------------------------------------------
Next ==
  \/ \E u \in Users :
       Rotate(u) \/ ForceRotate(u) \/ ScriptFindsNoRow(u) \/ ScriptInserts(u)
  \/ \E c \in Callers, u \in Users :
       BeginEnsure(c, u) \/ EnsureRotates(c, u) \/ FindNoRow(c, u) \/ InsertFirst(c, u)
  \/ \E u \in Users, s \in ClientSeeds : SetClientSeed(u, s)
  \/ \E d \in Drawers, u \in Users : LockSeed(d, u)
  \/ \E d \in Drawers : NextNonce(d) \/ CommitDraw(d) \/ RollBackDraw(d)
  \/ \E x \in committed : ReturnTicket(x) \/ LoseTicket(x)
  \/ \E S \in SUBSET Users : StartScript(S)
  \/ AuditRotation \/ CrashScript

Spec == Init /\ [][Next]_vars

-----------------------------------------------------------------------------
(* Properties.                                                             *)

\* The nonces taken of a seed are its first n, each once.
Dense(s, n) ==
  LET taken == {x \in Taken : x.seed = s} IN
  {x.nonce : x \in taken} = 0 .. n - 1 /\ Cardinality(taken) = n

\* No outcome is used twice, and one is passed over only by a call that died between
\* its COMMIT and its return: below the row's nonce (or the history's last_nonce) every
\* nonce of a seed belongs to one ticket that was handed out, will be, or was lost so,
\* while calls for one player overlap, rotate, retry, roll back and die.
NoncesAccounted ==
  /\ Cardinality(tickets) = draws
  /\ tickets \cap (committed \cup lost) = {} /\ committed \cap lost = {}
  /\ \A h \in history : Dense(h.seed, h.last_nonce)
  /\ \A u \in Users :
       HasRow(u) /\ (\A d \in Drawers : drawing[d] # NoDraw => drawing[d].user # u)
         => Dense(seeds[u].seed, seeds[u].nonce)

\* Every draw can be checked in the end: its seed is the player's live one or in the
\* player's history with the nonce below its last_nonce, and the verifier, which
\* extends the HMAC to a length of its own, reads the bytes the decoder read.
DrawsReproducible ==
  \A x \in tickets :
    /\ \/ seeds[x.user].seed = x.seed
       \/ \E h \in history : h.user = x.user /\ h.seed = x.seed /\ x.nonce < h.last_nonce
    /\ \A r \in Requests : SameBytes(r)

\* Audit rows are about the seeds force_rotate has set, and every such seed has its
\* audit row, but for the one it is working on and one for each time it died.
RotationsAudited ==
  /\ audited \subseteq byAdmin
  /\ Cardinality(byAdmin \ audited) <= crashes + (IF script.pending = 0 THEN 0 ELSE 1)

\* What a draw will decide is fair, given its picks: equally many sequences of picks
\* (the remainders of the words read, whose modulo bias is left out) lead to every
\* choice of mines or winners and to every order of a shoe.  The decoders are functions
\* of the picks alone, so the states before the first seed are as good as any other.
OutcomesFair == generated = 0 => ShufflesFair

=============================================================================
