----------------------------- MODULE AuditChain -----------------------------
(***************************************************************************)
(* core.audit_log, the hash chain over its rows and the verifier that      *)
(* walks it: core.audit_log_insert_with_chain (0002), the function         *)
(* core.verify_audit_chain (0017) and workers/audit_chain_verifier.py,     *)
(* whose tick is run every six hours by the worker and at any time by      *)
(* /admin-verify-audit.                                                    *)
(*                                                                         *)
(* The hash of a row is an HMAC of the previous hash and the row's         *)
(* content.  What matters of it is that it tells different chains apart,   *)
(* so the hash of a chain is the sequence of its contents; NULL, the hash  *)
(* before the first row, is the empty sequence.                            *)
(*                                                                         *)
(* The triggers forbid UPDATE and DELETE.  The damage the verifier is for  *)
(* are therefore steps of the environment: a row altered or removed behind *)
(* the triggers' back, and put right again by the admins.                  *)
(***************************************************************************)
EXTENDS Integers, Sequences, FiniteSetsExt

CONSTANTS
  Writers,                     \* transactions that write audit rows
  Verifiers,                   \* the tick's callers: the worker, an admin's command
  Worker,                      \* the one that is called again and again
  MaxRows,                     \* _MAX_ROWS_PER_TICK
  MaxId,                       \* bound: ids the sequence can issue
  MaxDamage                    \* bound: alterations, removals and repairs of rows

ASSUME AuditAssumption ==
  /\ Worker \in Verifiers
  /\ MaxRows \in Nat /\ MaxRows > 1
  /\ MaxId \in Nat /\ MaxDamage \in Nat

Ids == 1 .. MaxId

VARIABLES
  log,                         \* core.audit_log: the committed rows, NoRow elsewhere
  head,                        \* core.audit_chain_state.last_row_hash
  nextId,                      \* the sequence behind audit_log.id
  pending,                     \* rows a transaction has inserted and not committed
  pointer,                     \* dw.global_config last_verified_audit_row_id
  tick,                        \* the callers of the verifier
  alarm,                       \* what the latest tick to end reported: a broken id, or 0
  damage,                      \* how often rows were altered, removed or repaired
  written, vouched             \* history: rows as committed; ids a tick found good

db == <<log, head, nextId, pending, written>>
vars == <<db, pointer, tick, alarm, damage, vouched>>

-----------------------------------------------------------------------------
Hash(prev, content) == Append(prev, content)

\* A row's content is its own (its ts, its ref_id): the id stands for it.
Forged == 0
Rows == [content : Ids \cup {Forged}, row_hash : Seq(Ids)]
NoRow == [content |-> Forged, row_hash |-> <<>>]

Present == {i \in Ids : log[i] # NoRow}
Committed == {i \in Ids : written[i] # NoRow}
Altered(i) == log[i] # written[i]

Idle == [at |-> "idle", from |-> 0, prev |-> <<>>, last |-> 0, broken |-> 0, checked |-> 0]

Ticks ==
  [at : {"idle", "called", "seeded", "walked"}, from : 0 .. MaxId, prev : Seq(Ids),
   last : 0 .. MaxId, broken : 0 .. MaxId, checked : 0 .. MaxRows]

TypeOK ==
  /\ log \in [Ids -> Rows] /\ written \in [Ids -> Rows]
  /\ head \in Seq(Ids)
  /\ nextId \in 1 .. MaxId + 1
  /\ pending \in [Writers -> [Ids -> Rows]]
  /\ pointer \in 0 .. MaxId /\ alarm \in 0 .. MaxId
  /\ tick \in [Verifiers -> Ticks]
  /\ damage \in 0 .. MaxDamage
  /\ vouched \subseteq Ids

NoRows == [i \in Ids |-> NoRow]

Init ==
  /\ log = NoRows /\ written = NoRows
  /\ head = <<>> /\ nextId = 1
  /\ pending = [w \in Writers |-> NoRows]
  /\ pointer = 0 /\ alarm = 0 /\ damage = 0 /\ vouched = {}
  /\ tick = [v \in Verifiers |-> Idle]

-----------------------------------------------------------------------------
(* Writing.  The row of audit_chain_state is taken FOR UPDATE before the   *)
(* id is drawn, and a transaction keeps it until it ends.                  *)

InFlight(w) == {i \in Ids : pending[w][i] # NoRow}

\* Mutant of ChainFree: SELECT last_row_hash without FOR UPDATE.
NoLock(w) == TRUE

\* The lock on audit_chain_state is free, or w has it already.
ChainFree(w) == \A x \in Writers \ {w} : InFlight(x) = {}

\* The hash that w reads in audit_chain_state: its own last one, if it has inserted.
HeadSeenBy(w) ==
  IF InFlight(w) = {} THEN head ELSE pending[w][Max(InFlight(w))].row_hash

\* audit_log_insert_with_chain, called inside the transaction of a ledger function.
InsertWithChain(w) ==
  /\ ChainFree(w) /\ nextId \in Ids
  /\ pending' = [pending EXCEPT ![w][nextId] =
                   [content |-> nextId, row_hash |-> Hash(HeadSeenBy(w), nextId)]]
  /\ nextId' = nextId + 1
  /\ UNCHANGED <<log, head, written, pointer, tick, alarm, damage, vouched>>

\* The transaction commits: its rows and the new head appear at once.
CommitRows(w) ==
  /\ InFlight(w) # {}
  /\ log' = [i \in Ids |-> IF i \in InFlight(w) THEN pending[w][i] ELSE log[i]]
  /\ written' = [i \in Ids |-> IF i \in InFlight(w) THEN pending[w][i] ELSE written[i]]
  /\ head' = HeadSeenBy(w)
  /\ pending' = [pending EXCEPT ![w] = NoRows]
  /\ UNCHANGED <<nextId, pointer, tick, alarm, damage, vouched>>

\* The transaction rolls back: the ids it drew stay unused.
RollBack(w) ==
  /\ InFlight(w) # {}
  /\ pending' = [pending EXCEPT ![w] = NoRows]
  /\ UNCHANGED <<log, head, nextId, written, pointer, tick, alarm, damage, vouched>>

-----------------------------------------------------------------------------
(* A tick.  Its statements are separate, and so are the two queries of     *)
(* verify_audit_chain: each sees what is committed when it starts.         *)

ReadPointer(v) ==
  /\ tick[v].at = "idle"
  /\ tick' = [tick EXCEPT ![v] = [Idle EXCEPT !.at = "called", !.from = pointer]]
  /\ UNCHANGED <<db, pointer, alarm, damage, vouched>>

\* The row_hash of the last row before p_from_id; none when there is no such row.
SeedHash(from) ==
  LET before == {i \in Present : i < from}
  IN  IF before = {} THEN <<>> ELSE log[Max(before)].row_hash

SeedWalk(v) ==
  /\ tick[v].at = "called"
  /\ tick' = [tick EXCEPT ![v].at = "seeded", ![v].prev = SeedHash(tick[v].from)]
  /\ UNCHANGED <<db, pointer, alarm, damage, vouched>>

\* Mutant of Batch: a batch is one row, the last one verified.
BatchOfOne(from) ==
  {i \in Present : i >= from /\ \A j \in Present : j < i => j < from}

\* WHERE id >= p_from_id ORDER BY id LIMIT p_max_rows.
Batch(from) ==
  {i \in Present : i >= from /\ Cardinality({j \in Present : from <= j /\ j < i}) < MaxRows}

\* Mutant of Matches: the recomputed hash leaves the content out.
MatchesPrev(i, prev) == SubSeq(log[i].row_hash, 1, Len(log[i].row_hash) - 1) = prev

\* Mutant of Matches: the recomputed hash leaves the row before out.
MatchesContent(i, prev) == log[i].row_hash[Len(log[i].row_hash)] = log[i].content

\* The recomputed hash is the stored one.
Matches(i, prev) == Hash(prev, log[i].content) = log[i].row_hash

\* The loop: up to the first row that does not match, each row is hashed over the
\* stored hash of the row before it.
WalkChain(v) ==
  LET batch == Batch(tick[v].from)
      earlier(i) == {j \in batch : j < i}
      prev(i) == IF earlier(i) = {} THEN tick[v].prev ELSE log[Max(earlier(i))].row_hash
      bad    == {i \in batch : ~ Matches(i, prev(i))}
      good   == IF bad = {} THEN batch ELSE earlier(Min(bad))
  IN  /\ tick[v].at = "seeded"
      /\ tick' = [tick EXCEPT ![v] =
                    [Idle EXCEPT !.at = "walked", !.checked = Cardinality(good),
                       !.last = IF good = {} THEN tick[v].from ELSE Max(good),
                       !.broken = IF bad = {} THEN 0 ELSE Min(bad)]]
      /\ vouched' = vouched \cup {i \in good : ~ Altered(i)}
      /\ UNCHANGED <<db, pointer, alarm, damage>>

\* The pointer is written unless a row did not match or nothing was read.
Advances(t) == t.broken = 0 /\ t.checked > 0

\* The end of the tick: a break is logged, otherwise the pointer is written.
EndTick(v) ==
  /\ tick[v].at = "walked"
  /\ pointer' = IF Advances(tick[v]) THEN tick[v].last ELSE pointer
  /\ alarm' = tick[v].broken
  /\ tick' = [tick EXCEPT ![v] = Idle]
  /\ UNCHANGED <<db, damage, vouched>>

-----------------------------------------------------------------------------
(* Faults.                                                                 *)

Tamper(rows) ==
  /\ damage < MaxDamage /\ damage' = damage + 1
  /\ log' = rows
  /\ UNCHANGED <<head, nextId, pending, written, pointer, tick, alarm, vouched>>

\* A statement of the tick fails, or the process dies.
FailTick(v) ==
  /\ tick[v].at # "idle"
  /\ tick' = [tick EXCEPT ![v] = Idle]
  /\ UNCHANGED <<db, pointer, alarm, damage, vouched>>

AlterRow(i) == i \in Present /\ Tamper([log EXCEPT ![i].content = Forged])

RemoveRow(i) == i \in Present /\ Tamper([log EXCEPT ![i] = NoRow])

\* "admins fix the underlying data and a re-run validates".
RepairRow(i) == Altered(i) /\ Tamper([log EXCEPT ![i] = written[i]])

-----------------------------------------------------------------------------
TickStep(v) == ReadPointer(v) \/ SeedWalk(v) \/ WalkChain(v) \/ EndTick(v)

Next ==
  \/ \E w \in Writers : InsertWithChain(w) \/ CommitRows(w) \/ RollBack(w)
  \/ \E v \in Verifiers : TickStep(v) \/ FailTick(v)
  \/ \E i \in Ids : AlterRow(i) \/ RemoveRow(i) \/ RepairRow(i)

Spec == Init /\ [][Next]_vars

\* PeriodicWorker ticks again and again, and a tick that is repeated does not fail
\* at the same place for ever.  No admin need ever run the command, and no
\* transaction need ever write a row.
FairSpec ==
  /\ Spec
  /\ WF_vars(ReadPointer(Worker)) /\ SF_vars(SeedWalk(Worker))
  /\ SF_vars(WalkChain(Worker)) /\ SF_vars(EndTick(Worker))

-----------------------------------------------------------------------------
(* Properties.                                                             *)

\* However transactions, roll-backs and two concurrent verifiers interleave, the
\* verifier finds no break in a log nobody has touched: each row was hashed over
\* the row that precedes it in the order of ids, and a walk resumed in the middle
\* starts from the right hash.
NoFalseAlarm == damage = 0 => alarm = 0 /\ \A v \in Verifiers : tick[v].broken = 0

\* The resume pointer skips nothing: every row at or below it was once read and
\* found as it had been written.  No row is committed below the pointer later on
\* (ids are drawn under the chain's lock), and a pointer written back late by one
\* verifier over another's never covers a row that neither has read.
NothingSkipped == \A i \in Committed : i <= pointer => i \in vouched

\* The worker catches up with the log, although the batch is limited, ids have gaps,
\* ticks fail and a slower verifier moves the pointer back; only a damaged log that
\* is not repaired holds it up.
EveryRowVerified ==
  []<>(Committed \subseteq vouched \/ \E i \in Ids : Altered(i))

\* A row whose content was altered before any tick has read it.
AlteredUnseen == \E i \in Present \ vouched : Altered(i)

\* Such a row is reported, unless it is put right.
AlterationReported == AlteredUnseen ~> (alarm # 0 \/ ~ AlteredUnseen)

=============================================================================
