-------------------------------- MODULE Gold --------------------------------
(***************************************************************************)
(* Sums of gold.  Every amount in the database is a BIGINT with a          *)
(* CHECK (... >= 0), so a column of amounts is a function into Nat and its *)
(* SUM(...) is the number of coins in it: the coin <<x, i>> is the i-th    *)
(* gold piece of row x.  Defining the sum as a cardinality, and not by     *)
(* recursion over the rows, gives it properties that can be proved for     *)
(* every finite set of rows (module DwLedger_proofs).                      *)
(***************************************************************************)
EXTENDS Integers, FiniteSets

\* The gold pieces of the column f, each tagged with its row.
Coins(f) == UNION {{x} \X (1 .. f[x]) : x \in DOMAIN f}

\* SUM(f[x]) over the rows x.
Total(f) == Cardinality(Coins(f))

=============================================================================
