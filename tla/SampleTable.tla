---------------------------- MODULE SampleTable ----------------------------
(***************************************************************************)
(* The samples table of app/src/sqlite_store.c and the statements the      *)
(* gateway runs on it.  A table is a function from the ids it holds to     *)
(* what the statements tell rows apart by: whether the row is uploaded and *)
(* how many sends of it failed.  One SQL statement is one operator: SQLite *)
(* is built with SQLITE_THREADSAFE=1, the two threads share a connection   *)
(* and each statement commits on its own.                                  *)
(***************************************************************************)
EXTENDS Naturals, FiniteSets

Row == [uploaded : BOOLEAN, retry : Nat]

NewRow == [uploaded |-> FALSE, retry |-> 0]

EmptyTable == [id \in {} |-> NewRow]

(* INSERT: the columns uploaded and upload_retry take their default 0. *)
Insert(T, id) ==
    [i \in DOMAIN T \cup {id} |-> IF i = id THEN NewRow ELSE T[i]]

(* mutant: an UPDATE without its WHERE clause *)
MarkAllUploaded(T, id) == [i \in DOMAIN T |-> [T[i] EXCEPT !.uploaded = TRUE]]

(* UPDATE samples SET uploaded = 1 WHERE id = ?  (no row, no effect) *)
MarkUploaded(T, id) ==
    [i \in DOMAIN T |-> IF i = id THEN [T[i] EXCEPT !.uploaded = TRUE] ELSE T[i]]

(* mutant: the failure is not recorded *)
IncRetryLost(T, id) == T

(* UPDATE samples SET upload_retry = upload_retry + 1 WHERE id = ? *)
IncRetry(T, id) ==
    [i \in DOMAIN T |-> IF i = id THEN [T[i] EXCEPT !.retry = @ + 1] ELSE T[i]]

(* SELECT id FROM S ORDER BY id ASC LIMIT n *)
Oldest(S, n) == {i \in S : Cardinality({j \in S : j < i}) < n}

Delete(T, S) == [i \in DOMAIN T \ S |-> T[i]]

Total(T) == Cardinality(DOMAIN T)
Uploaded(T) == {i \in DOMAIN T : T[i].uploaded}

(* The rows the table holds beyond max. *)
Excess(T, max) == IF Total(T) > max THEN Total(T) - max ELSE 0

(* The first DELETE of sqlite_store_trim_cache: uploaded rows, oldest first. *)
TrimUploaded(T, max) == Delete(T, Oldest(Uploaded(T), Excess(T, max)))

(* mutants: nothing is forced out; one row too many *)
TrimOldestNot(T, max) == T
TrimOldestTooFar(T, max) ==
    Delete(T, Oldest(DOMAIN T, Excess(T, max) + 1))

(* The second DELETE: what is still too much, oldest first. *)
TrimOldest(T, max) == Delete(T, Oldest(DOMAIN T, Excess(T, max)))

(* mutants: uploaded = 0 is forgotten; only rows never tried *)
EligibleAgain(T, retryMax) == {i \in DOMAIN T : T[i].retry < retryMax}
EligibleOnce(T, retryMax) == {i \in DOMAIN T : ~T[i].uploaded /\ T[i].retry = 0}

(* WHERE uploaded = 0 AND upload_retry < retryMax *)
Eligible(T, retryMax) ==
    {i \in DOMAIN T : ~T[i].uploaded /\ T[i].retry < retryMax}

=============================================================================
