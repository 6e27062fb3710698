---------------------------- MODULE ResourceLock ----------------------------
(***************************************************************************)
(* One resource of the resource_locks table (handlers/resource_locks.rs),  *)
(* in practice "main_branch".  resource_id is the table's primary key, so  *)
(* the rows of one resource form a set of at most one row.                 *)
(*                                                                         *)
(* The clock is abstracted to what acquire and recover_stale read of it: a *)
(* row's ttl is "live" (expires_at not yet reached), "lapsed" (expires_at  *)
(* before now) or "never" (expires_at is NULL, the CLI without --ttl-secs).*)
(* The uuid of a row is its token, supplied by the caller, never reused.   *)
(***************************************************************************)

VARIABLE lock       \* the rows of resource_locks for this resource

LockRow(Owner, Token) ==
    [owner : Owner, token : Token, ttl : {"live", "lapsed", "never"}]

AtMostOneRow == \A r, s \in lock : r = s

(***************************************************************************)
(* acquire's decision inside its IMMEDIATE transaction: a row blocks the   *)
(* caller unless it has lapsed.                                            *)
(***************************************************************************)
Mutant_Available == TRUE                       \* forgets the expiry test
Available == \A r \in lock : r.ttl = "lapsed"

\* Deletes a lapsed row and inserts the caller's, in one transaction.
Acquire(owner, token, ttl) ==
    /\ Available
    /\ lock' = {[owner |-> owner, token |-> token, ttl |-> ttl]}

\* DELETE ... WHERE resource_id AND fencing_token, whoever holds it now.
Mutant_WithoutToken(token) == {}               \* deletes by resource_id alone
WithoutToken(token) == {r \in lock : r.token # token}

HasToken(token) == \E r \in lock : r.token = token

\* check_ownership_token
OwnsToken(owner, token) == \E r \in lock : r.owner = owner /\ r.token = token

\* recover_stale deletes every lapsed row.
RecoverStale ==
    /\ \E r \in lock : r.ttl = "lapsed"
    /\ lock' = {r \in lock : r.ttl # "lapsed"}

\* Time passes expires_at.
Lapse ==
    /\ \E r \in lock : r.ttl = "live"
    /\ lock' = {[r EXCEPT !.ttl = "lapsed"] : r \in lock}
=============================================================================
