--------------------------- MODULE IdempotencyRecords ---------------------------
(***************************************************************************)
(* One row of the enterprise idempotency table and what the store's        *)
(* operations compute from it.  Every operation is one SQLite transaction  *)
(* (enterprise-sqlite.ts) or one synchronous Map update                    *)
(* (enterprise-governance.ts), so it is a function of the row it finds and *)
(* of the caller's clock reading t.  A row that is absent and a row that   *)
(* has expired at t are the same thing to every caller.                    *)
(***************************************************************************)
EXTENDS Naturals

CONSTANTS
    NoRecord,  \* the key has no row
    NoResult   \* result_ref is NULL

\* claimToken is a fresh randomUUID: a number that is never handed out twice.
Record(Fingerprints, Results) ==
    {row \in [fingerprint : Fingerprints, claimToken : Nat, state : {"pending", "completed"},
              expiresAt : Nat, resultRef : Results \cup {NoResult}] :
       row.state = "completed" <=> row.resultRef # NoResult}

Later(a, b) == IF a >= b THEN a ELSE b

\* expires_at_ms > nowMs
Live(row, t) == row # NoRecord /\ row.expiresAt > t

Owns(row, fingerprint, token) ==
    row.fingerprint = fingerprint /\ row.claimToken = token

\* The row an accepted claim inserts.
Claimed(fingerprint, token, t, ttl) ==
    [fingerprint |-> fingerprint, claimToken |-> token, state |-> "pending",
     expiresAt |-> t + ttl, resultRef |-> NoResult]

\* Mutant: a renewal or completion may bring the expiry forward.
Extended_Shortens(row, t, ttl) == [row EXCEPT !.expiresAt = t + ttl]

\* Renewals and completions never shorten what was promised before.
Extended(row, t, ttl) == [row EXCEPT !.expiresAt = Later(row.expiresAt, t + ttl)]

MayRenew(row, fingerprint, token, t) ==
    Live(row, t) /\ row.state = "pending" /\ Owns(row, fingerprint, token)

MayComplete(row, fingerprint, token, result, t) ==
    /\ Live(row, t)
    /\ Owns(row, fingerprint, token)
    /\ row.state = "completed" => row.resultRef = result

\* The row a completion leaves; ttl 0 stands for the omitted ttlMs.
Completed(row, result, t, ttl) ==
    [(IF ttl = 0 THEN row ELSE Extended(row, t, ttl))
       EXCEPT !.state = "completed", !.resultRef = result]

MayRelease(row, fingerprint, token, t) ==
    Live(row, t) /\ Owns(row, fingerprint, token) /\ row.state = "pending"

\* What is left of a row a caller found expired: lookups delete such a row.
Swept(row, t) == IF Live(row, t) THEN row ELSE NoRecord
================================================================================
