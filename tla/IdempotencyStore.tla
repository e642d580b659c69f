---------------------------- MODULE IdempotencyStore ----------------------------
(***************************************************************************)
(* The enterprise idempotency store shared by the gateway's processes, and *)
(* the clients that claim, renew, complete and release keys in it.  The    *)
(* same store backs durable ingress, the conversation lease and effect     *)
(* receipts.  A client samples its clock before it calls (resolveNow), so  *)
(* the reading it passes may be older than the store's latest one.         *)
(*                                                                         *)
(* lease and settled are what the clients were told; the invariants relate *)
(* those promises to the table.                                            *)
(***************************************************************************)
EXTENDS IdempotencyRecords, FiniteSets

CONSTANTS
    Clients, Keys, Fingerprints, Results,
    NoLease,    \* the client holds no claim
    Ttls,       \* the ttlMs values callers pass
    MaxNow,     \* bound: the clock stops here
    MaxLag,     \* bound: how old a caller's clock reading may be
    MaxTokens   \* bound: generations claimed

VARIABLES
    now,      \* the latest instant any process has seen
    table,    \* the rows, per key
    minted,   \* how many claim tokens were generated
    lease,    \* what each client last heard about the claim it holds
    settled   \* the completions that were acknowledged to some client

storeVars == <<now, table, minted, lease, settled>>

Lease == [key : Keys, fingerprint : Fingerprints, claimToken : Nat, expiresAt : Nat]
Settlement == [key : Keys, claimToken : Nat, resultRef : Results, expiresAt : Nat]
Row == Record(Fingerprints, Results) \cup {NoRecord}

ASSUME StoreAssumption ==
    /\ NoRecord \notin Record(Fingerprints, Results)
    /\ NoLease \notin Lease
    /\ NoResult \notin Results
    /\ Ttls \subseteq Nat \ {0}
    /\ MaxNow \in Nat /\ MaxLag \in Nat /\ MaxTokens \in Nat

\* The clock readings a caller may hand to the store.
Readings == {t \in 0 .. now : now <= t + MaxLag}

Holds(c) == lease[c] # NoLease

\* Claims delete expired rows: their own key's always, every key's in SQLite
\* and in the in-memory store's periodic sweep.
SweptTable(key, t, all) ==
    [k \in Keys |-> IF all \/ k = key THEN Swept(table[k], t) ELSE table[k]]
--------------------------------------------------------------------------------
StoreInit ==
    /\ now = 0
    /\ table = [k \in Keys |-> NoRecord]
    /\ minted = 0
    /\ lease = [c \in Clients |-> NoLease]
    /\ settled = {}

Tick ==
    /\ now < MaxNow
    /\ now' = now + 1
    /\ UNCHANGED <<table, minted, lease, settled>>

\* claimIdempotency returning "claimed".
ClaimIdempotency(c, key, fingerprint, ttl, t, all) ==
    /\ ~Holds(c)
    /\ minted < MaxTokens
    /\ ~Live(table[key], t)
    /\ minted' = minted + 1
    /\ LET row == Claimed(fingerprint, minted + 1, t, ttl)
       IN  /\ table' = [SweptTable(key, t, all) EXCEPT ![key] = row]
           /\ lease' = [lease EXCEPT ![c] =
                [key |-> key, fingerprint |-> fingerprint, claimToken |-> minted + 1,
                 expiresAt |-> row.expiresAt]]
    /\ UNCHANGED <<now, settled>>

\* claimIdempotency returning "replay" or "conflict": only expired rows go.
RefuseClaim(key, t, all) ==
    /\ Live(table[key], t)
    /\ table' = SweptTable(key, t, all)
    /\ UNCHANGED <<now, minted, lease, settled>>

RenewIdempotency(c, ttl, t) ==
    /\ Holds(c)
    /\ LET own == lease[c]
           row == table[own.key]
       IN  IF MayRenew(row, own.fingerprint, own.claimToken, t)
             THEN LET renewed == Extended(row, t, ttl)
                  IN  /\ table' = [table EXCEPT ![own.key] = renewed]
                      /\ lease' = [lease EXCEPT ![c].expiresAt = renewed.expiresAt]
             ELSE /\ table' = [table EXCEPT ![own.key] = Swept(row, t)]
                  /\ UNCHANGED lease
    /\ UNCHANGED <<now, minted, settled>>

CompleteIdempotency(c, result, ttl, t) ==
    /\ Holds(c)
    /\ LET own == lease[c]
           row == table[own.key]
           done == Completed(row, result, t, ttl)
       IN  IF MayComplete(row, own.fingerprint, own.claimToken, result, t)
             THEN /\ table' = [table EXCEPT ![own.key] = done]
                  /\ lease' = [lease EXCEPT ![c].expiresAt = done.expiresAt]
                  /\ settled' = settled \cup
                       {[key |-> own.key, claimToken |-> own.claimToken,
                         resultRef |-> result, expiresAt |-> done.expiresAt]}
             ELSE /\ table' = [table EXCEPT ![own.key] = Swept(row, t)]
                  /\ UNCHANGED <<lease, settled>>
    /\ UNCHANGED <<now, minted>>

\* A release ends the client's interest in the key, whether it deleted the row
\* or not (its callers ignore the Boolean).  SQLite leaves an expired row where
\* it is; the in-memory store sweeps it.
ReleaseIdempotency(c, t, sweep) ==
    /\ Holds(c)
    /\ LET own == lease[c]
           row == table[own.key]
       IN  table' = [table EXCEPT ![own.key] =
                       IF MayRelease(row, own.fingerprint, own.claimToken, t) THEN NoRecord
                       ELSE IF sweep THEN Swept(row, t) ELSE row]
    /\ lease' = [lease EXCEPT ![c] = NoLease]
    /\ UNCHANGED <<now, minted, settled>>

ReadIdempotency(key, t) ==
    /\ table' = [table EXCEPT ![key] = Swept(table[key], t)]
    /\ UNCHANGED <<now, minted, lease, settled>>

\* The client's process dies, or it drops its claim; the row stays.
Forget(c) ==
    /\ Holds(c)
    /\ lease' = [lease EXCEPT ![c] = NoLease]
    /\ UNCHANGED <<now, table, minted, settled>>

StoreNext ==
    \/ Tick
    \/ \E t \in Readings :
         \/ \E key \in Keys, all \in BOOLEAN : RefuseClaim(key, t, all)
         \/ \E key \in Keys : ReadIdempotency(key, t)
         \/ \E c \in Clients :
              \/ \E key \in Keys, fp \in Fingerprints, ttl \in Ttls, all \in BOOLEAN :
                   ClaimIdempotency(c, key, fp, ttl, t, all)
              \/ \E ttl \in Ttls : RenewIdempotency(c, ttl, t)
              \/ \E result \in Results, ttl \in Ttls \cup {0} :
                   CompleteIdempotency(c, result, ttl, t)
              \/ \E sweep \in BOOLEAN : ReleaseIdempotency(c, t, sweep)
    \/ \E c \in Clients : Forget(c)

StoreSpec == StoreInit /\ [][StoreNext]_storeVars
--------------------------------------------------------------------------------
StoreTypeOK ==
    /\ now \in Nat
    /\ table \in [Keys -> Row]
    /\ minted \in Nat
    /\ lease \in [Clients -> Lease \cup {NoLease}]
    /\ settled \subseteq Settlement

\* Until the instant a client was told its claim lasts, the row is there, is
\* that client's generation, and lasts at least as long: no other client's
\* claim, renewal, completion, release or sweep, and no late clock reading,
\* takes it away (claimIdempotency, renewIdempotency, completeIdempotency).
ReportedLeaseHolds ==
    \A c \in Clients : Holds(c) /\ lease[c].expiresAt > now =>
        LET row == table[lease[c].key]
        IN  /\ row # NoRecord
            /\ Owns(row, lease[c].fingerprint, lease[c].claimToken)
            /\ row.expiresAt >= lease[c].expiresAt

\* No two clients are at once inside the lease they were told they hold on
\* the same key: claims are mutually exclusive while they last.
LiveClaimsAreExclusive ==
    \A c, d \in Clients :
        (/\ Holds(c) /\ lease[c].expiresAt > now
         /\ Holds(d) /\ lease[d].expiresAt > now
         /\ lease[c].key = lease[d].key) => c = d

\* A completion that was acknowledged stays readable, with the acknowledged
\* result, until the instant that was acknowledged with it.
AcknowledgedResultRetained ==
    \A s \in settled : s.expiresAt > now =>
        LET row == table[s.key]
        IN  /\ row # NoRecord
            /\ row.claimToken = s.claimToken
            /\ row.state = "completed"
            /\ row.resultRef = s.resultRef
            /\ row.expiresAt >= s.expiresAt

\* What a client was told by a call holds until the instant it was told with it,
\* whatever others do to the row and however late their clock readings are.
PromisesKept == ReportedLeaseHolds /\ AcknowledgedResultRetained

\* One generation has one result, however often and however late its
\* completion is repeated.
OneResultPerGeneration ==
    \A r, s \in settled : r.claimToken = s.claimToken => r.resultRef = s.resultRef
================================================================================
