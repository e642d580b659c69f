------------------------ MODULE IdempotencyStore_proofs ------------------------
(***************************************************************************)
(* Proofs about the idempotency store, for every set of clients, keys,     *)
(* fingerprints and results, every ttl and every lag of the callers'       *)
(* clocks.                                                                 *)
(***************************************************************************)
EXTENDS IdempotencyStore, TLAPS

\* Generations are unique: every token in use was minted, and no two clients
\* hold the same one.
TokensUnique ==
    /\ \A k \in Keys : table[k] # NoRecord => table[k].claimToken <= minted
    /\ \A c \in Clients : Holds(c) => lease[c].claimToken <= minted
    /\ \A s \in settled : s.claimToken <= minted
    /\ \A c, d \in Clients :
         Holds(c) /\ Holds(d) /\ lease[c].claimToken = lease[d].claimToken => c = d

\* A client's generation is settled on the client's own key, and while the row
\* of a settled generation lasts it carries the settled result.
SettlementsMatch ==
    /\ \A s \in settled, c \in Clients :
         Holds(c) /\ lease[c].claimToken = s.claimToken => lease[c].key = s.key
    /\ \A s \in settled :
         table[s.key] # NoRecord /\ table[s.key].claimToken = s.claimToken
           => /\ table[s.key].state = "completed"
              /\ table[s.key].resultRef = s.resultRef

IInv ==
    /\ StoreTypeOK
    /\ TokensUnique
    /\ SettlementsMatch
    /\ ReportedLeaseHolds
    /\ AcknowledgedResultRetained
    /\ OneResultPerGeneration
--------------------------------------------------------------------------------
LEMMA InitIInv == StoreInit => IInv
  BY StoreAssumption
     DEF StoreInit, IInv, StoreTypeOK, Row, TokensUnique, SettlementsMatch, ReportedLeaseHolds,
         AcknowledgedResultRetained, OneResultPerGeneration, Holds

\* Steps that touch the table only by deleting rows expired at a caller's
\* reading preserve the invariant: such a row is past every promise.
LEMMA SweepIInv ==
    ASSUME IInv, NEW t \in Readings, UNCHANGED <<now, minted, lease, settled>>,
           table' \in [Keys -> Row],
           \A k \in Keys : table'[k] = table[k] \/ table'[k] = Swept(table[k], t)
    PROVE  IInv'
  <1> DEFINE kept(k) == table'[k] = table[k]
             gone(k) == table'[k] = NoRecord /\ (table[k] = NoRecord \/ table[k].expiresAt <= now)
  <1>1. \A k \in Keys : kept(k) \/ gone(k)
    BY DEF IInv, StoreTypeOK, Row, Record, Swept, Live, Readings
  <1>2. StoreTypeOK'
    BY DEF IInv, StoreTypeOK, Settlement, Lease
  <1>3. TokensUnique'
    BY <1>1 DEF IInv, TokensUnique, Holds
  <1>4. SettlementsMatch'
    BY <1>1 DEF IInv, StoreTypeOK, Settlement, SettlementsMatch, Holds
  <1>5. ReportedLeaseHolds'
    <2> SUFFICES ASSUME NEW c \in Clients, Holds(c), lease[c].expiresAt > now
                 PROVE  /\ table'[lease[c].key] # NoRecord
                        /\ Owns(table'[lease[c].key], lease[c].fingerprint, lease[c].claimToken)
                        /\ table'[lease[c].key].expiresAt >= lease[c].expiresAt
      BY DEF ReportedLeaseHolds, Holds, Owns
    <2>1. lease[c] \in Lease
      BY DEF IInv, StoreTypeOK, Holds
    <2>2. /\ table[lease[c].key] # NoRecord
          /\ Owns(table[lease[c].key], lease[c].fingerprint, lease[c].claimToken)
          /\ table[lease[c].key].expiresAt >= lease[c].expiresAt
      BY DEF IInv, ReportedLeaseHolds
    <2>3. table[lease[c].key] \in Record(Fingerprints, Results)
      BY <2>1, <2>2 DEF IInv, StoreTypeOK, Row, Lease
    <2>4. kept(lease[c].key)
      BY <1>1, <2>1, <2>2, <2>3 DEF IInv, StoreTypeOK, Lease, Record
    <2> QED
      BY <2>2, <2>4
  <1>6. AcknowledgedResultRetained'
    <2> SUFFICES ASSUME NEW s \in settled, s.expiresAt > now
                 PROVE  /\ table'[s.key] # NoRecord
                        /\ table'[s.key].claimToken = s.claimToken
                        /\ table'[s.key].state = "completed"
                        /\ table'[s.key].resultRef = s.resultRef
                        /\ table'[s.key].expiresAt >= s.expiresAt
      BY DEF AcknowledgedResultRetained
    <2>1. s \in Settlement
      BY DEF IInv, StoreTypeOK
    <2>2. /\ table[s.key] # NoRecord
          /\ table[s.key].claimToken = s.claimToken
          /\ table[s.key].state = "completed"
          /\ table[s.key].resultRef = s.resultRef
          /\ table[s.key].expiresAt >= s.expiresAt
      BY DEF IInv, AcknowledgedResultRetained
    <2>3. table[s.key] \in Record(Fingerprints, Results)
      BY <2>1, <2>2 DEF IInv, StoreTypeOK, Row, Settlement
    <2>4. kept(s.key)
      BY <1>1, <2>1, <2>2, <2>3 DEF IInv, StoreTypeOK, Settlement, Record
    <2> QED
      BY <2>2, <2>4
  <1>7. OneResultPerGeneration'
    BY DEF IInv, OneResultPerGeneration
  <1> QED
    BY <1>2, <1>3, <1>4, <1>5, <1>6, <1>7 DEF IInv

\* Time only ends promises.
LEMMA TickIInv == ASSUME IInv, Tick PROVE IInv'
  <1>1. now' \in Nat /\ now < now' /\ UNCHANGED <<table, minted, lease, settled>>
    BY DEF Tick, IInv, StoreTypeOK
  <1>2. StoreTypeOK' /\ TokensUnique' /\ SettlementsMatch' /\ OneResultPerGeneration'
    BY <1>1 DEF IInv, StoreTypeOK, TokensUnique, SettlementsMatch, OneResultPerGeneration, Holds
  <1>3. ReportedLeaseHolds'
    BY <1>1 DEF IInv, StoreTypeOK, Lease, ReportedLeaseHolds, Holds, Owns
  <1>4. AcknowledgedResultRetained'
    BY <1>1 DEF IInv, StoreTypeOK, Settlement, AcknowledgedResultRetained
  <1> QED
    BY <1>2, <1>3, <1>4 DEF IInv

\* A client that stops holding a claim breaks no promise: the row outlives it.
LEMMA ForgetIInv ==
    ASSUME IInv, NEW c \in Clients, Forget(c)
    PROVE  IInv'
  <1>1. /\ UNCHANGED <<now, table, minted, settled>>
        /\ lease' \in [Clients -> Lease \cup {NoLease}]
        /\ lease'[c] = NoLease
        /\ \A d \in Clients : lease'[d] # NoLease => d # c /\ lease'[d] = lease[d]
    BY DEF Forget, IInv, StoreTypeOK
  <1>2. StoreTypeOK' /\ OneResultPerGeneration' /\ AcknowledgedResultRetained'
    BY <1>1 DEF IInv, StoreTypeOK, OneResultPerGeneration, AcknowledgedResultRetained
  <1>3. TokensUnique' /\ SettlementsMatch' /\ ReportedLeaseHolds'
    BY <1>1 DEF IInv, TokensUnique, SettlementsMatch, ReportedLeaseHolds, Holds, Owns
  <1> QED
    BY <1>2, <1>3 DEF IInv

LEMMA SweptTableKeepsOrSweeps ==
    ASSUME IInv, NEW key \in Keys, NEW t, NEW all \in BOOLEAN
    PROVE  /\ SweptTable(key, t, all) \in [Keys -> Row]
           /\ \A k \in Keys : \/ SweptTable(key, t, all)[k] = table[k]
                              \/ SweptTable(key, t, all)[k] = Swept(table[k], t)
  BY DEF SweptTable, Swept, IInv, StoreTypeOK, Row

\* A granted claim takes a key whose row is past every promise, under a token
\* nobody has seen.
LEMMA ClaimIInv ==
    ASSUME IInv, NEW c \in Clients, NEW key \in Keys, NEW fingerprint \in Fingerprints,
           NEW ttl \in Ttls, NEW t \in Readings, NEW all \in BOOLEAN,
           ClaimIdempotency(c, key, fingerprint, ttl, t, all)
    PROVE  IInv'
  <1> DEFINE row == Claimed(fingerprint, minted + 1, t, ttl)
             own == [key |-> key, fingerprint |-> fingerprint, claimToken |-> minted + 1,
                     expiresAt |-> row.expiresAt]
  <1>1. /\ lease[c] = NoLease /\ ~Live(table[key], t)
        /\ minted' = minted + 1 /\ now' = now /\ settled' = settled
        /\ table' = [SweptTable(key, t, all) EXCEPT ![key] = row]
        /\ lease' = [lease EXCEPT ![c] = own]
    BY Zenon DEF ClaimIdempotency, Holds
  <1>2. t \in Nat /\ t <= now /\ ttl \in Nat /\ minted \in Nat
    BY StoreAssumption DEF Readings, IInv, StoreTypeOK
  <1>3. row \in Record(Fingerprints, Results) /\ own \in Lease
        /\ row # NoRecord /\ own # NoLease
    BY <1>2, StoreAssumption DEF Claimed, Record, Lease
  <1>4. /\ table' \in [Keys -> Row] /\ table'[key] = row
        /\ \A k \in Keys \ {key} : \/ table'[k] = table[k]
                                   \/ table'[k] = NoRecord /\ ~Live(table[k], t)
    <2>1. /\ SweptTable(key, t, all) \in [Keys -> Row]
          /\ \A k \in Keys : \/ SweptTable(key, t, all)[k] = table[k]
                             \/ SweptTable(key, t, all)[k] = Swept(table[k], t)
      BY SweptTableKeepsOrSweeps
    <2>2. \A k \in Keys : \/ Swept(table[k], t) = table[k]
                          \/ Swept(table[k], t) = NoRecord /\ ~Live(table[k], t)
      BY DEF Swept
    <2>3. row \in Row
      BY <1>3 DEF Row
    <2>4. table' = [SweptTable(key, t, all) EXCEPT ![key] = row]
      BY <1>1
    <2> HIDE DEF row
    <2>5. table' \in [Keys -> Row] /\ table'[key] = row
      BY <2>1, <2>3, <2>4
    <2>6. \A k \in Keys \ {key} : table'[k] = SweptTable(key, t, all)[k]
      BY <2>1, <2>4
    <2> QED
      BY <2>1, <2>2, <2>5, <2>6
  <1>5. /\ lease' \in [Clients -> Lease \cup {NoLease}] /\ lease'[c] = own
        /\ \A d \in Clients \ {c} : lease'[d] = lease[d]
    BY <1>1, <1>3 DEF IInv, StoreTypeOK
  <1>6. \A k \in Keys : table[k] # NoRecord => table[k] \in Record(Fingerprints, Results)
    BY DEF IInv, StoreTypeOK, Row
  <1>7. row.claimToken = minted + 1 /\ own.claimToken = minted + 1 /\ own.key = key
        /\ own.fingerprint = row.fingerprint /\ own.expiresAt = row.expiresAt
    BY DEF Claimed
  <1>8. StoreTypeOK'
    BY <1>1, <1>2, <1>4, <1>5 DEF IInv, StoreTypeOK, Settlement
  <1>9. TokensUnique'
    <2>1. \A k \in Keys : table'[k] # NoRecord => table'[k].claimToken <= minted'
      BY <1>1, <1>2, <1>4, <1>6, <1>7 DEF IInv, TokensUnique, Record
    <2>2. \A d \in Clients : lease'[d] # NoLease => lease'[d].claimToken <= minted'
      BY <1>1, <1>2, <1>5, <1>7 DEF IInv, StoreTypeOK, TokensUnique, Holds, Lease
    <2>3. \A s \in settled' : s.claimToken <= minted'
      BY <1>1, <1>2 DEF IInv, StoreTypeOK, TokensUnique, Settlement
    <2>4. \A d \in Clients \ {c} : lease[d] # NoLease => lease[d].claimToken # minted + 1
      BY <1>2 DEF IInv, StoreTypeOK, TokensUnique, Holds, Lease
    <2>5. \A d, e \in Clients :
            lease'[d] # NoLease /\ lease'[e] # NoLease
              /\ lease'[d].claimToken = lease'[e].claimToken => d = e
      BY <1>5, <1>7, <2>4 DEF IInv, TokensUnique, Holds
    <2> QED
      BY <2>1, <2>2, <2>3, <2>5 DEF TokensUnique, Holds
  <1>10. \A s \in settled : s.claimToken # minted + 1 /\ s \in Settlement
    BY <1>2 DEF IInv, StoreTypeOK, TokensUnique, Settlement
  <1>11. SettlementsMatch'
    BY <1>1, <1>4, <1>5, <1>7, <1>10 DEF IInv, SettlementsMatch, Holds, Settlement
  <1>12. ReportedLeaseHolds'
    <2> SUFFICES ASSUME NEW d \in Clients, lease'[d] # NoLease, lease'[d].expiresAt > now
                 PROVE  /\ table'[lease'[d].key] # NoRecord
                        /\ Owns(table'[lease'[d].key], lease'[d].fingerprint, lease'[d].claimToken)
                        /\ table'[lease'[d].key].expiresAt >= lease'[d].expiresAt
      BY <1>1 DEF ReportedLeaseHolds, Holds, Owns
    <2>1. CASE d = c
      BY <1>3, <1>4, <1>5, <1>7, <2>1 DEF Owns, Record
    <2>2. CASE d # c
      <3>1. lease'[d] = lease[d] /\ lease[d] \in Lease /\ lease[d].key \in Keys
        BY <1>5, <2>2 DEF IInv, StoreTypeOK, Lease
      <3>2. /\ table[lease[d].key] # NoRecord
            /\ Owns(table[lease[d].key], lease[d].fingerprint, lease[d].claimToken)
            /\ table[lease[d].key].expiresAt >= lease[d].expiresAt
        BY <3>1 DEF IInv, ReportedLeaseHolds, Holds
      <3>3. Live(table[lease[d].key], t)
        BY <1>2, <1>6, <3>1, <3>2 DEF Live, Record, Lease, IInv, StoreTypeOK
      <3>4. table'[lease[d].key] = table[lease[d].key]
        BY <1>1, <1>4, <3>1, <3>3
      <3> QED
        BY <3>1, <3>2, <3>4
    <2> QED
      BY <2>1, <2>2
  <1>13. AcknowledgedResultRetained'
    <2> SUFFICES ASSUME NEW s \in settled, s.expiresAt > now
                 PROVE  /\ table'[s.key] # NoRecord
                        /\ table'[s.key].claimToken = s.claimToken
                        /\ table'[s.key].state = "completed"
                        /\ table'[s.key].resultRef = s.resultRef
                        /\ table'[s.key].expiresAt >= s.expiresAt
      BY <1>1 DEF AcknowledgedResultRetained
    <2>1. /\ table[s.key] # NoRecord
          /\ table[s.key].claimToken = s.claimToken
          /\ table[s.key].state = "completed"
          /\ table[s.key].resultRef = s.resultRef
          /\ table[s.key].expiresAt >= s.expiresAt
      BY DEF IInv, AcknowledgedResultRetained
    <2>2. s.key \in Keys /\ Live(table[s.key], t)
      BY <1>2, <1>6, <1>10, <2>1 DEF Live, Record, Settlement, IInv, StoreTypeOK
    <2>3. table'[s.key] = table[s.key]
      BY <1>1, <1>4, <2>2
    <2> QED
      BY <2>1, <2>3
  <1>14. OneResultPerGeneration'
    BY <1>1 DEF IInv, OneResultPerGeneration
  <1> QED
    BY <1>8, <1>9, <1>11, <1>12, <1>13, <1>14 DEF IInv

\* A renewal or completion that succeeds rewrites the client's own row in its
\* own generation and never shortens it.
LEMMA RewriteIInv ==
    ASSUME IInv, NEW c \in Clients, Holds(c),
           NEW row \in Record(Fingerprints, Results),
           NEW news \in SUBSET Settlement,
           table[lease[c].key] # NoRecord,
           Owns(table[lease[c].key], lease[c].fingerprint, lease[c].claimToken),
           row.fingerprint = table[lease[c].key].fingerprint,
           row.claimToken = table[lease[c].key].claimToken,
           row.expiresAt >= table[lease[c].key].expiresAt,
           \/ /\ table[lease[c].key].state = "pending" /\ row.state = "pending" /\ news = {}
           \/ /\ row.state = "completed"
              /\ table[lease[c].key].state = "completed"
                   => row.resultRef = table[lease[c].key].resultRef
              /\ row.resultRef \in Results
              /\ news = {[key |-> lease[c].key, claimToken |-> lease[c].claimToken,
                          resultRef |-> row.resultRef, expiresAt |-> row.expiresAt]},
           table' = [table EXCEPT ![lease[c].key] = row],
           lease' = [lease EXCEPT ![c].expiresAt = row.expiresAt],
           settled' = settled \cup news,
           UNCHANGED <<now, minted>>
    PROVE  IInv'
  <1> DEFINE own == lease[c]
             old == table[own.key]
  <1>1. own \in Lease /\ own.key \in Keys /\ own.claimToken \in Nat
    BY DEF IInv, StoreTypeOK, Holds, Lease
  <1>2. old \in Record(Fingerprints, Results) /\ row # NoRecord
    BY <1>1, StoreAssumption DEF IInv, StoreTypeOK, Row
  <1>3. /\ table' \in [Keys -> Row] /\ table'[own.key] = row
        /\ \A k \in Keys \ {own.key} : table'[k] = table[k]
    BY <1>1 DEF IInv, StoreTypeOK, Row
  <1>4. /\ row.expiresAt \in Nat /\ row.claimToken = own.claimToken
        /\ row.fingerprint = own.fingerprint
    BY DEF Record, Owns
  <1>5. lease'[c] = [own EXCEPT !.expiresAt = row.expiresAt]
    BY DEF IInv, StoreTypeOK
  <1>6. /\ lease'[c] \in Lease /\ lease'[c].key = own.key
        /\ lease'[c].claimToken = own.claimToken
        /\ lease'[c].fingerprint = own.fingerprint
        /\ lease'[c].expiresAt = row.expiresAt
    BY <1>1, <1>4, <1>5 DEF Lease
  <1>7. /\ lease' \in [Clients -> Lease \cup {NoLease}] /\ lease'[c] # NoLease
        /\ \A d \in Clients \ {c} : lease'[d] = lease[d]
    BY <1>5, <1>6, StoreAssumption DEF IInv, StoreTypeOK
  <1>8. \A d \in Clients \ {c} : lease[d] # NoLease =>
          lease[d] \in Lease /\ lease[d].claimToken # own.claimToken
    BY DEF IInv, StoreTypeOK, TokensUnique, Holds
  <1>9. \A s \in settled : s \in Settlement
    BY DEF IInv, StoreTypeOK
  <1>10. StoreTypeOK'
    BY <1>3, <1>7 DEF IInv, StoreTypeOK
  <1>11. TokensUnique'
    <2>1. \A k \in Keys : table'[k] # NoRecord => table'[k].claimToken <= minted
      BY <1>3, <1>4, Holds(c) DEF IInv, TokensUnique, Holds
    <2>2. \A d \in Clients : lease'[d] # NoLease =>
            lease'[d].claimToken = lease[d].claimToken /\ lease[d] # NoLease
      BY <1>6, <1>7 DEF Holds
    <2>3. \A s \in settled' : s.claimToken <= minted
      BY DEF IInv, TokensUnique
    <2> QED
      BY <2>1, <2>2, <2>3 DEF IInv, TokensUnique, Holds
  <1>12. \A s \in settled : s.claimToken = own.claimToken =>
           /\ s.key = own.key /\ old.state = "completed" /\ old.resultRef = s.resultRef
           /\ row.state = "completed" /\ row.resultRef = s.resultRef
    BY <1>4 DEF IInv, SettlementsMatch, Owns
  <1>13. \A s \in news :
           /\ s.key = own.key /\ s.claimToken = own.claimToken
           /\ s.resultRef = row.resultRef /\ s.expiresAt = row.expiresAt
           /\ row.state = "completed"
    OBVIOUS
  <1>14. SettlementsMatch'
    <2>1. \A s \in settled', d \in Clients :
            lease'[d] # NoLease /\ lease'[d].claimToken = s.claimToken => lease'[d].key = s.key
      BY <1>6, <1>7, <1>8, <1>12, <1>13 DEF IInv, SettlementsMatch, Holds
    <2>2. \A s \in settled' :
            table'[s.key] # NoRecord /\ table'[s.key].claimToken = s.claimToken
              => table'[s.key].state = "completed" /\ table'[s.key].resultRef = s.resultRef
      BY <1>3, <1>4, <1>9, <1>12, <1>13 DEF IInv, SettlementsMatch, Settlement
    <2> QED
      BY <2>1, <2>2 DEF SettlementsMatch, Holds
  <1>15. ReportedLeaseHolds'
    <2> SUFFICES ASSUME NEW d \in Clients, lease'[d] # NoLease, lease'[d].expiresAt > now
                 PROVE  /\ table'[lease'[d].key] # NoRecord
                        /\ Owns(table'[lease'[d].key], lease'[d].fingerprint, lease'[d].claimToken)
                        /\ table'[lease'[d].key].expiresAt >= lease'[d].expiresAt
      BY DEF ReportedLeaseHolds, Holds, Owns
    <2>1. CASE d = c
      BY <1>2, <1>3, <1>4, <1>6, <2>1 DEF Owns
    <2>2. CASE d # c
      <3>1. lease'[d] = lease[d] /\ lease[d].key \in Keys
            /\ lease[d].claimToken # own.claimToken
        BY <1>7, <1>8, <2>2 DEF Lease
      <3>2. /\ table[lease[d].key] # NoRecord
            /\ Owns(table[lease[d].key], lease[d].fingerprint, lease[d].claimToken)
            /\ table[lease[d].key].expiresAt >= lease[d].expiresAt
        BY <3>1 DEF IInv, ReportedLeaseHolds, Holds
      <3>3. lease[d].key # own.key
        BY <3>1, <3>2 DEF Owns
      <3> QED
        BY <1>3, <3>1, <3>2, <3>3
    <2> QED
      BY <2>1, <2>2
  <1>16. AcknowledgedResultRetained'
    <2> SUFFICES ASSUME NEW s \in settled', s.expiresAt > now
                 PROVE  /\ table'[s.key] # NoRecord
                        /\ table'[s.key].claimToken = s.claimToken
                        /\ table'[s.key].state = "completed"
                        /\ table'[s.key].resultRef = s.resultRef
                        /\ table'[s.key].expiresAt >= s.expiresAt
      BY DEF AcknowledgedResultRetained
    <2>1. CASE s \in news
      BY <1>2, <1>3, <1>4, <1>13, <2>1
    <2>2. CASE s \in settled
      <3>1. /\ table[s.key] # NoRecord
            /\ table[s.key].claimToken = s.claimToken
            /\ table[s.key].state = "completed"
            /\ table[s.key].resultRef = s.resultRef
            /\ table[s.key].expiresAt >= s.expiresAt
        BY <2>2 DEF IInv, AcknowledgedResultRetained
      <3>2. s.key \in Keys /\ s.expiresAt \in Nat
        BY <1>9, <2>2 DEF Settlement
      <3>3. CASE s.key = own.key
        <4>1. s.claimToken = own.claimToken
          BY <1>4, <3>1, <3>3
        <4> QED
          BY <1>2, <1>3, <1>4, <1>12, <2>2, <3>1, <3>2, <3>3, <4>1 DEF Record
      <3>4. CASE s.key # own.key
        BY <1>3, <3>1, <3>2, <3>4
      <3> QED
        BY <3>3, <3>4
    <2> QED
      BY <2>1, <2>2
  <1>17. OneResultPerGeneration'
    BY <1>12, <1>13 DEF IInv, OneResultPerGeneration
  <1> QED
    BY <1>10, <1>11, <1>14, <1>15, <1>16, <1>17 DEF IInv

\* A refused renewal, completion or release only deletes a row that expired.
LEMMA OwnKeySweep ==
    ASSUME IInv, NEW c \in Clients, Holds(c), NEW t \in Readings,
           table' = [table EXCEPT ![lease[c].key] = Swept(table[lease[c].key], t)],
           UNCHANGED <<now, minted, lease, settled>>
    PROVE  IInv'
  <1>1. lease[c].key \in Keys
    BY DEF IInv, StoreTypeOK, Holds, Lease
  <1>2. Swept(table[lease[c].key], t) \in Row
    BY <1>1 DEF IInv, StoreTypeOK, Swept, Row
  <1>3. table' \in [Keys -> Row]
    BY <1>1, <1>2 DEF IInv, StoreTypeOK
  <1>4. \A k \in Keys : table'[k] = table[k] \/ table'[k] = Swept(table[k], t)
    BY <1>1 DEF IInv, StoreTypeOK
  <1> QED
    BY <1>3, <1>4, SweepIInv

\* A row of the store, its expiry extended.
LEMMA ExtendedType ==
    ASSUME NEW row \in Record(Fingerprints, Results), NEW t \in Nat, NEW ttl \in Nat
    PROVE  /\ Extended(row, t, ttl) \in Record(Fingerprints, Results)
           /\ Extended(row, t, ttl).expiresAt >= row.expiresAt
           /\ Extended(row, t, ttl) = [row EXCEPT !.expiresAt = Extended(row, t, ttl).expiresAt]
  BY DEF Record, Extended, Later

LEMMA RenewIInv ==
    ASSUME IInv, NEW c \in Clients, NEW ttl \in Ttls, NEW t \in Readings,
           RenewIdempotency(c, ttl, t)
    PROVE  IInv'
  <1> DEFINE own == lease[c]
             row == table[own.key]
  <1>1. Holds(c) /\ UNCHANGED <<now, minted, settled>>
    BY DEF RenewIdempotency
  <1>2. CASE MayRenew(row, own.fingerprint, own.claimToken, t)
    <2>1. row \in Record(Fingerprints, Results) /\ row # NoRecord /\ t \in Nat /\ ttl \in Nat
      BY <1>1, <1>2, StoreAssumption
         DEF MayRenew, Live, IInv, StoreTypeOK, Holds, Lease, Row, Readings
    <2>2. /\ Extended(row, t, ttl) \in Record(Fingerprints, Results)
          /\ Extended(row, t, ttl).expiresAt >= row.expiresAt
          /\ Extended(row, t, ttl).fingerprint = row.fingerprint
          /\ Extended(row, t, ttl).claimToken = row.claimToken
          /\ Extended(row, t, ttl).state = row.state
      BY <2>1, ExtendedType DEF Record
    <2>3. /\ table' = [table EXCEPT ![own.key] = Extended(row, t, ttl)]
          /\ lease' = [lease EXCEPT ![c].expiresAt = Extended(row, t, ttl).expiresAt]
      BY <1>2 DEF RenewIdempotency
    <2>4. row.state = "pending" /\ Owns(row, own.fingerprint, own.claimToken)
      BY <1>2 DEF MayRenew
    <2>5. settled' = settled \cup {} /\ {} \in SUBSET Settlement
      BY <1>1
    <2> DEFINE renewed == Extended(row, t, ttl)
    <2> HIDE DEF renewed
    <2>6. /\ renewed \in Record(Fingerprints, Results)
          /\ renewed.fingerprint = row.fingerprint /\ renewed.claimToken = row.claimToken
          /\ renewed.expiresAt >= row.expiresAt
          /\ row.state = "pending" /\ renewed.state = "pending"
          /\ table' = [table EXCEPT ![own.key] = renewed]
          /\ lease' = [lease EXCEPT ![c].expiresAt = renewed.expiresAt]
      BY <2>2, <2>3, <2>4 DEF renewed
    <2> QED
      BY <1>1, <2>1, <2>4, <2>5, <2>6, RewriteIInv
  <1>3. CASE ~MayRenew(row, own.fingerprint, own.claimToken, t)
    BY <1>1, <1>3, OwnKeySweep DEF RenewIdempotency
  <1> QED
    BY <1>2, <1>3

LEMMA CompleteIInv ==
    ASSUME IInv, NEW c \in Clients, NEW result \in Results, NEW ttl \in Ttls \cup {0},
           NEW t \in Readings, CompleteIdempotency(c, result, ttl, t)
    PROVE  IInv'
  <1> DEFINE own == lease[c]
             row == table[own.key]
             done == Completed(row, result, t, ttl)
  <1>1. Holds(c) /\ UNCHANGED <<now, minted>>
    BY DEF CompleteIdempotency
  <1>2. CASE MayComplete(row, own.fingerprint, own.claimToken, result, t)
    <2>1. /\ row \in Record(Fingerprints, Results) /\ row # NoRecord
          /\ t \in Nat /\ ttl \in Nat /\ own \in Lease
      BY <1>1, <1>2, StoreAssumption
         DEF MayComplete, Live, IInv, StoreTypeOK, Holds, Lease, Row, Readings
    <2>2. /\ done \in Record(Fingerprints, Results)
          /\ done.expiresAt >= row.expiresAt
          /\ done.fingerprint = row.fingerprint
          /\ done.claimToken = row.claimToken
          /\ done.state = "completed" /\ done.resultRef = result
      <3> DEFINE base == IF ttl = 0 THEN row ELSE Extended(row, t, ttl)
      <3>1. /\ base \in Record(Fingerprints, Results) /\ base.expiresAt >= row.expiresAt
            /\ base.fingerprint = row.fingerprint /\ base.claimToken = row.claimToken
        BY <2>1, ExtendedType DEF Record
      <3> HIDE DEF base
      <3>2. done = [base EXCEPT !.state = "completed", !.resultRef = result]
        BY DEF Completed, base
      <3> QED
        BY <3>1, <3>2, StoreAssumption DEF Record
    <2>3. /\ table' = [table EXCEPT ![own.key] = done]
          /\ lease' = [lease EXCEPT ![c].expiresAt = done.expiresAt]
          /\ settled' = settled \cup
               {[key |-> own.key, claimToken |-> own.claimToken,
                 resultRef |-> done.resultRef, expiresAt |-> done.expiresAt]}
      BY <1>2, <2>2 DEF CompleteIdempotency
    <2>4. /\ Owns(row, own.fingerprint, own.claimToken)
          /\ row.state = "completed" => row.resultRef = result
      BY <1>2 DEF MayComplete
    <2> HIDE DEF done
    <2>5. [key |-> own.key, claimToken |-> own.claimToken,
           resultRef |-> done.resultRef, expiresAt |-> done.expiresAt] \in Settlement
      BY <2>1, <2>2 DEF Settlement, Lease, Record
    <2> DEFINE news == {[key |-> own.key, claimToken |-> own.claimToken,
                         resultRef |-> done.resultRef, expiresAt |-> done.expiresAt]}
    <2>6. /\ news \in SUBSET Settlement /\ settled' = settled \cup news
          /\ row.state = "completed" => done.resultRef = row.resultRef
          /\ done.resultRef \in Results
      BY <2>2, <2>3, <2>4, <2>5
    <2> QED
      BY <1>1, <2>1, <2>2, <2>3, <2>4, <2>6, RewriteIInv
  <1>3. CASE ~MayComplete(row, own.fingerprint, own.claimToken, result, t)
    BY <1>1, <1>3, OwnKeySweep DEF CompleteIdempotency
  <1> QED
    BY <1>2, <1>3

\* A release gives up the claim first and then deletes nothing but the
\* releasing generation's own pending row, or an expired one.
LEMMA ReleaseIInv ==
    ASSUME IInv, NEW c \in Clients, NEW t \in Readings, NEW sweep \in BOOLEAN,
           ReleaseIdempotency(c, t, sweep)
    PROVE  IInv'
  <1> DEFINE own == lease[c]
             row == table[own.key]
  <1>1. /\ Holds(c) /\ UNCHANGED <<now, minted, settled>>
        /\ lease' = [lease EXCEPT ![c] = NoLease]
        /\ own \in Lease /\ own.key \in Keys
    BY DEF ReleaseIdempotency, IInv, StoreTypeOK, Holds, Lease
  <1>2. /\ lease' \in [Clients -> Lease \cup {NoLease}]
        /\ \A d \in Clients : lease'[d] # NoLease => d # c /\ lease'[d] = lease[d]
    BY <1>1 DEF IInv, StoreTypeOK
  <1>3. CASE MayRelease(row, own.fingerprint, own.claimToken, t)
    <2>1. table' = [table EXCEPT ![own.key] = NoRecord]
      BY <1>3 DEF ReleaseIdempotency
    <2>2. row.state = "pending" /\ row # NoRecord /\ row.claimToken = own.claimToken
      BY <1>3 DEF MayRelease, Live, Owns
    <2>3. /\ table' \in [Keys -> Row] /\ table'[own.key] = NoRecord
          /\ \A k \in Keys : table'[k] # NoRecord => table'[k] = table[k] /\ k # own.key
          /\ \A k \in Keys : k # own.key => table'[k] = table[k]
      BY <1>1, <2>1 DEF IInv, StoreTypeOK, Row
    <2>4. StoreTypeOK' /\ OneResultPerGeneration'
      BY <1>1, <1>2, <2>3 DEF IInv, StoreTypeOK, OneResultPerGeneration
    <2>5. TokensUnique'
      BY <1>1, <1>2, <2>3 DEF IInv, TokensUnique, Holds
    <2>6. SettlementsMatch'
      BY <1>1, <1>2, <2>3 DEF IInv, StoreTypeOK, Settlement, SettlementsMatch, Holds
    <2>7. ReportedLeaseHolds'
      <3> SUFFICES ASSUME NEW d \in Clients, lease'[d] # NoLease, lease'[d].expiresAt > now
                   PROVE  /\ table'[lease'[d].key] # NoRecord
                          /\ Owns(table'[lease'[d].key], lease'[d].fingerprint, lease'[d].claimToken)
                          /\ table'[lease'[d].key].expiresAt >= lease'[d].expiresAt
        BY <1>1 DEF ReportedLeaseHolds, Holds, Owns
      <3>1. d # c /\ lease'[d] = lease[d] /\ lease[d] # NoLease /\ lease[d].key \in Keys
        BY <1>2 DEF IInv, StoreTypeOK, Lease
      <3>2. /\ table[lease[d].key] # NoRecord
            /\ Owns(table[lease[d].key], lease[d].fingerprint, lease[d].claimToken)
            /\ table[lease[d].key].expiresAt >= lease[d].expiresAt
        BY <3>1 DEF IInv, ReportedLeaseHolds, Holds
      <3>3. lease[d].claimToken # own.claimToken
        BY <1>1, <3>1 DEF IInv, TokensUnique, Holds
      <3>4. lease[d].key # own.key
        BY <2>2, <3>2, <3>3 DEF Owns
      <3> QED
        BY <2>3, <3>1, <3>2, <3>4
    <2>8. AcknowledgedResultRetained'
      <3>1. \A s \in settled : s.expiresAt > now => s.key # own.key /\ s.key \in Keys
        BY <2>2 DEF IInv, StoreTypeOK, Settlement, AcknowledgedResultRetained
      <3> QED
        BY <1>1, <2>3, <3>1 DEF IInv, AcknowledgedResultRetained
    <2> QED
      BY <2>4, <2>5, <2>6, <2>7, <2>8 DEF IInv
  <1>4. CASE ~MayRelease(row, own.fingerprint, own.claimToken, t)
    <2>1. \/ table' = [table EXCEPT ![own.key] = Swept(row, t)]
          \/ table' = [table EXCEPT ![own.key] = row]
      BY <1>4 DEF ReleaseIdempotency
    <2>2. /\ table' \in [Keys -> Row] /\ t \in Nat /\ t <= now
          /\ \A k \in Keys : table'[k] = table[k]
               \/ (table'[k] = NoRecord /\ ~Live(table[k], t))
      BY <1>1, <2>1 DEF IInv, StoreTypeOK, Row, Swept, Readings
    <2>3. \A k \in Keys : table[k] # NoRecord /\ table[k].expiresAt > now => table'[k] = table[k]
      BY <2>2 DEF IInv, StoreTypeOK, Row, Record, Live
    <2>4. StoreTypeOK' /\ OneResultPerGeneration'
      BY <1>1, <1>2, <2>2 DEF IInv, StoreTypeOK, OneResultPerGeneration
    <2>5. TokensUnique'
      BY <1>1, <1>2, <2>2 DEF IInv, TokensUnique, Holds
    <2>6. SettlementsMatch'
      BY <1>1, <1>2, <2>2 DEF IInv, StoreTypeOK, Settlement, SettlementsMatch, Holds
    <2>7. ReportedLeaseHolds'
      <3>1. \A d \in Clients : lease[d] # NoLease => lease[d].key \in Keys /\ lease[d].expiresAt \in Nat
        BY DEF IInv, StoreTypeOK, Lease
      <3>2. \A k \in Keys : table[k] # NoRecord => table[k].expiresAt \in Nat
        BY DEF IInv, StoreTypeOK, Row, Record
      <3> QED
        BY <1>1, <1>2, <2>3, <3>1, <3>2 DEF IInv, StoreTypeOK, ReportedLeaseHolds, Holds, Owns
    <2>8. AcknowledgedResultRetained'
      <3>1. \A s \in settled : s.key \in Keys /\ s.expiresAt \in Nat
        BY DEF IInv, StoreTypeOK, Settlement
      <3>2. \A k \in Keys : table[k] # NoRecord => table[k].expiresAt \in Nat
        BY DEF IInv, StoreTypeOK, Row, Record
      <3> QED
        BY <1>1, <2>3, <3>1, <3>2 DEF IInv, StoreTypeOK, AcknowledgedResultRetained
    <2> QED
      BY <2>4, <2>5, <2>6, <2>7, <2>8 DEF IInv
  <1> QED
    BY <1>3, <1>4
--------------------------------------------------------------------------------
LEMMA StepIInv == IInv /\ [StoreNext]_storeVars => IInv'
  <1> SUFFICES ASSUME IInv, [StoreNext]_storeVars PROVE IInv'
    OBVIOUS
  <1>1. CASE Tick
    BY <1>1, TickIInv
  <1>2. ASSUME NEW t \in Readings, NEW key \in Keys, NEW all \in BOOLEAN,
               RefuseClaim(key, t, all)
        PROVE  IInv'
    BY <1>2, SweptTableKeepsOrSweeps, SweepIInv DEF RefuseClaim
  <1>3. ASSUME NEW t \in Readings, NEW key \in Keys, ReadIdempotency(key, t)
        PROVE  IInv'
    <2>1. table' = [table EXCEPT ![key] = Swept(table[key], t)]
          /\ UNCHANGED <<now, minted, lease, settled>>
      BY <1>3 DEF ReadIdempotency
    <2>2. table' \in [Keys -> Row]
      BY <2>1 DEF IInv, StoreTypeOK, Swept, Row
    <2>3. \A k \in Keys : table'[k] = table[k] \/ table'[k] = Swept(table[k], t)
      BY <2>1 DEF IInv, StoreTypeOK
    <2> QED
      BY <2>1, <2>2, <2>3, SweepIInv
  <1>4. ASSUME NEW c \in Clients, NEW t \in Readings, NEW key \in Keys,
               NEW fp \in Fingerprints, NEW ttl \in Ttls, NEW all \in BOOLEAN,
               ClaimIdempotency(c, key, fp, ttl, t, all)
        PROVE  IInv'
    BY <1>4, ClaimIInv
  <1>5. ASSUME NEW c \in Clients, NEW t \in Readings, NEW ttl \in Ttls,
               RenewIdempotency(c, ttl, t)
        PROVE  IInv'
    BY <1>5, RenewIInv
  <1>6. ASSUME NEW c \in Clients, NEW t \in Readings, NEW result \in Results,
               NEW ttl \in Ttls \cup {0}, CompleteIdempotency(c, result, ttl, t)
        PROVE  IInv'
    BY <1>6, CompleteIInv
  <1>7. ASSUME NEW c \in Clients, NEW t \in Readings, NEW sweep \in BOOLEAN,
               ReleaseIdempotency(c, t, sweep)
        PROVE  IInv'
    BY <1>7, ReleaseIInv
  <1>8. ASSUME NEW c \in Clients, Forget(c) PROVE IInv'
    BY <1>8, ForgetIInv
  <1>9. CASE UNCHANGED storeVars
    BY <1>9 DEF storeVars, IInv, StoreTypeOK, TokensUnique, SettlementsMatch, ReportedLeaseHolds,
                AcknowledgedResultRetained, OneResultPerGeneration, Holds, Owns
  <1> QED
    BY <1>1, <1>2, <1>3, <1>4, <1>5, <1>6, <1>7, <1>8, <1>9 DEF StoreNext

\* The inductive invariant holds in every reachable state.
THEOREM Invariance == StoreSpec => []IInv
  BY InitIInv, StepIInv, PTL DEF StoreSpec

\* The store's state is always well typed.
THEOREM TypeCorrect == StoreSpec => []StoreTypeOK
  BY Invariance, PTL DEF IInv

\* A lease a client was told it holds is there until it ends, for any clients,
\* keys, ttls and clock lag.
THEOREM LeasePromiseKept == StoreSpec => []ReportedLeaseHolds
  BY Invariance, PTL DEF IInv

\* Two clients never hold a live lease on one key.
THEOREM MutualExclusion == StoreSpec => []LiveClaimsAreExclusive
  <1>1. IInv => LiveClaimsAreExclusive
    BY DEF IInv, ReportedLeaseHolds, TokensUnique, LiveClaimsAreExclusive, Owns
  <1> QED
    BY Invariance, <1>1, PTL

\* An acknowledged completion is retained for as long as it was promised.
THEOREM CompletionsRetained == StoreSpec => []AcknowledgedResultRetained
  BY Invariance, PTL DEF IInv

\* Whatever a client was told, a lease or a completion, holds as long as it was told.
THEOREM EveryPromiseKept == StoreSpec => []PromisesKept
  BY LeasePromiseKept, CompletionsRetained, PTL DEF PromisesKept

\* No generation is ever acknowledged with two results.
THEOREM ResultsUnique == StoreSpec => []OneResultPerGeneration
  BY Invariance, PTL DEF IInv
================================================================================
