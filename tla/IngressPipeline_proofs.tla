-------------------------- MODULE IngressPipeline_proofs --------------------------
(***************************************************************************)
(* Proofs about one asynchronous adapter delivery, for any number of       *)
(* workers, receipts and process ids, and any budget of crashes, torn      *)
(* transitions and stalls: the records are true, the evidence of a send is *)
(* kept, a stale owner is fenced, and a reply that is one message is sent  *)
(* at most once.                                                           *)
(***************************************************************************)
EXTENDS IngressPipeline, FiniteSetTheorems, TLAPS

--------------------------------------------------------------------------------
(* Fresh tokens. *)

\* The range of a function with a finite domain is finite.
LEMMA RangeIsFinite ==
    ASSUME NEW S, IsFiniteSet(S), NEW f, f = [s \in S |-> f[s]]
    PROVE  IsFiniteSet({f[s] : s \in S})
<1> DEFINE T == {f[s] : s \in S}
<1>1. f \in Surjection(S, T)
  BY DEF Surjection
<1> HIDE DEF T
<1> QED
  BY <1>1, FS_Surjection DEF T

\* A finite set leaves one of the numbers up to one more than its size unused.
LEMMA ANumberIsUnused ==
    ASSUME NEW S, IsFiniteSet(S)
    PROVE  /\ Cardinality(S) \in Nat
           /\ \E t \in 1 .. Cardinality(S) + 1 : t \notin S
<1> DEFINE n == Cardinality(S)
<1>1. n \in Nat
  BY FS_CardinalityType
<1>2. SUFFICES ASSUME 1 .. n + 1 \subseteq S PROVE FALSE
  BY <1>1
<1>3. Cardinality(1 .. n + 1) <= n
  BY <1>2, FS_Subset
<1>4. Cardinality(1 .. n + 1) = n + 1
  <2>1. 1 \in Int /\ n + 1 \in Int /\ ~(1 > n + 1) /\ (n + 1) - 1 + 1 = n + 1
    BY <1>1
  <2> HIDE DEF n
  <2> QED
    BY <2>1, FS_Interval
<1> QED
  BY <1>1, <1>3, <1>4

\* Nobody remembers the generation randomUUID hands out.
LEMMA FreshTokenIsFresh ==
    ASSUME TypeOK
    PROVE  /\ FreshToken \in Nat \ {0}
           /\ \A w \in Workers :
                /\ worker[w].token # FreshToken
                /\ worker[w].image # NoEntry => worker[w].image.token # FreshToken
           /\ spool # NoEntry => spool.token # FreshToken
<1> DEFINE Holders == {v \in Workers : worker[v].image # NoEntry}
           Tokens == {worker[w].token : w \in Workers}
           Images == {worker[w].image.token : w \in Holders}
           Stores == {e.token : e \in {row, spool} \ {NoClaim, NoEntry}}
           inUse == Tokens \cup Images \cup Stores
<1>1. IsFiniteSet(Workers) /\ IsFiniteSet(Holders)
  BY PipelineAssumption, FS_Subset
<1>2. IsFiniteSet(Tokens)
  <2>1. PICK f : f = [w \in Workers |-> worker[w].token]
    OBVIOUS
  <2>2. IsFiniteSet({f[w] : w \in Workers})
    BY <1>1, <2>1, RangeIsFinite
  <2> QED
    BY <2>1, <2>2
<1>3. IsFiniteSet(Images)
  <2>1. PICK f : f = [w \in Holders |-> worker[w].image.token]
    OBVIOUS
  <2>2. IsFiniteSet({f[w] : w \in Holders})
    BY <1>1, <2>1, RangeIsFinite
  <2> QED
    BY <2>1, <2>2
<1>4. IsFiniteSet(Stores)
  <2> DEFINE E == {row, spool} \ {NoClaim, NoEntry}
  <2>1. IsFiniteSet(E)
    <3>1. IsFiniteSet({row} \cup {spool})
      BY FS_Singleton, FS_Union
    <3>2. E \in SUBSET ({row} \cup {spool})
      OBVIOUS
    <3> QED
      BY <3>1, <3>2, FS_Subset
  <2>2. PICK f : f = [e \in E |-> e.token]
    OBVIOUS
  <2>3. IsFiniteSet({f[e] : e \in E})
    BY <2>1, <2>2, RangeIsFinite
  <2> QED
    BY <2>2, <2>3
<1>5. IsFiniteSet(inUse)
  <2> HIDE DEF Tokens, Images, Stores
  <2> QED
    BY <1>2, <1>3, <1>4, FS_Union
<1>6. FreshToken = CHOOSE t \in 1 .. Cardinality(inUse) + 1 : t \notin inUse
  BY DEF FreshToken
<1>7. FreshToken \in 1 .. Cardinality(inUse) + 1 /\ FreshToken \notin inUse
  <2> HIDE DEF inUse
  <2> QED
    BY <1>5, <1>6, ANumberIsUnused
<1>8. FreshToken \in Nat \ {0}
  <2>1. Cardinality(inUse) \in Nat
    BY <1>5, FS_CardinalityType
  <2> HIDE DEF inUse
  <2> QED
    BY <1>7, <2>1
<1>9. spool # NoEntry => spool \in {row, spool} \ {NoClaim, NoEntry}
  BY AbsenceAssumption DEF TypeOK
<1> QED
  BY <1>7, <1>8, <1>9
--------------------------------------------------------------------------------
(* The inductive invariant.  m and n stand for workers' records. *)

Told == WasSent \/ silent
Done == row # NoClaim /\ row.done
Generated == lifecycle.lastOperationalState \in PostGeneration
UnderWay == lifecycle.lastOperationalState \in {"generated", "delivering"}
SpoolIn(states) == spool # NoEntry /\ spool.state \in states
Owns(m) == row # NoClaim /\ row.token = m.token
Marking(m, marks) == m.pc \in {"read", "write"} /\ m.mark \in marks

\* A task that still takes its delivery in.
Intake(m) == m.pc \in {"find", "reassign", "writeReassign", "begin", "put"}

\* A task that took its claim itself and has not settled the delivery: nobody
\* else works under its token.  A recovery that adopts a dead owner's token, and a
\* task that only records an outcome it found in the spool, is none.
Driver(m) ==
    \/ Intake(m)
    \/ m.pc \in {"run", "toGenerated", "toDelivering", "startDelivering", "send", "setDelivered"}
    \/ m.pc \in {"read", "write"} /\ ~(m.path = "resume" /\ m.mark = "unknownAfterSend")
    \/ m.pc = "finish" /\ m.path \in {"run", "resumeTry"}
    \/ m.pc \in {"fail", "release"} /\ ~(m.path = "intake" /\ m.recovering)

\* A task that may still get the reply delivered, or rejected.
Open(m) ==
    \/ m.pc \in {"run", "toGenerated", "toDelivering", "startDelivering", "send"}
    \/ Marking(m, {"executionCompleted", "sendAttempted", "deliveryRejected"})

\* Which try block and which flags go with a task's next call.
Shape(m) ==
    /\ m.pc \in {"down", "idle", "find", "begin", "put"} => m.path = "intake" /\ ~m.recovering
    /\ m.path = "intake" /\ m.recovering => m.image # NoEntry
    /\ m.pc \in {"reassign", "writeReassign"} => m.path = "intake" /\ m.image # NoEntry
    /\ m.pc \in {"recover", "reclaim"} => m.path = "intake" /\ m.recovering /\ m.image # NoEntry
    /\ m.pc \in {"run", "toGenerated"} \/ Marking(m, {"executionCompleted"}) =>
         m.path = "run" /\ ~m.attempted /\ ~m.delivered
    /\ m.pc = "startDelivering" => m.path = "run" /\ m.attempted /\ ~m.delivered
    /\ m.pc = "setDelivered" => m.path = "run" /\ m.delivered
    /\ m.pc = "toDelivering" => m.path = "resume"
    /\ m.pc = "send" => m.path = "resumeTry" \/ (m.path = "run" /\ m.attempted /\ ~m.delivered)
    /\ Marking(m, {"sendAttempted"}) =>
         m.path = "resume" \/ (m.path = "run" /\ ~m.attempted /\ ~m.delivered)
    /\ Marking(m, {"platformDelivered"}) => m.path = "resumeTry" \/ (m.path = "run" /\ ~m.delivered)
    /\ Marking(m, {"deliveryRejected"}) => m.path = "caught"
    /\ Marking(m, {"unknownAfterSend"}) => m.path \in {"caught", "resume"}
    /\ m.pc = "finish" => m.path # "intake" /\ (m.path = "run" => m.delivered)
    /\ m.pc \in {"fail", "release"} => m.path \in {"intake", "run", "caught"}
    /\ m.pc = "write" => m.image # NoEntry /\ m.image.state = MarkTo(m.mark)
    /\ m.pc = "writeReassign" => m.image.token = m.token /\ m.image.pid = m.pid
    /\ m.path \in {"intake", "resume", "resumeTry"} => ~m.attempted
    /\ m.path \in {"intake", "resume"} => ~m.delivered
    /\ m.path \in {"intake", "resume"} \/ (m.path = "run" /\ ~m.attempted) \/ m.pc = "startDelivering" => m.part = 1
    /\ m.pc = "down" \/ m.pid # 0
    /\ m.part \in Parts

\* What a task is about to record as delivered was sent, or there was nothing to
\* send; the parts before the one it sends were accepted.
Truthful(m) ==
    /\ Marking(m, {"platformDelivered"}) \/ m.pc = "setDelivered" => Told
    /\ m.pc = "finish" /\ m.final = "delivered" => Told
    /\ m.image # NoEntry /\ m.image.state = "platform-delivered" => Told
    /\ m.pc = "send" => \A p \in Parts : p < m.part => sent[p] > 0
    /\ m.pc = "remove" => Done

\* A driver's token is its own: an entry under it names its process, and until the
\* driver has put or reassigned the entry none is under it.
OwnToken(m) ==
    Driver(m) =>
      /\ m.token # 0
      /\ m.image # NoEntry /\ m.image.token = m.token => m.image.pid = m.pid
      /\ spool # NoEntry /\ spool.token = m.token => spool.pid = m.pid
      /\ Intake(m) /\ spool # NoEntry => spool.token # m.token

\* Nor does another worker have its token, or an image of an entry under it that
\* names another process.
Apart(m, n) ==
    Driver(m) =>
      /\ n.token # m.token
      /\ n.image # NoEntry /\ n.image.token = m.token => n.image.pid = m.pid
      /\ Intake(m) /\ n.image # NoEntry => n.image.token # m.token

\* While nobody is held up past its lease, a driver holds the claim, and the spool
\* and the lifecycle are where its next call expects them; an entry can only have
\* been marked unknown by a recovery that took the driver for dead.
Placed(m) ==
    /\ Driver(m) => Owns(m) /\ ~row.done
    /\ Open(m) => SpoolIn(SpoolState \ {"platform-delivered"})
    /\ m.pc \in {"toGenerated", "toDelivering"} \/ Marking(m, {"sendAttempted"}) =>
         SpoolIn({"execution-completed", "unknown-after-send"})
    /\ m.pc \in {"startDelivering", "send"} => SpoolIn({"send-attempted", "unknown-after-send"})
    /\ m.pc \in {"startDelivering", "send"} \/ Marking(m, {"sendAttempted"}) => UnderWay
    /\ m.pc \in {"setDelivered", "finish"} /\ Owns(m) /\ ~row.done =>
         SpoolIn({"platform-delivered", "unknown-after-send"})
    /\ m.pc = "recover" /\ m.image.state = "platform-delivered" /\ row # NoClaim =>
         (row.token = m.image.token /\ ~row.done => SpoolIn({"platform-delivered", "unknown-after-send"}))
    /\ m.pc = "writeReassign" =>
         /\ SpoolIn({m.image.state, "unknown-after-send"})
         /\ m.image.state = "send-attempted" => UnderWay
         /\ lifecycle.state \in Terminal => m.image.state \in {"platform-delivered", "unknown-after-send"}
         /\ SendsAreOnRecord /\ m.image.state = "accepted" => ~Generated
    /\ m.pc = "write" /\ m.mark \in {"executionCompleted", "sendAttempted", "deliveryRejected"} =>
         lifecycle.state \notin Terminal
    /\ m.pc = "put" => lifecycle.state \notin Terminal /\ (SendsAreOnRecord => ~Generated)
    /\ m.pc \in {"begin", "put"} /\ channel = "webhook" => spool = NoEntry /\ ~Generated
    /\ m.image # NoEntry /\ m.image.state \in {"send-attempted", "unknown-after-send"} => Generated

\* A recovery that looked before the driver did has not seen the reply delivered.
Unaware(m, n) == Open(m) /\ n.pc = "recover" /\ n.image.token = m.token => n.image.state # "platform-delivered"

\* A task that may yet send has not sent, when the reply is one message.
Unsent(m) ==
    \/ m.pc \in {"put", "toGenerated", "toDelivering", "startDelivering", "send"}
    \/ m.pc = "begin" /\ channel = "webhook"
    \/ Marking(m, {"sendAttempted", "deliveryRejected"})
    \/ m.pc = "write" /\ m.mark = "executionCompleted"
    \/ m.pc = "writeReassign" /\ m.image.state \in {"accepted", "execution-completed"}
    => \A p \in Parts : sent[p] = 0

\* What the claim, the lifecycle and the spool say is true, at any time ...
StoresTrue ==
    /\ lifecycle.state # "failed" => lifecycle.lastOperationalState = lifecycle.state
    /\ lifecycle.state = "failed" => lifecycle.lastOperationalState \notin Terminal
    /\ slotPending => lifecycle.state \notin Terminal /\ used.torn > 0
    /\ Done => lifecycle.state \in Terminal
    /\ lifecycle.state = "delivered" => Told
    /\ SpoolIn({"platform-delivered"}) => Told

\* ... and, while nobody is held up, what they say of each other.
StoresMatch ==
    /\ SpoolIn({"send-attempted"}) => UnderWay
    /\ SpoolIn({"unknown-after-send"}) => Generated
    /\ spool # NoEntry /\ lifecycle.state \in Terminal => SpoolIn({"platform-delivered", "unknown-after-send"})
    /\ SendsAreOnRecord /\ SpoolIn({"accepted"}) => ~Generated
    /\ channel = "webhook" /\ spool = NoEntry /\ ~Done => ~Generated
    /\ (\E p \in Parts : sent[p] > 0) => Generated

\* A reply of one message is sent once, and then kept on file until it is settled.
SentOnce ==
    \A p \in Parts :
      /\ sent[p] <= 1
      /\ sent[p] > 0 =>
           /\ Done \/ spool # NoEntry
           /\ spool = NoEntry \/ SpoolIn({"send-attempted", "unknown-after-send", "platform-delivered"})

OneMessage == PartCount = 1 /\ NobodyStalled /\ SendsAreOnRecord

\* An entry is read from the file, which goes when the delivery is settled.
ImagesHadFile == ~Done /\ spool = NoEntry => \A w \in Workers : worker[w].image = NoEntry

IInv ==
    /\ TypeOK
    /\ StoresTrue
    /\ ImagesHadFile
    /\ \A w \in Workers : Shape(worker[w]) /\ Truthful(worker[w]) /\ OwnToken(worker[w])
    /\ \A w, v \in Workers : w # v => Apart(worker[w], worker[v])
    /\ NobodyStalled =>
         /\ StoresMatch
         /\ \A w \in Workers : Placed(worker[w])
         /\ \A w, v \in Workers : w # v => Unaware(worker[w], worker[v])
    /\ OneMessage => SentOnce /\ \A w \in Workers : Unsent(worker[w])
--------------------------------------------------------------------------------
(* What the step of one worker leaves alone.  m is the record of its worker  *)
(* before the step, x the one after it.                                      *)

\* The task is the same, with its flags.
Keeps(m, x) ==
    /\ x.token = m.token /\ x.pid = m.pid /\ x.recovering = m.recovering /\ x.part = m.part
    /\ x.attempted = m.attempted /\ x.delivered = m.delivered

\* How a worker comes by its token and its image: it keeps them, drops them, claims
\* a fresh token, adopts the token of a dead process, or reads the spool.
TokensFollow(m, x) ==
    /\ \/ x.token = m.token /\ (Driver(x) => Driver(m) /\ x.pid = m.pid) /\ (Intake(x) => Intake(m))
       \/ x.token = 0 /\ ~Driver(x)
       \/ /\ ~Driver(x) /\ m.image # NoEntry /\ x.token = m.image.token
          /\ \A v \in Workers : worker[v].pid # m.image.pid
       \/ x.token = FreshToken /\ row = NoClaim /\ Intake(x) /\ x.image = m.image
    /\ \/ x.image \in {m.image, NoEntry}
       \/ spool # NoEntry /\ x.image.token = spool.token /\ x.image.pid = spool.pid
       \/ spool # NoEntry /\ x.image.token = m.token /\ x.image.pid = m.pid /\ Driver(m)

Footprint(m, x) ==
    /\ channel' = channel /\ used'.stalls = used.stalls /\ (used'.torn = 0 => used.torn = 0)
    /\ Told => Told'
    /\ \A p \in Parts : sent[p] > 0 => sent'[p] > 0
    /\ (sent' = sent \/ Driver(m))
    /\ \/ row' = row
       \/ row = NoClaim /\ row' = [token |-> FreshToken, done |-> FALSE]
       \/ Owns(m) /\ ~row.done /\ (row' = NoClaim \/ (Done' /\ row'.token = row.token))
    /\ lifecycle' = lifecycle \/ (Owns(m) /\ ~row.done)
    /\ Generated => Generated'
    /\ \/ spool' = spool
       \/ /\ Driver(m) /\ ~Intake(x) /\ spool' # NoEntry
          /\ Intake(m) \/ Open(m) \/ spool'.state \in {"platform-delivered", "unknown-after-send"}
          /\ spool' = m.image \/ (spool'.token = m.token /\ spool'.pid = m.pid)
       \/ Done /\ spool' = NoEntry
       \/ ~Intake(x) /\ m.image # NoEntry /\ m.image.state = "unknown-after-send" /\ spool' = m.image
    /\ TokensFollow(m, x)
    /\ x.pc = "recover" => x.image = spool /\ spool' = spool
    /\ Open(x) => Open(m) \/ Intake(m)

LEMMA TokensStayApart ==
    ASSUME IInv, NEW w \in Workers, NEW m, NEW x, m = worker[w], Footprint(m, x),
           worker' = [worker EXCEPT ![w] = x]
    PROVE  /\ \A v \in Workers : OwnToken(worker[v])'
           /\ \A u, v \in Workers : u # v => Apart(worker[u], worker[v])'
<1>1. worker'[w] = x /\ \A v \in Workers \ {w} : worker'[v] = worker[v]
  BY DEF IInv, TypeOK
<1>2. OwnToken(m) /\ \A v \in Workers \ {w} : OwnToken(worker[v]) /\ Apart(worker[v], m) /\ Apart(m, worker[v])
  BY DEF IInv
<1>3. /\ FreshToken # 0
      /\ \A v \in Workers : /\ worker[v].token # FreshToken
                            /\ worker[v].image # NoEntry => worker[v].image.token # FreshToken
      /\ spool # NoEntry => spool.token # FreshToken
  BY FreshTokenIsFresh DEF IInv
<1>4. spool' # NoEntry =>
        \/ spool' = spool
        \/ ~Intake(x) /\ Driver(m) /\ spool'.token = m.token /\ spool'.pid = m.pid
        \/ ~Intake(x) /\ m.image # NoEntry /\ spool' = m.image
  BY DEF Footprint
<1>5. TokensFollow(m, x)
  BY DEF Footprint
<1>6. OwnToken(x)'
  <2>1. Driver(x) => x.token # 0 /\ ((x.token = m.token /\ Driver(m) /\ x.pid = m.pid) \/ x.token = FreshToken)
    BY <1>2, <1>3, <1>5 DEF TokensFollow, OwnToken
  <2> QED
    BY <1>2, <1>3, <1>4, <1>5, <2>1 DEF TokensFollow, OwnToken
<1>7. ASSUME NEW v \in Workers \ {w} PROVE OwnToken(worker[v])' /\ Apart(worker[v], worker[w])' /\ Apart(worker[w], worker[v])'
  <2>1. PICK n : n = worker[v]
    OBVIOUS
  <2>2. OwnToken(n) /\ Apart(n, m) /\ Apart(m, n) /\ worker'[v] = n
    BY <1>1, <1>2, <2>1
  <2>3. n.token # FreshToken /\ (n.image # NoEntry => n.image.token # FreshToken)
    BY <1>3, <2>1
  <2>4. (\A u \in Workers : worker[u].pid # m.image.pid) => n.pid # m.image.pid
    BY <2>1
  <2>5. OwnToken(n)'
    BY <1>4, <2>2 DEF OwnToken, Apart
  <2>6. Apart(n, x)
    BY <1>3, <1>5, <2>1, <2>2, <2>3 DEF TokensFollow, OwnToken, Apart
  <2>7. Apart(x, n)
    BY <1>5, <2>2, <2>3 DEF TokensFollow, Apart
  <2> QED
    BY <1>1, <2>2, <2>5, <2>6, <2>7 DEF OwnToken, Apart
<1>8. ASSUME NEW u \in Workers \ {w}, NEW v \in Workers \ {w}, u # v PROVE Apart(worker[u], worker[v])'
  <2>1. Apart(worker[u], worker[v]) /\ worker'[u] = worker[u] /\ worker'[v] = worker[v]
    BY <1>1, <1>8 DEF IInv
  <2> QED
    BY <2>1 DEF Apart
<1> QED
  BY <1>1, <1>6, <1>7, <1>8 DEF OwnToken
\* A driver's claim keeps every other worker from changing the stores, but for an
\* entry marked unknown; and what a driver changes no other worker relies on.
LEMMA OthersStayPlaced ==
    ASSUME IInv, NobodyStalled, NEW w \in Workers, NEW m, NEW x, m = worker[w], Footprint(m, x),
           NEW v \in Workers \ {w}, NEW n, n = worker[v]
    PROVE  Placed(n)'
<1>1. /\ Placed(m) /\ Placed(n) /\ Apart(m, n) /\ Apart(n, m) /\ Unaware(m, n)
      /\ StoresTrue /\ StoresMatch /\ Shape(n)
  BY DEF IInv
<1>2. row # NoClaim => row \in [token : Nat, done : BOOLEAN]
  BY DEF IInv, TypeOK
<1>3. /\ n.token # FreshToken /\ (n.image # NoEntry => n.image.token # FreshToken)
  BY FreshTokenIsFresh DEF IInv
<1>4. /\ Generated => Generated'
      /\ channel' = channel /\ (SendsAreOnRecord' => SendsAreOnRecord)
  BY DEF Footprint, SendsAreOnRecord
<1>5. CASE Driver(n)
  <2>1. Owns(n) /\ ~row.done /\ ~Owns(m) /\ ~Driver(m) /\ row # NoClaim
    BY <1>1, <1>5 DEF Placed, Apart, Owns
  <2>2. row' = row /\ lifecycle' = lifecycle /\ sent' = sent
    BY <2>1 DEF Footprint
  <2>3. spool' = spool \/ (spool' # NoEntry /\ spool'.state = "unknown-after-send" /\ Generated)
    BY <1>1, <2>1 DEF Footprint, Done, Placed
  <2>4. CASE spool' = spool
    BY <1>1, <1>4, <2>2, <2>4
       DEF Placed, Owns, Open, Marking, SpoolIn, UnderWay, Generated, SendsAreOnRecord
  <2>5. CASE spool' # NoEntry /\ spool'.state = "unknown-after-send" /\ Generated
    BY <1>1, <1>4, <1>5, <2>1, <2>2, <2>5
       DEF Placed, Owns, Open, Marking, SpoolIn, UnderWay, Generated, SendsAreOnRecord, SpoolState, Driver, Intake, Shape
  <2> QED
    BY <2>3, <2>4, <2>5
<1>6. CASE ~Driver(n)
  <2>1. n.pc \notin {"setDelivered", "writeReassign", "put", "begin"} /\ ~Open(n) /\ ~Marking(n, {"sendAttempted"})
          /\ ~(n.pc = "write" /\ n.mark \in {"executionCompleted", "sendAttempted", "deliveryRejected"})
    BY <1>6 DEF Driver, Open, Intake, Marking
  <2>2. n.pc \notin {"toGenerated", "toDelivering", "startDelivering", "send"}
    BY <2>1 DEF Open
  <2>3. ASSUME row' # NoClaim, ~row'.done, row'.token # FreshToken
        PROVE  row' = row /\ row # NoClaim /\ ~Done /\ ~row.done
    BY <2>3 DEF Footprint, Done
  <2>4. ASSUME n.pc = "finish", Owns(n)', ~row'.done
        PROVE  SpoolIn({"platform-delivered", "unknown-after-send"})'
    <3>1. row' = row /\ ~Done /\ Owns(n) /\ SpoolIn({"platform-delivered", "unknown-after-send"})
      BY <1>1, <1>3, <2>3, <2>4 DEF Owns, Placed
    <3>2. ~Driver(m)
      BY <1>1, <3>1 DEF Owns, Apart, Placed
    <3> QED
      BY <3>1, <3>2 DEF Footprint, SpoolIn
  <2>5. ASSUME n.pc = "recover", n.image.state = "platform-delivered", row' # NoClaim,
               row'.token = n.image.token, ~row'.done
        PROVE  SpoolIn({"platform-delivered", "unknown-after-send"})'
    <3>1. n.image # NoEntry
      BY <1>1, <2>5 DEF Shape
    <3>2. row' = row /\ ~Done /\ row # NoClaim /\ SpoolIn({"platform-delivered", "unknown-after-send"})
      BY <1>1, <1>3, <2>3, <2>5, <3>1 DEF Placed
    <3>3. Driver(m) => ~Open(m) /\ ~Intake(m)
      BY <1>1, <2>5, <3>1, <3>2 DEF Owns, Placed, Apart, Unaware
    <3> QED
      BY <3>2, <3>3 DEF Footprint, SpoolIn
  <2> QED
    BY <1>1, <1>4, <1>6, <2>1, <2>2, <2>4, <2>5 DEF Placed
<1> QED
  BY <1>5, <1>6
\* The step of one worker keeps the invariant when it keeps what the stores say,
\* and the worker's own record is in order behind it.
LEMMA StepKeepsInv ==
    ASSUME IInv, NEW w \in Workers, NEW m, NEW x \in Worker, m = worker[w], Footprint(m, x),
           worker' = [worker EXCEPT ![w] = x],
           TypeOK', StoresTrue', Shape(x), Truthful(x)',
           NobodyStalled => StoresMatch' /\ Placed(x)',
           OneMessage => SentOnce' /\ Unsent(x)'
    PROVE  IInv'
<1>1. worker'[w] = x /\ \A v \in Workers \ {w} : worker'[v] = worker[v]
  BY DEF IInv, TypeOK
<1>2. (NobodyStalled' => NobodyStalled) /\ (OneMessage' => OneMessage)
  BY DEF Footprint, NobodyStalled, OneMessage, SendsAreOnRecord
<1>3. (Told => Told') /\ (Done => Done')
  BY DEF Footprint, Done, Owns
<1>4. ImagesHadFile'
  <2>1. SUFFICES ASSUME ~Done', spool' = NoEntry, NEW v \in Workers PROVE worker'[v].image = NoEntry
    BY DEF ImagesHadFile
  <2>2. ~Done /\ spool = NoEntry
    BY <1>3, <2>1 DEF Footprint
  <2>3. worker[v].image = NoEntry /\ m.image = NoEntry
    BY <2>2 DEF IInv, ImagesHadFile
  <2>4. x.image = NoEntry
    BY <2>2, <2>3 DEF Footprint, TokensFollow
  <2> QED
    BY <1>1, <2>3, <2>4
<1>5. ASSUME NEW v \in Workers PROVE Shape(worker'[v]) /\ Truthful(worker[v])'
  <2>1. CASE v = w
    BY <1>1, <2>1 DEF Truthful
  <2>2. CASE v # w
    <3>1. PICK n : n = worker[v]
      OBVIOUS
    <3>2. Shape(n) /\ Truthful(n) /\ worker'[v] = n
      BY <1>1, <2>2, <3>1 DEF IInv
    <3>3. Truthful(n)'
      BY <1>3, <3>2 DEF Truthful, Footprint, Marking
    <3> QED
      BY <3>2, <3>3 DEF Truthful
  <2> QED
    BY <2>1, <2>2
<1>6. /\ \A v \in Workers : OwnToken(worker[v])'
      /\ \A u, v \in Workers : u # v => Apart(worker[u], worker[v])'
  BY TokensStayApart
<1>7. ASSUME NobodyStalled, NEW v \in Workers PROVE Placed(worker[v])'
  <2>1. CASE v = w
    BY <1>1, <1>7, <2>1 DEF Placed
  <2>2. CASE v # w
    <3>1. PICK n : n = worker[v]
      OBVIOUS
    <3>2. Placed(n)'
      BY <1>7, <2>2, <3>1, OthersStayPlaced
    <3> QED
      BY <1>1, <2>2, <3>1, <3>2 DEF Placed
  <2> QED
    BY <2>1, <2>2
<1>8. ASSUME NobodyStalled, NEW u \in Workers, NEW v \in Workers, u # v PROVE Unaware(worker'[u], worker'[v])
  <2>1. PICK p, q : p = worker[u] /\ q = worker[v]
    OBVIOUS
  <2>2. Unaware(p, q) /\ Apart(p, q) /\ Placed(p) /\ Shape(q)
    BY <1>8, <2>1 DEF IInv
  <2>3. CASE u # w /\ v # w
    BY <1>1, <2>1, <2>2, <2>3
  <2>4. CASE u = w
    <3>1. SUFFICES ASSUME Open(x), q.pc = "recover", q.image.token = x.token
                   PROVE  q.image.state # "platform-delivered"
      BY <1>1, <1>8, <2>1, <2>4 DEF Unaware
    <3>2. (Open(p) \/ Intake(p)) /\ q.image # NoEntry /\ Driver(p)
      BY <2>1, <2>2, <2>4, <3>1 DEF Footprint, Shape, Open, Driver, Marking
    <3>3. Driver(x) /\ ~Intake(x)
      BY <3>1 DEF Open, Driver, Intake, Marking
    <3>4. x.token = p.token
      BY <2>1, <2>4, <3>3 DEF Footprint, TokensFollow
    <3> QED
      BY <2>2, <3>1, <3>2, <3>4 DEF Unaware, Apart
  <2>5. CASE v = w
    <3>1. SUFFICES ASSUME Open(p), x.pc = "recover"
                   PROVE  x.image.state # "platform-delivered"
      BY <1>1, <1>8, <2>1, <2>5 DEF Unaware
    <3> QED
      BY <2>2, <3>1 DEF Footprint, Placed, SpoolIn, SpoolState
  <2> QED
    BY <2>3, <2>4, <2>5
<1>9. ASSUME OneMessage, NEW v \in Workers PROVE Unsent(worker[v])'
  <2>1. CASE v = w
    BY <1>1, <1>9, <2>1 DEF Unsent
  <2>2. CASE v # w
    <3>1. PICK n : n = worker[v]
      OBVIOUS
    <3>2. Unsent(n) /\ Apart(n, m) /\ Placed(n) /\ Placed(m)
      BY <1>9, <2>2, <3>1 DEF IInv, OneMessage
    <3>3. sent' = sent \/ ~Driver(n)
      BY <3>2 DEF Footprint, Placed, Owns, Apart
    <3>4. Unsent(n)'
      BY <3>2, <3>3 DEF Unsent, Footprint, Driver, Intake, Marking
    <3> QED
      BY <1>1, <2>2, <3>1, <3>4 DEF Unsent
  <2> QED
    BY <2>1, <2>2
<1> QED
  BY <1>2, <1>4, <1>5, <1>6, <1>7, <1>8, <1>9 DEF IInv
--------------------------------------------------------------------------------
(* The kinds of step. *)

\* What is left of the files when neither the lifecycle nor the spool changes.
LEMMA StoresKeepMatching ==
    ASSUME IInv, UNCHANGED <<channel, lifecycle, spool, sent>>, Told => Told',
           slotPending' => slotPending \/ (lifecycle.state \notin Terminal /\ used'.torn > 0),
           used.torn > 0 => used'.torn > 0, used'.stalls = used.stalls,
           (used'.torn = 0 => used.torn = 0),
           Done => Done', Done' => Done \/ lifecycle.state \in Terminal
    PROVE  StoresTrue' /\ (NobodyStalled => StoresMatch') /\ (OneMessage => SentOnce')
<1>1. StoresTrue /\ (NobodyStalled => StoresMatch) /\ (OneMessage => SentOnce)
  BY DEF IInv
<1>2. StoresTrue'
  BY <1>1 DEF StoresTrue, SpoolIn
<1>3. NobodyStalled => StoresMatch'
  BY <1>1 DEF StoresMatch, SpoolIn, UnderWay, Generated, SendsAreOnRecord
<1>4. OneMessage => SentOnce'
  BY <1>1 DEF SentOnce, SpoolIn
<1> QED
  BY <1>2, <1>3, <1>4

\* A step that changes no store: a read, an error, a decision.
LEMMA LocalStep ==
    ASSUME IInv, NEW w \in Workers, NEW m, NEW x \in Worker, m = worker[w],
           worker' = [worker EXCEPT ![w] = x],
           UNCHANGED <<channel, row, lifecycle, slotPending, spool, sent>>,
           {acked', silent', notified'} \subseteq BOOLEAN, silent => silent',
           used'.torn = used.torn, used'.stalls = used.stalls,
           used' \in [receipts : 0 .. MaxReceipts, crashes : Nat, torn : Nat, stalls : Nat],
           TokensFollow(m, x), x.pc = "recover" => x.image = spool, Open(x) => Open(m) \/ Intake(m),
           Shape(x), Truthful(x)', NobodyStalled => Placed(x), OneMessage => Unsent(x)
    PROVE  IInv'
<1>1. TypeOK'
  BY DEF IInv, TypeOK
<1>2. Told => Told'
  BY DEF Told, WasSent
<1>3. Footprint(m, x)
  BY <1>2 DEF Footprint, Generated
<1>4. StoresTrue' /\ (NobodyStalled => StoresMatch') /\ (OneMessage => SentOnce')
  BY <1>2, StoresKeepMatching DEF Done
<1>5. NobodyStalled => Placed(x)'
  BY DEF Placed, Owns, Open, Marking, SpoolIn, UnderWay, Generated, SendsAreOnRecord
<1>6. OneMessage => Unsent(x)'
  BY DEF Unsent, Marking
<1> QED
  BY <1>1, <1>3, <1>4, <1>5, <1>6, StepKeepsInv

\* A step that claims, completes or releases the row.
LEMMA RowStep ==
    ASSUME IInv, NEW w \in Workers, NEW m, NEW x \in Worker, m = worker[w],
           worker' = [worker EXCEPT ![w] = x],
           UNCHANGED <<channel, lifecycle, slotPending, spool, sent, silent>>,
           {acked', notified'} \subseteq BOOLEAN, used'.torn = used.torn, used'.stalls = used.stalls,
           used' \in [receipts : 0 .. MaxReceipts, crashes : Nat, torn : Nat, stalls : Nat],
           \/ row = NoClaim /\ row' = [token |-> FreshToken, done |-> FALSE]
           \/ /\ Owns(m) /\ ~row.done
              /\ row' = NoClaim \/ (lifecycle.state \in Terminal /\ row' = [row EXCEPT !.done = TRUE]),
           TokensFollow(m, x), x.pc # "recover", ~Open(x),
           Shape(x), Truthful(x)', NobodyStalled => Placed(x)', OneMessage => Unsent(x)'
    PROVE  IInv'
<1>1. row' \in [token : Nat, done : BOOLEAN] \cup {NoClaim}
  <2>1. row # NoClaim => row \in [token : Nat, done : BOOLEAN]
    BY DEF IInv, TypeOK
  <2>2. FreshToken \in Nat
    BY FreshTokenIsFresh DEF IInv
  <2>3. row # NoClaim /\ row' = [row EXCEPT !.done = TRUE] => row' \in [token : Nat, done : BOOLEAN]
    BY <2>1
  <2>4. row' = [token |-> FreshToken, done |-> FALSE] => row' \in [token : Nat, done : BOOLEAN]
    BY <2>2
  <2> QED
    BY <2>3, <2>4 DEF Owns
<1>2. TypeOK'
  BY <1>1 DEF IInv, TypeOK
<1>3. Told => Told'
  BY DEF Told, WasSent
<1>4. FreshToken \in Nat
  BY FreshTokenIsFresh DEF IInv
<1>5. /\ Done => Done'
      /\ Done' => Done \/ lifecycle.state \in Terminal
      /\ \/ row' = row
         \/ row = NoClaim /\ row' = [token |-> FreshToken, done |-> FALSE]
         \/ Owns(m) /\ ~row.done /\ (row' = NoClaim \/ (Done' /\ row'.token = row.token))
  BY <1>4, AbsenceAssumption DEF IInv, TypeOK, Owns, Done
<1>6. Footprint(m, x)
  BY <1>3, <1>5 DEF Footprint, Generated
<1>7. StoresTrue' /\ (NobodyStalled => StoresMatch') /\ (OneMessage => SentOnce')
  BY <1>3, <1>5, StoresKeepMatching
<1> QED
  BY <1>2, <1>6, <1>7, StepKeepsInv

\* The same when nothing outside the task changes either.
LEMMA StillStep ==
    ASSUME IInv, NEW w \in Workers, NEW m, NEW x \in Worker, m = worker[w],
           worker' = [worker EXCEPT ![w] = x], UNCHANGED <<channel, stores, spool, outside, used>>,
           TokensFollow(m, x), x.pc = "recover" => x.image = spool, Open(x) => Open(m) \/ Intake(m),
           Shape(x), Truthful(x), NobodyStalled => Placed(x), OneMessage => Unsent(x)
    PROVE  IInv'
<1>1. UNCHANGED <<channel, row, lifecycle, slotPending, spool, acked, sent, silent, notified, used>>
  BY DEF stores, outside
<1>2. /\ used' \in [receipts : 0 .. MaxReceipts, crashes : Nat, torn : Nat, stalls : Nat]
      /\ {acked', silent', notified'} \subseteq BOOLEAN
  BY <1>1 DEF IInv, TypeOK
<1>3. Truthful(x)'
  BY <1>1 DEF Truthful, Told, WasSent, Done, Marking
<1> QED
  BY <1>1, <1>2, <1>3, LocalStep
\* What ingress.transition() does to the record, when it does not throw.
LEMMA TransitionEffect ==
    ASSUME TypeOK, StoresTrue, NEW w \in Workers, NEW to \in DeliveryState, Transition(w, to)
    PROVE  /\ Owns(worker[w]) /\ row' = row /\ slotPending' = slotPending /\ lifecycle' \in Lifecycle
           /\ Generated => Generated'
           /\ \/ lifecycle' = lifecycle /\ (slotPending \/ lifecycle.state = to)
              \/ /\ ~slotPending /\ ~Done /\ lifecycle.state \notin Terminal
                 /\ IsLegalTransition(lifecycle, to) /\ lifecycle'.state = to
                 /\ lifecycle'.lastOperationalState =
                      IF to = "failed" THEN lifecycle.lastOperationalState ELSE to
<1>1. lifecycle \in Lifecycle
  BY DEF TypeOK
<1>2. Owns(worker[w]) /\ row' = row /\ slotPending' = slotPending
  BY DEF Transition, Returns, Steps, OwnsClaim, Owns
<1>3. CASE lifecycle' = lifecycle /\ (slotPending \/ lifecycle.state = to)
  BY <1>1, <1>2, <1>3 DEF Generated
<1>4. CASE Steps(w, to) /\ lifecycle.state # to /\ lifecycle' = Successor(lifecycle, to)
  <2>1. ~slotPending /\ IsLegalTransition(lifecycle, to)
    BY <1>4 DEF Steps, MayTransition
  <2>2. lifecycle.state \notin Terminal
    BY <2>1 DEF IsLegalTransition, Terminal
  <2>3. /\ lifecycle' \in Lifecycle /\ lifecycle'.state = to
        /\ lifecycle'.lastOperationalState =
             IF to = "failed" THEN lifecycle.lastOperationalState ELSE to
    BY <1>1, <1>4 DEF Successor, Lifecycle, DeliveryState, OperationalState
  <2>4. Generated => Generated'
    BY <1>1, <2>1, <2>3
       DEF StoresTrue, Generated, PostGeneration, IsLegalTransition, Lifecycle, OperationalState, DeliveryState, Terminal
  <2> QED
    BY <1>2, <2>1, <2>2, <2>3, <2>4 DEF StoresTrue
<1> QED
  BY <1>3, <1>4 DEF Transition, Returns, Steps

\* A transition of the delivery: out of the running states only once the reply is
\* on file, and to a terminal one only once its outcome is.
LEMMA TransitionStep ==
    ASSUME IInv, NEW w \in Workers, NEW m, NEW x \in Worker, m = worker[w],
           worker' = [worker EXCEPT ![w] = x],
           NEW to \in DeliveryState, Transition(w, to),
           UNCHANGED <<channel, spool, sent, silent, used>>, {acked', notified'} \subseteq BOOLEAN,
           to = "delivered" => Told,
           NobodyStalled /\ ~row.done =>
             /\ to \in {"generated", "delivering"} => SpoolIn(SpoolState \ {"accepted"})
             /\ to \in Terminal => SpoolIn({"platform-delivered", "unknown-after-send"}),
           TokensFollow(m, x), x.pc # "recover", Open(x) => Open(m) \/ Intake(m),
           Shape(x), Truthful(x)', NobodyStalled => Placed(x)', OneMessage => Unsent(x)
    PROVE  IInv'
<1>1. TypeOK /\ StoresTrue /\ (NobodyStalled => StoresMatch) /\ (OneMessage => SentOnce)
  BY DEF IInv
<1>2. /\ Owns(m) /\ row' = row /\ slotPending' = slotPending /\ lifecycle' \in Lifecycle
      /\ Generated => Generated'
      /\ \/ lifecycle' = lifecycle
         \/ /\ ~slotPending /\ ~Done /\ lifecycle.state \notin Terminal
            /\ IsLegalTransition(lifecycle, to) /\ lifecycle'.state = to
            /\ lifecycle'.lastOperationalState =
                 IF to = "failed" THEN lifecycle.lastOperationalState ELSE to
  BY <1>1, TransitionEffect
<1>3. TypeOK'
  BY <1>1, <1>2 DEF TypeOK
<1>4. (Told => Told') /\ (Done <=> Done')
  BY <1>2 DEF Told, WasSent, Done
<1>5. Footprint(m, x)
  <2>1. lifecycle' = lifecycle \/ ~row.done
    BY <1>2 DEF Done, Owns
  <2> QED
    BY <1>2, <1>4, <2>1 DEF Footprint
<1>6. StoresTrue'
  <2>1. to = "failed" => lifecycle.lastOperationalState \notin Terminal \/ lifecycle' = lifecycle
    BY <1>1, <1>2 DEF StoresTrue
  <2> QED
    BY <1>1, <1>2, <1>4, <2>1 DEF StoresTrue, SpoolIn, Terminal
<1>7. ASSUME NobodyStalled PROVE StoresMatch'
  <2>1. CASE lifecycle' = lifecycle
    BY <1>1, <1>2, <1>7, <2>1 DEF StoresMatch, SpoolIn, UnderWay, Generated, SendsAreOnRecord, Done
  <2>2. CASE lifecycle' # lifecycle
    <3>1. /\ to \in {"generated", "delivering"} => SpoolIn(SpoolState \ {"accepted"})
          /\ to \in Terminal => SpoolIn({"platform-delivered", "unknown-after-send"})
      BY <1>2, <1>7, <2>2 DEF Done, Owns
    <3>2. to \in {"running", "failed", "generated", "delivering"} \cup Terminal
      BY <1>2, <2>2 DEF IsLegalTransition, Terminal
    <3>3. to \in {"running", "failed"} => ~Generated \/ Generated'
      BY <1>2
    <3>4. /\ SpoolIn({"send-attempted"})' => UnderWay'
      BY <1>1, <1>2, <1>7, <2>2, <3>1
         DEF StoresTrue, StoresMatch, SpoolIn, UnderWay, IsLegalTransition, Terminal
    <3>5. to \in {"running", "failed"} => (Generated' => Generated)
      BY <1>2, <2>2 DEF Generated, PostGeneration
    <3>6. to = "accepted" => FALSE
      BY <3>2 DEF Terminal
    <3> QED
      BY <1>1, <1>2, <1>4, <1>7, <2>2, <3>1, <3>2, <3>4, <3>5
         DEF StoresMatch, SpoolIn, SendsAreOnRecord, Terminal, SpoolState
  <2> QED
    BY <2>1, <2>2
<1>8. OneMessage => SentOnce'
  BY <1>1, <1>4 DEF SentOnce, SpoolIn
<1>9. OneMessage => Unsent(x)'
  BY DEF Unsent, Marking
<1> QED
  BY <1>3, <1>5, <1>6, <1>7, <1>8, <1>9, StepKeepsInv

\* A write of the spool.
LEMMA SpoolStep ==
    ASSUME IInv, NEW w \in Workers, NEW m, NEW x \in Worker, m = worker[w],
           worker' = [worker EXCEPT ![w] = x],
           UNCHANGED <<channel, row, lifecycle, slotPending, sent, silent, used>>,
           {acked', notified'} \subseteq BOOLEAN,
           spool' \in Entry, ~Intake(x),
           \/ /\ Driver(m)
              /\ Intake(m) \/ Open(m) \/ spool'.state \in {"platform-delivered", "unknown-after-send"}
              /\ spool' = m.image \/ (spool'.token = m.token /\ spool'.pid = m.pid)
           \/ spool' = m.image /\ m.image.state = "unknown-after-send",
           spool'.state = "platform-delivered" => Told,
           TokensFollow(m, x), x.pc # "recover", Open(x) => Open(m) \/ Intake(m),
           NobodyStalled =>
             /\ spool'.state = "send-attempted" => UnderWay
             /\ spool'.state = "unknown-after-send" => Generated
             /\ lifecycle.state \in Terminal => spool'.state \in {"platform-delivered", "unknown-after-send"}
             /\ SendsAreOnRecord /\ spool'.state = "accepted" => ~Generated,
           OneMessage => \A p \in Parts : sent[p] > 0 =>
             spool'.state \in {"send-attempted", "unknown-after-send", "platform-delivered"},
           Shape(x), Truthful(x), NobodyStalled => Placed(x)', OneMessage => Unsent(x)
    PROVE  IInv'
<1>1. spool' # NoEntry
  BY AbsenceAssumption
<1>2. TypeOK /\ StoresTrue /\ (NobodyStalled => StoresMatch) /\ (OneMessage => SentOnce)
  BY DEF IInv
<1>3. TypeOK'
  BY <1>2 DEF TypeOK
<1>4. (Told <=> Told') /\ (Done <=> Done')
  BY DEF Told, WasSent, Done
<1>5. Footprint(m, x)
  BY <1>1, <1>4 DEF Footprint, Generated
<1>6. StoresTrue'
  BY <1>2, <1>4 DEF StoresTrue, SpoolIn
<1>7. NobodyStalled => StoresMatch'
  BY <1>1, <1>2 DEF StoresMatch, SpoolIn, UnderWay, Generated, SendsAreOnRecord
<1>8. OneMessage => SentOnce'
  BY <1>1, <1>2 DEF SentOnce, SpoolIn
<1>9. Truthful(x)' /\ (OneMessage => Unsent(x)')
  BY <1>4 DEF Truthful, Marking, Unsent
<1> QED
  BY <1>3, <1>5, <1>6, <1>7, <1>8, <1>9, StepKeepsInv
--------------------------------------------------------------------------------
(* Errors. *)

\* A worker at rest is in order whatever the stores say.
LEMMA RestingIsInOrder ==
    ASSUME NEW pid \in Pids \cup {0}, NEW x, x = Resting(pid)
    PROVE  /\ x \in Worker /\ x.token = 0 /\ x.image = NoEntry /\ x.pc \in {"down", "idle"}
           /\ ~Driver(x) /\ ~Open(x) /\ ~Intake(x) /\ Shape(x)
           /\ Truthful(x) /\ Truthful(x)' /\ Placed(x) /\ Placed(x)' /\ Unsent(x) /\ Unsent(x)'
           /\ \A m : TokensFollow(m, x)
<1>1. 1 \in Parts
  BY PipelineAssumption DEF Parts
<1>2. /\ x \in Worker /\ x.token = 0 /\ x.image = NoEntry /\ x.path = "intake"
      /\ x.pc = (IF pid = 0 THEN "down" ELSE "idle") /\ x.final = "delivered" /\ x.part = 1 /\ x.pid = pid
      /\ ~x.attempted /\ ~x.delivered /\ ~x.recovering
  BY DEF Resting, Worker, Mark, Terminal
<1>3. x.pc \in {"down", "idle"} /\ (x.pc = "down" \/ x.pid # 0)
  BY <1>2
<1>4. ~Driver(x) /\ ~Open(x) /\ ~Intake(x) /\ \A marks : ~Marking(x, marks)
  BY <1>3 DEF Driver, Open, Intake, Marking
<1>5. Shape(x)
  BY <1>1, <1>2, <1>3, <1>4 DEF Shape
<1>6. Truthful(x) /\ Truthful(x)'
  BY <1>2, <1>3, <1>4 DEF Truthful, Marking
<1>7. Placed(x) /\ Placed(x)'
  BY <1>2, <1>3, <1>4 DEF Placed, Open, Marking, Driver
<1>8. Unsent(x) /\ Unsent(x)'
  BY <1>2, <1>3, <1>4 DEF Unsent, Marking
<1> QED
  BY <1>2, <1>3, <1>4, <1>5, <1>6, <1>7, <1>8 DEF TokensFollow

\* What a catch block makes of its task.
Rescued(m, x, mark) ==
    /\ m.path = "resumeTry" \/ (m.path = "run" /\ m.attempted /\ ~m.delivered)
    /\ x = [m EXCEPT !.path = "caught", !.pc = "read", !.mark = mark]
GivenUp(m, x) ==
    /\ m.path = "run" /\ ~(m.attempted /\ ~m.delivered)
    /\ x = [m EXCEPT !.pc = "fail"]

LEMMA CatchEffect ==
    ASSUME TypeOK, NEW w \in Workers, NEW m, m = worker[w], NEW definitive \in BOOLEAN, Catch(w, definitive)
    PROVE  /\ notified' \in BOOLEAN
           /\ \E x \in Worker :
                /\ worker' = [worker EXCEPT ![w] = x]
                /\ \/ x = Resting(m.pid)
                   \/ Rescued(m, x, IF definitive THEN "deliveryRejected" ELSE "unknownAfterSend")
                   \/ GivenUp(m, x)
<1>1. m \in Worker /\ m.pid \in Pids \cup {0}
  BY DEF TypeOK, Worker
<1>2. notified' \in BOOLEAN
  BY DEF TypeOK, Catch, CatchBy, EndWithError, EndQuietly
<1>3. PICK mark : mark = IF definitive THEN "deliveryRejected" ELSE "unknownAfterSend"
  OBVIOUS
<1>4. CASE m.path = "resumeTry" \/ (m.path = "run" /\ m.attempted /\ ~m.delivered)
  <2>1. PICK x : x = [m EXCEPT !.path = "caught", !.pc = "read", !.mark = mark]
    OBVIOUS
  <2>2. x \in Worker
    <3>1. mark \in Mark
      BY <1>3 DEF Mark
    <3> QED
      BY <1>1, <2>1, <3>1 DEF Worker
  <2>3. worker' = [worker EXCEPT ![w] = x]
    BY <1>3, <1>4, <2>1 DEF Catch, CatchBy
  <2> QED
    BY <1>2, <1>3, <1>4, <2>1, <2>2, <2>3 DEF Rescued
<1>5. CASE ~(m.path = "resumeTry" \/ (m.path = "run" /\ m.attempted /\ ~m.delivered))
  <2>1. CASE m.path # "run" \/ (m.delivered /\ ~m.recovering)
    <3>1. worker' = [worker EXCEPT ![w] = Resting(m.pid)]
      BY <1>5, <2>1 DEF Catch, EndWithError, EndQuietly
    <3> QED
      BY <1>1, <1>2, <3>1, RestingIsInOrder
  <2>2. CASE ~(m.path # "run" \/ (m.delivered /\ ~m.recovering))
    <3>1. PICK x : x = [m EXCEPT !.pc = "fail"]
      OBVIOUS
    <3>2. x \in Worker
      BY <1>1, <3>1 DEF Worker
    <3>3. worker' = [worker EXCEPT ![w] = x]
      BY <1>5, <2>2, <3>1 DEF Catch, Goto
    <3> QED
      BY <1>2, <1>5, <2>2, <3>1, <3>2, <3>3 DEF GivenUp
  <2> QED
    BY <2>1, <2>2
<1> QED
  BY <1>4, <1>5

\* The record of a task whose error was caught, when no store has changed.
LEMMA RescuedIsInOrder ==
    ASSUME NEW m \in Worker, NEW x, NEW mark \in {"deliveryRejected", "unknownAfterSend"},
           Rescued(m, x, mark) \/ GivenUp(m, x), Shape(m), m.pc # "down"
    PROVE  /\ x.token = m.token /\ x.pid = m.pid /\ x.image = m.image
           /\ Driver(x) /\ ~Intake(x) /\ x.pc \in {"read", "fail"} /\ Shape(x)
           /\ x.pc = "read" => x.mark = mark
<1>1. CASE Rescued(m, x, mark)
  <2>1. /\ x.token = m.token /\ x.pid = m.pid /\ x.image = m.image /\ x.part = m.part
        /\ x.path = "caught" /\ x.pc = "read" /\ x.mark = mark
    BY <1>1 DEF Rescued, Worker
  <2> QED
    BY <2>1 DEF Shape, Driver, Intake, Marking
<1>2. CASE GivenUp(m, x)
  <2>1. /\ x.token = m.token /\ x.pid = m.pid /\ x.image = m.image /\ x.part = m.part
        /\ x.path = "run" /\ x.pc = "fail" /\ x.attempted = m.attempted /\ m.path = "run"
    BY <1>2 DEF GivenUp, Worker
  <2> QED
    BY <2>1 DEF Shape, Driver, Intake, Marking
<1> QED
  BY <1>1, <1>2
LEMMA ThrowStep ==
    ASSUME IInv, NEW w \in Workers, NEW m, m = worker[w], Throw(w), UNCHANGED <<channel, used>>,
           m.pc \in {"reassign", "begin", "run", "read", "toGenerated", "toDelivering",
                     "startDelivering", "setDelivered", "finish"}
    PROVE  IInv'
<1>1. /\ TypeOK /\ m \in Worker /\ Shape(m) /\ Truthful(m) /\ (NobodyStalled => Placed(m))
      /\ m.pid \in Pids \cup {0}
  BY DEF IInv, TypeOK, Worker
<1>2. UNCHANGED <<channel, row, lifecycle, slotPending, spool, acked, sent, silent, used>> /\ Catch(w, FALSE)
  BY DEF Throw, stores
<1>3. PICK x \in Worker :
        /\ worker' = [worker EXCEPT ![w] = x]
        /\ x = Resting(m.pid) \/ Rescued(m, x, "unknownAfterSend") \/ GivenUp(m, x)
  BY <1>1, <1>2, CatchEffect
<1>4. notified' \in BOOLEAN
  BY <1>1, <1>2, CatchEffect
<1>5. used' \in [receipts : 0 .. MaxReceipts, crashes : Nat, torn : Nat, stalls : Nat]
        /\ used' = used /\ {acked', silent', notified'} \subseteq BOOLEAN
  BY <1>1, <1>2, <1>4 DEF TypeOK
<1>6. CASE x = Resting(m.pid)
  BY <1>1, <1>2, <1>3, <1>5, <1>6, RestingIsInOrder, LocalStep
<1>7. CASE Rescued(m, x, "unknownAfterSend") \/ GivenUp(m, x)
  <2>1. /\ x.token = m.token /\ x.pid = m.pid /\ x.image = m.image
        /\ Driver(x) /\ ~Intake(x) /\ x.pc \in {"read", "fail"} /\ Shape(x)
        /\ x.pc = "read" => x.mark = "unknownAfterSend"
    BY <1>1, <1>7, RescuedIsInOrder
  <2>2. Driver(m)
    BY <1>1, <1>7 DEF Rescued, GivenUp, Shape, Driver, Intake, Marking
  <2>3. TokensFollow(m, x) /\ ~Open(x)
    BY <2>1, <2>2 DEF TokensFollow, Open, Marking
  <2>4. Truthful(x)' /\ Unsent(x)
    BY <1>1, <1>2, <2>1 DEF Truthful, Unsent, Marking, Told, WasSent
  <2>5. NobodyStalled => Placed(x)
    BY <1>1, <2>1, <2>2 DEF Placed, Owns, Open, Marking
  <2> QED
    BY <1>2, <1>3, <1>5, <2>1, <2>3, <2>4, <2>5, LocalStep
<1> QED
  BY <1>3, <1>6, <1>7
--------------------------------------------------------------------------------
(* Taking a delivery in. *)

LEMMA FindStep == ASSUME IInv, NEW w \in Workers, Find(w), UNCHANGED <<channel, used>> PROVE IInv'
<1>1. PICK m : m = worker[w]
  OBVIOUS
<1>2. /\ TypeOK /\ m \in Worker /\ Shape(m) /\ Truthful(m) /\ StoresTrue
      /\ NobodyStalled => Placed(m) /\ StoresMatch
      /\ OneMessage => SentOnce
  BY <1>1 DEF IInv, TypeOK
<1>3. m.pc = "find" /\ UNCHANGED <<channel, stores, spool, outside, used>>
  BY <1>1 DEF Find
<1>4. CASE spool = NoEntry
  <2>1. PICK x : x = [m EXCEPT !.pc = "begin"]
    OBVIOUS
  <2>2. worker' = [worker EXCEPT ![w] = x]
    BY <1>1, <1>4, <2>1 DEF Find, Goto
  <2>3. x \in Worker /\ Keeps(m, x) /\ x.pc = "begin" /\ x.path = m.path /\ x.image = m.image
    BY <1>2, <2>1 DEF Worker, Keeps
  <2>4. Shape(x) /\ TokensFollow(m, x) /\ ~Open(x)
    BY <1>2, <1>3, <2>3 DEF Keeps, Shape, TokensFollow, Open, Marking, Driver, Intake
  <2>5. Truthful(x)
    BY <1>2, <1>3, <2>3 DEF Truthful, Marking
  <2>6. NobodyStalled => Placed(x)
    BY <1>2, <1>3, <1>4, <2>3 DEF Keeps, Placed, Owns, Done, Open, Marking, StoresMatch, Driver, Intake
  <2>7. OneMessage => Unsent(x)
    <3>1. OneMessage => ~Done
      BY <1>2, <1>3 DEF OneMessage, Placed, Driver, Intake, Done
    <3>2. OneMessage => \A p \in Parts : sent[p] = 0
      BY <1>2, <1>4, <3>1 DEF SentOnce, TypeOK
    <3> QED
      BY <3>2 DEF Unsent
  <2> QED
    BY <1>1, <1>3, <2>2, <2>3, <2>4, <2>5, <2>6, <2>7, StillStep
<1>5. CASE spool # NoEntry
  <2>1. PICK x : x = [m EXCEPT !.pc = "reassign", !.image = spool]
    OBVIOUS
  <2>2. worker' = [worker EXCEPT ![w] = x]
    BY <1>1, <1>5, <2>1 DEF Find
  <2>3. x \in Worker /\ Keeps(m, x) /\ x.pc = "reassign" /\ x.path = m.path /\ x.image = spool
    BY <1>2, <1>5, <2>1 DEF Worker, TypeOK, Keeps
  <2>4. Shape(x) /\ TokensFollow(m, x) /\ ~Open(x)
    BY <1>2, <1>3, <1>5, <2>3 DEF Keeps, Shape, TokensFollow, Open, Marking, Driver, Intake
  <2>5. Truthful(x)
    BY <1>2, <1>3, <2>3 DEF Truthful, Marking, StoresTrue, SpoolIn
  <2>6. NobodyStalled => Placed(x)
    BY <1>2, <1>3, <1>5, <2>3
       DEF Keeps, Placed, Owns, Open, Marking, StoresMatch, Driver, Intake, SpoolIn, UnderWay, Generated, PostGeneration
  <2>7. OneMessage => Unsent(x)
    BY <2>3 DEF Unsent, Marking
  <2> QED
    BY <1>1, <1>3, <2>2, <2>3, <2>4, <2>5, <2>6, <2>7, StillStep
<1> QED
  BY <1>4, <1>5

LEMMA ReassignStep == ASSUME IInv, NEW w \in Workers, Reassign(w), UNCHANGED <<channel, used>> PROVE IInv'
<1>1. PICK m : m = worker[w]
  OBVIOUS
<1>2. /\ TypeOK /\ m \in Worker /\ Shape(m) /\ Truthful(m) /\ StoresTrue
      /\ NobodyStalled => Placed(m) /\ StoresMatch
      /\ OneMessage => SentOnce
  BY <1>1 DEF IInv, TypeOK
<1>3. m.pc = "reassign"
  BY <1>1 DEF Reassign
<1>4. CASE spool # NoEntry /\ spool.token = m.image.token
  <2>1. PICK x : x = [m EXCEPT !.pc = "writeReassign", !.image = [spool EXCEPT !.token = m.token, !.pid = m.pid]]
    OBVIOUS
  <2>2. worker' = [worker EXCEPT ![w] = x] /\ UNCHANGED <<channel, stores, spool, outside, used>>
    BY <1>1, <1>4, <2>1 DEF Reassign
  <2>3. spool \in Entry /\ m.token \in Nat /\ m.pid \in Pids
    BY <1>2, <1>3, <1>4 DEF TypeOK, Shape, Worker
  <2>4. PICK e : e = [spool EXCEPT !.token = m.token, !.pid = m.pid]
    OBVIOUS
  <2>5. e \in Entry /\ e.state = spool.state /\ e.token = m.token /\ e.pid = m.pid
    BY <2>3, <2>4 DEF Entry
  <2>6. x \in Worker /\ Keeps(m, x) /\ x.pc = "writeReassign" /\ x.path = m.path /\ x.image = e /\ e # NoEntry
    BY <1>2, <2>1, <2>4, <2>5, AbsenceAssumption DEF Worker, Keeps
  <2>7. Shape(x) /\ TokensFollow(m, x) /\ ~Open(x)
    BY <1>2, <1>3, <1>4, <2>5, <2>6 DEF Keeps, Shape, TokensFollow, Open, Marking, Driver, Intake
  <2>8. Truthful(x)
    BY <1>2, <1>3, <1>4, <2>5, <2>6 DEF Truthful, Marking, StoresTrue, SpoolIn
  <2>9. NobodyStalled => Placed(x)
    BY <1>2, <1>3, <1>4, <2>5, <2>6
       DEF Keeps, Placed, Owns, Open, Marking, StoresMatch, Driver, Intake, SpoolIn, UnderWay, Generated, PostGeneration
  <2>10. OneMessage => Unsent(x)
    BY <1>2, <1>4, <2>5, <2>6 DEF Unsent, Marking, SentOnce, SpoolIn, TypeOK
  <2> QED
    BY <1>1, <2>2, <2>6, <2>7, <2>8, <2>9, <2>10, StillStep
<1>5. CASE ~(spool # NoEntry /\ spool.token = m.image.token)
  <2>1. Throw(w)
    BY <1>1, <1>5 DEF Reassign
  <2> QED
    BY <1>1, <1>3, <2>1, ThrowStep
<1> QED
  BY <1>4, <1>5

\* Where a task goes on from the entry it took over, or adopted.
ResumesAt(m, x, state) ==
    \/ state = "platform-delivered" /\ x.path = "resume" /\ x.pc = "finish" /\ x.final = "delivered"
    \/ state = "send-attempted" /\ x.path = "resume" /\ x.pc = "read" /\ x.mark = "unknownAfterSend"
    \/ state = "unknown-after-send" /\ x.path = "resume" /\ x.pc = "finish" /\ x.final = "unknown"
    \/ state = "execution-completed" /\ x.path = "resume" /\ x.pc = "toDelivering"
    \/ state \in {"accepted", "unknown-after-send"} /\ x.path = "run" /\ x.pc = "run"

LEMMA ResumeEffect ==
    ASSUME TypeOK, NEW w \in Workers, NEW m, m = worker[w], NEW state \in SpoolState, NEW token \in Nat,
           Resume(w, state, token)
    PROVE  \E x \in Worker :
             /\ worker' = [worker EXCEPT ![w] = x]
             /\ x.token = token /\ x.image = m.image /\ x.pid = m.pid /\ x.part = m.part
             /\ x.attempted = m.attempted /\ x.delivered = m.delivered
             /\ ResumesAt(m, x, state)
<1>1. /\ m \in Worker /\ m.mark \in Mark /\ m.final \in Terminal
      /\ "unknownAfterSend" \in Mark /\ "delivered" \in Terminal /\ "unknown" \in Terminal
  BY DEF TypeOK, Worker, Mark, Terminal
<1>2. CASE state = "platform-delivered"
  <2>1. PICK x : x = [m EXCEPT !.path = "resume", !.pc = "finish", !.mark = m.mark, !.final = "delivered", !.token = token]
    OBVIOUS
  <2>2. x \in Worker
    BY <1>1, <2>1 DEF Worker
  <2>3. /\ x.path = "resume" /\ x.pc = "finish" /\ x.mark = m.mark /\ x.final = "delivered"
        /\ x.token = token /\ x.image = m.image /\ x.pid = m.pid /\ x.part = m.part
        /\ x.attempted = m.attempted /\ x.delivered = m.delivered
    BY <1>1, <2>1 DEF Worker
  <2>4. worker' = [worker EXCEPT ![w] = x]
    BY <1>2, <2>1 DEF Resume, TypeOK
  <2> QED
    BY <1>2, <2>2, <2>3, <2>4 DEF ResumesAt
<1>3. CASE state = "send-attempted"
  <2>1. PICK x : x = [m EXCEPT !.path = "resume", !.pc = "read", !.mark = "unknownAfterSend", !.final = m.final, !.token = token]
    OBVIOUS
  <2>2. x \in Worker
    BY <1>1, <2>1 DEF Worker
  <2>3. /\ x.path = "resume" /\ x.pc = "read" /\ x.mark = "unknownAfterSend" /\ x.final = m.final
        /\ x.token = token /\ x.image = m.image /\ x.pid = m.pid /\ x.part = m.part
        /\ x.attempted = m.attempted /\ x.delivered = m.delivered
    BY <1>1, <2>1 DEF Worker
  <2>4. worker' = [worker EXCEPT ![w] = x]
    BY <1>3, <2>1 DEF Resume, TypeOK
  <2> QED
    BY <1>3, <2>2, <2>3, <2>4 DEF ResumesAt
<1>4. CASE state = "unknown-after-send" /\ ~m.recovering
  <2>1. PICK x : x = [m EXCEPT !.path = "resume", !.pc = "finish", !.mark = m.mark, !.final = "unknown", !.token = token]
    OBVIOUS
  <2>2. x \in Worker
    BY <1>1, <2>1 DEF Worker
  <2>3. /\ x.path = "resume" /\ x.pc = "finish" /\ x.mark = m.mark /\ x.final = "unknown"
        /\ x.token = token /\ x.image = m.image /\ x.pid = m.pid /\ x.part = m.part
        /\ x.attempted = m.attempted /\ x.delivered = m.delivered
    BY <1>1, <2>1 DEF Worker
  <2>4. worker' = [worker EXCEPT ![w] = x]
    BY <1>4, <2>1 DEF Resume, TypeOK
  <2> QED
    BY <1>4, <2>2, <2>3, <2>4 DEF ResumesAt
<1>5. CASE state = "execution-completed"
  <2>1. PICK x : x = [m EXCEPT !.path = "resume", !.pc = "toDelivering", !.mark = m.mark, !.final = m.final, !.token = token]
    OBVIOUS
  <2>2. x \in Worker
    BY <1>1, <2>1 DEF Worker
  <2>3. /\ x.path = "resume" /\ x.pc = "toDelivering" /\ x.mark = m.mark /\ x.final = m.final
        /\ x.token = token /\ x.image = m.image /\ x.pid = m.pid /\ x.part = m.part
        /\ x.attempted = m.attempted /\ x.delivered = m.delivered
    BY <1>1, <2>1 DEF Worker
  <2>4. worker' = [worker EXCEPT ![w] = x]
    BY <1>5, <2>1 DEF Resume, TypeOK
  <2> QED
    BY <1>5, <2>2, <2>3, <2>4 DEF ResumesAt
<1>6. CASE state = "accepted" \/ (state = "unknown-after-send" /\ m.recovering)
  <2>1. PICK x : x = [m EXCEPT !.path = "run", !.pc = "run", !.mark = m.mark, !.final = m.final, !.token = token]
    OBVIOUS
  <2>2. x \in Worker
    BY <1>1, <2>1 DEF Worker
  <2>3. /\ x.path = "run" /\ x.pc = "run" /\ x.mark = m.mark /\ x.final = m.final
        /\ x.token = token /\ x.image = m.image /\ x.pid = m.pid /\ x.part = m.part
        /\ x.attempted = m.attempted /\ x.delivered = m.delivered
    BY <1>1, <2>1 DEF Worker
  <2>4. worker' = [worker EXCEPT ![w] = x]
    BY <1>6, <2>1 DEF Resume, TypeOK
  <2> QED
    BY <1>6, <2>2, <2>3, <2>4 DEF ResumesAt
<1> QED
  BY <1>1, <1>2, <1>3, <1>4, <1>5, <1>6 DEF SpoolState, Worker

LEMMA WriteReassignStep ==
    ASSUME IInv, NEW w \in Workers, WriteReassign(w), UNCHANGED <<channel, used>> PROVE IInv'
<1>1. PICK m : m = worker[w]
  OBVIOUS
<1>2. /\ TypeOK /\ m \in Worker /\ Shape(m) /\ Truthful(m) /\ StoresTrue
      /\ NobodyStalled => Placed(m) /\ StoresMatch
      /\ OneMessage => SentOnce /\ Unsent(m)
  BY <1>1 DEF IInv, TypeOK
<1>3. /\ m.pc = "writeReassign" /\ spool' = m.image
      /\ UNCHANGED <<channel, row, lifecycle, slotPending, sent, silent, used>>
      /\ Resume(w, m.image.state, m.token) /\ {acked', notified'} \subseteq BOOLEAN
  BY <1>1, <1>2 DEF WriteReassign, TypeOK, stores
<1>4. m.image \in Entry /\ m.image # NoEntry /\ m.image.state \in SpoolState /\ m.token \in Nat
        /\ m.image.token = m.token /\ m.image.pid = m.pid
  BY <1>2, <1>3 DEF Shape, Worker, Entry
<1>5. PICK x \in Worker :
        /\ worker' = [worker EXCEPT ![w] = x]
        /\ x.token = m.token /\ x.image = m.image /\ x.pid = m.pid /\ x.part = m.part
        /\ x.attempted = m.attempted /\ x.delivered = m.delivered
        /\ ResumesAt(m, x, m.image.state)
  BY <1>1, <1>2, <1>3, <1>4, ResumeEffect
<1>6. /\ x.pc \in {"finish", "toDelivering", "run", "read"} /\ (x.pc = "read" => x.mark = "unknownAfterSend")
      /\ x.path \in {"resume", "run"} /\ (x.path = "run" <=> x.pc = "run")
  BY <1>5 DEF ResumesAt
<1>7. /\ ~Intake(x) /\ Driver(m) /\ Intake(m) /\ x.pc # "recover" /\ TokensFollow(m, x)
  BY <1>3, <1>5, <1>6 DEF Driver, Intake, TokensFollow
<1>8. Shape(x)
  BY <1>2, <1>3, <1>5, <1>6 DEF Shape, Marking
<1>9. Truthful(x)
  BY <1>2, <1>3, <1>4, <1>5, <1>6 DEF Truthful, Marking, ResumesAt
<1>10. NobodyStalled =>
         /\ Owns(m) /\ ~row.done
         /\ m.image.state = "send-attempted" => UnderWay
         /\ m.image.state \in {"send-attempted", "unknown-after-send"} => Generated
         /\ lifecycle.state \in Terminal => m.image.state \in {"platform-delivered", "unknown-after-send"}
         /\ SendsAreOnRecord /\ m.image.state = "accepted" => ~Generated
  BY <1>2, <1>3, <1>4, <1>7 DEF Placed
<1>11. NobodyStalled => Placed(x)'
  BY <1>3, <1>4, <1>5, <1>6, <1>10
     DEF Placed, Owns, Open, Marking, SpoolIn, Generated, ResumesAt, SpoolState
<1>12. OneMessage => \A p \in Parts : sent[p] > 0 =>
         m.image.state \in {"send-attempted", "unknown-after-send", "platform-delivered"}
  BY <1>2, <1>3, <1>4 DEF Unsent, SpoolState
<1>13. OneMessage => Unsent(x)
  BY <1>2, <1>3, <1>5, <1>6 DEF Unsent, Marking, ResumesAt
<1> QED
  BY <1>1, <1>2, <1>3, <1>4, <1>5, <1>6, <1>7, <1>8, <1>9, <1>10, <1>11, <1>12, <1>13, SpoolStep DEF Truthful

LEMMA BeginStep == ASSUME IInv, NEW w \in Workers, Begin(w), UNCHANGED <<channel, used>> PROVE IInv'
<1>1. PICK m : m = worker[w]
  OBVIOUS
<1>2. /\ TypeOK /\ m \in Worker /\ Shape(m) /\ Truthful(m) /\ StoresTrue
      /\ NobodyStalled => Placed(m) /\ StoresMatch
  BY <1>1 DEF IInv, TypeOK
<1>3. m.pc = "begin"
  BY <1>1 DEF Begin
<1>4. CASE Transition(w, "running") /\ Goto(w, "put") /\ UNCHANGED <<spool, outside>>
  <2>1. PICK x : x = [m EXCEPT !.pc = "put"]
    OBVIOUS
  <2>2. worker' = [worker EXCEPT ![w] = x]
    BY <1>1, <1>4, <2>1 DEF Goto
  <2>3. x \in Worker /\ Keeps(m, x) /\ x.pc = "put" /\ x.path = m.path /\ x.image = m.image
    BY <1>2, <2>1 DEF Worker, Keeps
  <2>4. /\ UNCHANGED <<channel, spool, sent, silent, acked, notified, used>>
        /\ {acked', notified'} \subseteq BOOLEAN
    BY <1>2, <1>4 DEF outside, TypeOK
  <2>5. Shape(x) /\ TokensFollow(m, x) /\ ~Open(x)
    BY <1>2, <1>3, <2>3 DEF Keeps, Shape, TokensFollow, Open, Marking, Driver, Intake
  <2>6. /\ row' = row /\ (Generated => Generated')
        /\ \/ lifecycle' = lifecycle /\ (slotPending \/ lifecycle.state = "running")
           \/ lifecycle'.state = "running" /\ lifecycle'.lastOperationalState = "running"
    BY <1>2, <1>4, TransitionEffect DEF DeliveryState, OperationalState
  <2>7. lifecycle'.state \notin Terminal /\ (SendsAreOnRecord /\ NobodyStalled => ~Generated')
    <3>1. slotPending => used.torn # 0 /\ lifecycle.state \notin Terminal
      BY <1>2 DEF StoresTrue, TypeOK
    <3>2. lifecycle.state = "running" => lifecycle.lastOperationalState = "running"
      BY <1>2 DEF StoresTrue
    <3> QED
      BY <1>2, <1>3, <2>6, <3>1, <3>2 DEF SendsAreOnRecord, Placed, Generated, PostGeneration, Terminal
  <2>8. Truthful(x)'
    BY <1>2, <1>3, <2>3, <2>4 DEF Truthful, Marking, Told, WasSent
  <2>9. NobodyStalled => Placed(x)'
    BY <1>2, <1>3, <2>3, <2>4, <2>6, <2>7
       DEF Keeps, Placed, Owns, Open, Marking, Driver, Intake, SendsAreOnRecord
  <2>10. OneMessage => Unsent(x)
    <3>1. OneMessage => ~Generated /\ StoresMatch
      BY <1>2, <2>6, <2>7 DEF OneMessage
    <3> QED
      BY <1>2, <3>1 DEF Unsent, StoresMatch, TypeOK
  <2> QED
    BY <1>1, <1>4, <2>2, <2>3, <2>4, <2>5, <2>8, <2>9, <2>10, TransitionStep
       DEF DeliveryState, OperationalState, Terminal
<1>5. CASE Throw(w)
  BY <1>1, <1>3, <1>5, ThrowStep
<1> QED
  BY <1>4, <1>5 DEF Begin

LEMMA PutStep == ASSUME IInv, NEW w \in Workers, Put(w), UNCHANGED <<channel, used>> PROVE IInv'
<1>1. PICK m : m = worker[w]
  OBVIOUS
<1>2. /\ TypeOK /\ m \in Worker /\ Shape(m) /\ Truthful(m) /\ StoresTrue
      /\ NobodyStalled => Placed(m) /\ StoresMatch
      /\ OneMessage => Unsent(m)
  BY <1>1 DEF IInv, TypeOK
<1>3. /\ m.pc = "put" /\ UNCHANGED <<channel, row, lifecycle, slotPending, sent, silent, notified, used>>
      /\ Driver(m) /\ Intake(m) /\ {acked', notified'} \subseteq BOOLEAN
  BY <1>1, <1>2 DEF Put, Driver, Intake, stores, TypeOK, Goto
<1>4. CASE /\ spool' = [state |-> "accepted", token |-> m.token, pid |-> m.pid]
           /\ worker' = [worker EXCEPT ![w].pc = "run", ![w].path = "run"]
  <2>1. PICK x : x = [m EXCEPT !.pc = "run", !.path = "run"]
    OBVIOUS
  <2>2. worker' = [worker EXCEPT ![w] = x]
    BY <1>1, <1>4, <2>1
  <2>3. x \in Worker /\ Keeps(m, x) /\ x.pc = "run" /\ x.path = "run" /\ x.image = m.image
    BY <1>2, <2>1 DEF Worker, Keeps
  <2>4. spool' \in Entry /\ spool'.state = "accepted" /\ spool'.token = m.token /\ spool'.pid = m.pid
          /\ spool' # NoEntry
    BY <1>2, <1>3, <1>4, AbsenceAssumption DEF Entry, SpoolState, Worker, Shape
  <2>5. Shape(x) /\ TokensFollow(m, x) /\ ~Intake(x)
    BY <1>2, <1>3, <2>3 DEF Keeps, Shape, TokensFollow, Open, Marking, Driver, Intake
  <2>6. Truthful(x)
    BY <1>2, <2>3 DEF Truthful, Marking
  <2>7. NobodyStalled => Placed(x)'
    BY <1>2, <1>3, <2>3, <2>4 DEF Keeps, Placed, Owns, Open, Marking, SpoolIn, SpoolState, Generated
  <2>8. NobodyStalled => lifecycle.state \notin Terminal /\ (SendsAreOnRecord => ~Generated)
    BY <1>2, <1>3 DEF Placed
  <2>9. OneMessage => (\A p \in Parts : ~(sent[p] > 0)) /\ Unsent(x)
    BY <1>2, <1>3 DEF Unsent
  <2> QED
    BY <1>1, <1>3, <2>2, <2>3, <2>4, <2>5, <2>6, <2>7, <2>8, <2>9, SpoolStep
<1>5. CASE Goto(w, "fail") /\ UNCHANGED <<spool, acked>>
  <2>1. PICK x : x = [m EXCEPT !.pc = "fail"]
    OBVIOUS
  <2>2. worker' = [worker EXCEPT ![w] = x] /\ UNCHANGED <<channel, stores, spool, outside, used>>
    BY <1>1, <1>3, <1>5, <2>1 DEF Goto, stores, outside
  <2>3. x \in Worker /\ Keeps(m, x) /\ x.pc = "fail" /\ x.path = m.path /\ x.image = m.image
    BY <1>2, <2>1 DEF Worker, Keeps
  <2>4. Shape(x) /\ TokensFollow(m, x) /\ ~Open(x)
    BY <1>2, <1>3, <2>3 DEF Keeps, Shape, TokensFollow, Open, Marking, Driver, Intake
  <2>5. Truthful(x) /\ Unsent(x)
    BY <1>2, <2>3 DEF Truthful, Unsent, Marking
  <2>6. NobodyStalled => Placed(x)
    BY <1>2, <1>3, <2>3 DEF Keeps, Placed, Owns, Open, Marking
  <2> QED
    BY <1>1, <2>2, <2>3, <2>4, <2>5, <2>6, StillStep
<1> QED
  BY <1>1, <1>4, <1>5 DEF Put
--------------------------------------------------------------------------------
(* The handler, and the marks of the spool. *)

LEMMA RunStep == ASSUME IInv, NEW w \in Workers, Run(w), UNCHANGED <<channel, used>> PROVE IInv'
<1>1. PICK m : m = worker[w]
  OBVIOUS
<1>2. /\ TypeOK /\ m \in Worker /\ Shape(m) /\ Truthful(m)
      /\ NobodyStalled => Placed(m)
  BY <1>1 DEF IInv, TypeOK
<1>3. m.pc = "run"
  BY <1>1 DEF Run
<1>4. CASE Throw(w)
  BY <1>1, <1>3, <1>4, ThrowStep
<1>5. ASSUME NEW mark \in {"platformDelivered", "executionCompleted"}, ReadMark(w, mark),
             UNCHANGED <<stores, spool, acked, sent, notified>>,
             silent' = (silent \/ mark = "platformDelivered")
      PROVE  IInv'
  <2>1. PICK x : x = [m EXCEPT !.pc = "read", !.mark = mark]
    OBVIOUS
  <2>2. worker' = [worker EXCEPT ![w] = x]
    BY <1>1, <1>5, <2>1 DEF ReadMark
  <2>3. mark \in Mark
    BY DEF Mark
  <2>4. x \in Worker /\ Keeps(m, x) /\ x.pc = "read" /\ x.mark = mark /\ x.path = m.path /\ x.image = m.image
    BY <1>2, <2>1, <2>3 DEF Worker, Keeps
  <2>5. Shape(x) /\ TokensFollow(m, x) /\ Open(m)
    BY <1>2, <1>3, <2>4 DEF Keeps, Shape, TokensFollow, Open, Marking, Driver, Intake
  <2>6. /\ UNCHANGED <<channel, row, lifecycle, slotPending, spool, acked, sent, notified, used>>
        /\ {acked', silent', notified'} \subseteq BOOLEAN /\ (silent => silent')
        /\ used' \in [receipts : 0 .. MaxReceipts, crashes : Nat, torn : Nat, stalls : Nat]
    BY <1>2, <1>5 DEF stores, TypeOK
  <2>7. Truthful(x)'
    BY <1>2, <1>5, <2>4, <2>6 DEF Truthful, Marking, Told, WasSent
  <2>8. NobodyStalled => Placed(x)
    BY <1>2, <1>3, <2>4 DEF Keeps, Placed, Owns, Open, Marking, Driver
  <2>9. Unsent(x)
    BY <2>4 DEF Unsent, Marking
  <2> QED
    BY <1>1, <2>2, <2>4, <2>5, <2>6, <2>7, <2>8, <2>9, LocalStep
<1>6. CASE ReadMark(w, "platformDelivered") /\ silent' = TRUE /\ UNCHANGED <<stores, spool, acked, sent, notified>>
  BY <1>5, <1>6
<1>7. CASE ReadMark(w, "executionCompleted") /\ UNCHANGED <<stores, spool, outside>>
  BY <1>2, <1>5, <1>7 DEF outside, TypeOK
<1> QED
  BY <1>4, <1>6, <1>7 DEF Run

LEMMA ReadSpoolStep == ASSUME IInv, NEW w \in Workers, ReadSpool(w), UNCHANGED <<channel, used>> PROVE IInv'
<1>1. PICK m : m = worker[w]
  OBVIOUS
<1>2. /\ TypeOK /\ m \in Worker /\ Shape(m) /\ Truthful(m) /\ StoresTrue
      /\ NobodyStalled => Placed(m) /\ StoresMatch
      /\ OneMessage => SentOnce /\ Unsent(m)
  BY <1>1 DEF IInv, TypeOK
<1>3. m.pc = "read" /\ m.mark \in Mark
  BY <1>1, <1>2 DEF ReadSpool, Worker
<1>4. CASE spool # NoEntry /\ spool.state \in MarkFrom(m.mark)
  <2>1. PICK e : e = [spool EXCEPT !.state = MarkTo(m.mark)]
    OBVIOUS
  <2>2. PICK x : x = [m EXCEPT !.pc = "write", !.image = e]
    OBVIOUS
  <2>3. worker' = [worker EXCEPT ![w] = x] /\ UNCHANGED <<channel, stores, spool, outside, used>>
    BY <1>1, <1>4, <2>1, <2>2 DEF ReadSpool
  <2>4. spool \in Entry /\ MarkTo(m.mark) \in SpoolState
    BY <1>2, <1>3, <1>4 DEF TypeOK, MarkTo, Mark, SpoolState
  <2>5. e \in Entry /\ e.state = MarkTo(m.mark) /\ e.token = spool.token /\ e.pid = spool.pid /\ e # NoEntry
    BY <2>1, <2>4, AbsenceAssumption DEF Entry
  <2>6. x \in Worker /\ Keeps(m, x) /\ x.pc = "write" /\ x.mark = m.mark /\ x.path = m.path /\ x.image = e
    BY <1>2, <2>2, <2>5 DEF Worker, Keeps
  <2>7. Shape(x) /\ TokensFollow(m, x) /\ (Open(x) => Open(m))
    BY <1>2, <1>3, <1>4, <2>5, <2>6 DEF Keeps, Shape, TokensFollow, Open, Marking, Driver, Intake
  <2>8. Truthful(x)
    BY <1>2, <1>3, <2>5, <2>6 DEF Truthful, Marking, MarkTo, Mark
  <2>9. NobodyStalled => Placed(x)
    <3>1. NobodyStalled /\ m.mark \in {"executionCompleted", "sendAttempted", "deliveryRejected"} =>
            lifecycle.state \notin Terminal
      BY <1>2, <1>4 DEF StoresMatch, SpoolIn, MarkFrom
    <3>2. NobodyStalled /\ e.state \in {"send-attempted", "unknown-after-send"} => Generated
      BY <1>2, <1>3, <1>4, <2>5
         DEF StoresMatch, SpoolIn, MarkFrom, MarkTo, Mark, Generated, UnderWay, PostGeneration, Placed, Marking
    <3> QED
      BY <1>2, <1>3, <2>5, <2>6, <3>1, <3>2 DEF Keeps, Placed, Owns, Open, Marking, Driver, Intake
  <2>10. OneMessage => Unsent(x)
    <3>1. OneMessage /\ m.mark = "executionCompleted" => \A p \in Parts : sent[p] = 0
      BY <1>2, <1>4 DEF SentOnce, SpoolIn, MarkFrom, TypeOK
    <3> QED
      BY <1>2, <1>3, <2>6, <3>1 DEF Unsent, Marking
  <2> QED
    BY <1>1, <2>3, <2>6, <2>7, <2>8, <2>9, <2>10, StillStep
<1>5. CASE ~(spool # NoEntry /\ spool.state \in MarkFrom(m.mark))
  <2>1. Throw(w)
    BY <1>1, <1>5 DEF ReadSpool
  <2> QED
    BY <1>1, <1>3, <2>1, ThrowStep
<1> QED
  BY <1>4, <1>5

LEMMA WriteSpoolStep == ASSUME IInv, NEW w \in Workers, WriteSpool(w), UNCHANGED <<channel, used>> PROVE IInv'
<1>1. PICK m : m = worker[w]
  OBVIOUS
<1>2. /\ TypeOK /\ m \in Worker /\ Shape(m) /\ Truthful(m) /\ StoresTrue
      /\ NobodyStalled => Placed(m) /\ StoresMatch
      /\ OneMessage => SentOnce /\ Unsent(m)
  BY <1>1 DEF IInv, TypeOK
<1>3. /\ m.pc = "write" /\ spool' = m.image /\ m.mark \in Mark
      /\ UNCHANGED <<channel, row, lifecycle, slotPending, sent, silent, acked, notified, used>>
      /\ {acked', notified'} \subseteq BOOLEAN
  BY <1>1, <1>2 DEF WriteSpool, TypeOK, stores, outside, Worker
<1>4. m.image \in Entry /\ m.image # NoEntry /\ m.image.state = MarkTo(m.mark) /\ spool' # NoEntry
  BY <1>2, <1>3, AbsenceAssumption DEF Shape, Worker
<1>5. ASSUME NEW x, worker' = [worker EXCEPT ![w] = x],
             x \in Worker /\ x.token = m.token /\ x.pid = m.pid /\ x.image = m.image,
             Shape(x), Truthful(x), x.pc \in {"toGenerated", "startDelivering", "send", "setDelivered", "finish", "fail"},
             Driver(x) => Driver(m),
             x.pc \in {"setDelivered", "finish"} => m.mark \in {"platformDelivered", "unknownAfterSend"},
             x.pc = "toGenerated" => m.mark = "executionCompleted",
             x.pc \in {"startDelivering", "send"} => m.mark = "sendAttempted"
      PROVE  IInv'
  <2>1. TokensFollow(m, x) /\ ~Intake(x) /\ x.pc # "recover" /\ (Open(x) => Open(m))
    BY <1>3, <1>5 DEF TokensFollow, Open, Marking, Intake
  <2>2. /\ m.mark = "platformDelivered" => Told
        /\ NobodyStalled /\ m.mark = "sendAttempted" => UnderWay
        /\ NobodyStalled /\ m.mark = "unknownAfterSend" => Generated
        /\ NobodyStalled /\ m.mark \in {"executionCompleted", "sendAttempted", "deliveryRejected"} =>
             lifecycle.state \notin Terminal
    BY <1>2, <1>3, <1>4 DEF Truthful, Placed, Marking, MarkTo, Mark
  <2>3. NobodyStalled => Placed(x)'
    BY <1>2, <1>3, <1>4, <1>5, <2>2
       DEF Placed, Owns, Open, Marking, SpoolIn, SpoolState, UnderWay, Generated, MarkTo, Mark, SendsAreOnRecord
  <2>4. OneMessage => \A p \in Parts : sent[p] > 0 =>
          m.image.state \in {"send-attempted", "unknown-after-send", "platform-delivered"}
    BY <1>2, <1>3, <1>4 DEF Unsent, MarkTo, Mark, Marking
  <2>5. OneMessage => Unsent(x)
    BY <1>2, <1>3, <1>5 DEF Unsent, Marking
  <2>6. \/ Driver(m) /\ (Open(m) \/ m.image.state \in {"platform-delivered", "unknown-after-send"})
        \/ m.image.state = "unknown-after-send"
    BY <1>2, <1>3, <1>4 DEF Driver, Open, Marking, MarkTo, Mark, Shape
  <2>7. /\ m.image.state = "send-attempted" => m.mark = "sendAttempted"
        /\ m.image.state = "unknown-after-send" => m.mark = "unknownAfterSend"
        /\ m.image.state = "platform-delivered" => m.mark = "platformDelivered"
        /\ m.image.state = "execution-completed" => m.mark \in {"executionCompleted", "deliveryRejected"}
        /\ m.image.state # "accepted" /\ m.image.state \in SpoolState
    BY <1>3, <1>4 DEF MarkTo, Mark, Entry
  <2> QED
    BY <1>1, <1>2, <1>3, <1>4, <1>5, <2>1, <2>2, <2>3, <2>4, <2>5, <2>6, <2>7, SpoolStep DEF SpoolState
<1>6. CASE m.mark = "executionCompleted"
  <2>1. PICK x : x = [m EXCEPT !.pc = "toGenerated"]
    OBVIOUS
  <2>2. worker' = [worker EXCEPT ![w] = x]
    BY <1>1, <1>6, <2>1 DEF WriteSpool
  <2>3. x \in Worker /\ Keeps(m, x) /\ x.pc = "toGenerated" /\ x.path = m.path /\ x.image = m.image
    BY <1>2, <2>1 DEF Worker, Keeps
  <2>4. Shape(x) /\ Truthful(x) /\ Driver(m)
    BY <1>2, <1>3, <1>6, <2>3 DEF Keeps, Shape, Truthful, Marking, Driver
  <2> QED
    BY <1>5, <1>6, <2>2, <2>3, <2>4 DEF Keeps
<1>7. CASE m.mark = "sendAttempted" /\ m.path = "run"
  <2>1. PICK x : x = [m EXCEPT !.attempted = TRUE, !.pc = "startDelivering"]
    OBVIOUS
  <2>2. worker' = [worker EXCEPT ![w] = x]
    BY <1>1, <1>7, <2>1 DEF WriteSpool
  <2>3. /\ x \in Worker /\ x.token = m.token /\ x.pid = m.pid /\ x.part = m.part /\ x.attempted
        /\ x.delivered = m.delivered /\ x.pc = "startDelivering" /\ x.path = m.path /\ x.image = m.image
    BY <1>2, <2>1 DEF Worker
  <2>4. Shape(x) /\ Truthful(x) /\ Driver(m)
    BY <1>2, <1>3, <1>7, <2>3 DEF Shape, Truthful, Marking, Driver
  <2> QED
    BY <1>5, <1>7, <2>2, <2>3, <2>4
<1>8. CASE m.mark = "sendAttempted" /\ m.path = "resume"
  <2>1. PICK x : x = [m EXCEPT !.path = "resumeTry", !.part = 1, !.pc = "send"]
    OBVIOUS
  <2>2. worker' = [worker EXCEPT ![w] = x]
    BY <1>1, <1>8, <2>1 DEF WriteSpool
  <2>3. /\ x \in Worker /\ x.token = m.token /\ x.pid = m.pid /\ x.part = 1 /\ x.attempted = m.attempted
        /\ x.delivered = m.delivered /\ x.pc = "send" /\ x.path = "resumeTry" /\ x.image = m.image
    BY <1>2, <2>1 DEF Worker
  <2>4. 1 \in Parts /\ \A p \in Parts : ~(p < 1)
    BY PipelineAssumption DEF Parts
  <2>5. Shape(x) /\ Truthful(x) /\ Driver(m)
    BY <1>2, <1>3, <1>8, <2>3, <2>4 DEF Shape, Truthful, Marking, Driver
  <2> QED
    BY <1>5, <1>8, <2>2, <2>3, <2>5
<1>9. CASE m.mark = "platformDelivered"
  <2>1. PICK pc : pc = IF m.attempted THEN "setDelivered" ELSE "finish"
    OBVIOUS
  <2>2. PICK x : x = [m EXCEPT !.delivered = TRUE, !.pc = pc]
    OBVIOUS
  <2>3. worker' = [worker EXCEPT ![w] = x]
    BY <1>1, <1>9, <2>1, <2>2 DEF WriteSpool
  <2>4. pc \in {"setDelivered", "finish"}
    BY <2>1
  <2>5. /\ x \in Worker /\ x.token = m.token /\ x.pid = m.pid /\ x.part = m.part /\ x.attempted = m.attempted
        /\ x.delivered /\ x.pc = pc /\ x.path = m.path /\ x.image = m.image
    BY <1>2, <2>2, <2>4 DEF Worker
  <2>6. Shape(x) /\ Truthful(x) /\ Driver(m)
    BY <1>2, <1>3, <1>9, <2>1, <2>5 DEF Shape, Truthful, Marking, Driver
  <2> QED
    BY <1>5, <1>9, <2>3, <2>4, <2>5, <2>6
<1>10. CASE m.mark = "unknownAfterSend"
  <2>1. PICK x : x = [m EXCEPT !.pc = "finish", !.final = "unknown"]
    OBVIOUS
  <2>2. worker' = [worker EXCEPT ![w] = x]
    BY <1>1, <1>10, <2>1 DEF WriteSpool
  <2>3. /\ x \in Worker /\ Keeps(m, x) /\ x.pc = "finish" /\ x.final = "unknown" /\ x.path = m.path /\ x.image = m.image
    BY <1>2, <2>1 DEF Worker, Keeps, Terminal
  <2>4. Shape(x) /\ Truthful(x) /\ ~Driver(x)
    BY <1>2, <1>3, <1>10, <2>3 DEF Keeps, Shape, Truthful, Marking, Driver, Intake
  <2> QED
    BY <1>5, <1>10, <2>2, <2>3, <2>4 DEF Keeps
<1>11. CASE m.mark = "deliveryRejected"
  <2>1. PICK x : x = [m EXCEPT !.attempted = FALSE, !.pc = "fail"]
    OBVIOUS
  <2>2. worker' = [worker EXCEPT ![w] = x]
    BY <1>1, <1>11, <2>1 DEF WriteSpool
  <2>3. /\ x \in Worker /\ x.token = m.token /\ x.pid = m.pid /\ x.part = m.part
        /\ x.delivered = m.delivered /\ x.pc = "fail" /\ x.path = m.path /\ x.image = m.image
    BY <1>2, <2>1 DEF Worker
  <2>4. Shape(x) /\ Truthful(x) /\ Driver(m)
    BY <1>2, <1>3, <1>11, <2>3 DEF Shape, Truthful, Marking, Driver
  <2> QED
    BY <1>5, <1>11, <2>2, <2>3, <2>4
<1>12. m.mark = "sendAttempted" => m.path \in {"run", "resume"}
  BY <1>2, <1>3 DEF Shape, Marking
<1> QED
  BY <1>3, <1>6, <1>7, <1>8, <1>9, <1>10, <1>11, <1>12 DEF Mark
--------------------------------------------------------------------------------
(* On the way to the platform. *)

\* A transition that leaves the task where it is.
LEMMA TransitionInPlace ==
    ASSUME IInv, NEW w \in Workers, NEW m, m = worker[w], NEW to \in DeliveryState, Transition(w, to),
           UNCHANGED <<channel, worker, spool, outside, used>>,
           m.pc \in {"toGenerated", "toDelivering", "finish"},
           to = "delivered" => m.pc = "finish" /\ m.final = "delivered",
           to \in Terminal => m.pc = "finish"
    PROVE  IInv'
<1>1. /\ TypeOK /\ m \in Worker /\ Shape(m) /\ Truthful(m) /\ StoresTrue
      /\ NobodyStalled => Placed(m) /\ StoresMatch
      /\ OneMessage => Unsent(m)
  BY DEF IInv, TypeOK
<1>2. /\ UNCHANGED <<channel, spool, sent, silent, acked, notified, used>>
      /\ {acked', notified'} \subseteq BOOLEAN
  BY <1>1 DEF outside, TypeOK
<1>3. worker' = [worker EXCEPT ![w] = m]
  BY <1>1 DEF TypeOK
<1>4. row' = row /\ Owns(m) /\ (Generated => Generated')
  BY <1>1, TransitionEffect
<1>5. NobodyStalled /\ ~row.done =>
        /\ SpoolIn(SpoolState \ {"accepted"})
        /\ to \in Terminal => SpoolIn({"platform-delivered", "unknown-after-send"})
  BY <1>1, <1>4 DEF Placed, SpoolIn, SpoolState
<1>6. Truthful(m)'
  BY <1>1, <1>2, <1>4 DEF Truthful, Marking, Told, WasSent
<1>7. NobodyStalled => Placed(m)'
  BY <1>1, <1>2, <1>4 DEF Placed, Owns, Open, Marking, SpoolIn, SendsAreOnRecord
<1>8. TokensFollow(m, m)
  BY DEF TokensFollow
<1> QED
  BY <1>1, <1>2, <1>3, <1>5, <1>6, <1>7, <1>8, TransitionStep DEF Truthful

\* The lifecycle is where the loop wants it: the next call marks the attempt.
LEMMA AttemptNext ==
    ASSUME IInv, NEW w \in Workers, NEW m, m = worker[w], ReadMark(w, "sendAttempted"),
           UNCHANGED <<channel, stores, spool, outside, used>>,
           m.pc \in {"toGenerated", "toDelivering"}, lifecycle.state \in {"generated", "delivering"}
    PROVE  IInv'
<1>1. /\ TypeOK /\ m \in Worker /\ Shape(m) /\ Truthful(m) /\ StoresTrue
      /\ NobodyStalled => Placed(m)
      /\ OneMessage => Unsent(m)
  BY DEF IInv, TypeOK
<1>2. PICK x : x = [m EXCEPT !.pc = "read", !.mark = "sendAttempted"]
  OBVIOUS
<1>3. worker' = [worker EXCEPT ![w] = x]
  BY <1>2 DEF ReadMark
<1>4. x \in Worker /\ Keeps(m, x) /\ x.pc = "read" /\ x.mark = "sendAttempted" /\ x.path = m.path /\ x.image = m.image
  BY <1>1, <1>2 DEF Worker, Mark, Keeps
<1>5. Shape(x) /\ TokensFollow(m, x) /\ Open(m)
  BY <1>1, <1>4 DEF Keeps, Shape, TokensFollow, Open, Marking, Driver, Intake
<1>6. Truthful(x)
  BY <1>1, <1>4 DEF Truthful, Marking
<1>7. NobodyStalled => Placed(x)
  BY <1>1, <1>4 DEF Keeps, Placed, Owns, Open, Marking, Driver, UnderWay, StoresTrue
<1>8. OneMessage => Unsent(x)
  BY <1>1, <1>4 DEF Unsent
<1> QED
  BY <1>3, <1>4, <1>5, <1>6, <1>7, <1>8, StillStep

LEMMA AdvanceToGeneratedStep ==
    ASSUME IInv, NEW w \in Workers, AdvanceToGenerated(w), UNCHANGED <<channel, used>> PROVE IInv'
<1>1. PICK m : m = worker[w]
  OBVIOUS
<1>2. m.pc = "toGenerated"
  BY <1>1 DEF AdvanceToGenerated
<1>3. CASE lifecycle.state = "generated" /\ ReadMark(w, "sendAttempted") /\ UNCHANGED <<stores, spool, outside>>
  BY <1>1, <1>2, <1>3, AttemptNext
<1>4. CASE Transition(w, TowardGenerated) /\ UNCHANGED <<worker, spool, outside>>
  <2>1. PICK to : to = TowardGenerated
    OBVIOUS
  <2>2. to \in DeliveryState /\ to \notin Terminal /\ to # "delivered"
    BY <2>1 DEF TowardGenerated, DeliveryState, OperationalState, Terminal
  <2> QED
    BY <1>1, <1>2, <1>4, <2>1, <2>2, TransitionInPlace
<1>5. CASE Throw(w)
  BY <1>1, <1>2, <1>5, ThrowStep
<1> QED
  BY <1>3, <1>4, <1>5 DEF AdvanceToGenerated

LEMMA AdvanceToDeliveringStep ==
    ASSUME IInv, NEW w \in Workers, AdvanceToDelivering(w), UNCHANGED <<channel, used>> PROVE IInv'
<1>1. PICK m : m = worker[w]
  OBVIOUS
<1>2. m.pc = "toDelivering"
  BY <1>1 DEF AdvanceToDelivering
<1>3. CASE lifecycle.state = "delivering" /\ ReadMark(w, "sendAttempted") /\ UNCHANGED <<stores, spool, outside>>
  BY <1>1, <1>2, <1>3, AttemptNext
<1>4. CASE Transition(w, TowardDelivering) /\ UNCHANGED <<worker, spool, outside>>
  <2>1. PICK to : to = TowardDelivering
    OBVIOUS
  <2>2. to \in DeliveryState /\ to \notin Terminal /\ to # "delivered"
    BY <2>1 DEF TowardDelivering, DeliveryState, OperationalState, Terminal
  <2> QED
    BY <1>1, <1>2, <1>4, <2>1, <2>2, TransitionInPlace
<1>5. CASE Throw(w)
  BY <1>1, <1>2, <1>5, ThrowStep
<1> QED
  BY <1>3, <1>4, <1>5 DEF AdvanceToDelivering

LEMMA StartDeliveringStep ==
    ASSUME IInv, NEW w \in Workers, StartDelivering(w), UNCHANGED <<channel, used>> PROVE IInv'
<1>1. PICK m : m = worker[w]
  OBVIOUS
<1>2. /\ TypeOK /\ m \in Worker /\ Shape(m) /\ Truthful(m) /\ StoresTrue
      /\ NobodyStalled => Placed(m)
      /\ OneMessage => Unsent(m)
  BY <1>1 DEF IInv, TypeOK
<1>3. m.pc = "startDelivering"
  BY <1>1 DEF StartDelivering
<1>4. CASE Transition(w, "delivering") /\ Goto(w, "send") /\ UNCHANGED <<spool, outside>>
  <2>1. PICK x : x = [m EXCEPT !.pc = "send"]
    OBVIOUS
  <2>2. worker' = [worker EXCEPT ![w] = x]
    BY <1>1, <1>4, <2>1 DEF Goto
  <2>3. x \in Worker /\ Keeps(m, x) /\ x.pc = "send" /\ x.path = m.path /\ x.image = m.image
    BY <1>2, <2>1 DEF Worker, Keeps
  <2>4. /\ UNCHANGED <<channel, spool, sent, silent, acked, notified, used>>
        /\ {acked', notified'} \subseteq BOOLEAN
    BY <1>2, <1>4 DEF outside, TypeOK
  <2>5. Shape(x) /\ TokensFollow(m, x) /\ Open(m) /\ x.part = 1
    BY <1>2, <1>3, <2>3 DEF Keeps, Shape, TokensFollow, Open, Marking, Driver, Intake
  <2>6. /\ row' = row /\ (Generated => Generated')
        /\ lifecycle' = lifecycle \/ lifecycle'.lastOperationalState = "delivering"
    BY <1>2, <1>4, TransitionEffect DEF DeliveryState, OperationalState
  <2>7. \A p \in Parts : ~(p < 1)
    BY DEF Parts
  <2>8. Truthful(x)'
    BY <1>2, <1>3, <2>3, <2>4, <2>5, <2>7 DEF Truthful, Marking, Told, WasSent
  <2>9. NobodyStalled => Placed(x)' /\ SpoolIn(SpoolState \ {"accepted"})
    BY <1>2, <1>3, <2>3, <2>4, <2>6
       DEF Keeps, Placed, Owns, Open, Marking, Driver, Intake, SpoolIn, SpoolState, UnderWay
  <2>10. OneMessage => Unsent(x)
    BY <1>2, <1>3 DEF Unsent
  <2> QED
    BY <1>1, <1>4, <2>2, <2>3, <2>4, <2>5, <2>8, <2>9, <2>10, TransitionStep
       DEF DeliveryState, OperationalState, Terminal
<1>5. CASE Throw(w)
  BY <1>1, <1>3, <1>5, ThrowStep
<1> QED
  BY <1>4, <1>5 DEF StartDelivering

\* The platform has a part of the reply, or may have it.
LEMMA SendKeepsInv ==
    ASSUME IInv, NEW w \in Workers, NEW m, NEW x \in Worker, m = worker[w], m.pc = "send",
           worker' = [worker EXCEPT ![w] = x],
           UNCHANGED <<channel, row, lifecycle, slotPending, spool, acked, silent, used>>, notified' \in BOOLEAN,
           sent' \in {sent, [sent EXCEPT ![m.part] = @ + 1]},
           TokensFollow(m, x), x.pc # "recover",
           Shape(x), Truthful(x)', NobodyStalled => Placed(x), OneMessage => Unsent(x)'
    PROVE  IInv'
<1>1. /\ TypeOK /\ m \in Worker /\ Shape(m) /\ StoresTrue
      /\ NobodyStalled => Placed(m) /\ StoresMatch
      /\ OneMessage => SentOnce /\ Unsent(m)
  BY DEF IInv, TypeOK
<1>2. m.part \in Parts /\ sent \in [Parts -> Nat] /\ Open(m) /\ Driver(m)
  BY <1>1 DEF Shape, TypeOK, Open, Driver
<1>3. /\ sent' \in [Parts -> Nat]
      /\ \A p \in Parts : sent[p] > 0 => sent'[p] > 0
      /\ \A p \in Parts : sent'[p] <= sent[p] + 1
  BY <1>2
<1>4. TypeOK'
  BY <1>1, <1>3 DEF TypeOK
<1>5. Told => Told'
  BY <1>3 DEF Told, WasSent
<1>6. Footprint(m, x)
  BY <1>2, <1>3, <1>5 DEF Footprint, Generated
<1>7. StoresTrue'
  BY <1>1, <1>5 DEF StoresTrue, SpoolIn, Done
<1>8. NobodyStalled => StoresMatch'
  <2>1. NobodyStalled => Generated /\ SpoolIn({"send-attempted", "unknown-after-send"})
    BY <1>1 DEF Placed, Generated, UnderWay, PostGeneration
  <2> QED
    BY <1>1, <2>1 DEF StoresMatch, SpoolIn, UnderWay, Generated, SendsAreOnRecord, Done
<1>9. OneMessage => SentOnce'
  <2>1. OneMessage => SpoolIn({"send-attempted", "unknown-after-send"}) /\ \A p \in Parts : sent[p] = 0
    BY <1>1 DEF Placed, Unsent, OneMessage
  <2> QED
    BY <1>2, <1>3, <2>1 DEF SentOnce, SpoolIn
<1>10. NobodyStalled => Placed(x)'
  BY DEF Placed, Owns, Open, Marking, SpoolIn, UnderWay, Generated, SendsAreOnRecord
<1> QED
  BY <1>4, <1>6, <1>7, <1>8, <1>9, <1>10, StepKeepsInv

LEMMA SendPartStep == ASSUME IInv, NEW w \in Workers, SendPart(w), UNCHANGED <<channel, used>> PROVE IInv'
<1>1. PICK m : m = worker[w]
  OBVIOUS
<1>2. /\ TypeOK /\ m \in Worker /\ Shape(m) /\ Truthful(m) /\ StoresTrue
      /\ NobodyStalled => Placed(m)
      /\ OneMessage => Unsent(m)
      /\ m.pid \in Pids \cup {0}
  BY <1>1 DEF IInv, TypeOK, Worker
<1>3. m.pc = "send" /\ UNCHANGED <<channel, row, lifecycle, slotPending, spool, acked, silent, used>>
  BY <1>1 DEF SendPart, stores
<1>4. m.part \in Parts /\ Driver(m) /\ sent \in [Parts -> Nat]
  BY <1>2, <1>3 DEF Shape, Driver, TypeOK
<1>5. CASE /\ sent' = [sent EXCEPT ![m.part] = @ + 1]
           /\ worker' = [worker EXCEPT ![w] =
                IF m.part + 1 \in Parts THEN [m EXCEPT !.part = m.part + 1]
                ELSE [m EXCEPT !.pc = "read", !.mark = "platformDelivered"]]
           /\ UNCHANGED notified
  <2>1. sent'[m.part] > 0 /\ \A p \in Parts : sent[p] > 0 => sent'[p] > 0
    BY <1>4, <1>5
  <2>2. notified' \in BOOLEAN
    BY <1>2, <1>5 DEF TypeOK
  <2>3. CASE m.part + 1 \in Parts
    <3>1. PICK x : x = [m EXCEPT !.part = m.part + 1]
      OBVIOUS
    <3>2. worker' = [worker EXCEPT ![w] = x]
      BY <1>5, <2>3, <3>1
    <3>3. /\ x \in Worker /\ x.pc = "send" /\ x.path = m.path /\ x.image = m.image /\ x.part = m.part + 1
          /\ x.token = m.token /\ x.pid = m.pid /\ x.recovering = m.recovering
          /\ x.attempted = m.attempted /\ x.delivered = m.delivered
      BY <1>2, <1>3, <2>3, <3>1 DEF Worker, Parts
    <3>4. Shape(x) /\ TokensFollow(m, x)
      BY <1>2, <1>3, <1>4, <2>3, <3>3 DEF Shape, TokensFollow, Marking, Driver, Intake
    <3>5. \A p \in Parts : p < m.part + 1 => p < m.part \/ p = m.part
      BY <1>4 DEF Parts
    <3>6. \A p \in Parts : p < x.part => sent'[p] > 0
      BY <1>2, <1>3, <2>1, <3>3, <3>5 DEF Truthful
    <3>7. (Told => Told')
      BY <1>3, <2>1 DEF Told, WasSent
    <3>8. Truthful(x)'
      BY <1>2, <1>3, <3>3, <3>6, <3>7 DEF Truthful, Marking
    <3>9. NobodyStalled => Placed(x)
      BY <1>2, <1>3, <3>3 DEF Placed, Owns, Open, Marking, Driver
    <3>10. ~OneMessage
      BY <1>4, <2>3 DEF OneMessage, Parts
    <3> QED
      BY <1>1, <1>3, <1>5, <2>2, <3>2, <3>3, <3>4, <3>8, <3>9, <3>10, SendKeepsInv
  <2>4. CASE m.part + 1 \notin Parts
    <3>1. PICK x : x = [m EXCEPT !.pc = "read", !.mark = "platformDelivered"]
      OBVIOUS
    <3>2. worker' = [worker EXCEPT ![w] = x]
      BY <1>1, <1>5, <2>4, <3>1
    <3>3. /\ x \in Worker /\ Keeps(m, x) /\ x.pc = "read" /\ x.mark = "platformDelivered"
          /\ x.path = m.path /\ x.image = m.image
      BY <1>2, <3>1 DEF Worker, Keeps, Mark
    <3>4. Shape(x) /\ TokensFollow(m, x)
      BY <1>2, <1>3, <1>4, <3>3 DEF Keeps, Shape, TokensFollow, Marking, Driver, Intake
    <3>5. \A p \in Parts : p < m.part \/ p = m.part
      BY <1>4, <2>4, PipelineAssumption DEF Parts
    <3>6. WasSent'
      BY <1>2, <1>3, <2>1, <3>5 DEF Truthful, WasSent
    <3>7. Truthful(x)'
      BY <3>3, <3>6 DEF Truthful, Marking, Told
    <3>8. NobodyStalled => Placed(x)
      BY <1>2, <1>3, <1>4, <3>3 DEF Keeps, Placed, Owns, Open, Marking
    <3>9. Unsent(x)'
      BY <3>3 DEF Unsent, Marking
    <3> QED
      BY <1>1, <1>3, <1>5, <2>2, <3>2, <3>3, <3>4, <3>7, <3>8, <3>9, SendKeepsInv
  <2> QED
    BY <2>3, <2>4
<1>6. ASSUME NEW definitive \in BOOLEAN, Catch(w, definitive),
             sent' \in {sent, [sent EXCEPT ![m.part] = @ + 1]}, definitive => sent' = sent
      PROVE  IInv'
  <2>1. PICK mark : mark = IF definitive THEN "deliveryRejected" ELSE "unknownAfterSend"
    OBVIOUS
  <2>2. PICK x \in Worker :
          /\ worker' = [worker EXCEPT ![w] = x]
          /\ x = Resting(m.pid) \/ Rescued(m, x, mark) \/ GivenUp(m, x)
    BY <1>1, <1>2, <1>6, <2>1, CatchEffect
  <2>3. notified' \in BOOLEAN
    BY <1>1, <1>2, <1>6, CatchEffect
  <2>4. CASE x = Resting(m.pid)
    BY <1>1, <1>2, <1>3, <1>6, <2>2, <2>3, <2>4, RestingIsInOrder, SendKeepsInv
  <2>5. CASE Rescued(m, x, mark) \/ GivenUp(m, x)
    <3>1. /\ x.token = m.token /\ x.pid = m.pid /\ x.image = m.image
          /\ Driver(x) /\ ~Intake(x) /\ x.pc \in {"read", "fail"} /\ Shape(x)
          /\ x.pc = "read" => x.mark = mark
      BY <1>2, <1>3, <2>1, <2>5, RescuedIsInOrder
    <3>2. TokensFollow(m, x)
      BY <1>4, <3>1 DEF TokensFollow
    <3>3. \A p \in Parts : sent[p] > 0 => sent'[p] > 0
      BY <1>4, <1>6
    <3>4. Truthful(x)'
      BY <1>2, <1>3, <2>1, <3>1, <3>3 DEF Truthful, Marking, Told, WasSent
    <3>5. NobodyStalled => Placed(x)
      BY <1>2, <1>3, <1>4, <2>1, <3>1 DEF Placed, Owns, Open, Marking
    <3>6. OneMessage => Unsent(x)'
      BY <1>2, <1>3, <1>6, <2>1, <3>1 DEF Unsent, Marking
    <3> QED
      BY <1>1, <1>3, <1>6, <2>2, <2>3, <3>1, <3>2, <3>4, <3>5, <3>6, SendKeepsInv
  <2> QED
    BY <2>2, <2>4, <2>5
<1> QED
  BY <1>1, <1>5, <1>6 DEF SendPart

LEMMA SetDeliveredStep == ASSUME IInv, NEW w \in Workers, SetDelivered(w), UNCHANGED <<channel, used>> PROVE IInv'
<1>1. PICK m : m = worker[w]
  OBVIOUS
<1>2. /\ TypeOK /\ m \in Worker /\ Shape(m) /\ Truthful(m) /\ StoresTrue
      /\ NobodyStalled => Placed(m)
      /\ m.pid \in Pids \cup {0}
  BY <1>1 DEF IInv, TypeOK, Worker
<1>3. m.pc = "setDelivered" /\ Driver(m)
  BY <1>1 DEF SetDelivered, Driver
<1>4. ASSUME Transition(w, "delivered"), NEW x \in Worker, worker' = [worker EXCEPT ![w] = x],
             UNCHANGED <<spool, acked, sent, silent>>, notified' \in BOOLEAN,
             \/ x = Resting(m.pid)
             \/ /\ x.token = m.token /\ x.pid = m.pid /\ x.image = m.image
                /\ Shape(x) /\ x.pc \in {"fail", "finish"}
      PROVE  IInv'
  <2>1. row' = row /\ Owns(m) /\ (Generated => Generated')
    BY <1>1, <1>2, <1>4, TransitionEffect DEF DeliveryState, OperationalState
  <2>2. Told /\ (Told => Told')
    BY <1>2, <1>3, <1>4 DEF Truthful, Told, WasSent
  <2>3. NobodyStalled /\ ~row.done => SpoolIn({"platform-delivered", "unknown-after-send"})
    BY <1>2, <1>3, <2>1 DEF Placed
  <2>4. /\ UNCHANGED <<channel, spool, sent, silent, used>>
        /\ {acked', notified'} \subseteq BOOLEAN
    BY <1>2, <1>4 DEF TypeOK
  <2>5. CASE x = Resting(m.pid)
    BY <1>1, <1>2, <1>4, <2>2, <2>3, <2>4, <2>5, RestingIsInOrder, TransitionStep
       DEF DeliveryState, OperationalState, Terminal
  <2>6. CASE /\ x.token = m.token /\ x.pid = m.pid /\ x.image = m.image
             /\ Shape(x) /\ x.pc \in {"fail", "finish"}
    <3>1. TokensFollow(m, x) /\ x.pc # "recover" /\ ~Open(x) /\ Unsent(x)
      BY <1>3, <2>6 DEF TokensFollow, Open, Marking, Intake, Unsent
    <3>2. Truthful(x)'
      BY <1>2, <2>2, <2>6 DEF Truthful, Marking
    <3>3. NobodyStalled => Placed(x)'
      BY <1>2, <1>3, <2>1, <2>3, <2>4, <2>6 DEF Placed, Owns, Open, Marking, SpoolIn
    <3> QED
      BY <1>1, <1>2, <1>4, <2>2, <2>3, <2>4, <2>6, <3>1, <3>2, <3>3, TransitionStep
         DEF DeliveryState, OperationalState, Terminal
  <2> QED
    BY <1>4, <2>5, <2>6
<1>5. CASE Transition(w, "delivered") /\ Finish(w, "delivered") /\ UNCHANGED <<notified, spool, acked, sent, silent>>
  <2>1. PICK x : x = [m EXCEPT !.pc = "finish", !.final = "delivered"]
    OBVIOUS
  <2>2. worker' = [worker EXCEPT ![w] = x]
    BY <1>1, <1>5, <2>1 DEF Finish
  <2>3. x \in Worker /\ Keeps(m, x) /\ x.pc = "finish" /\ x.path = m.path /\ x.image = m.image
    BY <1>2, <2>1 DEF Worker, Keeps, Terminal
  <2>4. Shape(x)
    BY <1>2, <1>3, <2>3 DEF Keeps, Shape, Marking
  <2>5. notified' \in BOOLEAN
    BY <1>2, <1>5 DEF TypeOK
  <2> QED
    BY <1>4, <1>5, <2>2, <2>3, <2>4, <2>5 DEF Keeps
<1>6. CASE Transition(w, "delivered") /\ Catch(w, FALSE) /\ UNCHANGED <<spool, acked, sent, silent>>
  <2>1. PICK x \in Worker :
          /\ worker' = [worker EXCEPT ![w] = x]
          /\ x = Resting(m.pid) \/ Rescued(m, x, "unknownAfterSend") \/ GivenUp(m, x)
    BY <1>1, <1>2, <1>6, CatchEffect
  <2>2. notified' \in BOOLEAN
    BY <1>1, <1>2, <1>6, CatchEffect
  <2>3. CASE x = Resting(m.pid)
    BY <1>4, <1>6, <2>1, <2>2, <2>3
  <2>4. CASE Rescued(m, x, "unknownAfterSend") \/ GivenUp(m, x)
    <3>1. ~Rescued(m, x, "unknownAfterSend")
      BY <1>2, <1>3 DEF Rescued, Shape
    <3>2. x.token = m.token /\ x.pid = m.pid /\ x.image = m.image /\ Shape(x)
      BY <1>2, <1>3, <2>4, RescuedIsInOrder
    <3>3. x.pc = "fail"
      BY <1>2, <2>4, <3>1 DEF GivenUp, Worker
    <3> QED
      BY <1>4, <1>6, <2>1, <2>2, <3>2, <3>3
  <2> QED
    BY <2>1, <2>3, <2>4
<1>7. CASE Throw(w)
  BY <1>1, <1>3, <1>7, ThrowStep
<1> QED
  BY <1>5, <1>6, <1>7 DEF SetDelivered
--------------------------------------------------------------------------------
(* How a delivery is settled, or given up. *)

LEMMA CompleteAdapterIngressStep ==
    ASSUME IInv, NEW w \in Workers, CompleteAdapterIngress(w), UNCHANGED <<channel, used>> PROVE IInv'
<1>1. PICK m : m = worker[w]
  OBVIOUS
<1>2. /\ TypeOK /\ m \in Worker /\ Shape(m) /\ Truthful(m) /\ StoresTrue
      /\ NobodyStalled => Placed(m)
      /\ m.pid \in Pids \cup {0} /\ m.final \in Terminal
  BY <1>1 DEF IInv, TypeOK, Worker
<1>3. m.pc = "finish"
  BY <1>1 DEF CompleteAdapterIngress
<1>4. CASE /\ lifecycle.state = m.final /\ OwnsClaim(w) /\ row' = [row EXCEPT !.done = TRUE]
           /\ \/ m.final = "delivered" /\ Goto(w, "remove") /\ UNCHANGED notified
              \/ EndQuietly(w)
           /\ UNCHANGED <<lifecycle, slotPending, spool, acked, sent, silent>>
  <2>1. Owns(m) /\ lifecycle.state \in Terminal
    BY <1>1, <1>2, <1>4 DEF OwnsClaim, Owns
  <2>2. row \in [token : Nat, done : BOOLEAN]
    BY <1>2, <2>1 DEF TypeOK, Owns
  <2>3. /\ UNCHANGED <<channel, lifecycle, slotPending, spool, acked, sent, silent, notified, used>>
        /\ {acked', notified'} \subseteq BOOLEAN
        /\ used' \in [receipts : 0 .. MaxReceipts, crashes : Nat, torn : Nat, stalls : Nat]
    BY <1>2, <1>4 DEF TypeOK, EndQuietly
  <2>4. row' # NoClaim /\ row'.done /\ row'.token = row.token
    BY <1>4, <2>2, AbsenceAssumption
  <2>5. PICK x : /\ worker' = [worker EXCEPT ![w] = x]
                 /\ x = Resting(m.pid) \/ x = [m EXCEPT !.pc = "remove"]
    BY <1>1, <1>4 DEF Goto, EndQuietly
  <2>6. /\ x \in Worker /\ TokensFollow(m, x) /\ x.pc # "recover" /\ ~Open(x) /\ Shape(x)
        /\ Truthful(x)' /\ Placed(x) /\ Placed(x)' /\ Unsent(x) /\ Unsent(x)'
        /\ Done => Truthful(x)
    <3>1. CASE x = Resting(m.pid)
      BY <1>2, <3>1, RestingIsInOrder
    <3>2. CASE x = [m EXCEPT !.pc = "remove"]
      <4>1. x \in Worker /\ Keeps(m, x) /\ x.pc = "remove" /\ x.path = m.path /\ x.image = m.image
        BY <1>2, <3>2 DEF Worker, Keeps
      <4>2. TokensFollow(m, x) /\ ~Open(x) /\ Shape(x) /\ ~Driver(x) /\ Unsent(x) /\ Unsent(x)'
        BY <1>2, <1>3, <4>1 DEF Keeps, TokensFollow, Open, Marking, Shape, Driver, Intake, Unsent
      <4>3. m.image # NoEntry /\ m.image.state \in {"send-attempted", "unknown-after-send"} => Generated /\ Generated'
        <5>1. lifecycle.state \in Terminal => Generated
          BY <1>2 DEF StoresTrue, Generated, PostGeneration, Terminal
        <5> QED
          BY <2>1, <2>3, <5>1 DEF Generated
      <4>4. Placed(x) /\ Placed(x)'
        BY <4>1, <4>2, <4>3 DEF Placed, Marking
      <4>5. Truthful(x)' /\ (Done => Truthful(x))
        BY <1>2, <2>3, <2>4, <4>1, <4>2 DEF Truthful, Marking, Told, WasSent, Done, Driver
      <4> QED
        BY <4>1, <4>2, <4>4, <4>5
    <3> QED
      BY <2>5, <3>1, <3>2
  <2>7. CASE row.done
    <3>1. row' = row /\ Done
      BY <1>4, <2>1, <2>2, <2>7 DEF Done, Owns
    <3> QED
      BY <1>1, <2>3, <2>5, <2>6, <3>1, StillStep DEF stores, outside
  <2>8. CASE ~row.done
    BY <1>1, <1>4, <2>1, <2>3, <2>5, <2>6, <2>8, RowStep
  <2> QED
    BY <2>7, <2>8
<1>5. CASE /\ lifecycle.state \notin Terminal /\ Transition(w, Target(w)) /\ UNCHANGED <<worker, spool, outside>>
  <2>1. PICK to : to = Target(w)
    OBVIOUS
  <2>2. to = IF lifecycle.state = "delivering" THEN m.final ELSE TowardDelivering
    BY <1>1, <1>3, <2>1 DEF Target
  <2>3. TowardDelivering \in {"running", "generated", "delivering"}
    BY DEF TowardDelivering
  <2>4. to \in DeliveryState /\ (to = "delivered" => m.final = "delivered")
    BY <1>2, <2>2, <2>3 DEF Terminal, DeliveryState, OperationalState
  <2> QED
    BY <1>1, <1>3, <1>5, <2>1, <2>4, TransitionInPlace
<1>6. CASE Throw(w)
  BY <1>1, <1>3, <1>6, ThrowStep
<1> QED
  BY <1>1, <1>4, <1>5, <1>6 DEF CompleteAdapterIngress

LEMMA RemoveEntryStep == ASSUME IInv, NEW w \in Workers, RemoveEntry(w), UNCHANGED <<channel, used>> PROVE IInv'
<1>1. PICK m, x : m = worker[w] /\ x = Resting(m.pid)
  OBVIOUS
<1>2. /\ TypeOK /\ m \in Worker /\ Truthful(m) /\ StoresTrue
      /\ NobodyStalled => StoresMatch
      /\ OneMessage => SentOnce
      /\ m.pid \in Pids \cup {0}
  BY <1>1 DEF IInv, TypeOK, Worker
<1>3. /\ m.pc = "remove" /\ spool' = NoEntry /\ worker' = [worker EXCEPT ![w] = x]
      /\ UNCHANGED <<channel, row, lifecycle, slotPending, acked, sent, silent, used>> /\ notified' \in BOOLEAN
  BY <1>1, <1>2 DEF RemoveEntry, EndQuietly, EndWithError, stores, TypeOK
<1>4. Done /\ Done' /\ (Told <=> Told')
  BY <1>2, <1>3 DEF Truthful, Done, Told, WasSent
<1>5. TypeOK'
  BY <1>1, <1>2, <1>3, RestingIsInOrder DEF TypeOK
<1>6. StoresTrue'
  BY <1>2, <1>3, <1>4 DEF StoresTrue, SpoolIn
<1>7. NobodyStalled => StoresMatch'
  BY <1>2, <1>3, <1>4 DEF StoresMatch, SpoolIn, Generated
<1>8. OneMessage => SentOnce'
  BY <1>2, <1>3, <1>4 DEF SentOnce
<1>9. Footprint(m, x)
  BY <1>1, <1>2, <1>3, <1>4, RestingIsInOrder DEF Footprint, Generated
<1> QED
  BY <1>1, <1>2, <1>3, <1>5, <1>6, <1>7, <1>8, <1>9, RestingIsInOrder, StepKeepsInv

\* What is left of a failed task: a recovery that claims again, or a worker at rest.
LEMMA AfterFailEffect ==
    ASSUME IInv, NEW w \in Workers, NEW m, m = worker[w], m.pc \in {"fail", "release"}, AfterFail(w)
    PROVE  /\ notified' \in BOOLEAN
           /\ \E x \in Worker :
                /\ worker' = [worker EXCEPT ![w] = x]
                /\ TokensFollow(m, x) /\ x.pc # "recover" /\ ~Open(x) /\ ~Driver(x) /\ Shape(x)
                /\ Unsent(x) /\ Unsent(x)' /\ x.pc \in {"down", "idle", "reclaim"}
                /\ x.image \in {m.image, NoEntry}
<1>1. TypeOK /\ m \in Worker /\ Shape(m) /\ m.pid \in Pids \cup {0}
  BY DEF IInv, TypeOK, Worker
<1>2. notified' \in BOOLEAN
  BY <1>1 DEF AfterFail, EndWithError, TypeOK
<1>3. CASE m.recovering /\ m.path = "intake"
  <2>1. PICK x : x = [m EXCEPT !.pc = "reclaim"]
    OBVIOUS
  <2>2. worker' = [worker EXCEPT ![w] = x]
    BY <1>3, <2>1 DEF AfterFail, Goto
  <2>3. x \in Worker /\ Keeps(m, x) /\ x.pc = "reclaim" /\ x.path = m.path /\ x.image = m.image
    BY <1>1, <2>1 DEF Worker, Keeps
  <2>4. TokensFollow(m, x) /\ ~Open(x) /\ ~Driver(x) /\ Shape(x) /\ Unsent(x) /\ Unsent(x)'
    BY <1>1, <1>3, <2>3 DEF Keeps, TokensFollow, Open, Marking, Shape, Driver, Intake, Unsent
  <2> QED
    BY <1>2, <2>2, <2>3, <2>4
<1>4. CASE ~(m.recovering /\ m.path = "intake")
  <2>1. worker' = [worker EXCEPT ![w] = Resting(m.pid)]
    BY <1>4 DEF AfterFail, EndWithError
  <2> QED
    BY <1>1, <1>2, <2>1, RestingIsInOrder
<1> QED
  BY <1>3, <1>4

LEMMA FailStep == ASSUME IInv, NEW w \in Workers, Fail(w), UNCHANGED <<channel, used>> PROVE IInv'
<1>1. PICK m : m = worker[w]
  OBVIOUS
<1>2. /\ TypeOK /\ m \in Worker /\ Shape(m) /\ Truthful(m) /\ StoresTrue
      /\ NobodyStalled => Placed(m)
  BY <1>1 DEF IInv, TypeOK
<1>3. m.pc = "fail" /\ UNCHANGED <<channel, used, spool, acked, sent, silent>>
  BY <1>1 DEF Fail
<1>4. CASE Transition(w, "failed") /\ Goto(w, "release") /\ UNCHANGED notified
  <2>1. PICK x : x = [m EXCEPT !.pc = "release"]
    OBVIOUS
  <2>2. worker' = [worker EXCEPT ![w] = x]
    BY <1>1, <1>4, <2>1 DEF Goto
  <2>3. x \in Worker /\ Keeps(m, x) /\ x.pc = "release" /\ x.path = m.path /\ x.image = m.image
    BY <1>2, <2>1 DEF Worker, Keeps
  <2>4. TokensFollow(m, x) /\ ~Open(x) /\ Shape(x) /\ (Driver(x) <=> Driver(m)) /\ Unsent(x)
    BY <1>2, <1>3, <2>3 DEF Keeps, TokensFollow, Open, Marking, Shape, Driver, Intake, Unsent
  <2>5. row' = row /\ (Generated => Generated')
    BY <1>2, <1>4, TransitionEffect DEF DeliveryState, OperationalState
  <2>6. Truthful(x)'
    BY <1>2, <1>3, <2>3 DEF Truthful, Marking, Told, WasSent
  <2>7. NobodyStalled => Placed(x)'
    BY <1>2, <2>3, <2>4, <2>5 DEF Placed, Marking, Owns, Keeps
  <2>8. {acked', notified'} \subseteq BOOLEAN
    BY <1>2, <1>3, <1>4 DEF TypeOK
  <2> QED
    BY <1>1, <1>3, <1>4, <2>2, <2>3, <2>4, <2>6, <2>7, <2>8, TransitionStep
       DEF DeliveryState, OperationalState, Terminal
<1>5. CASE UNCHANGED stores /\ AfterFail(w)
  <2>1. PICK x \in Worker :
          /\ worker' = [worker EXCEPT ![w] = x]
          /\ TokensFollow(m, x) /\ x.pc # "recover" /\ ~Open(x) /\ ~Driver(x) /\ Shape(x)
          /\ Unsent(x) /\ Unsent(x)' /\ x.pc \in {"down", "idle", "reclaim"}
          /\ x.image \in {m.image, NoEntry}
    BY <1>1, <1>3, <1>5, AfterFailEffect
  <2>2. notified' \in BOOLEAN
    BY <1>1, <1>3, <1>5, AfterFailEffect
  <2>3. UNCHANGED <<row, lifecycle, slotPending>>
    BY <1>5 DEF stores
  <2>4. Truthful(x)' /\ (NobodyStalled => Placed(x))
    BY <1>2, <1>3, <2>1 DEF Truthful, Placed, Marking, Told, WasSent
  <2>5. /\ used' \in [receipts : 0 .. MaxReceipts, crashes : Nat, torn : Nat, stalls : Nat]
        /\ {acked', silent', notified'} \subseteq BOOLEAN
    BY <1>2, <1>3, <2>2 DEF TypeOK
  <2> QED
    BY <1>1, <1>3, <2>1, <2>3, <2>4, <2>5, LocalStep
<1> QED
  BY <1>4, <1>5 DEF Fail

LEMMA ReleaseStep == ASSUME IInv, NEW w \in Workers, Release(w), UNCHANGED <<channel, used>> PROVE IInv'
<1>1. PICK m : m = worker[w]
  OBVIOUS
<1>2. /\ TypeOK /\ m \in Worker /\ Shape(m) /\ Truthful(m)
      /\ NobodyStalled => Placed(m)
  BY <1>1 DEF IInv, TypeOK
<1>3. /\ m.pc = "release" /\ AfterFail(w)
      /\ UNCHANGED <<channel, used, lifecycle, slotPending, spool, acked, sent, silent>>
      /\ row' = row \/ (Owns(m) /\ ~row.done /\ row' = NoClaim)
  BY <1>1 DEF Release, OwnsClaim, Owns
<1>4. PICK x \in Worker :
        /\ worker' = [worker EXCEPT ![w] = x]
        /\ TokensFollow(m, x) /\ x.pc # "recover" /\ ~Open(x) /\ ~Driver(x) /\ Shape(x)
        /\ Unsent(x) /\ Unsent(x)' /\ x.pc \in {"down", "idle", "reclaim"}
        /\ x.image \in {m.image, NoEntry}
  BY <1>1, <1>3, AfterFailEffect
<1>5. /\ used' \in [receipts : 0 .. MaxReceipts, crashes : Nat, torn : Nat, stalls : Nat]
      /\ {acked', silent', notified'} \subseteq BOOLEAN
  <2>1. notified' \in BOOLEAN
    BY <1>1, <1>3, AfterFailEffect
  <2> QED
    BY <1>2, <1>3, <2>1 DEF TypeOK
<1>6. Truthful(x)' /\ (NobodyStalled => Placed(x) /\ Placed(x)')
  BY <1>2, <1>3, <1>4 DEF Truthful, Placed, Marking, Told, WasSent, Generated
<1>7. CASE row' = row
  BY <1>1, <1>3, <1>4, <1>5, <1>6, <1>7, LocalStep
<1>8. CASE Owns(m) /\ ~row.done /\ row' = NoClaim
  BY <1>1, <1>3, <1>4, <1>5, <1>6, <1>8, RowStep
<1> QED
  BY <1>3, <1>7, <1>8
--------------------------------------------------------------------------------
(* Processes that start, recover and claim. *)

\* Start: a worker at rest, or a recovery of the entry on file.
LEMMA StartStep == ASSUME IInv, NEW w \in Workers, Start(w), UNCHANGED <<channel, used>> PROVE IInv'
<1>1. PICK m : m = worker[w]
  OBVIOUS
<1>2. /\ TypeOK /\ m \in Worker /\ StoresTrue
      /\ NobodyStalled => StoresMatch
  BY <1>1 DEF IInv, TypeOK
<1>3. PICK pid \in FreePids :
        worker' = [worker EXCEPT ![w] =
          IF spool = NoEntry \/ spool.state = "unknown-after-send" THEN Resting(pid)
          ELSE [Resting(pid) EXCEPT !.pc = "recover", !.recovering = TRUE, !.image = spool]]
  BY DEF Start
<1>4. pid \in Pids /\ pid # 0 /\ UNCHANGED <<channel, stores, spool, outside, used>>
  BY PipelineAssumption DEF FreePids, Start
<1>5. CASE spool = NoEntry \/ spool.state = "unknown-after-send"
  <2>1. PICK x : x = Resting(pid)
    OBVIOUS
  <2>2. worker' = [worker EXCEPT ![w] = x]
    BY <1>3, <1>5, <2>1
  <2> QED
    BY <1>1, <1>4, <2>1, <2>2, RestingIsInOrder, StillStep
<1>6. CASE ~(spool = NoEntry \/ spool.state = "unknown-after-send")
  <2>1. PICK x : x = [Resting(pid) EXCEPT !.pc = "recover", !.recovering = TRUE, !.image = spool]
    OBVIOUS
  <2>2. worker' = [worker EXCEPT ![w] = x]
    BY <1>3, <1>6, <2>1
  <2>3. spool # NoEntry /\ spool \in Entry /\ spool.state \in SpoolState
    BY <1>2, <1>6 DEF TypeOK, Entry
  <2>4. /\ x.pc = "recover" /\ x.recovering /\ x.image = spool /\ x.path = "intake" /\ x.token = 0
        /\ x.pid = pid /\ ~x.attempted /\ ~x.delivered /\ x.part = 1
    BY <2>1 DEF Resting
  <2>5. x \in Worker
    <3>1. Resting(pid) \in Worker
      BY <1>4, RestingIsInOrder
    <3> QED
      BY <2>1, <2>3, <3>1 DEF Worker
  <2>6. 1 \in Parts
    BY PipelineAssumption DEF Parts
  <2>7. Shape(x) /\ TokensFollow(m, x) /\ ~Open(x) /\ ~Driver(x)
    BY <1>4, <2>3, <2>4, <2>6 DEF Shape, TokensFollow, Open, Marking, Driver, Intake
  <2>8. Truthful(x)
    BY <1>2, <2>3, <2>4 DEF Truthful, Marking, StoresTrue, SpoolIn
  <2>9. NobodyStalled => Placed(x)
    BY <1>2, <1>6, <2>3, <2>4, <2>7
       DEF Placed, Marking, StoresMatch, SpoolIn, UnderWay, Generated, PostGeneration
  <2>10. Unsent(x)
    BY <2>4 DEF Unsent, Marking
  <2> QED
    BY <1>1, <1>4, <2>2, <2>4, <2>5, <2>7, <2>8, <2>9, <2>10, StillStep
<1> QED
  BY <1>5, <1>6

\* A task takes the claim nobody holds under a generation of its own.
LEMMA ClaimStep ==
    ASSUME IInv, NEW w \in Workers, NEW m, m = worker[w], NEW pc, NEW x, row = NoClaim,
           row' = [token |-> FreshToken, done |-> FALSE],
           worker' = [worker EXCEPT ![w] = x], x = [m EXCEPT !.token = FreshToken, !.pc = pc],
           \/ pc = "reassign" /\ m.pc \in {"recover", "reclaim"}
           \/ pc = "find" /\ m.pc = "idle"
           \/ pc = "begin" /\ m.pc = "idle" /\ channel # "webhook",
           UNCHANGED <<channel, lifecycle, slotPending, spool, sent, silent>>,
           {acked', notified'} \subseteq BOOLEAN, used'.torn = used.torn, used'.stalls = used.stalls,
           used' \in [receipts : 0 .. MaxReceipts, crashes : Nat, torn : Nat, stalls : Nat]
    PROVE  IInv'
<1>1. /\ m \in Worker /\ Shape(m) /\ Truthful(m)
      /\ NobodyStalled => Placed(m)
  BY DEF IInv, TypeOK
<1>2. FreshToken \in Nat
  BY FreshTokenIsFresh DEF IInv
<1>3. /\ x.token = FreshToken /\ x.pc = pc /\ x.path = m.path /\ x.recovering = m.recovering
      /\ x.image = m.image /\ x.attempted = m.attempted /\ x.delivered = m.delivered
      /\ x.part = m.part /\ x.pid = m.pid
  BY <1>1 DEF Worker
<1>4. x \in Worker
  BY <1>1, <1>2 DEF Worker
<1>5. Shape(x)
  BY <1>1, <1>3 DEF Shape, Marking
<1>6. TokensFollow(m, x) /\ x.pc # "recover" /\ ~Open(x) /\ Intake(x)
  BY <1>3 DEF TokensFollow, Open, Marking, Intake
<1>7. Truthful(x)'
  BY <1>1, <1>3 DEF Truthful, Marking, Told, WasSent
<1>8. row' # NoClaim /\ row'.token = FreshToken /\ ~row'.done
  <2>1. PICK r : r = [token |-> FreshToken, done |-> FALSE]
    OBVIOUS
  <2>2. r \in [token : Nat, done : BOOLEAN] /\ r.token = FreshToken /\ ~r.done
    BY <1>2, <2>1
  <2>3. r # NoClaim
    BY <2>2, AbsenceAssumption
  <2> QED
    BY <2>1, <2>2, <2>3
<1>9. NobodyStalled => Placed(x)'
  BY <1>1, <1>3, <1>6, <1>8 DEF Placed, Owns, Marking, Generated
<1>10. Unsent(x)'
  BY <1>3 DEF Unsent, Marking
<1> QED
  BY <1>4, <1>5, <1>6, <1>7, <1>9, <1>10, RowStep

LEMMA ReceiveStep == ASSUME IInv, NEW w \in Workers, Receive(w) PROVE IInv'
<1>1. PICK m : m = worker[w]
  OBVIOUS
<1>2. /\ TypeOK /\ m \in Worker /\ Shape(m) /\ Truthful(m)
      /\ NobodyStalled => Placed(m)
      /\ OneMessage => Unsent(m)
  BY <1>1 DEF IInv, TypeOK
<1>3. /\ m.pc = "idle" /\ used.receipts < MaxReceipts /\ used' = [used EXCEPT !.receipts = used.receipts + 1]
      /\ UNCHANGED <<channel, lifecycle, slotPending, spool, sent, silent, notified>>
  BY <1>1 DEF Receive
<1>4. /\ used' \in [receipts : 0 .. MaxReceipts, crashes : Nat, torn : Nat, stalls : Nat]
      /\ used'.torn = used.torn /\ used'.stalls = used.stalls
  BY <1>2, <1>3, PipelineAssumption DEF TypeOK
<1>5. CASE row = NoClaim
  <2>1. PICK pc : pc = IF channel = "webhook" THEN "find" ELSE "begin"
    OBVIOUS
  <2>2. PICK x : x = [m EXCEPT !.token = FreshToken, !.pc = pc]
    OBVIOUS
  <2>3. /\ row' = [token |-> FreshToken, done |-> FALSE] /\ worker' = [worker EXCEPT ![w] = x]
        /\ acked' = acked
    BY <1>1, <1>5, <2>1, <2>2 DEF Receive
  <2>4. {acked', notified'} \subseteq BOOLEAN
    BY <1>2, <1>3, <2>3 DEF TypeOK
  <2> QED
    BY <1>1, <1>3, <1>4, <1>5, <2>1, <2>2, <2>3, <2>4, ClaimStep
<1>6. CASE row # NoClaim
  <2>1. acked' = TRUE /\ row' = row /\ worker' = worker
    BY <1>6 DEF Receive
  <2>2. worker' = [worker EXCEPT ![w] = m]
    BY <1>1, <1>2, <2>1 DEF TypeOK
  <2>3. {acked', silent', notified'} \subseteq BOOLEAN
    BY <1>2, <1>3, <2>1 DEF TypeOK
  <2>4. TokensFollow(m, m)
    BY DEF TokensFollow
  <2>5. Truthful(m)'
    BY <1>2, <1>3 DEF Truthful, Marking, Told, WasSent
  <2> QED
    BY <1>1, <1>2, <1>3, <1>4, <2>1, <2>2, <2>3, <2>4, <2>5, LocalStep
<1> QED
  BY <1>5, <1>6

LEMMA ReclaimStep == ASSUME IInv, NEW w \in Workers, Reclaim(w), UNCHANGED <<channel, used>> PROVE IInv'
<1>1. PICK m : m = worker[w]
  OBVIOUS
<1>2. TypeOK /\ m.pid \in Pids \cup {0}
  BY <1>1 DEF IInv, TypeOK, Worker
<1>3. m.pc = "reclaim" /\ UNCHANGED <<channel, used, lifecycle, slotPending, spool, acked, sent, silent, notified>>
  BY <1>1 DEF Reclaim, outside
<1>4. CASE row = NoClaim
  <2>1. PICK x : x = [m EXCEPT !.token = FreshToken, !.pc = "reassign"]
    OBVIOUS
  <2>2. row' = [token |-> FreshToken, done |-> FALSE] /\ worker' = [worker EXCEPT ![w] = x]
    BY <1>1, <1>4, <2>1 DEF Reclaim
  <2>3. /\ {acked', notified'} \subseteq BOOLEAN
        /\ used' \in [receipts : 0 .. MaxReceipts, crashes : Nat, torn : Nat, stalls : Nat]
    BY <1>2, <1>3 DEF TypeOK
  <2> QED
    BY <1>1, <1>3, <1>4, <2>1, <2>2, <2>3, ClaimStep
<1>5. CASE row # NoClaim
  <2>1. PICK x : x = Resting(m.pid)
    OBVIOUS
  <2>2. worker' = [worker EXCEPT ![w] = x] /\ UNCHANGED <<channel, stores, spool, outside, used>>
    BY <1>1, <1>3, <1>5, <2>1 DEF Reclaim, stores, outside
  <2> QED
    BY <1>1, <1>2, <2>1, <2>2, RestingIsInOrder, StillStep
<1> QED
  BY <1>4, <1>5

LEMMA RecoverStep == ASSUME IInv, NEW w \in Workers, Recover(w), UNCHANGED <<channel, used>> PROVE IInv'
<1>1. PICK m : m = worker[w]
  OBVIOUS
<1>2. /\ TypeOK /\ m \in Worker /\ Shape(m) /\ Truthful(m) /\ m.pid \in Pids \cup {0}
      /\ NobodyStalled => Placed(m)
  BY <1>1 DEF IInv, TypeOK, Worker
<1>3. m.pc = "recover" /\ UNCHANGED <<channel, used, lifecycle, slotPending, spool, acked, sent, silent, notified>>
  BY <1>1 DEF Recover, outside
<1>4. /\ m.image # NoEntry /\ m.image \in Entry /\ m.image.token \in Nat /\ m.image.state \in SpoolState
      /\ m.path = "intake" /\ m.recovering /\ ~m.attempted /\ ~m.delivered /\ m.part = 1 /\ m.pid # 0
  BY <1>2, <1>3 DEF Shape, Worker, Entry
<1>5. CASE row = NoClaim
  <2>1. PICK x : x = [m EXCEPT !.token = FreshToken, !.pc = "reassign"]
    OBVIOUS
  <2>2. row' = [token |-> FreshToken, done |-> FALSE] /\ worker' = [worker EXCEPT ![w] = x]
    BY <1>1, <1>5, <2>1 DEF Recover
  <2>3. /\ {acked', notified'} \subseteq BOOLEAN
        /\ used' \in [receipts : 0 .. MaxReceipts, crashes : Nat, torn : Nat, stalls : Nat]
    BY <1>2, <1>3 DEF TypeOK
  <2> QED
    BY <1>1, <1>3, <1>5, <2>1, <2>2, <2>3, ClaimStep
<1>6. ASSUME row # NoClaim PROVE UNCHANGED <<channel, stores, spool, outside, used>>
  BY <1>3, <1>6 DEF Recover, stores, outside
<1>7. CASE row # NoClaim /\ worker' = [worker EXCEPT ![w] = Resting(m.pid)]
  <2>1. PICK x : x = Resting(m.pid)
    OBVIOUS
  <2> QED
    BY <1>1, <1>2, <1>6, <1>7, <2>1, RestingIsInOrder, StillStep
<1>8. CASE row # NoClaim /\ row.done /\ Goto(w, "remove")
  <2>1. PICK x : x = [m EXCEPT !.pc = "remove"]
    OBVIOUS
  <2>2. worker' = [worker EXCEPT ![w] = x]
    BY <1>1, <1>8, <2>1 DEF Goto
  <2>3. x \in Worker /\ Keeps(m, x) /\ x.pc = "remove" /\ x.path = m.path /\ x.image = m.image
    BY <1>2, <2>1 DEF Worker, Keeps
  <2>4. TokensFollow(m, x) /\ ~Open(x) /\ Shape(x) /\ ~Driver(x) /\ Unsent(x)
    BY <1>2, <1>4, <2>3 DEF Keeps, TokensFollow, Open, Marking, Shape, Driver, Intake, Unsent
  <2>5. Truthful(x) /\ (NobodyStalled => Placed(x))
    BY <1>2, <1>8, <2>3, <2>4 DEF Truthful, Placed, Marking, Done
  <2> QED
    BY <1>1, <1>6, <1>8, <2>2, <2>3, <2>4, <2>5, StillStep
<1>9. CASE /\ row # NoClaim /\ OwnerIsDead(w) /\ m.image.state \in {"platform-delivered", "send-attempted"}
           /\ Resume(w, m.image.state, m.image.token)
  <2>1. PICK x \in Worker :
          /\ worker' = [worker EXCEPT ![w] = x]
          /\ x.token = m.image.token /\ x.image = m.image /\ x.pid = m.pid /\ x.part = m.part
          /\ x.attempted = m.attempted /\ x.delivered = m.delivered
          /\ ResumesAt(m, x, m.image.state)
    BY <1>1, <1>2, <1>4, <1>9, ResumeEffect
  <2>2. /\ x.path = "resume"
        /\ \/ x.pc = "finish" /\ m.image.state = "platform-delivered"
           \/ x.pc = "read" /\ x.mark = "unknownAfterSend" /\ m.image.state = "send-attempted"
    BY <1>9, <2>1 DEF ResumesAt
  <2>3. ~Driver(x) /\ ~Open(x) /\ ~Intake(x) /\ x.pc # "recover" /\ Shape(x) /\ Unsent(x)
    BY <1>2, <1>4, <2>1, <2>2 DEF Driver, Open, Intake, Marking, Shape, Unsent
  <2>4. TokensFollow(m, x)
    BY <1>1, <1>4, <1>9, <2>1, <2>3 DEF TokensFollow, OwnerIsDead
  <2>5. Truthful(x)
    BY <1>2, <1>4, <2>1, <2>2 DEF Truthful, Marking
  <2>6. NobodyStalled => Placed(x)
    BY <1>2, <1>3, <1>4, <1>9, <2>1, <2>2, <2>3 DEF Placed, Marking, Owns, SpoolIn
  <2> QED
    BY <1>1, <1>6, <1>9, <2>1, <2>3, <2>4, <2>5, <2>6, StillStep
<1>10. CASE /\ row # NoClaim /\ OwnerIsDead(w)
            /\ worker' = [worker EXCEPT ![w].token = m.image.token, ![w].pc = "fail"]
  <2>1. PICK x : x = [m EXCEPT !.token = m.image.token, !.pc = "fail"]
    OBVIOUS
  <2>2. worker' = [worker EXCEPT ![w] = x]
    BY <1>1, <1>10, <2>1
  <2>3. /\ x.pc = "fail" /\ x.path = m.path /\ x.recovering = m.recovering /\ x.token = m.image.token
        /\ x.image = m.image /\ x.attempted = m.attempted /\ x.delivered = m.delivered
        /\ x.part = m.part /\ x.pid = m.pid
    BY <1>2, <2>1 DEF Worker
  <2>4. x \in Worker
    BY <1>2, <1>4, <2>1 DEF Worker
  <2>5. ~Driver(x) /\ ~Open(x) /\ Shape(x) /\ Unsent(x)
    BY <1>2, <1>4, <2>3 DEF Driver, Open, Intake, Marking, Shape, Unsent
  <2>6. TokensFollow(m, x)
    BY <1>1, <1>4, <1>10, <2>3, <2>5 DEF TokensFollow, OwnerIsDead, Intake
  <2>7. Truthful(x) /\ (NobodyStalled => Placed(x))
    BY <1>2, <2>3, <2>5 DEF Truthful, Placed, Marking
  <2> QED
    BY <1>1, <1>6, <1>10, <2>2, <2>3, <2>4, <2>5, <2>6, <2>7, StillStep
<1>11. row # NoClaim => row.done \in BOOLEAN
  BY <1>2 DEF TypeOK
<1>12. CASE row # NoClaim
  <2>1. CASE row.done
    BY <1>1, <1>7, <1>8, <1>12, <2>1 DEF Recover
  <2>2. CASE ~row.done /\ ~OwnerIsDead(w)
    BY <1>1, <1>7, <1>12, <2>2 DEF Recover
  <2>3. CASE ~row.done /\ OwnerIsDead(w)
    BY <1>1, <1>9, <1>10, <1>12, <2>3 DEF Recover
  <2> QED
    BY <1>11, <1>12, <2>1, <2>2, <2>3
<1> QED
  BY <1>5, <1>12
--------------------------------------------------------------------------------
(* Crashes and leases. *)

LEMMA CrashStep == ASSUME IInv, NEW w \in Workers, Crash(w) PROVE IInv'
<1>1. PICK m, x : m = worker[w] /\ x = Resting(0)
  OBVIOUS
<1>2. TypeOK /\ StoresTrue
  BY DEF IInv
<1>3. /\ worker' = [worker EXCEPT ![w] = x]
      /\ UNCHANGED <<channel, row, lifecycle, spool, acked, sent, silent, notified>>
  BY <1>1 DEF Crash, outside
<1>4. {acked', silent', notified'} \subseteq BOOLEAN
  BY <1>2, <1>3 DEF TypeOK
<1>5. CASE UNCHANGED slotPending /\ used' = [used EXCEPT !.crashes = used.crashes + 1]
  <2>1. /\ used' \in [receipts : 0 .. MaxReceipts, crashes : Nat, torn : Nat, stalls : Nat]
        /\ used'.torn = used.torn /\ used'.stalls = used.stalls
    BY <1>2, <1>5 DEF TypeOK
  <2> QED
    BY <1>1, <1>3, <1>4, <1>5, <2>1, RestingIsInOrder, LocalStep
<1>6. CASE /\ Steps(w, Target(w)) /\ slotPending' = TRUE
           /\ used' = [used EXCEPT !.crashes = used.crashes + 1, !.torn = used.torn + 1]
  <2>1. lifecycle.state \notin Terminal
    BY <1>6 DEF Steps, MayTransition, IsLegalTransition, Terminal
  <2>2. /\ used' \in [receipts : 0 .. MaxReceipts, crashes : Nat, torn : Nat, stalls : Nat]
        /\ used'.torn = used.torn + 1 /\ used'.stalls = used.stalls /\ used.torn \in Nat
    <3>1. /\ used \in [receipts : 0 .. MaxReceipts, crashes : Nat, torn : Nat, stalls : Nat]
          /\ used.crashes + 1 \in Nat /\ used.torn + 1 \in Nat
      BY <1>2 DEF TypeOK
    <3> QED
      BY <1>6, <3>1
  <2>3. used'.torn > 0 /\ used'.torn # 0
    BY <2>2
  <2>4. TypeOK'
    BY <1>1, <1>2, <1>3, <1>6, <2>2, RestingIsInOrder DEF TypeOK
  <2>5. (Told => Told') /\ (Done <=> Done')
    BY <1>3 DEF Told, WasSent, Done
  <2>6. Footprint(m, x)
    BY <1>1, <1>3, <2>2, <2>3, <2>5, RestingIsInOrder DEF Footprint, Generated
  <2>7. StoresTrue' /\ (NobodyStalled => StoresMatch') /\ (OneMessage => SentOnce')
    BY <1>3, <1>6, <2>1, <2>2, <2>3, <2>5, StoresKeepMatching
  <2> QED
    BY <1>1, <1>3, <2>4, <2>6, <2>7, RestingIsInOrder, StepKeepsInv
<1> QED
  BY <1>5, <1>6 DEF Crash

\* A step that moves no worker: nobody else's slot, and a claim only when it is
\* nobody's, or when the budget records the stall.
LEMMA UnattendedStep ==
    ASSUME IInv, UNCHANGED <<channel, lifecycle, spool, sent, silent, worker>>,
           {acked', notified'} \subseteq BOOLEAN, slotPending' \in BOOLEAN, slotPending' => slotPending,
           used' \in [receipts : 0 .. MaxReceipts, crashes : Nat, torn : Nat, stalls : Nat],
           used'.torn = used.torn, NobodyStalled' => NobodyStalled,
           \/ row' = row
           \/ /\ row # NoClaim /\ ~row.done /\ row' = NoClaim
              /\ NobodyStalled' => \A w \in Workers : AtWork(w) => ~OwnsClaim(w)
    PROVE  IInv'
<1>1. TypeOK /\ StoresTrue
  BY DEF IInv
<1>2. (Done <=> Done') /\ (Told <=> Told')
  BY DEF Done, Told, WasSent
<1>3. TypeOK'
  BY <1>1 DEF TypeOK
<1>4. StoresTrue'
  BY <1>1, <1>2 DEF StoresTrue, SpoolIn
<1>5. ImagesHadFile'
  BY <1>2 DEF IInv, ImagesHadFile
<1>6. ASSUME NEW w \in Workers
      PROVE  Shape(worker[w])' /\ Truthful(worker[w])' /\ OwnToken(worker[w])'
  <2>1. PICK m : m = worker[w]
    OBVIOUS
  <2>2. Shape(m) /\ Truthful(m) /\ OwnToken(m) /\ worker'[w] = m
    BY <2>1 DEF IInv
  <2>3. Truthful(m)' /\ OwnToken(m)'
    BY <1>2, <2>2 DEF Truthful, OwnToken, Marking
  <2> QED
    BY <2>2, <2>3 DEF Truthful, OwnToken
<1>7. \A w, v \in Workers : w # v => Apart(worker[w], worker[v])'
  BY DEF IInv, Apart
<1>8. ASSUME NobodyStalled' PROVE StoresMatch'
  BY <1>2, <1>8 DEF IInv, StoresMatch, SpoolIn, UnderWay, Generated, SendsAreOnRecord
<1>9. ASSUME NobodyStalled', NEW w \in Workers PROVE Placed(worker[w])'
  <2>1. PICK m : m = worker[w]
    OBVIOUS
  <2>2. Placed(m) /\ worker'[w] = m
    BY <1>9, <2>1 DEF IInv
  <2>3. SendsAreOnRecord <=> SendsAreOnRecord'
    BY DEF SendsAreOnRecord
  <2>4. CASE row' = row
    <3>1. Placed(m)'
      BY <2>2, <2>3, <2>4 DEF Placed, Owns, SpoolIn, UnderWay, Generated
    <3> QED
      BY <2>2, <3>1 DEF Placed
  <2>5. CASE row # NoClaim /\ ~row.done /\ row' = NoClaim /\ \A v \in Workers : AtWork(v) => ~OwnsClaim(v)
    <3>1. ~Driver(m)
      <4>1. Driver(m) => m.pc \notin {"down", "idle"}
        BY DEF Driver, Intake
      <4>2. m.pc \notin {"down", "idle"} => ~Owns(m)
        BY <2>1, <2>5 DEF AtWork, OwnsClaim, Owns
      <4> QED
        BY <2>2, <4>1, <4>2 DEF Placed
    <3>2. Placed(m)'
      BY <2>2, <2>3, <2>5, <3>1 DEF Placed, Owns, SpoolIn, UnderWay, Generated
    <3> QED
      BY <2>2, <3>2 DEF Placed
  <2> QED
    BY <1>9, <2>4, <2>5
<1>10. NobodyStalled' => \A w, v \in Workers : w # v => Unaware(worker[w], worker[v])'
  BY DEF IInv, Unaware
<1>11. ASSUME OneMessage' PROVE SentOnce' /\ \A w \in Workers : Unsent(worker[w])'
  <2>1. OneMessage
    BY <1>11 DEF OneMessage, SendsAreOnRecord
  <2>2. SentOnce'
    BY <1>2, <2>1 DEF IInv, SentOnce, SpoolIn
  <2>3. \A w \in Workers : Unsent(worker[w])'
    BY <2>1 DEF IInv, Unsent
  <2> QED
    BY <2>2, <2>3
<1> QED
  BY <1>3, <1>4, <1>5, <1>6, <1>7, <1>8, <1>9, <1>10, <1>11 DEF IInv

LEMMA LeaseLapsesStep == ASSUME IInv, LeaseLapses PROVE IInv'
<1>1. TypeOK
  BY DEF IInv
<1>2. /\ row # NoClaim /\ ~row.done /\ row' = NoClaim /\ slotPending' = FALSE
      /\ UNCHANGED <<channel, lifecycle, spool, acked, sent, silent, notified, worker>>
  BY DEF LeaseLapses, outside
<1>3. {acked', notified'} \subseteq BOOLEAN
  BY <1>1, <1>2 DEF TypeOK
<1>4. CASE used' = [used EXCEPT !.stalls = used.stalls + 1]
  <2>1. /\ used' \in [receipts : 0 .. MaxReceipts, crashes : Nat, torn : Nat, stalls : Nat]
        /\ used'.torn = used.torn /\ used'.stalls # 0
    BY <1>1, <1>4 DEF TypeOK
  <2> QED
    BY <1>2, <1>3, <2>1, UnattendedStep DEF NobodyStalled
<1>5. CASE (\A w \in Workers : AtWork(w) => ~OwnsClaim(w)) /\ UNCHANGED used
  <2>1. used' \in [receipts : 0 .. MaxReceipts, crashes : Nat, torn : Nat, stalls : Nat]
    BY <1>1, <1>5 DEF TypeOK
  <2> QED
    BY <1>2, <1>3, <1>5, <2>1, UnattendedStep DEF NobodyStalled
<1> QED
  BY <1>4, <1>5 DEF LeaseLapses
--------------------------------------------------------------------------------
(* The invariant. *)

LEMMA InitOK == Init => IInv
<1>1. SUFFICES ASSUME Init PROVE IInv
  OBVIOUS
<1>2. PICK x : x = Resting(0)
  OBVIOUS
<1>3. /\ x \in Worker /\ x.image = NoEntry /\ ~Driver(x) /\ ~Open(x) /\ Shape(x) /\ Truthful(x)
      /\ Placed(x) /\ Unsent(x)
  BY <1>2, RestingIsInOrder
<1>4. \A w \in Workers : worker[w] = x
  BY <1>1, <1>2 DEF Init
<1>5. /\ lifecycle \in Lifecycle /\ lifecycle.state = "accepted" /\ lifecycle.lastOperationalState = "accepted"
  BY <1>1 DEF Init, InitialLifecycle, Lifecycle, DeliveryState, OperationalState
<1>6. TypeOK
  <2>1. worker \in [Workers -> Worker]
    BY <1>1, <1>2, <1>3 DEF Init
  <2>2. used \in [receipts : 0 .. MaxReceipts, crashes : Nat, torn : Nat, stalls : Nat]
    BY <1>1, PipelineAssumption DEF Init
  <2>3. sent \in [Parts -> Nat]
    BY <1>1 DEF Init
  <2> QED
    BY <1>1, <1>5, <2>1, <2>2, <2>3 DEF Init, TypeOK
<1>7. StoresTrue
  BY <1>1, <1>5 DEF Init, StoresTrue, SpoolIn, Done, Terminal
<1>8. ~Generated
  BY <1>5 DEF Generated, PostGeneration
<1>9. StoresMatch /\ SentOnce
  BY <1>1, <1>8 DEF Init, StoresMatch, SentOnce, SpoolIn
<1>10. ImagesHadFile
  BY <1>3, <1>4 DEF ImagesHadFile
<1>11. \A w \in Workers :
         Shape(worker[w]) /\ Truthful(worker[w]) /\ OwnToken(worker[w]) /\ Placed(worker[w]) /\ Unsent(worker[w])
  BY <1>3, <1>4 DEF OwnToken
<1>12. \A w, v \in Workers : Apart(worker[w], worker[v]) /\ Unaware(worker[w], worker[v])
  BY <1>3, <1>4 DEF Apart, Unaware
<1> QED
  BY <1>6, <1>7, <1>9, <1>10, <1>11, <1>12 DEF IInv

LEMMA InvIsInductive == IInv /\ [Next]_vars => IInv'
<1> SUFFICES ASSUME IInv, [Next]_vars PROVE IInv'
  OBVIOUS
<1>1. CASE LeaseLapses
  BY <1>1, LeaseLapsesStep
<1>2. CASE SlotLapses \/ UNCHANGED vars
  <2>1. /\ UNCHANGED <<channel, row, lifecycle, spool, acked, sent, silent, notified, worker, used>>
        /\ slotPending' \in BOOLEAN /\ (slotPending' => slotPending)
    <3>1. CASE SlotLapses
      BY <3>1 DEF SlotLapses, outside
    <3>2. CASE UNCHANGED vars
      <4>1. slotPending \in BOOLEAN
        BY DEF IInv, TypeOK
      <4> QED
        BY <3>2, <4>1 DEF vars
    <3> QED
      BY <1>2, <3>1, <3>2
  <2>2. /\ used' \in [receipts : 0 .. MaxReceipts, crashes : Nat, torn : Nat, stalls : Nat]
        /\ {acked', notified'} \subseteq BOOLEAN
    BY <2>1 DEF IInv, TypeOK
  <2> QED
    BY <2>1, <2>2, UnattendedStep DEF NobodyStalled
<1>3. ASSUME NEW w \in Workers, Receive(w) PROVE IInv'
  BY <1>3, ReceiveStep
<1>4. ASSUME NEW w \in Workers, Crash(w) PROVE IInv'
  BY <1>4, CrashStep
<1>5. ASSUME NEW w \in Workers, Task(w) PROVE IInv'
  <2>1. UNCHANGED <<channel, used>>
    BY <1>5 DEF Task
  <2>2. CASE Find(w) \/ Reassign(w) \/ WriteReassign(w) \/ Begin(w) \/ Put(w) \/ Run(w)
    BY <2>1, <2>2, FindStep, ReassignStep, WriteReassignStep, BeginStep, PutStep, RunStep
  <2>3. CASE ReadSpool(w) \/ WriteSpool(w) \/ AdvanceToGenerated(w) \/ AdvanceToDelivering(w) \/ StartDelivering(w)
    BY <2>1, <2>3, ReadSpoolStep, WriteSpoolStep, AdvanceToGeneratedStep, AdvanceToDeliveringStep, StartDeliveringStep
  <2>4. CASE SendPart(w) \/ SetDelivered(w) \/ CompleteAdapterIngress(w) \/ RemoveEntry(w)
    BY <2>1, <2>4, SendPartStep, SetDeliveredStep, CompleteAdapterIngressStep, RemoveEntryStep
  <2>5. CASE Fail(w) \/ Release(w) \/ Start(w) \/ Recover(w) \/ Reclaim(w)
    BY <2>1, <2>5, FailStep, ReleaseStep, StartStep, RecoverStep, ReclaimStep
  <2> QED
    BY <1>5, <2>2, <2>3, <2>4, <2>5 DEF Task
<1> QED
  BY <1>1, <1>2, <1>3, <1>4, <1>5 DEF Next
\* Claim, lifecycle, spool and every task's place in its try blocks stay together
\* through all interleavings of calls, crashes, recoveries and redeliveries.
THEOREM PipelineInvariance == Spec => []IInv
<1>1. Init => IInv
  BY InitOK
<1>2. IInv /\ [Next]_vars => IInv'
  BY InvIsInductive
<1> QED
  BY <1>1, <1>2, PTL DEF Spec

\* Every variable keeps the type the code gives it.
THEOREM PipelineTypeCorrect == Spec => []TypeOK
<1>1. IInv => TypeOK
  BY DEF IInv
<1> QED
  BY <1>1, PipelineInvariance, PTL

\* What the claim, the lifecycle and the spool record of a delivery is true of
\* the platform at all times, and of each other as long as no task is held up past
\* its lease (completeAdapterIngress and the mark functions of ingress-spool.ts).
THEOREM RecordsAreKeptTrue == Spec => []RecordsAreTrue
<1>1. IInv => RecordsAreTrue
  <2>1. SUFFICES ASSUME IInv PROVE RecordsAreTrue
    OBVIOUS
  <2>2. StoresTrue /\ (NobodyStalled => StoresMatch)
    BY <2>1 DEF IInv
  <2>3. DeliveredIsTrue
    BY <2>2 DEF DeliveredIsTrue, StoresTrue, Told, Done
  <2>4. StoresAgree
    BY <2>2 DEF StoresAgree, StoresTrue, StoresMatch, SpoolIn, Told, UnderWay
  <2> QED
    BY <2>3, <2>4 DEF RecordsAreTrue
<1> QED
  BY <1>1, PipelineInvariance, PTL

\* A reply that is one message, as every reply but a WhatsApp batch is, reaches the
\* user at most once, however many crashes, restarts, recoveries and redeliveries
\* there are (deliverPreparedAdapter and the catch blocks around its sends).
THEOREM RepliesAreSentOnce ==
    ASSUME PartCount = 1
    PROVE  Spec => []NoPartSentTwice
<1>1. IInv => NoPartSentTwice
  BY DEF IInv, NoPartSentTwice, OneMessage, SentOnce
<1> QED
  BY <1>1, PipelineInvariance, PTL
--------------------------------------------------------------------------------
(* The evidence of a send. *)

\* Only put and reassignOwnership write an entry in the accepted state.
LEMMA WhoWritesAccepted ==
    ASSUME IInv, Next, spool' # NoEntry, spool'.state = "accepted", spool' # spool
    PROVE  \E w \in Workers :
             \/ worker[w].pc = "put"
             \/ worker[w].pc = "writeReassign" /\ spool' = worker[w].image
<1>1. PICK w \in Workers : Task(w)
  BY DEF Next, LeaseLapses, SlotLapses, Receive, Crash
<1>2. ~WriteSpool(w)
  <2>1. SUFFICES ASSUME WriteSpool(w) PROVE FALSE
    OBVIOUS
  <2>2. worker[w].pc = "write" /\ spool' = worker[w].image
    BY <2>1 DEF WriteSpool
  <2>3. Shape(worker[w])
    BY DEF IInv
  <2>4. spool'.state = MarkTo(worker[w].mark) /\ worker[w].mark \in Mark
    BY <2>2, <2>3 DEF Shape, IInv, TypeOK, Worker
  <2> QED
    BY <2>4 DEF MarkTo, Mark
<1>3. ~(Find(w) \/ Reassign(w) \/ Begin(w) \/ Run(w) \/ ReadSpool(w) \/ RemoveEntry(w))
  BY DEF Find, Reassign, Begin, Run, ReadSpool, RemoveEntry, Throw
<1>4. ~(AdvanceToGenerated(w) \/ AdvanceToDelivering(w) \/ StartDelivering(w) \/ SendPart(w))
  BY DEF AdvanceToGenerated, AdvanceToDelivering, StartDelivering, SendPart, Throw
<1>5. ~(SetDelivered(w) \/ CompleteAdapterIngress(w) \/ Fail(w) \/ Release(w))
  BY DEF SetDelivered, CompleteAdapterIngress, Fail, Release, Throw
<1>6. ~(Start(w) \/ Recover(w) \/ Reclaim(w))
  BY DEF Start, Recover, Reclaim
<1>7. Put(w) \/ WriteReassign(w)
  BY <1>1, <1>2, <1>3, <1>4, <1>5, <1>6 DEF Task
<1> QED
  BY <1>7 DEF Put, WriteReassign

\* A fresh entry never takes the place of one that says a reply was under way, nor,
\* on the webhook route, of a checkpointed reply (put, find, reassignOwnership).
THEOREM EvidenceIsKept == Spec => EvidenceKept
<1> DEFINE Kept ==
      (/\ NobodyStalled
       /\ spool # NoEntry /\ spool' # NoEntry /\ spool.state # "accepted"
       /\ \/ channel = "webhook"
          \/ SendsAreOnRecord /\ spool.state # "execution-completed" /\ ~silent)
      => spool'.state # "accepted"
<1>1. IInv /\ [Next]_vars => [Kept]_vars
  <2>1. SUFFICES ASSUME IInv, Next, NobodyStalled, spool # NoEntry, spool' # NoEntry,
                        spool.state # "accepted", spool'.state = "accepted",
                        \/ channel = "webhook"
                        \/ SendsAreOnRecord /\ spool.state # "execution-completed" /\ ~silent
                 PROVE  FALSE
    BY DEF vars
  <2>2. PICK w \in Workers :
          \/ worker[w].pc = "put"
          \/ worker[w].pc = "writeReassign" /\ spool' = worker[w].image
    BY <2>1, WhoWritesAccepted
  <2>3. StoresMatch /\ Placed(worker[w]) /\ SendsAreOnRecord /\ spool.state \in SpoolState
    BY <2>1 DEF IInv, SendsAreOnRecord, TypeOK, Entry
  <2>4. CASE worker[w].pc = "writeReassign" /\ spool' = worker[w].image
    <3>1. SpoolIn({"unknown-after-send"}) /\ ~Generated
      BY <2>1, <2>3, <2>4 DEF Placed, SpoolIn
    <3> QED
      BY <2>3, <3>1 DEF StoresMatch
  <2>5. CASE worker[w].pc = "put"
    <3>1. ~Generated /\ channel # "webhook"
      BY <2>1, <2>3, <2>5 DEF Placed
    <3>2. SpoolIn({"platform-delivered"}) /\ ~silent
      BY <2>1, <2>3, <3>1 DEF StoresMatch, SpoolIn, SpoolState, UnderWay, Generated, PostGeneration
    <3>3. WasSent
      BY <2>1, <3>2 DEF IInv, StoresTrue, Told
    <3>4. 1 \in Parts
      BY PipelineAssumption DEF Parts
    <3> QED
      BY <2>3, <3>1, <3>3, <3>4 DEF WasSent, StoresMatch
  <2> QED
    BY <2>2, <2>4, <2>5
<1>2. Spec => [][Kept]_vars
  BY <1>1, PipelineInvariance, PTL DEF Spec
<1> QED
  BY <1>2 DEF EvidenceKept
--------------------------------------------------------------------------------
(* The fence. *)

Alone(w) == \A v \in Workers \ {w} : worker'[v] = worker[v]

\* The step of a worker leaves the record of every other one.
LEMMA CatchIsAlone ==
    ASSUME TypeOK, NEW w \in Workers, NEW definitive \in BOOLEAN, Catch(w, definitive)
    PROVE  Alone(w)
BY CatchEffect DEF Alone, TypeOK

LEMMA WorkersStepAlone ==
    ASSUME TypeOK, NEW w \in Workers, Receive(w) \/ Task(w) \/ Crash(w)
    PROVE  Alone(w)
<1>1. worker \in [Workers -> Worker]
  BY DEF TypeOK
<1>2. Catch(w, TRUE) \/ Catch(w, FALSE) \/ Throw(w) => Alone(w)
  BY CatchIsAlone DEF Throw
<1>3. \A pc, m, final : Goto(w, pc) \/ ReadMark(w, m) \/ Finish(w, final) => Alone(w)
  BY <1>1 DEF Goto, ReadMark, Finish, Alone
<1>4. EndQuietly(w) \/ EndWithError(w) \/ AfterFail(w) => Alone(w)
  BY <1>1, <1>3 DEF EndQuietly, EndWithError, AfterFail, Alone
<1>5. \A state, token : Resume(w, state, token) => Alone(w)
  BY <1>1 DEF Resume, Alone
<1>6. worker' = worker => Alone(w)
  BY DEF Alone
<1>7. CASE Receive(w) \/ Crash(w)
  BY <1>1, <1>6, <1>7 DEF Receive, Crash, Alone
<1>8. CASE Find(w) \/ Reassign(w) \/ WriteReassign(w)
  BY <1>1, <1>2, <1>3, <1>5, <1>8 DEF Find, Reassign, WriteReassign, Alone
<1>9. CASE Begin(w) \/ Put(w) \/ Run(w)
  BY <1>1, <1>2, <1>3, <1>9 DEF Begin, Put, Run, Alone
<1>10. CASE ReadSpool(w) \/ WriteSpool(w)
  BY <1>1, <1>2, <1>10 DEF ReadSpool, WriteSpool, Alone
<1>11. CASE AdvanceToGenerated(w) \/ AdvanceToDelivering(w) \/ StartDelivering(w)
  BY <1>2, <1>3, <1>6, <1>11 DEF AdvanceToGenerated, AdvanceToDelivering, StartDelivering
<1>12. CASE SendPart(w) \/ SetDelivered(w)
  BY <1>1, <1>2, <1>3, <1>12 DEF SendPart, SetDelivered, Alone
<1>13. CASE CompleteAdapterIngress(w) \/ RemoveEntry(w) \/ Fail(w) \/ Release(w)
  BY <1>2, <1>3, <1>4, <1>6, <1>13 DEF CompleteAdapterIngress, RemoveEntry, Fail, Release
<1>14. CASE Start(w) \/ Recover(w) \/ Reclaim(w)
  BY <1>1, <1>3, <1>5, <1>14 DEF Start, Recover, Reclaim, Alone
<1> QED
  BY <1>7, <1>8, <1>9, <1>10, <1>11, <1>12, <1>13, <1>14 DEF Task

\* A task without the claim others hold changes neither the claim nor the lifecycle.
LEMMA OutsidersChangeNothing ==
    ASSUME NEW w \in Workers, AtWork(w), row # NoClaim, row.token # worker[w].token,
           Receive(w) \/ Task(w) \/ Crash(w)
    PROVE  row' = row /\ lifecycle' = lifecycle
<1>1. ~OwnsClaim(w) /\ \A to : ~Transition(w, to)
  BY DEF OwnsClaim, Transition, Returns, Steps
<1>2. Throw(w) \/ UNCHANGED stores => row' = row /\ lifecycle' = lifecycle
  BY DEF Throw, stores
<1>3. CASE Receive(w) \/ Crash(w)
  BY <1>3 DEF Receive, Crash, AtWork
<1>4. CASE Find(w) \/ Reassign(w) \/ WriteReassign(w) \/ Begin(w) \/ Put(w) \/ Run(w)
  BY <1>1, <1>2, <1>4 DEF Find, Reassign, WriteReassign, Begin, Put, Run
<1>5. CASE ReadSpool(w) \/ WriteSpool(w) \/ AdvanceToGenerated(w) \/ AdvanceToDelivering(w)
  BY <1>1, <1>2, <1>5 DEF ReadSpool, WriteSpool, AdvanceToGenerated, AdvanceToDelivering
<1>6. CASE StartDelivering(w) \/ SendPart(w) \/ SetDelivered(w)
  BY <1>1, <1>2, <1>6 DEF StartDelivering, SendPart, SetDelivered
<1>7. CASE CompleteAdapterIngress(w) \/ RemoveEntry(w) \/ Fail(w) \/ Release(w)
  BY <1>1, <1>2, <1>7 DEF CompleteAdapterIngress, RemoveEntry, Fail, Release
<1>8. CASE Start(w) \/ Recover(w) \/ Reclaim(w)
  BY <1>2, <1>8 DEF Start, Recover, Reclaim, AtWork
<1> QED
  BY <1>3, <1>4, <1>5, <1>6, <1>7, <1>8 DEF Task

\* A task whose claim was taken over while it was held up no longer changes the
\* claim or the lifecycle (assertOwnership in every call on the ingress).
THEOREM StaleOwnersAreFenced == Spec => StaleOwnerFenced
<1> DEFINE Fenced ==
      \A w \in Workers :
        AtWork(w) /\ worker'[w] # worker[w] /\ row # NoClaim /\ row.token # worker[w].token
          => row' = row /\ lifecycle' = lifecycle
<1>1. IInv /\ [Next]_vars => [Fenced]_vars
  <2>1. SUFFICES ASSUME IInv, Next, NEW w \in Workers, AtWork(w), worker'[w] # worker[w],
                        row # NoClaim, row.token # worker[w].token
                 PROVE  row' = row /\ lifecycle' = lifecycle
    OBVIOUS
  <2>2. ~LeaseLapses /\ ~SlotLapses
    BY <2>1 DEF LeaseLapses, SlotLapses
  <2>3. PICK v \in Workers : Receive(v) \/ Task(v) \/ Crash(v)
    BY <2>1, <2>2 DEF Next
  <2>4. v = w
    BY <2>1, <2>3, WorkersStepAlone DEF IInv, Alone
  <2> QED
    BY <2>1, <2>3, <2>4, OutsidersChangeNothing
<1>2. Spec => [][Fenced]_vars
  BY <1>1, PipelineInvariance, PTL DEF Spec
<1> QED
  BY <1>2 DEF StaleOwnerFenced
================================================================================
