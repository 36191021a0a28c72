-------------------------- MODULE ModelCallsProofs ---------------------------
(***************************************************************************)
(* Proofs about ModelCalls, for any callers, providers, concurrency,       *)
(* retries and repairs, and any number of calls.                           *)
(***************************************************************************)
EXTENDS ModelCalls, FiniteSetTheorems, TLAPS

-----------------------------------------------------------------------------
(* Lemmas about the operators *)

\* A delay is a number of seconds up to a minute.
LEMMA BackoffBounded ==
  ASSUME NEW n \in Nat, NEW r \in Nat \cup {None}
  PROVE  BackoffDelay(n, r) \in 0 .. 60
<1>1. CASE r # None
  <2>1. r \in Nat
    BY <1>1
  <2> QED BY <1>1, <2>1 DEF BackoffDelay, LowerOf
<1>2. CASE r = None /\ n < 5
  <2>1. n = 0 \/ n = 1 \/ n = 2 \/ n = 3 \/ n = 4
    BY <1>2
  <2>2. PowerOfTwo(n) \in 0 .. 60
    BY <2>1 DEF PowerOfTwo
  <2> QED BY <1>2, <2>2 DEF BackoffDelay
<1>3. CASE r = None /\ ~ n < 5
  BY <1>3 DEF BackoffDelay
<1> QED BY <1>1, <1>2, <1>3

\* What a provider names in Retry-After is a number of seconds.
LEMMA SecondsAreNumbers ==
  ASSUME NEW c \in Callers
  PROVE  RetryAfters[ProviderOf[c]] \cup {None} \subseteq Nat \cup {None}
  BY CallAssumption

\* Holders are finitely many.
LEMMA HoldersFinite ==
  ASSUME NEW p
  PROVE  IsFiniteSet(Holders(p)) /\ Cardinality(Holders(p)) \in Nat
<1>1. Holders(p) \in SUBSET Callers
  BY DEF Holders
<1> QED BY <1>1, CallAssumption, FS_Subset, FS_CardinalityType

\* Requests of another repair: the bound of the call is not passed.
LEMMA RequestsAreBounded ==
  ASSUME NEW a \in Nat, NEW r \in Nat, NEW t \in Nat, a <= Repairs, t <= r
  PROVE  /\ a * (r + 1) + t + 1 <= (Repairs + 1) * (r + 1)
         /\ a * (r + 1) + t + 1 <= (a + 1) * (r + 1)
<1>1. a * (r + 1) + t + 1 <= (a + 1) * (r + 1)
  <2>1. (a + 1) * (r + 1) = a * (r + 1) + (r + 1)
    OBVIOUS
  <2>2. a * (r + 1) \in Nat
    OBVIOUS
  <2> QED BY <2>1, <2>2
<1>2. (a + 1) * (r + 1) <= (Repairs + 1) * (r + 1)
  <2>1. PICK d \in Nat : Repairs = a + d
    <3>1. Repairs - a \in Nat /\ Repairs = a + (Repairs - a)
      BY CallAssumption
    <3> QED BY <3>1
  <2>2. (a + d + 1) * (r + 1) = (a + 1) * (r + 1) + d * (r + 1)
    OBVIOUS
  <2>3. d * (r + 1) \in Nat /\ (a + 1) * (r + 1) \in Nat
    OBVIOUS
  <2> QED BY <2>1, <2>2, <2>3
<1>3. a * (r + 1) \in Nat /\ (a + 1) * (r + 1) \in Nat /\ (Repairs + 1) * (r + 1) \in Nat
  BY CallAssumption
<1> QED BY <1>1, <1>2, <1>3

-----------------------------------------------------------------------------
(* Type correctness *)

\* Idle callers and full pools of permits have their types.
LEMMA TypeInit == Init => TypeOK
  BY CallAssumption DEF Init, TypeOK, Permits

\* A counter that counts one caller up stays a counter.
LEMMA CountsType ==
  ASSUME NEW f \in [Callers -> Nat], NEW c \in Callers
  PROVE  Counts(f, c) \in [Callers -> Nat]
  BY DEF Counts

\* So does one that is set to a number, or to which a number is added.
LEMMA PutType ==
  ASSUME NEW f \in [Callers -> Nat], NEW c \in Callers, NEW n \in Nat
  PROVE  [f EXCEPT ![c] = @ + n] \in [Callers -> Nat]
  OBVIOUS

\* Every step keeps the types.
LEMMA TypeNext == TypeOK /\ [Next]_vars => TypeOK'
<1> SUFFICES ASSUME TypeOK, [Next]_vars PROVE TypeOK'
  OBVIOUS
<1> USE DEF limits, history, Goes
<1>p. pc \in [Callers -> {"idle", "queued", "asking", "sleeping"}]
  BY DEF TypeOK
<1>q. queue \in [Providers -> Seq(Callers)] /\ free \in [Providers -> Nat]
  BY DEF TypeOK
<1>n. /\ asked \in [Callers -> Nat] /\ try \in [Callers -> Nat]
      /\ wait \in [Callers -> Nat] /\ total \in [Callers -> Nat]
      /\ requests \in [Callers -> Nat] /\ slept \in [Callers -> Nat]
      /\ unanswered \in [Callers -> Nat]
      /\ billed \in [Callers -> Nat] /\ ledger \in [Callers -> Nat]
      /\ failed \in [Callers -> Nat] /\ calls \in [Callers -> Nat]
  BY DEF TypeOK
<1>1. ASSUME NEW c \in Callers, Call(c) PROVE TypeOK'
  <2>1. ProviderOf[c] \in Providers
    BY CallAssumption
  <2>2. pc' \in [Callers -> {"idle", "queued", "asking", "sleeping"}]
    BY <1>p, <1>1 DEF Call, Enqueue
  <2>3. queue' \in [Providers -> Seq(Callers)] /\ free' \in [Providers -> Nat]
    BY <1>q, <1>1, <2>1 DEF Call, Enqueue
  <2>4. /\ asked' \in [Callers -> Nat] /\ try' \in [Callers -> Nat]
        /\ wait' \in [Callers -> Nat] /\ total' \in [Callers -> Nat]
        /\ requests' \in [Callers -> Nat] /\ slept' \in [Callers -> Nat]
        /\ unanswered' \in [Callers -> Nat]
        /\ billed' \in [Callers -> Nat] /\ ledger' \in [Callers -> Nat]
        /\ failed' \in [Callers -> Nat] /\ calls' \in [Callers -> Nat]
    BY <1>n, <1>1, CountsType DEF Call, Enqueue
  <2> QED BY <2>2, <2>3, <2>4 DEF TypeOK
<1>2. ASSUME NEW c \in Callers, Acquire(c) PROVE TypeOK'
  <2>1. ProviderOf[c] \in Providers
    BY CallAssumption
  <2>2. pc' \in [Callers -> {"idle", "queued", "asking", "sleeping"}]
    BY <1>p, <1>2 DEF Acquire
  <2>3. queue' \in [Providers -> Seq(Callers)] /\ free' \in [Providers -> Nat]
    BY <1>q, <1>2, <2>1 DEF Acquire
  <2>4. /\ asked' \in [Callers -> Nat] /\ try' \in [Callers -> Nat]
        /\ wait' \in [Callers -> Nat] /\ total' \in [Callers -> Nat]
        /\ requests' \in [Callers -> Nat] /\ slept' \in [Callers -> Nat]
        /\ unanswered' \in [Callers -> Nat]
        /\ billed' \in [Callers -> Nat] /\ ledger' \in [Callers -> Nat]
        /\ failed' \in [Callers -> Nat] /\ calls' \in [Callers -> Nat]
    BY <1>n, <1>2, CountsType DEF Acquire
  <2> QED BY <2>2, <2>3, <2>4 DEF TypeOK
<1>3. ASSUME NEW c \in Callers, NEW r \in Nat \cup {None},
             SleepFor(c, BackoffDelay(try[c], r))
      PROVE TypeOK'
  <2>0. BackoffDelay(try[c], r) \in Nat
    <3>1. try[c] \in Nat
      BY <1>n
    <3>2. BackoffDelay(try[c], r) \in 0 .. 60
      BY <3>1, BackoffBounded
    <3> QED BY <3>2
  <2>1. ProviderOf[c] \in Providers
    BY CallAssumption
  <2>2. pc' \in [Callers -> {"idle", "queued", "asking", "sleeping"}]
    BY <1>p, <1>3 DEF SleepFor
  <2>3. queue' \in [Providers -> Seq(Callers)] /\ free' \in [Providers -> Nat]
    BY <1>q, <1>3, <2>1 DEF SleepFor
  <2>4. /\ asked' \in [Callers -> Nat] /\ try' \in [Callers -> Nat]
        /\ wait' \in [Callers -> Nat] /\ total' \in [Callers -> Nat]
        /\ requests' \in [Callers -> Nat] /\ slept' \in [Callers -> Nat]
        /\ unanswered' \in [Callers -> Nat]
        /\ billed' \in [Callers -> Nat] /\ ledger' \in [Callers -> Nat]
        /\ failed' \in [Callers -> Nat] /\ calls' \in [Callers -> Nat]
    BY <1>n, <1>3, CountsType, <2>0 DEF SleepFor
  <2> QED BY <2>2, <2>3, <2>4 DEF TypeOK
<1>4. ASSUME NEW c \in Callers, Refused(c) \/ Useless(c) \/ OutOfRepairs(c) \/ GiveUp(c)
      PROVE TypeOK'
  <2>1. ProviderOf[c] \in Providers
    BY CallAssumption
  <2>2. pc' \in [Callers -> {"idle", "queued", "asking", "sleeping"}]
    BY <1>p, <1>4 DEF Refused, Useless, OutOfRepairs, GiveUp, FailCall, Release
  <2>3. queue' \in [Providers -> Seq(Callers)] /\ free' \in [Providers -> Nat]
    BY <1>q, <1>4, <2>1 DEF Refused, Useless, OutOfRepairs, GiveUp, FailCall, Release
  <2>4. /\ asked' \in [Callers -> Nat] /\ try' \in [Callers -> Nat]
        /\ wait' \in [Callers -> Nat] /\ total' \in [Callers -> Nat]
        /\ requests' \in [Callers -> Nat] /\ slept' \in [Callers -> Nat]
        /\ unanswered' \in [Callers -> Nat]
        /\ billed' \in [Callers -> Nat] /\ ledger' \in [Callers -> Nat]
        /\ failed' \in [Callers -> Nat] /\ calls' \in [Callers -> Nat]
    <3>1. CASE Refused(c)
      BY <1>n, <3>1, CountsType DEF Refused, FailCall
    <3>2. CASE Useless(c)
      BY <1>n, <3>2, CountsType DEF Useless, FailCall
    <3>3. CASE OutOfRepairs(c)
      BY <1>n, <3>3, CountsType DEF OutOfRepairs, FailCall
    <3>4. CASE GiveUp(c)
      <4>1. wait[c] \in Nat
        BY <1>n
      <4>2. [slept EXCEPT ![c] = @ + wait[c]] \in [Callers -> Nat]
        BY <1>n, <4>1, PutType
      <4> QED BY <1>n, <3>4, <4>2, CountsType DEF GiveUp, FailCall
    <3> QED BY <1>4, <3>1, <3>2, <3>3, <3>4
  <2> QED BY <2>2, <2>3, <2>4 DEF TypeOK
<1>5. ASSUME NEW c \in Callers, Parsed(c) PROVE TypeOK'
  <2>1. ProviderOf[c] \in Providers
    BY CallAssumption
  <2>2. pc' \in [Callers -> {"idle", "queued", "asking", "sleeping"}]
    BY <1>p, <1>5 DEF Parsed, Release
  <2>3. queue' \in [Providers -> Seq(Callers)] /\ free' \in [Providers -> Nat]
    BY <1>q, <1>5, <2>1 DEF Parsed, Release
  <2>4. /\ asked' \in [Callers -> Nat] /\ try' \in [Callers -> Nat]
        /\ wait' \in [Callers -> Nat] /\ total' \in [Callers -> Nat]
        /\ requests' \in [Callers -> Nat] /\ slept' \in [Callers -> Nat]
        /\ unanswered' \in [Callers -> Nat]
        /\ billed' \in [Callers -> Nat] /\ ledger' \in [Callers -> Nat]
        /\ failed' \in [Callers -> Nat] /\ calls' \in [Callers -> Nat]
    <3>1. total[c] + 1 \in Nat /\ ledger[c] \in Nat
      BY <1>n
    <3>2. [ledger EXCEPT ![c] = @ + total[c] + 1] \in [Callers -> Nat]
      BY <1>n, <3>1
    <3> QED BY <1>n, <1>5, <3>2, CountsType DEF Parsed
  <2> QED BY <2>2, <2>3, <2>4 DEF TypeOK
<1>6. ASSUME NEW c \in Callers, AskAgain(c) PROVE TypeOK'
  <2>1. ProviderOf[c] \in Providers
    BY CallAssumption
  <2>2. pc' \in [Callers -> {"idle", "queued", "asking", "sleeping"}]
    BY <1>p, <1>6 DEF AskAgain, Release, Enqueue
  <2>3. queue' \in [Providers -> Seq(Callers)] /\ free' \in [Providers -> Nat]
    BY <1>q, <1>6, <2>1 DEF AskAgain, Release, Enqueue
  <2>4. /\ asked' \in [Callers -> Nat] /\ try' \in [Callers -> Nat]
        /\ wait' \in [Callers -> Nat] /\ total' \in [Callers -> Nat]
        /\ requests' \in [Callers -> Nat] /\ slept' \in [Callers -> Nat]
        /\ unanswered' \in [Callers -> Nat]
        /\ billed' \in [Callers -> Nat] /\ ledger' \in [Callers -> Nat]
        /\ failed' \in [Callers -> Nat] /\ calls' \in [Callers -> Nat]
    BY <1>n, <1>6, CountsType DEF AskAgain, Release, Enqueue
  <2> QED BY <2>2, <2>3, <2>4 DEF TypeOK
<1>7. ASSUME NEW c \in Callers, TryAgain(c) PROVE TypeOK'
  <2>1. ProviderOf[c] \in Providers
    BY CallAssumption
  <2>2. pc' \in [Callers -> {"idle", "queued", "asking", "sleeping"}]
    BY <1>p, <1>7 DEF TryAgain
  <2>3. queue' \in [Providers -> Seq(Callers)] /\ free' \in [Providers -> Nat]
    BY <1>q, <1>7, <2>1 DEF TryAgain
  <2>4. /\ asked' \in [Callers -> Nat] /\ try' \in [Callers -> Nat]
        /\ wait' \in [Callers -> Nat] /\ total' \in [Callers -> Nat]
        /\ requests' \in [Callers -> Nat] /\ slept' \in [Callers -> Nat]
        /\ unanswered' \in [Callers -> Nat]
        /\ billed' \in [Callers -> Nat] /\ ledger' \in [Callers -> Nat]
        /\ failed' \in [Callers -> Nat] /\ calls' \in [Callers -> Nat]
    <3>1. wait[c] \in Nat
      BY <1>n
    <3>2. [slept EXCEPT ![c] = @ + wait[c]] \in [Callers -> Nat]
      BY <1>n, <3>1, PutType
    <3> QED BY <1>n, <1>7, <3>2, CountsType DEF TryAgain
  <2> QED BY <2>2, <2>3, <2>4 DEF TypeOK
<1>8. CASE UNCHANGED vars
  BY <1>8 DEF TypeOK, vars, call
<1>9. ASSUME NEW c \in Callers, SendFails(c) PROVE TypeOK'
  BY <1>9, <1>3 DEF SendFails
<1>10. ASSUME NEW c \in Callers, NEW r \in Nat \cup {None}, Busy(c, r) PROVE TypeOK'
  BY <1>10, <1>3 DEF Busy
<1> QED BY <1>1, <1>2, <1>4, <1>5, <1>6, <1>7, <1>8, <1>9, <1>10, SecondsAreNumbers DEF Next, Advance

\* Callers, queues and counters keep their types in every behaviour.
THEOREM TypeCorrect == Spec => []TypeOK
<1> QED BY TypeInit, TypeNext, PTL DEF Spec

-----------------------------------------------------------------------------
(* Permits *)

\* A step that hands out no permit and takes none back keeps the holders.
LEMMA HoldersStay ==
  ASSUME TypeOK, NEW c \in Callers, NEW phase, Goes(c, phase), free' = free,
         pc[c] \in {"asking", "sleeping"} <=> phase \in {"asking", "sleeping"},
         InFlightBounded
  PROVE  InFlightBounded'
<1>1. \A p \in Providers : Holders(p)' = Holders(p)
  BY DEF Holders, Goes, TypeOK
<1> QED BY <1>1 DEF InFlightBounded

\* A step that releases the permit of a holder makes it one holder less.
LEMMA HolderLeaves ==
  ASSUME TypeOK, NEW c \in Callers, NEW phase, Goes(c, phase), Release(c),
         pc[c] \in {"asking", "sleeping"}, phase \notin {"asking", "sleeping"},
         InFlightBounded
  PROVE  InFlightBounded'
<1> SUFFICES ASSUME NEW p \in Providers
             PROVE  /\ Cardinality(Holders(p)') <= Permits(p)
                    /\ free'[p] + Cardinality(Holders(p)') = Permits(p)
  BY DEF InFlightBounded
<1>1. /\ Cardinality(Holders(p)) <= Permits(p)
      /\ free[p] + Cardinality(Holders(p)) = Permits(p)
      /\ free[p] \in Nat /\ Permits(p) \in Nat
  BY CallAssumption DEF InFlightBounded, TypeOK, Permits
<1>2. CASE ProviderOf[c] = p
  <2>1. Holders(p)' = Holders(p) \ {c} /\ c \in Holders(p)
    BY <1>2 DEF Holders, Goes, TypeOK
  <2>2. Cardinality(Holders(p)') = Cardinality(Holders(p)) - 1
    BY <2>1, HoldersFinite, FS_RemoveElement
  <2>3. free'[p] = free[p] + 1
    BY <1>2 DEF Release, TypeOK
  <2> QED BY <1>1, <2>2, <2>3, HoldersFinite
<1>3. CASE ProviderOf[c] # p
  <2>1. Holders(p)' = Holders(p)
    BY <1>3 DEF Holders, Goes, TypeOK
  <2>2. free'[p] = free[p]
    BY <1>3, CallAssumption DEF Release, TypeOK
  <2> QED BY <1>1, <2>1, <2>2
<1> QED BY <1>2, <1>3

\* The caller at the head of the line becomes a holder.
LEMMA HolderJoins ==
  ASSUME TypeOK, NEW c \in Callers, Acquire(c), InFlightBounded
  PROVE  InFlightBounded'
<1> SUFFICES ASSUME NEW p \in Providers
             PROVE  /\ Cardinality(Holders(p)') <= Permits(p)
                    /\ free'[p] + Cardinality(Holders(p)') = Permits(p)
  BY DEF InFlightBounded
<1>1. /\ Cardinality(Holders(p)) <= Permits(p)
      /\ free[p] + Cardinality(Holders(p)) = Permits(p)
      /\ free[p] \in Nat /\ Permits(p) \in Nat
  BY CallAssumption DEF InFlightBounded, TypeOK, Permits
<1>2. CASE ProviderOf[c] = p
  <2>1. Holders(p)' = Holders(p) \cup {c} /\ c \notin Holders(p)
    BY <1>2 DEF Holders, Acquire, Goes, TypeOK
  <2>2. Cardinality(Holders(p)') = Cardinality(Holders(p)) + 1
    BY <2>1, HoldersFinite, FS_AddElement
  <2>3. free'[p] = free[p] - 1 /\ free[p] > 0
    BY <1>2 DEF Acquire, TypeOK
  <2> QED BY <1>1, <2>2, <2>3, HoldersFinite
<1>3. CASE ProviderOf[c] # p
  <2>1. Holders(p)' = Holders(p)
    BY <1>3 DEF Holders, Acquire, Goes, TypeOK
  <2>2. free'[p] = free[p]
    BY <1>3, CallAssumption DEF Acquire, TypeOK
  <2> QED BY <1>1, <2>1, <2>2
<1> QED BY <1>2, <1>3

\* Every step keeps the permits in balance.
LEMMA PermitsNext == TypeOK /\ InFlightBounded /\ [Next]_vars => InFlightBounded'
<1> SUFFICES ASSUME TypeOK, InFlightBounded, [Next]_vars PROVE InFlightBounded'
  OBVIOUS
<1>1. ASSUME NEW c \in Callers, Call(c) PROVE InFlightBounded'
  BY <1>1, HoldersStay DEF Call
<1>2. ASSUME NEW c \in Callers, Acquire(c) PROVE InFlightBounded'
  BY <1>2, HolderJoins
<1>3. ASSUME NEW c \in Callers,
             SendFails(c) \/ \E r \in Nat \cup {None} : Busy(c, r)
      PROVE  InFlightBounded'
  <2>1. pc[c] = "asking" /\ Goes(c, "sleeping") /\ free' = free
    BY <1>3 DEF SendFails, Busy, SleepFor, limits
  <2> QED BY <2>1, HoldersStay
<1>4. ASSUME NEW c \in Callers, Refused(c) \/ Useless(c) \/ OutOfRepairs(c) \/ GiveUp(c)
      PROVE  InFlightBounded'
  <2>1. pc[c] \in {"asking", "sleeping"} /\ Goes(c, "idle") /\ Release(c)
    BY <1>4 DEF Refused, Useless, OutOfRepairs, GiveUp, FailCall
  <2> QED BY <2>1, HolderLeaves
<1>5. ASSUME NEW c \in Callers, Parsed(c) PROVE InFlightBounded'
  BY <1>5, HolderLeaves DEF Parsed
<1>6. ASSUME NEW c \in Callers, AskAgain(c) PROVE InFlightBounded'
  BY <1>6, HolderLeaves DEF AskAgain
<1>7. ASSUME NEW c \in Callers, TryAgain(c) PROVE InFlightBounded'
  BY <1>7, HoldersStay DEF TryAgain, limits
<1>8. CASE UNCHANGED vars
  BY <1>8 DEF vars, limits, InFlightBounded, Holders
<1> QED BY <1>1, <1>2, <1>3, <1>4, <1>5, <1>6, <1>7, <1>8, SecondsAreNumbers DEF Next, Advance

\* At first every permit is free.
LEMMA PermitsInit == Init => InFlightBounded
<1> SUFFICES ASSUME Init, NEW p \in Providers
             PROVE  /\ Cardinality(Holders(p)) <= Permits(p)
                    /\ free[p] + Cardinality(Holders(p)) = Permits(p)
  BY DEF InFlightBounded
<1>1. Holders(p) = {}
  BY DEF Init, Holders
<1>2. free[p] = Permits(p) /\ Permits(p) \in Nat
  BY CallAssumption DEF Init, Permits
<1> QED BY <1>1, <1>2, FS_EmptySet

\* No provider is asked by more callers at a time than its concurrency, and no permit is lost.
THEOREM ProvidersAreNotStampeded == Spec => []InFlightBounded
<1> QED BY PermitsInit, TypeInit, TypeNext, PermitsNext, PTL DEF Spec

-----------------------------------------------------------------------------
(* What a call costs, and what the ledger has of it *)

\* A step of one caller leaves the counters of the others alone.
LEMMA OthersKeep ==
  ASSUME TypeOK, NEW c \in Callers, Call(c) \/ Advance(c), NEW d \in Callers, d # c
  PROVE  /\ pc'[d] = pc[d] /\ asked'[d] = asked[d] /\ try'[d] = try[d]
         /\ wait'[d] = wait[d] /\ total'[d] = total[d]
         /\ requests'[d] = requests[d] /\ slept'[d] = slept[d]
         /\ unanswered'[d] = unanswered[d] /\ billed'[d] = billed[d]
         /\ ledger'[d] = ledger[d] /\ failed'[d] = failed[d]
<1> USE DEF TypeOK, Goes, Counts, history, FailCall
<1>1. CASE Call(c)
  BY <1>1 DEF Call
<1>2. CASE Acquire(c)
  BY <1>2 DEF Acquire
<1>3. CASE SendFails(c) \/ \E r \in Nat \cup {None} : Busy(c, r)
  BY <1>3 DEF SendFails, Busy, SleepFor
<1>4. CASE Refused(c)
  BY <1>4 DEF Refused
<1>5. CASE Useless(c)
  BY <1>5 DEF Useless
<1>6. CASE OutOfRepairs(c)
  BY <1>6 DEF OutOfRepairs
<1>7. CASE GiveUp(c)
  BY <1>7 DEF GiveUp
<1>8. CASE Parsed(c)
  BY <1>8 DEF Parsed
<1>9. CASE AskAgain(c)
  BY <1>9 DEF AskAgain
<1>10. CASE TryAgain(c)
  BY <1>10 DEF TryAgain
<1> QED BY <1>1, <1>2, <1>3, <1>4, <1>5, <1>6, <1>7, <1>8, <1>9, <1>10, SecondsAreNumbers DEF Advance

\* A step of a caller keeps what its own counters say of each other.
LEMMA CallerKeeps ==
  ASSUME TypeOK, NEW c \in Callers, Call(c) \/ Advance(c),
         Accounted(c), GapExplained(c)
  PROVE  Accounted(c)' /\ GapExplained(c)'
<1> DEFINE R == MaxRetries[ProviderOf[c]]
<1>t. /\ asked[c] \in Nat /\ try[c] \in Nat /\ wait[c] \in Nat /\ total[c] \in Nat
      /\ requests[c] \in Nat /\ slept[c] \in Nat /\ billed[c] \in Nat /\ ledger[c] \in Nat
      /\ unanswered[c] \in Nat /\ failed[c] \in Nat /\ R \in Nat /\ Repairs \in Nat
  BY CallAssumption DEF TypeOK
<1>b. asked[c] <= Repairs /\ try[c] <= R =>
        /\ asked[c] * (R + 1) + try[c] + 1 <= RequestsOf(ProviderOf[c])
        /\ asked[c] * (R + 1) + try[c] + 1 <= (asked[c] + 1) * (R + 1)
  BY <1>t, RequestsAreBounded DEF RequestsOf
<1>m. /\ asked[c] * (R + 1) \in Nat /\ (asked[c] + 1) * (R + 1) \in Nat
      /\ failed[c] * (Repairs + 1) \in Nat
      /\ (failed[c] + 1) * (Repairs + 1) = failed[c] * (Repairs + 1) + (Repairs + 1)
  BY <1>t
<1>a. /\ pc[c] # "idle" => asked[c] <= Repairs /\ total[c] = asked[c]
      /\ pc[c] = "queued" => requests[c] <= asked[c] * (R + 1)
      /\ pc[c] = "asking" => try[c] <= R /\ requests[c] <= asked[c] * (R + 1) + try[c]
      /\ pc[c] = "sleeping" =>
           /\ try[c] <= R /\ requests[c] <= asked[c] * (R + 1) + try[c] + 1
           /\ slept[c] + wait[c] <= 60 * requests[c]
      /\ slept[c] <= 60 * requests[c]
      /\ requests[c] <= RequestsOf(ProviderOf[c])
  BY DEF Accounted
<1>l. /\ ledger[c] + InHand(c) <= billed[c]
      /\ billed[c] <= ledger[c] + InHand(c) + failed[c] * (Repairs + 1) + unanswered[c]
  BY DEF GapExplained
<1>r. RequestsOf(ProviderOf[c]) \in Nat /\ RequestsOf(ProviderOf[c])' = RequestsOf(ProviderOf[c])
  BY <1>t DEF RequestsOf
<1>1. CASE Call(c)
  <2>1. /\ pc[c] = "idle" /\ pc'[c] = "queued"
        /\ asked'[c] = 0 /\ try'[c] = try[c] /\ wait'[c] = wait[c]
        /\ total'[c] = 0 /\ requests'[c] = 0 /\ slept'[c] = 0
        /\ billed'[c] = billed[c] /\ ledger'[c] = ledger[c] /\ failed'[c] = failed[c]
        /\ unanswered'[c] = unanswered[c]
    BY <1>1 DEF Call, TypeOK, Goes, Counts, history
  <2>2. Accounted(c)'
    BY <1>t, <1>b, <1>m, <1>a, <1>r, <2>1 DEF Accounted
  <2>3. GapExplained(c)'
    BY <1>t, <1>m, <1>a, <1>l, <2>1 DEF GapExplained, InHand
  <2> QED BY <2>2, <2>3
<1>2. CASE Acquire(c)
  <2>1. /\ pc[c] = "queued" /\ pc'[c] = "asking"
        /\ asked'[c] = asked[c] /\ try'[c] = 0 /\ wait'[c] = wait[c]
        /\ total'[c] = total[c] /\ requests'[c] = requests[c] /\ slept'[c] = slept[c]
        /\ billed'[c] = billed[c] /\ ledger'[c] = ledger[c] /\ failed'[c] = failed[c]
        /\ unanswered'[c] = unanswered[c]
    BY <1>2 DEF Acquire, TypeOK, Goes, Counts, history
  <2>2. Accounted(c)'
    BY <1>t, <1>b, <1>m, <1>a, <1>r, <2>1 DEF Accounted
  <2>3. GapExplained(c)'
    BY <1>t, <1>m, <1>a, <1>l, <2>1 DEF GapExplained, InHand
  <2> QED BY <2>2, <2>3
<1>3. ASSUME NEW r \in Nat \cup {None},
             pc[c] = "asking", SleepFor(c, BackoffDelay(try[c], r))
      PROVE  Accounted(c)' /\ GapExplained(c)'
  <2>0. BackoffDelay(try[c], r) \in 0 .. 60
    BY <1>t, BackoffBounded
  <2> DEFINE delay == BackoffDelay(try[c], r)
  <2>a. delay \in Nat /\ delay <= 60 /\ SleepFor(c, delay)
    BY <1>3, <2>0
  <2> HIDE DEF delay
  <2>1. /\ pc'[c] = "sleeping" /\ requests'[c] = requests[c] + 1 /\ wait'[c] = delay
        /\ asked'[c] = asked[c] /\ try'[c] = try[c] /\ total'[c] = total[c]
        /\ slept'[c] = slept[c] /\ unanswered'[c] = unanswered[c] + 1
        /\ billed'[c] \in {billed[c], billed[c] + 1}
        /\ ledger'[c] = ledger[c] /\ failed'[c] = failed[c]
    BY <2>a DEF SleepFor, TypeOK, Goes, Counts, history
  <2>2. Accounted(c)'
    BY <1>3, <1>t, <1>b, <1>m, <1>a, <1>r, <2>1, <2>a DEF Accounted
  <2>3. GapExplained(c)'
    BY <1>3, <1>t, <1>m, <1>a, <1>l, <2>1 DEF GapExplained, InHand
  <2> QED BY <2>2, <2>3
<1>4. CASE Refused(c)
  <2>1. /\ pc[c] = "asking" /\ pc'[c] = "idle"
        /\ asked'[c] = asked[c] /\ try'[c] = try[c] /\ wait'[c] = wait[c]
        /\ total'[c] = total[c] /\ requests'[c] = requests[c] + 1 /\ slept'[c] = slept[c]
        /\ billed'[c] = billed[c] /\ ledger'[c] = ledger[c] /\ failed'[c] = failed[c] + 1
        /\ unanswered'[c] = unanswered[c]
    BY <1>4 DEF Refused, FailCall, TypeOK, Goes, Counts, history
  <2>2. Accounted(c)'
    BY <1>t, <1>b, <1>m, <1>a, <1>r, <2>1 DEF Accounted
  <2>3. GapExplained(c)'
    BY <1>t, <1>m, <1>a, <1>l, <2>1 DEF GapExplained, InHand
  <2> QED BY <2>2, <2>3
<1>5. CASE Useless(c)
  <2>1. /\ pc[c] = "asking" /\ pc'[c] = "idle"
        /\ asked'[c] = asked[c] /\ try'[c] = try[c] /\ wait'[c] = wait[c]
        /\ total'[c] = total[c] /\ requests'[c] = requests[c] + 1 /\ slept'[c] = slept[c]
        /\ billed'[c] = billed[c] + 1 /\ ledger'[c] = ledger[c] /\ failed'[c] = failed[c] + 1
        /\ unanswered'[c] = unanswered[c]
    BY <1>5 DEF Useless, FailCall, TypeOK, Goes, Counts, history
  <2>2. Accounted(c)'
    BY <1>t, <1>b, <1>m, <1>a, <1>r, <2>1 DEF Accounted
  <2>3. GapExplained(c)'
    BY <1>t, <1>m, <1>a, <1>l, <2>1 DEF GapExplained, InHand
  <2> QED BY <2>2, <2>3
<1>6. CASE OutOfRepairs(c)
  <2>1. /\ pc[c] = "asking" /\ pc'[c] = "idle"
        /\ asked'[c] = asked[c] /\ try'[c] = try[c] /\ wait'[c] = wait[c]
        /\ total'[c] = total[c] + 1 /\ requests'[c] = requests[c] + 1 /\ slept'[c] = slept[c]
        /\ billed'[c] = billed[c] + 1 /\ ledger'[c] = ledger[c] /\ failed'[c] = failed[c] + 1
        /\ unanswered'[c] = unanswered[c]
    BY <1>6 DEF OutOfRepairs, FailCall, TypeOK, Goes, Counts, history
  <2>2. Accounted(c)'
    BY <1>t, <1>b, <1>m, <1>a, <1>r, <2>1 DEF Accounted
  <2>3. GapExplained(c)'
    BY <1>t, <1>m, <1>a, <1>l, <2>1 DEF GapExplained, InHand
  <2> QED BY <2>2, <2>3
<1>7. CASE GiveUp(c)
  <2>1. /\ pc[c] = "sleeping" /\ pc'[c] = "idle"
        /\ asked'[c] = asked[c] /\ try'[c] = try[c] /\ wait'[c] = wait[c]
        /\ total'[c] = total[c] /\ requests'[c] = requests[c] /\ slept'[c] = slept[c] + wait[c]
        /\ billed'[c] = billed[c] /\ ledger'[c] = ledger[c] /\ failed'[c] = failed[c] + 1
        /\ unanswered'[c] = unanswered[c]
    BY <1>7 DEF GiveUp, FailCall, TypeOK, Goes, Counts, history
  <2>2. Accounted(c)'
    BY <1>t, <1>b, <1>m, <1>a, <1>r, <2>1 DEF Accounted
  <2>3. GapExplained(c)'
    BY <1>t, <1>m, <1>a, <1>l, <2>1 DEF GapExplained, InHand
  <2> QED BY <2>2, <2>3
<1>8. CASE Parsed(c)
  <2>1. /\ pc[c] = "asking" /\ pc'[c] = "idle"
        /\ asked'[c] = asked[c] /\ try'[c] = try[c] /\ wait'[c] = wait[c]
        /\ total'[c] = total[c] + 1 /\ requests'[c] = requests[c] + 1 /\ slept'[c] = slept[c]
        /\ billed'[c] = billed[c] + 1 /\ ledger'[c] = ledger[c] + total[c] + 1 /\ failed'[c] = failed[c]
        /\ unanswered'[c] = unanswered[c]
    BY <1>8 DEF Parsed, TypeOK, Goes, Counts, history
  <2>2. Accounted(c)'
    BY <1>t, <1>b, <1>m, <1>a, <1>r, <2>1 DEF Accounted
  <2>3. GapExplained(c)'
    BY <1>t, <1>m, <1>a, <1>l, <2>1 DEF GapExplained, InHand
  <2> QED BY <2>2, <2>3
<1>9. CASE AskAgain(c)
  <2>1. /\ pc[c] = "asking" /\ pc'[c] = "queued"
        /\ asked'[c] = asked[c] + 1 /\ asked[c] < Repairs /\ try'[c] = try[c] /\ wait'[c] = wait[c]
        /\ total'[c] = total[c] + 1 /\ requests'[c] = requests[c] + 1 /\ slept'[c] = slept[c]
        /\ billed'[c] = billed[c] + 1 /\ ledger'[c] = ledger[c] /\ failed'[c] = failed[c]
        /\ unanswered'[c] = unanswered[c]
    BY <1>9 DEF AskAgain, TypeOK, Goes, Counts, history
  <2>2. Accounted(c)'
    BY <1>t, <1>b, <1>m, <1>a, <1>r, <2>1 DEF Accounted
  <2>3. GapExplained(c)'
    BY <1>t, <1>m, <1>a, <1>l, <2>1 DEF GapExplained, InHand
  <2> QED BY <2>2, <2>3
<1>10. CASE TryAgain(c)
  <2>1. /\ pc[c] = "sleeping" /\ pc'[c] = "asking"
        /\ asked'[c] = asked[c] /\ try'[c] = try[c] + 1 /\ try[c] < R /\ wait'[c] = wait[c]
        /\ total'[c] = total[c] /\ requests'[c] = requests[c] /\ slept'[c] = slept[c] + wait[c]
        /\ billed'[c] = billed[c] /\ ledger'[c] = ledger[c] /\ failed'[c] = failed[c]
        /\ unanswered'[c] = unanswered[c]
    BY <1>10 DEF TryAgain, TypeOK, Goes, Counts, history
  <2>2. Accounted(c)'
    BY <1>t, <1>b, <1>m, <1>a, <1>r, <2>1 DEF Accounted
  <2>3. GapExplained(c)'
    BY <1>t, <1>m, <1>a, <1>l, <2>1 DEF GapExplained, InHand
  <2> QED BY <2>2, <2>3
<1> HIDE DEF R
<1>11. CASE SendFails(c)
  BY <1>11, <1>3 DEF SendFails
<1>12. ASSUME NEW r \in Nat \cup {None}, Busy(c, r)
       PROVE  Accounted(c)' /\ GapExplained(c)'
  BY <1>12, <1>3 DEF Busy
<1> QED BY <1>1, <1>2, <1>4, <1>5, <1>6, <1>7, <1>8, <1>9, <1>10, <1>11, <1>12, SecondsAreNumbers DEF Advance

\* Every step keeps the inductive invariant.
LEMMA IInvNext == IInv /\ [Next]_vars => IInv'
<1> SUFFICES ASSUME IInv, [Next]_vars PROVE IInv'
  OBVIOUS
<1>1. TypeOK' /\ InFlightBounded' /\ TypeOK
  BY TypeNext, PermitsNext DEF IInv
<1>2. ASSUME NEW c \in Callers, Call(c) \/ Advance(c), NEW d \in Callers
      PROVE  Accounted(d)' /\ GapExplained(d)'
  <2>1. Accounted(d) /\ GapExplained(d)
    BY DEF IInv, CallInvariant, LedgerGapIsExplained
  <2>2. CASE d = c
    BY <1>1, <1>2, <2>1, <2>2, CallerKeeps
  <2>3. CASE d # c
    BY <1>1, <1>2, <2>1, <2>3, OthersKeep
       DEF Accounted, GapExplained, InHand, RequestsOf
  <2> QED BY <2>2, <2>3
<1>3. CASE UNCHANGED vars
  BY <1>3 DEF IInv, vars, limits, call, history, TypeOK, InFlightBounded, Holders, CallInvariant,
              LedgerGapIsExplained, Accounted, GapExplained, InHand, RequestsOf
<1>4. CASE Next
  <2>1. PICK c \in Callers : Call(c) \/ Advance(c)
    BY <1>4 DEF Next
  <2>2. \A d \in Callers : Accounted(d)' /\ GapExplained(d)'
    BY <1>2, <2>1
  <2> QED BY <1>1, <2>2 DEF IInv, CallInvariant, LedgerGapIsExplained
<1> QED BY <1>3, <1>4

\* The inductive invariant holds in every behaviour.
THEOREM IInvHolds == Spec => []IInv
<1>1. Init => CallInvariant /\ LedgerGapIsExplained
  <2> SUFFICES ASSUME Init, NEW c \in Callers PROVE Accounted(c) /\ GapExplained(c)
    BY DEF CallInvariant, LedgerGapIsExplained
  <2>1. /\ pc[c] = "idle" /\ asked[c] = 0 /\ total[c] = 0 /\ requests[c] = 0 /\ slept[c] = 0
        /\ unanswered[c] = 0 /\ billed[c] = 0 /\ ledger[c] = 0 /\ failed[c] = 0
    BY DEF Init
  <2>2. MaxRetries[ProviderOf[c]] \in Nat /\ Repairs \in Nat
    BY CallAssumption
  <2>3. RequestsOf(ProviderOf[c]) \in Nat
    BY <2>2 DEF RequestsOf
  <2> QED BY <2>1, <2>2, <2>3 DEF Accounted, GapExplained, InHand
<1>2. Init => IInv
  BY <1>1, TypeInit, PermitsInit DEF IInv
<1> QED BY <1>2, IInvNext, PTL DEF Spec

\* Repairs and retries multiply, sleeps are a minute at most, and that is all.
THEOREM CallsAreBounded == Spec => []CallCostsBounded
<1>1. IInv => CallCostsBounded
  <2> SUFFICES ASSUME IInv, NEW c \in Callers
               PROVE  /\ requests[c] <= RequestsOf(ProviderOf[c])
                      /\ slept[c] <= 60 * RequestsOf(ProviderOf[c])
    BY DEF CallCostsBounded
  <2>1. requests[c] <= RequestsOf(ProviderOf[c]) /\ slept[c] <= 60 * requests[c]
    BY DEF IInv, CallInvariant, Accounted
  <2>2. requests[c] \in Nat /\ slept[c] \in Nat /\ RequestsOf(ProviderOf[c]) \in Nat
    <3>1. MaxRetries[ProviderOf[c]] \in Nat /\ Repairs \in Nat
      BY CallAssumption
    <3>2. RequestsOf(ProviderOf[c]) \in Nat
      BY <3>1 DEF RequestsOf
    <3> QED BY <3>2 DEF IInv, TypeOK
  <2> QED BY <2>1, <2>2
<1> QED BY <1>1, IInvHolds, PTL

\* The spend that calls return misses answers of failed calls and, at most one for each, of
\* requests that were given up as unanswered; nothing else.
THEOREM TheLedgerIsExplained == Spec => []LedgerGapIsExplained
<1>1. IInv => LedgerGapIsExplained
  BY DEF IInv
<1> QED BY <1>1, IInvHolds, PTL
=============================================================================
