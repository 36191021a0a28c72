-------------------------- MODULE EventStreamProofs --------------------------
(***************************************************************************)
(* Proofs about EventStream, for any tasks, any page size and any number   *)
(* of rows, faults and connections.                                        *)
(***************************************************************************)
EXTENDS EventStream, FiniteSetTheorems, WellFoundedInduction, TLAPS

-----------------------------------------------------------------------------
(* Lemmas about the operators *)

\* A set of natural numbers that is not empty has a smallest member.
LEMMA SmallestExists ==
  ASSUME NEW S \in SUBSET Nat, S # {}
  PROVE  \E x \in S : \A y \in S : x <= y
<1>1. PICK x \in S : \A y \in S : ~ (<<y, x>> \in OpToRel(<, Nat))
  BY NatLessThanWellFounded, WFMin
<1>2. \A y \in S : ~ (y < x)
  BY <1>1 DEF OpToRel
<1> QED BY <1>2

\* A set of natural numbers with a bound that is not empty has a greatest member.
LEMMA LatestIsGreatest ==
  ASSUME NEW S \in SUBSET Nat, S # {}, NEW b \in Nat, \A x \in S : x <= b
  PROVE  Latest(S) \in S /\ \A y \in S : y <= Latest(S)
<1> DEFINE T == {b - x : x \in S}
<1>1. T \in SUBSET Nat /\ T # {}
  <2>1. \A x \in S : b - x \in Nat
    OBVIOUS
  <2>2. PICK x \in S : TRUE
    OBVIOUS
  <2>3. b - x \in T
    BY <2>2
  <2> QED BY <2>1, <2>3
<1>2. PICK d \in T : \A e \in T : d <= e
  BY <1>1, SmallestExists
<1>3. PICK x \in S : d = b - x
  BY <1>2
<1>4. \A y \in S : y <= x
  BY <1>2, <1>3
<1> QED BY <1>4 DEF Latest

\* Rows are positive numbers up to the length of the log.
LEMMA MineType ==
  ASSUME log \in Seq(Tasks)
  PROVE  Mine \in SUBSET Nat /\ \A i \in Mine : i <= Len(log)
<1>1. Mine \subseteq Rows
  BY DEF Mine
<1>2. Rows \in SUBSET Nat /\ \A i \in Rows : i <= Len(log)
  BY DEF Rows
<1> QED BY <1>1, <1>2

\* The rows of a page are rows of the task behind the cursor.
LEMMA PageType ==
  ASSUME NEW after, NEW limit
  PROVE  \A i \in ListEvents(after, limit) : i \in Mine /\ i > after
  BY DEF ListEvents

\* What the client has is a set of row numbers, and so is the last of them.
LEMMA LastSeenType ==
  ASSUME got \in Seq(Nat)
  PROVE  LastSeen \in Nat /\ Seen \in SUBSET Nat
<1>1. CASE got = <<>>
  BY <1>1 DEF LastSeen, Seen
<1>2. CASE got # <<>>
  <2>1. Len(got) \in DOMAIN got /\ \A n \in DOMAIN got : got[n] \in Nat
    BY <1>2
  <2> QED BY <1>2, <2>1 DEF LastSeen, Seen
<1> QED BY <1>1, <1>2

\* The rows between two rows are finitely many.
LEMMA BetweenFinite ==
  ASSUME log \in Seq(Tasks), NEW a \in Nat, NEW b \in Nat
  PROVE  LET S == {j \in Mine : a < j /\ j < b}
         IN  IsFiniteSet(S) /\ Cardinality(S) \in Nat
<1> DEFINE S == {j \in Mine : a < j /\ j < b}
<1>1. S \in SUBSET (0..b)
  BY DEF Mine, Rows
<1>2. IsFiniteSet(0..b)
  BY FS_Interval
<1> QED BY <1>1, <1>2, FS_Subset, FS_CardinalityType

\* A page lies behind the cursor and has no gap: of two rows behind the cursor the earlier
\* one is in the page when the later one is.
LEMMA PageHasNoGap ==
  ASSUME log \in Seq(Tasks), NEW after \in Nat,
         NEW i \in ListEvents(after, PageSize), NEW j \in Mine, after < j, j < i
  PROVE  j \in ListEvents(after, PageSize)
<1> DEFINE S(k) == {l \in Mine : after < l /\ l < k}
<1>1. i \in Nat /\ j \in Nat
  BY DEF ListEvents, Mine, Rows
<1>2. IsFiniteSet(S(i)) /\ Cardinality(S(i)) \in Nat /\ Cardinality(S(j)) \in Nat
  BY <1>1, BetweenFinite
<1>3. S(j) \in SUBSET S(i)
  BY <1>1 DEF Mine, Rows
<1>4. Cardinality(S(j)) <= Cardinality(S(i))
  BY <1>2, <1>3, FS_Subset
<1>5. Cardinality(S(i)) < PageSize
  BY DEF ListEvents
<1>6. Cardinality(S(j)) < PageSize
  BY <1>2, <1>4, <1>5, StreamAssumption
<1> QED BY <1>6 DEF ListEvents

\* A page is empty only when there is no row behind the cursor.
LEMMA EmptyPageIsTheEnd ==
  ASSUME log \in Seq(Tasks), NEW after \in Nat, ListEvents(after, PageSize) = {}
  PROVE  \A i \in Mine : i <= after
<1> DEFINE S == {i \in Mine : i > after}
<1> SUFFICES ASSUME S # {} PROVE FALSE
  BY DEF Mine, Rows
<1>1. S \in SUBSET Nat
  BY DEF Mine, Rows
<1>2. PICK i \in S : \A j \in S : i <= j
  BY <1>1, SmallestExists
<1> DEFINE B == {j \in Mine : after < j /\ j < i}
<1>3. B = {}
  BY <1>2 DEF Mine, Rows
<1>4. Cardinality(B) < PageSize
  <2> HIDE DEF B
  <2> QED BY <1>3, FS_EmptySet, StreamAssumption
<1> QED BY <1>2, <1>4 DEF ListEvents

-----------------------------------------------------------------------------
(* Type correctness *)

\* The empty log and a client that has nothing have their types.
LEMMA TypeInit == Init => TypeOK
<1> SUFFICES ASSUME Init PROVE TypeOK
  OBVIOUS
<1>1. ended \in BOOLEAN /\ done \in BOOLEAN
  BY DEF Init
<1>2. log \in Seq(Tasks) /\ got \in Seq(Nat) /\ page \in SUBSET Nat
  BY DEF Init
<1>3. cursor \in Nat /\ horizon \in Nat /\ faults \in Nat
  BY DEF Init
<1>4. pc \in Streaming \cup {"away", "closed"}
  BY DEF Init
<1> QED BY <1>1, <1>2, <1>3, <1>4 DEF TypeOK

\* Every step keeps the types.
LEMMA TypeNext == TypeOK /\ [Next]_vars => TypeOK'
<1> SUFFICES ASSUME TypeOK, [Next]_vars PROVE TypeOK'
  OBVIOUS
<1> USE DEF TypeOK, Streaming
<1>1. ASSUME NEW t \in Tasks, AppendEvent(t) PROVE TypeOK'
  BY <1>1 DEF AppendEvent
<1>2. CASE WriteState
  BY <1>2 DEF WriteState
<1>3. CASE OpenStream
  BY <1>3, LastSeenType DEF OpenStream
<1>4. CASE ReadPage
  <2> DEFINE P == ListEvents(cursor, PageSize)
  <2>1. P # {} /\ page' = P /\ cursor' = Latest(P) /\ pc' = "sending" /\ done' = FALSE
        /\ UNCHANGED <<log, ended, got, horizon, faults>>
    BY <1>4 DEF ReadPage
  <2> HIDE DEF P
  <2>3. P \in SUBSET Nat /\ \A i \in P : i <= Len(log)
    BY MineType, PageType DEF P
  <2>4. Len(log) \in Nat
    OBVIOUS
  <2>5. Latest(P) \in P
    BY <2>1, <2>3, <2>4, LatestIsGreatest
  <2>2. Latest(P) \in Nat
    BY <2>3, <2>5
  <2>6. page' \in SUBSET Nat /\ cursor' \in Nat /\ pc' \in Streaming
    BY <2>1, <2>2, <2>3
  <2>7. done' \in BOOLEAN /\ ended' \in BOOLEAN
    BY <2>1
  <2>8. log' \in Seq(Tasks) /\ got' \in Seq(Nat) /\ horizon' \in Nat /\ faults' \in Nat
    BY <2>1
  <2> QED BY <2>6, <2>7, <2>8
<1>5. CASE CaughtUp \/ ReadFails \/ AskState \/ AskFails \/ WakeUp \/ Disconnect
  <2>1. done' \in BOOLEAN /\ ended' \in BOOLEAN
    BY <1>5 DEF CaughtUp, ReadFails, AskState, AskFails, WakeUp, Disconnect
  <2>2. horizon' \in Nat /\ faults' \in Nat
    BY <1>5, StreamAssumption
       DEF CaughtUp, ReadFails, AskState, AskFails, WakeUp, Disconnect, Fault
  <2>3. pc' \in Streaming \cup {"away", "closed"} /\ cursor' \in Nat /\ page' \in SUBSET Nat
    BY <1>5 DEF CaughtUp, ReadFails, AskState, AskFails, WakeUp, Disconnect
  <2>4. log' \in Seq(Tasks) /\ got' \in Seq(Nat)
    BY <1>5 DEF CaughtUp, ReadFails, AskState, AskFails, WakeUp, Disconnect
  <2> QED BY <2>1, <2>2, <2>3, <2>4
<1>6. CASE SendEvent
  BY <1>6 DEF SendEvent
<1>7. CASE UNCHANGED vars
  BY <1>7 DEF vars
<1> QED BY <1>1, <1>2, <1>3, <1>4, <1>5, <1>6, <1>7 DEF Next, Poll

\* Log, stream and client keep their types in every behaviour.
THEOREM TypeCorrect == Spec => []TypeOK
<1>1. Init => TypeOK
  BY TypeInit
<1> QED BY <1>1, TypeNext, PTL DEF Spec

-----------------------------------------------------------------------------
(* The inductive invariant *)

\* The rows that precede what a variable points at, and what the client has, are kept by a
\* step that touches neither log nor client.
LEMMA ClientUntouched ==
  ASSUME log' = log, got' = got
  PROVE  Mine' = Mine /\ Seen' = Seen /\ LastSeen' = LastSeen
  BY DEF Mine, Rows, Seen, LastSeen

\* Every step keeps the inductive invariant.
LEMMA IInvNext == IInv /\ [Next]_vars => IInv'
<1> SUFFICES ASSUME IInv, [Next]_vars PROVE IInv'
  OBVIOUS
<1>0. TypeOK /\ TypeOK' /\ NothingSkipped /\ PageInvariant /\ DeliveredUpToHorizon
  BY TypeNext DEF IInv
<1> DEFINE Kept == NothingSkipped /\ PageInvariant /\ DeliveredUpToHorizon
<1> SUFFICES Kept'
  BY <1>0 DEF IInv
<1>t. /\ log \in Seq(Tasks) /\ cursor \in Nat /\ horizon \in Nat /\ page \in SUBSET Nat
      /\ got \in Seq(Nat) /\ LastSeen \in Nat /\ Seen \in SUBSET Nat /\ Mine \in SUBSET Nat
      /\ \A i \in Mine : i <= Len(log)
  BY <1>0, LastSeenType, MineType DEF TypeOK
<1>1. ASSUME NEW t \in Tasks, AppendEvent(t) PROVE Kept'
  <2>1. /\ got' = got /\ pc' = pc /\ cursor' = cursor /\ page' = page /\ horizon' = horizon
        /\ log' = Append(log, t)
    BY <1>1 DEF AppendEvent
  <2>2. Len(log') = Len(log) + 1 /\ \A i \in Rows : log'[i] = log[i]
    BY <2>1, <1>t DEF Rows
  <2>3. \A n \in Nat : n <= Len(log) => {i \in Mine' : i <= n} = {i \in Mine : i <= n}
    BY <2>2, <1>t DEF Mine, Rows
  <2>4. Seen' = Seen /\ LastSeen' = LastSeen
    BY <2>1 DEF Seen, LastSeen
  <2> QED BY <1>0, <1>t, <2>1, <2>2, <2>3, <2>4
          DEF NothingSkipped, PageInvariant, DeliveredUpToHorizon
<1>2. CASE WriteState \/ UNCHANGED vars
  <2>1. UNCHANGED <<log, got, pc, cursor, page, horizon>>
    BY <1>2 DEF WriteState, vars
  <2> QED BY <1>0, <2>1, ClientUntouched DEF NothingSkipped, PageInvariant, DeliveredUpToHorizon
<1>3. CASE OpenStream
  <2>1. UNCHANGED <<log, got, page, horizon>> /\ cursor' = LastSeen /\ pc' = "reading"
        /\ page = {}
    BY <1>0, <1>3 DEF OpenStream, PageInvariant
  <2> QED BY <1>0, <1>t, <2>1, ClientUntouched
          DEF NothingSkipped, PageInvariant, DeliveredUpToHorizon, Streaming
<1>4. CASE ReadPage
  <2> DEFINE P == ListEvents(cursor, PageSize)
  <2>1. /\ UNCHANGED <<log, got, horizon>> /\ page' = P /\ cursor' = Latest(P) /\ P # {}
        /\ pc = "reading" /\ pc' = "sending"
    BY <1>4 DEF ReadPage
  <2>2. \A i \in P : i \in Mine /\ i > cursor
    BY PageType
  <2>3. \A i \in P : \A j \in Mine : cursor < j /\ j < i => j \in P
    BY <1>t, PageHasNoGap
  <2> HIDE DEF P
  <2>a. P \in SUBSET Nat /\ Len(log) \in Nat /\ \A i \in P : i <= Len(log)
    <3>1. Len(log) \in Nat
      BY <1>t
    <3>2. \A i \in P : i \in Nat /\ i <= Len(log)
      BY <1>t, <2>2
    <3> QED BY <3>1, <3>2
  <2>4. Latest(P) \in P /\ \A i \in P : i <= Latest(P)
    BY <2>1, <2>a, LatestIsGreatest
  <2> DEFINE top == Latest(P)
  <2>5. top \in P /\ (\A i \in P : i <= top) /\ cursor' = top
    BY <2>1, <2>4
  <2> HIDE DEF top
  <2>6. {i \in Mine : i <= top} = {i \in Mine : i <= cursor} \cup P
    <3>1. top \in Nat /\ top > cursor
      BY <2>2, <2>5, <2>a
    <3>2. \A i \in Mine : i <= top => i <= cursor \/ i \in P
      BY <1>t, <2>3, <2>5, <3>1
    <3>3. \A i \in Mine : i <= cursor => i <= top
      BY <1>t, <3>1
    <3> QED BY <2>2, <2>5, <3>2, <3>3
  <2>7. page = {} /\ Seen \cup page = {i \in Mine : i <= cursor} /\ LastSeen <= cursor
    BY <1>0, <2>1 DEF PageInvariant, Streaming
  <2>8. NothingSkipped' /\ DeliveredUpToHorizon'
    BY <1>0, <2>1, ClientUntouched DEF NothingSkipped, DeliveredUpToHorizon
  <2>9. PageInvariant'
    <3>1. cursor' <= Len(log') /\ LastSeen' <= Len(log') /\ horizon' <= Len(log')
      BY <1>0, <1>t, <2>1, <2>2, <2>5, ClientUntouched DEF PageInvariant
    <3>2. Seen' \cup page' = {k \in Mine' : k <= cursor'}
      BY <2>1, <2>5, <2>6, <2>7, ClientUntouched
    <3>3. LastSeen' <= cursor' /\ \A k \in page' : k > LastSeen'
      <4>1. LastSeen' = LastSeen /\ page' = P /\ cursor' = top
        BY <2>1, <2>5, ClientUntouched
      <4>2. \A k \in P : k \in Nat /\ k > LastSeen
        BY <1>t, <2>2, <2>7, <2>a
      <4> QED BY <1>t, <2>5, <4>1, <4>2
    <3> QED BY <2>1, <3>1, <3>2, <3>3 DEF PageInvariant
  <2> QED BY <2>8, <2>9
<1>5. CASE CaughtUp
  <2>1. /\ UNCHANGED <<log, got, page, cursor>> /\ horizon' = Len(log)
        /\ pc = "reading" /\ pc' = "asking" /\ ListEvents(cursor, PageSize) = {}
    BY <1>5 DEF CaughtUp
  <2>2. \A i \in Mine : i <= cursor
    BY <1>t, <2>1, EmptyPageIsTheEnd
  <2>3. Seen = Mine
    BY <1>0, <2>1, <2>2 DEF PageInvariant, Streaming
  <2> QED BY <1>0, <1>t, <2>1, <2>2, <2>3, ClientUntouched
          DEF NothingSkipped, PageInvariant, DeliveredUpToHorizon, Streaming
<1>6. CASE ReadFails \/ AskState \/ AskFails \/ WakeUp
  <2>1. /\ UNCHANGED <<log, got, page, cursor, horizon>>
        /\ pc \in Streaming \ {"sending"} /\ pc' # "sending"
    BY <1>6 DEF ReadFails, AskState, AskFails, WakeUp, Streaming
  <2> QED BY <1>0, <2>1, ClientUntouched DEF NothingSkipped, PageInvariant, DeliveredUpToHorizon
<1>7. CASE SendEvent
  <2>1. PICK i \in page :
          /\ \A j \in page : i <= j
          /\ got' = Append(got, i) /\ page' = page \ {i}
          /\ pc' = IF page = {i} THEN "reading" ELSE "sending"
          /\ pc = "sending" /\ UNCHANGED <<log, cursor, horizon>>
    BY <1>7 DEF SendEvent
  <2>2. i \in Nat /\ i > LastSeen /\ i \in Mine /\ i <= cursor
    BY <1>0, <1>t, <2>1 DEF PageInvariant, Streaming
  <2>a. /\ Len(got') = Len(got) + 1 /\ got'[Len(got')] = i /\ got' # <<>>
        /\ DOMAIN got' = DOMAIN got \cup {Len(got')} /\ \A n \in DOMAIN got : got'[n] = got[n]
    BY <1>t, <2>1, <2>2
  <2>b. LastSeen' = i
    BY <2>a DEF LastSeen
  <2>c. Seen' = Seen \cup {i}
    BY <2>a DEF Seen
  <2>d. Mine' = Mine
    BY <2>1 DEF Mine, Rows
  <2>3. LastSeen' = i /\ Seen' = Seen \cup {i} /\ Mine' = Mine
    BY <2>b, <2>c, <2>d
  <2>4. \A n \in DOMAIN got : got[n] <= LastSeen
    BY <1>0, <1>t DEF NothingSkipped, Seen
  <2>5. \A m, n \in DOMAIN got' : m < n => got'[m] < got'[n]
    BY <1>0, <1>t, <2>1, <2>2, <2>4 DEF NothingSkipped
  <2>6. Seen \cup page = {k \in Mine : k <= cursor}
    BY <1>0, <2>1 DEF PageInvariant, Streaming
  <2>7. Seen' = {k \in Mine : k <= i}
    <3>1. Seen = {k \in Mine : k <= LastSeen}
      BY <1>0 DEF NothingSkipped
    <3>2. \A k \in Mine : k <= i => k \in Seen \cup {i}
      BY <1>t, <2>1, <2>2, <2>6
    <3>3. \A k \in Seen : k \in Mine /\ k <= i
      BY <1>t, <2>2, <3>1
    <3>4. \A k \in Mine : k <= i => k \in Seen'
      BY <2>3, <3>2
    <3>5. \A k \in Seen' : k \in Mine /\ k <= i
      BY <2>2, <2>3, <3>3
    <3> QED BY <3>4, <3>5
  <2>8. NothingSkipped'
    BY <2>3, <2>5, <2>7 DEF NothingSkipped
  <2>9. PageInvariant'
    <3>1. cursor' <= Len(log') /\ LastSeen' <= Len(log') /\ horizon' <= Len(log')
      BY <1>0, <1>t, <2>1, <2>2, <2>3 DEF PageInvariant
    <3>2. Seen' \cup page' = {k \in Mine' : k <= cursor'}
      BY <2>1, <2>3, <2>6
    <3>3. LastSeen' <= cursor' /\ \A k \in page' : k > LastSeen'
      BY <1>t, <2>1, <2>2, <2>3
    <3>4. (pc' # "sending" => page' = {}) /\ (pc' = "sending" => page' # {})
      BY <2>1
    <3> QED BY <3>1, <3>2, <3>3, <3>4 DEF PageInvariant
  <2>10. DeliveredUpToHorizon'
    BY <1>0, <2>1, <2>3 DEF DeliveredUpToHorizon
  <2> QED BY <2>8, <2>9, <2>10
<1>8. CASE Disconnect
  <2>1. UNCHANGED <<log, got, cursor, horizon>> /\ pc' = "away" /\ page' = {}
    BY <1>8 DEF Disconnect
  <2> QED BY <1>0, <2>1, ClientUntouched
          DEF NothingSkipped, PageInvariant, DeliveredUpToHorizon, Streaming
<1> QED BY <1>1, <1>2, <1>3, <1>4, <1>5, <1>6, <1>7, <1>8 DEF Next, Poll

\* The inductive invariant holds in every behaviour.
THEOREM IInvHolds == Spec => []IInv
<1>1. Init => IInv
  <2> SUFFICES ASSUME Init PROVE IInv
    OBVIOUS
  <2>1. log = <<>> /\ got = <<>> /\ page = {} /\ pc = "away" /\ cursor = 0 /\ horizon = 0
    BY DEF Init
  <2>2. Seen = {} /\ Mine = {} /\ LastSeen = 0
    BY <2>1 DEF Seen, Mine, Rows, LastSeen
  <2>3. TypeOK
    BY TypeInit
  <2> QED BY <2>1, <2>2, <2>3
          DEF IInv, NothingSkipped, PageInvariant, DeliveredUpToHorizon, Streaming
<1> QED BY <1>1, IInvNext, PTL DEF Spec

\* A client receives the events of its task in order, once, and without a gap, however
\* often its stream breaks and however often the reads of the stream fail.
THEOREM NoEventIsSkipped == Spec => []NothingSkipped
<1>1. IInv => NothingSkipped
  BY DEF IInv
<1> QED BY <1>1, IInvHolds, PTL

\* A stream that ended lacks nothing that was written before its last empty page.
THEOREM ClosedStreamsLackTheTailOnly == Spec => []DeliveredUpToHorizon
<1>1. IInv => DeliveredUpToHorizon
  BY DEF IInv
<1> QED BY <1>1, IInvHolds, PTL
=============================================================================
