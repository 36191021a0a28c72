----------------------------- MODULE ModelCalls ------------------------------
(***************************************************************************)
(* The calls of one process to its model providers (gitai-llm): a permit   *)
(* per provider, requests with retries and backoff, and the loop of        *)
(* complete_json, which asks again when an answer is not the JSON it       *)
(* wants.  The attempts of a round and the reviewers call at the same time *)
(* and share the permits.                                                  *)
(*                                                                         *)
(* A request is one action: what the provider makes of it is a choice.     *)
(* Prompts and answers are left out but for what the code tells apart.     *)
(***************************************************************************)
EXTENDS Integers, Sequences, FiniteSets

CONSTANTS
  Callers,       \* the tasks of the runtime that ask models
  Providers,
  ProviderOf,    \* the provider of the model a caller asks
  Concurrency,   \* [providers.*] concurrency
  MaxRetries,    \* [providers.*] max_retries
  Repairs,       \* how often complete_json asks again
  RetryAfters,   \* the seconds that each provider may name in Retry-After
  MaxCalls,      \* bound: calls of a caller
  None

ASSUME CallAssumption ==
  /\ IsFiniteSet(Callers)
  /\ ProviderOf \in [Callers -> Providers]
  /\ Concurrency \in [Providers -> Nat]
  /\ MaxRetries \in [Providers -> Nat]
  /\ Repairs \in Nat /\ MaxCalls \in Nat
  /\ RetryAfters \in [Providers -> SUBSET Nat] /\ None \notin Nat

VARIABLES
  pc,         \* what a caller does
  queue,      \* the callers that wait for a permit of a provider, in order
  free,       \* the permits of a provider that nobody holds
  asked,      \* complete_json: the repairs asked for
  try,        \* the number of the request within one complete
  wait,       \* the seconds a caller sleeps before the next request
  total,      \* complete_json: the answers counted so far
  requests,   \* history: requests of the current call
  slept,      \* history: seconds slept in the current call
  unanswered, \* history: requests that ended without a usable status, over all calls
  billed,     \* history: answers the provider charged to the caller, over all calls
  ledger,     \* history: answers in the spend that was returned, over all calls
  failed,     \* history: calls that returned an error
  calls       \* history: calls begun

limits == <<queue, free>>
call == <<asked, try, wait, total, requests, slept>>
history == <<unanswered, billed, ledger, failed, calls>>
vars == <<pc, limits, call, history>>

-----------------------------------------------------------------------------

LowerOf(a, b) == IF a <= b THEN a ELSE b

PowerOfTwo(n) == <<1, 2, 4, 8, 16>>[n + 1]

\* backoff_delay: doubling up to 30 seconds; a Retry-After wins and counts up to 60.
BackoffDelay(attempt, retryAfter) ==
  IF retryAfter # None THEN LowerOf(retryAfter, 60)
  ELSE IF attempt < 5 THEN PowerOfTwo(attempt) ELSE 30

\* build: Semaphore::new(concurrency.max(1))
Permits(p) == IF Concurrency[p] = 0 THEN 1 ELSE Concurrency[p]

\* A permit is held from its acquisition to the end of complete, the sleeps included.
Holders(p) == {c \in Callers : ProviderOf[c] = p /\ pc[c] \in {"asking", "sleeping"}}

-----------------------------------------------------------------------------

Init ==
  /\ pc = [c \in Callers |-> "idle"]
  /\ queue = [p \in Providers |-> <<>>]
  /\ free = [p \in Providers |-> Permits(p)]
  /\ asked = [c \in Callers |-> 0] /\ try = [c \in Callers |-> 0]
  /\ wait = [c \in Callers |-> 0] /\ total = [c \in Callers |-> 0]
  /\ requests = [c \in Callers |-> 0] /\ slept = [c \in Callers |-> 0]
  /\ unanswered = [c \in Callers |-> 0]
  /\ billed = [c \in Callers |-> 0] /\ ledger = [c \in Callers |-> 0]
  /\ failed = [c \in Callers |-> 0] /\ calls = [c \in Callers |-> 0]

Goes(c, phase) == pc' = [pc EXCEPT ![c] = phase]

Counts(counter, c) == [counter EXCEPT ![c] = @ + 1]

\* The semaphore serves its waiters in the order in which they came.
Enqueue(c) == queue' = [queue EXCEPT ![ProviderOf[c]] = Append(@, c)]

Release(c) == free' = [free EXCEPT ![ProviderOf[c]] = @ + 1]

\* A role asks: complete_json begins with nothing counted.
Call(c) ==
  /\ pc[c] = "idle" /\ calls[c] < MaxCalls
  /\ Goes(c, "queued") /\ Enqueue(c)
  /\ asked' = [asked EXCEPT ![c] = 0] /\ total' = [total EXCEPT ![c] = 0]
  /\ requests' = [requests EXCEPT ![c] = 0] /\ slept' = [slept EXCEPT ![c] = 0]
  /\ calls' = Counts(calls, c)
  /\ UNCHANGED <<free, try, wait, unanswered, billed, ledger, failed>>

\* complete: limit.acquire()
Acquire(c) ==
  LET p == ProviderOf[c]
  IN  /\ pc[c] = "queued" /\ free[p] > 0
      /\ queue[p] # <<>> /\ Head(queue[p]) = c
      /\ queue' = [queue EXCEPT ![p] = Tail(@)]
      /\ free' = [free EXCEPT ![p] = @ - 1]
      /\ try' = [try EXCEPT ![c] = 0]
      /\ Goes(c, "asking")
      /\ UNCHANGED <<asked, wait, total, requests, slept, history>>

\* Mutant of FailCall: an error leaves the permit behind.
FailCallKeepingPermit(c) ==
  /\ Goes(c, "idle") /\ failed' = Counts(failed, c)
  /\ UNCHANGED limits

\* An error leaves complete and complete_json, drops the permit, and takes the spend that
\* was counted with it.
FailCall(c) ==
  /\ Goes(c, "idle") /\ failed' = Counts(failed, c)
  /\ Release(c) /\ UNCHANGED queue

\* A request that is to be sent again: what became of it at the provider nobody knows, it may
\* have been answered there, and charged.
SleepFor(c, seconds) ==
  /\ Goes(c, "sleeping") /\ wait' = [wait EXCEPT ![c] = seconds]
  /\ requests' = Counts(requests, c) /\ unanswered' = Counts(unanswered, c)
  /\ billed' \in {billed, Counts(billed, c)}
  /\ UNCHANGED <<limits, asked, try, total, slept, ledger, failed, calls>>

\* The connection fails, or the client's timeout ends the request.
SendFails(c) == pc[c] = "asking" /\ SleepFor(c, BackoffDelay(try[c], None))

\* 408, 409, 425, 429 and 5xx.
Busy(c, retryAfter) == pc[c] = "asking" /\ SleepFor(c, BackoffDelay(try[c], retryAfter))

\* Any other status but 2xx is final. What is refused is not charged for.
Refused(c) ==
  /\ pc[c] = "asking" /\ FailCall(c)
  /\ requests' = Counts(requests, c)
  /\ UNCHANGED <<asked, try, wait, total, slept, unanswered, billed, ledger, calls>>

\* 2xx that is of no use: a body that is cut off or has no choice, or an answer that stopped
\* at its output limit ("length", and "max_tokens" of Anthropic). It was charged for.
Useless(c) ==
  /\ pc[c] = "asking" /\ FailCall(c)
  /\ requests' = Counts(requests, c) /\ billed' = Counts(billed, c)
  /\ UNCHANGED <<asked, try, wait, total, slept, unanswered, ledger, calls>>

\* Mutant of Parsed: only the last answer of the call is counted.
ParsedCountingTheLast(c) ==
  /\ pc[c] = "asking" /\ Goes(c, "idle") /\ Release(c)
  /\ requests' = Counts(requests, c) /\ billed' = Counts(billed, c)
  /\ ledger' = [ledger EXCEPT ![c] = @ + 1]
  /\ UNCHANGED <<queue, asked, try, wait, total, slept, unanswered, failed, calls>>

\* The answer is the JSON that was asked for: the call returns with what it cost.
Parsed(c) ==
  /\ pc[c] = "asking" /\ Goes(c, "idle") /\ Release(c)
  /\ requests' = Counts(requests, c) /\ billed' = Counts(billed, c)
  /\ ledger' = [ledger EXCEPT ![c] = @ + total[c] + 1]
  /\ total' = Counts(total, c)
  /\ UNCHANGED <<queue, asked, try, wait, slept, unanswered, failed, calls>>

\* It is not: the loop asks again, and stands in line for a new permit.
AskAgain(c) ==
  /\ pc[c] = "asking" /\ asked[c] < Repairs
  /\ Goes(c, "queued") /\ Release(c) /\ Enqueue(c)
  /\ asked' = Counts(asked, c) /\ total' = Counts(total, c)
  /\ requests' = Counts(requests, c) /\ billed' = Counts(billed, c)
  /\ UNCHANGED <<try, wait, slept, unanswered, ledger, failed, calls>>

OutOfRepairs(c) ==
  /\ pc[c] = "asking" /\ asked[c] = Repairs
  /\ FailCall(c)
  /\ total' = Counts(total, c)
  /\ requests' = Counts(requests, c) /\ billed' = Counts(billed, c)
  /\ UNCHANGED <<asked, try, wait, slept, unanswered, ledger, calls>>

\* Mutant of TryAgain: one request too many.
TryOnceMore(c) ==
  /\ pc[c] = "sleeping" /\ try[c] <= MaxRetries[ProviderOf[c]]
  /\ Goes(c, "asking") /\ try' = Counts(try, c)
  /\ slept' = [slept EXCEPT ![c] = @ + wait[c]]
  /\ UNCHANGED <<limits, asked, wait, total, requests, history>>

\* for attempt in 0..=max_retries
TryAgain(c) ==
  /\ pc[c] = "sleeping" /\ try[c] < MaxRetries[ProviderOf[c]]
  /\ Goes(c, "asking") /\ try' = Counts(try, c)
  /\ slept' = [slept EXCEPT ![c] = @ + wait[c]]
  /\ UNCHANGED <<limits, asked, wait, total, requests, history>>

\* The loop sleeps behind the last request too before it gives up.
GiveUp(c) ==
  /\ pc[c] = "sleeping" /\ try[c] = MaxRetries[ProviderOf[c]]
  /\ FailCall(c)
  /\ slept' = [slept EXCEPT ![c] = @ + wait[c]]
  /\ UNCHANGED <<asked, try, wait, total, requests, unanswered, billed, ledger, calls>>

Advance(c) ==
  \/ Acquire(c)
  \/ SendFails(c) \/ Refused(c) \/ Useless(c)
  \/ \E retryAfter \in RetryAfters[ProviderOf[c]] \cup {None} : Busy(c, retryAfter)
  \/ Parsed(c) \/ AskAgain(c) \/ OutOfRepairs(c)
  \/ TryAgain(c) \/ GiveUp(c)

Next == \E c \in Callers : Call(c) \/ Advance(c)

Spec == Init /\ [][Next]_vars

\* A request has a timeout (timeout_secs) and a sleep an end, so a caller whose turn it is
\* goes on.
FairSpec == Spec /\ \A c \in Callers : WF_vars(Advance(c))

-----------------------------------------------------------------------------

\* The values each variable ranges over.
TypeOK ==
  /\ pc \in [Callers -> {"idle", "queued", "asking", "sleeping"}]
  /\ queue \in [Providers -> Seq(Callers)]
  /\ free \in [Providers -> Nat]
  /\ asked \in [Callers -> Nat] /\ try \in [Callers -> Nat]
  /\ wait \in [Callers -> Nat] /\ total \in [Callers -> Nat]
  /\ requests \in [Callers -> Nat] /\ slept \in [Callers -> Nat]
  /\ unanswered \in [Callers -> Nat]
  /\ billed \in [Callers -> Nat] /\ ledger \in [Callers -> Nat]
  /\ failed \in [Callers -> Nat] /\ calls \in [Callers -> Nat]

\* registry.rs, limits: "so a local runtime is not stampeded by a fan-out". However the calls
\* fail, retry and ask again, a provider never has more requests of this process than
\* its concurrency, and no permit is lost or made up.
InFlightBounded ==
  \A p \in Providers :
    /\ Cardinality(Holders(p)) <= Permits(p)
    /\ free[p] + Cardinality(Holders(p)) = Permits(p)

\* One call of a role costs a bounded number of requests and a bounded sleep, whatever the
\* provider answers: repairs and retries multiply, and nothing multiplies further.
RequestsOf(p) == (Repairs + 1) * (MaxRetries[p] + 1)
CallCostsBounded ==
  \A c \in Callers :
    /\ requests[c] <= RequestsOf(ProviderOf[c])
    /\ slept[c] <= 60 * RequestsOf(ProviderOf[c])

\* What was charged and does not show in the spend of the calls, which is all that the budgets
\* of a task see: the answers of calls that returned an error, at most one for each time such
\* a call asked, and at most one answer for each request that was given up as unanswered.
\* An answer that arrived in a call that returned one is always counted, JSON or not.
InHand(c) == IF pc[c] = "idle" THEN 0 ELSE total[c]
GapExplained(c) ==
  /\ ledger[c] + InHand(c) <= billed[c]
  /\ billed[c] <= ledger[c] + InHand(c) + failed[c] * (Repairs + 1) + unanswered[c]
LedgerGapIsExplained == \A c \in Callers : GapExplained(c)

\* How far a call has come: the repairs and retries behind it account for its requests, and
\* every repair for an answer that is counted and not returned yet.
Accounted(c) ==
  LET retries == MaxRetries[ProviderOf[c]]
  IN  /\ pc[c] # "idle" => asked[c] <= Repairs /\ total[c] = asked[c]
      /\ pc[c] = "queued" => requests[c] <= asked[c] * (retries + 1)
      /\ pc[c] = "asking" =>
           try[c] <= retries /\ requests[c] <= asked[c] * (retries + 1) + try[c]
      /\ pc[c] = "sleeping" =>
           /\ try[c] <= retries /\ requests[c] <= asked[c] * (retries + 1) + try[c] + 1
           /\ slept[c] + wait[c] <= 60 * requests[c]
      /\ slept[c] <= 60 * requests[c]
      /\ requests[c] <= RequestsOf(ProviderOf[c])

CallInvariant == \A c \in Callers : Accounted(c)

\* The inductive invariant.
IInv == TypeOK /\ InFlightBounded /\ CallInvariant /\ LedgerGapIsExplained

\* A call returns, with an answer or with an error, in spite of the calls before it in line.
EveryCallReturns == \A c \in Callers : pc[c] = "queued" ~> pc[c] = "idle"
=============================================================================
