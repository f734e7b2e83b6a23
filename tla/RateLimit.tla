----------------------------- MODULE RateLimit -----------------------------
(***************************************************************************)
(* lib/ratelimit: requests ask one goroutine over an unbuffered channel    *)
(* whether their id is over its limit. The goroutine reads the wall clock  *)
(* when it serves a request, not when the request was made; Truncate       *)
(* strips the monotonic reading, so that the clock may be set back.        *)
(***************************************************************************)
EXTENDS Naturals, Sequences

CONSTANTS
  Caller,    \* goroutines that call IsRateLimited, one call at a time
  Id,        \* addresses
  MaxCount,
  Slice,     \* bound: the time slices of the run
  MaxBacks,  \* bound: how often the clock is set back
  None

ASSUME RateLimitAssumption ==
  /\ MaxCount \in Nat \ {0}
  /\ Slice \subseteq Nat /\ 0 \in Slice
  /\ MaxBacks \in Nat
  /\ None \notin Caller \cup Id \cup Slice

VARIABLES
  dryrun,
  requests,   \* callers blocked on the channel, first come first served
  asks,       \* the id each caller asks about
  serving,    \* the caller whose request is in hand
  lastSlice, seen,
  answer,     \* was the caller told that it is limited?
  now, backs, \* the clock, and how often it was set back
  allowed     \* requests let through by the enabled limiter

vars == <<dryrun, requests, asks, serving, lastSlice, seen, answer, now, backs, allowed>>

Init ==
  /\ dryrun \in BOOLEAN
  /\ requests = <<>>
  /\ asks = [c \in Caller |-> None]
  /\ serving = None
  /\ lastSlice = None
  /\ seen = [i \in Id |-> 0]
  /\ answer = [c \in Caller |-> FALSE]
  /\ now = 0 /\ backs = 0
  /\ allowed = [s \in Slice |-> [i \in Id |-> 0]]

IsRateLimited(c, i) ==
  /\ asks[c] = None
  /\ asks' = [asks EXCEPT ![c] = i]
  /\ requests' = Append(requests, c)
  /\ answer' = [answer EXCEPT ![c] = FALSE]
  /\ UNCHANGED <<dryrun, serving, lastSlice, seen, now, backs, allowed>>

\* Mutant: the last to come is served first.
MutLastFirst ==
  /\ serving = None /\ requests # <<>>
  /\ serving' = requests[Len(requests)]
  /\ requests' = SubSeq(requests, 1, Len(requests) - 1)
  /\ UNCHANGED <<dryrun, asks, lastSlice, seen, answer, now, backs, allowed>>

Receive ==
  /\ serving = None /\ requests # <<>>
  /\ serving' = Head(requests)
  /\ requests' = Tail(requests)
  /\ UNCHANGED <<dryrun, asks, lastSlice, seen, answer, now, backs, allowed>>

\* r.resp <- limited, to a caller that waits for it.
Respond(limited) ==
  /\ answer' = [answer EXCEPT ![serving] = limited]
  /\ asks' = [asks EXCEPT ![serving] = None]
  /\ serving' = None
  /\ allowed' = IF limited \/ dryrun THEN allowed
                ELSE [allowed EXCEPT ![now][asks[serving]] = @ + 1]
  /\ UNCHANGED <<dryrun, requests, now, backs>>

\* The loop that allows everything.
Allow ==
  /\ dryrun /\ serving # None
  /\ Respond(FALSE)
  /\ UNCHANGED <<lastSlice, seen>>

\* Mutant: the map survives the change of the slice.
MutSeenKept ==
  /\ ~dryrun /\ serving # None /\ lastSlice # now
  /\ lastSlice' = now
  /\ seen' = [seen EXCEPT ![asks[serving]] = 1]
  /\ Respond(FALSE)

\* The first request of a slice drops the counts of the last one.
NewSlice ==
  /\ ~dryrun /\ serving # None /\ lastSlice # now
  /\ lastSlice' = now
  /\ seen' = [i \in Id |-> IF i = asks[serving] THEN 1 ELSE 0]
  /\ Respond(FALSE)

\* Mutant: off by one.
MutOverLimit(i) == seen[i] > MaxCount

OverLimit(i) == seen[i] + 1 > MaxCount

Limit ==
  /\ ~dryrun /\ serving # None /\ lastSlice = now
  /\ OverLimit(asks[serving])
  /\ Respond(TRUE)
  /\ UNCHANGED <<lastSlice, seen>>

Count ==
  /\ ~dryrun /\ serving # None /\ lastSlice = now
  /\ ~OverLimit(asks[serving])
  /\ seen' = [seen EXCEPT ![asks[serving]] = @ + 1]
  /\ Respond(FALSE)
  /\ UNCHANGED lastSlice

\* time.Now().Truncate(TimesliceBlock)
Tick(t) ==
  /\ t # now
  /\ t < now => backs < MaxBacks
  /\ now' = t
  /\ backs' = IF t < now THEN backs + 1 ELSE backs
  /\ UNCHANGED <<dryrun, requests, asks, serving, lastSlice, seen, answer, allowed>>

\* The goroutine that Run starts.
Run == Receive \/ Allow \/ NewSlice \/ Limit \/ Count

Next ==
  \/ \E c \in Caller, i \in Id : IsRateLimited(c, i)
  \/ Run
  \/ \E t \in Slice : Tick(t)

SafetySpec == Init /\ [][Next]_vars

Spec == SafetySpec /\ WF_vars(Run)

-----------------------------------------------------------------------------
\* Type correctness.
TypeOK ==
  /\ dryrun \in BOOLEAN
  /\ requests \in Seq(Caller)
  /\ asks \in [Caller -> Id \cup {None}]
  /\ serving \in Caller \cup {None}
  /\ serving # None => asks[serving] # None
  /\ lastSlice \in Slice \cup {None}
  /\ seen \in [Id -> 0..MaxCount]
  /\ answer \in [Caller -> BOOLEAN]
  /\ now \in Slice /\ backs \in Nat
  /\ allowed \in [Slice -> [Id -> Nat]]

\* However requests queue up while the clock goes on, an id is let through
\* MaxCount times in a slice, and that often again for each time the clock was
\* set back (MaxCount "to enforce within the timeslice").
LimitHolds ==
  \A s \in Slice, i \in Id : allowed[s][i] <= MaxCount * (backs + 1)

\* A request is turned away only if its id has been let through MaxCount times
\* in the slice in which the answer is given: no count is left over from
\* another slice or belongs to another id.
LimitedOnlyAtLimit ==
  [][\A c \in Caller : answer'[c] /\ ~answer[c] => allowed[now][asks[c]] >= MaxCount]_vars

\* Every caller gets its answer (IsRateLimited blocks twice).
EveryCallerAnswered == \A c \in Caller : asks[c] # None ~> asks[c] = None
=============================================================================
