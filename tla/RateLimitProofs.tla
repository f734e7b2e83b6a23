-------------------------- MODULE RateLimitProofs --------------------------
(***************************************************************************)
(* Proofs about RateLimit, for any callers, ids, limit and time slices, and *)
(* however often the clock is set back.                                    *)
(***************************************************************************)
EXTENDS RateLimit, TLAPS

\* A caller waits in one place: once in the queue or in hand.
QueueInv ==
  /\ \A j \in 1..Len(requests) : asks[requests[j]] # None /\ requests[j] # serving
  /\ \A j, k \in 1..Len(requests) : requests[j] = requests[k] => j = k

\* How often an id may have been let through in a slice. A slice that is over
\* has had its share since the clock was last set back, one that is to come has
\* not, and of the present one seen says how much is used up, once seen is about
\* it.
Share(s, i) ==
  IF s < now THEN MaxCount * backs + MaxCount
  ELSE IF s = now /\ lastSlice = now THEN MaxCount * backs + seen[i]
  ELSE MaxCount * backs

CountInv ==
  /\ \A s \in Slice, i \in Id : allowed[s][i] <= Share(s, i)
  /\ lastSlice # None => \A i \in Id : seen[i] <= allowed[lastSlice][i]

Inv == TypeOK /\ QueueInv /\ CountInv

-----------------------------------------------------------------------------
\* Shares only grow with the times that the clock was set back.
LEMMA ShareFacts ==
  ASSUME TypeOK
  PROVE  /\ MaxCount * backs \in Nat
         /\ MaxCount * (backs + 1) = MaxCount * backs + MaxCount
         /\ \A s \in Slice, i \in Id :
              Share(s, i) \in Nat /\ Share(s, i) <= MaxCount * backs + MaxCount
<1>1. MaxCount \in Nat /\ backs \in Nat
  BY RateLimitAssumption DEF TypeOK
<1>2. PICK m \in Nat : m = MaxCount * backs
  BY <1>1
<1>3. MaxCount * (backs + 1) = MaxCount * backs + MaxCount
  BY <1>1
<1>4. \A i \in Id : seen[i] \in Nat /\ seen[i] <= MaxCount
  BY <1>1 DEF TypeOK
<1> QED
  BY <1>1, <1>2, <1>3, <1>4 DEF Share

\* A request in hand is about an id.
LEMMA ServingFacts ==
  ASSUME TypeOK, serving # None
  PROVE  serving \in Caller /\ asks[serving] \in Id
  BY DEF TypeOK

\* The answer takes a caller out of the limiter, and counts what is let through.
LEMMA RespondFacts ==
  ASSUME Inv, serving # None, NEW limited \in BOOLEAN, Respond(limited)
  PROVE  /\ answer' \in [Caller -> BOOLEAN]
         /\ asks' \in [Caller -> Id \cup {None}]
         /\ serving' = None
         /\ QueueInv'
         /\ allowed' \in [Slice -> [Id -> Nat]]
         /\ limited \/ dryrun => allowed' = allowed
         /\ ~limited /\ ~dryrun =>
              \A s \in Slice, i \in Id :
                allowed'[s][i] = IF s = now /\ i = asks[serving] THEN allowed[s][i] + 1
                                 ELSE allowed[s][i]
         /\ UNCHANGED <<dryrun, requests, now, backs>>
<1> USE DEF Inv
<1>1. serving \in Caller /\ asks[serving] \in Id
  BY ServingFacts
<1>2. answer' \in [Caller -> BOOLEAN] /\ asks' \in [Caller -> Id \cup {None}] /\ serving' = None
      /\ UNCHANGED <<dryrun, requests, now, backs>>
  BY <1>1 DEF Respond, TypeOK
<1>3. QueueInv'
  <2>1. \A c \in Caller : c # serving => asks'[c] = asks[c]
    BY <1>1 DEF Respond, TypeOK
  <2>2. requests \in Seq(Caller) /\ requests' = requests
    BY <1>2 DEF TypeOK
  <2>3. ASSUME NEW j \in 1..Len(requests)
        PROVE  asks'[requests[j]] # None /\ requests[j] # serving'
    <3>1. requests[j] \in Caller /\ requests[j] # serving /\ asks[requests[j]] # None
      BY <2>2 DEF QueueInv
    <3>2. None \notin Caller
      BY RateLimitAssumption
    <3> QED BY <3>1, <3>2, <2>1, <1>2
  <2> QED BY <2>2, <2>3 DEF QueueInv
<1>4. CASE limited \/ dryrun
  BY <1>2, <1>3, <1>4 DEF Respond, TypeOK
<1>5. CASE ~(limited \/ dryrun)
  <2> DEFINE i == asks[serving]
             row == [allowed[now] EXCEPT ![i] = @ + 1]
  <2>1. now \in Slice /\ allowed \in [Slice -> [Id -> Nat]] /\ i \in Id
    BY <1>1 DEF TypeOK
  <2>2. allowed' = [allowed EXCEPT ![now] = row]
    BY <1>5 DEF Respond
  <2>3. row \in [Id -> Nat] /\ row[i] = allowed[now][i] + 1
        /\ \A j \in Id : j # i => row[j] = allowed[now][j]
    BY <2>1
  <2> HIDE DEF row
  <2>4. allowed' \in [Slice -> [Id -> Nat]] /\ allowed'[now] = row
        /\ \A s \in Slice : s # now => allowed'[s] = allowed[s]
    BY <2>1, <2>2, <2>3
  <2> QED BY <1>2, <1>3, <1>5, <2>3, <2>4
<1> QED
  BY <1>4, <1>5

-----------------------------------------------------------------------------
(* The invariant.                                                          *)

LEMMA InvInit == Init => Inv
<1> SUFFICES ASSUME Init PROVE Inv
  OBVIOUS
<1>1. MaxCount \in Nat /\ 0 \in Slice /\ Slice \subseteq Nat /\ None \notin Slice
  BY RateLimitAssumption
<1>2. TypeOK
  <2>1. requests \in Seq(Caller)
    BY DEF Init
  <2>2. seen \in [Id -> 0..MaxCount]
    BY <1>1 DEF Init
  <2>3. allowed \in [Slice -> [Id -> Nat]]
    BY DEF Init
  <2> QED BY <1>1, <2>1, <2>2, <2>3 DEF Init, TypeOK
<1>3. QueueInv
  BY DEF Init, QueueInv
<1>4. CountInv
  <2>1. \A s \in Slice, i \in Id : allowed[s][i] = 0
    BY DEF Init
  <2>2. lastSlice = None
    BY DEF Init
  <2> QED BY <1>2, <2>1, <2>2, ShareFacts DEF CountInv
<1> QED
  BY <1>2, <1>3, <1>4 DEF Inv

LEMMA InvCall ==
  ASSUME Inv, NEW c \in Caller, NEW i \in Id, IsRateLimited(c, i)
  PROVE  Inv'
<1> USE DEF Inv
<1>1. PICK n \in Nat : n = Len(requests)
  BY DEF TypeOK
<1>2. /\ asks[c] = None /\ asks' = [asks EXCEPT ![c] = i] /\ requests' = Append(requests, c)
      /\ answer' = [answer EXCEPT ![c] = FALSE]
      /\ UNCHANGED <<dryrun, serving, lastSlice, seen, now, backs, allowed>>
  BY DEF IsRateLimited
<1>3. i # None
  BY RateLimitAssumption
<1>4. asks' \in [Caller -> Id \cup {None}] /\ asks'[c] = i
      /\ \A d \in Caller : d # c => asks'[d] = asks[d]
  BY <1>2 DEF TypeOK
<1>5. requests \in Seq(Caller) /\ requests' \in Seq(Caller) /\ Len(requests') = n + 1
      /\ requests'[n + 1] = c /\ \A j \in 1..n : requests'[j] = requests[j] /\ requests[j] \in Caller
  BY <1>1, <1>2 DEF TypeOK
<1>6. serving # c /\ \A j \in 1..n : requests[j] # c
  <2>1. \A j \in 1..n : asks[requests[j]] # None
    BY <1>1 DEF QueueInv
  <2>2. serving # None => asks[serving] # None
    BY DEF TypeOK
  <2>3. c # None
    BY RateLimitAssumption
  <2> QED BY <1>2, <2>1, <2>2, <2>3
<1>7. TypeOK'
  <2>1. serving' # None => asks'[serving'] # None
    BY <1>2, <1>4, <1>6 DEF TypeOK
  <2>2. answer' \in [Caller -> BOOLEAN]
    BY <1>2 DEF TypeOK
  <2> QED BY <1>2, <1>4, <1>5, <2>1, <2>2 DEF TypeOK
<1>8. QueueInv'
  <2>1. \A j \in 1..(n + 1) : asks'[requests'[j]] # None /\ requests'[j] # serving
    <3>1. \A j \in 1..n : asks'[requests'[j]] # None /\ requests'[j] # serving
      BY <1>1, <1>4, <1>5, <1>6 DEF QueueInv
    <3>2. asks'[requests'[n + 1]] # None /\ requests'[n + 1] # serving
      BY <1>3, <1>4, <1>5, <1>6
    <3> QED BY <3>1, <3>2
  <2>2. \A j, k \in 1..(n + 1) : requests'[j] = requests'[k] => j = k
    BY <1>1, <1>5, <1>6 DEF QueueInv
  <2> QED BY <1>2, <1>5, <2>1, <2>2 DEF QueueInv
<1>9. CountInv'
  BY <1>2 DEF CountInv, Share
<1> QED
  BY <1>7, <1>8, <1>9

LEMMA InvReceive == ASSUME Inv, Receive PROVE Inv'
<1> USE DEF Inv
<1>1. PICK n \in Nat : n = Len(requests)
  BY DEF TypeOK
<1>2. /\ requests # <<>> /\ serving' = Head(requests) /\ requests' = Tail(requests)
      /\ UNCHANGED <<dryrun, asks, lastSlice, seen, answer, now, backs, allowed>>
  BY DEF Receive
<1>3. requests \in Seq(Caller) /\ n > 0
  BY <1>1, <1>2 DEF TypeOK
<1>4. /\ serving' = requests[1] /\ serving' \in Caller
      /\ requests' \in Seq(Caller) /\ Len(requests') = n - 1
      /\ \A j \in 1..(n - 1) : requests'[j] = requests[j + 1]
  BY <1>1, <1>2, <1>3
<1>5. asks[requests[1]] # None
  BY <1>1, <1>3 DEF QueueInv
<1>6. TypeOK'
  BY <1>2, <1>4, <1>5 DEF TypeOK
<1>7. QueueInv'
  <2>1. ASSUME NEW j \in 1..(n - 1)
        PROVE  asks'[requests'[j]] # None /\ requests'[j] # serving'
    <3>1. j + 1 \in 1..n /\ 1 \in 1..n /\ j + 1 # 1
      BY <1>1
    <3>2. requests[j + 1] # requests[1] /\ asks[requests[j + 1]] # None
      BY <3>1, <1>1 DEF QueueInv
    <3> QED BY <3>2, <1>2, <1>4
  <2>2. ASSUME NEW j \in 1..(n - 1), NEW k \in 1..(n - 1), requests'[j] = requests'[k]
        PROVE  j = k
    <3>1. j + 1 \in 1..n /\ k + 1 \in 1..n /\ requests[j + 1] = requests[k + 1]
      BY <2>2, <1>1, <1>4
    <3>2. j + 1 = k + 1
      BY <3>1, <1>1 DEF QueueInv
    <3> QED BY <3>2
  <2> QED BY <1>4, <2>1, <2>2 DEF QueueInv
<1>8. CountInv'
  BY <1>2 DEF CountInv, Share
<1> QED
  BY <1>6, <1>7, <1>8

LEMMA InvAllow == ASSUME Inv, Allow PROVE Inv'
<1> USE DEF Inv
<1>1. dryrun /\ serving # None /\ Respond(FALSE) /\ UNCHANGED <<lastSlice, seen>>
  BY DEF Allow
<1>2. /\ answer' \in [Caller -> BOOLEAN] /\ asks' \in [Caller -> Id \cup {None}]
      /\ serving' = None /\ QueueInv' /\ allowed' = allowed
      /\ UNCHANGED <<dryrun, requests, now, backs>>
  BY <1>1, RespondFacts
<1>3. TypeOK'
  BY <1>1, <1>2 DEF TypeOK
<1>4. CountInv'
  BY <1>1, <1>2 DEF CountInv, Share
<1> QED
  BY <1>2, <1>3, <1>4

\* The limiter turns its counts to the slice that the clock shows, in which
\* nothing has been let through since the clock was last set back.
LEMMA InvNewSlice == ASSUME Inv, NewSlice PROVE Inv'
<1> USE DEF Inv
<1>1. /\ ~dryrun /\ serving # None /\ lastSlice # now /\ lastSlice' = now /\ Respond(FALSE)
      /\ seen' = [i \in Id |-> IF i = asks[serving] THEN 1 ELSE 0]
  BY DEF NewSlice
<1>2. /\ answer' \in [Caller -> BOOLEAN] /\ asks' \in [Caller -> Id \cup {None}]
      /\ serving' = None /\ QueueInv' /\ allowed' \in [Slice -> [Id -> Nat]]
      /\ \A s \in Slice, i \in Id :
           allowed'[s][i] = IF s = now /\ i = asks[serving] THEN allowed[s][i] + 1
                            ELSE allowed[s][i]
      /\ UNCHANGED <<dryrun, requests, now, backs>>
  BY <1>1, RespondFacts
<1>3. MaxCount \in Nat /\ MaxCount > 0 /\ now \in Slice /\ Slice \subseteq Nat /\ None \notin Slice
  BY RateLimitAssumption DEF TypeOK
<1>4. seen' \in [Id -> 0..MaxCount]
  BY <1>1, <1>3
<1>5. TypeOK'
  BY <1>1, <1>2, <1>3, <1>4 DEF TypeOK
<1>6. ASSUME NEW s \in Slice, NEW i \in Id PROVE allowed'[s][i] <= Share(s, i)'
  <2>1. PICK m \in Nat : m = MaxCount * backs
    BY ShareFacts
  <2>2. s \in Nat /\ now \in Nat /\ allowed[s][i] \in Nat /\ allowed[s][i] <= Share(s, i)
    BY <1>3 DEF CountInv, TypeOK
  <2>3. CASE s = now
    <3>1. Share(s, i) = m /\ Share(s, i)' = m + seen'[i]
      BY <2>1, <2>2, <2>3, <1>1, <1>2 DEF Share
    <3>2. allowed'[s][i] = allowed[s][i] + seen'[i]
      BY <2>2, <2>3, <1>1, <1>2
    <3> QED BY <3>1, <3>2, <2>2, <1>1
  <2>4. CASE s # now
    <3>1. Share(s, i)' = Share(s, i) /\ allowed'[s][i] = allowed[s][i]
      BY <2>4, <1>2 DEF Share
    <3> QED BY <3>1, <2>2
  <2> QED BY <2>3, <2>4
<1>7. ASSUME NEW i \in Id PROVE seen'[i] <= allowed'[lastSlice'][i]
  <2>1. allowed[now][i] \in Nat
    BY <1>3 DEF TypeOK
  <2> QED BY <2>1, <1>1, <1>2, <1>3
<1>8. CountInv'
  BY <1>6, <1>7 DEF CountInv
<1> QED
  BY <1>2, <1>5, <1>8

LEMMA InvLimit == ASSUME Inv, Limit PROVE Inv'
<1> USE DEF Inv
<1>1. serving # None /\ Respond(TRUE) /\ UNCHANGED <<lastSlice, seen>>
  BY DEF Limit
<1>2. /\ answer' \in [Caller -> BOOLEAN] /\ asks' \in [Caller -> Id \cup {None}]
      /\ serving' = None /\ QueueInv' /\ allowed' = allowed
      /\ UNCHANGED <<dryrun, requests, now, backs>>
  BY <1>1, RespondFacts
<1>3. TypeOK'
  BY <1>1, <1>2 DEF TypeOK
<1>4. CountInv'
  BY <1>1, <1>2 DEF CountInv, Share
<1> QED
  BY <1>2, <1>3, <1>4

LEMMA InvCount == ASSUME Inv, Count PROVE Inv'
<1> USE DEF Inv
<1> DEFINE a == asks[serving]
<1>1. /\ ~dryrun /\ serving # None /\ lastSlice = now /\ lastSlice' = lastSlice
      /\ Respond(FALSE) /\ ~OverLimit(a) /\ seen' = [seen EXCEPT ![a] = @ + 1]
  BY DEF Count
<1>2. /\ answer' \in [Caller -> BOOLEAN] /\ asks' \in [Caller -> Id \cup {None}]
      /\ serving' = None /\ QueueInv' /\ allowed' \in [Slice -> [Id -> Nat]]
      /\ \A s \in Slice, i \in Id :
           allowed'[s][i] = IF s = now /\ i = a THEN allowed[s][i] + 1 ELSE allowed[s][i]
      /\ UNCHANGED <<dryrun, requests, now, backs>>
  BY <1>1, RespondFacts
<1>3. MaxCount \in Nat /\ now \in Slice /\ Slice \subseteq Nat /\ None \notin Slice
      /\ a \in Id /\ seen \in [Id -> 0..MaxCount] /\ allowed \in [Slice -> [Id -> Nat]]
  BY <1>1, ServingFacts, RateLimitAssumption DEF TypeOK
<1> HIDE DEF a
<1>4. /\ seen' \in [Id -> 0..MaxCount] /\ seen'[a] = seen[a] + 1
      /\ \A i \in Id : i # a => seen'[i] = seen[i]
  <2>1. seen[a] \in 0..MaxCount /\ seen[a] + 1 <= MaxCount
    BY <1>1, <1>3 DEF OverLimit
  <2>2. seen[a] + 1 \in 0..MaxCount
    BY <2>1, <1>3
  <2> QED BY <2>2, <1>1, <1>3
<1>5. TypeOK'
  BY <1>1, <1>2, <1>3, <1>4 DEF TypeOK
<1>6. ASSUME NEW s \in Slice, NEW i \in Id PROVE allowed'[s][i] <= Share(s, i)'
  <2>1. PICK m \in Nat : m = MaxCount * backs
    BY ShareFacts
  <2>2. s \in Nat /\ now \in Nat /\ allowed[s][i] \in Nat /\ allowed[s][i] <= Share(s, i)
        /\ seen[i] \in Nat /\ seen'[i] \in Nat
    BY <1>3, <1>4 DEF CountInv
  <2>3. CASE s = now
    <3>1. Share(s, i) = m + seen[i] /\ Share(s, i)' = m + seen'[i]
      BY <2>1, <2>2, <2>3, <1>1, <1>2 DEF Share
    <3> QED BY <3>1, <2>2, <2>3, <1>2, <1>4
  <2>4. CASE s # now
    <3>1. Share(s, i)' = Share(s, i) /\ allowed'[s][i] = allowed[s][i]
      BY <2>4, <1>2 DEF Share
    <3> QED BY <3>1, <2>2
  <2> QED BY <2>3, <2>4
<1>7. ASSUME NEW i \in Id PROVE seen'[i] <= allowed'[lastSlice'][i]
  <2>1. allowed[now][i] \in Nat /\ seen[i] \in Nat /\ seen[i] <= allowed[now][i]
    BY <1>1, <1>3 DEF CountInv
  <2> QED BY <2>1, <1>1, <1>2, <1>3, <1>4
<1>8. CountInv'
  BY <1>6, <1>7 DEF CountInv
<1> QED
  BY <1>2, <1>5, <1>8

\* A clock that goes on ends slices; one that is set back gives every slice its
\* share again.
LEMMA InvTick == ASSUME Inv, NEW t \in Slice, Tick(t) PROVE Inv'
<1> USE DEF Inv
<1>1. /\ t # now /\ now' = t /\ backs' = IF t < now THEN backs + 1 ELSE backs
      /\ UNCHANGED <<dryrun, requests, asks, serving, lastSlice, seen, answer, allowed>>
  BY DEF Tick
<1>2. t \in Nat /\ now \in Nat /\ backs \in Nat /\ MaxCount \in Nat /\ Slice \subseteq Nat
  BY RateLimitAssumption DEF TypeOK
<1>3. TypeOK'
  BY <1>1, <1>2 DEF TypeOK
<1>4. QueueInv'
  BY <1>1 DEF QueueInv
<1>5. ASSUME NEW s \in Slice, NEW i \in Id PROVE allowed'[s][i] <= Share(s, i)'
  <2>1. PICK m \in Nat : m = MaxCount * backs /\ MaxCount * (backs + 1) = m + MaxCount
    BY ShareFacts
  <2>2. /\ allowed[s][i] \in Nat /\ allowed[s][i] <= Share(s, i)
        /\ Share(s, i) \in Nat /\ Share(s, i) <= m + MaxCount
        /\ seen[i] \in Nat /\ seen[i] <= MaxCount /\ s \in Nat
    BY <2>1, <1>2, ShareFacts DEF CountInv, TypeOK
  <2>3. CASE t < now
    <3>1. MaxCount * backs' = m + MaxCount
      BY <2>1, <2>3, <1>1
    <3>2. Share(s, i)' \in Nat /\ m + MaxCount <= Share(s, i)'
      BY <3>1, <2>2, <1>1, <1>2 DEF Share
    <3> QED BY <3>2, <2>2, <1>1, <1>2
  <2>4. CASE t > now
    <3>1. MaxCount * backs' = m /\ now' = t /\ lastSlice' = lastSlice /\ seen' = seen
      BY <2>1, <2>4, <1>1, <1>2
    <3>2. Share(s, i) <= Share(s, i)' /\ Share(s, i)' \in Nat
      BY <3>1, <2>1, <2>2, <2>4, <1>2 DEF Share
    <3> QED BY <3>2, <2>2, <1>1
  <2> QED BY <2>3, <2>4, <1>1, <1>2
<1>6. CountInv'
  BY <1>1, <1>5 DEF CountInv
<1> QED
  BY <1>3, <1>4, <1>6

\* One lemma per step of the callers, of the goroutine's loop and of the clock.
LEMMA InvNext == Inv /\ [Next]_vars => Inv'
<1> SUFFICES ASSUME Inv, [Next]_vars PROVE Inv'
  OBVIOUS
<1>1. CASE UNCHANGED vars
  BY <1>1 DEF vars, Inv, TypeOK, QueueInv, CountInv, Share
<1> QED
  BY <1>1, InvCall, InvReceive, InvAllow, InvNewSlice, InvLimit, InvCount, InvTick
     DEF Next, Run

\* The goroutine of the rate limiter and its callers keep the inductive invariant,
\* for every number of callers and ids and every limit.
THEOREM Invariance == SafetySpec => []Inv
  BY InvInit, InvNext, PTL DEF SafetySpec

\* Type correctness: in particular, the request in hand is that of a caller that
\* still waits.
THEOREM TypeCorrect == SafetySpec => []TypeOK
<1>1. Inv => TypeOK
  BY DEF Inv
<1> QED
  BY <1>1, Invariance, PTL

\* For every limit, an id is let through that often in a slice, and again each
\* time the clock was set back, however the requests queue up.
THEOREM LimitKept == SafetySpec => []LimitHolds
<1>1. ASSUME Inv PROVE LimitHolds
  <2>1. ASSUME NEW s \in Slice, NEW i \in Id
        PROVE  allowed[s][i] <= MaxCount * (backs + 1)
    <3>1. PICK m \in Nat : m = MaxCount * backs + MaxCount
      BY <1>1, ShareFacts, RateLimitAssumption DEF Inv
    <3>2. allowed[s][i] \in Nat /\ Share(s, i) \in Nat /\ allowed[s][i] <= Share(s, i)
          /\ Share(s, i) <= m /\ MaxCount * (backs + 1) = m
      BY <1>1, <3>1, ShareFacts DEF Inv, CountInv, TypeOK
    <3> QED BY <3>1, <3>2
  <2> QED BY <2>1 DEF LimitHolds
<1> QED
  BY <1>1, Invariance, PTL

LEMMA LimitedStep ==
  ASSUME Inv, [Next]_vars, NEW c \in Caller, answer'[c], ~answer[c]
  PROVE  allowed[now][asks[c]] >= MaxCount
<1> USE DEF Inv
<1>1. answer \in [Caller -> BOOLEAN]
  BY DEF TypeOK
<1>2. ASSUME Respond(FALSE), serving # None PROVE FALSE
  <2>1. answer' = [answer EXCEPT ![serving] = FALSE] /\ serving \in Caller
    BY <1>2, ServingFacts DEF Respond
  <2>2. answer'[c] = answer[c] \/ answer'[c] = FALSE
    BY <2>1, <1>1
  <2> QED BY <2>2
<1>3. CASE Limit
  <2>1. answer' = [answer EXCEPT ![serving] = TRUE] /\ serving # None /\ lastSlice = now
        /\ OverLimit(asks[serving])
    BY <1>3 DEF Limit, Respond
  <2>2. c = serving
    <3>1. c # serving => answer'[c] = answer[c]
      BY <2>1, <1>1
    <3> QED BY <3>1
  <2>3. asks[c] \in Id /\ seen[asks[c]] \in 0..MaxCount /\ MaxCount \in Nat /\ now \in Slice /\ now # None
    BY <2>1, <2>2, ServingFacts, RateLimitAssumption DEF TypeOK
  <2>4. seen[asks[c]] <= allowed[now][asks[c]] /\ allowed[now][asks[c]] \in Nat
    BY <2>1, <2>3 DEF CountInv, TypeOK
  <2> QED BY <2>1, <2>2, <2>3, <2>4 DEF OverLimit
<1>4. ASSUME NEW d \in Caller, NEW i \in Id, IsRateLimited(d, i) PROVE FALSE
  <2>1. answer'[c] = answer[c] \/ answer'[c] = FALSE
    BY <1>1, <1>4 DEF IsRateLimited
  <2> QED BY <2>1
<1>5. CASE Receive \/ (\E t \in Slice : Tick(t)) \/ UNCHANGED vars
  BY <1>5 DEF Receive, Tick, vars
<1>6. CASE Allow \/ NewSlice \/ Count
  BY <1>2, <1>6 DEF Allow, NewSlice, Count
<1> QED
  BY <1>3, <1>4, <1>5, <1>6 DEF Next, Run

\* A request is turned away only when its id has had its share of the slice in
\* which the answer is given.
THEOREM TurnedAwayAtLimit == SafetySpec => LimitedOnlyAtLimit
<1>1. Inv /\ [Next]_vars =>
        [\A c \in Caller : answer'[c] /\ ~answer[c] => allowed[now][asks[c]] >= MaxCount]_vars
  BY LimitedStep
<1> QED
  BY <1>1, Invariance, PTL DEF SafetySpec, LimitedOnlyAtLimit
=============================================================================
