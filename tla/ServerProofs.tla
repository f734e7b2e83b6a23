---------------------------- MODULE ServerProofs ----------------------------
(***************************************************************************)
(* Proofs about the server, its database and the chain: for any number of  *)
(* requests, users, sender keys and crashes, and any bodies that clients   *)
(* send. The theorems are about SafetySpec; no fairness is needed.         *)
(*                                                                         *)
(* None of the properties is inductive. What is missing is where each      *)
(* request stands (ReqInv), which request a transaction (TxInv), a row of  *)
(* accounts_secrets_2 (RowInv) and a nonce (NonceInv) go back to, and that *)
(* what the simulation found stays true (ChainInv).                        *)
(***************************************************************************)
EXTENDS Server, TLAPS, FiniteSetTheorems, SequenceTheorems

\* A transaction that request r made was accepted by the chain.
SentBy(r) == \E t \in sent : t.by = r

\* From where on the resolvers of mint and claim are, once authenticated.
Resolved == {"pick", "picked", "sign", "estimate", "nonce", "send", "track"}

\* Where a request may be whose transaction may have been sent.
PastSend == {"secret", "track", "alarm", "hung", "done", "failed", "lost"}

\* Where a request stands: its resolver makes this call at all, and the calls
\* before it did what they are for.
ReqInv(r) ==
  LET p == proc[r]
  IN  /\ p.pc \in Resolved => Op(r) # "secret"
      /\ p.pc = "sign" => Op(r) # "create"
      /\ p.pc = "secret" => Op(r) \in {"create", "secret"}
      /\ p.pc \in {"picked", "sign", "estimate", "nonce", "send"} => p.key \in SenderKey
      /\ p.authed => p.bearer \in Bearer /\ Stored(p.bearer.eoa, p.bearer.secret)
      /\ p.pc \in Resolved /\ Op(r) \in {"mint", "claim"} => p.authed
      /\ p.pc \in {"nonce", "send", "secret"} /\ Op(r) = "create" => p.body.signer = p.body.eoa
      /\ p.pc \in {"nonce", "send"} /\ Op(r) \in {"mint", "claim"} => p.bearer.eoa \in code
      /\ p.pc = "secret" /\ Op(r) = "secret" =>
           p.body.signer = p.body.eoa /\ (FeatureCheckCode => p.body.eoa \in code)
      /\ p.pc = "send" => p.nonce <= PendingNonceAt(p.key)
      /\ p.pc \in {"secret", "track"} /\ Op(r) # "secret" /\ ~Dry(r) => SentBy(r)
      /\ p.pc = "track" /\ Op(r) = "create" /\ ~Dry(r) => Stored(p.body.eoa, r)
      /\ p.pc = "done" /\ ~Dry(r) =>
           /\ Op(r) \in {"create", "secret"} => Stored(p.body.eoa, r)
           /\ Op(r) # "secret" => SentBy(r)

\* A transaction carries the call of a request that is past sending it, is no
\* dryrun and was either signed by the user or authenticated.
TxInv ==
  \A t \in sent :
    /\ proc[t.by].pc \in PastSend /\ ~Dry(t.by) /\ Op(t.by) # "secret"
    /\ t.call = CallOf(t.by)
    /\ Op(t.by) = "create" => proc[t.by].body.signer = proc[t.by].body.eoa
    /\ Op(t.by) # "create" => proc[t.by].authed

\* A secret was stored by a request of this user that this user signed.
RowInv ==
  \A row \in secrets :
    LET b == proc[row.secret].body
    IN  /\ proc[row.secret].pc # "idle" /\ ~b.dry
        /\ b.op \in {"create", "secret"} /\ b.eoa = row.eoa /\ b.signer = row.eoa
        /\ b.op = "create" => SentBy(row.secret)
        /\ b.op = "secret" /\ FeatureCheckCode => b.eoa \in code

\* Only what was sent is tracked.
TrackInv == \A r \in tracked : proc[r].pc # "idle" /\ ~Dry(r) /\ SentBy(r)

\* The account exists that an operation was sent to.
ChainInv == \A t \in sent : t.call.kind = "solve" => t.call.eoa \in code

\* The nonce of a stored secret is consumed.
NonceInv ==
  \A row \in secrets :
    LET b == proc[row.secret].body
    IN  b.op = "secret" => \E i \in DOMAIN nonces[row.eoa] : nonces[row.eoa][i] = b.nonce

\* No sender key is ever missing from the table.
KeysInv == \A k \in SenderKey : \E i \in DOMAIN keys : keys[i] = k

\* The inductive invariant.
Inv ==
  /\ TypeOK
  /\ KeysInv
  /\ IsFiniteSet(sent)
  /\ \A r \in Req : ReqInv(r)
  /\ TxInv
  /\ RowInv
  /\ TrackInv
  /\ ChainInv
  /\ NonceInv
  /\ OneSecretPerSignature
  /\ NoNonceGap
-----------------------------------------------------------------------------
(* The bodies of requests and the resolvers' paths.                        *)

\* What a body holds depends on its operation.
LEMMA BodyFacts ==
  ASSUME NEW b \in Body
  PROVE  /\ b.op \in {"create", "secret", "mint", "claim"} /\ b.dry \in BOOLEAN
         /\ b.op = "create" => b \in CreateAccountArgs
         /\ b.op = "secret" => b \in RequestSecretArgs
         /\ b.op \in {"mint", "claim"} => b.ms_ts \in MsTs
BY ServerAssumption DEF CreateAccountArgs, RequestSecretArgs, MintArgs, ClaimArgs

\* A call occurs once in a resolver's sequence of calls.
LEMMA Unique ==
  ASSUME NEW s, NEW i \in DOMAIN s, \A j \in DOMAIN s : s[j] = s[i] => j = i
  PROVE  (CHOOSE j \in DOMAIN s : s[j] = s[i]) = i
OBVIOUS

\* Where createAccountExec goes after each call.
LEMMA AfterCreate ==
  ASSUME NEW r, Op(r) = "create"
  PROVE  /\ proc[r].pc = "resolve" => After(r) = "pick"
         /\ proc[r].pc = "pick" => After(r) = "picked"
         /\ proc[r].pc = "picked" => After(r) = "estimate"
         /\ proc[r].pc = "estimate" => After(r) = "nonce"
         /\ proc[r].pc = "nonce" => After(r) = "send"
         /\ proc[r].pc = "send" => After(r) = "secret"
         /\ proc[r].pc = "secret" => After(r) = "track"
         /\ proc[r].pc = "track" => After(r) = "done"
<1>. DEFINE s == CreateAccountSteps
<1>1. After(r) = LET i == CHOOSE i \in DOMAIN s : s[i] = proc[r].pc
                 IN  IF i = Len(s) THEN "done" ELSE s[i + 1]
  BY DEF After, Steps
<1>2. /\ DOMAIN s = 1..8 /\ Len(s) = 8
      /\ s[1] = "resolve" /\ s[2] = "pick" /\ s[3] = "picked" /\ s[4] = "estimate"
      /\ s[5] = "nonce" /\ s[6] = "send" /\ s[7] = "secret" /\ s[8] = "track"
  BY DEF CreateAccountSteps
<1>3. \A i, j \in 1..8 : s[j] = s[i] => j = i
  BY <1>2
<1>. HIDE DEF s
<1>4. ASSUME NEW k \in 1..8, proc[r].pc = s[k]
      PROVE  After(r) = IF k = 8 THEN "done" ELSE s[k + 1]
  <2>1. (CHOOSE j \in DOMAIN s : s[j] = s[k]) = k
    BY <1>2, <1>3, Unique
  <2>. QED
    BY <1>1, <1>2, <1>4, <2>1
<1>. QED
  BY <1>2, <1>4

\* Where requestSecret goes after each call.
LEMMA AfterSecret ==
  ASSUME NEW r, Op(r) = "secret"
  PROVE  /\ proc[r].pc = "resolve" => After(r) = "secret"
         /\ proc[r].pc = "secret" => After(r) = "done"
<1>. DEFINE s == RequestSecretSteps
<1>1. After(r) = LET i == CHOOSE i \in DOMAIN s : s[i] = proc[r].pc
                 IN  IF i = Len(s) THEN "done" ELSE s[i + 1]
  BY DEF After, Steps
<1>2. DOMAIN s = 1..2 /\ Len(s) = 2 /\ s[1] = "resolve" /\ s[2] = "secret"
  BY DEF RequestSecretSteps
<1>. HIDE DEF s
<1>3. ASSUME NEW k \in 1..2, proc[r].pc = s[k]
      PROVE  After(r) = IF k = 2 THEN "done" ELSE s[k + 1]
  <2>1. (CHOOSE j \in DOMAIN s : s[j] = s[k]) = k
    BY <1>2, Unique
  <2>. QED
    BY <1>1, <1>2, <1>3, <2>1
<1>. QED
  BY <1>2, <1>3

\* Where ninelivesMint and claimRewards go after each call.
LEMMA AfterSolve ==
  ASSUME NEW r, Op(r) \in {"mint", "claim"}
  PROVE  /\ proc[r].pc = "resolve" => After(r) = "pick"
         /\ proc[r].pc = "pick" => After(r) = "picked"
         /\ proc[r].pc = "picked" => After(r) = "sign"
         /\ proc[r].pc = "sign" => After(r) = "estimate"
         /\ proc[r].pc = "estimate" => After(r) = "nonce"
         /\ proc[r].pc = "nonce" => After(r) = "send"
         /\ proc[r].pc = "send" => After(r) = "track"
         /\ proc[r].pc = "track" => After(r) = "done"
<1>. DEFINE s == MintSteps
<1>1. After(r) = LET i == CHOOSE i \in DOMAIN s : s[i] = proc[r].pc
                 IN  IF i = Len(s) THEN "done" ELSE s[i + 1]
  <2>1. Steps(Op(r)) = s
    BY DEF Steps, MintSteps, ClaimSteps
  <2>. QED
    BY <2>1 DEF After
<1>2. /\ DOMAIN s = 1..8 /\ Len(s) = 8
      /\ s[1] = "resolve" /\ s[2] = "pick" /\ s[3] = "picked" /\ s[4] = "sign"
      /\ s[5] = "estimate" /\ s[6] = "nonce" /\ s[7] = "send" /\ s[8] = "track"
  BY DEF MintSteps
<1>3. \A i, j \in 1..8 : s[j] = s[i] => j = i
  BY <1>2
<1>. HIDE DEF s
<1>4. ASSUME NEW k \in 1..8, proc[r].pc = s[k]
      PROVE  After(r) = IF k = 8 THEN "done" ELSE s[k + 1]
  <2>1. (CHOOSE j \in DOMAIN s : s[j] = s[k]) = k
    BY <1>2, <1>3, Unique
  <2>. QED
    BY <1>1, <1>2, <1>4, <2>1
<1>. QED
  BY <1>2, <1>4

-----------------------------------------------------------------------------
(* What a step of one request does to the requests.                        *)

Others(r) == \A q \in Req \ {r} : proc'[q] = proc[q]

\* The step leaves what r asked for alone and does not send it back.
Served(r) ==
  /\ proc' \in [Req -> Proc]
  /\ Others(r)
  /\ proc'[r].body = proc[r].body /\ proc'[r].bearer = proc[r].bearer
  /\ proc[r].authed => proc'[r].authed
  /\ proc'[r].pc # "idle"
  /\ proc[r].pc \in PastSend => proc'[r].pc \in PastSend

\* Only pc changes.
Moved(r, pc) ==
  /\ proc' \in [Req -> Proc]
  /\ Others(r)
  /\ proc'[r].pc = pc
  /\ proc'[r].body = proc[r].body /\ proc'[r].bearer = proc[r].bearer
  /\ proc'[r].authed = proc[r].authed /\ proc'[r].key = proc[r].key
  /\ proc'[r].nonce = proc[r].nonce

\* The database keeps its secrets, the chain its transactions and accounts.
Grows == secrets \subseteq secrets' /\ sent \subseteq sent' /\ code \subseteq code'

\* Goto changes the pc of one request.
LEMMA GotoFacts ==
  ASSUME TypeOK, NEW r \in Req, NEW pc \in {"idle"} \cup Running \cup Answered, Goto(r, pc)
  PROVE  Moved(r, pc)
<1>1. proc \in [Req -> Proc] /\ proc' = [proc EXCEPT ![r].pc = pc]
  BY DEF TypeOK, Goto
<1>2. proc'[r] = [proc[r] EXCEPT !.pc = pc] /\ proc[r] \in Proc
  BY <1>1
<1>3. /\ proc'[r] \in Proc /\ proc'[r].pc = pc
      /\ proc'[r].body = proc[r].body /\ proc'[r].bearer = proc[r].bearer
      /\ proc'[r].authed = proc[r].authed /\ proc'[r].key = proc[r].key
      /\ proc'[r].nonce = proc[r].nonce
  BY <1>2 DEF Proc
<1>4. Others(r)
  BY <1>1 DEF Others
<1>5. proc' \in [Req -> Proc]
  BY <1>1, <1>3, <1>4 DEF Others
<1>. QED
  BY <1>3, <1>4, <1>5 DEF Moved

\* An error leaves the request to the alarm or answers it.
LEMMA ErrFacts ==
  ASSUME TypeOK, NEW r \in Req, Err(r)
  PROVE  \E pc \in {"alarm", "failed"} : Moved(r, pc)
<1>1. PICK pc \in ErrorAt(r) : Goto(r, pc)
  BY DEF Err
<1>2. pc \in {"alarm", "failed"}
  BY <1>1 DEF ErrorAt
<1>3. Moved(r, pc)
  BY <1>1, <1>2, GotoFacts DEF Running, Answered
<1>. QED
  BY <1>2, <1>3

\* A request that ends without a result keeps its invariant.
LEMMA EndsWithout ==
  ASSUME NEW r \in Req, ReqInv(r), NEW pc \in {"alarm", "failed", "lost", "hung"}, Moved(r, pc),
         secrets \subseteq secrets'
  PROVE  Served(r) /\ ReqInv(r)'
BY DEF Served, Moved, ReqInv, Resolved, PastSend, Op, Stored

\* A request that ends with an error keeps its invariant, whatever was stored
\* before the error.
LEMMA ErrKeeps ==
  ASSUME TypeOK, NEW r \in Req, ReqInv(r), Err(r), secrets \subseteq secrets'
  PROVE  Served(r) /\ ReqInv(r)'
BY ErrFacts, EndsWithout

\* So does one whose call never returns, whatever the call did.
LEMMA HungKeeps ==
  ASSUME TypeOK, NEW r \in Req, ReqInv(r), Goto(r, "hung"), secrets \subseteq secrets'
  PROVE  Served(r) /\ ReqInv(r)' /\ Moved(r, "hung")
BY GotoFacts, EndsWithout DEF Running

-----------------------------------------------------------------------------
(* Every step of a request's goroutine keeps the request's invariant.      *)

\* A request at a step that its resolver makes has an operation and a way on.
LEMMA ProceedFacts ==
  ASSUME TypeOK, NEW r \in Req, ReqInv(r), Proceed(r),
         proc[r].pc \in Resolved \cup {"resolve", "secret"}
  PROVE  /\ Op(r) \in {"create", "secret", "mint", "claim"}
         /\ Moved(r, After(r))
<1>1. Op(r) \in {"create", "secret", "mint", "claim"}
  BY BodyFacts DEF TypeOK, Proc, Op
<1>2. After(r) \in {"idle"} \cup Running \cup Answered
  <2>1. CASE Op(r) = "create"
    BY <2>1, AfterCreate DEF ReqInv, Resolved, Running, Answered
  <2>2. CASE Op(r) = "secret"
    BY <2>2, AfterSecret DEF ReqInv, Resolved, Running, Answered
  <2>3. CASE Op(r) \in {"mint", "claim"}
    BY <2>3, AfterSolve DEF ReqInv, Resolved, Running, Answered
  <2>. QED
    BY <1>1, <2>1, <2>2, <2>3
<1>. QED
  BY <1>1, <1>2, GotoFacts DEF Proceed

\* authMiddleware.ServeHTTP.
LEMMA ServeHTTPKeeps ==
  ASSUME TypeOK, NEW r \in Req, ReqInv(r), ServeHTTP(r)
  PROVE  Served(r) /\ ReqInv(r)'
<1>1. proc[r].pc = "auth" /\ secrets' = secrets
  BY DEF ServeHTTP, At, dbVars
<1>2. CASE Goto(r, "resolve")
  <2>1. Moved(r, "resolve")
    BY <1>2, GotoFacts DEF Running
  <2>. QED
    BY <1>1, <2>1 DEF Served, Moved, ReqInv, Resolved, PastSend, Op, Stored
<1>3. CASE Goto(r, "failed")
  <2>1. Moved(r, "failed")
    BY <1>3, GotoFacts DEF Answered
  <2>. QED
    BY <1>1, <2>1, EndsWithout
<1>4. CASE /\ proc[r].bearer # NoBearer /\ Authenticates(proc[r].bearer)
           /\ proc' = [proc EXCEPT ![r].pc = "resolve", ![r].authed = TRUE]
  <2>1. proc[r] \in Proc /\ proc \in [Req -> Proc]
    BY DEF TypeOK
  <2>2. proc'[r] = [proc[r] EXCEPT !.pc = "resolve", !.authed = TRUE]
    BY <1>4, <2>1
  <2>3. /\ proc'[r] \in Proc /\ proc'[r].pc = "resolve" /\ proc'[r].authed = TRUE
        /\ proc'[r].body = proc[r].body /\ proc'[r].bearer = proc[r].bearer
    BY <2>1, <2>2 DEF Proc, Running
  <2>4. Others(r)
    BY <1>4, <2>1 DEF Others
  <2>5. proc' \in [Req -> Proc]
    BY <1>4, <2>1, <2>3, <2>4 DEF Others
  <2>6. proc[r].bearer \in Bearer /\ Stored(proc[r].bearer.eoa, proc[r].bearer.secret)
    BY <1>4, <2>1 DEF Proc, Authenticates, Stored
  <2>. QED
    BY <1>1, <2>3, <2>4, <2>5, <2>6 DEF Served, ReqInv, Resolved, PastSend, Op, Stored
<1>. QED
  BY <1>2, <1>3, <1>4 DEF ServeHTTP

\* The resolvers up to their first effect.
LEMMA ResolveKeeps ==
  ASSUME TypeOK, NEW r \in Req, ReqInv(r),
         CreateAccountExec(r) \/ RequestSecret(r) \/ NinelivesMint(r) \/ ClaimRewards(r)
  PROVE  Served(r) /\ ReqInv(r)'
<1>1. proc[r].pc = "resolve" /\ secrets' = secrets /\ code' = code
  BY DEF CreateAccountExec, RequestSecret, NinelivesMint, ClaimRewards, At, dbVars, chainVars
<1>2. CASE Err(r)
  BY <1>1, <1>2, ErrKeeps
<1>3. CASE Proceed(r) /\ ~Err(r)
  <2>1. Moved(r, After(r))
    BY <1>1, <1>3, ProceedFacts
  <2>2. CASE Op(r) = "create"
    BY <1>1, <2>1, <2>2, AfterCreate DEF Served, Moved, ReqInv, Resolved, PastSend, Op, Stored
  <2>3. CASE Op(r) = "secret"
    <3>1. proc[r].body.signer = proc[r].body.eoa /\ (FeatureCheckCode => proc[r].body.eoa \in code)
      BY <1>3, <2>3 DEF CreateAccountExec, RequestSecret, NinelivesMint, ClaimRewards
    <3>. QED
      BY <1>1, <2>1, <2>3, <3>1, AfterSecret
         DEF Served, Moved, ReqInv, Resolved, PastSend, Op, Stored
  <2>4. CASE Op(r) \in {"mint", "claim"}
    <3>1. proc[r].authed
      BY <1>3, <2>4 DEF CreateAccountExec, RequestSecret, NinelivesMint, ClaimRewards
    <3>. QED
      BY <1>1, <2>1, <2>4, <3>1, AfterSolve
         DEF Served, Moved, ReqInv, Resolved, PastSend, Op, Stored
  <2>. QED
    BY <1>1, <1>3, <2>2, <2>3, <2>4, ProceedFacts
<1>. QED
  BY <1>2, <1>3 DEF CreateAccountExec, RequestSecret, NinelivesMint, ClaimRewards

\* PickPrivateKey: the key that is found is one of the rows.
LEMMA PickSelectKeeps ==
  ASSUME TypeOK, NEW r \in Req, ReqInv(r), PickSelect(r)
  PROVE  Served(r) /\ ReqInv(r)'
<1>1. proc[r].pc = "pick" /\ secrets' = secrets /\ Op(r) # "secret"
  BY DEF PickSelect, At, dbVars, ReqInv, Resolved
<1>2. After(r) = "picked"
  BY <1>1, AfterCreate, AfterSolve, BodyFacts DEF TypeOK, Proc, Op
<1>3. Head(keys) \in SenderKey
  BY DEF PickSelect, TypeOK
<1>4. proc[r] \in Proc /\ proc \in [Req -> Proc]
  BY DEF TypeOK
<1>5. proc' = [proc EXCEPT ![r].pc = "picked", ![r].key = Head(keys)]
  BY <1>2 DEF PickSelect
<1>6. proc'[r] = [proc[r] EXCEPT !.pc = "picked", !.key = Head(keys)]
  BY <1>4, <1>5
<1>7. /\ proc'[r] \in Proc /\ proc'[r].pc = "picked" /\ proc'[r].key = Head(keys)
      /\ proc'[r].body = proc[r].body /\ proc'[r].bearer = proc[r].bearer
      /\ proc'[r].authed = proc[r].authed
  BY <1>3, <1>4, <1>6 DEF Proc, Running
<1>8. Others(r)
  BY <1>4, <1>5 DEF Others
<1>9. proc' \in [Req -> Proc]
  BY <1>4, <1>5, <1>7, <1>8 DEF Others
<1>. QED
  BY <1>1, <1>3, <1>7, <1>8, <1>9 DEF Served, ReqInv, Resolved, PastSend, Op, Stored

\* SendArguments reads the pending nonce.
LEMMA FetchNonceKeeps ==
  ASSUME TypeOK, IsFiniteSet(sent), NEW r \in Req, ReqInv(r), FetchNonce(r)
  PROVE  Served(r) /\ ReqInv(r)'
<1>1. /\ proc[r].pc = "nonce" /\ secrets' = secrets /\ sent' = sent /\ code' = code
      /\ Op(r) # "secret"
  BY DEF FetchNonce, At, dbVars, chainVars, ReqInv, Resolved
<1>2. After(r) = "send"
  BY <1>1, AfterCreate, AfterSolve, BodyFacts DEF TypeOK, Proc, Op
<1>3. PendingNonceAt(proc[r].key) \in Nat
  <2>1. IsFiniteSet({t \in sent : t.sender = proc[r].key})
    BY FS_Subset
  <2>. QED
    BY <2>1, FS_CardinalityType DEF PendingNonceAt
<1>4. proc[r] \in Proc /\ proc \in [Req -> Proc]
  BY DEF TypeOK
<1>. DEFINE n == PendingNonceAt(proc[r].key)
<1>5. proc' = [proc EXCEPT ![r].pc = "send", ![r].nonce = n]
  BY <1>2 DEF FetchNonce
<1>6. n \in Nat
  BY <1>3
<1>7. n = PendingNonceAt(proc[r].key)
  OBVIOUS
<1>. HIDE DEF n
<1>8. proc'[r] = [proc[r] EXCEPT !.pc = "send", !.nonce = n]
  BY <1>4, <1>5
<1>9. /\ proc'[r] \in Proc /\ proc'[r].pc = "send" /\ proc'[r].nonce = n
      /\ proc'[r].body = proc[r].body /\ proc'[r].bearer = proc[r].bearer
      /\ proc'[r].authed = proc[r].authed /\ proc'[r].key = proc[r].key
  BY <1>4, <1>6, <1>8 DEF Proc, Running
<1>10. Others(r)
  BY <1>4, <1>5 DEF Others
<1>11. proc' \in [Req -> Proc]
  BY <1>4, <1>5, <1>9, <1>10 DEF Others
<1>12. (proc[r].nonce <= PendingNonceAt(proc[r].key))'
  <2>1. PendingNonceAt(proc[r].key)' = n
    BY <1>1, <1>7, <1>9 DEF PendingNonceAt
  <2>. QED
    BY <1>6, <1>9, <2>1
<1>. QED
  BY <1>1, <1>9, <1>10, <1>11, <1>12 DEF Served, ReqInv, Resolved, PastSend, Op, Stored

\* The rest of the way to the transaction.
LEMMA PrepareKeeps ==
  ASSUME TypeOK, NEW r \in Req, ReqInv(r), PickUpdate(r) \/ SignArgs(r) \/ EstimateGas(r)
  PROVE  Served(r) /\ ReqInv(r)'
<1>1. /\ proc[r].pc \in {"picked", "sign", "estimate"} /\ secrets' = secrets /\ code' = code
      /\ Op(r) # "secret" /\ proc[r].key \in SenderKey
  BY DEF PickUpdate, SignArgs, EstimateGas, At, dbVars, chainVars, ReqInv, Resolved
<1>2. CASE Err(r)
  BY <1>1, <1>2, ErrKeeps
<1>3. CASE Proceed(r) /\ ~Err(r)
  <2>1. Moved(r, After(r)) /\ Op(r) \in {"create", "mint", "claim"}
    BY <1>1, <1>3, ProceedFacts DEF Resolved
  <2>2. CASE Op(r) = "create"
    <3>1. proc[r].pc = "estimate" => proc[r].body.signer = proc[r].body.eoa
      <4>. SUFFICES ASSUME proc[r].pc = "estimate"
                    PROVE  proc[r].body.signer = proc[r].body.eoa
        OBVIOUS
      <4>1. Accepts(CallOf(r))
        BY <1>3 DEF PickUpdate, SignArgs, EstimateGas, At
      <4>2. CallOf(r) = [kind |-> "create", eoa |-> proc[r].body.eoa,
                         signer |-> proc[r].body.signer, ms |-> proc[r].body.mint]
        BY <2>2 DEF CallOf, Op
      <4>. QED
        BY <4>1, <4>2 DEF Accepts
    <3>. QED
      BY <1>1, <2>1, <2>2, <3>1, AfterCreate
         DEF Served, Moved, ReqInv, Resolved, PastSend, Op, Stored
  <2>3. CASE Op(r) \in {"mint", "claim"}
    <3>1. proc[r].pc = "estimate" => proc[r].bearer.eoa \in code
      <4>. SUFFICES ASSUME proc[r].pc = "estimate"
                    PROVE  proc[r].bearer.eoa \in code
        OBVIOUS
      <4>1. Accepts(CallOf(r))
        BY <1>3 DEF PickUpdate, SignArgs, EstimateGas, At
      <4>2. CallOf(r).kind = "solve" /\ CallOf(r).eoa = proc[r].bearer.eoa
        BY <2>3 DEF CallOf, Subject, Op
      <4>. QED
        BY <4>1, <4>2 DEF Accepts
    <3>. QED
      BY <1>1, <2>1, <2>3, <3>1, AfterSolve
         DEF Served, Moved, ReqInv, Resolved, PastSend, Op, Stored
  <2>. QED
    BY <2>1, <2>2, <2>3
<1>. QED
  BY <1>2, <1>3 DEF PickUpdate, SignArgs, EstimateGas

\* SendTransaction, or its simulation for a dryrun.
LEMMA SendKeeps ==
  ASSUME TypeOK, NEW r \in Req, ReqInv(r), SendTransaction(r) \/ CallContract(r)
  PROVE  Served(r) /\ ReqInv(r)'
<1>1. proc[r].pc = "send" /\ secrets' = secrets /\ Op(r) # "secret"
  BY DEF SendTransaction, CallContract, At, dbVars, ReqInv, Resolved
<1>2. CASE Err(r) \/ Goto(r, "hung")
  BY <1>1, <1>2, ErrKeeps, HungKeeps
<1>3. CASE Proceed(r)
  <2>1. Moved(r, After(r)) /\ Op(r) \in {"create", "mint", "claim"}
    BY <1>1, <1>3, ProceedFacts DEF Resolved
  <2>2. ~Dry(r) => SentBy(r)'
    BY DEF SendTransaction, CallContract, SentBy, TxOf
  <2>3. CASE Op(r) = "create"
    BY <1>1, <2>1, <2>2, <2>3, AfterCreate
       DEF Served, Moved, ReqInv, Resolved, PastSend, Op, Dry, Stored
  <2>4. CASE Op(r) \in {"mint", "claim"}
    BY <1>1, <2>1, <2>2, <2>4, AfterSolve
       DEF Served, Moved, ReqInv, Resolved, PastSend, Op, Dry, Stored
  <2>. QED
    BY <2>1, <2>3, <2>4
<1>. QED
  BY <1>2, <1>3 DEF SendTransaction, CallContract, Return

\* The secret of a creation is stored before its transaction is tracked.
LEMMA InsertSecretKeeps ==
  ASSUME TypeOK, NEW r \in Req, ReqInv(r), InsertSecret(r)
  PROVE  Served(r) /\ ReqInv(r)'
<1>1. /\ proc[r].pc = "secret" /\ Op(r) = "create" /\ secrets \subseteq secrets'
      /\ sent' = sent /\ (~Dry(r) => [eoa |-> proc[r].body.eoa, secret |-> r] \in secrets')
  BY DEF InsertSecret, At, chainVars, Subject
<1>2. CASE Err(r) \/ Goto(r, "hung")
  BY <1>1, <1>2, ErrKeeps, HungKeeps
<1>3. CASE Proceed(r)
  <2>1. Moved(r, "track")
    BY <1>1, <1>3, ProceedFacts, AfterCreate
  <2>2. ~Dry(r) => SentBy(r) /\ SentBy(r)'
    BY <1>1 DEF ReqInv, SentBy
  <2>. QED
    BY <1>1, <2>1, <2>2 DEF Served, Moved, ReqInv, Resolved, PastSend, Op, Dry, Stored
<1>. QED
  BY <1>2, <1>3 DEF InsertSecret, Return

\* requestSecret answers only when its row is stored.
LEMMA InsertNonceSecretKeeps ==
  ASSUME TypeOK, NEW r \in Req, ReqInv(r), InsertNonceSecret(r)
  PROVE  Served(r) /\ ReqInv(r)'
<1>1. proc[r].pc = "secret" /\ Op(r) = "secret" /\ secrets \subseteq secrets'
  BY DEF InsertNonceSecret, At
<1>2. CASE Err(r) \/ Goto(r, "hung")
  BY <1>1, <1>2, ErrKeeps, HungKeeps
<1>3. CASE Proceed(r) /\ (~Dry(r) => [eoa |-> proc[r].body.eoa, secret |-> r] \in secrets')
  <2>1. Moved(r, "done")
    BY <1>1, <1>3, ProceedFacts, AfterSecret
  <2>. QED
    BY <1>1, <1>3, <2>1 DEF Served, Moved, ReqInv, Resolved, PastSend, Op, Dry, Stored
<1>. QED
  BY <1>1, <1>2, <1>3 DEF InsertNonceSecret, Subject, Return

\* trackTx comes last.
LEMMA TrackTxKeeps ==
  ASSUME TypeOK, NEW r \in Req, ReqInv(r), TrackTx(r)
  PROVE  Served(r) /\ ReqInv(r)'
<1>1. proc[r].pc = "track" /\ secrets' = secrets /\ sent' = sent /\ Op(r) # "secret"
  BY DEF TrackTx, At, chainVars, ReqInv, Resolved
<1>2. CASE Goto(r, "hung")
  BY <1>1, <1>2, HungKeeps
<1>3. CASE Proceed(r)
  <2>1. Moved(r, "done")
    BY <1>1, <1>3, ProceedFacts, AfterCreate, AfterSolve DEF Resolved
  <2>2. ~Dry(r) => SentBy(r) /\ SentBy(r)' /\ (Op(r) = "create" => Stored(proc[r].body.eoa, r))
    BY <1>1 DEF ReqInv, SentBy
  <2>. QED
    BY <1>1, <2>1, <2>2 DEF Served, Moved, ReqInv, Resolved, PastSend, Op, Dry, Stored
<1>. QED
  BY <1>2, <1>3 DEF TrackTx

\* A step of the goroutine that serves r keeps the invariant of r.
LEMMA ServeKeeps ==
  ASSUME TypeOK, IsFiniteSet(sent), NEW r \in Req, ReqInv(r), Serve(r)
  PROVE  Served(r) /\ ReqInv(r)'
<1>1. CASE Fail(r)
  BY <1>1, ErrKeeps DEF Fail, dbVars
<1>2. CASE Alarm(r)
  <2>1. Moved(r, "failed") /\ secrets' = secrets
    BY <1>2, GotoFacts DEF Alarm, dbVars, Answered
  <2>. QED
    BY <2>1, EndsWithout
<1>3. CASE Hang(r)
  BY <1>3, HungKeeps DEF Hang, dbVars
<1>. QED
  BY <1>1, <1>2, <1>3, ServeHTTPKeeps, ResolveKeeps, PickSelectKeeps, PrepareKeeps, FetchNonceKeeps,
     SendKeeps, InsertSecretKeeps, InsertNonceSecretKeeps, TrackTxKeeps DEF Serve

-----------------------------------------------------------------------------
(* Every step, for all requests.                                           *)

\* What is asked for stays, once it has arrived, and nobody is sent back.
Frozen ==
  \A r \in Req : proc[r].pc # "idle" =>
    /\ proc'[r].body = proc[r].body /\ proc'[r].bearer = proc[r].bearer
    /\ proc[r].authed => proc'[r].authed
    /\ proc'[r].pc # "idle"
    /\ proc[r].pc \in PastSend => proc'[r].pc \in PastSend

\* The pending nonce of a sender never decreases.
LEMMA PendingGrows ==
  ASSUME IsFiniteSet(sent'), sent \subseteq sent', NEW k
  PROVE  /\ PendingNonceAt(k) \in Nat /\ PendingNonceAt(k)' \in Nat
         /\ PendingNonceAt(k) <= PendingNonceAt(k)'
<1>. DEFINE a == {t \in sent : t.sender = k}
            b == {t \in sent' : t.sender = k}
<1>1. a \subseteq b /\ IsFiniteSet(b)
  BY FS_Subset
<1>2. IsFiniteSet(a) /\ Cardinality(a) <= Cardinality(b)
  BY <1>1, FS_Subset
<1>3. Cardinality(a) \in Nat /\ Cardinality(b) \in Nat
  BY <1>1, <1>2, FS_CardinalityType
<1>. QED
  BY <1>2, <1>3 DEF PendingNonceAt

\* A request that a step leaves alone keeps its invariant.
LEMMA ReqInvStable ==
  ASSUME TypeOK, NEW r \in Req, ReqInv(r), proc'[r] = proc[r], Grows, IsFiniteSet(sent')
  PROVE  ReqInv(r)'
<1>1. proc[r].pc = "send" => (proc[r].nonce <= PendingNonceAt(proc[r].key))'
  <2>. SUFFICES ASSUME proc[r].pc = "send"
                PROVE  (proc[r].nonce <= PendingNonceAt(proc[r].key))'
    OBVIOUS
  <2>. DEFINE k == proc[r].key
  <2>1. /\ PendingNonceAt(k) \in Nat /\ PendingNonceAt(k)' \in Nat
        /\ PendingNonceAt(k) <= Cardinality({t \in sent' : t.sender = k})
        /\ Cardinality({t \in sent' : t.sender = k}) \in Nat
    BY PendingGrows DEF Grows, PendingNonceAt
  <2>2. PendingNonceAt(proc[r].key)' = Cardinality({t \in sent' : t.sender = k})
    BY DEF PendingNonceAt
  <2>3. proc[r].nonce \in Nat /\ proc[r].nonce <= PendingNonceAt(k)
    BY DEF TypeOK, Proc, ReqInv
  <2>. QED
    BY <2>1, <2>2, <2>3
<1>2. SentBy(r) => SentBy(r)'
  BY DEF SentBy, Grows
<1>. QED
  BY <1>1, <1>2 DEF ReqInv, Grows, Op, Dry, Stored

\* The tables and the chain only grow.
LEMMA NextGrows ==
  ASSUME [Next]_vars
  PROVE  Grows
<1>1. ASSUME NEW r \in Req, Serve(r) PROVE Grows
  BY <1>1 DEF Serve, ServeHTTP, CreateAccountExec, RequestSecret, NinelivesMint, ClaimRewards,
     PickSelect, PickUpdate, SignArgs, EstimateGas, FetchNonce, SendTransaction, CallContract,
     InsertSecret, InsertNonceSecret, TrackTx, Fail, Hang, Alarm, Grows, dbVars, chainVars
<1>2. ASSUME NEW c \in DirectCall, CallDirectly(c) PROVE Grows
  BY <1>2 DEF CallDirectly, Takes, Grows, dbVars
<1>3. ASSUME NEW r \in Req, NEW b \in Body, NEW h, Submit(r, b, h) PROVE Grows
  BY <1>3 DEF Submit, Grows, dbVars, chainVars
<1>4. ASSUME NEW t \in sent, Execute(t) PROVE Grows
  BY <1>4 DEF Execute, Takes, Grows, dbVars
<1>5. CASE Crash \/ Restart
  BY <1>5 DEF Crash, Restart, Grows, dbVars, chainVars
<1>6. CASE UNCHANGED vars
  BY <1>6 DEF vars, Grows, dbVars, chainVars
<1>. QED
  BY <1>1, <1>2, <1>3, <1>4, <1>5, <1>6 DEF Next

\* A key that is accessed becomes the last one; none is lost.
LEMMA AccessedFacts ==
  ASSUME keys \in Seq(SenderKey), KeysInv, NEW k \in SenderKey, keys' = Accessed(k)
  PROVE  keys' \in Seq(SenderKey) /\ KeysInv'
<1>. DEFINE i == CHOOSE i \in DOMAIN keys : keys[i] = k
<1>1. i \in 1..Len(keys) /\ keys[i] = k
  BY DEF KeysInv
<1>2. keys' = Append(SubSeq(keys, 1, i - 1) \o SubSeq(keys, i + 1, Len(keys)), k)
  BY DEF Accessed
<1>. HIDE DEF i
<1>3. keys' \in Seq(SenderKey)
  BY <1>1, <1>2
<1>4. /\ Len(keys') = Len(keys) /\ keys'[Len(keys)] = k
      /\ \A j \in 1..(i - 1) : keys'[j] = keys[j]
      /\ \A j \in (i + 1)..Len(keys) : keys'[j - 1] = keys[j]
  <2>. DEFINE a == SubSeq(keys, 1, i - 1)
              b == SubSeq(keys, i + 1, Len(keys))
  <2>1. a \in Seq(SenderKey) /\ Len(a) = i - 1 /\ \A j \in 1..(i - 1) : a[j] = keys[j]
    BY <1>1
  <2>2. /\ b \in Seq(SenderKey) /\ Len(b) = Len(keys) - i
        /\ \A j \in 1..(Len(keys) - i) : b[j] = keys[j + i]
    BY <1>1
  <2>3. keys' = Append(a \o b, k)
    BY <1>2
  <2>. HIDE DEF a, b
  <2>. DEFINE c == a \o b
              n == Len(keys)
  <2>4. n \in Nat /\ i \in 1..n
    BY <1>1
  <2>5. /\ c \in Seq(SenderKey) /\ Len(c) = n - 1
        /\ \A j \in 1..(n - 1) : c[j] = IF j <= i - 1 THEN a[j] ELSE b[j - (i - 1)]
    <3>1. /\ c \in Seq(SenderKey) /\ Len(c) = Len(a) + Len(b)
          /\ \A j \in 1..Len(a) + Len(b) : c[j] = IF j <= Len(a) THEN a[j] ELSE b[j - Len(a)]
      BY <2>1, <2>2, ConcatProperties
    <3>. QED
      BY <2>1, <2>2, <2>4, <3>1
  <2>6. keys' = Append(c, k)
    BY <2>3
  <2>. HIDE DEF c
  <2>7. /\ Len(keys') = n /\ keys'[n] = k
        /\ \A j \in 1..(n - 1) : keys'[j] = c[j]
    BY <2>4, <2>5, <2>6
  <2>8. ASSUME NEW j \in 1..(i - 1) PROVE keys'[j] = keys[j]
    BY <2>1, <2>4, <2>5, <2>7
  <2>9. ASSUME NEW j \in (i + 1)..n PROVE keys'[j - 1] = keys[j]
    <3>1. /\ j - 1 \in 1..(n - 1) /\ ~(j - 1 <= i - 1) /\ (j - 1) - (i - 1) = j - i
          /\ j - i \in 1..(n - i) /\ (j - i) + i = j
      BY <2>4
    <3>2. keys'[j - 1] = b[j - i]
      BY <2>5, <2>7, <3>1
    <3>3. b[j - i] = keys[(j - i) + i]
      BY <2>2, <3>1
    <3>. QED
      BY <3>1, <3>2, <3>3
  <2>. QED
    BY <2>7, <2>8, <2>9
<1>5. ASSUME NEW l \in SenderKey PROVE \E j \in DOMAIN keys' : keys'[j] = l
  <2>1. PICK j \in 1..Len(keys) : keys[j] = l
    BY DEF KeysInv
  <2>2. CASE j = i
    BY <1>1, <1>3, <1>4, <2>1, <2>2
  <2>3. CASE j < i
    BY <1>1, <1>3, <1>4, <2>1, <2>3
  <2>4. CASE j > i
    BY <1>1, <1>3, <1>4, <2>1, <2>4
  <2>. QED
    BY <1>1, <2>2, <2>3, <2>4
<1>. QED
  BY <1>3, <1>5 DEF KeysInv

\* Which action changes what.
Causes ==
  /\ sent' = sent \/ \E r \in Req : SendTransaction(r)
  /\ UNCHANGED <<secrets, nonces>> \/ \E r \in Req : InsertSecret(r) \/ InsertNonceSecret(r)
  /\ tracked' = tracked \/ \E r \in Req : TrackTx(r)
  /\ keys' = keys \/ \E r \in Req : PickUpdate(r)
  /\ \/ UNCHANGED <<code, used, next>>
     \/ \E t \in sent : Execute(t)
     \/ \E c \in DirectCall : CallDirectly(c)
  /\ UNCHANGED <<up, crashes>> \/ Crash \/ Restart

\* Each change of the shared state has a cause: one request at one point of its
\* resolver, the chain, or the supervisor.
LEMMA NextCauses ==
  ASSUME [Next]_vars
  PROVE  Causes
<1>. USE DEF dbVars, chainVars
<1>1. ASSUME NEW r \in Req, Serve(r) PROVE Causes
  <2>1. UNCHANGED <<up, crashes, code, used, next>>
    BY <1>1 DEF Serve, ServeHTTP, CreateAccountExec, RequestSecret, NinelivesMint, ClaimRewards,
       PickSelect, PickUpdate, SignArgs, EstimateGas, FetchNonce, SendTransaction, CallContract,
       InsertSecret, InsertNonceSecret, TrackTx, Fail, Hang, Alarm
  <2>2. sent' = sent \/ SendTransaction(r)
    BY <1>1 DEF Serve, ServeHTTP, CreateAccountExec, RequestSecret, NinelivesMint, ClaimRewards,
       PickSelect, PickUpdate, SignArgs, EstimateGas, FetchNonce, CallContract,
       InsertSecret, InsertNonceSecret, TrackTx, Fail, Hang, Alarm
  <2>3. UNCHANGED <<secrets, nonces>> \/ InsertSecret(r) \/ InsertNonceSecret(r)
    BY <1>1 DEF Serve, ServeHTTP, CreateAccountExec, RequestSecret, NinelivesMint, ClaimRewards,
       PickSelect, PickUpdate, SignArgs, EstimateGas, FetchNonce, SendTransaction, CallContract,
       TrackTx, Fail, Hang, Alarm
  <2>4. tracked' = tracked \/ TrackTx(r)
    BY <1>1 DEF Serve, ServeHTTP, CreateAccountExec, RequestSecret, NinelivesMint, ClaimRewards,
       PickSelect, PickUpdate, SignArgs, EstimateGas, FetchNonce, SendTransaction, CallContract,
       InsertSecret, InsertNonceSecret, Fail, Hang, Alarm
  <2>5. keys' = keys \/ PickUpdate(r)
    BY <1>1 DEF Serve, ServeHTTP, CreateAccountExec, RequestSecret, NinelivesMint, ClaimRewards,
       PickSelect, SignArgs, EstimateGas, FetchNonce, SendTransaction, CallContract,
       InsertSecret, InsertNonceSecret, TrackTx, Fail, Hang, Alarm
  <2>. QED
    BY <2>1, <2>2, <2>3, <2>4, <2>5 DEF Causes
<1>2. ASSUME NEW c \in DirectCall, CallDirectly(c) PROVE Causes
  <2>1. UNCHANGED <<dbVars, sent, up, crashes>>
    BY <1>2 DEF CallDirectly
  <2>. QED
    BY <1>2, <2>1 DEF Causes
<1>3. ASSUME NEW r \in Req, NEW b \in Body, NEW h, Submit(r, b, h) PROVE Causes
  BY <1>3 DEF Submit, Causes
<1>4. ASSUME NEW t \in sent, Execute(t) PROVE Causes
  <2>1. UNCHANGED <<dbVars, sent, proc, up, crashes>>
    BY <1>4 DEF Execute
  <2>. QED
    BY <1>4, <2>1 DEF Causes
<1>5. CASE Crash
  BY <1>5 DEF Crash, Causes
<1>6. CASE Restart
  BY <1>6 DEF Restart, Causes
<1>7. CASE UNCHANGED vars
  BY <1>7 DEF vars, Causes
<1>. QED
  BY <1>1, <1>2, <1>3, <1>4, <1>5, <1>6, <1>7 DEF Next

\* There are finitely many transactions at any time.
LEMMA FiniteNext ==
  ASSUME IsFiniteSet(sent), [Next]_vars
  PROVE  IsFiniteSet(sent')
<1>1. ASSUME NEW r \in Req, SendTransaction(r) PROVE IsFiniteSet(sent')
  <2>1. sent' = sent \cup {TxOf(r)}
    BY <1>1 DEF SendTransaction
  <2>. QED
    BY <2>1, FS_AddElement
<1>. QED
  BY <1>1, NextCauses DEF Causes

\* Every step keeps every request's invariant and what was asked for.
LEMMA RequestsNext ==
  ASSUME TypeOK, IsFiniteSet(sent), \A r \in Req : ReqInv(r), [Next]_vars
  PROVE  proc' \in [Req -> Proc] /\ Frozen /\ \A r \in Req : ReqInv(r)'
<1>1. Grows /\ IsFiniteSet(sent')
  BY NextGrows, FiniteNext
<1>2. ASSUME NEW r \in Req, Serve(r)
      PROVE  proc' \in [Req -> Proc] /\ Frozen /\ \A q \in Req : ReqInv(q)'
  <2>1. Served(r) /\ ReqInv(r)'
    BY <1>2, ServeKeeps
  <2>2. \A q \in Req \ {r} : proc'[q] = proc[q]
    BY <2>1 DEF Served, Others
  <2>3. \A q \in Req \ {r} : ReqInv(q)'
    BY <1>1, <2>2, ReqInvStable
  <2>. QED
    BY <2>1, <2>2, <2>3 DEF Served, Frozen
<1>3. ASSUME NEW r \in Req, NEW b \in Body, NEW h \in Bearer \cup {NoBearer}, Submit(r, b, h)
      PROVE  proc' \in [Req -> Proc] /\ Frozen /\ \A q \in Req : ReqInv(q)'
  <2>. DEFINE p == [pc |-> "auth", body |-> b, bearer |-> h, authed |-> FALSE,
                    key |-> NoKey, nonce |-> 0]
  <2>1. proc[r].pc = "idle" /\ proc' = [proc EXCEPT ![r] = p] /\ proc \in [Req -> Proc]
    BY <1>3 DEF Submit, At, TypeOK
  <2>2. p \in Proc
    BY DEF Proc, Running
  <2>3. p.pc = "auth" /\ p.authed = FALSE
    OBVIOUS
  <2>. HIDE DEF p
  <2>4. proc' \in [Req -> Proc] /\ proc'[r] = p /\ \A q \in Req \ {r} : proc'[q] = proc[q]
    BY <2>1, <2>2
  <2>5. ReqInv(r)'
    BY <2>3, <2>4 DEF ReqInv, Resolved
  <2>6. \A q \in Req \ {r} : ReqInv(q)'
    BY <1>1, <2>4, ReqInvStable
  <2>. QED
    BY <2>1, <2>4, <2>5, <2>6 DEF Frozen
<1>4. CASE Crash
  <2>1. /\ proc \in [Req -> Proc]
        /\ proc' = [r \in Req |-> IF proc[r].pc \in Running THEN [proc[r] EXCEPT !.pc = "lost"]
                                  ELSE proc[r]]
    BY <1>4 DEF Crash, TypeOK
  <2>2. ASSUME NEW r \in Req, proc[r].pc \notin Running
        PROVE  /\ proc'[r] = proc[r] /\ proc'[r] \in Proc /\ ReqInv(r)'
    <3>1. proc'[r] = proc[r] /\ proc'[r] \in Proc
      BY <2>1, <2>2
    <3>. QED
      BY <1>1, <3>1, ReqInvStable
  <2>3. ASSUME NEW r \in Req, proc[r].pc \in Running
        PROVE  /\ proc'[r] \in Proc /\ proc'[r].pc = "lost"
               /\ proc'[r].body = proc[r].body /\ proc'[r].bearer = proc[r].bearer
               /\ proc'[r].authed = proc[r].authed
    <3>1. proc'[r] = [proc[r] EXCEPT !.pc = "lost"] /\ proc[r] \in Proc
      BY <2>1, <2>3
    <3>. QED
      BY <3>1 DEF Proc, Answered
  <2>4. ASSUME NEW r \in Req, proc[r].pc \in Running PROVE ReqInv(r)'
    <3>1. /\ ReqInv(r) /\ proc'[r].pc = "lost" /\ secrets \subseteq secrets'
          /\ proc'[r].body = proc[r].body /\ proc'[r].bearer = proc[r].bearer
          /\ proc'[r].authed = proc[r].authed
      BY <1>1, <2>3, <2>4 DEF Grows
    <3>. QED
      BY <3>1 DEF ReqInv, Resolved, Op, Stored
  <2>5. proc' \in [Req -> Proc]
    BY <2>1, <2>2, <2>3
  <2>6. Frozen
    <3>. SUFFICES ASSUME NEW r \in Req, proc[r].pc # "idle"
                  PROVE  /\ proc'[r].body = proc[r].body /\ proc'[r].bearer = proc[r].bearer
                         /\ proc[r].authed => proc'[r].authed
                         /\ proc'[r].pc # "idle"
                         /\ proc[r].pc \in PastSend => proc'[r].pc \in PastSend
      BY DEF Frozen
    <3>. QED
      BY <2>2, <2>3 DEF PastSend
  <2>. QED
    BY <2>2, <2>4, <2>5, <2>6
<1>5. CASE proc' = proc
  <2>1. proc' \in [Req -> Proc] /\ Frozen
    BY <1>5 DEF Frozen, TypeOK
  <2>. QED
    BY <1>1, <1>5, <2>1, ReqInvStable
<1>6. /\ \A t \in sent : Execute(t) => proc' = proc
      /\ \A c \in DirectCall : CallDirectly(c) => proc' = proc
  BY DEF Execute, CallDirectly
<1>7. Restart \/ UNCHANGED vars => proc' = proc
  BY DEF Restart, vars
<1>. QED
  BY <1>2, <1>3, <1>4, <1>5, <1>6, <1>7 DEF Next

-----------------------------------------------------------------------------
(* Types.                                                                  *)

\* Whom a request acts for, and what it calls, are of their types.
LEMMA CallTyped ==
  ASSUME TypeOK, NEW r \in Req, ReqInv(r), proc[r].pc \in Resolved
  PROVE  CallOf(r) \in Call
<1>1. proc[r] \in Proc /\ proc[r].body \in Body /\ Op(r) # "secret"
  BY DEF TypeOK, Proc, ReqInv
<1>2. CASE Op(r) = "create"
  BY <1>1, <1>2, BodyFacts DEF CallOf, Call, Op, CreateAccountArgs
<1>3. CASE Op(r) \in {"mint", "claim"}
  <2>1. proc[r].authed /\ proc[r].bearer \in Bearer
    BY <1>3 DEF ReqInv
  <2>2. Subject(r) \in Eoa /\ proc[r].body.ms_ts \in MsTs
    BY <1>1, <1>3, <2>1, BodyFacts DEF Subject, Bearer, Op
  <2>. QED
    BY <1>3, <2>2 DEF CallOf, Call, Op
<1>. QED
  BY <1>1, <1>2, <1>3, BodyFacts DEF Op

\* Every step keeps the types, and every sender key in its table.
LEMMA TypeNext ==
  ASSUME TypeOK, KeysInv, IsFiniteSet(sent), \A r \in Req : ReqInv(r), [Next]_vars
  PROVE  TypeOK' /\ KeysInv'
<1>. USE DEF TypeOK
<1>1. Causes
  BY NextCauses
<1>2. proc' \in [Req -> Proc]
  BY RequestsNext
<1>3. sent' \subseteq Tx
  <2>1. ASSUME NEW r \in Req, SendTransaction(r) PROVE TxOf(r) \in Tx
    <3>1. proc[r].pc = "send" /\ proc[r].key \in SenderKey /\ proc[r].nonce \in Nat
      BY <2>1 DEF SendTransaction, At, ReqInv, Proc
    <3>2. CallOf(r) \in Call
      BY <3>1, CallTyped DEF Resolved
    <3>. QED
      BY <3>1, <3>2 DEF TxOf, Tx
  <2>2. ASSUME NEW r \in Req, SendTransaction(r) PROVE sent' = sent \cup {TxOf(r)}
    BY <2>2 DEF SendTransaction
  <2>. QED
    BY <1>1, <2>1, <2>2 DEF Causes
<1>4. secrets' \subseteq Bearer /\ nonces' \in [Eoa -> Seq(Nonce)]
  <2>1. ASSUME NEW r \in Req, Op(r) \in {"create", "secret"}
        PROVE  Subject(r) \in Eoa /\ (Op(r) = "secret" => proc[r].body.nonce \in Nonce)
    BY <2>1, BodyFacts DEF Subject, Op, Proc, CreateAccountArgs, RequestSecretArgs
  <2>2. ASSUME NEW r \in Req, InsertSecret(r)
        PROVE  secrets' \subseteq Bearer /\ nonces' \in [Eoa -> Seq(Nonce)]
    BY <2>1, <2>2 DEF InsertSecret, Bearer
  <2>3. ASSUME NEW r \in Req, InsertNonceSecret(r)
        PROVE  secrets' \subseteq Bearer /\ nonces' \in [Eoa -> Seq(Nonce)]
    <3>1. Subject(r) \in Eoa /\ proc[r].body.nonce \in Nonce
      BY <2>1, <2>3 DEF InsertNonceSecret
    <3>2. Append(nonces[Subject(r)], proc[r].body.nonce) \in Seq(Nonce)
      BY <3>1
    <3>3. [eoa |-> Subject(r), secret |-> r] \in Bearer
      BY <3>1 DEF Bearer
    <3>4. CASE UNCHANGED <<secrets, nonces>>
      BY <3>4
    <3>5. CASE /\ nonces' = [nonces EXCEPT ![Subject(r)] = Append(@, proc[r].body.nonce)]
               /\ secrets' = secrets \cup {[eoa |-> Subject(r), secret |-> r]}
      BY <3>1, <3>2, <3>3, <3>5
    <3>. QED
      BY <2>3, <3>4, <3>5 DEF InsertNonceSecret
  <2>. QED
    BY <1>1, <2>2, <2>3 DEF Causes
<1>5. tracked' \subseteq Req
  BY <1>1 DEF Causes, TrackTx
<1>6. keys' \in Seq(SenderKey) /\ keys' # <<>> /\ KeysInv'
  <2>1. ASSUME NEW r \in Req, PickUpdate(r)
        PROVE  proc[r].key \in SenderKey /\ keys' = Accessed(proc[r].key)
    BY <2>1 DEF PickUpdate, At, ReqInv
  <2>2. keys' \in Seq(SenderKey) /\ KeysInv'
    BY <1>1, <2>1, AccessedFacts DEF Causes, KeysInv
  <2>. QED
    BY <2>2, ServerAssumption DEF KeysInv
<1>7. code' \subseteq Eoa /\ used' \in [Eoa -> SUBSET MsTs] /\ next' \in [SenderKey -> Nat]
  <2>1. ASSUME NEW c \in Call, Takes(c)
        PROVE  code' \subseteq Eoa /\ used' \in [Eoa -> SUBSET MsTs]
    <3>1. c.eoa \in Eoa /\ c.ms \subseteq MsTs
      BY DEF Call
    <3>2. used[c.eoa] \cup c.ms \in SUBSET MsTs
      BY <3>1
    <3>. QED
      BY <2>1, <3>1, <3>2 DEF Takes
  <2>2. ASSUME NEW t \in sent, Execute(t)
        PROVE  /\ code' \subseteq Eoa /\ used' \in [Eoa -> SUBSET MsTs]
               /\ next' \in [SenderKey -> Nat]
    <3>1. t.sender \in SenderKey /\ t.call \in Call
      BY <2>2 DEF Tx
    <3>2. next' = [next EXCEPT ![t.sender] = @ + 1]
      BY <2>2 DEF Execute
    <3>3. next' \in [SenderKey -> Nat]
      BY <3>1, <3>2
    <3>. QED
      BY <2>1, <2>2, <3>1, <3>3 DEF Execute
  <2>3. ASSUME NEW c \in DirectCall, CallDirectly(c)
        PROVE  /\ code' \subseteq Eoa /\ used' \in [Eoa -> SUBSET MsTs]
               /\ next' \in [SenderKey -> Nat]
    BY <2>1, <2>3, ServerAssumption DEF CallDirectly
  <2>. QED
    BY <1>1, <2>2, <2>3 DEF Causes
<1>8. up' \in BOOLEAN /\ crashes' \in 0..MaxCrashes
  <2>1. crashes \in 0..MaxCrashes /\ MaxCrashes \in Nat /\ up \in BOOLEAN
    BY ServerAssumption
  <2>2. CASE UNCHANGED <<up, crashes>>
    BY <2>1, <2>2
  <2>3. CASE Crash
    <3>1. crashes < MaxCrashes /\ crashes' = crashes + 1 /\ up' = FALSE
      BY <2>3 DEF Crash
    <3>2. crashes' \in 0..MaxCrashes
      BY <2>1, <3>1
    <3>. QED
      BY <3>1, <3>2
  <2>4. CASE Restart
    <3>1. crashes' = crashes /\ up' = TRUE
      BY <2>4 DEF Restart
    <3>. QED
      BY <2>1, <3>1
  <2>. QED
    BY <1>1, <2>2, <2>3, <2>4 DEF Causes
<1>. QED
  BY <1>2, <1>3, <1>4, <1>5, <1>6, <1>7, <1>8

-----------------------------------------------------------------------------
(* Transactions and the rows of the database.                              *)

\* Once its transaction is sent, a request does not send another.
LEMMA SendFacts ==
  ASSUME TypeOK, NEW r \in Req, ReqInv(r), SendTransaction(r)
  PROVE  /\ proc[r].pc = "send" /\ ~Dry(r) /\ Op(r) # "secret"
         /\ proc'[r].pc \in PastSend
         /\ TxOf(r).by = r /\ TxOf(r).call = CallOf(r) /\ TxOf(r).sender = proc[r].key
         /\ TxOf(r).nonce = proc[r].nonce
         /\ sent' = sent \cup {TxOf(r)} /\ ~Taken(TxOf(r))
<1>1. /\ proc[r].pc = "send" /\ Op(r) # "secret" /\ ~Dry(r)
      /\ sent' = sent \cup {TxOf(r)} /\ ~Taken(TxOf(r))
  BY DEF SendTransaction, At, ReqInv, Resolved
<1>2. CASE Err(r)
  BY <1>1, <1>2, ErrFacts DEF Moved, PastSend, TxOf
<1>3. CASE Proceed(r)
  <2>1. Moved(r, After(r)) /\ Op(r) \in {"create", "mint", "claim"}
    BY <1>1, <1>3, ProceedFacts DEF Resolved
  <2>2. After(r) \in {"secret", "track"}
    BY <1>1, <2>1, AfterCreate, AfterSolve
  <2>. QED
    BY <1>1, <2>1, <2>2 DEF Moved, PastSend, TxOf
<1>4. CASE Goto(r, "hung")
  BY <1>1, <1>4, GotoFacts DEF Moved, PastSend, TxOf, Running
<1>. QED
  BY <1>2, <1>3, <1>4 DEF SendTransaction, Return

\* The call of a request that has arrived stays the same.
LEMMA CallFrozen ==
  ASSUME NEW r \in Req, proc'[r].body = proc[r].body, proc'[r].bearer = proc[r].bearer
  PROVE  CallOf(r)' = CallOf(r) /\ Op(r)' = Op(r) /\ Dry(r)' = Dry(r) /\ Subject(r)' = Subject(r)
BY DEF CallOf, Op, Dry, Subject

\* Every step keeps what is known of a submitted transaction: which request sent
\* it and that its user stood behind it.
LEMMA TxNext ==
  ASSUME TypeOK, TypeOK', IsFiniteSet(sent), \A r \in Req : ReqInv(r), TxInv, [Next]_vars
  PROVE  TxInv'
<1>1. Frozen /\ Causes
  BY NextCauses, RequestsNext
<1>. DEFINE Good(t) ==
       /\ proc[t.by].pc \in PastSend /\ ~Dry(t.by) /\ Op(t.by) # "secret"
       /\ t.call = CallOf(t.by)
       /\ Op(t.by) = "create" => proc[t.by].body.signer = proc[t.by].body.eoa
       /\ Op(t.by) # "create" => proc[t.by].authed
<1>2. ASSUME NEW t \in sent PROVE Good(t)'
  <2>1. Good(t) /\ t.by \in Req
    BY DEF TxInv, TypeOK, Tx
  <2>2. proc[t.by].pc # "idle"
    BY <2>1 DEF PastSend
  <2>3. /\ proc'[t.by].body = proc[t.by].body /\ proc'[t.by].bearer = proc[t.by].bearer
        /\ proc[t.by].authed => proc'[t.by].authed
        /\ proc'[t.by].pc \in PastSend
    BY <1>1, <2>1, <2>2 DEF Frozen
  <2>4. CallOf(t.by)' = CallOf(t.by) /\ Op(t.by)' = Op(t.by) /\ Dry(t.by)' = Dry(t.by)
    BY <2>1, <2>3, CallFrozen
  <2>. QED
    BY <2>1, <2>3, <2>4
<1>3. ASSUME NEW r \in Req, SendTransaction(r) PROVE \E u : sent' = sent \cup {u} /\ Good(u)'
  <2>. DEFINE t == TxOf(r)
  <2>1. /\ proc[r].pc = "send" /\ ~Dry(r) /\ Op(r) # "secret" /\ proc'[r].pc \in PastSend
        /\ t.by = r /\ t.call = CallOf(r) /\ sent' = sent \cup {t}
    BY <1>3, SendFacts
  <2>2. /\ Op(r) = "create" => proc[r].body.signer = proc[r].body.eoa
        /\ Op(r) # "create" => proc[r].authed
    BY <2>1, BodyFacts DEF ReqInv, Resolved, TypeOK, Proc, Op
  <2>3. /\ proc'[r].body = proc[r].body /\ proc'[r].bearer = proc[r].bearer
        /\ proc[r].authed => proc'[r].authed
    BY <1>1, <2>1 DEF Frozen
  <2>4. CallOf(r)' = CallOf(r) /\ Op(r)' = Op(r) /\ Dry(r)' = Dry(r)
    BY <2>3, CallFrozen
  <2>. HIDE DEF t
  <2>5. ASSUME NEW u, u = t PROVE Good(u)'
    BY <2>1, <2>2, <2>3, <2>4, <2>5
  <2>. QED
    BY <2>1, <2>5
<1>4. \A t \in sent' : Good(t)'
  <2>. HIDE DEF Good
  <2>. QED
    BY <1>1, <1>2, <1>3 DEF Causes
<1>. QED
  BY <1>4 DEF TxInv

\* A transaction of a request stays.
LEMMA SentByKept ==
  ASSUME Grows, NEW r, SentBy(r)
  PROVE  SentBy(r)'
BY DEF Grows, SentBy

\* The rows that a step stores are those of the request that takes it.
LEMMA StoreFacts ==
  ASSUME TypeOK, NEW r \in Req, ReqInv(r), InsertSecret(r) \/ InsertNonceSecret(r),
         secrets' # secrets
  PROVE  /\ proc[r].pc = "secret" /\ ~Dry(r) /\ Op(r) \in {"create", "secret"}
         /\ secrets' = secrets \cup {[eoa |-> proc[r].body.eoa, secret |-> r]}
         /\ proc[r].body.eoa \in Eoa /\ proc[r].body.signer = proc[r].body.eoa
         /\ Op(r) = "create" => SentBy(r) /\ nonces' = nonces
         /\ Op(r) = "secret" =>
              /\ FeatureCheckCode => proc[r].body.eoa \in code
              /\ NonceUnused(proc[r].body.eoa, proc[r].body.nonce)
              /\ nonces' = [nonces EXCEPT ![proc[r].body.eoa] = Append(@, proc[r].body.nonce)]
<1>1. proc[r].pc = "secret" /\ Op(r) \in {"create", "secret"}
  BY DEF InsertSecret, InsertNonceSecret, At
<1>2. Subject(r) = proc[r].body.eoa /\ proc[r].body.eoa \in Eoa
  BY <1>1, BodyFacts DEF Subject, Op, TypeOK, Proc, CreateAccountArgs, RequestSecretArgs
<1>3. CASE Op(r) = "create"
  <2>1. InsertSecret(r)
    BY <1>3 DEF InsertNonceSecret
  <2>2. ~Dry(r)
    BY <2>1 DEF InsertSecret
  <2>3. SentBy(r) /\ proc[r].body.signer = proc[r].body.eoa
    BY <1>1, <1>3, <2>2 DEF ReqInv
  <2>. QED
    BY <1>1, <1>2, <1>3, <2>1, <2>2, <2>3 DEF InsertSecret
<1>4. CASE Op(r) = "secret"
  <2>1. InsertNonceSecret(r)
    BY <1>4 DEF InsertSecret
  <2>2. /\ proc[r].body.signer = proc[r].body.eoa
        /\ FeatureCheckCode => proc[r].body.eoa \in code
    BY <1>1, <1>4 DEF ReqInv
  <2>. QED
    BY <1>1, <1>2, <1>4, <2>1, <2>2 DEF InsertNonceSecret
<1>. QED
  BY <1>1, <1>3, <1>4

\* Every step keeps what the rows of the database say of the requests that wrote
\* them.
LEMMA RowNext ==
  ASSUME TypeOK, IsFiniteSet(sent), \A r \in Req : ReqInv(r), RowInv, [Next]_vars
  PROVE  RowInv'
<1>1. Frozen /\ Causes /\ Grows
  BY NextCauses, NextGrows, RequestsNext
<1>. DEFINE Good(row) ==
       LET b == proc[row.secret].body
       IN  /\ proc[row.secret].pc # "idle" /\ ~b.dry
           /\ b.op \in {"create", "secret"} /\ b.eoa = row.eoa /\ b.signer = row.eoa
           /\ b.op = "create" => SentBy(row.secret)
           /\ b.op = "secret" /\ FeatureCheckCode => b.eoa \in code
<1>2. ASSUME NEW row \in secrets PROVE Good(row)'
  <2>1. Good(row) /\ row.secret \in Req
    BY DEF RowInv, TypeOK, Bearer
  <2>2. proc'[row.secret].body = proc[row.secret].body /\ proc'[row.secret].pc # "idle"
    BY <1>1, <2>1 DEF Frozen
  <2>3. (SentBy(row.secret) => SentBy(row.secret)') /\ code \subseteq code'
    BY <1>1, SentByKept DEF Grows
  <2>. QED
    BY <2>1, <2>2, <2>3
<1>3. ASSUME NEW r \in Req, InsertSecret(r) \/ InsertNonceSecret(r), secrets' # secrets
      PROVE  \E row : secrets' = secrets \cup {row} /\ Good(row)'
  <2>. DEFINE b == proc[r].body
  <2>1. /\ proc[r].pc = "secret" /\ ~b.dry /\ b.op \in {"create", "secret"}
        /\ secrets' = secrets \cup {[eoa |-> b.eoa, secret |-> r]}
        /\ b.signer = b.eoa
        /\ b.op = "create" => SentBy(r)
        /\ b.op = "secret" /\ FeatureCheckCode => b.eoa \in code
    BY <1>3, StoreFacts DEF Op, Dry
  <2>2. proc'[r].body = b /\ proc'[r].pc # "idle"
    BY <1>1, <2>1 DEF Frozen
  <2>3. (SentBy(r) => SentBy(r)') /\ code \subseteq code'
    BY <1>1, SentByKept DEF Grows
  <2>4. ASSUME NEW row, row = [eoa |-> b.eoa, secret |-> r] PROVE Good(row)'
    <3>1. row.eoa = b.eoa /\ row.secret = r
      BY <2>4
    <3>. HIDE DEF b
    <3>. QED
      BY <2>1, <2>2, <2>3, <3>1
  <2>. QED
    BY <2>1, <2>4
<1>4. \A row \in secrets' : Good(row)'
  <2>. HIDE DEF Good
  <2>. QED
    BY <1>1, <1>2, <1>3 DEF Causes
<1>. QED
  BY <1>4 DEF RowInv

\* Only SendArguments that succeeded is followed by the insert that tracks it.
LEMMA TrackNext ==
  ASSUME TypeOK, IsFiniteSet(sent), \A r \in Req : ReqInv(r), TrackInv, [Next]_vars
  PROVE  TrackInv'
<1>1. Frozen /\ Causes /\ Grows
  BY NextCauses, NextGrows, RequestsNext
<1>. DEFINE Good(r) == proc[r].pc # "idle" /\ ~Dry(r) /\ SentBy(r)
<1>2. ASSUME NEW r \in Req, Good(r) PROVE Good(r)'
  BY <1>1, <1>2, SentByKept DEF Frozen, Dry
<1>3. \A r \in tracked : r \in Req /\ Good(r)
  BY DEF TrackInv, TypeOK
<1>4. ASSUME NEW r \in Req, TrackTx(r), tracked' # tracked
      PROVE  Good(r) /\ tracked' \subseteq tracked \cup {r}
  BY <1>4 DEF TrackTx, At, ReqInv, Resolved
<1>5. \A r \in tracked' : Good(r)'
  <2>. HIDE DEF Good
  <2>. QED
    BY <1>1, <1>2, <1>3, <1>4 DEF Causes
<1>. QED
  BY <1>5 DEF TrackInv

-----------------------------------------------------------------------------
(* The chain.                                                              *)

\* A transaction is sent to an account that exists, and accounts stay.
LEMMA ChainNext ==
  ASSUME TypeOK, \A r \in Req : ReqInv(r), ChainInv, [Next]_vars
  PROVE  ChainInv'
<1>1. Causes /\ Grows
  BY NextCauses, NextGrows
<1>2. ASSUME NEW t \in sent, t.call.kind = "solve" PROVE t.call.eoa \in code'
  BY <1>1, <1>2 DEF ChainInv, Grows
<1>3. ASSUME NEW r \in Req, SendTransaction(r), TxOf(r).call.kind = "solve"
      PROVE  TxOf(r).call.eoa \in code'
  <2>1. proc[r].pc = "send" /\ Op(r) # "secret" /\ TxOf(r).call = CallOf(r)
    BY <1>3, SendFacts
  <2>2. Op(r) \in {"mint", "claim"}
    BY <1>3, <2>1, BodyFacts DEF CallOf, Op, TypeOK, Proc
  <2>3. proc[r].bearer.eoa \in code
    BY <2>1, <2>2 DEF ReqInv
  <2>4. CallOf(r).eoa = proc[r].bearer.eoa
    BY <2>2 DEF CallOf, Subject, Op
  <2>. QED
    BY <1>1, <2>1, <2>3, <2>4 DEF Grows
<1>4. ASSUME NEW r \in Req, SendTransaction(r) PROVE sent' = sent \cup {TxOf(r)}
  BY <1>4, SendFacts
<1>. QED
  BY <1>1, <1>2, <1>3, <1>4 DEF Causes, ChainInv

-----------------------------------------------------------------------------
(* The nonces of requestSecret.                                            *)

\* The nonce is consumed in the step that stores the secret, so that a signature
\* that is presented twice gets one secret.
LEMMA SecretNext ==
  ASSUME TypeOK, IsFiniteSet(sent), \A r \in Req : ReqInv(r), RowInv, NonceInv,
         OneSecretPerSignature, [Next]_vars
  PROVE  NonceInv' /\ OneSecretPerSignature'
<1>1. Frozen /\ Causes
  BY NextCauses, RequestsNext
<1>. DEFINE body(s) == proc[s].body
            Has(e, n) == \E i \in DOMAIN nonces[e] : nonces[e][i] = n
\* What was stored, and by whom, does not change.
<1>2. ASSUME NEW row \in secrets
      PROVE  /\ row.secret \in Req /\ row.eoa \in Eoa /\ row = [eoa |-> row.eoa, secret |-> row.secret]
             /\ proc'[row.secret].body = proc[row.secret].body
             /\ proc[row.secret].body.eoa = row.eoa
             /\ proc[row.secret].body.op = "secret" => Has(row.eoa, proc[row.secret].body.nonce)
  <2>1. row.secret \in Req /\ row.eoa \in Eoa /\ row = [eoa |-> row.eoa, secret |-> row.secret]
    BY DEF TypeOK, Bearer
  <2>2. proc[row.secret].pc # "idle" /\ proc[row.secret].body.eoa = row.eoa
    BY DEF RowInv
  <2>. QED
    BY <1>1, <2>1, <2>2 DEF Frozen, NonceInv
<1>3. ASSUME NEW e \in Eoa, NEW r \in SecretRows(e)
      PROVE  /\ r \in Req /\ proc'[r].body = proc[r].body /\ proc[r].body.op = "secret"
             /\ proc[r].body.eoa = e /\ Has(e, proc[r].body.nonce)
  <2>1. r \in Req /\ [eoa |-> e, secret |-> r] \in secrets /\ proc[r].body.op = "secret"
    BY <1>3 DEF SecretRows, Stored, Op
  <2>. QED
    BY <1>2, <2>1
<1>4. CASE UNCHANGED <<secrets, nonces>>
  <2>1. NonceInv'
    BY <1>2, <1>4 DEF NonceInv
  <2>2. ASSUME NEW e \in Eoa PROVE SecretRows(e)' = SecretRows(e)
    BY <1>2, <1>4 DEF SecretRows, Stored, Op
  <2>3. OneSecretPerSignature'
    BY <1>3, <1>4, <2>2 DEF OneSecretPerSignature
  <2>. QED
    BY <2>1, <2>3
<1>5. ASSUME NEW r \in Req, InsertSecret(r) \/ InsertNonceSecret(r), secrets' # secrets
      PROVE  NonceInv' /\ OneSecretPerSignature'
  <2>. DEFINE b == proc[r].body
  <2>1. /\ proc[r].pc = "secret" /\ b.op \in {"create", "secret"} /\ b.eoa \in Eoa
        /\ secrets' = secrets \cup {[eoa |-> b.eoa, secret |-> r]}
        /\ b.op = "create" => nonces' = nonces
        /\ b.op = "secret" =>
             /\ NonceUnused(b.eoa, b.nonce)
             /\ nonces' = [nonces EXCEPT ![b.eoa] = Append(@, b.nonce)]
    BY <1>5, StoreFacts DEF Op
  <2>2. proc'[r].body = b
    BY <1>1, <2>1 DEF Frozen
  <2>3. /\ nonces \in [Eoa -> Seq(Nonce)]
        /\ b.op = "secret" => b.nonce \in Nonce
    BY BodyFacts DEF TypeOK, Proc, RequestSecretArgs
  <2>. HIDE DEF b
  \* The row of nonces of every user before and after.
  <2>4. ASSUME NEW e \in Eoa
        PROVE  /\ ~(b.op = "secret" /\ b.eoa = e) => nonces'[e] = nonces[e]
               /\ b.op = "secret" /\ b.eoa = e => nonces'[e] = Append(nonces[e], b.nonce)
    BY <2>1, <2>3
  <2>5. ASSUME NEW e \in Eoa, b.op = "secret", b.eoa = e
        PROVE  /\ \A n : Has(e, n) => \E i \in DOMAIN nonces'[e] : nonces'[e][i] = n
               /\ \E i \in DOMAIN nonces'[e] : nonces'[e][i] = b.nonce
               /\ \A i \in DOMAIN nonces'[e] : nonces'[e][i] = b.nonce \/ Has(e, nonces'[e][i])
               /\ ~Has(e, b.nonce)
    <3>. DEFINE old == nonces[e]
                new == nonces'[e]
    <3>1. old \in Seq(Nonce) /\ b.nonce \in Nonce /\ new = Append(old, b.nonce)
      BY <2>3, <2>4, <2>5
    <3>2. /\ DOMAIN old = 1..Len(old) /\ DOMAIN new = 1..Len(old) + 1 /\ Len(old) \in Nat
          /\ new[Len(old) + 1] = b.nonce /\ \A i \in 1..Len(old) : new[i] = old[i]
      BY <3>1
    <3>3. \A i \in DOMAIN old : old[i] # b.nonce
      BY <2>1, <2>5 DEF NonceUnused
    <3>. HIDE DEF old, new
    <3>4. /\ \A n : (\E i \in DOMAIN old : old[i] = n) => \E i \in DOMAIN new : new[i] = n
          /\ \E i \in DOMAIN new : new[i] = b.nonce
          /\ \A i \in DOMAIN new : new[i] = b.nonce \/ \E j \in DOMAIN old : old[j] = new[i]
      BY <3>2
    <3>. QED
      BY <3>3, <3>4 DEF old, new
  <2>6. NonceInv'
    <3>. SUFFICES ASSUME NEW row \in secrets', proc'[row.secret].body.op = "secret"
                  PROVE  \E i \in DOMAIN nonces'[row.eoa] :
                           nonces'[row.eoa][i] = proc'[row.secret].body.nonce
      BY DEF NonceInv
    <3>1. CASE row \in secrets
      <4>1. Has(row.eoa, proc'[row.secret].body.nonce) /\ row.eoa \in Eoa
        BY <1>2, <3>1
      <4>. QED
        BY <2>4, <2>5, <4>1
    <3>2. CASE row = [eoa |-> b.eoa, secret |-> r]
      <4>1. row.eoa = b.eoa /\ row.secret = r
        BY <3>2
      <4>. QED
        BY <2>1, <2>2, <2>5, <4>1
    <3>. QED
      BY <2>1, <3>1, <3>2
  <2>7. ASSUME NEW e \in Eoa
        PROVE  /\ SecretRows(e) \subseteq SecretRows(e)'
               /\ \A q \in SecretRows(e)' : q \in SecretRows(e) \/ (q = r /\ b.op = "secret" /\ b.eoa = e)
               /\ b.op = "secret" /\ b.eoa = e => r \in SecretRows(e)'
    <3>1. ASSUME NEW q \in SecretRows(e) PROVE q \in SecretRows(e)'
      <4>1. /\ q \in Req /\ [eoa |-> e, secret |-> q] \in secrets'
            /\ proc'[q].body.op = "secret"
        BY <1>3, <2>1 DEF SecretRows, Stored
      <4>. QED
        BY <4>1 DEF SecretRows, Stored, Op
    <3>2. ASSUME NEW q \in SecretRows(e)', q \notin SecretRows(e)
          PROVE  q = r /\ b.op = "secret" /\ b.eoa = e
      <4>1. q \in Req /\ [eoa |-> e, secret |-> q] \in secrets' /\ proc'[q].body.op = "secret"
        BY DEF SecretRows, Stored, Op
      <4>2. [eoa |-> e, secret |-> q] \notin secrets
        <5>. SUFFICES ASSUME [eoa |-> e, secret |-> q] \in secrets PROVE FALSE
          OBVIOUS
        <5>1. proc'[q].body = proc[q].body
          BY <1>2
        <5>. QED
          BY <3>2, <4>1, <5>1 DEF SecretRows, Stored, Op
      <4>3. [eoa |-> e, secret |-> q] = [eoa |-> b.eoa, secret |-> r]
        BY <2>1, <4>1, <4>2
      <4>4. e = b.eoa /\ q = r
        BY <4>3
      <4>. QED
        BY <2>2, <4>1, <4>4
    <3>3. ASSUME b.op = "secret", b.eoa = e PROVE r \in SecretRows(e)'
      BY <2>1, <2>2, <3>3 DEF SecretRows, Stored, Op
    <3>. QED
      BY <3>1, <3>2, <3>3
  <2>8. ASSUME NEW e \in Eoa, NEW q \in SecretRows(e)', NEW s \in SecretRows(e)',
               proc'[q].body.nonce = proc'[s].body.nonce
        PROVE  q = s
    <3>1. CASE q \in SecretRows(e) /\ s \in SecretRows(e)
      BY <1>3, <2>8, <3>1 DEF OneSecretPerSignature
    <3>2. CASE q \in SecretRows(e) /\ s = r /\ b.op = "secret" /\ b.eoa = e
      BY <1>3, <2>2, <2>5, <2>8, <3>2
    <3>3. CASE s \in SecretRows(e) /\ q = r /\ b.op = "secret" /\ b.eoa = e
      BY <1>3, <2>2, <2>5, <2>8, <3>3
    <3>. QED
      BY <2>7, <3>1, <3>2, <3>3
  <2>9. ASSUME NEW e \in Eoa, NEW i \in DOMAIN nonces'[e]
        PROVE  \E q \in SecretRows(e)' : proc'[q].body.nonce = nonces'[e][i]
    <3>1. ASSUME NEW n, Has(e, n) PROVE \E q \in SecretRows(e)' : proc'[q].body.nonce = n
      BY <1>3, <2>7, <3>1 DEF OneSecretPerSignature
    <3>2. CASE b.op = "secret" /\ b.eoa = e /\ nonces'[e][i] = b.nonce
      BY <2>2, <2>7, <3>2
    <3>3. CASE Has(e, nonces'[e][i])
      BY <3>1, <3>3
    <3>4. CASE nonces'[e] = nonces[e]
      BY <3>1, <3>4
    <3>. QED
      BY <2>4, <2>5, <3>2, <3>3, <3>4
  <2>. QED
    BY <2>6, <2>8, <2>9 DEF OneSecretPerSignature
<1>6. ASSUME NEW r \in Req, InsertSecret(r) \/ InsertNonceSecret(r), secrets' = secrets,
             nonces' # nonces
      PROVE  FALSE
  <2>1. CASE InsertSecret(r)
    BY <1>6, <2>1 DEF InsertSecret
  <2>2. CASE InsertNonceSecret(r)
    <3>. DEFINE row == [eoa |-> proc[r].body.eoa, secret |-> r]
    <3>1. /\ proc[r].body.op = "secret" /\ row \in secrets
          /\ NonceUnused(proc[r].body.eoa, proc[r].body.nonce)
      BY <1>6, <2>2 DEF InsertNonceSecret, Subject, Op
    <3>2. Has(proc[r].body.eoa, proc[r].body.nonce)
      BY <1>2, <3>1
    <3>. QED
      BY <3>1, <3>2 DEF NonceUnused
  <2>. QED
    BY <1>6, <2>1, <2>2
<1>. QED
  BY <1>1, <1>4, <1>5, <1>6 DEF Causes

-----------------------------------------------------------------------------
(* The nonces of the sender keys.                                          *)

\* A request that picked the same key may have been faster: then its nonce is
\* taken. Otherwise the nonce that was read is still the next one.
LEMMA GapNext ==
  ASSUME TypeOK, IsFiniteSet(sent), \A r \in Req : ReqInv(r), NoNonceGap, [Next]_vars
  PROVE  NoNonceGap'
<1>1. Causes
  BY NextCauses
<1>2. CASE sent' = sent
  BY <1>2 DEF NoNonceGap
<1>3. ASSUME NEW r \in Req, SendTransaction(r) PROVE NoNonceGap'
  <2>. DEFINE t == TxOf(r)
              mine(k) == {u \in sent : u.sender = k}
              mineN(k) == {u \in sent' : u.sender = k}
  <2>1. /\ proc[r].pc = "send" /\ t.sender = proc[r].key /\ t.nonce = proc[r].nonce
        /\ sent' = sent \cup {t} /\ ~Taken(t)
    BY <1>3, SendFacts
  <2>2. proc[r].nonce \in Nat /\ proc[r].nonce <= Cardinality(mine(t.sender))
    BY <2>1 DEF TypeOK, Proc, ReqInv, PendingNonceAt
  <2>. HIDE DEF t
  <2>3. ASSUME NEW k \in SenderKey
        PROVE  {u.nonce : u \in mineN(k)} = 0..(Cardinality(mineN(k)) - 1)
    <3>1. {u.nonce : u \in mine(k)} = 0..(Cardinality(mine(k)) - 1)
      BY DEF NoNonceGap
    <3>2. CASE t.sender # k
      <4>1. mineN(k) = mine(k)
        BY <2>1, <3>2
      <4>. QED
        BY <3>1, <4>1
    <3>3. CASE t.sender = k
      <4>1. mineN(k) = mine(k) \cup {t}
        BY <2>1, <3>3
      <4>2. t \notin mine(k)
        BY <2>1, <3>3 DEF Taken
      <4>3. IsFiniteSet(mine(k))
        BY FS_Subset
      <4>. DEFINE n == Cardinality(mine(k))
      <4>4. n \in Nat /\ Cardinality(mineN(k)) = n + 1
        BY <4>1, <4>2, <4>3, FS_CardinalityType, FS_AddElement
      <4>5. {u.nonce : u \in mineN(k)} = {u.nonce : u \in mine(k)} \cup {t.nonce}
        BY <4>1
      <4>6. t.nonce \in Nat /\ t.nonce <= n
        BY <2>1, <2>2, <3>3
      <4>7. t.nonce \notin 0..(n - 1)
        <5>1. t.nonce \notin {u.nonce : u \in mine(k)}
          BY <2>1, <3>3 DEF Taken
        <5>. QED
          BY <3>1, <5>1
      <4>. HIDE DEF n
      <4>8. t.nonce = n
        BY <4>4, <4>6, <4>7
      <4>9. (0..(n - 1)) \cup {n} = 0..((n + 1) - 1)
        BY <4>4
      <4>10. {u.nonce : u \in mineN(k)} = 0..((n + 1) - 1)
        BY <3>1, <4>5, <4>8, <4>9 DEF n
      <4>. QED
        BY <4>4, <4>10
    <3>. QED
      BY <3>2, <3>3
  <2>. QED
    BY <2>3 DEF NoNonceGap
<1>. QED
  BY <1>1, <1>2, <1>3 DEF Causes

-----------------------------------------------------------------------------
(* The theorems.                                                           *)

\* The program starts in the invariant: nothing has been sent or stored.
LEMMA InvInit ==
  ASSUME Init
  PROVE  Inv
<1>1. (CHOOSE b \in Body : TRUE) \in Body
  BY ServerAssumption
<1>2. ASSUME NEW r \in Req
      PROVE  proc[r].pc = "idle" /\ proc[r].authed = FALSE /\ proc[r] \in Proc
  BY <1>1, <1>2 DEF Init, Proc
<1>3. proc \in [Req -> Proc]
  BY <1>2 DEF Init
<1>4. /\ keys \in [1..Cardinality(SenderKey) -> SenderKey]
      /\ \A i, j \in DOMAIN keys : keys[i] = keys[j] => i = j
      /\ Cardinality(SenderKey) \in Nat /\ IsFiniteSet(SenderKey)
  BY ServerAssumption, FS_CardinalityType DEF Init
<1>5. keys \in Seq(SenderKey) /\ KeysInv
  <2>. DEFINE n == Cardinality(SenderKey)
  <2>1. keys \in Injection(1..n, SenderKey)
    BY <1>4 DEF Injection, IsInjective
  <2>2. IsFiniteSet(1..n) /\ Cardinality(1..n) = n
    BY <1>4, FS_Interval
  <2>3. keys \in Surjection(1..n, SenderKey)
    BY <1>4, <2>1, <2>2, FS_Injection
  <2>. QED
    BY <1>4, <2>3 DEF Surjection, KeysInv
<1>6. TypeOK
  <2>1. keys # <<>>
    BY <1>5, ServerAssumption DEF KeysInv
  <2>. QED
    BY <1>3, <1>5, <2>1, ServerAssumption DEF Init, TypeOK
<1>7. \A r \in Req : ReqInv(r)
  BY <1>2 DEF ReqInv, Resolved
<1>8. IsFiniteSet(sent)
  BY FS_EmptySet DEF Init
<1>9. TxInv /\ RowInv /\ TrackInv /\ NonceInv /\ ChainInv
  BY DEF Init, TxInv, RowInv, TrackInv, NonceInv, ChainInv
<1>10. OneSecretPerSignature
  BY DEF Init, OneSecretPerSignature, SecretRows, Stored
<1>11. NoNonceGap
  <2>1. \A k \in SenderKey : {t \in sent : t.sender = k} = {}
    BY DEF Init
  <2>2. Cardinality({}) = 0
    BY FS_EmptySet
  <2>3. {t.nonce : t \in {}} = {} /\ 0..(0 - 1) = {}
    OBVIOUS
  <2>. QED
    BY <2>1, <2>2, <2>3 DEF NoNonceGap
<1>. QED
  BY <1>5, <1>6, <1>7, <1>8, <1>9, <1>10, <1>11 DEF Inv

\* Every step keeps the invariant.
LEMMA InvNext ==
  ASSUME Inv, [Next]_vars
  PROVE  Inv'
<1>1. TypeOK' /\ KeysInv'
  BY TypeNext DEF Inv
<1>2. IsFiniteSet(sent') /\ \A r \in Req : ReqInv(r)'
  BY FiniteNext, RequestsNext DEF Inv
<1>3. TxInv' /\ RowInv' /\ TrackInv'
  BY <1>1, TxNext, RowNext, TrackNext DEF Inv
<1>4. ChainInv'
  BY ChainNext DEF Inv
<1>5. NonceInv' /\ OneSecretPerSignature' /\ NoNonceGap'
  BY SecretNext, GapNext DEF Inv
<1>. QED
  BY <1>1, <1>2, <1>3, <1>4, <1>5 DEF Inv

\* Inv holds in every state that the server, its database and the chain reach,
\* wherever the process dies and whichever calls fail.
THEOREM Invariance == SafetySpec => []Inv
<1>1. Init => Inv
  BY InvInit
<1>2. Inv /\ [Next]_vars => Inv'
  BY InvNext
<1>. QED
  BY <1>1, <1>2, PTL DEF SafetySpec

\* A transaction goes back to the user's signature.
LEMMA OwnerFromInv ==
  ASSUME Inv
  PROVE  SentForOwner
<1>. SUFFICES ASSUME NEW t \in sent
              PROVE  \/ t.call.kind = "create" /\ t.call.signer = t.call.eoa
                     \/ /\ t.call.kind = "solve" /\ proc[t.by].bearer # NoBearer
                        /\ LET s == proc[t.by].bearer.secret
                           IN  Stored(t.call.eoa, s) /\ proc[s].body.signer = t.call.eoa
  BY DEF SentForOwner
<1>. DEFINE r == t.by
<1>1. /\ r \in Req /\ ReqInv(r) /\ t.call = CallOf(r) /\ Op(r) # "secret"
      /\ Op(r) = "create" => proc[r].body.signer = proc[r].body.eoa
      /\ Op(r) # "create" => proc[r].authed
  BY DEF Inv, TypeOK, Tx, TxInv
<1>2. Op(r) \in {"create", "mint", "claim"}
  BY <1>1, BodyFacts DEF Inv, TypeOK, Proc, Op
<1>. HIDE DEF r
<1>3. CASE Op(r) = "create"
  BY <1>1, <1>3 DEF CallOf, Op
<1>4. CASE Op(r) \in {"mint", "claim"}
  <2>1. proc[r].bearer \in Bearer /\ Stored(proc[r].bearer.eoa, proc[r].bearer.secret)
    BY <1>1, <1>4 DEF ReqInv
  <2>2. proc[r].bearer # NoBearer
    BY <2>1, ServerAssumption
  <2>3. t.call.kind = "solve" /\ t.call.eoa = proc[r].bearer.eoa
    BY <1>1, <1>4 DEF CallOf, Subject, Op
  <2>. DEFINE s == proc[r].bearer.secret
              row == [eoa |-> proc[r].bearer.eoa, secret |-> s]
  <2>4. row \in secrets
    BY <2>1 DEF Stored
  <2>5. proc[row.secret].body.signer = row.eoa
    BY <2>4 DEF Inv, RowInv
  <2>6. proc[s].body.signer = t.call.eoa
    BY <2>3, <2>5
  <2>. QED
    BY <2>1, <2>2, <2>3, <2>6 DEF r
<1>. QED
  BY <1>2, <1>3, <1>4

\* What was answered or tracked is stored and sent.
LEMMA AnswersFromInv ==
  ASSUME Inv
  PROVE  AnswersHold
<1>1. ASSUME NEW r \in Req, proc[r].pc = "done", ~Dry(r)
      PROVE  /\ Op(r) \in {"create", "secret"} => Stored(Subject(r), r)
             /\ Op(r) # "secret" => SentBy(r)
  <2>1. /\ Op(r) \in {"create", "secret"} => Stored(proc[r].body.eoa, r)
        /\ Op(r) # "secret" => SentBy(r)
    BY <1>1 DEF Inv, ReqInv
  <2>2. Op(r) \in {"create", "secret"} => Subject(r) = proc[r].body.eoa
    BY DEF Subject
  <2>. QED
    BY <2>1, <2>2
<1>2. ASSUME NEW r \in tracked PROVE SentBy(r)
  BY DEF Inv, TrackInv
<1>. QED
  BY <1>1, <1>2 DEF AnswersHold, SentBy

\* Whatever goes back to a request is not of a dryrun.
LEMMA DryrunFromInv ==
  ASSUME Inv
  PROVE  DryrunInert
<1>. SUFFICES ASSUME NEW r \in Req, Dry(r)
              PROVE  /\ \A t \in sent : t.by # r
                     /\ \A e \in Eoa : ~Stored(e, r)
                     /\ r \notin tracked
  BY DEF DryrunInert
<1>1. \A t \in sent : t.by # r
  BY DEF Inv, TxInv
<1>2. ASSUME NEW e \in Eoa, Stored(e, r) PROVE FALSE
  <2>. DEFINE row == [eoa |-> e, secret |-> r]
  <2>1. row \in secrets
    BY <1>2 DEF Stored
  <2>2. ~proc[row.secret].body.dry
    BY <2>1 DEF Inv, RowInv
  <2>. QED
    BY <2>2 DEF Dry
<1>3. r \notin tracked
  BY DEF Inv, TrackInv
<1>. QED
  BY <1>1, <1>2, <1>3

\* A transaction carries what its user signed to an account that exists: it is
\* refused only if it comes too late.
LEMMA RefusedFromInv ==
  ASSUME Inv
  PROVE  RefusedOnlyIfDone
<1>. SUFFICES ASSUME NEW t \in sent, ~Accepts(t.call)
              PROVE  AlreadyDone(t.call)
  BY DEF RefusedOnlyIfDone
<1>. DEFINE r == t.by
<1>1. /\ r \in Req /\ t.call = CallOf(r) /\ Op(r) # "secret"
      /\ Op(r) = "create" => proc[r].body.signer = proc[r].body.eoa
      /\ t.call.kind = "solve" => t.call.eoa \in code
  BY DEF Inv, TypeOK, Tx, TxInv, ChainInv
<1>2. Op(r) \in {"create", "mint", "claim"}
  BY <1>1, BodyFacts DEF Inv, TypeOK, Proc, Op
<1>. HIDE DEF r
<1>3. CASE Op(r) = "create"
  <2>1. t.call.kind = "create" /\ t.call.signer = t.call.eoa
    BY <1>1, <1>3 DEF CallOf, Op
  <2>. QED
    BY <2>1 DEF Accepts, AlreadyDone
<1>4. CASE Op(r) \in {"mint", "claim"}
  <2>1. t.call.kind = "solve" /\ t.call.ms = {proc[r].body.ms_ts}
    BY <1>1, <1>4 DEF CallOf, Op
  <2>. QED
    BY <1>1, <2>1 DEF Accepts, AlreadyDone
<1>. QED
  BY <1>2, <1>3, <1>4

\* A row goes back to a creation that was sent, or to an account that exists.
LEMMA CreatedFromInv ==
  ASSUME Inv
  PROVE  HasCreatedMeansAccount
<1>. SUFFICES ASSUME FeatureCheckCode, NEW row \in secrets
              PROVE  \/ row.eoa \in code
                     \/ \E t \in sent : t.call.kind = "create" /\ t.call.eoa = row.eoa
  BY DEF HasCreatedMeansAccount, HasCreated
<1>. DEFINE b == proc[row.secret].body
<1>1. /\ b.op \in {"create", "secret"} /\ b.eoa = row.eoa
      /\ b.op = "create" => SentBy(row.secret)
      /\ b.op = "secret" => b.eoa \in code
  BY DEF Inv, RowInv
<1>2. CASE b.op = "create"
  <2>1. PICK t \in sent : t.by = row.secret
    BY <1>1, <1>2 DEF SentBy
  <2>2. t.call = CallOf(row.secret)
    BY <2>1 DEF Inv, TxInv
  <2>. QED
    BY <1>1, <1>2, <2>2 DEF CallOf
<1>. QED
  BY <1>1, <1>2

\* Type correctness of the server, the database and the chain.
THEOREM TypeCorrect == SafetySpec => []TypeOK
<1>1. Inv => TypeOK
  BY DEF Inv
<1>. QED
  BY <1>1, Invariance, PTL

\* Every transaction that the server sends for a user goes back to a signature
\* of that user, for any requests, headers and secrets that clients mix.
THEOREM OwnersOnly == SafetySpec => []SentForOwner
<1>1. Inv => SentForOwner
  BY OwnerFromInv
<1>. QED
  BY <1>1, Invariance, PTL

\* A signature for requestSecret is good for one secret and its nonce is
\* consumed with the secret, however many requests present it at once and
\* wherever the process dies.
THEOREM SecretsOnce == SafetySpec => []OneSecretPerSignature
<1>1. Inv => OneSecretPerSignature
  BY DEF Inv
<1>. QED
  BY <1>1, Invariance, PTL

\* What a client was told, and what is tracked, stays true: the secret is
\* stored, the transaction accepted.
THEOREM AnswersTrue == SafetySpec => []AnswersHold
<1>1. Inv => AnswersHold
  BY AnswersFromInv
<1>. QED
  BY <1>1, Invariance, PTL

\* A dryrun sends, stores and tracks nothing, in any resolver.
THEOREM DryrunsInert == SafetySpec => []DryrunInert
<1>1. Inv => DryrunInert
  BY DryrunFromInv
<1>. QED
  BY <1>1, Invariance, PTL

\* Whatever happens between the simulation and the execution, by any number of
\* requests, repetitions and direct calls: the contracts refuse a transaction
\* only because what it asks for has been done.
THEOREM RefusedIfDone == SafetySpec => []RefusedOnlyIfDone
<1>1. Inv => RefusedOnlyIfDone
  BY RefusedFromInv
<1>. QED
  BY <1>1, Invariance, PTL

\* The nonces of every sender key are 0, 1, 2, ... without a gap, though
\* requests that share a key read the same pending nonce.
THEOREM NoncesContiguous == SafetySpec => []NoNonceGap
<1>1. Inv => NoNonceGap
  BY DEF Inv
<1>. QED
  BY <1>1, Invariance, PTL

\* With FeatureCheckCode, a user whom hasCreated reports has an account, a
\* creation on its way or a row of the first version, whoever else creates
\* accounts.
THEOREM CreatedMeansAccount == SafetySpec => []HasCreatedMeansAccount
<1>1. Inv => HasCreatedMeansAccount
  BY CreatedFromInv
<1>. QED
  BY <1>1, Invariance, PTL
=============================================================================
