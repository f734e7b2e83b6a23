------------------------------- MODULE Server -------------------------------
(***************************************************************************)
(* The GraphQL server (main.go, graph/, lib/client, lib/db), its database  *)
(* and the chain it sends transactions to.                                 *)
(*                                                                         *)
(* Every request is served by a goroutine of its own; a step ends at each  *)
(* database or RPC call, since the state it reads may change before the    *)
(* next one. Any of those calls may fail or, for want of timeouts, never   *)
(* return, and a failure to authenticate or to pick a key for lack of the  *)
(* database ends the whole process (log.Fatalf), with every request in     *)
(* flight. systemd restarts it. The database and the chain survive.        *)
(*                                                                         *)
(* The chain accepts the transactions of a sender in the order of their    *)
(* nonces, refuses a nonce that is taken, drops none and executes each     *)
(* one later. The factory and the accounts ask for signatures, not for a   *)
(* sender: others call them too.                                           *)
(***************************************************************************)
EXTENDS Naturals, Sequences, FiniteSets

CONSTANTS
  Req,        \* the HTTP requests; r also names the secret and the
              \* transaction that the request r makes
  Eoa,        \* the users' Ethereum addresses
  SenderKey,  \* rows of accounts_sender_keys_1
  MsTs,       \* single-use values of the accounts' operations
  Nonce,      \* nonces of requestSecret
  Body,       \* what clients ask for
  NoBearer,   \* no Authorization header, or the admin secret
  NoKey,      \* no sender key picked yet
  InitCode,   \* users who already have an account
  OldUser,    \* users with a row in accounts_secrets_1
  DirectCall, \* what others call without the server
  FeatureClaimDisabled,
  FeatureMintDisabled,
  FeatureCheckCode,
  UrlAlarm,   \* is there a webhook for alarms?
  MaxCrashes  \* bound: how often the process dies

-----------------------------------------------------------------------------
(* The arguments of the mutations. signer is the key that made the         *)
(* signature in the request; enough says that mint.Amount parses and is at *)
(* least MinimumAmount; mint is empty or has the ms_ts of the mint.        *)

CreateAccountArgs == [op: {"create"}, eoa: Eoa, signer: Eoa, mint: SUBSET MsTs, dry: BOOLEAN]

RequestSecretArgs == [op: {"secret"}, eoa: Eoa, signer: Eoa, nonce: Nonce, dry: BOOLEAN]

MintArgs == [op: {"mint"}, ms_ts: MsTs, enough: BOOLEAN, dry: BOOLEAN]

ClaimArgs == [op: {"claim"}, ms_ts: MsTs, dry: BOOLEAN]

Bearer == [eoa: Eoa, secret: Req]

\* A call of the factory (FreshBackwards) or of an account (SolveV2).
Call == [kind: {"create", "solve"}, eoa: Eoa, signer: Eoa, ms: SUBSET MsTs]

ASSUME ServerAssumption ==
  /\ Body \subseteq CreateAccountArgs \cup RequestSecretArgs \cup MintArgs \cup ClaimArgs
  /\ Body # {}
  /\ InitCode \subseteq Eoa /\ OldUser \subseteq Eoa
  /\ DirectCall \subseteq Call
  /\ Nonce \subseteq Nat
  /\ NoBearer \notin Bearer
  /\ SenderKey # {} /\ NoKey \notin SenderKey
  /\ IsFiniteSet(Req) /\ IsFiniteSet(SenderKey)
  /\ {FeatureClaimDisabled, FeatureMintDisabled, FeatureCheckCode, UrlAlarm} \subseteq BOOLEAN
  /\ MaxCrashes \in Nat

VARIABLES
  secrets,   \* rows of accounts_secrets_2
  nonces,    \* rows of accounts_secrets_nonces_2 of each user, by id
  keys,      \* the sender keys, least recently accessed first
  tracked,   \* rows of accounts_executed_transactions_2
  code,      \* users whose account exists on chain
  used,      \* storage::timestamps of each user's account
  next,      \* sender nonces executed
  sent,      \* transactions that the chain accepted
  proc,      \* the requests
  up,        \* is the process running?
  crashes

dbVars == <<secrets, nonces, keys, tracked>>

chainVars == <<code, used, next, sent>>

vars == <<dbVars, chainVars, proc, up, crashes>>

Tx == [by: Req, sender: SenderKey, nonce: Nat, call: Call]

\* hung: the request waits for a call that never returns.
Running == {"auth", "resolve", "pick", "picked", "sign", "estimate", "nonce",
            "send", "secret", "track", "alarm", "hung"}

\* done: answered with a result; failed: with an error; lost: not at all.
Answered == {"done", "failed", "lost"}

Proc == [pc: {"idle"} \cup Running \cup Answered,
         body: Body, bearer: Bearer \cup {NoBearer}, authed: BOOLEAN,
         key: SenderKey \cup {NoKey}, nonce: Nat]

Op(r) == proc[r].body.op

Dry(r) == proc[r].body.dry

\* The account that the request acts for.
Subject(r) == IF Op(r) \in {"create", "secret"} THEN proc[r].body.eoa ELSE proc[r].bearer.eoa

CallOf(r) ==
  LET b == proc[r].body
  IN  IF b.op = "create"
      THEN [kind |-> "create", eoa |-> b.eoa, signer |-> b.signer, ms |-> b.mint]
      ELSE [kind |-> "solve", eoa |-> Subject(r), signer |-> Subject(r), ms |-> {b.ms_ts}]

At(r, pc) == up /\ proc[r].pc = pc

Goto(r, pc) == proc' = [proc EXCEPT ![r].pc = pc]

-----------------------------------------------------------------------------
(* The calls that each resolver makes, in their order. createAccountExec   *)
(* converts and signs its arguments before it picks a key, the others      *)
(* after.                                                                  *)

CreateAccountSteps ==
  <<"resolve", "pick", "picked", "estimate", "nonce", "send", "secret", "track">>

RequestSecretSteps == <<"resolve", "secret">>

MintSteps == <<"resolve", "pick", "picked", "sign", "estimate", "nonce", "send", "track">>

ClaimSteps == <<"resolve", "pick", "picked", "sign", "estimate", "nonce", "send", "track">>

Steps(op) ==
  CASE op = "create" -> CreateAccountSteps
    [] op = "secret" -> RequestSecretSteps
    [] op = "mint" -> MintSteps
    [] op = "claim" -> ClaimSteps

\* Where r goes after the call it is at.
After(r) ==
  LET s == Steps(Op(r))
      i == CHOOSE i \in DOMAIN s : s[i] = proc[r].pc
  IN  IF i = Len(s) THEN "done" ELSE s[i + 1]

Proceed(r) == Goto(r, After(r))

\* An error of the conversion of a mint or of SendArguments sounds the alarm,
\* unless it is ignorable, which claimRewards does not ask.
ErrorAt(r) ==
  IF UrlAlarm /\ proc[r].pc \in {"sign", "estimate", "nonce", "send"}
               /\ ~(Op(r) = "claim" /\ proc[r].pc = "sign")
  THEN IF Op(r) = "claim" THEN {"alarm"} ELSE {"alarm", "failed"}
  ELSE {"failed"}

\* Mutant: what could not be sent is tried again with the next nonce.
MutErrRetries(r) ==
  IF proc[r].pc = "send" THEN Goto(r, "nonce") ELSE \E pc \in ErrorAt(r) : Goto(r, pc)

Err(r) == \E pc \in ErrorAt(r) : Goto(r, pc)

\* A call that did what it is for returns, or its answer is lost, or nothing
\* comes back at all.
Return(r) == Proceed(r) \/ Err(r) \/ Goto(r, "hung")

-----------------------------------------------------------------------------
(* The chain.                                                              *)

\* The factory wants the user's signature and a free create2 address; the
\* SafetyRouter wants the account's code, and the account an unused ms_ts.
Accepts(c) ==
  IF c.kind = "create" THEN c.signer = c.eoa /\ c.eoa \notin code
  ELSE c.eoa \in code /\ c.ms \cap used[c.eoa] = {}

\* What a call does that succeeds.
Takes(c) ==
  /\ code' = code \cup {c.eoa}
  /\ used' = [used EXCEPT ![c.eoa] = @ \cup c.ms]

\* PendingNonceAt: every transaction accepted so far has taken a nonce.
PendingNonceAt(k) == Cardinality({t \in sent : t.sender = k})

\* The chain executes the next transaction of sender k. It succeeds only if it
\* is still accepted; the target, a market or a token may make it fail too.
Execute(t) ==
  /\ t.nonce = next[t.sender]
  /\ next' = [next EXCEPT ![t.sender] = @ + 1]
  /\ \/ Accepts(t.call) /\ Takes(t.call)
     \/ UNCHANGED <<code, used>>
  /\ UNCHANGED <<dbVars, sent, proc, up, crashes>>

\* FreshBackwards and the operations of an account do not look at the sender:
\* the user, or whoever has the signatures, may call them at any time.
CallDirectly(c) ==
  /\ Accepts(c)
  /\ Takes(c)
  /\ UNCHANGED <<dbVars, next, sent, proc, up, crashes>>

-----------------------------------------------------------------------------
(* A request arrives and is authenticated. A malformed header is refused   *)
(* like an unknown secret.                                                 *)

\* Secrets that a client has been told.
Known == {s \in Req : proc[s].pc = "done" /\ Op(s) \in {"create", "secret"}}

\* A client sends b, with one of the secrets it was told, for any user.
Submit(r, b, h) ==
  /\ At(r, "idle")
  /\ h # NoBearer => h.secret \in Known
  /\ proc' = [proc EXCEPT ![r] = [pc |-> "auth", body |-> b, bearer |-> h, authed |-> FALSE,
                                  key |-> NoKey, nonce |-> 0]]
  /\ UNCHANGED <<dbVars, chainVars, up, crashes>>

\* Mutant: the secret is looked up without its user.
MutAnySecret(h) == \E row \in secrets : row.secret = h.secret

\* SELECT COUNT(1) ... WHERE eoa_addr = $1 AND secret = $2
Authenticates(h) == [eoa |-> h.eoa, secret |-> h.secret] \in secrets

\* authMiddleware.ServeHTTP: without a header the request goes on, unauthed.
ServeHTTP(r) ==
  /\ At(r, "auth")
  /\ LET h == proc[r].bearer
     IN  \/ /\ h = NoBearer
            /\ Goto(r, "resolve")
         \/ /\ h # NoBearer /\ Authenticates(h)
            /\ proc' = [proc EXCEPT ![r].pc = "resolve", ![r].authed = TRUE]
         \/ /\ h # NoBearer /\ ~Authenticates(h)
            /\ Goto(r, "failed")
  /\ UNCHANGED <<dbVars, chainVars, up, crashes>>

-----------------------------------------------------------------------------
(* The resolvers, up to their first effect.                                *)

\* The user's signature is checked by the factory alone, on chain.
CreateAccountExec(r) ==
  /\ At(r, "resolve") /\ Op(r) = "create"
  /\ Proceed(r)
  /\ UNCHANGED <<dbVars, chainVars, up, crashes>>

\* Mutant: the account's code is not looked for.
MutNoCheckCode(r) ==
  /\ At(r, "resolve") /\ Op(r) = "secret"
  /\ Goto(r, IF proc[r].body.signer = proc[r].body.eoa THEN "secret" ELSE "failed")
  /\ UNCHANGED <<dbVars, chainVars, up, crashes>>

RequestSecret(r) ==
  LET b == proc[r].body
  IN  /\ At(r, "resolve") /\ Op(r) = "secret"
      /\ IF b.signer = b.eoa /\ (FeatureCheckCode => b.eoa \in code) THEN Proceed(r) ELSE Err(r)
      /\ UNCHANGED <<dbVars, chainVars, up, crashes>>

NinelivesMint(r) ==
  /\ At(r, "resolve") /\ Op(r) = "mint"
  /\ IF FeatureMintDisabled \/ ~proc[r].body.enough \/ ~proc[r].authed THEN Err(r) ELSE Proceed(r)
  /\ UNCHANGED <<dbVars, chainVars, up, crashes>>

ClaimRewards(r) ==
  /\ At(r, "resolve") /\ Op(r) = "claim"
  /\ IF FeatureClaimDisabled \/ ~proc[r].authed THEN Err(r) ELSE Proceed(r)
  /\ UNCHANGED <<dbVars, chainVars, up, crashes>>

-----------------------------------------------------------------------------
(* PickPrivateKey. The statement of accounts_get_private_key_2 evaluates   *)
(* its subquery first and locks the row it found afterwards: two requests  *)
(* may find the same row. There is a row, as none is ever deleted; without *)
(* one PickPrivateKey fails, which is a Crash.                             *)

PickSelect(r) ==
  /\ At(r, "pick")
  /\ proc' = [proc EXCEPT ![r].pc = After(r), ![r].key = Head(keys)]
  /\ UNCHANGED <<dbVars, chainVars, up, crashes>>

\* SET last_accessed = NOW(): k is the most recently accessed key now.
Accessed(k) ==
  LET i == CHOOSE i \in DOMAIN keys : keys[i] = k
  IN  Append(SubSeq(keys, 1, i - 1) \o SubSeq(keys, i + 1, Len(keys)), k)

PickUpdate(r) ==
  /\ At(r, "picked")
  /\ keys' = Accessed(proc[r].key)
  /\ Proceed(r)
  /\ UNCHANGED <<secrets, nonces, tracked, chainVars, up, crashes>>

\* convertor.Create... and CreateSolveV2, which runs the signing program.
SignArgs(r) ==
  /\ At(r, "sign")
  /\ Proceed(r)
  /\ UNCHANGED <<dbVars, chainVars, up, crashes>>

-----------------------------------------------------------------------------
(* client.SendArguments.                                                   *)

\* Mutant: the transaction is sent whatever the simulation says.
MutNoVerdict(r) ==
  /\ At(r, "estimate")
  /\ Proceed(r)
  /\ UNCHANGED <<dbVars, chainVars, up, crashes>>

EstimateGas(r) ==
  /\ At(r, "estimate")
  /\ IF Accepts(CallOf(r)) THEN Proceed(r) ELSE Err(r)
  /\ UNCHANGED <<dbVars, chainVars, up, crashes>>

\* Mutant: the nonce is one too high.
MutNonceTooHigh(r) ==
  /\ At(r, "nonce")
  /\ proc' = [proc EXCEPT ![r].pc = "send", ![r].nonce = PendingNonceAt(proc[r].key) + 1]
  /\ UNCHANGED <<dbVars, chainVars, up, crashes>>

\* Mutant: the last nonce that was used.
MutLastNonce(r) ==
  /\ At(r, "nonce")
  /\ proc' = [proc EXCEPT ![r].pc = "send", ![r].nonce = PendingNonceAt(proc[r].key) - 1]
  /\ UNCHANGED <<dbVars, chainVars, up, crashes>>

FetchNonce(r) ==
  /\ At(r, "nonce")
  /\ proc' = [proc EXCEPT ![r].pc = After(r), ![r].nonce = PendingNonceAt(proc[r].key)]
  /\ UNCHANGED <<dbVars, chainVars, up, crashes>>

TxOf(r) == [by |-> r, sender |-> proc[r].key, nonce |-> proc[r].nonce, call |-> CallOf(r)]

Taken(t) == \E u \in sent : u.sender = t.sender /\ u.nonce = t.nonce

\* The chain accepts the transaction; its answer may be lost all the same.
SendTransaction(r) ==
  /\ At(r, "send") /\ ~Dry(r)
  /\ ~Taken(TxOf(r))
  /\ sent' = sent \cup {TxOf(r)}
  /\ Return(r)
  /\ UNCHANGED <<dbVars, code, used, next, up, crashes>>

\* A dryrun simulates the call a second time.
CallContract(r) ==
  /\ At(r, "send") /\ Dry(r)
  /\ IF Accepts(CallOf(r)) THEN Proceed(r) ELSE Err(r)
  /\ UNCHANGED <<dbVars, chainVars, up, crashes>>

-----------------------------------------------------------------------------
(* What is recorded after that, unless it is a dryrun. An insert may be    *)
(* committed though its answer is lost.                                    *)

\* Mutant: an insert that fails goes unnoticed.
MutInsertIgnored(r) ==
  /\ At(r, "secret") /\ Op(r) = "create"
  /\ secrets' \in {secrets, secrets \cup {[eoa |-> Subject(r), secret |-> r]}}
  /\ Proceed(r)
  /\ UNCHANGED <<nonces, keys, tracked, chainVars, up, crashes>>

\* Mutant: createAccountExec does not ask whether it is a dryrun.
MutDryrunStores(r) ==
  /\ At(r, "secret") /\ Op(r) = "create"
  /\ secrets' = secrets \cup {[eoa |-> Subject(r), secret |-> r]}
  /\ Return(r)
  /\ UNCHANGED <<nonces, keys, tracked, chainVars, up, crashes>>

\* INSERT INTO accounts_secrets_2, after the creation was sent.
InsertSecret(r) ==
  /\ At(r, "secret") /\ Op(r) = "create"
  /\ \/ Dry(r) /\ Proceed(r) /\ UNCHANGED secrets
     \/ /\ ~Dry(r)
        /\ secrets' = secrets \cup {[eoa |-> Subject(r), secret |-> r]}
        /\ Return(r)
  /\ UNCHANGED <<nonces, keys, tracked, chainVars, up, crashes>>

\* Mutant: the table has no unique index.
MutNonceReused(e, n) == TRUE

\* The unique index on (eoa_addr, nonce).
NonceUnused(e, n) == \A i \in DOMAIN nonces[e] : nonces[e][i] # n

\* accounts_insert_nonce_secret_3: both rows or neither.
InsertNonceSecret(r) ==
  LET e == Subject(r)
      n == proc[r].body.nonce
  IN  /\ At(r, "secret") /\ Op(r) = "secret"
      /\ \/ Dry(r) /\ Proceed(r) /\ UNCHANGED <<secrets, nonces>>
         \/ /\ ~Dry(r) /\ NonceUnused(e, n)
            /\ nonces' = [nonces EXCEPT ![e] = Append(@, n)]
            /\ secrets' = secrets \cup {[eoa |-> e, secret |-> r]}
            /\ Return(r)
         \/ /\ ~Dry(r) /\ ~NonceUnused(e, n)
            /\ Err(r)
            /\ UNCHANGED <<secrets, nonces>>
      /\ UNCHANGED <<keys, tracked, chainVars, up, crashes>>

\* trackTx: an error is logged and ignored.
TrackTx(r) ==
  /\ At(r, "track")
  /\ \/ Dry(r) /\ Proceed(r) /\ UNCHANGED tracked
     \/ /\ ~Dry(r)
        /\ tracked' = tracked \cup {r} \/ UNCHANGED tracked
        /\ Proceed(r) \/ Goto(r, "hung")
  /\ UNCHANGED <<secrets, nonces, keys, chainVars, up, crashes>>

-----------------------------------------------------------------------------
(* Failures.                                                               *)

\* Arguments that do not parse, or a call that fails: an error for the client.
Fail(r) ==
  /\ up /\ proc[r].pc \in {"resolve", "sign", "estimate", "nonce", "send", "secret"}
  /\ Err(r)
  /\ UNCHANGED <<dbVars, chainVars, up, crashes>>

\* The requests that wait for the database, the RPC node, the program that
\* signs or the webhook: none of these calls has a timeout.
Calling(r) ==
  \/ At(r, "auth") /\ proc[r].bearer # NoBearer
  \/ At(r, "resolve") /\ \/ Op(r) = "create" /\ proc[r].body.mint # {}
                         \/ Op(r) = "secret" /\ FeatureCheckCode
  \/ \E pc \in {"pick", "picked", "sign", "estimate", "nonce", "send", "alarm"} : At(r, pc)
  \/ At(r, "secret") /\ ~Dry(r)

\* The call never returns, and has done nothing.
Hang(r) ==
  /\ Calling(r)
  /\ Goto(r, "hung")
  /\ UNCHANGED <<dbVars, chainVars, up, crashes>>

\* activateSoftAlarm: the webhook answers, or http.Post fails and the response
\* that is nil panics; the client is told of an error either way.
Alarm(r) ==
  /\ At(r, "alarm")
  /\ Goto(r, "failed")
  /\ UNCHANGED <<dbVars, chainVars, up, crashes>>

\* log.Fatalf in one request, or the machine, ends them all.
Crash ==
  /\ up /\ crashes < MaxCrashes
  /\ up' = FALSE
  /\ crashes' = crashes + 1
  /\ proc' = [r \in Req |-> IF proc[r].pc \in Running THEN [proc[r] EXCEPT !.pc = "lost"]
                            ELSE proc[r]]
  /\ UNCHANGED <<dbVars, chainVars>>

\* systemd: Restart=on-failure.
Restart ==
  /\ ~up
  /\ up' = TRUE
  /\ UNCHANGED <<dbVars, chainVars, proc, crashes>>

-----------------------------------------------------------------------------
Init ==
  /\ secrets = {}
  /\ nonces = [e \in Eoa |-> <<>>]
  /\ keys \in {s \in [1..Cardinality(SenderKey) -> SenderKey] :
                 \A i, j \in DOMAIN s : s[i] = s[j] => i = j}
  /\ tracked = {}
  /\ code = InitCode
  /\ used = [e \in Eoa |-> {}]
  /\ next = [k \in SenderKey |-> 0]
  /\ sent = {}
  /\ proc = [r \in Req |-> [pc |-> "idle", body |-> CHOOSE b \in Body : TRUE,
                            bearer |-> NoBearer, authed |-> FALSE, key |-> NoKey, nonce |-> 0]]
  /\ up = TRUE
  /\ crashes = 0

\* The steps of the goroutine that serves r, whatever comes of its calls.
Serve(r) ==
  \/ ServeHTTP(r)
  \/ CreateAccountExec(r)
  \/ RequestSecret(r)
  \/ NinelivesMint(r)
  \/ ClaimRewards(r)
  \/ PickSelect(r)
  \/ PickUpdate(r)
  \/ SignArgs(r)
  \/ EstimateGas(r)
  \/ FetchNonce(r)
  \/ SendTransaction(r)
  \/ CallContract(r)
  \/ InsertSecret(r)
  \/ InsertNonceSecret(r)
  \/ TrackTx(r)
  \/ Fail(r)
  \/ Hang(r)
  \/ Alarm(r)

Next ==
  \/ \E r \in Req, b \in Body, h \in Bearer \cup {NoBearer} : Submit(r, b, h)
  \/ \E r \in Req : Serve(r)
  \/ \E t \in sent : Execute(t)
  \/ \E c \in DirectCall : CallDirectly(c)
  \/ Crash
  \/ Restart

\* A goroutine that is not waiting for a call that never returns goes on, the
\* supervisor restarts the process and the chain executes what it accepted. No
\* call is assumed to return: that it hangs (Hang) is one of the steps of Serve.
Fairness ==
  /\ \A r \in Req : WF_vars(Serve(r))
  /\ WF_vars(Restart)
  /\ WF_vars(\E t \in sent : Execute(t))

SafetySpec == Init /\ [][Next]_vars

Spec == SafetySpec /\ Fairness

-----------------------------------------------------------------------------
(* Properties.                                                             *)

\* Type correctness.
TypeOK ==
  /\ secrets \subseteq Bearer
  /\ nonces \in [Eoa -> Seq(Nonce)]
  /\ keys \in Seq(SenderKey) /\ keys # <<>>
  /\ tracked \subseteq Req
  /\ code \subseteq Eoa
  /\ used \in [Eoa -> SUBSET MsTs]
  /\ next \in [SenderKey -> Nat]
  /\ sent \subseteq Tx
  /\ proc \in [Req -> Proc]
  /\ up \in BOOLEAN
  /\ crashes \in 0..MaxCrashes

Stored(e, s) == [eoa |-> e, secret |-> s] \in secrets

\* Every transaction that the server sends for a user goes back to a signature
\* of that user: a creation carries it, an operation was authenticated with a
\* secret that was stored for this user by a request that this user signed.
\* No resolver checks this on its own (createAccountExec leaves the signature
\* to the simulation, ninelivesMint relies on the middleware's lookup).
SentForOwner ==
  \A t \in sent :
    \/ t.call.kind = "create" /\ t.call.signer = t.call.eoa
    \/ /\ t.call.kind = "solve" /\ proc[t.by].bearer # NoBearer
       /\ LET s == proc[t.by].bearer.secret
          IN  Stored(t.call.eoa, s) /\ proc[s].body.signer = t.call.eoa

SecretRows(e) == {r \in Req : Stored(e, r) /\ Op(r) = "secret"}

\* A signature for requestSecret is good for one secret, however often it is
\* presented and whenever the process dies; and a nonce is consumed only if
\* its secret is stored (accounts_insert_nonce_secret_3).
OneSecretPerSignature ==
  \A e \in Eoa :
    /\ \A r, s \in SecretRows(e) : proc[r].body.nonce = proc[s].body.nonce => r = s
    /\ \A i \in DOMAIN nonces[e] : \E r \in SecretRows(e) : proc[r].body.nonce = nonces[e][i]

\* What a client was told, and what the statistics count, is true for good: a
\* secret that was returned authenticates its user, a hash that was returned
\* or tracked is that of a transaction the chain accepted, even when the
\* process dies at once.
AnswersHold ==
  \A r \in Req :
    /\ proc[r].pc = "done" /\ ~Dry(r) =>
         /\ Op(r) \in {"create", "secret"} => Stored(Subject(r), r)
         /\ Op(r) # "secret" => \E t \in sent : t.by = r
    /\ r \in tracked => \E t \in sent : t.by = r

\* A dryrun sends no transaction, stores no secret and is not counted, on any
\* path through any resolver.
DryrunInert ==
  \A r \in Req : Dry(r) /\ proc[r].pc # "idle" =>
    /\ \A t \in sent : t.by # r
    /\ \A e \in Eoa : ~Stored(e, r)
    /\ r \notin tracked

AlreadyDone(c) == c.eoa \in code /\ (c.kind = "solve" => c.ms \subseteq used[c.eoa])

\* What the simulation found is good for: a transaction waits to be executed
\* while other requests, repetitions after a lost answer and other callers
\* change the chain, and all they can do to it is to come first. The contracts
\* refuse it only because the account exists already, or the operation of this
\* ms_ts was carried out ("making sure this isn't doubled up somehow",
\* schema.graphqls), never for a signature or an account that is missing.
RefusedOnlyIfDone ==
  \A t \in sent :
    t.nonce >= next[t.sender] => Accepts(t.call) \/ AlreadyDone(t.call)

\* The nonces of a sender key have no gap, so that none of its transactions is
\* stuck behind one that was never sent, although requests that picked the same
\* key at the same time read the same pending nonce.
NoNonceGap ==
  \A k \in SenderKey :
    LET mine == {t \in sent : t.sender = k}
    IN  {t.nonce : t \in mine} = 0..(Cardinality(mine) - 1)

\* The query counts the rows of accounts_secrets_1, which nothing writes any
\* more, and of accounts_secrets_2.
HasCreated(e) == e \in OldUser \/ \E row \in secrets : row.eoa = e

\* hasCreated, "Is this address recorded as having onramped?": with
\* FeatureCheckCode, only of a user who has an account, whoever created it, or
\* for whom the server sent a creation, or whom it knew in its first version.
HasCreatedMeansAccount ==
  FeatureCheckCode =>
    \A e \in Eoa : HasCreated(e) =>
      \/ e \in OldUser \cup code
      \/ \E t \in sent : t.call.kind = "create" /\ t.call.eoa = e

\* Every request is answered, is lost with the process or waits for a call of
\* its own that never returns. A call that hangs holds up no other request, not
\* even of the same sender key, and no error is tried again for ever.
EveryRequestEnds ==
  \A r \in Req : proc[r].pc \in Running ~> proc[r].pc \in Answered \cup {"hung"}

\* Every transaction whose hash a client was told is executed in the end, for
\* better or worse: no other request takes its nonce or blocks its sender.
HashesSettle ==
  \A r \in Req :
    proc[r].pc = "done" /\ Op(r) # "secret" /\ ~Dry(r)
      ~> \E t \in sent : t.by = r /\ t.nonce < next[t.sender]

\* "EnvFeatureMintDisabled to prevent minting" (main.go).
MintsPrevented ==
  FeatureMintDisabled =>
    \A t \in sent : Op(t.by) # "mint" /\ ~(Op(t.by) = "create" /\ proc[t.by].body.mint # {})

\* "The nonce must be greater than what's recorded in the database so far"
\* (requestSecret in schema.graphqls).
NoncesIncrease ==
  \A e \in Eoa : \A i, j \in DOMAIN nonces[e] : i < j => nonces[e][i] < nonces[e][j]
=============================================================================
