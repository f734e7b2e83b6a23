# Superposition Accounts: a TLA+ development

TLA+ models of the programs in this repository, TLC configurations that check
them on small instances, and TLAPS proofs of the central properties for every
value of the parameters. `PROJECT.json` lists the runs, the mapping from
definitions to source lines, the mutants that show that each property can fail,
the findings, the hazards and the theorems.

## The system

A user has an Ethereum address (EOA) and an *account*, a contract at a create2
address that follows from it. The account obeys an Ed25519 key, which the server
holds. The server pays for gas: it signs operations for users who authenticate,
and submits them from its own sender keys.

| Part | State | Operations | Interaction |
|---|---|---|---|
| account (`superposition_libaccounts`) | consumed `ms_ts`, reentrancy lock, keys, owner, authority | `Solve`, `SolveV2`, `SolveV3`, `TransferOnly`, `Statement`, `migrate`, getters | called by any relayer, calls tokens, the authority and an arbitrary target |
| factory / proxy (`entry_fresh.rs`, `entry_migrate.rs`, `contract`, `UpgradeableProxy.sol`) | implementation slot, admin, version | `FreshBackwards`, `migrate`, upgrade | creates the account, runs its first solve |
| authority (`Authority9lives.sol`) | operator, allowed code hashes | `init`, `register`, `scan`, `allowed` | asked by the account before a target is called |
| server (`main.go`, `graph/`) | none of its own | `createAccountExec`, `requestSecret`, `ninelivesMint`, `claimRewards`, queries | one goroutine per request; database, RPC node, signing program, alarm webhook |
| database (`db/`) | secrets, nonces, sender keys, sent transactions | `accounts_get_private_key_2`, `accounts_insert_nonce_secret_3`, inserts | shared by all requests, survives a crash |
| sender (`lib/client`) | none | simulate, read pending nonce, sign, submit; dryrun | RPC node |
| conversion (`lib/convertor`, `lib/types`, `lib/ninelives`) | none | numbers, hex and structures into bytes; signing | external program `ed25519-dalek-ph` |
| GraphQL execution (`graph/generated.go`) | results and missing values of one operation | fields of a mutation in turn, of a query concurrently | calls the resolvers |
| start-up (`main.go`, systemd units) | settings, listeners | check, listen, end; restart | a process that ends is started again |
| rate limiter (`lib/ratelimit`) | counts per timeslice | `IsRateLimited` | one goroutine for all callers; started disabled, asked by nobody |
| lite account (`LiteAccount.huff`, `LiteFactory.sol`) | enabled, used nonces | create, switch, forward | forwards what its operator signed |
| SafetyRouter, MassSendArbitrum, Clearinghouse | none | check, sweep, quote | on chain |

What is hard here: the account calls external code in the middle of an operation
and only some of its entry points are guarded; failures revert a part of the
call stack and may be caught; requests interleave between any two database or
RPC calls; an error in one of them ends the process for all of them; an answer
may be lost although its effect happened; and what was simulated may no longer
hold when it is executed. `hazards` in `PROJECT.json` places each at its line.

## Modules

| Module | Models | Checked by |
|---|---|---|
| `Account` | one account inside the EVM: call stack, revert, re-entry, tokens, authority | run `account`, proofs |
| `OneShot` | what the account promises: whole operations, no two with one `ms_ts` | `KeepsPromise` |
| `AccountLedger` | the account's properties that sum over the tokens' ledgers | run `account`, proofs |
| `AccountInv` | the inductive invariants of the proofs | proofs |
| `AccountProofs`, `AccountWholeProofs` | theorems about `Account` | TLAPS |
| `MCAccount` | instance of the account | TLC |
| `Server` | server, database, sender, and the chain as the server sees it | runs `server`, `server_live`, proofs |
| `ServerProofs` | theorems about `Server` | TLAPS |
| `MCServer` | instances of the server | TLC |
| `Words` | numbers in byte arrays | through `Envelope` and its proofs |
| `Envelope`, `MCEnvelope` | from the arguments of a mutation to what is signed for it | runs `envelope*`, proofs |
| `EnvelopeProofs` | theorems about `Envelope` and `Words` | TLAPS |
| `Graph`, `MCGraph` | execution of one GraphQL operation | run `graph`, proofs |
| `GraphProofs` | theorems about `Graph` | TLAPS |
| `RateLimit` | the rate limiter | run `rate_limit`, proofs |
| `RateLimitProofs` | theorems about `RateLimit` | TLAPS |
| `Factory`, `MCFactory` | creation, migration and upgrade of accounts | run `factory`, proofs |
| `FactoryProofs` | theorems about `Factory` | TLAPS |
| `LiteAccount`, `MCLiteAccount` | lite accounts and their factory; implements `OneShot` | run `lite_account`, proofs |
| `LiteAccountProofs` | theorems about `LiteAccount` | TLAPS |

### Account

`st` is what a revert restores: `used` (`storage::timestamps`), `lock`
(`REENTRANCY_KEY`), the tokens' balances and allowances, and two history
variables, `done` (effects of signed operations that happened) and `twice`
(those that happened again). `stack` is the call stack. A frame is external code
(`ext`), a guarded call of the account (`guarded`: `Solve`, `SolveV2`,
`TransferOnly`) or an unguarded one (`open`: `SolveV3`), and keeps the state at
its start. `entry_solve` is split where other code runs or a separate token call
is made: `BeginItem` (consume `ms_ts`, permits), `Pull` (one `transferFrom` and
`approve`), `CallTarget` (authority, call), then external code, then
`CheckFloors`. `Revert` may happen to any frame at any time; when the target
reverts the account panics with it. External code spends its allowance, submits
permits itself, calls every entry point, and catches what it likes.

Abstractions: an envelope (signature and arguments) is a record with its signer,
and the sets of envelopes that exist are constants; amounts are naturals; the
U::MAX allowance of a permit is a flag; the calldata of a target is its choice
of steps. Tokens are well-behaved and call nobody; a target is neither the
account nor a token.

### Server

A request is a record in `proc` whose `pc` names the next step of its resolver;
each step ends at a database or RPC call. `secrets`, `nonces` (in the order of
their ids), `keys` (least recently accessed first) and `tracked` are the tables.
The request's name also names the secret and the transaction that it makes,
since both are fresh. `CreateAccountSteps`, `RequestSecretSteps`, `MintSteps` and
`ClaimSteps` give the order of the calls of each resolver. `PickSelect` and `PickUpdate` are two steps because the
subquery of `accounts_get_private_key_2` is evaluated before the row is locked.
`SendTransaction`, `InsertSecret` and `InsertNonceSecret` may succeed and still
be reported as failed, or never return. `Crash` is `log.Fatalf` or the machine's;
every request in flight is lost. The chain keeps the accepted transactions
(`sent`), refuses a nonce that is taken, never drops or replaces one (the target
chains order transactions first come, first served) and executes each later, when
`Accepts` may have changed. It changes by the server's other transactions and by
`CallDirectly`: `FreshBackwards` and the accounts look at signatures, not at the
sender, so that users create and use accounts without the server (`DirectCall`).

No outgoing call has a timeout: the RPC calls use `context.Background()`, and so
do the database calls, the signing program and `http.Post` in effect. `Hang` is a
call that does not return; the request stays `hung`, with the effect of the call
or without. A hung database call holds no lock that another request needs, since
every statement is a transaction of its own. A failure of the conversion or of the
sender goes to `Alarm` when a webhook is set.

`hasCreated` counts the rows of `accounts_secrets_2` (`secrets`) and of
`accounts_secrets_1`, which only superseded functions write: `OldUser` are the
users who have one. A dryrun goes through all steps; the sender and the resolvers
each ask for it, as in the code.

Left out: fees and gas limits, the contents of mints and claims (`Envelope`), admin context
(no resolver reads it), the address format of tracked rows.
`valid_until` of a secret is left out because no query reads it. The ms_ts of a
request stands for the converted bytes; how they are converted is `Words`.

### Words

`copy(b[k:], src)` into a fixed array, with the panic for k beyond it, applied as
the convertor applies it. Bytes have `Base` values and the arrays `Width` and
`2 * Width` elements. The passing run scales them to 2 and 3 so that numbers
beyond the widest array are reached; the violation run uses 256 and 16.

### Envelope

A conversion that may fail is the set of its results, empty for an error or a
panic. `Sent(q)` composes, for each of the three mutations that sign something,
the unmarshalling of the input types, the convertor's functions under their own
names, the calldata and the structure that is sent. Hex strings are a handful of
cases (two values, one of them also with a prefix, empty, too short, too long,
not hex), since every function treats all strings of a case alike; widths of
integers are scaled down, and numbers beyond and below them are asked for.
A state is a pair of requests, so that `SignatureBinds` can compare two. The
types of the requests (`CreateRequest`, `MintRequest`, `ClaimRequest`) are the
schema's; `RequestAssumption` says that nothing else reaches a resolver.

### Graph

One operation: `doc` is the validated document, `task` and `res` the state and
the result of each field, `invalids` the shared count, `calls` the order in
which resolvers were called. The loop of `_Mutation` and `_Query` is `Reach`;
mutations and introspection run inside the loop, the other query fields when
`Dispatch` starts their goroutines. `ArgsError` is `fieldContext_...`,
`ResolverFails` an error or a recovered panic. `FieldSet.Dispatch` and
`ResolveField` are gqlgen's and modelled from their use. `@defer` is not in the
schema. Resolvers of mutations succeed or fail here; what they do is `Server`.
A resolver that calls out may also never return (`ResolverHangs`), and `log.Fatalf`
in one of them ends the process (`Exit`): then the operation is `lost`.
The resolver of `statistics` is modelled with its view: `Row` has a NULL for
each average over no transactions, `Scans` is `rows.Scan`, and `Statistics` the
lists that can be returned, shorter ones after a lost connection included.

### RateLimit

Callers queue for the unbuffered channel (`requests`), the goroutine takes one
(`Receive`) and answers by one of `Allow`, `NewSlice`, `Limit` and `Count`, with
the wall clock of that moment (`now`, in slices). `allowed` is a history
variable. `Tick` may set the clock back, since `Truncate` strips the monotonic
reading.

### Factory

The factory's storage and that of each account, as `entry_migrate` and
`UpgradeableProxy` write them. Anyone calls `migrate` on any account with any
arguments; only a call that does not revert is a step, except for the first
solve of a new account, which has a frame that `SolveReverts` takes back.
`chosen` is a history variable: the implementation and the authority that who may
choose them last chose. The account's proxy delegates `migrate` not to the
account's implementation but to whatever the factory reports at that moment, so
that `Migrate` depends on the factory. `upgradeToAndCall` takes any implementation
and data, as the code does. When the admin moves the factory to code that is not
of this repository, the factory is `Left`: what that code does is unknown, and the
next `migrate` of an account, by anyone, hands the account to it
(`MigrateForeign`). An account is also `Left` when its owner moved it to an
implementation from elsewhere; what has left is followed no further. The admin of
the factory is taken to be an externally owned address. Accounts of the release
before start at level 1 (`Legacy`). FreshBackwards called on a contract that is
not the factory deploys to other addresses and is left out.

### LiteAccount

Like `Account`, but smaller: `st` is what a revert restores, the stack holds the
frames of external code. A message is the record that the operator signs
(account, nonce, target with its data); the two precompiles are external. The
account of an owner and operator is created by `create`, which does nothing the
second time.

## Runs

| Run | Instance | Shows |
|---|---|---|
| `account` | one token, two contracts, 8 envelopes over 4 `ms_ts`, stack of 7 | replays, clashes between envelopes, re-entry, caught failures, permits submitted by others: nothing happens twice, in part, unsigned or unvetted |
| `account_v3_empty` | the same with an empty `SolveV3` | finding |
| `server` | 3 requests out of 8 kinds, 2 users, 2 keys, a creation called directly, no crash | nothing is sent for a user who did not sign, dryruns are inert, what waits on chain is refused only if it was done already, sender nonces have no gap, `hasCreated` means an account |
| `server_live` | 2 requests, one key, one crash | requests end, hashes settle, what was answered holds and a signature is good for one secret, over a crash |
| `server_mint_disabled`, `server_nonces` | 3 requests | findings |
| `envelope` | 99,225 pairs of requests: a good one of each kind and each argument varied | what is signed is what was asked, and only if it was well formed |
| `envelope_ms_ts` | the same with the real widths | finding |
| `graph` | all sequences of up to three out of seven mutation fields, four queries of up to four fields | answers fit the schema, nulls are explained, mutations run in order, operations end unless a resolver hangs or the process dies |
| `rate_limit` | two callers, two ids, limit 2, two slices, one step back of the clock | the limit holds and nobody else is limited; callers are answered |
| `factory` | three users (one with a legacy account, the others symmetric), two keys, two releases and foreign code, three signatures, two nested first solves | accounts are set up as signed, stay their owner's, and run what was chosen |
| `lite_account` | two accounts, two nonces, four signed messages out of eight, depth 4 | nothing is forwarded twice, nonces match what was forwarded |

Bounds. `MaxDepth` 7 holds a relayer, a guarded call, its target, an open call
from there, its target, and one more call of each kind; depth 9 adds 36 states
and no behaviour. `MaxBatch` 2 is enough for a first element to succeed and a
second to fail. Three requests allow a creation or secret, and two operations
that race. One crash, in `server_live`, separates any two steps of two requests
(in `server` it would only add requests that stop, and a request that hangs stops
there too). Three mutations let one fail
between two others; two delayed fields that fail and one that does not reach
every value of the shared count. Two callers and two slices are enough for a
request to be made in one slice and served in the next. Three signatures allow
one user to sign two creations and another to sign one that runs inside the
first. Deadlock checking is off for the server and the graph (when everything is
answered, nothing is left to do) and for the factory (when all signatures are
given and all accounts have left, nothing is).

Fairness. In `server_live`, a goroutine that can take a step takes one (Go's
scheduler), systemd restarts the process (`Restart=on-failure`), and the chain
executes what it accepted. No outgoing call is assumed to return: that it hangs is
one of the outcomes of each step. Clients, direct callers and crashes are not
fair. In `graph`, goroutines run, but no resolver need return and the process need
not live; in `rate_limit`, the one goroutine of `Run` runs, callers and the clock
need not. The contracts have no fairness: they do nothing unless called.

## Properties

Account. `GuardInv`: at most one guarded call, lock set exactly meanwhile.
`EffectsOnce`: no effect of a signed operation happens twice.
`OneOperationPerNonce`: two operations with one `ms_ts` never both take effect.
`AllOrNothing`: at the end of a transaction every envelope took effect as a
whole or not at all. `KeepsPromise`: the account implements `OneShot`, with the
effects of committed transactions as the abstract state. `AllowancesVetted`: no
contract sees more of an allowance than before the transaction unless the
authority allows it. `DebitsAreSigned`: what an owner lost is covered by signed
effects, each counted once. `AllowancesBacked`: outstanding allowances never
exceed the account's balance.

Server. `SentForOwner`, `OneSecretPerSignature`, `AnswersHold`, `DryrunInert`,
`RefusedOnlyIfDone`, `NoNonceGap`, `HasCreatedMeansAccount`, and the liveness
properties `EveryRequestEnds` and `HashesSettle`; each is stated in words where it
is defined.

`RefusedOnlyIfDone` says what is left of a simulation by the time its transaction
is executed: others may have come first, nothing else. A creation that is refused
because the account exists already takes the mint that it carried with it; the
client was told a hash all the same. `EveryRequestEnds` says that only a call of
its own that never returns can keep a request open: a hung request holds up no
other.

Envelope. `SignedAsAsked`, `RefusedIfMalformed`, `SignatureBinds`,
`MintsDoNotClash`.

Graph. `AnswerFitsSchema`, `NullsExplained`, `MutationsInOrder`,
`EveryOperationAnswered`. The last allows for a resolver that hangs, and asks that
the other fields of a query end nevertheless. `MutationsInOrder` has a consequence for clients: an answer
without data does not mean that nothing was done.

RateLimit. `LimitHolds`, `LimitedOnlyAtLimit`, `EveryCallerAnswered`.

Factory. `SetUpAsSigned`, `RunsWhatWasChosen`, `KeptOnceSet`. They are about the
accounts that have not left. An upgrade of the factory to a release of this
repository changes no account that exists; an upgrade to other code reaches every
account, at the next `migrate` that anybody calls. So an owner's account is out of
the admin's reach only as long as the factory runs a release. LiteAccount.
`ForwardedOnce`, `NoncesAccounted`, and `KeepsPromise`: the small account keeps
the promise of the large one, `OneShot`, with its nonces in the place of `ms_ts`.

## Proofs

Every theorem holds for all values of the constants that meet the named
assumptions of the module it is about: any number of contracts, users, keys,
requests, fields, callers, signed operations, and any bound. These assumptions
are the types of the constants and facts of the program: markers for "nothing"
are no values, a signed `Solve` has one element, the names and arguments in a
document are those of the schema, a permit of the account itself does not exist
(a contract has no private key), the account starts without an allowance over
its own tokens. TLC evaluates them on every run. Two theorems, `NoReplay` of
`AccountProofs` and `Debiting`, have a hypothesis of their own, `V3NotEmpty`.

| Module | Theorem | Property |
|---|---|---|
| `AccountProofs` | `TypeOKCorrect`, `GuardCorrect` | `TypeOK`, `GuardInv` |
| | `NonceUnique`, `NoReplay` | `OneOperationPerNonce`, `EffectsOnce` |
| `AccountWholeProofs` | `Wholeness`, `Refinement`, `Vetting` | `AllOrNothing`, `KeepsPromise`, `AllowancesVetted` |
| | `Backing`, `Debiting` | `AllowancesBacked`, `DebitsAreSigned` |
| `EnvelopeProofs` | `AsAskedSigned`, `MalformedRefused` | `SignedAsAsked`, `RefusedIfMalformed` |
| | `BindingSignature`, `MintsApart` | `SignatureBinds`, `MintsDoNotClash` |
| `ServerProofs` | `TypeCorrect`, `OwnersOnly`, `SecretsOnce`, `AnswersTrue` | `TypeOK`, `SentForOwner`, `OneSecretPerSignature`, `AnswersHold` |
| | `DryrunsInert`, `RefusedIfDone`, `NoncesContiguous`, `CreatedMeansAccount` | `DryrunInert`, `RefusedOnlyIfDone`, `NoNonceGap`, `HasCreatedMeansAccount` |
| `GraphProofs` | `TypeCorrect`, `FitsSchema`, `NullsHaveErrors`, `InOrder` | `TypeOK`, `AnswerFitsSchema`, `NullsExplained`, `MutationsInOrder` |
| `RateLimitProofs` | `TypeCorrect`, `LimitKept`, `TurnedAwayAtLimit` | `TypeOK`, `LimitHolds`, `LimitedOnlyAtLimit` |
| `FactoryProofs` | `TypeCorrect`, `SignedSetUp`, `ChosenRuns`, `SetOnce` | `TypeOK`, `SetUpAsSigned`, `RunsWhatWasChosen`, `KeptOnceSet` |
| `LiteAccountProofs` | `NoReplay`, `NonceBookkeeping`, `Refinement` | `ForwardedOnce`, `NoncesAccounted`, `KeepsPromise` |

The theorems about `Server`, `Graph` and `RateLimit` are about their
`SafetySpec`, the specification without fairness.

Each theorem rests on an inductive invariant, which TLC checked on the instance
of the run before it was proved.

**Account.** A revert restores a snapshot, so every invariant speaks of the
snapshots on the stack as it does of the state.

* `TypeInv`. `TypeOK` is not inductive: that the current step of a frame exists,
  and that its phase suits it, is needed to know that the next state is a state.
  `TypeInv` adds `Shape` (external code and calls of the account alternate) and
  `FrameInv` (what each phase says of the steps left).
* `LockInv`: the state in which each frame started was locked exactly if a
  guarded frame lies below it.
* `SoundInv`: every recorded effect but a gas payment has its `ms_ts` consumed and
  belongs to the only step with that value, and the step in progress owns its
  value (`Owns`). `NonceUnique` follows without a condition.
* `OnceInv`, for `NoReplay`, assumes `V3NotEmpty` (no signed `SolveV3` is empty;
  without it `account_v3_empty` is the counterexample). The unguarded `SolveV3`
  pays before it consumes a value: in between (`HalfDone`) a second payment for
  the same envelope may be recorded, and only the failure of the exchange that
  follows undoes it, which is why `EffectsOnce` is stated for observable states.
* `WholeInv`: an envelope that has begun lacks only what a frame on the stack has
  yet to do (`Due`), and a snapshot lacks only what the frames below it have yet
  to do. At rest there are no frames, so nothing is lacking: `Wholeness`. Since no
  snapshot lacks what earlier transactions committed, the end of a transaction
  is a step of `OneShot` (or none), and `SoundInv` gives its condition that
  single-use values are fresh: `Refinement`.
* `VetInv`: a contract with more of an allowance than at the start of the
  transaction is allowed by the authority, or is the target about which the
  authority is still to be asked (`Approving`), which only the account itself,
  never external code, can see. Snapshots have no such exception.
* `LedgerInv`, of the state and of every snapshot. `Backed`: the allowances that
  the account gave add up to no more than it holds, and nobody has an unlimited
  one over its tokens; what it holds shrinks only by the allowance that is spent
  with it, and grows by a pull before an allowance is given for it. `Covered`: as
  long as no effect happened twice, what an owner lost is at most the sum of the
  debits of the recorded effects. In an observable state nothing happened twice
  (`OnceInv`), hence `Debiting` and its hypothesis. A sum is the number of its
  units (`Total`), so that the theorems on cardinalities of finite sets give what
  one more effect or a changed allowance adds to it.

**Server.** `Inv` of `ServerProofs` says what each point of a resolver may rely on
(`ReqInv`: who signed, which key was picked, that the nonce read is not beyond the
pending one, that what comes after the sending was sent), and where each
transaction, stored secret and tracked hash came from (`TxInv`, `RowInv`,
`TrackInv`, `NonceInv`): a request does not change its arguments, so that the
origin stays known after the request has ended or was lost in a crash.
`ChainInv` says that the account exists to which an operation was sent, which the
simulation found and nobody undoes: with the creator's signature, which
`ReqInv` keeps from the simulation to the sending, `RefusedOnlyIfDone` follows
whatever others call in between. `NoNonceGap`
needs that the nonce a request read can be stale but never too high: then it
replaces nothing and leaves nothing out, because the chain refuses the second
transaction with one nonce of one key. Most of the proof is shared: `NextCauses`
and `NextGrows` say once which step may change which variable, and each invariant
is shown from them.

**Graph.** `LoopInv` places each field relative to the loop, `ResInv` keeps a
result and its error together, `CountInv` says that the shared count is the number
of fields whose null was counted, which is why goroutines in any order add up to
the same answer, `CallsInv` says which resolvers were called, `DataInv` what the
answer is made of.

**RateLimit.** `CountInv` bounds what was let through in a slice by its `Share`:
`MaxCount` for each time that the clock was set back, and for the current slice
what was `seen` in it, for earlier slices a whole `MaxCount`. The number seen is
at most the number let through, which gives `TurnedAwayAtLimit`.

**Factory.** `StackInv`: while a first solve runs the factory has not left and
stays as it is, and accounts are only added, so that a failure restores fewer
accounts and the same. `LeftFacts` says that no first solve runs under a
factory that has left, so that nothing foreign is ever restored.

**LiteAccount.** `Accounted` holds of the state and of all snapshots: used nonces
and forwarded messages correspond one for one.

**Envelope.** The state says little (two requests of the right type); the
theorems are about the conversions. `BytesLen` (a number has at most k bytes
exactly if it is below `Pow[k]`) and `ValueBytes` (its bytes have its value) say
what `big.Int.Bytes` computes for every number, `CopyFacts` and `HornerAlike` what
copying it to an offset does to its value: hence `AmountFacts`, `ClaimFacts` and
`MintMsTsInjective` for the three arrays. `SentMint`, `SentClaim` and `SentCreate`
say when each mutation sends what; `Read` reads the request back out of an
envelope, and since it finds `Normal(q)` in everything sent for q, two requests
with one envelope ask for the same.

The library's induction theorems take an operator as a parameter, which the
provers cannot instantiate. `EnvelopeProofs` has them with sets and functions in
its place: the numbers for which something holds are a set, `LeastElement` comes
from the well-foundedness of the finite subsets of a set, `Induction` from it,
and `Recursion` says that a recursive definition of a function has a solution.

Checked by TLC only: the liveness properties (`EveryRequestEnds`, `HashesSettle`,
`EveryOperationAnswered`, `EveryCallerAnswered`), since fairness is out of the
prover's reach. Every safety property of a passing run is proved.

## Findings

1. A signed `SolveV3` with an empty batch consumes no `ms_ts` and is paid again
   at each submission (`account_v3_empty`).
2. `SPN_FEATURE_MINT_DISABLED` does not prevent the mint of a
   `createAccountExec` (`server_mint_disabled`).
3. `requestSecret` accepts any unused nonce, not only greater ones
   (`server_nonces`).
4. No `ms_ts` of a request is converted as the contract's README says: for
   `claimRewards` the slice panics for every timestamp of fewer than 16 bytes, and
   for a mint the bytes are left-aligned in their array (`envelope_ms_ts`). The
   latter does no harm as long as all timestamps have the same number of bytes
   (`MintsDoNotClash`).

Seen while modelling, without a run of their own: `statistics` fails as a whole
when one action had no transaction for 24 hours, because its average is NULL
(`Scans` of `Graph`); `UnpackMint` of `lib/ninelives`, which only its test calls,
copies the padding of both address words to `referrer` and nothing to
`recipient`, unlike `FuzzNewMint` asserts; `main` takes an empty
`SPN_ACCOUNTS_PRIVATE_KEY`, although its message says that it needs to be set.

## Not modelled

* The introspection types, the complexity table and unused types of the generated
  code: read-only data about the schema, or never reached.
* Functions of `lib/convertor` and `lib/ninelives` that nothing in the server
  calls (`CreateSolveV3`, the `NoToken`, `SigArgsGraph` and other
  `TagFreshBackwards` variants, `NewMintScheduleClaim`, `NewClaimForOther`,
  `UnpackMint`).
* Borsh, ABI and create2 at the level of bytes, key derivation, and signatures
  themselves (a signature is its signer).
* Command line tools, tests, deployment scripts: no state, or outside the system.
* MassSendArbitrum (stateless, one transaction), SocialVault (empty),
  Clearinghouse (a pure quote over contracts outside the repository), `init` and
  `scan` of the authority.
* The checks of `main` at start-up: straight-line, and what follows from a process
  that ends is in `Server` (`Crash`, `Restart`).
* Superseded tables and functions of the database, except `accounts_secrets_1`.
* The admin secret: the middleware recognises it, no resolver asks for it.

## Plan

`Onramp`: `Server` with a client that repeats what was lost (the comment in
`CreateAccountExec` relies on one): a user whose account exists gets a secret
that works in the end.
