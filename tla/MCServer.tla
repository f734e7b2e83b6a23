------------------------------ MODULE MCServer ------------------------------
(***************************************************************************)
(* Instances of Server for TLC: two users, of whom one may have an account *)
(* already, and requests that repeat and contradict each other.            *)
(***************************************************************************)
EXTENDS Server, TLC

CONSTANTS alice, bob, r1, r2, r3, k1, k2

Create(e, s, m, d) == [op |-> "create", eoa |-> e, signer |-> s, mint |-> m, dry |-> d]
Ask(e, s, n, d) == [op |-> "secret", eoa |-> e, signer |-> s, nonce |-> n, dry |-> d]
Mint(m, enough, d) == [op |-> "mint", ms_ts |-> m, enough |-> enough, dry |-> d]
Claim(m, d) == [op |-> "claim", ms_ts |-> m, dry |-> d]

MCEoa == {alice, bob}
MCKeys == {k1, k2}
MCReq == {r1, r2, r3}

\* Everything that goes wrong with authentication and repetition.
MCBody ==
  {Create(alice, alice, {1}, FALSE), Create(alice, bob, {}, FALSE), Create(alice, alice, {}, TRUE),
   Ask(alice, alice, 1, FALSE), Ask(alice, alice, 2, TRUE), Ask(alice, bob, 3, FALSE),
   Mint(2, TRUE, FALSE), Mint(1, TRUE, TRUE)}

\* One of each kind, and a mint that is too small.
MCBodyLive ==
  {Create(alice, alice, {}, FALSE), Ask(alice, alice, 1, FALSE), Mint(1, TRUE, FALSE),
   Mint(2, FALSE, FALSE), Claim(1, FALSE)}

\* Minting is disabled; a creation and a mint are asked for.
MCBodyMint == {Create(alice, alice, {1}, FALSE), Mint(1, TRUE, FALSE), Ask(alice, alice, 1, FALSE)}

\* Two nonces of one user.
MCBodyNonces == {Ask(alice, alice, 1, FALSE), Ask(alice, alice, 2, FALSE)}

\* Somebody creates Alice's account, or uses a single-use value of hers.
MCDirectCreate == {[kind |-> "create", eoa |-> alice, signer |-> alice, ms |-> {}]}
MCDirect == MCDirectCreate \cup {[kind |-> "solve", eoa |-> alice, signer |-> alice, ms |-> {1}]}

Symmetry == Permutations(MCReq) \cup Permutations(MCKeys)
=============================================================================
