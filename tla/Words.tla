------------------------------- MODULE Words -------------------------------
(***************************************************************************)
(* How lib/convertor turns the decimal numbers of a request into the fixed *)
(* arrays of bytes that are signed and sent: mint.Amount into [32]byte and *)
(* ms_ts into [16]byte. A byte is a digit of the base Base, the arrays     *)
(* have Width and 2 * Width bytes.                                         *)
(***************************************************************************)
EXTENDS Integers, Sequences

CONSTANTS
  Base,  \* values of a byte
  Width  \* bytes of ms_ts

ASSUME WordsAssumption ==
  /\ Base \in Nat /\ Base > 1
  /\ Width \in Nat /\ Width > 0

Wide == 2 * Width

\* big.Int.Bytes: big-endian, without leading zeros.
Bytes[n \in Nat] == IF n = 0 THEN <<>> ELSE Append(Bytes[n \div Base], n % Base)

Min(a, b) == IF a < b THEN a ELSE b

\* copy(b[k:], src) into a zeroed array b of w bytes. The slice b[k:] panics
\* for k > w: the resolver answers with an error (here <<>>).
CopyAt(w, k, src) ==
  IF k > w THEN <<>>
  ELSE [i \in 1..w |-> IF i \in (k + 1)..Min(w, k + Len(src)) THEN src[i - k] ELSE 0]

\* mint.Amount: "too huge amount" is an error.
amount(n) ==
  IF Len(Bytes[n]) > Wide THEN <<>> ELSE CopyAt(Wide, Wide - Len(Bytes[n]), Bytes[n])

\* Mutant: the bytes are copied to the last place.
MutMintRight(n) == CopyAt(Width, Width - 1, Bytes[n])

\* CreateSolveArgsSigArgsMintGraph: ms_ts of a mint.
mintMsTs(n) == CopyAt(Width, 0, Bytes[n])

\* CreatePayoffForOtherArgsGraph and CreateSolveArgsSigArgsGraph: ms_ts of a
\* claim and of a general solve.
claimMsTs(n) ==
  IF Len(Bytes[n]) > Wide THEN <<>> ELSE CopyAt(Width, Wide - Len(Bytes[n]), Bytes[n])

\* u128::to_be_bytes, what the Rust clients and the contract's documentation use.
to_be_bytes(n) == CopyAt(Width, Width - Len(Bytes[n]), Bytes[n])

\* The number that the contract reads from the bytes b (U::from).
Value(b) ==
  LET v[i \in 0..Len(b)] == IF i = 0 THEN 0 ELSE Base * v[i - 1] + b[i]
  IN  v[Len(b)]

\* The numbers that k bytes can hold.
Pow[k \in Nat] == IF k = 0 THEN 1 ELSE Base * Pow[k - 1]
=============================================================================
