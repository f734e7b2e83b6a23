----------------------------- MODULE AccountInv -----------------------------
(***************************************************************************)
(* The inductive invariants behind the theorems about Account: what is     *)
(* true of the frames of the call stack and of the states they would       *)
(* restore.                                                                *)
(***************************************************************************)
EXTENDS Account

SolveUnit == SignedSolve \cup SignedSolveV2 \cup SignedSolveV3

\* An element of a solve's batch, and the gas payment of a SolveV3.
SolveStep(s) == s \in Step /\ s.unit \in SolveUnit /\ s.idx \in 1..Len(s.unit.args)

GasStep(s) == s \in Step /\ s.unit \in SignedSolveV3 /\ s.idx = 0

\* The work list of a solve: elements, before which a gas payment may stand
\* that is followed by the first element of the same batch.
SolveTodo(todo) ==
  /\ \A i \in 1..Len(todo) : SolveStep(todo[i]) \/ (i = 1 /\ GasStep(todo[i]))
  /\ todo # <<>> /\ GasStep(todo[1]) =>
       /\ Len(todo) = Len(todo[1].unit.args) + 1
       /\ Len(todo) > 1 => todo[2] = [unit |-> todo[1].unit, idx |-> 1]

\* A frame's work list fits its phase.
FrameInv(f) ==
  \/ /\ f.kind = "ext" /\ f.phase = "run" /\ f.who \in Contract
  \/ /\ f.kind # "ext" /\ f.phase = "next" /\ SolveTodo(f.todo)
  \/ /\ f.kind # "ext" /\ f.phase \in {"pull", "target", "floor"} /\ SolveTodo(f.todo)
     /\ f.todo # <<>> /\ SolveStep(f.todo[1]) /\ f.j > 0
  \/ /\ f.kind = "guarded" /\ f.phase = "transfer" /\ f.todo # <<>> /\ Len(f.todo) = 1
     /\ f.todo[1] \in Step /\ f.todo[1].unit \in SignedTransferOnly
     /\ f.todo[1].idx = 1 /\ f.j \in 1..Len(f.todo[1].unit.args)

\* External code and calls of the account alternate, external code first, and
\* an account that is not on top waits for its target.
Shape(s) ==
  \A k \in 1..Len(s) :
    /\ FrameInv(s[k])
    /\ k = 1 => IsExt(s[k])
    /\ k > 1 => (IsExt(s[k]) <=> ~IsExt(s[k - 1]))
    /\ k < Len(s) /\ ~IsExt(s[k]) => s[k].phase = "target"

TypeInv == TypeOK /\ Shape(stack)

-----------------------------------------------------------------------------
\* One of the lowest n frames of s holds the reentrancy guard.
HeldBelow(s, n) == \E m \in 1..n : s[m].kind = "guarded"

\* The lock b, and the lock that a revert of any frame would restore, is the
\* one that the frames underneath account for; no two frames hold the guard.
GuardOK(s, b) ==
  /\ \A k \in 1..Len(s) : s[k].snap.lock <=> HeldBelow(s, k - 1)
  /\ b <=> HeldBelow(s, Len(s))
  /\ \A k, m \in 1..Len(s) : s[k].kind = "guarded" /\ s[m].kind = "guarded" => k = m

LockInv == TypeInv /\ GuardOK(stack, st.lock)

-----------------------------------------------------------------------------
\* Every effect consumed its value, and no two steps share one.
Sound(s) ==
  /\ \A e \in s.done : e.what # "gas" => NonceOf(e.step) \in s.used
  /\ \A d, e \in s.done :
       /\ d.what # "gas" /\ e.what # "gas"
       /\ NonceOf(d.step) = NonceOf(e.step)
       => d.step = e.step

\* Only the running step x has used its value, for movements w before j.
Owns(s, x, w, j) ==
  /\ NonceOf(x) \in s.used
  /\ \A e \in s.done : e.what # "gas" /\ NonceOf(e.step) = NonceOf(x) =>
       e.step = x /\ e.what = w /\ e.j < j

\* The value of the step that the frame f is at is its own.
Owning(s, f) ==
  /\ f.phase = "pull" => Owns(s, f.todo[1], "pull", f.j)
  /\ f.phase = "transfer" => Owns(s, f.todo[1], "move", f.j)

SoundInv ==
  /\ TypeInv
  /\ Sound(st)
  /\ \A k \in 1..Len(stack) : Sound(stack[k].snap)
  /\ Len(stack) > 0 => Owning(st, Top)

-----------------------------------------------------------------------------
\* A SolveV3 consumes no value of its own for its gas payment: it is tied to
\* the value of the first element of its batch, which must exist.
V3NotEmpty == \A u \in SignedSolveV3 : u.args # <<>>

FirstNonce(u) == u.args[1].ms_ts

\* Nothing happened twice, and every gas payment is behind a consumed value.
Settled(s) ==
  /\ Sound(s)
  /\ s.twice = {}
  /\ \A e \in s.done : e.what = "gas" => FirstNonce(e.step.unit) \in s.used

\* The gas of x.unit may have been paid (perhaps again) while its first
\* element x is still due; if it was paid again, x cannot start.
HalfDone(s, x) ==
  /\ Sound(s)
  /\ s.twice # {} => NonceOf(x) \in s.used
  /\ \A e \in s.done : e.what = "gas" =>
       FirstNonce(e.step.unit) \in s.used \/ e.step.unit = x.unit

AtFirst(f) == f.phase = "next" /\ f.todo # <<>> /\ f.todo[1].idx = 1

\* What the call f of the account on top of the stack has done to s.
Working(s, f) ==
  /\ AtFirst(f) => HalfDone(s, f.todo[1])
  /\ ~AtFirst(f) => Settled(s)
  /\ Owning(s, f)

OnceInv ==
  /\ TypeInv
  /\ \A k \in 1..Len(stack) : Settled(stack[k].snap)
  /\ Observable => Settled(st)
  /\ ~Observable => Working(st, Top)

-----------------------------------------------------------------------------
\* The account's call f has yet to make the effect e.
Due(f, e) ==
  /\ f.kind # "ext"
  /\ \E i \in 1..Len(f.todo) :
       /\ e.step = f.todo[i]
       /\ \/ i > 1
          \/ f.phase = "next"
          \/ f.phase = "pull" /\ (e.what = "call" \/ e.j >= f.j)
          \/ f.phase = "transfer" /\ e.j >= f.j

\* The account's call f has work left for the envelope u.
Opens(f, u) == f.kind # "ext" /\ \E i \in 1..Len(f.todo) : f.todo[i].unit = u

\* In the state s, under the lowest n frames of fs, every effect is one that its
\* envelope asks for, and the envelopes that have begun or are at work lack only
\* what one of the frames has yet to do.
Whole(s, fs, n) ==
  /\ \A e \in s.done : e \in EffectsOf(e.step.unit)
  /\ \A u \in Unit :
       \/ \E e \in s.done : e.step.unit = u
       \/ \E m \in 1..n : Opens(fs[m], u)
       => \A e \in EffectsOf(u) : e \in s.done \/ \E m \in 1..n : Due(fs[m], e)

\* So it is of the state and of every state that a revert would restore, under
\* the frames that would be left; and no such state has lost an effect of the
\* transactions before.
WholeInv ==
  /\ TypeInv
  /\ Whole(st, stack, Len(stack))
  /\ \A k \in 1..Len(stack) :
       /\ Whole(stack[k].snap, stack, k - 1)
       /\ stack[1].snap.done \subseteq stack[k].snap.done
       /\ stack[1].snap.done \subseteq st.done

-----------------------------------------------------------------------------
\* No contract has more of an allowance in s than in base, unless ok has its code
\* hash or the authority is still to be asked about it.
Vetted(s, base, ok, unasked) ==
  \A a \in Asset, c \in Contract :
    s.allow[a][c] > base.allow[a][c] => CodeHash[c] \in ok \/ c \in unasked

\* The target of the element for which the account is taking tokens.
Approving == IF InPhase("pull") THEN {Item(Top.todo[1]).target} ELSE {}

VetInv ==
  /\ TypeInv
  /\ HasAuthority =>
       /\ Vetted(st, Committed, allowed, Approving)
       /\ \A k \in 1..Len(stack) : Vetted(stack[k].snap, Committed, allowed, {})
=============================================================================
