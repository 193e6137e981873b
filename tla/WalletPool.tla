----------------------------- MODULE WalletPool -----------------------------
(***************************************************************************)
(* The rotating wallet pool of src/wallet.rs.  A task calls acquire() and  *)
(* receives a WalletGuard that names one wallet; dropping the guard        *)
(* releases the wallet.  Several tasks call the pool at the same time, so  *)
(* each step below is one atomic access to the state they share: the       *)
(* fetch_add on the cursor, or one critical section of the busy lock.      *)
(*                                                                         *)
(* RoundRobin and Random choose a wallet first and take the lock            *)
(* afterwards to mark it busy: two steps, and neither looks at the flag.   *)
(* FirstAvailable searches and marks inside one critical section.          *)
(***************************************************************************)
EXTENDS Integers

CONSTANTS
  NumWallets,     \* number of keypairs loaded, WalletPool::len()
  CursorModulus,  \* 2^w for a w-bit usize: fetch_add wraps around at it
  Tasks           \* the tasks that call the pool

Strategies == {"RoundRobin", "Random", "FirstAvailable"}

\* Config::validate refuses an empty list of keypair paths.
ASSUME PoolAssumption ==
  /\ NumWallets \in Nat \ {0}
  /\ CursorModulus \in Nat \ {0}

Wallets == 0 .. NumWallets - 1

VARIABLES
  strategy,  \* RotationStrategy, fixed when the pool is loaded
  cursor,    \* the AtomicUsize
  busy,      \* the flags behind the RwLock
  phase,     \* where each task stands with respect to acquire() and its guard
  idx        \* WalletGuard.idx, meaningful in phases "picked" and "held"

vars == <<strategy, cursor, busy, phase, idx>>

Phases == {"idle", "picked", "held", "denied"}

TypeOK ==
  /\ strategy \in Strategies
  /\ cursor \in 0 .. CursorModulus - 1
  /\ busy \in [Wallets -> BOOLEAN]
  /\ phase \in [Tasks -> Phases]
  /\ idx \in [Tasks -> Wallets]

Init ==
  /\ strategy \in Strategies
  /\ cursor = 0
  /\ busy = [w \in Wallets |-> FALSE]
  /\ phase = [t \in Tasks |-> "idle"]
  /\ idx = [t \in Tasks |-> 0]

-----------------------------------------------------------------------------
\* A task without a guard may call acquire(), also after it was denied.
MayAcquire(t) == phase[t] \in {"idle", "denied"}

\* Task t moves to phase p with wallet w; no step changes the strategy.
Move(t, p, w) ==
  /\ UNCHANGED strategy
  /\ phase' = [phase EXCEPT ![t] = p]
  /\ idx' = [idx EXCEPT ![t] = w]

\* Mutant: the cursor is wrapped by hand, one short of the pool.
NextCursorShort == (cursor + 1) % (NumWallets - 1)

\* fetch_add on a usize.
NextCursor == (cursor + 1) % CursorModulus

\* Mutant: the modulus is off by one.
TurnOffByOne == cursor % (NumWallets + 1)

\* fetch_add returns the old cursor; the index is taken modulo the pool size.
Turn == cursor % NumWallets

PickRoundRobin(t) ==
  /\ strategy = "RoundRobin"
  /\ MayAcquire(t)
  /\ cursor' = NextCursor
  /\ Move(t, "picked", Turn)
  /\ UNCHANGED busy

PickRandom(t) ==
  /\ strategy = "Random"
  /\ MayAcquire(t)
  /\ \E w \in Wallets : Move(t, "picked", w)
  /\ UNCHANGED <<cursor, busy>>

\* mark_busy, then the guard is returned.
MarkBusy(t) ==
  /\ phase[t] = "picked"
  /\ busy' = [busy EXCEPT ![idx[t]] = TRUE]
  /\ Move(t, "held", idx[t])
  /\ UNCHANGED cursor

\* Mutant: the lock is dropped between the search and mark_busy.
TakeUnlocked(t) ==
  /\ strategy = "FirstAvailable"
  /\ MayAcquire(t)
  /\ \E w \in Wallets : ~busy[w] /\ Move(t, "picked", w)
  /\ UNCHANGED <<cursor, busy>>

\* position(|b| !*b): the first idle wallet, marked under the same lock.
TakeFirstAvailable(t) ==
  /\ strategy = "FirstAvailable"
  /\ MayAcquire(t)
  /\ \E w \in Wallets :
       /\ ~busy[w]
       /\ \A v \in Wallets : v < w => busy[v]
       /\ busy' = [busy EXCEPT ![w] = TRUE]
       /\ Move(t, "held", w)
  /\ UNCHANGED cursor

\* Mutant: any busy wallet is taken for a full pool.
DenyIfAnyBusy(t) ==
  /\ strategy = "FirstAvailable"
  /\ MayAcquire(t)
  /\ \E w \in Wallets : busy[w]
  /\ Move(t, "denied", idx[t])
  /\ UNCHANGED <<cursor, busy>>

\* position() found no idle wallet and acquire() returns None.
Deny(t) ==
  /\ strategy = "FirstAvailable"
  /\ MayAcquire(t)
  /\ \A w \in Wallets : busy[w]
  /\ Move(t, "denied", idx[t])
  /\ UNCHANGED <<cursor, busy>>

\* Mutant: the drop clears the flag of the next wallet.
ReleaseNeighbour(t) ==
  /\ phase[t] = "held"
  /\ busy' = [busy EXCEPT ![(idx[t] + 1) % NumWallets] = FALSE]
  /\ Move(t, "idle", idx[t])
  /\ UNCHANGED cursor

\* Dropping the guard clears the flag, whoever else is using the wallet.
Release(t) ==
  /\ phase[t] = "held"
  /\ busy' = [busy EXCEPT ![idx[t]] = FALSE]
  /\ Move(t, "idle", idx[t])
  /\ UNCHANGED cursor

Next ==
  \E t \in Tasks :
    \/ PickRoundRobin(t)
    \/ PickRandom(t)
    \/ MarkBusy(t)
    \/ TakeFirstAvailable(t)
    \/ Deny(t)
    \/ Release(t)

Spec == Init /\ [][Next]_vars

-----------------------------------------------------------------------------
Holds(t, w) == phase[t] = "held" /\ idx[t] = w

\* FirstAvailable never leases one wallet to two tasks, however their calls to
\* acquire() and the drops of their guards interleave.
ExclusiveLease ==
  strategy = "FirstAvailable" =>
    \A t, u \in Tasks : \A w \in Wallets :
      Holds(t, w) /\ Holds(u, w) => t = u

\* Under every strategy a busy flag that is set has a live guard behind it: no
\* order of marking and releasing leaves a wallet marked busy for ever.
NoLeakedWallet ==
  \A w \in Wallets : busy[w] => \E t \in Tasks : Holds(t, w)

\* Under FirstAvailable the flag also misses no live guard, so the search for
\* an idle wallet never decides on a stale flag.
NoUnmarkedLease ==
  strategy = "FirstAvailable" =>
    \A t \in Tasks : phase[t] = "held" => busy[idx[t]]

\* acquire() answers None only at an instant when every wallet of the pool is
\* held by the live guard of another task.
DeniedOnlyWhenExhausted ==
  [][\A t \in Tasks :
       phase[t] # "denied" /\ phase'[t] = "denied" =>
         \A w \in Wallets : \E u \in Tasks \ {t} : Holds(u, w)]_vars
=============================================================================
