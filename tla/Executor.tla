------------------------------ MODULE Executor ------------------------------
(***************************************************************************)
(* One call of Executor::buy in src/executor.rs, against the RPC node and  *)
(* the Jito block engine it talks to.  The buy posts a bundle, retries     *)
(* after any failure, and falls back to a plain RPC send.                  *)
(*                                                                         *)
(* A request and its answer cross a network that may lose either or        *)
(* deliver the request after the client has given up on the answer, so a   *)
(* failed attempt is not an attempt that did nothing.  A transaction is    *)
(* identified by what makes its signature differ: the recent blockhash     *)
(* and the tip transfer.  The buy instructions themselves are the same in  *)
(* every attempt.                                                          *)
(***************************************************************************)
EXTENDS Integers, FiniteSets

CONSTANTS
  MaxBundleRetries,  \* jito.max_bundle_retries
  TipAccounts,       \* jito.tip_accounts
  ValidAccounts,     \* those that parse as a public key
  TipLamports,       \* sol_to_lamports(jito.tip_sol)
  NoTip,             \* the tip of a transaction that transfers none
  MaxHash            \* bound on the blockhashes the chain produces

\* Config::validate checks that there is a tip account, not that it parses.
ASSUME ExecutorAssumption ==
  /\ MaxBundleRetries \in Nat
  /\ TipAccounts # {}
  /\ ValidAccounts \subseteq TipAccounts
  /\ TipLamports \in Nat
  /\ NoTip \notin TipAccounts
  /\ MaxHash \in Nat

Hashes == 0 .. MaxHash
Tips == ValidAccounts \cup {NoTip}
Tx == [hash : Hashes, tip : Tips]
NoTx == [hash |-> 0, tip |-> NoTip]

\* The attempts of the loop 0..=max_bundle_retries, and the direct send.
Attempts == 0 .. MaxBundleRetries
Direct == MaxBundleRetries + 1
Tries == Attempts \cup {Direct}

VARIABLES
  mode,      \* ExecutionMode, fixed when the executor is built
  pc,        \* where buy() stands
  attempt,   \* the loop variable; Direct in submit_direct
  tip,       \* tip_account of this attempt
  tx,        \* the transaction signed last
  outcome,   \* BuyOutcome, "none" before buy() returns
  latest,    \* environment: the latest blockhash
  wire,      \* environment: requests not yet delivered or lost
  reply,     \* environment: the answer on its way to the current request
  accepted,  \* environment: transactions the engine or the node took
  dropped,   \* environment: accepted ones that will never land
  failed,    \* history: attempts that ended in Err
  unknown    \* history: attempts given up without an answer

callVars == <<pc, attempt, tip, tx, outcome>>
envVars == <<latest, wire, reply, accepted, dropped>>
vars == <<mode, callVars, envVars, failed, unknown>>

\* The states where the future is suspended at an await.
Suspended == {"blockhash", "answer", "backoff"}
Stages == {"start", "tip"} \cup Suspended \cup {"done", "cancelled"}

\* A BundleSubmitted whose bundle_id is "<unknown>" is a BundleUnknown here.
Outcomes == {"none", "Simulated", "BundleSubmitted", "BundleUnknown",
             "DirectSubmitted", "Dropped"}

TypeOK ==
  /\ mode \in {"Live", "DryRun"}
  /\ pc \in Stages
  /\ attempt \in Tries
  /\ tip \in Tips
  /\ tx \in Tx
  /\ outcome \in Outcomes
  /\ latest \in Hashes
  /\ wire \subseteq [try : Tries, tx : Tx]
  /\ reply \in {"none", "ok", "blank", "error"}
  /\ accepted \subseteq Tx
  /\ dropped \subseteq accepted
  /\ failed \subseteq Attempts
  /\ unknown \subseteq Tries

Init ==
  /\ mode \in {"Live", "DryRun"}
  /\ pc = "start"
  /\ attempt = 0
  /\ tip = NoTip
  /\ tx = NoTx
  /\ outcome = "none"
  /\ latest = 0
  /\ wire = {}
  /\ reply = "none"
  /\ accepted = {}
  /\ dropped = {}
  /\ failed = {}
  /\ unknown = {}

-----------------------------------------------------------------------------
\* The control flow of buy().

\* buy() returns outcome o.
Return(o) ==
  /\ pc' = "done"
  /\ outcome' = o
  /\ UNCHANGED <<attempt, tip, tx>>

\* The current attempt is over without success: the loop sleeps, also after its
\* last attempt, and the direct send has nothing left to try.
Fail ==
  IF attempt = Direct
    THEN Return("Dropped") /\ UNCHANGED failed
    ELSE /\ pc' = "backoff"
         /\ failed' = failed \cup {attempt}
         /\ UNCHANGED <<attempt, tip, tx, outcome>>

\* Mutant: the mode is not looked at.
BeginLive ==
  /\ pc = "start"
  /\ pc' = "tip"
  /\ UNCHANGED <<mode, attempt, tip, tx, outcome, envVars, failed, unknown>>

Begin ==
  /\ pc = "start"
  /\ IF mode = "DryRun"
       THEN Return("Simulated")
       ELSE pc' = "tip" /\ UNCHANGED <<attempt, tip, tx, outcome>>
  /\ UNCHANGED <<mode, envVars, failed, unknown>>

\* Mutant: the account is not parsed.
PickTipUnparsed ==
  /\ pc = "tip"
  /\ tip' \in TipAccounts
  /\ pc' = "blockhash"
  /\ UNCHANGED <<mode, attempt, tx, outcome, envVars, failed, unknown>>

\* pick_tip_account: a random entry of the list, which has to parse.
PickTip ==
  /\ pc = "tip"
  /\ \E a \in TipAccounts :
       IF a \in ValidAccounts
         THEN /\ tip' = a
              /\ pc' = "blockhash"
              /\ UNCHANGED <<attempt, tx, outcome, failed>>
         ELSE Fail
  /\ UNCHANGED <<mode, envVars, unknown>>

\* build_buy_instructions: a transfer to the tip account, unless the tip is zero.
Build(account, lamports) ==
  [hash |-> latest, tip |-> IF lamports > 0 THEN account ELSE NoTip]

\* Sign t with the latest blockhash, put it on the wire and await the answer.
Send(t) ==
  /\ pc = "blockhash"
  /\ tx' = t
  /\ wire' = wire \cup {[try |-> attempt, tx |-> t]}
  /\ pc' = "answer"
  /\ reply' = "none"
  /\ UNCHANGED <<mode, attempt, tip, outcome, latest, accepted, dropped, failed,
                 unknown>>

SendBundle == attempt # Direct /\ Send(Build(tip, TipLamports))

\* submit_direct builds with no tip: Pubkey::default() and 0 lamports.
SendDirect == attempt = Direct /\ Send(Build(NoTip, 0))

BlockhashError ==
  /\ pc = "blockhash"
  /\ Fail
  /\ UNCHANGED <<mode, envVars, unknown>>

\* Mutant: a success whose body cannot be used counts as a failed attempt.
AnswerOkUnread ==
  /\ pc = "answer"
  /\ reply \in {"ok", "blank"}
  /\ Fail
  /\ UNCHANGED <<mode, envVars, unknown>>

\* A success status without an "error" in the body.  A bundle is submitted then,
\* whether or not the body has a "result" that names it.
AnswerOk ==
  /\ pc = "answer"
  /\ reply \in {"ok", "blank"}
  /\ Return(IF attempt = Direct THEN "DirectSubmitted"
            ELSE IF reply = "ok" THEN "BundleSubmitted" ELSE "BundleUnknown")
  /\ UNCHANGED <<mode, envVars, failed, unknown>>

\* Mutant: neither the status nor the body is looked at.
AnswerErrorIgnored ==
  /\ pc = "answer"
  /\ reply = "error"
  /\ Return("BundleSubmitted")
  /\ UNCHANGED <<mode, envVars, failed, unknown>>

\* A refusal: a status that is not a success, or a body with an "error".
AnswerError ==
  /\ pc = "answer"
  /\ reply = "error"
  /\ Fail
  /\ UNCHANGED <<mode, envVars, unknown>>

\* No answer that tells what became of the request: the timeout, a broken
\* connection, a body that is not JSON, and, of a request that was accepted all the
\* same, a status that is not a success or a body with an "error", null included.
AnswerLost ==
  /\ pc = "answer"
  /\ Fail
  /\ unknown' = unknown \cup {attempt}
  /\ UNCHANGED <<mode, envVars>>

\* Mutant: the loop is 0..max_bundle_retries.
RetryTooFew ==
  /\ pc = "backoff"
  /\ attempt' = IF attempt + 1 >= MaxBundleRetries THEN Direct ELSE attempt + 1
  /\ pc' = IF attempt' = Direct THEN "blockhash" ELSE "tip"
  /\ UNCHANGED <<mode, tip, tx, outcome, envVars, failed, unknown>>

\* The sleep is over: the next attempt, or the direct send after the last one.
Retry ==
  /\ pc = "backoff"
  /\ attempt' = attempt + 1
  /\ pc' = IF attempt = MaxBundleRetries THEN "blockhash" ELSE "tip"
  /\ UNCHANGED <<mode, tip, tx, outcome, envVars, failed, unknown>>

\* main() returned and the runtime drops the future at one of its awaits.
Cancel ==
  /\ pc \in Suspended
  /\ pc' = "cancelled"
  /\ unknown' = IF pc = "answer" THEN unknown \cup {attempt} ELSE unknown
  /\ UNCHANGED <<mode, attempt, tip, tx, outcome, envVars, failed>>

-----------------------------------------------------------------------------
\* The node, the block engine and the network between.

NewBlockhash ==
  /\ latest < MaxHash
  /\ latest' = latest + 1
  /\ UNCHANGED <<mode, callVars, wire, reply, accepted, dropped, failed, unknown>>

\* The answer to request r, which only the attempt that sent it can read.
Answer(r, a) == reply' = IF r.try = attempt THEN a ELSE reply

\* A success status with a JSON body that has neither "error" nor a text under
\* "result" says nothing of the bundle, and a proxy or an engine may give it to
\* any.  The RPC client makes an error of such a body.
Blank(r) == IF r.try = Direct THEN {} ELSE {"blank"}

\* A request may arrive long after the client stopped waiting for the answer.
Accept(r) ==
  /\ accepted' = accepted \cup {r.tx}
  /\ wire' = wire \ {r}
  /\ \E a \in {"ok"} \cup Blank(r) : Answer(r, a)
  /\ UNCHANGED <<mode, callVars, latest, dropped, failed, unknown>>

Refuse(r) ==
  /\ wire' = wire \ {r}
  /\ \E a \in {"error"} \cup Blank(r) : Answer(r, a)
  /\ UNCHANGED <<mode, callVars, latest, accepted, dropped, failed, unknown>>

Lose(r) ==
  /\ wire' = wire \ {r}
  /\ UNCHANGED <<mode, callVars, latest, reply, accepted, dropped, failed, unknown>>

\* An accepted bundle that no leader includes.
DropBundle ==
  /\ \E t \in accepted \ dropped : dropped' = dropped \cup {t}
  /\ UNCHANGED <<mode, callVars, latest, wire, reply, accepted, failed, unknown>>

-----------------------------------------------------------------------------
BuyStep ==
  \/ Begin
  \/ PickTip
  \/ SendBundle
  \/ SendDirect
  \/ BlockhashError
  \/ AnswerOk
  \/ AnswerError
  \/ AnswerLost
  \/ Retry

Environment ==
  \/ NewBlockhash
  \/ \E r \in wire : Accept(r) \/ Refuse(r) \/ Lose(r)
  \/ DropBundle

Next == BuyStep \/ Cancel \/ Environment

Spec == Init /\ [][Next]_vars

\* The RPC client, the HTTP client and the sleep each end in bounded time.
FairSpec == Spec /\ WF_vars(BuyStep)

-----------------------------------------------------------------------------
\* buy() says it submitted, under a name the server gave or without one.
Named == outcome \in {"BundleSubmitted", "DirectSubmitted"}
Reported == Named \/ outcome = "BundleUnknown"

\* A submission reported under a bundle id or by the RPC node is real: the
\* transaction whose signature buy() returns was accepted, and not merely one of an
\* earlier attempt.  A report with the id "<unknown>" may be of a bundle that was
\* refused.
ReportIsReal == Named => tx \in accepted

\* The wallet pays more than once for a launch only after an answer was lost, that
\* is did not come or did not tell an acceptance from a refusal: each accepted
\* transaction is the one the buy stopped at, or belongs to such an attempt.
DoubleBuyNeedsLostAnswer ==
  Cardinality(accepted) <=
    Cardinality(unknown) +
      (IF Reported \/ (pc = "answer" /\ reply \in {"ok", "blank"}) THEN 1 ELSE 0)

\* The plain RPC send is the last resort: it starts only when every one of the
\* max_bundle_retries + 1 attempts has failed.
DirectIsLastResort ==
  attempt = Direct => failed = Attempts

\* Simulate mode never submits a transaction.
SimulateSendsNothing ==
  mode = "DryRun" => wire = {} /\ accepted = {} /\ tx = NoTx

Promise ==
  INSTANCE BuyPromise WITH
    Tries <- MaxBundleRetries + 2,
    dry <- mode = "DryRun",
    paid <- Cardinality(accepted),
    doubts <- Cardinality(unknown),
    report <- IF pc = "cancelled" THEN "cancelled" ELSE outcome

\* The buy keeps its promise to the caller (module BuyPromise): through retries,
\* fallback, late deliveries and cancellation every payment is accounted for, a
\* simulated buy pays nothing, and buy() returns.
KeepsPromise == Promise!Spec

\* "Falls back to plain RPC send if all bundle attempts are dropped" (README.md):
\* no direct send starts while a bundle of this buy stands accepted.
FallbackOnlyIfDropped ==
  [][SendDirect => accepted \subseteq dropped]_vars
=============================================================================
