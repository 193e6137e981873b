--------------------------- MODULE ExecutorProofs ---------------------------
(***************************************************************************)
(* Proofs about Executor, for every number of retries, every set of tip    *)
(* accounts, any tip and any number of blockhashes.                        *)
(***************************************************************************)
EXTENDS Executor, FiniteSetTheorems, TLAPS

\* Every attempt before the current one has failed, and a buy that sleeps has
\* failed the current one too.  As failed never holds the direct send, the loop
\* counter cannot run past it: without this TypeOK is not inductive.
Progress ==
  /\ 0 .. attempt - 1 \subseteq failed
  /\ pc = "backoff" => attempt \in failed

LoopInv == TypeOK /\ Progress

LEMMA LoopInvariance == Spec => []LoopInv
<1> USE ExecutorAssumption
    DEF LoopInv, Progress, TypeOK, Stages, Suspended, Outcomes, Tries, Attempts, Direct,
        Tx, Tips, Hashes, NoTx, envVars
<1>1. Init => LoopInv
  BY DEF Init
<1>2. LoopInv /\ [Next]_vars => LoopInv'
  <2> SUFFICES ASSUME LoopInv, [Next]_vars
               PROVE  LoopInv'
    OBVIOUS
  <2>1. CASE Begin
    BY <2>1 DEF Begin, Return
  <2>2. CASE PickTip
    BY <2>2 DEF PickTip, Fail, Return
  <2>3. ASSUME NEW t \in Tx, Send(t)
        PROVE  LoopInv'
    BY <2>3 DEF Send
  <2>4. CASE SendBundle
    <3>1. Build(tip, TipLamports) \in Tx
      BY DEF Build
    <3>2. QED
      BY <2>3, <2>4, <3>1 DEF SendBundle
  <2>5. CASE SendDirect
    <3>1. Build(NoTip, 0) \in Tx
      BY DEF Build
    <3>2. QED
      BY <2>3, <2>5, <3>1 DEF SendDirect
  <2>6. CASE BlockhashError
    BY <2>6 DEF BlockhashError, Fail, Return
  <2>7. CASE AnswerOk
    BY <2>7 DEF AnswerOk, Return
  <2>8. CASE AnswerError
    BY <2>8 DEF AnswerError, Fail, Return
  <2>9. CASE AnswerLost
    BY <2>9 DEF AnswerLost, Fail, Return
  <2>10. CASE Retry
    <3>1. attempt \in 0 .. MaxBundleRetries
      BY <2>10 DEF Retry
    <3>2. attempt + 1 \in Tries /\ 0 .. attempt \subseteq failed
      BY <2>10, <3>1 DEF Retry
    <3>3. TypeOK'
      BY <2>10, <3>2 DEF Retry
    <3>4. Progress'
      BY <2>10, <3>1, <3>2 DEF Retry
    <3>5. QED
      BY <3>3, <3>4
  <2>11. CASE Cancel
    BY <2>11 DEF Cancel
  <2>12. CASE NewBlockhash
    BY <2>12 DEF NewBlockhash, callVars
  <2>13. ASSUME NEW r \in wire, Accept(r) \/ Refuse(r) \/ Lose(r)
         PROVE  LoopInv'
    <3>1. CASE Accept(r)
      BY <3>1 DEF Accept, Answer, Blank, callVars
    <3>2. CASE Refuse(r)
      BY <3>2 DEF Refuse, Answer, Blank, callVars
    <3>3. CASE Lose(r)
      BY <3>3 DEF Lose, callVars
    <3>4. QED
      BY <2>13, <3>1, <3>2, <3>3
  <2>14. CASE DropBundle
    BY <2>14 DEF DropBundle, callVars
  <2>15. CASE UNCHANGED vars
    BY <2>15 DEF vars, callVars
  <2>16. QED
    BY <2>1, <2>2, <2>4, <2>5, <2>6, <2>7, <2>8, <2>9, <2>10, <2>11, <2>12,
       <2>13, <2>14, <2>15 DEF Next, BuyStep, Environment
<1>3. QED
  BY <1>1, <1>2, PTL DEF Spec

\* A buy keeps to its types: in particular a tip account that does not parse
\* never gets into a transaction, and the attempt stays within the loop's range
\* and the one direct send after it.
THEOREM TypeCorrect == Spec => []TypeOK
<1>1. LoopInv => TypeOK
  BY DEF LoopInv
<1>2. QED
  BY <1>1, LoopInvariance, PTL

\* However many retries are configured, the plain send comes after the failure
\* of every one of the max_bundle_retries + 1 bundle attempts.
THEOREM LastResort == Spec => []DirectIsLastResort
<1>1. ASSUME LoopInv, attempt = Direct
      PROVE  failed = Attempts
  <2>1. 0 .. Direct - 1 = Attempts
    BY ExecutorAssumption DEF Direct, Attempts
  <2>2. QED
    BY <1>1, <2>1 DEF LoopInv, Progress, TypeOK
<1>2. LoopInv => DirectIsLastResort
  BY <1>1 DEF DirectIsLastResort
<1>3. QED
  BY <1>2, LoopInvariance, PTL

-----------------------------------------------------------------------------
\* A dry run leaves the first stage only for the last, with nothing sent.
DryRunInv == mode = "DryRun" => pc \in {"start", "done"} /\ wire = {}

SimulateInv == DryRunInv /\ SimulateSendsNothing

LEMMA SimulateStep == SimulateInv /\ [Next]_vars => SimulateInv'
<1> SUFFICES ASSUME SimulateInv, [Next]_vars, mode' = "DryRun"
             PROVE  SimulateInv'
  BY DEF SimulateInv, DryRunInv, SimulateSendsNothing
<1> USE DEF SimulateInv, DryRunInv, SimulateSendsNothing
<1>1. mode = mode'
  BY DEF vars, Next, BuyStep, Environment, Begin, PickTip, SendBundle, SendDirect, Send,
         BlockhashError, AnswerOk, AnswerError, AnswerLost, Retry, Cancel,
         NewBlockhash, Accept, Refuse, Lose, DropBundle
<1>2. pc \in {"start", "done"} /\ wire = {} /\ accepted = {} /\ tx = NoTx
  BY <1>1
<1>3. CASE Begin
  BY <1>1, <1>2, <1>3 DEF Begin, Return, envVars
<1>4. CASE NewBlockhash \/ DropBundle
  BY <1>1, <1>2, <1>4 DEF NewBlockhash, DropBundle, callVars
<1>5. CASE UNCHANGED vars
  BY <1>1, <1>2, <1>5 DEF vars, callVars, envVars
<1>6. QED
  BY <1>2, <1>3, <1>4, <1>5
     DEF Next, BuyStep, Environment, PickTip, SendBundle, SendDirect, Send,
         BlockhashError, AnswerOk, AnswerError, AnswerLost, Retry, Cancel, Suspended

\* In simulate mode no request, let alone an accepted one, ever leaves the bot.
THEOREM SimulationIsSilent == Spec => []SimulateSendsNothing
<1>1. Init => SimulateInv
  BY DEF Init, SimulateInv, DryRunInv, SimulateSendsNothing
<1>2. SimulateInv => SimulateSendsNothing
  BY DEF SimulateInv
<1>3. QED
  BY <1>1, <1>2, SimulateStep, PTL DEF Spec

-----------------------------------------------------------------------------
\* A request on the wire is of an earlier attempt, or it is the current one and
\* carries the transaction signed last: its answer cannot be taken for another's.
WireInv ==
  \A r \in wire :
    \/ r.try < attempt
    \/ r.try = attempt /\ r.tx = tx /\ pc \notin {"start", "tip", "blockhash"}

AnswerInv == pc = "answer" /\ reply = "ok" => tx \in accepted

\* Every submission that the RPC node reports, it names.
BlankInv == pc = "answer" /\ attempt = Direct => reply # "blank"

ReportInv ==
  WireInv /\ AnswerInv /\ BlankInv /\ (Reported => pc = "done") /\ ReportIsReal

LEMMA ReportInvariance == Spec => []ReportInv
<1> USE ExecutorAssumption
    DEF ReportInv, WireInv, AnswerInv, BlankInv, Reported, Named, ReportIsReal, TypeOK,
        LoopInv, Tries, Attempts, Direct, envVars
<1>1. Init => ReportInv
  BY DEF Init
<1>2. LoopInv /\ ReportInv /\ [Next]_vars => ReportInv'
  <2> SUFFICES ASSUME LoopInv, ReportInv, [Next]_vars
               PROVE  ReportInv'
    OBVIOUS
  <2>1. CASE Begin
    BY <2>1 DEF Begin, Return
  <2>2. CASE PickTip
    BY <2>2 DEF PickTip, Fail, Return
  <2>3. ASSUME NEW t, Send(t)
        PROVE  ReportInv'
    <3>1. \A r \in wire : r.try < attempt
      BY <2>3 DEF Send
    <3>2. WireInv'
      BY <2>3, <3>1 DEF Send
    <3>3. QED
      BY <2>3, <3>2 DEF Send
  <2>4. CASE BlockhashError
    BY <2>4 DEF BlockhashError, Fail, Return
  <2>5. CASE AnswerOk
    BY <2>5 DEF AnswerOk, Return
  <2>6. CASE AnswerError
    BY <2>6 DEF AnswerError, Fail, Return
  <2>7. CASE AnswerLost
    BY <2>7 DEF AnswerLost, Fail, Return
  <2>8. CASE Retry
    <3>1. attempt \in Nat /\ \A r \in wire : r.try \in Nat /\ r.try < attempt + 1
      BY <2>8 DEF Retry
    <3>2. QED
      BY <2>8, <3>1 DEF Retry
  <2>9. CASE Cancel
    BY <2>9 DEF Cancel, Suspended
  <2>10. CASE NewBlockhash \/ DropBundle
    BY <2>10 DEF NewBlockhash, DropBundle, callVars
  <2>11. ASSUME NEW r \in wire, Accept(r)
         PROVE  ReportInv'
    <3>1. UNCHANGED callVars /\ wire' \subseteq wire /\ accepted' = accepted \cup {r.tx}
      BY <2>11 DEF Accept
    <3>2. AnswerInv'
      <4>1. CASE r.try = attempt
        BY <3>1, <4>1 DEF callVars
      <4>2. CASE r.try # attempt
        BY <2>11, <3>1, <4>2 DEF Accept, Answer, callVars
      <4>3. QED
        BY <4>1, <4>2
    <3>3. BlankInv'
      BY <2>11, <3>1 DEF Accept, Answer, Blank, callVars
    <3>4. QED
      BY <3>1, <3>2, <3>3 DEF callVars
  <2>12. ASSUME NEW r \in wire, Refuse(r) \/ Lose(r)
         PROVE  ReportInv'
    BY <2>12 DEF Refuse, Lose, Answer, Blank, callVars
  <2>13. CASE UNCHANGED vars
    BY <2>13 DEF vars, callVars
  <2>14. QED
    BY <2>1, <2>2, <2>3, <2>4, <2>5, <2>6, <2>7, <2>8, <2>9, <2>10, <2>11,
       <2>12, <2>13 DEF Next, BuyStep, Environment, SendBundle, SendDirect
<1>3. QED
  BY <1>1, <1>2, LoopInvariance, PTL DEF Spec

\* The transaction of a submission that the server named has been accepted, though
\* answers to earlier attempts may be lost and their requests arrive late.  Of a
\* bundle reported with the id "<unknown>" this says nothing.
THEOREM ReportsAreReal == Spec => []ReportIsReal
<1>1. ReportInv => ReportIsReal
  BY DEF ReportInv
<1>2. QED
  BY <1>1, ReportInvariance, PTL

-----------------------------------------------------------------------------
\* The current attempt's request, while it waits for its answer.
Current == [try |-> attempt, tx |-> tx]

\* The one acceptance, made or still possible, that no lost answer accounts for:
\* the current attempt's, until its answer has been read as a failure.
Slot ==
  IF \/ Reported
     \/ pc = "answer" /\ (reply \in {"ok", "blank"} \/ Current \in wire)
    THEN 1 ELSE 0

AllFinite == IsFiniteSet(accepted) /\ IsFiniteSet(wire) /\ IsFiniteSet(unknown)

\* An attempt is given up at most once, so that each adds one to unknown.
UnknownInv ==
  \A u \in unknown :
    u < attempt \/ (u = attempt /\ pc \in {"backoff", "done", "cancelled"})

AnsweredInv == pc = "answer" /\ reply # "none" => Current \notin wire

\* DoubleBuyNeedsLostAnswer says nothing of the requests still on the wire, each
\* of which may yet be accepted: they are counted with the accepted ones.
CountInv == Cardinality(accepted) + Cardinality(wire) <= Cardinality(unknown) + Slot

BuyInv == AllFinite /\ UnknownInv /\ AnsweredInv /\ CountInv

\* One more element is at most one more to count.
LEMMA OneMore ==
  ASSUME NEW S, IsFiniteSet(S), NEW x
  PROVE  /\ IsFiniteSet(S \cup {x})
         /\ Cardinality(S \cup {x}) \in Nat
         /\ Cardinality(S \cup {x}) <= Cardinality(S) + 1
<1>1. Cardinality(S) \in Nat
  BY FS_CardinalityType
<1>2. IsFiniteSet(S \cup {x})
  BY FS_AddElement
<1>3. CASE x \in S
  BY <1>1, <1>2, <1>3, FS_AddElement
<1>4. CASE x \notin S
  <2>1. Cardinality(S \cup {x}) = Cardinality(S) + 1
    BY <1>4, FS_AddElement
  <2>2. QED
    BY <1>1, <1>2, <2>1
<1>5. QED
  BY <1>3, <1>4

\* A step that moves no request and loses no answer keeps the count.
LEMMA QuietStep ==
  ASSUME BuyInv, UNCHANGED <<accepted, wire, unknown>>, Slot' = Slot
  PROVE  AllFinite' /\ CountInv'
BY DEF BuyInv, AllFinite, CountInv

\* A request of the wire is the current one exactly if its attempt is.
LEMMA CurrentRequest ==
  ASSUME LoopInv, ReportInv, NEW r \in wire
  PROVE  r.try = attempt <=> r = Current
<1>1. r \in [try : Tries, tx : Tx]
  BY DEF LoopInv, TypeOK
<1>2. r.try = attempt => r.tx = tx
  BY <1>1, ExecutorAssumption
     DEF ReportInv, WireInv, LoopInv, TypeOK, Tries, Attempts, Direct
<1>3. QED
  BY <1>1, <1>2 DEF Current

LEMMA BuyInvariance == Spec => []BuyInv
<1> USE ExecutorAssumption DEF BuyInv
<1>1. Init => BuyInv
  BY FS_EmptySet DEF Init, AllFinite, UnknownInv, AnsweredInv, CountInv, Slot
<1>2. LoopInv /\ ReportInv /\ BuyInv /\ [Next]_vars => BuyInv'
  <2> SUFFICES ASSUME LoopInv, ReportInv, BuyInv, [Next]_vars
               PROVE  BuyInv'
    OBVIOUS
  <2>0. /\ Cardinality(accepted) \in Nat
        /\ Cardinality(wire) \in Nat
        /\ Cardinality(unknown) \in Nat
        /\ Slot \in 0 .. 1
        /\ attempt \in Nat
        /\ unknown \subseteq Nat
    BY FS_CardinalityType
       DEF AllFinite, Slot, LoopInv, TypeOK, Tries, Attempts, Direct
  <2>1. ASSUME pc \in {"start", "tip", "blockhash"} \/ (pc = "answer" /\ reply = "error"),
               UNCHANGED <<attempt, accepted, wire, unknown>>, ~Reported',
               pc' \in {"tip", "blockhash", "backoff", "done", "cancelled"}
        PROVE  BuyInv'
    <3>1. Slot = 0 /\ Slot' = 0
      BY <2>1 DEF Slot, ReportInv, AnsweredInv
    <3>2. QED
      BY <2>1, <3>1, QuietStep DEF UnknownInv, AnsweredInv
  <2>2. ASSUME NEW t, Send(t)
        PROVE  BuyInv'
    <3>1. wire' = wire \cup {Current'} /\ pc' = "answer" /\ reply' = "none"
      BY <2>2 DEF Send, Current
    <3>2. Slot = 0 /\ Slot' = 1
      BY <2>2, <3>1 DEF Send, Slot, ReportInv
    <3>3. IsFiniteSet(wire')
      BY <3>1, OneMore DEF AllFinite
    <3>4. Cardinality(wire') \in Nat /\ Cardinality(wire') <= Cardinality(wire) + 1
      BY <3>1, OneMore DEF AllFinite
    <3>5. AllFinite' /\ CountInv'
      BY <2>0, <2>2, <3>2, <3>3, <3>4 DEF Send, AllFinite, CountInv
    <3>6. QED
      BY <2>2, <3>5 DEF Send, UnknownInv, AnsweredInv
  <2>3. CASE AnswerOk
    <3>1. Slot = 1 /\ Slot' = 1
      BY <2>3 DEF AnswerOk, Return, Slot, Reported, Named
    <3>2. QED
      BY <2>3, <3>1, QuietStep DEF AnswerOk, Return, envVars, UnknownInv, AnsweredInv
  <2>4. ASSUME pc = "answer", unknown' = unknown \cup {attempt}, ~Reported',
               UNCHANGED <<attempt, accepted, wire>>,
               pc' \in {"backoff", "done", "cancelled"}
        PROVE  BuyInv'
    <3>1. attempt \notin unknown
      BY <2>0, <2>4 DEF UnknownInv
    <3>2. IsFiniteSet(unknown') /\ Cardinality(unknown') = Cardinality(unknown) + 1
      BY <2>4, <3>1, FS_AddElement DEF AllFinite
    <3>3. Slot' = 0
      BY <2>4 DEF Slot
    <3>4. AllFinite' /\ CountInv'
      BY <2>0, <2>4, <3>2, <3>3 DEF AllFinite, CountInv
    <3>5. QED
      BY <2>4, <3>4 DEF UnknownInv, AnsweredInv
  <2>5. CASE Retry
    <3>1. Slot = 0 /\ Slot' = 0
      BY <2>5 DEF Retry, Slot, Reported, Named, ReportInv
    <3>2. \A u \in unknown : u < attempt + 1
      BY <2>0, <2>5 DEF Retry, UnknownInv
    <3>3. QED
      BY <2>5, <3>1, <3>2, QuietStep DEF Retry, envVars, UnknownInv, AnsweredInv
  <2>6. ASSUME NEW r \in wire, Accept(r)
        PROVE  BuyInv'
    <3>1. /\ accepted' = accepted \cup {r.tx}
          /\ wire' = wire \ {r}
          /\ UNCHANGED <<pc, attempt, tx, outcome, unknown>>
      BY <2>6 DEF Accept, callVars
    <3>2. /\ IsFiniteSet(accepted')
          /\ Cardinality(accepted') \in Nat
          /\ Cardinality(accepted') <= Cardinality(accepted) + 1
      BY <3>1, OneMore DEF AllFinite
    <3>3. IsFiniteSet(wire') /\ Cardinality(wire') = Cardinality(wire) - 1
      BY <3>1, FS_RemoveElement DEF AllFinite
    <3>4. Slot' = Slot /\ AnsweredInv'
      BY <2>6, <3>1, CurrentRequest
         DEF Accept, Answer, Blank, Slot, Reported, Named, Current, AnsweredInv
    <3>5. AllFinite' /\ CountInv'
      BY <2>0, <3>1, <3>2, <3>3, <3>4 DEF AllFinite, CountInv
    <3>6. QED
      BY <3>1, <3>4, <3>5 DEF UnknownInv
  <2>7. ASSUME NEW r \in wire, Refuse(r) \/ Lose(r)
        PROVE  BuyInv'
    <3>1. /\ wire' = wire \ {r}
          /\ UNCHANGED <<pc, attempt, tx, outcome, accepted, unknown>>
      BY <2>7 DEF Refuse, Lose, callVars
    <3>2. IsFiniteSet(wire') /\ Cardinality(wire') = Cardinality(wire) - 1
      BY <3>1, FS_RemoveElement DEF AllFinite
    <3>3. Slot <= Slot' + 1 /\ Slot' \in 0 .. 1
      BY <2>0 DEF Slot
    <3>4. AnsweredInv'
      BY <2>7, <3>1, CurrentRequest DEF Refuse, Lose, Answer, Current, AnsweredInv
    <3>5. QED
      BY <2>0, <3>1, <3>2, <3>3, <3>4 DEF AllFinite, CountInv, UnknownInv
  <2>8. ASSUME UNCHANGED <<callVars, wire, reply, accepted, unknown>>
        PROVE  BuyInv'
    <3>1. Slot' = Slot
      BY <2>8 DEF callVars, Slot, Reported, Named, Current
    <3>2. QED
      BY <2>8, <3>1, QuietStep DEF callVars, UnknownInv, AnsweredInv, Current
  <2>9. CASE Begin
    BY <2>1, <2>9 DEF Begin, Return, Reported, Named, ReportInv, envVars
  <2>10. CASE PickTip
    BY <2>1, <2>10 DEF PickTip, Fail, Return, Reported, Named, ReportInv, envVars
  <2>11. CASE BlockhashError
    BY <2>1, <2>11 DEF BlockhashError, Fail, Return, Reported, Named, ReportInv, envVars
  <2>12. CASE AnswerError
    BY <2>1, <2>12 DEF AnswerError, Fail, Return, Reported, Named, ReportInv, envVars
  <2>13. CASE AnswerLost
    BY <2>4, <2>13 DEF AnswerLost, Fail, Return, Reported, Named, ReportInv, envVars
  <2>14. CASE Cancel
    <3>1. CASE pc = "answer"
      BY <2>4, <2>14, <3>1 DEF Cancel, Reported, Named, ReportInv, envVars
    <3>2. CASE pc = "blockhash"
      BY <2>1, <2>14, <3>2 DEF Cancel, Reported, Named, ReportInv, envVars
    <3>3. CASE pc = "backoff"
      <4>1. Slot = 0 /\ Slot' = 0
        BY <2>14, <3>3 DEF Cancel, Slot, Reported, Named, ReportInv
      <4>2. QED
        BY <2>14, <3>3, <4>1, QuietStep DEF Cancel, envVars, UnknownInv, AnsweredInv
    <3>4. QED
      BY <2>14, <3>1, <3>2, <3>3 DEF Cancel, Suspended
  <2>15. CASE NewBlockhash \/ DropBundle \/ UNCHANGED vars
    BY <2>8, <2>15 DEF NewBlockhash, DropBundle, vars, envVars
  <2>16. QED
    BY <2>2, <2>3, <2>5, <2>6, <2>7, <2>9, <2>10, <2>11, <2>12, <2>13, <2>14, <2>15
       DEF Next, BuyStep, Environment, SendBundle, SendDirect
<1>3. QED
  BY <1>1, <1>2, LoopInvariance, ReportInvariance, PTL DEF Spec

\* The wallet pays more than once for a launch only after an answer was lost,
\* whatever the number of attempts and however late their requests arrive.
THEOREM DoubleBuysAreExplained == Spec => []DoubleBuyNeedsLostAnswer
<1>1. ASSUME BuyInv
      PROVE  DoubleBuyNeedsLostAnswer
  <2>1. /\ Cardinality(accepted) \in Nat
        /\ Cardinality(wire) \in Nat
        /\ Cardinality(unknown) \in Nat
    BY <1>1, FS_CardinalityType DEF BuyInv, AllFinite
  <2>2. CASE Current \in wire
    <3>1. Cardinality(wire) >= 1
      BY <1>1, <2>1, <2>2, FS_EmptySet DEF BuyInv, AllFinite
    <3>2. QED
      BY <1>1, <2>1, <3>1 DEF BuyInv, CountInv, Slot, DoubleBuyNeedsLostAnswer
  <2>3. CASE Current \notin wire
    BY <1>1, <2>1, <2>3 DEF BuyInv, CountInv, Slot, DoubleBuyNeedsLostAnswer
  <2>4. QED
    BY <2>2, <2>3
<1>2. QED
  BY <1>1, BuyInvariance, PTL

-----------------------------------------------------------------------------
\* buy() has an outcome exactly when it has returned, and it is "Simulated"
\* exactly in a dry run.
OutcomeInv ==
  /\ outcome # "none" <=> pc = "done"
  /\ pc = "done" => (outcome = "Simulated" <=> mode = "DryRun")

LEMMA OutcomeInvariance == Spec => [](SimulateInv /\ OutcomeInv)
<1>1. Init => SimulateInv /\ OutcomeInv
  BY DEF Init, SimulateInv, DryRunInv, SimulateSendsNothing, OutcomeInv
<1>2. SimulateInv /\ OutcomeInv /\ [Next]_vars => OutcomeInv'
  <2> SUFFICES ASSUME SimulateInv, OutcomeInv, [Next]_vars
               PROVE  OutcomeInv'
    OBVIOUS
  <2> USE DEF OutcomeInv
  <2>1. CASE Begin
    BY <2>1 DEF Begin, Return
  <2>2. ASSUME pc \in {"tip", "blockhash", "answer"}, Fail, mode' = mode
        PROVE  OutcomeInv'
    BY <2>2 DEF Fail, Return, SimulateInv, DryRunInv
  <2>3. CASE PickTip
    BY <2>2, <2>3 DEF PickTip
  <2>4. CASE SendBundle \/ SendDirect
    BY <2>4 DEF SendBundle, SendDirect, Send
  <2>5. CASE BlockhashError \/ AnswerError \/ AnswerLost
    BY <2>2, <2>5 DEF BlockhashError, AnswerError, AnswerLost
  <2>6. CASE AnswerOk
    BY <2>6 DEF AnswerOk, Return, SimulateInv, DryRunInv
  <2>7. CASE Retry \/ Cancel
    BY <2>7 DEF Retry, Cancel, Suspended
  <2>8. CASE UNCHANGED <<mode, pc, outcome>>
    BY <2>8
  <2>9. QED
    BY <2>1, <2>3, <2>4, <2>5, <2>6, <2>7, <2>8
       DEF Next, BuyStep, Environment, NewBlockhash, Accept, Refuse, Lose, DropBundle,
           callVars, vars
<1>3. SimulateInv /\ [Next]_vars => SimulateInv'
  BY SimulateStep
<1>4. QED
  BY <1>1, <1>2, <1>3, PTL DEF Spec

\* What the caller knows of the buy, as BuyPromise names it.
Told == IF pc = "cancelled" THEN "cancelled" ELSE outcome

PromiseInv == LoopInv /\ ReportInv /\ BuyInv /\ SimulateInv /\ OutcomeInv

LEMMA PromiseTypes ==
  ASSUME PromiseInv
  PROVE  /\ IsFiniteSet(accepted) /\ IsFiniteSet(wire) /\ IsFiniteSet(unknown)
         /\ Cardinality(accepted) \in Nat
         /\ Cardinality(wire) \in Nat
         /\ Cardinality(unknown) \in Nat
BY FS_CardinalityType DEF PromiseInv, BuyInv, AllFinite

\* While no answer is awaited every payment is accounted for by a doubt.
LEMMA PaidIsDoubted ==
  ASSUME PromiseInv, ~Reported, ~(pc = "answer" /\ reply # "error")
  PROVE  Cardinality(accepted) <= Cardinality(unknown)
<1>1. Slot = 0
  BY DEF Slot, PromiseInv, BuyInv, AnsweredInv
<1>2. QED
  BY <1>1, PromiseTypes DEF PromiseInv, BuyInv, CountInv

\* A buy ends without a submission: a report of BuyPromise.
LEMMA EndsUnsold ==
  ASSUME PromiseInv, pc \in {"start", "tip", "blockhash", "answer", "backoff"},
         pc = "answer" => reply = "error",
         Told' \in {"Simulated", "Dropped", "cancelled"},
         Told' = "Simulated" <=> mode = "DryRun",
         UNCHANGED <<mode, accepted, unknown>>
  PROVE  Promise!Next
<1>1. Told = "none" /\ ~Reported
  BY DEF Told, PromiseInv, OutcomeInv, Reported, Named
<1>2. Cardinality(accepted) <= Cardinality(unknown)
  BY <1>1, PaidIsDoubted
<1>3. Promise!Report
  BY <1>1, <1>2
     DEF Promise!Report, Promise!Reports, Promise!Submitted, Promise!Named, Told
<1>4. QED
  BY <1>3 DEF Promise!Next

\* The current attempt is given up without an answer: a doubt of BuyPromise.
LEMMA GivesUp ==
  ASSUME PromiseInv, pc = "answer", unknown' = unknown \cup {attempt},
         Told' \in {"none", "Dropped", "cancelled"}, UNCHANGED <<mode, accepted>>
  PROVE  Promise!Next
<1>1. Told = "none" /\ mode # "DryRun"
  BY DEF Told, PromiseInv, OutcomeInv, SimulateInv, DryRunInv
<1>2. attempt \in Tries /\ unknown \subseteq Tries /\ attempt \notin unknown
  BY ExecutorAssumption
     DEF PromiseInv, LoopInv, TypeOK, BuyInv, UnknownInv, Tries, Attempts, Direct
<1>3. IsFiniteSet(unknown') /\ Cardinality(unknown') = Cardinality(unknown) + 1
  BY <1>2, PromiseTypes, FS_AddElement
<1>4. Cardinality(unknown') <= MaxBundleRetries + 2
  <2>1. Tries = 0 .. MaxBundleRetries + 1
    BY ExecutorAssumption DEF Tries, Attempts, Direct
  <2>2. IsFiniteSet(Tries) /\ Cardinality(Tries) = MaxBundleRetries + 2
    <3>1. MaxBundleRetries + 1 \in Int /\ ~(0 > MaxBundleRetries + 1)
          /\ (MaxBundleRetries + 1) - 0 + 1 = MaxBundleRetries + 2
      BY ExecutorAssumption
    <3>2. QED
      BY <2>1, <3>1, FS_Interval
  <2>3. unknown' \in SUBSET Tries
    BY <1>2
  <2>4. QED
    BY <2>2, <2>3, FS_Subset
<1>5. Cardinality(unknown) < MaxBundleRetries + 2
  BY <1>3, <1>4, PromiseTypes, ExecutorAssumption
<1>6. Promise!Doubt
  BY <1>1, <1>3, <1>5 DEF Promise!Doubt, Told
<1>7. QED
  BY <1>6 DEF Promise!Next

\* A request is accepted: a payment of BuyPromise, unless the same transaction
\* was accepted before.
LEMMA Pays ==
  ASSUME PromiseInv, NEW r \in wire, accepted' = accepted \cup {r.tx},
         UNCHANGED <<mode, pc, outcome, unknown>>
  PROVE  [Promise!Next]_(Promise!vars)
<1>1. Told' = Told
  BY DEF Told
<1>2. CASE r.tx \in accepted
  BY <1>1, <1>2 DEF Promise!vars, Told
<1>3. CASE r.tx \notin accepted
  <2>1. Cardinality(accepted') = Cardinality(accepted) + 1
    BY <1>3, PromiseTypes, FS_AddElement
  <2>2. mode # "DryRun" /\ Told # "Simulated"
    BY DEF Told, PromiseInv, OutcomeInv, SimulateInv, DryRunInv
  <2>3. Cardinality(wire) >= 1
    BY PromiseTypes, FS_EmptySet
  <2>4. Cardinality(accepted) < Cardinality(unknown) + Slot /\ Slot \in 0 .. 1
    BY <2>3, PromiseTypes DEF PromiseInv, BuyInv, CountInv, Slot
  <2>5. Slot = 1 => Told \in Promise!Submitted \cup {"none"}
    BY DEF Slot, Reported, Named, Told, PromiseInv, OutcomeInv, Promise!Submitted,
           Promise!Named
  <2>6. Cardinality(accepted) < Promise!Covered
    BY <2>4, <2>5, PromiseTypes DEF Promise!Covered, Told
  <2>7. Promise!Pay
    BY <1>1, <2>1, <2>2, <2>6 DEF Promise!Pay, Told
  <2>8. QED
    BY <2>7 DEF Promise!Next
<1>4. QED
  BY <1>2, <1>3

LEMMA PromiseStep == PromiseInv /\ [Next]_vars => [Promise!Next]_(Promise!vars)
<1> SUFFICES ASSUME PromiseInv, [Next]_vars
             PROVE  [Promise!Next]_(Promise!vars)
  OBVIOUS
<1>0. outcome # "none" <=> pc = "done"
  BY DEF PromiseInv, OutcomeInv
<1>a. UNCHANGED <<mode, accepted, unknown>> /\ Told' = Told => UNCHANGED Promise!vars
  BY DEF Promise!vars, Told
<1>1. CASE Begin
  <2>1. UNCHANGED <<mode, accepted, unknown>> /\ pc = "start"
    BY <1>1 DEF Begin, envVars
  <2>2. CASE mode = "DryRun"
    BY <1>1, <2>1, <2>2, EndsUnsold DEF Begin, Return, Told
  <2>3. CASE mode # "DryRun"
    BY <1>1, <1>a, <2>1, <2>3 DEF Begin, Told
  <2>4. QED
    BY <2>2, <2>3
<1>2. ASSUME pc \in {"tip", "blockhash", "answer"}, pc = "answer" => reply = "error",
             Fail, UNCHANGED <<mode, accepted, unknown>>
      PROVE  [Promise!Next]_(Promise!vars)
  <2>1. mode # "DryRun"
    BY <1>2 DEF PromiseInv, SimulateInv, DryRunInv
  <2>2. CASE attempt = Direct
    BY <1>2, <2>1, <2>2, EndsUnsold DEF Fail, Return, Told
  <2>3. CASE attempt # Direct
    BY <1>2, <1>a, <2>3 DEF Fail, Told
  <2>4. QED
    BY <2>2, <2>3
<1>3. CASE PickTip
  BY <1>2, <1>3, <1>a DEF PickTip, Told, envVars
<1>4. CASE SendBundle \/ SendDirect
  BY <1>4, <1>a DEF SendBundle, SendDirect, Send, Told
<1>5. CASE BlockhashError \/ AnswerError
  BY <1>2, <1>5 DEF BlockhashError, AnswerError, envVars
<1>6. CASE AnswerOk
  <2>1. /\ pc = "answer" /\ reply \in {"ok", "blank"}
        /\ UNCHANGED <<mode, accepted, unknown>>
        /\ Told = "none" /\ Told' \in Promise!Submitted
        /\ Told' \in Promise!Named => reply = "ok" \/ attempt = Direct
    BY <1>0, <1>6
       DEF AnswerOk, Return, envVars, Told, Promise!Submitted, Promise!Named
  <2>2. mode # "DryRun"
    BY <2>1 DEF PromiseInv, SimulateInv, DryRunInv
  <2>3. Told' \in Promise!Named => tx \in accepted
    BY <2>1 DEF PromiseInv, ReportInv, AnswerInv, BlankInv
  <2>4. Told' \in Promise!Named => Cardinality(accepted) >= 1
    BY <2>3, PromiseTypes, FS_EmptySet
  <2>5. Promise!Report
    BY <2>1, <2>2, <2>4
       DEF Promise!Report, Promise!Reports, Promise!Submitted, Promise!Named, Told
  <2>6. QED
    BY <2>5 DEF Promise!Next
<1>7. CASE AnswerLost
  BY <1>0, <1>7, GivesUp DEF AnswerLost, Fail, Return, Told, envVars
<1>8. CASE Retry
  BY <1>8, <1>a DEF Retry, Told, envVars
<1>9. CASE Cancel
  <2>1. CASE pc = "answer"
    BY <1>9, <2>1, GivesUp DEF Cancel, Told, envVars
  <2>2. CASE pc # "answer"
    <3>1. mode # "DryRun"
      BY <1>9 DEF Cancel, Suspended, PromiseInv, SimulateInv, DryRunInv
    <3>2. QED
      BY <1>9, <2>2, <3>1, EndsUnsold DEF Cancel, Suspended, Told, envVars
  <2>3. QED
    BY <2>1, <2>2
<1>10. ASSUME NEW r \in wire, Accept(r)
       PROVE  [Promise!Next]_(Promise!vars)
  BY <1>10, Pays DEF Accept, callVars
<1>11. ASSUME NEW r \in wire, Refuse(r) \/ Lose(r)
       PROVE  UNCHANGED Promise!vars
  BY <1>11, <1>a DEF Refuse, Lose, callVars, Told
<1>12. CASE NewBlockhash \/ DropBundle \/ UNCHANGED vars
  BY <1>12, <1>a DEF NewBlockhash, DropBundle, callVars, envVars, vars, Told
<1>13. QED
  BY <1>1, <1>3, <1>4, <1>5, <1>6, <1>7, <1>8, <1>9, <1>10, <1>11, <1>12
     DEF Next, BuyStep, Environment

\* The safety of the promise: through retries, the fallback, late deliveries and
\* cancellation every payment is accounted for by the report or by an answer that
\* never came, and a simulated buy pays nothing.
THEOREM PromiseIsSafe == Spec => Promise!Safety
<1>1. Init => Promise!Init
  BY FS_EmptySet DEF Init, Promise!Init
<1>2. Spec => []PromiseInv
  BY LoopInvariance, ReportInvariance, BuyInvariance, OutcomeInvariance, PTL DEF PromiseInv
<1>3. QED
  BY <1>1, <1>2, PromiseStep, PTL DEF Spec, Promise!Safety
=============================================================================
