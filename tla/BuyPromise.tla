----------------------------- MODULE BuyPromise -----------------------------
(***************************************************************************)
(* What a buy promises whoever called it, whatever the network does: how   *)
(* often the wallet may have paid, given how many answers told nothing, and*)
(* what the report then means.  The retries, the tip accounts, the bundle  *)
(* and the fallback are not part of the promise.                           *)
(***************************************************************************)
EXTENDS Integers

CONSTANT Tries  \* the most requests one buy may send

VARIABLES
  dry,     \* the bot runs with --simulate
  paid,    \* transactions of this buy that were accepted
  doubts,  \* requests given up without an answer that tells their fate
  report   \* "none", then what buy() returned, or "cancelled"

vars == <<dry, paid, doubts, report>>

\* A submission is named by the server, or buy() has no name for it.
Named == {"BundleSubmitted", "DirectSubmitted"}
Submitted == Named \cup {"BundleUnknown"}
Reports == Submitted \cup {"Simulated", "Dropped", "cancelled"}

Init == dry \in BOOLEAN /\ paid = 0 /\ doubts = 0 /\ report = "none"

\* The payments that are accounted for: one for each doubt, and one more while
\* an answer may still come or after a submission was reported.
Covered == doubts + (IF report \in Submitted \cup {"none"} THEN 1 ELSE 0)

\* A request is accepted, perhaps long after the buy has returned.
Pay ==
  /\ ~dry /\ report # "Simulated"
  /\ paid < Covered
  /\ paid' = paid + 1
  /\ UNCHANGED <<dry, doubts, report>>

\* The buy gives up on an answer, and goes on or not.
Doubt ==
  /\ ~dry /\ report = "none"
  /\ doubts < Tries
  /\ doubts' = doubts + 1
  /\ report' \in {"none", "Dropped", "cancelled"}
  /\ UNCHANGED <<dry, paid>>

\* A report of a named submission has a payment behind it, one without a name
\* promises none, and any other leaves no payment that a doubt does not account for.
Report ==
  /\ report = "none"
  /\ report' \in Reports
  /\ report' = "Simulated" <=> dry
  /\ report' \in Named => paid >= 1
  /\ report' \notin Submitted => paid <= doubts
  /\ UNCHANGED <<dry, paid, doubts>>

Next == Pay \/ Doubt \/ Report

Safety == Init /\ [][Next]_vars

\* And it does return.
Spec == Safety /\ <>(report # "none")
=============================================================================
