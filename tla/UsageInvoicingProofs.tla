------------------------ MODULE UsageInvoicingProofs ------------------------
(***************************************************************************)
(* Proofs about UsageInvoicing that hold for any usage, any prices, any    *)
(* generators and any bounds: what the ledger's stamp and the threshold    *)
(* lock guarantee, that every row keeps its shape and every amount is a    *)
(* number, that an invoice asks for the sum of its lines, and for no more  *)
(* than all usage costs.  At the end, what UsageRating computes for any    *)
(* usage and any prices.                                                   *)
(***************************************************************************)
EXTENDS UsageInvoicing, Sums, TLAPS

\* The steps that do not touch a billing run, its lock, the block or the orphans.
QuietStep(g) ==
  \/ ReadUnbilled(g) \/ CalculationFails(g) \/ Begin(g)
  \/ FindInvoice(g) \/ InsertInvoice(g) \/ ItemFails(g) \/ ReadBack(g) \/ Generated(g)
  \/ \E f \in Features : \/ SumUsage(g, f) \/ InsertItem(g, f)
                         \/ MarkFeature(g, f) \/ MarkFails(g, f)
  \/ ReleaseAfterFailure(g) \/ VoidAfterFailure(g) \/ Thrown(g)
  \/ g \in Workflows /\ RunStepAgain(g)
  \/ g \in Manual /\ RequestDies(g)
  \/ g \in Threshold /\ (Evaluate(g) \/ DecidePreview(g) \/ LoadRun(g))
  \/ g \in Threshold /\ (EvaluatorFails(g) \/ LoadFails(g))

\* The other steps of a run that raise for good.
RunStepFails(t) ==
  FailRunFails(t) \/ MarkRunFails(t) \/ DecideFails(t) \/ CollectFails(t) \/ CaughtFails(t)

\* The instance is created, or about to be, and has not ended.
Started(t) == Instance(t) \/ pc[t] = "load"

\* The rows those steps leave alone, and the program counters.
ControlOK ==
  /\ run \in [Threshold -> RunStatus]
  /\ lock \in SUBSET Threshold
  /\ pc \in [Generators -> GeneratorPC]

\* Where such a step may take its generator.
LEMMA QuietControl ==
  ASSUME NEW g \in Generators, ControlOK, QuietStep(g)
  PROVE  /\ UNCHANGED <<run, lock, orphan, block>>
         /\ pc' \in [Generators -> GeneratorPC]
         /\ \A h \in Generators : h # g => pc'[h] = pc[h]
         /\ pc[g] # "done"
         /\ g \in Threshold => (Started(g)' => Started(g))
<1> USE InvoicingAssumption
    DEF ControlOK, Goto, billingRun, Generators, Workflows, GeneratorPC, Instance, Started
<1>1. CASE ReadUnbilled(g) BY <1>1 DEF ReadUnbilled
<1>2. CASE CalculationFails(g) BY <1>2 DEF CalculationFails
<1>3. CASE Begin(g) BY <1>3 DEF Begin
<1>4. CASE FindInvoice(g) BY <1>4 DEF FindInvoice
<1>5. CASE InsertInvoice(g) BY <1>5 DEF InsertInvoice
<1>6. CASE ItemFails(g) BY <1>6 DEF ItemFails
<1>7. CASE ReadBack(g) BY <1>7 DEF ReadBack
<1>8. CASE Generated(g) BY <1>8 DEF Generated
<1>9. CASE \E f \in Features : SumUsage(g, f) BY <1>9 DEF SumUsage
<1>10. CASE \E f \in Features : InsertItem(g, f) BY <1>10 DEF InsertItem
<1>11. CASE \E f \in Features : MarkFeature(g, f) BY <1>11 DEF MarkFeature
<1>12. CASE \E f \in Features : MarkFails(g, f) BY <1>12 DEF MarkFails
<1>13. CASE ReleaseAfterFailure(g) BY <1>13 DEF ReleaseAfterFailure
<1>14. CASE VoidAfterFailure(g) BY <1>14 DEF VoidAfterFailure
<1>15. CASE Thrown(g) BY <1>15 DEF Thrown
<1>16. CASE g \in Workflows /\ RunStepAgain(g) BY <1>16 DEF RunStepAgain
<1>17. CASE g \in Manual /\ RequestDies(g) BY <1>17 DEF RequestDies, AtRest
<1>18. CASE g \in Threshold /\ Evaluate(g) BY <1>18 DEF Evaluate
<1>19. CASE g \in Threshold /\ DecidePreview(g)
  <2>1. /\ pc[g] = "preview_sum"
        /\ \E to \in {"create_run", "done"} : pc' = [pc EXCEPT ![g] = to]
    BY <1>19 DEF DecidePreview
  <2>2. UNCHANGED <<run, lock, orphan, block>> BY <1>19 DEF DecidePreview
  <2> QED BY <2>1, <2>2
<1>20. CASE g \in Threshold /\ LoadRun(g)
  <2>1. /\ pc[g] = "load"
        /\ \E to \in {"mark_run", "done"} : pc' = [pc EXCEPT ![g] = to]
    BY <1>20 DEF LoadRun
  <2>2. UNCHANGED <<run, lock, orphan, block>> BY <1>20 DEF LoadRun
  <2> QED BY <2>1, <2>2
<1>21. CASE g \in Threshold /\ EvaluatorFails(g) BY <1>21 DEF EvaluatorFails
<1>22. CASE g \in Threshold /\ LoadFails(g) BY <1>22 DEF LoadFails
<1> QED BY <1>1, <1>2, <1>3, <1>4, <1>5, <1>6, <1>7, <1>8, <1>9, <1>10, <1>11, <1>12,
           <1>13, <1>14, <1>15, <1>16, <1>17, <1>18, <1>19, <1>20, <1>21, <1>22 DEF QuietStep

\* Where a run that raises for good may take its workflow, and what it may write.
Stumbles == {<<"mark_run", "caught">>, <<"sum", "caught">>, <<"collect", "collect_caught">>,
             <<"caught", "lost">>, <<"collect_caught", "lost">>, <<"done", "lost">>}

LEMMA RunStumbles ==
  ASSUME NEW t \in Threshold, RunStepFails(t)
  PROVE  /\ UNCHANGED <<ledger, key, total, lines, window, releasing, generator>>
         /\ faults' = faults + 1
         /\ \E to : /\ pc' = [pc EXCEPT ![t] = to]
                    /\ to # pc[t] => <<pc[t], to>> \in Stumbles
                    /\ to = pc[t] => UNCHANGED <<run, lock, block, status>> /\ t \in orphan
         /\ status' = status \/ status' = [status EXCEPT ![target[t]] = "paid"]
         /\ \/ UNCHANGED <<run, lock>>
            \/ run' = [run EXCEPT ![t] = "processing"] /\ UNCHANGED lock /\ pc[t] = "mark_run"
            \/ /\ pc[t] \in {"mark_run", "sum", "collect", "caught", "collect_caught"}
               /\ \E st \in {"completed", "deferred", "failed", "blocked"} : EndRun(t, st)
         /\ orphan' \in {orphan, orphan \ {t}}
         /\ \/ block' \in {block, NoBlock}
            \/ /\ pc[t] \in {"collect", "caught", "collect_caught"}
               /\ block' \in {<<target[t], t>>, <<NoInvoice, t>>}
<1> DEFINE Moves(to) == /\ pc' = [pc EXCEPT ![t] = to]
                        /\ to # pc[t] => <<pc[t], to>> \in Stumbles
                        /\ to = pc[t] => UNCHANGED <<run, lock, block, status>> /\ t \in orphan
           Runs == \/ UNCHANGED <<run, lock>>
                   \/ run' = [run EXCEPT ![t] = "processing"] /\ UNCHANGED lock /\ pc[t] = "mark_run"
                   \/ /\ pc[t] \in {"mark_run", "sum", "collect", "caught", "collect_caught"}
                      /\ \E st \in {"completed", "deferred", "failed", "blocked"} : EndRun(t, st)
           Blocks == \/ block' \in {block, NoBlock}
                     \/ /\ pc[t] \in {"collect", "caught", "collect_caught"}
                        /\ block' \in {<<target[t], t>>, <<NoInvoice, t>>}
           Pays == status' = status \/ status' = [status EXCEPT ![target[t]] = "paid"]
<1>0. /\ UNCHANGED <<ledger, key, total, lines, window, releasing, generator>>
      /\ faults' = faults + 1 /\ orphan' \in {orphan, orphan \ {t}}
  BY DEF RunStepFails, FailRunFails, MarkRunFails, DecideFails, CollectFails, CaughtFails, Fault,
         invoice
<1>1. \E to : Moves(to)
  <2>1. CASE FailRunFails(t)
    <3>1. UNCHANGED <<run, lock, block, status>> /\ t \in orphan BY <2>1 DEF FailRunFails, invoice
    <3>2. CASE pc[t] = "done"
      <4>1. pc' = [pc EXCEPT ![t] = "lost"] BY <2>1, <3>2 DEF FailRunFails
      <4>2. Moves("lost") BY <3>2, <4>1 DEF Stumbles
      <4> QED BY <4>2
    <3>3. CASE pc[t] # "done"
      <4>1. pc' = [pc EXCEPT ![t] = pc[t]] BY <2>1, <3>3 DEF FailRunFails
      <4>2. Moves(pc[t]) BY <3>1, <4>1
      <4> QED BY <4>2
    <3> QED BY <3>2, <3>3
  <2>2. CASE MarkRunFails(t) \/ DecideFails(t)
    <3>1. pc[t] \in {"mark_run", "sum"} /\ pc' = [pc EXCEPT ![t] = "caught"]
      BY <2>2 DEF MarkRunFails, DecideFails, Goto
    <3>2. Moves("caught") BY <3>1 DEF Stumbles
    <3> QED BY <3>2
  <2>3. CASE CollectFails(t)
    <3>1. pc[t] = "collect" /\ pc' = [pc EXCEPT ![t] = "collect_caught"]
      BY <2>3 DEF CollectFails, Goto
    <3>2. Moves("collect_caught") BY <3>1 DEF Stumbles
    <3> QED BY <3>2
  <2>4. CASE CaughtFails(t)
    <3>1. pc[t] \in {"caught", "collect_caught"} /\ pc' = [pc EXCEPT ![t] = "lost"]
      BY <2>4 DEF CaughtFails, Goto
    <3>2. Moves("lost") BY <3>1 DEF Stumbles
    <3> QED BY <3>2
  <2> QED BY <2>1, <2>2, <2>3, <2>4 DEF RunStepFails
<1>2. Runs
  <2>1. CASE FailRunFails(t) BY <2>1 DEF FailRunFails
  <2>2. CASE MarkRunFails(t) BY <2>2 DEF MarkRunFails, Goto
  <2>3. CASE DecideFails(t) BY <2>3 DEF DecideFails, Goto
  <2>4. CASE CollectFails(t) BY <2>4 DEF CollectFails, Collected, Goto
  <2>5. CASE CaughtFails(t) BY <2>5 DEF CaughtFails, Goto
  <2> QED BY <2>1, <2>2, <2>3, <2>4, <2>5 DEF RunStepFails
<1>3. Blocks
  <2>1. CASE FailRunFails(t) \/ MarkRunFails(t) \/ DecideFails(t)
    BY <2>1 DEF FailRunFails, MarkRunFails, DecideFails
  <2>2. CASE CollectFails(t) BY <2>2 DEF CollectFails, Collected, Goto
  <2>3. CASE CaughtFails(t) BY <2>3 DEF CaughtFails, CaughtInvoice, Goto
  <2> QED BY <2>1, <2>2, <2>3 DEF RunStepFails
<1>4. Pays
  <2>1. CASE CollectFails(t) BY <2>1 DEF CollectFails, Collected
  <2> QED BY <2>1 DEF RunStepFails, FailRunFails, MarkRunFails, DecideFails, CaughtFails, invoice
<1> HIDE DEF Moves
<1>5. PICK to : Moves(to) BY <1>1
<1> QED BY <1>0, <1>2, <1>3, <1>4, <1>5 DEF Moves

\* Every step is one of those, a decision, one that writes a run, or somebody else's.
LEMMA NextCases ==
  ASSUME [Next]_vars
  PROVE  \/ \E g \in Generators : QuietStep(g) \/ Decide(g)
         \/ \E t \in Threshold : CreateRun(t) \/ CreateWorkflow(t) \/ FailRun(t) \/ MarkRun(t)
         \/ \E w \in Workflows : Collect(w) \/ Caught(w)
         \/ \E t \in Threshold : RunStepFails(t)
         \/ \E i \in Invoices : PayInvoice(i) \/ StartRelease(i) \/ FinishRelease(i)
         \/ \E r \in Records : Track(r) \/ Arrive(r)
         \/ UNCHANGED vars
<1> USE DEF Generators, Workflows
<1>2. ASSUME NEW t \in Threshold, ThresholdStart(t)
      PROVE  CreateRun(t) \/ CreateWorkflow(t) \/ MarkRun(t) \/ QuietStep(t)
  BY <1>2 DEF ThresholdStart, QuietStep
<1>3. ASSUME NEW g \in Generators, Begin(g) \/ Generate(g) \/ GenerateFault(g)
      PROVE  QuietStep(g) \/ Decide(g)
  BY <1>3 DEF Generate, GenerateFault, QuietStep
<1>4. ASSUME NEW w \in Workflows, RunStepAgain(w) PROVE QuietStep(w) BY <1>4 DEF QuietStep
<1>5. ASSUME NEW m \in Manual, RequestDies(m) PROVE QuietStep(m) BY <1>5 DEF QuietStep
<1>6. ASSUME NEW t \in Threshold, RunFault(t) PROVE QuietStep(t) \/ RunStepFails(t)
  BY <1>6 DEF RunFault, QuietStep, RunStepFails
<1> QED BY <1>2, <1>3, <1>4, <1>5, <1>6 DEF Next, Finished

\* Every step is one of those, one that writes a run, or leaves the
\* generators alone.
LEMMA StepCases ==
  ASSUME [Next]_vars
  PROVE  \/ \E g \in Generators : QuietStep(g) \/ Decide(g)
         \/ \E t \in Threshold : CreateRun(t) \/ CreateWorkflow(t) \/ FailRun(t) \/ MarkRun(t)
         \/ \E w \in Workflows : Collect(w) \/ Caught(w)
         \/ \E t \in Threshold : RunStepFails(t)
         \/ \E i \in Invoices : PayInvoice(i) \/ FinishRelease(i)
         \/ UNCHANGED <<run, lock, orphan, block, pc>>
<1>1. ASSUME NEW r \in Records, Track(r) \/ Arrive(r)
      PROVE  UNCHANGED <<run, lock, orphan, block, pc>>
  BY <1>1 DEF Track, Arrive, billingRun
<1>2. ASSUME NEW i \in Invoices, StartRelease(i)
      PROVE  UNCHANGED <<run, lock, orphan, block, pc>>
  BY <1>2 DEF StartRelease, billingRun
<1>3. CASE UNCHANGED vars BY <1>3 DEF vars, billingRun
<1> QED BY <1>1, <1>2, <1>3, NextCases

-----------------------------------------------------------------------------
(* The lock belongs to an active run, whatever fails.                          *)

LockInv == ControlOK /\ LockMeansActive

\* Ending a run takes it from the lock.
LEMMA EndRunKeepsLockInv ==
  ASSUME LockInv, NEW g \in Generators, NEW st \in RunStatus, EndRun(g, st)
  PROVE  /\ run' \in [Threshold -> RunStatus] /\ lock' \in SUBSET Threshold
         /\ LockMeansActive'
BY DEF LockInv, ControlOK, LockMeansActive, EndRun

LEMMA EndBlockKeepsLockInv ==
  ASSUME LockInv, NEW i, NEW st \in RunStatus, EndBlock(i, st)
  PROVE  /\ run' \in [Threshold -> RunStatus] /\ lock' \in SUBSET Threshold
         /\ LockMeansActive'
BY DEF LockInv, ControlOK, LockMeansActive, EndBlock

LEMMA LockInvStep ==
  ASSUME LockInv, [Next]_vars
  PROVE  LockInv'
<1> USE DEF Generators, Workflows
<1>1. ASSUME NEW g \in Generators, QuietStep(g) PROVE LockInv'
  <2>1. ControlOK BY DEF LockInv
  <2>2. UNCHANGED <<run, lock>> /\ pc' \in [Generators -> GeneratorPC]
    BY <1>1, <2>1, QuietControl
  <2> QED BY <2>2 DEF LockInv, ControlOK, LockMeansActive
<1>2. ASSUME NEW g \in Generators, Decide(g) PROVE LockInv'
  <2>1. pc' \in [Generators -> GeneratorPC]
    BY <1>2 DEF Decide, Goto, LockInv, ControlOK, GeneratorPC
  <2>2. UNCHANGED <<run, lock>> \/ \E st \in {"completed", "deferred"} : EndRun(g, st)
    BY <1>2 DEF Decide
  <2>3. CASE UNCHANGED <<run, lock>> BY <2>1, <2>3 DEF LockInv, ControlOK, LockMeansActive
  <2>4. ASSUME NEW st \in {"completed", "deferred"}, EndRun(g, st) PROVE LockInv'
    <3>1. st \in RunStatus BY DEF RunStatus
    <3> QED BY <2>1, <2>4, <3>1, EndRunKeepsLockInv DEF LockInv, ControlOK
  <2> QED BY <2>2, <2>3, <2>4
<1>3. ASSUME NEW t \in Threshold, CreateRun(t) PROVE LockInv'
  BY <1>3 DEF CreateRun, Goto, LockInv, ControlOK, LockMeansActive, GeneratorPC, RunStatus
<1>4. ASSUME NEW t \in Threshold, CreateWorkflow(t) PROVE LockInv'
  BY <1>4 DEF CreateWorkflow, Goto, LockInv, ControlOK, LockMeansActive, GeneratorPC
<1>5. ASSUME NEW t \in Threshold, FailRun(t) PROVE LockInv'
  <2>1. EndRun(t, "failed") /\ UNCHANGED pc BY <1>5 DEF FailRun
  <2>2. "failed" \in RunStatus BY DEF RunStatus
  <2> QED BY <2>1, <2>2, EndRunKeepsLockInv DEF LockInv, ControlOK
<1>6. ASSUME NEW t \in Threshold, MarkRun(t) PROVE LockInv'
  <2>1. pc' \in [Generators -> GeneratorPC]
    BY <1>6 DEF MarkRun, Goto, LockInv, ControlOK, GeneratorPC
  <2>2. CASE run' = [run EXCEPT ![t] = "processing"] /\ UNCHANGED lock
    BY <2>1, <2>2 DEF LockInv, ControlOK, LockMeansActive, RunStatus
  <2>3. CASE EndRun(t, "failed")
    <3>1. "failed" \in RunStatus BY DEF RunStatus
    <3> QED BY <2>1, <2>3, <3>1, EndRunKeepsLockInv DEF LockInv, ControlOK
  <2> QED BY <1>6, <2>2, <2>3 DEF MarkRun
<1>7. ASSUME NEW w \in Workflows, Collect(w) \/ Caught(w) PROVE LockInv'
  <2>1. pc' \in [Generators -> GeneratorPC]
    BY <1>7 DEF Collect, Caught, Goto, LockInv, ControlOK, GeneratorPC
  <2>2. PICK st \in {"completed", "blocked"} : EndRun(w, st)
    BY <1>7 DEF Collect, Collected, Caught
  <2>3. st \in RunStatus BY DEF RunStatus
  <2> QED BY <2>1, <2>2, <2>3, EndRunKeepsLockInv DEF LockInv, ControlOK
<1>8. ASSUME NEW i \in Invoices, PayInvoice(i) \/ FinishRelease(i) PROVE LockInv'
  <2>1. UNCHANGED pc BY <1>8 DEF PayInvoice, FinishRelease
  <2>2. PICK st \in {"completed", "deferred"} : EndBlock(i, st)
    BY <1>8 DEF PayInvoice, FinishRelease
  <2>3. st \in RunStatus BY DEF RunStatus
  <2> QED BY <2>1, <2>2, <2>3, EndBlockKeepsLockInv DEF LockInv, ControlOK
<1>9. CASE UNCHANGED <<run, lock, orphan, block, pc>>
  BY <1>9 DEF LockInv, ControlOK, LockMeansActive
<1>10. ASSUME NEW t \in Threshold, RunStepFails(t) PROVE LockInv'
  <2>1. pc' \in [Generators -> GeneratorPC]
    BY <1>10 DEF RunStepFails, FailRunFails, MarkRunFails, DecideFails, CollectFails, CaughtFails,
                 Goto, LockInv, ControlOK, GeneratorPC
  <2>2. \/ UNCHANGED <<run, lock>>
        \/ run' = [run EXCEPT ![t] = "processing"] /\ UNCHANGED lock
        \/ \E st \in {"completed", "deferred", "failed", "blocked"} : EndRun(t, st)
    BY <1>10 DEF RunStepFails, FailRunFails, MarkRunFails, DecideFails, CollectFails, CaughtFails,
                 Collected
  <2>3. CASE UNCHANGED <<run, lock>> BY <2>1, <2>3 DEF LockInv, ControlOK, LockMeansActive
  <2>4. CASE run' = [run EXCEPT ![t] = "processing"] /\ UNCHANGED lock
    BY <2>1, <2>4 DEF LockInv, ControlOK, LockMeansActive, RunStatus
  <2>5. ASSUME NEW st \in {"completed", "deferred", "failed", "blocked"}, EndRun(t, st)
        PROVE  LockInv'
    <3>1. st \in RunStatus BY DEF RunStatus
    <3> QED BY <2>1, <2>5, <3>1, EndRunKeepsLockInv DEF LockInv, ControlOK
  <2> QED BY <2>2, <2>3, <2>4, <2>5
<1> QED BY StepCases, <1>1, <1>2, <1>3, <1>4, <1>5, <1>6, <1>7, <1>8, <1>9, <1>10

LEMMA ControlInit == Init => ControlOK /\ LockMeansActive
BY DEF Init, ControlOK, LockMeansActive, RunStatus, GeneratorPC, Generators, Workflows

(* Only an active run holds the customer's lock, whatever fails: every path   *)
(* that ends a run, from the workflow or from a payment or release of its     *)
(* invoice, clears active_lock_key with it.                                   *)
THEOREM LockHeldByActive == Spec => []LockMeansActive
<1>1. Init => LockInv BY ControlInit DEF LockInv
<1>2. LockInv /\ [Next]_vars => LockInv' BY LockInvStep
<1>3. LockInv => LockMeansActive BY DEF LockInv
<1> QED BY <1>1, <1>2, <1>3, PTL DEF Spec

-----------------------------------------------------------------------------
(* The lock admits one instance, unless a creation fails ambiguously.         *)

\* Every instance holds the lock, one run holds it at most, and the run that
\* wrote the block has ended: lifting the block frees nobody else's lock.
HolderInv ==
  /\ ControlOK
  /\ orphan = {}
  /\ \A t \in Threshold : Started(t) => t \in lock
  /\ \A s, t \in lock : s = t
  /\ block # NoBlock => block[2] \in Threshold /\ pc[block[2]] = "done"

\* An instance that ends gives up its own lock only.
LEMMA EndKeepsHolderInv ==
  ASSUME HolderInv, NEW w \in Workflows, NEW st \in RunStatus,
         pc' = [pc EXCEPT ![w] = "done"], EndRun(w, st), UNCHANGED orphan,
         \/ UNCHANGED block
         \/ block' = NoBlock
         \/ w \in Threshold /\ block'[2] = w
  PROVE  HolderInv'
<1> USE DEF Generators, Workflows, HolderInv
<1>1. ControlOK' BY DEF ControlOK, EndRun, GeneratorPC
<1>2. lock' = lock \ {w} BY InvoicingAssumption DEF EndRun, ControlOK
<1>3. \A t \in Threshold : Started(t)' => t # w /\ Started(t)
  BY DEF Started, Instance, ControlOK
<1>4. \A t \in Threshold : Started(t)' => t \in lock' BY <1>2, <1>3
<1>5. block' # NoBlock => block'[2] \in Threshold /\ pc'[block'[2]] = "done"
  BY DEF ControlOK
<1> QED BY <1>1, <1>2, <1>4, <1>5

LEMMA HolderInvStep ==
  ASSUME "create" \notin Faults, "run" \notin Faults, HolderInv, [Next]_vars
  PROVE  HolderInv'
<1> USE DEF Generators, Workflows
<1>0. ControlOK BY DEF HolderInv
<1>1. ASSUME NEW g \in Generators, QuietStep(g) PROVE HolderInv'
  <2>1. /\ UNCHANGED <<run, lock, orphan, block>>
        /\ pc' \in [Generators -> GeneratorPC]
        /\ \A h \in Generators : h # g => pc'[h] = pc[h]
        /\ pc[g] # "done"
        /\ g \in Threshold => (Started(g)' => Started(g))
    BY <1>0, <1>1, QuietControl
  <2>2. \A t \in Threshold : Started(t)' => Started(t) BY <2>1 DEF Started, Instance
  <2>3. ControlOK' BY <2>1 DEF HolderInv, ControlOK
  <2> QED BY <2>1, <2>2, <2>3 DEF HolderInv
<1>2. ASSUME NEW g \in Generators, Decide(g) PROVE HolderInv'
  <2>1. CASE Goto(g, "sum", "find") /\ UNCHANGED <<run, lock, orphan, block>>
    <3>1. ControlOK' BY <2>1 DEF HolderInv, ControlOK, Goto, GeneratorPC
    <3>2. \A t \in Threshold : Started(t)' => Started(t)
      BY <1>0, <2>1 DEF Goto, Started, Instance, ControlOK, GeneratorPC
    <3>3. block # NoBlock => block[2] # g BY <2>1 DEF HolderInv, Goto
    <3> QED BY <2>1, <3>1, <3>2, <3>3 DEF HolderInv, Goto, ControlOK
  <2>2. ASSUME Goto(g, "sum", "done"), NEW st \in {"completed", "deferred"}, EndRun(g, st),
               UNCHANGED <<orphan, block>>
        PROVE  HolderInv'
    <3>1. CASE g \in Manual
      <4>1. UNCHANGED <<run, lock>> BY <2>2, <3>1, InvoicingAssumption DEF EndRun
      <4>2. ControlOK' BY <2>2, <4>1 DEF HolderInv, ControlOK, Goto, GeneratorPC
      <4>3. \A t \in Threshold : pc'[t] = pc[t]
        BY <1>0, <2>2, <3>1, InvoicingAssumption DEF Goto, ControlOK
      <4> QED BY <2>2, <4>1, <4>2, <4>3 DEF HolderInv, Started, Instance
    <3>2. CASE g \in Workflows
      <4>1. st \in RunStatus BY DEF RunStatus
      <4> QED BY <2>2, <3>2, <4>1, EndKeepsHolderInv DEF Goto
    <3> QED BY <3>1, <3>2
  <2> QED BY <1>2, <2>1, <2>2 DEF Decide
<1>3. ASSUME NEW t \in Threshold, CreateRun(t) PROVE HolderInv'
  <2>1. ControlOK' BY <1>0, <1>3 DEF CreateRun, Goto, ControlOK, GeneratorPC, RunStatus
  <2>2. pc[t] = "create_run" /\ UNCHANGED <<orphan, block>> BY <1>3 DEF CreateRun
  <2>3. CASE lock = {} /\ Goto(t, "create_run", "create_workflow") /\ lock' = lock \cup {t}
    <3>1. \A s \in Threshold : Started(s)' => s = t
      BY <1>0, <2>3 DEF HolderInv, Started, Instance, Goto, ControlOK
    <3> QED BY <1>0, <2>1, <2>2, <2>3, <3>1 DEF HolderInv, Goto, ControlOK
  <2>4. CASE Goto(t, "create_run", "done") /\ UNCHANGED lock
    <3>1. \A s \in Threshold : Started(s)' => Started(s)
      BY <1>0, <2>4 DEF Started, Instance, Goto, ControlOK
    <3> QED BY <1>0, <2>1, <2>2, <2>4, <3>1 DEF HolderInv, Goto, ControlOK
  <2> QED BY <1>3, <2>3, <2>4 DEF CreateRun
<1>4. ASSUME NEW t \in Threshold, CreateWorkflow(t) PROVE HolderInv'
  <2>1. Goto(t, "create_workflow", "load") /\ UNCHANGED <<run, lock, orphan, block>>
    BY <1>4 DEF CreateWorkflow, Fault
  <2>2. ControlOK' BY <1>0, <2>1 DEF Goto, ControlOK, GeneratorPC
  <2>3. \A s \in Threshold : Started(s)' => Started(s)
    BY <1>0, <2>1 DEF Started, Instance, Goto, ControlOK, GeneratorPC
  <2> QED BY <1>0, <2>1, <2>2, <2>3 DEF HolderInv, Goto, ControlOK
<1>5. ASSUME NEW t \in Threshold, FailRun(t) PROVE HolderInv'
  BY <1>5 DEF FailRun, HolderInv
<1>6. ASSUME NEW t \in Threshold, MarkRun(t) PROVE HolderInv'
  <2>1. CASE Goto(t, "mark_run", "read") /\ run' = [run EXCEPT ![t] = "processing"]
             /\ UNCHANGED <<lock, orphan, block>>
    <3>1. ControlOK' BY <1>0, <2>1 DEF Goto, ControlOK, GeneratorPC, RunStatus
    <3>2. \A s \in Threshold : Started(s)' => Started(s)
      BY <1>0, <2>1 DEF Started, Instance, Goto, ControlOK, GeneratorPC
    <3> QED BY <1>0, <2>1, <3>1, <3>2 DEF HolderInv, Goto, ControlOK
  <2>2. CASE Goto(t, "mark_run", "done") /\ EndRun(t, "failed") /\ UNCHANGED <<orphan, block>>
    <3>1. "failed" \in RunStatus BY DEF RunStatus
    <3> QED BY <2>2, <3>1, EndKeepsHolderInv DEF Goto
  <2> QED BY <1>6, <2>1, <2>2 DEF MarkRun
<1>7. ASSUME NEW w \in Workflows, Collect(w) \/ Caught(w) PROVE HolderInv'
  <2>1. PICK st \in {"completed", "blocked"} : EndRun(w, st)
    BY <1>7 DEF Collect, Collected, Caught
  <2>2. st \in RunStatus BY DEF RunStatus
  <2>3. pc' = [pc EXCEPT ![w] = "done"] /\ UNCHANGED orphan BY <1>7 DEF Collect, Caught, Goto
  <2>4. \/ UNCHANGED block
        \/ block' = NoBlock
        \/ w \in Threshold /\ block'[2] = w
    BY <1>7 DEF Collect, Collected, Caught
  <2> QED BY <1>0, <2>1, <2>2, <2>3, <2>4, EndKeepsHolderInv DEF HolderInv
<1>8. ASSUME NEW i \in Invoices, PayInvoice(i) \/ FinishRelease(i) PROVE HolderInv'
  <2>1. UNCHANGED <<pc, orphan>> BY <1>8 DEF PayInvoice, FinishRelease
  <2>2. PICK st \in {"completed", "deferred"} : EndBlock(i, st)
    BY <1>8 DEF PayInvoice, FinishRelease
  <2>3. CASE UNCHANGED <<block, run, lock>>
    BY <2>1, <2>3 DEF HolderInv, ControlOK, Started, Instance
  <2>4. CASE /\ block # NoBlock
             /\ block' = NoBlock
             /\ run' = [run EXCEPT ![block[2]] = st]
             /\ lock' = lock \ {block[2]}
    <3>1. ControlOK' BY <2>1, <2>4 DEF HolderInv, ControlOK, RunStatus
    <3>2. \A t \in Threshold : Started(t) => t # block[2]
      BY <2>4 DEF HolderInv, Started, Instance
    <3> QED BY <2>1, <2>4, <3>1, <3>2 DEF HolderInv, Started, Instance
  <2> QED BY <2>2, <2>3, <2>4 DEF EndBlock
<1>9. CASE UNCHANGED <<run, lock, orphan, block, pc>>
  BY <1>9 DEF HolderInv, ControlOK, Started, Instance
<1>10. ASSUME NEW t \in Threshold, RunStepFails(t) PROVE HolderInv'
  BY <1>10 DEF RunStepFails, FailRunFails, MarkRunFails, DecideFails, CollectFails, CaughtFails,
               Fault
<1> QED BY StepCases, <1>1, <1>2, <1>3, <1>4, <1>5, <1>6, <1>7, <1>8, <1>9, <1>10

(* Unless workflow.create or a billing run's own statements raise for good,   *)
(* one threshold workflow of a customer runs at a time, however many          *)
(* evaluations race: the unique active_lock_key and the code that clears it   *)
(* are enough, with every other failure and retry.                            *)
THEOREM OneInstance ==
  ASSUME "create" \notin Faults, "run" \notin Faults
  PROVE  Spec => []OneThresholdInstance
<1>1. Init => HolderInv
  BY ControlInit DEF Init, HolderInv, Started, Instance, Generators, Workflows
<1>2. HolderInv /\ [Next]_vars => HolderInv' BY HolderInvStep
<1>3. HolderInv => OneThresholdInstance BY DEF HolderInv, OneThresholdInstance, Started
<1> QED BY <1>1, <1>2, <1>3, PTL DEF Spec

-----------------------------------------------------------------------------
(* Stamps                                                                      *)

\* markInvoiced writes unbilled records only; a release only clears.
LEMMA StampStep ==
  ASSUME [Next]_vars, NEW r \in Records, stamp[r] # NoInvoice
  PROVE  stamp'[r] \in {stamp[r], NoInvoice}
<1>1. ASSUME NEW g, NEW f PROVE Stamped(g, f)[r] = stamp[r] BY DEF Stamped, UnbilledIn
<1>2. ASSUME NEW i, ReleaseUsage(i) PROVE stamp'[r] \in {stamp[r], NoInvoice}
  BY <1>2 DEF ReleaseUsage
<1>3. ASSUME NEW g \in Generators, ReleaseAfterFailure(g)
      PROVE  stamp'[r] \in {stamp[r], NoInvoice}
  BY <1>2, <1>3 DEF ReleaseAfterFailure
<1>4. ASSUME NEW g \in Generators, NEW f \in Features, MarkFeature(g, f) \/ MarkFails(g, f)
      PROVE  stamp'[r] = stamp[r]
  BY <1>1, <1>4 DEF MarkFeature, MarkFails
<1>5. ASSUME NEW i \in Invoices, StartRelease(i) PROVE stamp'[r] \in {stamp[r], NoInvoice}
  BY <1>2, <1>5 DEF StartRelease
<1>6. ASSUME NEW g \in Generators, Generate(g)
      PROVE  stamp'[r] \in {stamp[r], NoInvoice}
  <2> USE DEF ledger
  <2>1. CASE ReadUnbilled(g) \/ Decide(g) \/ FindInvoice(g) \/ InsertInvoice(g)
    BY <2>1 DEF ReadUnbilled, Decide, FindInvoice, InsertInvoice
  <2>2. CASE ReadBack(g) \/ Generated(g) \/ VoidAfterFailure(g) \/ Thrown(g)
    BY <2>2 DEF ReadBack, Generated, VoidAfterFailure, Thrown
  <2>3. CASE \E f \in Features : SumUsage(g, f) \/ InsertItem(g, f)
    BY <2>3 DEF SumUsage, InsertItem
  <2> QED BY <1>3, <1>4, <1>6, <2>1, <2>2, <2>3 DEF Generate
<1>7. ASSUME NEW g \in Generators, Begin(g) \/ GenerateFault(g) PROVE stamp'[r] = stamp[r]
  BY <1>4, <1>7 DEF Begin, GenerateFault, CalculationFails, ItemFails, ledger
<1>8. ASSUME NEW t \in Threshold, ThresholdStart(t) \/ FailRun(t) \/ RunFault(t)
      PROVE  stamp' = stamp
  <2>1. CASE ThresholdStart(t) \/ FailRun(t)
    BY <2>1 DEF ThresholdStart, FailRun, Evaluate, DecidePreview, CreateRun, CreateWorkflow,
                LoadRun, MarkRun, ledger
  <2>2. CASE RunFault(t)
    BY <2>2 DEF RunFault, EvaluatorFails, FailRunFails, LoadFails, MarkRunFails, DecideFails,
                CollectFails, CaughtFails, ledger
  <2> QED BY <1>8, <2>1, <2>2
<1>9. ASSUME NEW w \in Workflows, Collect(w) \/ Caught(w) \/ RunStepAgain(w)
      PROVE  stamp' = stamp
  BY <1>9 DEF Collect, Caught, RunStepAgain, ledger
<1>10. ASSUME NEW m \in Manual, RequestDies(m) PROVE stamp' = stamp
  BY <1>10 DEF RequestDies, ledger
<1>11. ASSUME NEW i \in Invoices, PayInvoice(i) \/ FinishRelease(i) PROVE stamp' = stamp
  BY <1>11 DEF PayInvoice, FinishRelease, ledger
<1>12. ASSUME NEW q \in Records, Track(q) \/ Arrive(q) PROVE stamp' = stamp
  BY <1>12 DEF Track, Arrive
<1>13. CASE UNCHANGED vars BY <1>13 DEF vars, ledger
<1> QED BY <1>5, <1>6, <1>7, <1>8, <1>9, <1>10, <1>11, <1>12, <1>13 DEF Next, Finished

(* Usage billed by one invoice never passes directly to another, whoever      *)
(* generates, fails or releases: the ledger marks unbilled records only.      *)
THEOREM StampsStay == Spec => StampStays
<1>1. [Next]_vars =>
        [\A r \in Records : stamp[r] # NoInvoice => stamp'[r] \in {stamp[r], NoInvoice}]_vars
  BY StampStep
<1> QED BY <1>1, PTL DEF Spec, StampStays

-----------------------------------------------------------------------------
(* What a quantity costs is a natural number. *)
Line == [units : Nat, amount : Nat]
Placed(D) == [left : Nat, bound : Nat, lines : [D -> Line]]

\* One round of the loop of GraduatedBreakdown, and the loop as a recursion.
PlaceIn(tiers, acc, i) ==
  LET open == tiers[i].upTo = NoBound \/ i = Len(tiers)
      units == IF open THEN acc.left ELSE Min({acc.left, tiers[i].upTo - acc.bound})
      line == [units |-> units, amount |-> units * tiers[i].unitPrice + tiers[i].flatFee]
  IN [left |-> acc.left - Max({0, units}),
      bound |-> IF open THEN acc.bound ELSE tiers[i].upTo,
      lines |-> IF units > 0 THEN [acc.lines EXCEPT ![i] = line] ELSE acc.lines]
Unplaced(quantity, tiers) ==
  [left |-> quantity, bound |-> 0, lines |-> [i \in DOMAIN tiers |-> NoLine]]
Loop(iter, quantity, tiers, D) ==
  iter = [s \in D |-> IF s = {} THEN Unplaced(quantity, tiers)
                      ELSE PlaceIn(tiers, iter[s \ {Max(s)}], [i \in DOMAIN tiers |-> i][Max(s)])]

LEMMA GraduatedIsLoop ==
  ASSUME NEW quantity, NEW tiers
  PROVE  GraduatedBreakdown(quantity, tiers) =
           (CHOOSE iter : Loop(iter, quantity, tiers, SUBSET (DOMAIN [i \in DOMAIN tiers |-> i])))
             [DOMAIN [i \in DOMAIN tiers |-> i]].lines
BY DEF GraduatedBreakdown, FoldLeftDomain, FoldLeft, MapThenFoldSet, Loop, PlaceIn, Unplaced

LEMMA LoopExists ==
  ASSUME NEW quantity, NEW tiers, NEW D, IsFiniteSet(D), D \subseteq Int
  PROVE  \E iter : Loop(iter, quantity, tiers, SUBSET D)
<1> DEFINE Good == {n \in Nat : \E iter : Loop(iter, quantity, tiers, UpTo(D, n))}
<1>0. \A T \in SUBSET D : IsFiniteSet(T) /\ Cardinality(T) \in Nat
  BY FS_Subset, FS_CardinalityType
<1>1. 0 \in Good
  <2> DEFINE iter == [s \in UpTo(D, 0) |-> Unplaced(quantity, tiers)]
  <2>1. \A s \in UpTo(D, 0) : s = {} BY <1>0, FS_EmptySet DEF UpTo
  <2>2. Loop(iter, quantity, tiers, UpTo(D, 0)) BY <2>1 DEF Loop
  <2> QED BY <2>2
<1>2. ASSUME NEW n \in Good PROVE n + 1 \in Good
  <2> DEFINE next(iter) ==
        [s \in UpTo(D, n + 1) |->
           IF s = {} THEN Unplaced(quantity, tiers)
           ELSE PlaceIn(tiers, iter[s \ {Max(s)}], [i \in DOMAIN tiers |-> i][Max(s)])]
  <2>1. PICK iter : Loop(iter, quantity, tiers, UpTo(D, n)) OBVIOUS
  <2>2. \A s \in UpTo(D, n) : next(iter)[s] = iter[s]
    <3>1. UpTo(D, n) \subseteq UpTo(D, n + 1) BY <1>0 DEF UpTo
    <3> QED BY <2>1, <3>1 DEF Loop
  <2>3. \A s \in UpTo(D, n + 1) : s # {} => s \ {Max(s)} \in UpTo(D, n)
    <3> SUFFICES ASSUME NEW s \in UpTo(D, n + 1), s # {} PROVE s \ {Max(s)} \in UpTo(D, n)
      OBVIOUS
    <3>1. IsFiniteSet(s) /\ Cardinality(s) \in Nat /\ s \in SUBSET Int BY <1>0 DEF UpTo
    <3>2. Max(s) \in s BY <3>1, MaxOf
    <3> DEFINE m == Max(s)
    <3>3. m \in s BY <3>2
    <3> HIDE DEF m
    <3>4. Cardinality(s \ {m}) = Cardinality(s) - 1 BY <3>1, <3>3, FS_RemoveElement
    <3>5. Cardinality(s) <= n + 1 /\ s \ {m} \in SUBSET D BY DEF UpTo
    <3>6. Cardinality(s \ {m}) <= n BY <3>1, <3>4, <3>5
    <3>7. s \ {m} \in UpTo(D, n) BY <3>5, <3>6 DEF UpTo
    <3> QED BY <3>7 DEF m
  <2>4. Loop(next(iter), quantity, tiers, UpTo(D, n + 1))
    <3> DEFINE after == next(iter)
    <3>1. after = next(iter) OBVIOUS
    <3> HIDE DEF after
    <3>2. \A s \in UpTo(D, n + 1) : s # {} => after[s \ {Max(s)}] = iter[s \ {Max(s)}]
      BY <2>2, <2>3, <3>1
    <3>3. \A s \in UpTo(D, n + 1) : s # {} =>
            PlaceIn(tiers, iter[s \ {Max(s)}], [i \in DOMAIN tiers |-> i][Max(s)])
            = PlaceIn(tiers, after[s \ {Max(s)}], [i \in DOMAIN tiers |-> i][Max(s)])
      BY <3>2
    <3>4. next(iter) = [s \in UpTo(D, n + 1) |->
             IF s = {} THEN Unplaced(quantity, tiers)
             ELSE PlaceIn(tiers, after[s \ {Max(s)}], [i \in DOMAIN tiers |-> i][Max(s)])]
      BY <3>3
    <3>5. Loop(after, quantity, tiers, UpTo(D, n + 1)) BY <3>1, <3>4 DEF Loop
    <3> QED BY <3>1, <3>5
  <2> QED BY <2>4
<1>3. Good = Nat
  <2>1. Good \in SUBSET Nat OBVIOUS
  <2> HIDE DEF Good
  <2> QED BY <1>1, <1>2, <2>1, NumberInduction
<1>4. UpTo(D, Cardinality(D)) = SUBSET D BY <1>0, FS_Subset DEF UpTo
<1>5. Cardinality(D) \in Good BY <1>3, <1>0
<1> QED BY <1>4, <1>5

LEMMA PlaceTyped ==
  ASSUME NEW tiers \in Seq(Tier), NEW D, NEW acc \in Placed(D), NEW i \in DOMAIN tiers, i \in D
  PROVE  PlaceIn(tiers, acc, i) \in Placed(D)
<1> DEFINE open == tiers[i].upTo = NoBound \/ i = Len(tiers)
           units == IF open THEN acc.left ELSE Min({acc.left, tiers[i].upTo - acc.bound})
           line == [units |-> units, amount |-> units * tiers[i].unitPrice + tiers[i].flatFee]
<1>1. tiers[i] \in Tier OBVIOUS
<1>2. /\ tiers[i].upTo \in Nat /\ tiers[i].unitPrice \in Nat /\ tiers[i].flatFee \in Nat
  BY <1>1 DEF Tier
<1>3. acc.left \in Nat /\ acc.bound \in Nat /\ acc.lines \in [D -> Line] BY DEF Placed
<1>4. units \in Int /\ units <= acc.left
  <2>1. tiers[i].upTo - acc.bound \in Int BY <1>2, <1>3
  <2>2. Min({acc.left, tiers[i].upTo - acc.bound}) =
          IF acc.left <= tiers[i].upTo - acc.bound THEN acc.left ELSE tiers[i].upTo - acc.bound
    BY <1>3, <2>1, MinOfTwo
  <2> QED BY <1>3, <2>1, <2>2
<1> HIDE DEF units
<1>5. acc.left - Max({0, units}) \in Nat
  <2>1. Max({0, units}) = IF 0 >= units THEN 0 ELSE units BY <1>4, MaxOfTwo
  <2> QED BY <1>3, <1>4, <2>1
<1>6. ASSUME units > 0 PROVE [acc.lines EXCEPT ![i] = line] \in [D -> Line]
  <2>1. units \in Nat BY <1>4, <1>6
  <2>2. units * tiers[i].unitPrice \in Nat BY <1>2, <2>1
  <2>3. line \in Line BY <1>2, <2>1, <2>2 DEF Line
  <2> HIDE DEF line
  <2> QED BY <1>3, <2>3
<1>7. (IF open THEN acc.bound ELSE tiers[i].upTo) \in Nat BY <1>2, <1>3
<1>8. PlaceIn(tiers, acc, i) =
        [left |-> acc.left - Max({0, units}),
         bound |-> IF open THEN acc.bound ELSE tiers[i].upTo,
         lines |-> IF units > 0 THEN [acc.lines EXCEPT ![i] = line] ELSE acc.lines]
  BY DEF PlaceIn, units
<1> HIDE DEF open, line
<1> QED BY <1>3, <1>5, <1>6, <1>7, <1>8 DEF Placed

LEMMA GraduatedTyped ==
  ASSUME NEW tiers \in Seq(Tier), NEW quantity \in Nat
  PROVE  GraduatedBreakdown(quantity, tiers) \in [DOMAIN tiers -> Line]
<1> DEFINE D == DOMAIN tiers
           chosen == CHOOSE iter : Loop(iter, quantity, tiers, SUBSET D)
           Good == {T \in SUBSET D : chosen[T] \in Placed(D)}
<1>1. IsFiniteSet(D) /\ D \subseteq Int
  <2>1. D = 1 .. Len(tiers) /\ Len(tiers) \in Nat OBVIOUS
  <2> QED BY <2>1, FS_Interval
<1>2. DOMAIN [i \in D |-> i] = D OBVIOUS
<1>3. Loop(chosen, quantity, tiers, SUBSET D) BY <1>1, LoopExists
<1>4. GraduatedBreakdown(quantity, tiers) = chosen[D].lines BY <1>2, GraduatedIsLoop
<1> HIDE DEF chosen
<1>5. Unplaced(quantity, tiers) \in Placed(D)
  <2> QED BY DEF Unplaced, Placed, NoLine, Line
<1>6. ASSUME NEW T \in SUBSET D, \A U \in SUBSET T : U # T => U \in Good
      PROVE  T \in Good
  <2>1. CASE T = {} BY <1>3, <1>5, <2>1 DEF Loop
  <2>2. CASE T # {}
    <3>1. Max(T) \in T BY <1>1, <2>2, FS_Subset, MaxOf
    <3>2. chosen[T \ {Max(T)}] \in Placed(D) BY <1>6, <3>1
    <3>3. [i \in D |-> i][Max(T)] = Max(T) /\ Max(T) \in D BY <3>1
    <3>4. chosen[T] = PlaceIn(tiers, chosen[T \ {Max(T)}], Max(T)) BY <1>3, <2>2, <3>3 DEF Loop
    <3> HIDE DEF D
    <3>5. chosen[T] \in Placed(D) BY <3>2, <3>3, <3>4, PlaceTyped DEF D
    <3> QED BY <3>5
  <2> QED BY <2>1, <2>2
<1>7. Good = SUBSET D
  <2>1. Good \in SUBSET (SUBSET D) OBVIOUS
  <2> HIDE DEF Good, D
  <2> QED BY <1>1, <1>6, <2>1, SetDescent
<1>8. chosen[D] \in Placed(D) BY <1>7
<1> QED BY <1>4, <1>8 DEF Placed

LEMMA TierTyped ==
  ASSUME NEW tiers \in Seq(Tier), tiers # <<>>, NEW quantity
  PROVE  TierIndex(quantity, tiers) \in DOMAIN tiers
<1> DEFINE found == {i \in DOMAIN tiers : \/ tiers[i].upTo = NoBound \/ quantity <= tiers[i].upTo
                                          \/ i = Len(tiers)}
<1>1. DOMAIN tiers = 1 .. Len(tiers) /\ Len(tiers) \in Nat /\ Len(tiers) # 0 OBVIOUS
<1>2. found \in SUBSET Int /\ IsFiniteSet(found) /\ found # {} /\ found \subseteq DOMAIN tiers
  <2>1. IsFiniteSet(DOMAIN tiers) BY <1>1, FS_Interval
  <2>2. found \subseteq DOMAIN tiers OBVIOUS
  <2>3. Len(tiers) \in found BY <1>1
  <2>4. IsFiniteSet(found) BY <2>1, <2>2, FS_Subset
  <2> QED BY <1>1, <2>2, <2>3, <2>4
<1>3. TierIndex(quantity, tiers) = Min(found) BY DEF TierIndex
<1> HIDE DEF found
<1>4. Min(found) \in found BY <1>2, MinOf
<1> QED BY <1>2, <1>3, <1>4

LEMMA SumIsTotal ==
  ASSUME NEW D, IsFiniteSet(D), NEW breakdown \in [D -> Line]
  PROVE  Sum(breakdown) = Total([i \in D |-> breakdown[i].amount], D)
<1>1. Sum(breakdown) = MapThenSumSet(LAMBDA i : breakdown[i].amount, D) BY DEF Sum
<1>2. MapThenSumSet(LAMBDA i : breakdown[i].amount, D)
      = Total([i \in D |-> breakdown[i].amount], D)
  BY DEF Total, MapThenSumSet, MapThenFoldSet
<1> QED BY <1>1, <1>2

LEMMA SumTyped ==
  ASSUME NEW D, IsFiniteSet(D), NEW breakdown \in [D -> Line]
  PROVE  Sum(breakdown) \in Nat
<1> DEFINE f == [i \in D |-> breakdown[i].amount]
<1>1. Sum(breakdown) = Total(f, D) BY SumIsTotal
<1>2. \A i \in D : f[i] \in Nat BY DEF Line
<1> HIDE DEF f
<1>3. Total(f, D) \in Nat BY <1>2, TotalType
<1> QED BY <1>1, <1>3

LEMMA QuantityTyped ==
  ASSUME NEW p \in Pricing, NEW usage \in Nat
  PROVE  BillableQuantity(p, usage) \in Nat
<1>1. p.included \in Nat /\ usage - p.included \in Int BY DEF Pricing
<1>2. Max({0, usage - p.included}) = IF 0 >= usage - p.included THEN 0 ELSE usage - p.included
  BY <1>1, MaxOfTwo
<1> QED BY <1>1, <1>2 DEF BillableQuantity

LEMMA PackagesTyped ==
  ASSUME NEW quantity \in Nat, NEW billingUnits \in Nat
  PROVE  Packages(quantity, billingUnits) \in Nat
<1> DEFINE units == Max({1, billingUnits})
<1>1. units \in Nat /\ units >= 1
  <2>1. units = IF 1 >= billingUnits THEN 1 ELSE billingUnits BY MaxOfTwo
  <2> QED BY <2>1
<1>2. Packages(quantity, billingUnits) = (quantity + units - 1) \div units BY DEF Packages
<1> HIDE DEF units
<1>3. quantity + units - 1 \in Nat BY <1>1
<1>4. \A m, n \in Nat : n >= 1 => m \div n \in Nat OBVIOUS
<1> QED BY <1>1, <1>2, <1>3, <1>4

\* What a quantity costs is a natural number.
LEMMA AmountTyped ==
  ASSUME NEW p \in Pricing, NEW usage \in Nat
  PROVE  Amount(p, usage) \in Nat
<1> DEFINE quantity == BillableQuantity(p, usage)
<1>1. quantity \in Nat BY QuantityTyped
<1>2. /\ p.tiers \in Seq(Tier) /\ p.price \in Nat /\ p.billingUnits \in Nat
      /\ p.rating \in {"package", "graduated", "volume"}
  BY DEF Pricing
<1>3. Packages(quantity, p.billingUnits) * p.price \in Nat
  <2>1. Packages(quantity, p.billingUnits) \in Nat BY <1>1, <1>2, PackagesTyped
  <2>2. \A m, n \in Nat : m * n \in Nat OBVIOUS
  <2> QED BY <1>2, <2>1, <2>2
<1>4. ASSUME p.tiers # <<>> PROVE Sum(VolumeBreakdown(quantity, p.tiers)) \in Nat
  <2> DEFINE i == TierIndex(quantity, p.tiers)
             line == [units |-> quantity,
                      amount |-> quantity * p.tiers[i].unitPrice + p.tiers[i].flatFee]
  <2>1. i \in DOMAIN p.tiers BY <1>2, <1>4, TierTyped
  <2>2. VolumeBreakdown(quantity, p.tiers) = [j \in {i} |->
           [units |-> quantity, amount |-> quantity * p.tiers[j].unitPrice + p.tiers[j].flatFee]]
    BY DEF VolumeBreakdown
  <2> HIDE DEF i, quantity
  <2>3. p.tiers[i].unitPrice \in Nat /\ p.tiers[i].flatFee \in Nat
    <3> DEFINE tiers == p.tiers
    <3>1. tiers \in Seq(Tier) /\ i \in DOMAIN tiers BY <1>2, <2>1
    <3> HIDE DEF tiers
    <3>2. tiers[i] \in Tier BY <3>1
    <3>3. tiers[i].unitPrice \in Nat /\ tiers[i].flatFee \in Nat BY <3>2 DEF Tier
    <3> QED BY <3>3 DEF tiers
  <2>4. quantity * p.tiers[i].unitPrice \in Nat BY <1>1, <2>3
  <2>5. line \in Line BY <1>1, <2>3, <2>4 DEF Line
  <2>6. VolumeBreakdown(quantity, p.tiers) \in [{i} -> Line] BY <2>2, <2>5
  <2> QED BY <2>6, SumTyped, FS_Singleton
<1>5. Sum(GraduatedBreakdown(quantity, p.tiers)) \in Nat
  <2>1. IsFiniteSet(DOMAIN p.tiers)
    <3>1. DOMAIN p.tiers = 1 .. Len(p.tiers) /\ Len(p.tiers) \in Nat BY <1>2
    <3> QED BY <3>1, FS_Interval
  <2>2. GraduatedBreakdown(quantity, p.tiers) \in [DOMAIN p.tiers -> Line]
    BY <1>1, <1>2, GraduatedTyped
  <2> QED BY <2>1, <2>2, SumTyped
<1>6. Amount(p, usage) =
        IF quantity = 0 \/ (p.rating # "package" /\ p.tiers = <<>>) THEN 0
        ELSE CASE p.rating = "package" -> Packages(quantity, p.billingUnits) * p.price
               [] p.rating = "volume" -> Sum(VolumeBreakdown(quantity, p.tiers))
               [] p.rating = "graduated" -> Sum(GraduatedBreakdown(quantity, p.tiers))
  BY DEF Amount
<1> HIDE DEF quantity
<1> QED BY <1>2, <1>3, <1>4, <1>5, <1>6

-----------------------------------------------------------------------------
(* What a calculation bills, as a function of what it read.                    *)

RatedOf(c, f) ==
  IF c.unbilled[f] = 0 THEN [quantity |-> 0, amount |-> 0]
  ELSE RateUsageDelta(PricingOf[f], Max({0, c.usage[f] - c.unbilled[f]}), c.usage[f])
BillableOf(c) == {f \in Features : RatedOf(c, f).quantity # 0}
EndOf(c) == IF c.cutoff > 0 THEN c.cutoff ELSE Max({c.last[f] : f \in BillableOf(c)})
TotalOf(c) == Total([f \in Features |-> RatedOf(c, f).amount], BillableOf(c))

LEMMA CalcOf ==
  ASSUME NEW g
  PROVE  /\ \A f : Rated(g, f) = RatedOf(calc[g], f)
         /\ Billable(g) = BillableOf(calc[g])
         /\ WindowEnd(g) = EndOf(calc[g])
         /\ TotalEstimated(g) = TotalOf(calc[g])
<1>1. \A f : Rated(g, f) = RatedOf(calc[g], f) BY DEF Rated, RatedOf
<1>2. Billable(g) = BillableOf(calc[g]) BY <1>1 DEF Billable, BillableOf
<1>3. WindowEnd(g) = EndOf(calc[g]) BY <1>2 DEF WindowEnd, EndOf
<1>4. TotalEstimated(g) = TotalOf(calc[g])
  <2> DEFINE B == BillableOf(calc[g])
             amounts == [f \in Features |-> RatedOf(calc[g], f).amount]
  <2>1. IsFiniteSet(B) BY InvoicingAssumption, FS_Subset DEF BillableOf
  <2>2. TotalEstimated(g) = MapThenSumSet(LAMBDA f : Rated(g, f).amount, B)
    BY <1>2 DEF TotalEstimated
  <2>3. ASSUME NEW D, IsFiniteSet(D), D \subseteq Features
        PROVE  MapThenSumSet(LAMBDA f : Rated(g, f).amount, D)
               = Total([f \in D |-> Rated(g, f).amount], D)
    BY DEF Total, MapThenSumSet, MapThenFoldSet
  <2>4. B \subseteq Features BY DEF BillableOf
  <2>5. \A f \in B : [h \in B |-> Rated(g, h).amount][f] = amounts[f] BY <1>1, <2>4
  <2> HIDE DEF B, amounts
  <2>6. Total([f \in B |-> Rated(g, f).amount], B) = Total(amounts, B) BY <2>1, <2>5, TotalSame
  <2> QED BY <2>1, <2>2, <2>3, <2>4, <2>6 DEF TotalOf, B, amounts
<1> QED BY <1>1, <1>2, <1>3, <1>4

LEMMA InstantsTyped == Cardinality(Records) \in Nat /\ 0 \in Instants /\ Instants \subseteq Nat
BY InvoicingAssumption, FS_CardinalityType DEF Instants

LEMMA RatedTyped ==
  ASSUME NEW c \in Calculation, NEW f \in Features
  PROVE  RatedOf(c, f).quantity \in Int /\ RatedOf(c, f).amount \in Int
<1> DEFINE before == Max({0, c.usage[f] - c.unbilled[f]})
           after == c.usage[f]
<1>1. after \in Nat /\ c.unbilled[f] \in Nat BY DEF Calculation
<1>2. before \in Nat
  <2>1. after - c.unbilled[f] \in Int BY <1>1
  <2>2. before = IF 0 >= after - c.unbilled[f] THEN 0 ELSE after - c.unbilled[f]
    BY <2>1, MaxOfTwo
  <2> QED BY <2>1, <2>2
<1>3. PricingOf[f] \in Pricing BY InvoicingAssumption
<1>4. RatedOf(c, f) = IF c.unbilled[f] = 0 THEN [quantity |-> 0, amount |-> 0]
                      ELSE RateUsageDelta(PricingOf[f], before, after)
  BY DEF RatedOf
<1> HIDE DEF before, after
<1>5. /\ Amount(PricingOf[f], before) \in Nat /\ Amount(PricingOf[f], after) \in Nat
      /\ BillableQuantity(PricingOf[f], before) \in Nat
      /\ BillableQuantity(PricingOf[f], after) \in Nat
  BY <1>1, <1>2, <1>3, AmountTyped, QuantityTyped
<1> QED BY <1>4, <1>5 DEF RateUsageDelta

LEMMA TotalOfTyped ==
  ASSUME NEW c \in Calculation
  PROVE  TotalOf(c) \in Int
<1> DEFINE amounts == [f \in Features |-> RatedOf(c, f).amount]
<1>1. IsFiniteSet(BillableOf(c)) BY InvoicingAssumption, FS_Subset DEF BillableOf
<1>2. \A f \in BillableOf(c) : amounts[f] \in Int BY RatedTyped DEF BillableOf
<1> HIDE DEF amounts
<1>3. Total(amounts, BillableOf(c)) \in Int BY <1>1, <1>2, TotalType
<1> QED BY <1>3 DEF TotalOf, amounts

LEMMA EndTyped ==
  ASSUME NEW c \in Calculation, BillableOf(c) # {}
  PROVE  EndOf(c) \in Instants
<1> DEFINE lasts == {c.last[f] : f \in BillableOf(c)}
<1>1. c.cutoff \in Instants /\ c.last \in [Features -> Instants] BY DEF Calculation
<1>2. BillableOf(c) \subseteq Features BY DEF BillableOf
<1>3. lasts \subseteq Instants /\ lasts # {} BY <1>1, <1>2
<1>4. IsFiniteSet(Instants) BY InstantsTyped, FS_Interval DEF Instants
<1>6. EndOf(c) = IF c.cutoff > 0 THEN c.cutoff ELSE Max(lasts) BY DEF EndOf
<1> HIDE DEF lasts
<1>5. IsFiniteSet(lasts) /\ lasts \in SUBSET Int
  <2>1. IsFiniteSet(lasts) BY <1>3, <1>4, FS_Subset
  <2> QED BY <1>3, <2>1, InstantsTyped
<1>7. Max(lasts) \in lasts BY <1>3, <1>5, MaxOf
<1> QED BY <1>1, <1>3, <1>6, <1>7

-----------------------------------------------------------------------------
(* Types.  An invoice's key and a run's window are dates because nobody gets   *)
(* to writing them without anything billable; the clock counts the records.   *)

\* From a calculation with something to bill on, and with an invoice to write.
Billing == {"create_run", "find", "insert", "items", "mark", "unstamp", "void", "thrown",
            "collect"}
Writing == {"insert", "items", "mark", "unstamp", "void", "collect"}

Tracked == {r \in Records : created[r] > 0}

LedgerOK ==
  /\ clock = Cardinality(Tracked)
  /\ created \in [Records -> Instants]
  /\ stored \in SUBSET Records
  /\ stamp \in [Records -> Invoices \cup {NoInvoice}]
RowsOK ==
  /\ key \in [Invoices -> Keys \cup {NoKey}]
  /\ status \in [Invoices -> InvoiceStatus]
  /\ total \in [Invoices -> Int]
  /\ lines \in [Invoices -> [Features -> [items : Nat, amount : Int]]]
  /\ releasing \in SUBSET Invoices
RunsOK ==
  /\ run \in [Threshold -> RunStatus]
  /\ window \in [Threshold -> Instants]
  /\ lock \in SUBSET Threshold
  /\ block \in ((Invoices \cup {NoInvoice}) \X Threshold) \cup {NoBlock}
  /\ orphan \in SUBSET Threshold
  /\ faults \in Nat
GeneratorsOK ==
  /\ pc \in [Generators -> GeneratorPC]
  /\ calc \in [Generators -> Calculation]
  /\ target \in [Generators -> Invoices \cup {NoInvoice}]
  /\ todo \in [Generators -> SUBSET Features]
  /\ tries \in [Generators -> 0 .. MaxTries]
  /\ \A g \in Generators : pc[g] \in Billing => BillableOf(calc[g]) # {}
  /\ \A g \in Generators : pc[g] \in Writing => target[g] # NoInvoice

TypeInv == LedgerOK /\ RowsOK /\ RunsOK /\ GeneratorsOK

LEMMA TrackedCounts == Cardinality(Tracked) \in Instants
<1>1. Tracked \subseteq Records BY DEF Tracked
<1>2. IsFiniteSet(Tracked) /\ Cardinality(Tracked) <= Cardinality(Records)
  BY <1>1, InvoicingAssumption, FS_Subset
<1>3. Cardinality(Tracked) \in Nat BY <1>2, FS_CardinalityType
<1> QED BY <1>2, <1>3, InstantsTyped DEF Instants

LEMMA TypeInvTypes == TypeInv => TypeOK
BY TrackedCounts DEF TypeInv, LedgerOK, RowsOK, RunsOK, GeneratorsOK, TypeOK

LEMMA TypeInvInit == Init => TypeInv
<1> SUFFICES ASSUME Init PROVE TypeInv OBVIOUS
<1>1. Nothing \in [Features -> Nat] /\ Nothing \in [Features -> Instants]
  BY InstantsTyped DEF Nothing
<1>2. NoCalculation \in Calculation BY <1>1, InstantsTyped DEF NoCalculation, Calculation
<1>3. NoLines \in [Features -> [items : Nat, amount : Int]] BY DEF NoLines
<1>4. LedgerOK
  <2>1. Tracked = {} BY DEF Tracked, Init
  <2>2. clock = Cardinality(Tracked) BY <2>1, FS_EmptySet DEF Init
  <2> QED BY <2>2, InstantsTyped DEF Init, LedgerOK
<1>5. RowsOK BY <1>3 DEF Init, RowsOK, InvoiceStatus
<1>6. RunsOK BY InstantsTyped DEF Init, RunsOK, RunStatus
<1>7. GeneratorsOK
  BY <1>2, InvoicingAssumption DEF Init, GeneratorsOK, GeneratorPC, Billing, Writing
<1> QED BY <1>4, <1>5, <1>6, <1>7 DEF TypeInv

(* The generators: a step is g's, and takes it along the table.                *)
LEMMA PcMoved ==
  ASSUME GeneratorsOK, NEW g \in Generators, UNCHANGED generator, NEW to \in GeneratorPC,
         pc' = [pc EXCEPT ![g] = to],
         to \in Billing => BillableOf(calc[g]) # {},
         to \in Writing => target[g] # NoInvoice
  PROVE  GeneratorsOK'
BY DEF GeneratorsOK, generator

LEMMA CalcChanged ==
  ASSUME GeneratorsOK, NEW g \in Generators, UNCHANGED <<target, tries>>,
         NEW to \in GeneratorPC, pc' = [pc EXCEPT ![g] = to], to \notin Billing \cup Writing,
         NEW c \in Calculation, calc' = [calc EXCEPT ![g] = c],
         NEW left \in SUBSET Features, todo' = [todo EXCEPT ![g] = left]
  PROVE  GeneratorsOK'
BY DEF GeneratorsOK

LEMMA TodoChanged ==
  ASSUME GeneratorsOK, NEW g \in Generators, UNCHANGED <<calc, target, tries>>,
         NEW to \in GeneratorPC, pc' = [pc EXCEPT ![g] = to],
         to \in Billing => BillableOf(calc[g]) # {},
         to \in Writing => target[g] # NoInvoice,
         NEW left \in SUBSET Features, todo' = [todo EXCEPT ![g] = left]
  PROVE  GeneratorsOK'
BY DEF GeneratorsOK

LEMMA RowsCounted ==
  ASSUME LedgerOK, NEW D \in SUBSET Records
  PROVE  /\ Cardinality(D) \in Nat
         /\ Max({created[r] : r \in D} \cup {0}) \in Instants
<1>1. IsFiniteSet(D) /\ Cardinality(D) \in Nat
  BY InvoicingAssumption, FS_Subset, FS_CardinalityType
<1> DEFINE dates == {created[r] : r \in D} \cup {0}
<1>2. dates \subseteq Instants /\ dates # {} BY InstantsTyped DEF LedgerOK
<1> HIDE DEF dates
<1>3. IsFiniteSet(Instants) BY InstantsTyped, FS_Interval DEF Instants
<1>4. IsFiniteSet(dates) BY <1>2, <1>3, FS_Subset
<1>5. dates \in SUBSET Int BY <1>2, InstantsTyped
<1>6. Max(dates) \in dates BY <1>2, <1>4, <1>5, MaxOf
<1> QED BY <1>1, <1>2, <1>6 DEF dates

LEMMA ReadKeepsGenerators ==
  ASSUME TypeInv, NEW g \in Generators, ReadUnbilled(g)
  PROVE  GeneratorsOK'
<1> DEFINE cutoff == IF pc[g] = "read" /\ g \in Threshold THEN window[g] ELSE 0
           until == IF cutoff > 0 THEN cutoff ELSE Cardinality(Records)
           rows == [f \in Features |-> UnbilledIn(f, until)]
           c == [cutoff |-> cutoff,
                 unbilled |-> [f \in Features |-> Cardinality(rows[f])],
                 last |-> [f \in Features |-> Max({created[r] : r \in rows[f]} \cup {0})],
                 usage |-> Nothing]
           left == {f \in Features : rows[f] # {}}
<1>1. \E to \in {"preview_sum", "sum"} : pc' = [pc EXCEPT ![g] = to]
  BY DEF ReadUnbilled, Goto
<1>2. calc' = [calc EXCEPT ![g] = c] /\ todo' = [todo EXCEPT ![g] = left]
      /\ UNCHANGED <<target, tries>>
  BY DEF ReadUnbilled
<1>3. cutoff \in Instants BY InstantsTyped DEF TypeInv, RunsOK
<1>4. \A f \in Features : rows[f] \in SUBSET Records
  BY DEF UnbilledIn, InFeature, TypeInv, LedgerOK
<1> HIDE DEF rows, cutoff
<1>5. \A f \in Features : /\ Cardinality(rows[f]) \in Nat
                          /\ Max({created[r] : r \in rows[f]} \cup {0}) \in Instants
  BY <1>4, RowsCounted DEF TypeInv
<1>6. c \in Calculation BY <1>3, <1>5 DEF Calculation, Nothing
<1>7. left \in SUBSET Features OBVIOUS
<1>8. {"preview_sum", "sum"} \subseteq GeneratorPC \ (Billing \cup Writing)
  BY DEF GeneratorPC, Billing, Writing
<1> HIDE DEF c, left
<1> QED BY <1>1, <1>2, <1>6, <1>7, <1>8, CalcChanged DEF TypeInv

LEMMA SumKeepsGenerators ==
  ASSUME TypeInv, NEW g \in Generators, NEW f \in Features, SumUsage(g, f)
  PROVE  GeneratorsOK'
<1> DEFINE until == IF calc[g].cutoff > 0 THEN calc[g].cutoff ELSE Cardinality(Records)
           n == Cardinality(InFeature(f, until))
           c == [calc[g] EXCEPT !.usage[f] = n]
           left == todo[g] \ {f}
<1>1. /\ UNCHANGED <<target, tries, pc>> /\ pc[g] \in {"preview_sum", "sum"}
      /\ calc' = [calc EXCEPT ![g].usage[f] = n] /\ todo' = [todo EXCEPT ![g] = @ \ {f}]
  BY DEF SumUsage
<1>2. InFeature(f, until) \in SUBSET Records BY DEF InFeature, TypeInv, LedgerOK
<1>3. n \in Nat BY <1>2, RowsCounted DEF TypeInv
<1>4. calc[g] \in Calculation /\ calc \in [Generators -> Calculation]
      /\ todo \in [Generators -> SUBSET Features] /\ pc \in [Generators -> GeneratorPC]
  BY DEF TypeInv, GeneratorsOK
<1> HIDE DEF n
<1>5. c \in Calculation BY <1>3, <1>4 DEF Calculation
<1>6. calc' = [calc EXCEPT ![g] = c] /\ todo' = [todo EXCEPT ![g] = left] BY <1>1, <1>4
<1>7. left \in SUBSET Features BY <1>4
<1>8. pc' = [pc EXCEPT ![g] = pc[g]] /\ pc[g] \in GeneratorPC /\ pc[g] \notin Billing \cup Writing
  BY <1>1, <1>4 DEF Billing, Writing
<1> HIDE DEF c, left
<1> QED BY <1>1, <1>5, <1>6, <1>7, <1>8, CalcChanged DEF TypeInv

LEMMA FindKeepsGenerators ==
  ASSUME TypeInv, NEW g \in Generators, FindInvoice(g)
  PROVE  GeneratorsOK'
<1>0. GeneratorsOK BY DEF TypeInv
<1>1. BillableOf(calc[g]) # {} /\ pc[g] = "find" BY <1>0 DEF FindInvoice, GeneratorsOK, Billing
<1>2. tries[g] + 1 \in 1 .. MaxTries /\ tries[g] + 1 \in 0 .. MaxTries
  BY <1>0, InvoicingAssumption DEF GeneratorsOK, FindInvoice
<1>3. tries' = [tries EXCEPT ![g] = tries[g] + 1] /\ UNCHANGED calc
  BY DEF FindInvoice
<1>4. {"items", "insert"} \subseteq GeneratorPC BY DEF GeneratorPC
<1>5. NoInvoice \notin Invoices BY InvoicingAssumption
<1>6. ASSUME NEW to \in {"items", "insert"}, NEW i \in Invoices, NEW left \in SUBSET Features,
             pc' = [pc EXCEPT ![g] = to], target' = [target EXCEPT ![g] = i],
             todo' = [todo EXCEPT ![g] = left]
      PROVE  GeneratorsOK'
  BY <1>0, <1>1, <1>2, <1>3, <1>4, <1>5, <1>6 DEF GeneratorsOK
<1>7. Billable(g) \in SUBSET Features BY DEF Billable
<1>8. ASSUME NEW i \in Invoices, Goto(g, "find", "items"), target' = [target EXCEPT ![g] = i],
             todo' = [todo EXCEPT ![g] = {f \in Billable(g) : lines[i][f].items = 0}]
      PROVE  GeneratorsOK'
  <2>1. {f \in Billable(g) : lines[i][f].items = 0} \in SUBSET Features BY <1>7
  <2> QED BY <1>6, <1>8, <2>1 DEF Goto
<1>9. ASSUME Goto(g, "find", "insert"), target' = [target EXCEPT ![g] = <<g, tries'[g]>>],
             todo' = [todo EXCEPT ![g] = Billable(g)]
      PROVE  GeneratorsOK'
  <2>1. <<g, tries'[g]>> \in Invoices BY <1>0, <1>2, <1>3 DEF Invoices, GeneratorsOK
  <2> QED BY <1>6, <1>7, <1>9, <2>1 DEF Goto
<1> QED BY <1>8, <1>9 DEF FindInvoice

\* Every other step of a generator changes its list at most, and moves on.
LEMMA GeneratorKeeps ==
  ASSUME TypeInv, NEW g \in Generators,
         QuietStep(g) \/ Decide(g)
           \/ (g \in Threshold
                 /\ (CreateRun(g) \/ CreateWorkflow(g) \/ MarkRun(g) \/ RunStepFails(g)))
           \/ (g \in Workflows /\ (Collect(g) \/ Caught(g)))
  PROVE  GeneratorsOK'
<1>0. GeneratorsOK BY DEF TypeInv
<1> USE DEF Goto, GeneratorPC, Billing, Writing
<1>a. /\ pc[g] \in Billing => BillableOf(calc[g]) # {}
      /\ pc[g] \in Writing => target[g] # NoInvoice
      /\ todo[g] \in SUBSET Features
  BY <1>0 DEF GeneratorsOK
<1>b. Billable(g) = BillableOf(calc[g]) /\ Billable(g) \in SUBSET Features
  BY CalcOf DEF Billable
<1>c. ASSUME NEW to \in GeneratorPC, UNCHANGED generator, pc' = [pc EXCEPT ![g] = to],
             to \in Billing => pc[g] \in Billing \/ Billable(g) # {},
             to \in Writing => pc[g] \in Writing
      PROVE  GeneratorsOK'
  BY <1>0, <1>a, <1>b, <1>c, PcMoved
<1>d. ASSUME NEW to \in GeneratorPC, UNCHANGED <<calc, target, tries>>,
             pc' = [pc EXCEPT ![g] = to], pc[g] \in Writing, pc[g] \in Billing,
             NEW left \in SUBSET Features, todo' = [todo EXCEPT ![g] = left]
      PROVE  GeneratorsOK'
  BY <1>0, <1>a, <1>d, TodoChanged
<1>1. CASE ReadUnbilled(g) BY <1>1, ReadKeepsGenerators
<1>2. CASE \E f \in Features : SumUsage(g, f) BY <1>2, SumKeepsGenerators
<1>3. CASE FindInvoice(g) BY <1>3, FindKeepsGenerators
<1>4. CASE CalculationFails(g) BY <1>4, <1>c DEF CalculationFails
<1>5. CASE Begin(g) BY <1>5, <1>c DEF Begin
<1>6. CASE InsertInvoice(g) BY <1>6, <1>c DEF InsertInvoice
<1>7. CASE ItemFails(g) BY <1>7, <1>c DEF ItemFails
<1>8. CASE ReadBack(g) BY <1>8, <1>b, <1>d DEF ReadBack
<1>9. CASE Generated(g) BY <1>9, <1>c DEF Generated
<1>10. ASSUME NEW f \in Features, InsertItem(g, f) PROVE GeneratorsOK'
  <2>1. CASE Goto(g, "items", "items") /\ todo' = [todo EXCEPT ![g] = @ \ {f}]
    <3>1. todo' = [todo EXCEPT ![g] = todo[g] \ {f}] /\ todo[g] \ {f} \in SUBSET Features
      BY <1>a, <2>1
    <3> QED BY <1>10, <1>d, <2>1, <3>1 DEF InsertItem
  <2>2. CASE Goto(g, "items", "thrown") /\ UNCHANGED todo
    BY <1>10, <1>c, <2>2 DEF InsertItem, generator
  <2> QED BY <1>10, <2>1, <2>2 DEF InsertItem
<1>11. ASSUME NEW f \in Features, MarkFeature(g, f) PROVE GeneratorsOK'
  <2>1. todo' = [todo EXCEPT ![g] = todo[g] \ {f}] /\ todo[g] \ {f} \in SUBSET Features
    BY <1>11, <1>a DEF MarkFeature
  <2> QED BY <1>11, <1>d, <2>1 DEF MarkFeature
<1>12. ASSUME NEW f \in Features, MarkFails(g, f) PROVE GeneratorsOK'
  BY <1>12, <1>c DEF MarkFails
<1>13. CASE ReleaseAfterFailure(g) BY <1>13, <1>c DEF ReleaseAfterFailure
<1>14. CASE VoidAfterFailure(g) BY <1>14, <1>c DEF VoidAfterFailure
<1>15. CASE Thrown(g) BY <1>15, <1>c DEF Thrown
<1>16. CASE g \in Workflows /\ RunStepAgain(g) BY <1>16, <1>c DEF RunStepAgain
<1>17. CASE g \in Manual /\ RequestDies(g) BY <1>17, <1>c DEF RequestDies
<1>18. CASE Evaluate(g) BY <1>18, <1>c DEF Evaluate
<1>19. CASE DecidePreview(g)
  <2>1. CASE Billable(g) # {} /\ Goto(g, "preview_sum", "create_run")
    BY <1>19, <1>c, <2>1 DEF DecidePreview
  <2>2. CASE Goto(g, "preview_sum", "done") BY <1>19, <1>c, <2>2 DEF DecidePreview
  <2> QED BY <1>19, <2>1, <2>2 DEF DecidePreview
<1>20. CASE LoadRun(g)
  <2>1. \E to \in {"done", "mark_run"} : pc' = [pc EXCEPT ![g] = to] BY <1>20 DEF LoadRun
  <2> QED BY <1>20, <1>c, <2>1 DEF LoadRun
<1>21. CASE Decide(g)
  <2>1. CASE ~NothingToBill(g) /\ Goto(g, "sum", "find")
    BY <1>21, <1>c, <2>1 DEF Decide, NothingToBill
  <2>2. CASE Goto(g, "sum", "done") BY <1>21, <1>c, <2>2 DEF Decide
  <2> QED BY <1>21, <2>1, <2>2 DEF Decide
<1>22. CASE CreateRun(g) BY <1>22, <1>c DEF CreateRun
<1>23. CASE CreateWorkflow(g) BY <1>23, <1>c DEF CreateWorkflow
<1>24. CASE MarkRun(g) BY <1>24, <1>c DEF MarkRun
<1>25. CASE Collect(g) BY <1>25, <1>c DEF Collect
<1>26. CASE Caught(g) BY <1>26, <1>c DEF Caught
<1>27. CASE EvaluatorFails(g) BY <1>27, <1>c DEF EvaluatorFails
<1>28. CASE LoadFails(g) BY <1>28, <1>c DEF LoadFails
<1>29. CASE g \in Threshold /\ RunStepFails(g)
  <2>1. /\ UNCHANGED generator
        /\ \E to : pc' = [pc EXCEPT ![g] = to] /\ (to = pc[g] \/ <<pc[g], to>> \in Stumbles)
    BY <1>29, RunStumbles
  <2>2. pc[g] \in GeneratorPC BY <1>0 DEF GeneratorsOK
  <2> QED BY <1>c, <2>1, <2>2 DEF Stumbles
<1> QED BY <1>1, <1>2, <1>3, <1>4, <1>5, <1>6, <1>7, <1>8, <1>9, <1>10, <1>11, <1>12, <1>13,
           <1>14, <1>15, <1>16, <1>17, <1>18, <1>19, <1>20, <1>21, <1>22, <1>23, <1>24,
           <1>25, <1>26, <1>27, <1>28, <1>29 DEF QuietStep

-----------------------------------------------------------------------------
(* The other parts of the type invariant.                                      *)

\* A quiet step writes the ledger in marking and unmarking only.
LEMMA QuietLedger ==
  ASSUME NEW g \in Generators, QuietStep(g)
  PROVE  \/ UNCHANGED ledger
         \/ /\ UNCHANGED <<clock, created, stored>>
            /\ \/ /\ pc[g] = "mark"
                  /\ \E f \in Features : stamp' \in {stamp, Stamped(g, f)}
               \/ ReleaseUsage(target[g])
<1> USE DEF ledger
<1>1. CASE ReadUnbilled(g) \/ CalculationFails(g) \/ Begin(g) \/ FindInvoice(g)
             \/ InsertInvoice(g)
  BY <1>1 DEF ReadUnbilled, CalculationFails, Begin, FindInvoice, InsertInvoice
<1>2. CASE ItemFails(g) \/ ReadBack(g) \/ Generated(g) \/ VoidAfterFailure(g) \/ Thrown(g)
  BY <1>2 DEF ItemFails, ReadBack, Generated, VoidAfterFailure, Thrown
<1>3. CASE \E f \in Features : SumUsage(g, f) \/ InsertItem(g, f)
  BY <1>3 DEF SumUsage, InsertItem
<1>4. ASSUME NEW f \in Features, MarkFeature(g, f) \/ MarkFails(g, f)
      PROVE  /\ UNCHANGED <<clock, created, stored>> /\ pc[g] = "mark"
             /\ stamp' \in {stamp, Stamped(g, f)}
  BY <1>4 DEF MarkFeature, MarkFails, Goto
<1>5. CASE ReleaseAfterFailure(g) BY <1>5 DEF ReleaseAfterFailure
<1>6. CASE RunStepAgain(g) \/ RequestDies(g) BY <1>6 DEF RunStepAgain, RequestDies
<1>7. CASE Evaluate(g) \/ DecidePreview(g) \/ LoadRun(g) \/ EvaluatorFails(g) \/ LoadFails(g)
  BY <1>7 DEF Evaluate, DecidePreview, LoadRun, EvaluatorFails, LoadFails
<1> QED BY <1>1, <1>2, <1>3, <1>4, <1>5, <1>6, <1>7 DEF QuietStep

LEMMA LedgerKept ==
  ASSUME LedgerOK, UNCHANGED <<clock, created, stored>>,
         stamp' \in [Records -> Invoices \cup {NoInvoice}]
  PROVE  LedgerOK'
<1>1. Tracked' = Tracked BY DEF Tracked
<1> QED BY <1>1 DEF LedgerOK

LEMMA ReleaseTyped ==
  ASSUME LedgerOK, NEW i, ReleaseUsage(i)
  PROVE  stamp' \in [Records -> Invoices \cup {NoInvoice}]
BY DEF LedgerOK, ReleaseUsage

LEMMA StampTyped ==
  ASSUME TypeInv, NEW g \in Generators, NEW f
  PROVE  Stamped(g, f) \in [Records -> Invoices \cup {NoInvoice}]
BY DEF TypeInv, LedgerOK, GeneratorsOK, Stamped

\* The clock gives an instant to a record that has none: it counts those.
LEMMA TrackKeepsLedger ==
  ASSUME LedgerOK, NEW r \in Records, Track(r)
  PROVE  LedgerOK'
<1>1. /\ created[r] = 0 /\ clock' = clock + 1 /\ created' = [created EXCEPT ![r] = clock']
      /\ stored' \in SUBSET Records /\ UNCHANGED stamp
  BY DEF Track, LedgerOK
<1>2. clock \in Instants BY TrackedCounts DEF LedgerOK
<1>3. clock + 1 > 0 BY <1>2, InstantsTyped
<1>4. Tracked' = Tracked \cup {r} BY <1>1, <1>3 DEF Tracked, LedgerOK
<1>5. r \notin Tracked /\ IsFiniteSet(Tracked)
  BY <1>1, InvoicingAssumption, FS_Subset DEF Tracked
<1>6. Cardinality(Tracked \cup {r}) = Cardinality(Tracked) + 1 BY <1>5, FS_AddElement
<1>7. Cardinality(Tracked \cup {r}) \in Instants
  <2>1. Tracked \cup {r} \subseteq Records BY DEF Tracked
  <2> DEFINE D == Tracked \cup {r}
  <2>2. D \subseteq Records BY <2>1
  <2> HIDE DEF D
  <2>3. IsFiniteSet(D) /\ Cardinality(D) <= Cardinality(Records) /\ Cardinality(D) \in Nat
    BY <2>2, InvoicingAssumption, FS_Subset, FS_CardinalityType
  <2>4. Cardinality(D) \in Instants BY <2>3, InstantsTyped DEF Instants
  <2> QED BY <2>4 DEF D
<1>8. clock' = Cardinality(Tracked') /\ clock' \in Instants BY <1>1, <1>4, <1>6, <1>7 DEF LedgerOK
<1>9. created' \in [Records -> Instants] BY <1>1, <1>8 DEF LedgerOK
<1> QED BY <1>1, <1>8, <1>9 DEF LedgerOK

LEMMA LedgerStep ==
  ASSUME TypeInv, [Next]_vars
  PROVE  LedgerOK'
<1>0. LedgerOK BY DEF TypeInv
<1>k. ASSUME UNCHANGED ledger PROVE LedgerOK' BY <1>0, <1>k, LedgerKept DEF ledger, LedgerOK
<1>r. ASSUME NEW i, ReleaseUsage(i), UNCHANGED <<clock, created, stored>> PROVE LedgerOK'
  BY <1>0, <1>r, ReleaseTyped, LedgerKept
<1>1. ASSUME NEW g \in Generators, QuietStep(g) PROVE LedgerOK'
  <2>1. ASSUME NEW f \in Features, stamp' \in {stamp, Stamped(g, f)},
               UNCHANGED <<clock, created, stored>>
        PROVE  LedgerOK'
    <3>1. stamp' \in [Records -> Invoices \cup {NoInvoice}]
      BY <1>0, <2>1, StampTyped DEF LedgerOK
    <3> QED BY <1>0, <2>1, <3>1, LedgerKept
  <2> QED BY <1>1, <1>k, <1>r, <2>1, QuietLedger
<1>2. ASSUME NEW g \in Generators, Decide(g) PROVE LedgerOK' BY <1>2, <1>k DEF Decide
<1>3. ASSUME NEW t \in Threshold, CreateRun(t) \/ CreateWorkflow(t) \/ FailRun(t) \/ MarkRun(t)
      PROVE  LedgerOK'
  BY <1>3, <1>k DEF CreateRun, CreateWorkflow, FailRun, MarkRun
<1>4. ASSUME NEW w \in Workflows, Collect(w) \/ Caught(w) PROVE LedgerOK'
  BY <1>4, <1>k DEF Collect, Caught
<1>5. ASSUME NEW i \in Invoices, PayInvoice(i) \/ FinishRelease(i) PROVE LedgerOK'
  BY <1>5, <1>k DEF PayInvoice, FinishRelease
<1>6. ASSUME NEW i \in Invoices, StartRelease(i) PROVE LedgerOK'
  BY <1>6, <1>r DEF StartRelease
<1>7. ASSUME NEW r \in Records, Track(r) PROVE LedgerOK' BY <1>0, <1>7, TrackKeepsLedger
<1>8. ASSUME NEW r \in Records, Arrive(r) PROVE LedgerOK'
  <2>1. UNCHANGED <<clock, created, stamp>> /\ stored' \in SUBSET Records
    BY <1>0, <1>8 DEF Arrive, LedgerOK
  <2>2. Tracked' = Tracked BY <2>1 DEF Tracked
  <2> QED BY <1>0, <2>1, <2>2 DEF LedgerOK
<1>9. CASE UNCHANGED vars BY <1>9, <1>k DEF vars
<1>10. ASSUME NEW t \in Threshold, RunStepFails(t) PROVE LedgerOK' BY <1>10, <1>k, RunStumbles
<1> QED BY NextCases, <1>1, <1>2, <1>3, <1>4, <1>5, <1>6, <1>7, <1>8, <1>9, <1>10

\* A quiet step writes an invoice while it generates one, or leaves the rows alone.
LEMMA QuietRows ==
  ASSUME NEW g \in Generators, QuietStep(g)
  PROVE  \/ UNCHANGED <<invoice, releasing>>
         \/ InsertInvoice(g) \/ ItemFails(g) \/ VoidAfterFailure(g)
         \/ \E f \in Features : InsertItem(g, f)
<1>1. CASE ReadUnbilled(g) \/ CalculationFails(g) \/ Begin(g) \/ FindInvoice(g)
  BY <1>1 DEF ReadUnbilled, CalculationFails, Begin, FindInvoice
<1>2. CASE ReadBack(g) \/ Generated(g) \/ Thrown(g) \/ ReleaseAfterFailure(g)
  BY <1>2 DEF ReadBack, Generated, Thrown, ReleaseAfterFailure
<1>3. CASE \E f \in Features : SumUsage(g, f) \/ MarkFeature(g, f) \/ MarkFails(g, f)
  BY <1>3 DEF SumUsage, MarkFeature, MarkFails
<1>4. CASE RunStepAgain(g) \/ RequestDies(g) BY <1>4 DEF RunStepAgain, RequestDies
<1>5. CASE Evaluate(g) \/ DecidePreview(g) \/ LoadRun(g) \/ EvaluatorFails(g) \/ LoadFails(g)
  BY <1>5 DEF Evaluate, DecidePreview, LoadRun, EvaluatorFails, LoadFails
<1> QED BY <1>1, <1>2, <1>3, <1>4, <1>5 DEF QuietStep

LEMMA RowsStep ==
  ASSUME TypeInv, [Next]_vars
  PROVE  RowsOK'
<1>0. RowsOK BY DEF TypeInv
<1>k. ASSUME UNCHANGED <<invoice, releasing>> PROVE RowsOK'
  BY <1>0, <1>k DEF RowsOK, invoice
<1>s. ASSUME UNCHANGED <<key, total, lines>>, NEW i, NEW st \in InvoiceStatus,
             status' = [status EXCEPT ![i] = st], releasing' \in SUBSET Invoices
      PROVE  RowsOK'
  BY <1>0, <1>s DEF RowsOK
<1>t. ASSUME UNCHANGED <<key, total, lines>>, NEW i \in Invoices, releasing' \in SUBSET Invoices,
             status' = [status EXCEPT ![i] = IF @ = "none" THEN @ ELSE "void"]
      PROVE  RowsOK'
  <2>1. PICK st \in InvoiceStatus : status' = [status EXCEPT ![i] = st]
    BY <1>0, <1>t DEF RowsOK, InvoiceStatus
  <2> QED BY <1>t, <1>s, <2>1
<1>a. \A g \in Generators : pc[g] \in Writing => target[g] \in Invoices
  BY DEF TypeInv, GeneratorsOK
<1>1. ASSUME NEW g \in Generators, InsertInvoice(g) PROVE RowsOK'
  <2>1. calc[g] \in Calculation /\ BillableOf(calc[g]) # {} /\ target[g] \in Invoices
    BY <1>1, <1>a DEF TypeInv, GeneratorsOK, InsertInvoice, Goto, Billing, Writing
  <2>2. KeyOf(g) \in Keys
    <3>1. WindowEnd(g) \in Instants BY <2>1, CalcOf, EndTyped
    <3> QED BY <3>1 DEF KeyOf, Keys, Trigger, Triggers
  <2>3. TotalEstimated(g) \in Int BY <2>1, CalcOf, TotalOfTyped
  <2>4. UNCHANGED <<lines, releasing>> BY <1>1 DEF InsertInvoice
  <2>5. CASE /\ key' = [key EXCEPT ![target[g]] = KeyOf(g)]
             /\ status' = [status EXCEPT ![target[g]] = "open"]
             /\ total' = [total EXCEPT ![target[g]] = TotalEstimated(g)]
    BY <1>0, <2>1, <2>2, <2>3, <2>4, <2>5 DEF RowsOK, InvoiceStatus
  <2>6. CASE UNCHANGED <<key, status, total>> BY <1>k, <2>4, <2>6 DEF invoice
  <2> QED BY <1>1, <2>5, <2>6 DEF InsertInvoice
<1>2. ASSUME NEW g \in Generators, ItemFails(g) PROVE RowsOK'
  <2>1. target[g] \in Invoices BY <1>2, <1>a DEF ItemFails, Goto, Writing
  <2>2. NoLines \in [Features -> [items : Nat, amount : Int]] BY DEF NoLines
  <2>3. CASE UNCHANGED invoice BY <1>2, <1>k, <2>3 DEF ItemFails
  <2>4. CASE /\ key' = [key EXCEPT ![target[g]] = NoKey]
             /\ status' = [status EXCEPT ![target[g]] = "none"]
             /\ total' = [total EXCEPT ![target[g]] = 0]
             /\ lines' = [lines EXCEPT ![target[g]] = NoLines]
    BY <1>0, <1>2, <2>1, <2>2, <2>4 DEF RowsOK, InvoiceStatus, ItemFails
  <2> QED BY <1>2, <2>3, <2>4 DEF ItemFails
<1>3. ASSUME NEW g \in Generators, VoidAfterFailure(g) PROVE RowsOK'
  <2>1. target[g] \in Invoices BY <1>3, <1>a DEF VoidAfterFailure, Goto, Writing
  <2>2. releasing' \in SUBSET Invoices BY <1>0, <1>3 DEF RowsOK, VoidAfterFailure
  <2> QED BY <1>3, <1>t, <2>1, <2>2 DEF VoidAfterFailure
<1>4. ASSUME NEW g \in Generators, NEW f \in Features, InsertItem(g, f) PROVE RowsOK'
  <2>1. UNCHANGED <<key, status, total, releasing>> BY <1>4 DEF InsertItem
  <2>2. target[g] \in Invoices /\ calc[g] \in Calculation
    BY <1>4, <1>a DEF InsertItem, Writing, TypeInv, GeneratorsOK
  <2>3. Rated(g, f).amount \in Int BY <2>2, CalcOf, RatedTyped
  <2>4. CASE UNCHANGED lines BY <1>k, <2>1, <2>4 DEF invoice
  <2>5. CASE lines' = [lines EXCEPT ![target[g]][f] =
                         [items |-> @.items + 1, amount |-> @.amount + Rated(g, f).amount]]
    <3> DEFINE old == lines[target[g]][f]
               line == [items |-> old.items + 1, amount |-> old.amount + Rated(g, f).amount]
    <3>1. lines' = [lines EXCEPT ![target[g]][f] = line] BY <2>5
    <3>2. old \in [items : Nat, amount : Int] BY <1>0, <2>2 DEF RowsOK
    <3> HIDE DEF old
    <3>3. line \in [items : Nat, amount : Int] BY <2>3, <3>2
    <3> HIDE DEF line
    <3>4. lines' \in [Invoices -> [Features -> [items : Nat, amount : Int]]]
      BY <1>0, <2>2, <3>1, <3>3 DEF RowsOK
    <3> QED BY <1>0, <2>1, <3>4 DEF RowsOK
  <2> QED BY <1>4, <2>4, <2>5 DEF InsertItem
<1>5. ASSUME NEW g \in Generators, QuietStep(g) PROVE RowsOK'
  BY <1>5, <1>k, <1>1, <1>2, <1>3, <1>4, QuietRows
<1>6. ASSUME NEW g \in Generators, Decide(g) PROVE RowsOK' BY <1>6, <1>k DEF Decide
<1>7. ASSUME NEW t \in Threshold, CreateRun(t) \/ CreateWorkflow(t) \/ FailRun(t) \/ MarkRun(t)
      PROVE  RowsOK'
  BY <1>7, <1>k DEF CreateRun, CreateWorkflow, FailRun, MarkRun
<1>8. ASSUME NEW w \in Workflows, Collect(w) \/ Caught(w) PROVE RowsOK'
  <2>1. CASE Caught(w) BY <1>k, <2>1 DEF Caught
  <2>2. CASE Collect(w)
    <3>1. UNCHANGED <<key, total, lines, releasing>> BY <2>2 DEF Collect
    <3>2. CASE UNCHANGED status BY <1>k, <3>1, <3>2 DEF invoice
    <3>3. CASE status' = [status EXCEPT ![target[w]] = "paid"]
      <4>1. releasing' \in SUBSET Invoices BY <1>0, <3>1 DEF RowsOK
      <4>2. "paid" \in InvoiceStatus BY DEF InvoiceStatus
      <4> QED BY <1>s, <3>1, <3>3, <4>1, <4>2
    <3> QED BY <2>2, <3>2, <3>3 DEF Collect, Collected
  <2> QED BY <1>8, <2>1, <2>2
<1>9. ASSUME NEW i \in Invoices, PayInvoice(i) PROVE RowsOK'
  <2>1. releasing' \in SUBSET Invoices BY <1>0, <1>9 DEF RowsOK, PayInvoice
  <2>2. "paid" \in InvoiceStatus BY DEF InvoiceStatus
  <2> QED BY <1>9, <1>s, <2>1, <2>2 DEF PayInvoice
<1>10. ASSUME NEW i \in Invoices, StartRelease(i) PROVE RowsOK'
  BY <1>0, <1>10 DEF RowsOK, StartRelease, invoice
<1>11. ASSUME NEW i \in Invoices, FinishRelease(i) PROVE RowsOK'
  <2>1. releasing' \in SUBSET Invoices BY <1>0, <1>11 DEF RowsOK, FinishRelease
  <2> QED BY <1>11, <1>t, <2>1 DEF FinishRelease
<1>12. ASSUME NEW r \in Records, Track(r) \/ Arrive(r) PROVE RowsOK'
  BY <1>12, <1>k DEF Track, Arrive
<1>13. CASE UNCHANGED vars BY <1>13, <1>k DEF vars
<1>14. ASSUME NEW t \in Threshold, RunStepFails(t) PROVE RowsOK'
  <2>1. UNCHANGED <<key, total, lines, releasing>> BY <1>14, RunStumbles
  <2>2. CASE UNCHANGED status BY <1>k, <2>1, <2>2 DEF invoice
  <2>3. CASE status' = [status EXCEPT ![target[t]] = "paid"]
    <3>1. releasing' \in SUBSET Invoices BY <1>0, <2>1 DEF RowsOK
    <3>2. "paid" \in InvoiceStatus BY DEF InvoiceStatus
    <3> QED BY <1>s, <2>1, <2>3, <3>1, <3>2
  <2> QED BY <1>14, <2>2, <2>3, RunStumbles
<1> QED BY NextCases, <1>5, <1>6, <1>7, <1>8, <1>9, <1>10, <1>11, <1>12, <1>13, <1>14

LEMMA EndRunTyped ==
  ASSUME RunsOK, NEW g, NEW st \in RunStatus, EndRun(g, st)
  PROVE  run' \in [Threshold -> RunStatus] /\ lock' \in SUBSET Threshold
BY DEF RunsOK, EndRun

LEMMA RunsStep ==
  ASSUME TypeInv, [Next]_vars
  PROVE  RunsOK'
<1>0. RunsOK BY DEF TypeInv
<1>1. ASSUME NEW g \in Generators, QuietStep(g) PROVE RunsOK'
  <2>1. UNCHANGED <<run, lock, orphan, block>>
    <3>1. ControlOK BY DEF TypeInv, RunsOK, GeneratorsOK, ControlOK
    <3> QED BY <1>1, <3>1, QuietControl
  <2>2. faults' \in Nat /\ UNCHANGED window
    <3> USE DEF Fault, billingRun, RunsOK
    <3>1. CASE ReadUnbilled(g) \/ CalculationFails(g) \/ Begin(g) \/ FindInvoice(g)
      BY <1>0, <3>1 DEF ReadUnbilled, CalculationFails, Begin, FindInvoice
    <3>2. CASE InsertInvoice(g) \/ ItemFails(g) \/ ReadBack(g) \/ Generated(g)
      BY <1>0, <3>2 DEF InsertInvoice, ItemFails, ReadBack, Generated
    <3>3. CASE \E f \in Features : SumUsage(g, f) \/ InsertItem(g, f) \/ MarkFeature(g, f)
      BY <1>0, <3>3 DEF SumUsage, InsertItem, MarkFeature
    <3>4. CASE \E f \in Features : MarkFails(g, f) BY <1>0, <3>4 DEF MarkFails
    <3>5. CASE ReleaseAfterFailure(g) \/ VoidAfterFailure(g) \/ Thrown(g)
      BY <1>0, <3>5 DEF ReleaseAfterFailure, VoidAfterFailure, Thrown
    <3>6. CASE RunStepAgain(g) \/ RequestDies(g)
      BY <1>0, <3>6 DEF RunStepAgain, RequestDies
    <3>7. CASE Evaluate(g) \/ DecidePreview(g) \/ LoadRun(g) \/ EvaluatorFails(g) \/ LoadFails(g)
      BY <1>0, <3>7 DEF Evaluate, DecidePreview, LoadRun, EvaluatorFails, LoadFails
    <3> QED BY <1>1, <3>1, <3>2, <3>3, <3>4, <3>5, <3>6, <3>7 DEF QuietStep
  <2> QED BY <1>0, <2>1, <2>2 DEF RunsOK
<1>e. ASSUME NEW g, NEW st \in RunStatus, EndRun(g, st), UNCHANGED <<window, orphan, faults>>,
             block' \in ((Invoices \cup {NoInvoice}) \X Threshold) \cup {NoBlock}
      PROVE  RunsOK'
  BY <1>0, <1>e, EndRunTyped DEF RunsOK
<1>2. ASSUME NEW g \in Generators, Decide(g) PROVE RunsOK'
  <2>1. CASE UNCHANGED <<run, lock>> BY <1>0, <1>2, <2>1 DEF Decide, RunsOK
  <2>2. ASSUME NEW st \in {"completed", "deferred"}, EndRun(g, st) PROVE RunsOK'
    BY <1>0, <1>2, <1>e, <2>2 DEF Decide, RunsOK, RunStatus
  <2> QED BY <1>2, <2>1, <2>2 DEF Decide
<1>3. ASSUME NEW t \in Threshold, CreateRun(t) PROVE RunsOK'
  <2>1. calc[t] \in Calculation /\ BillableOf(calc[t]) # {}
    BY <1>3 DEF CreateRun, TypeInv, GeneratorsOK, Billing, Generators, Workflows
  <2>2. WindowEnd(t) \in Instants BY <2>1, CalcOf, EndTyped
  <2> QED BY <1>0, <1>3, <2>2 DEF CreateRun, RunsOK, RunStatus
<1>4. ASSUME NEW t \in Threshold, CreateWorkflow(t) PROVE RunsOK'
  BY <1>0, <1>4 DEF CreateWorkflow, RunsOK, Fault
<1>5. ASSUME NEW t \in Threshold, FailRun(t) PROVE RunsOK'
  <2>1. "failed" \in RunStatus BY DEF RunStatus
  <2>2. EndRun(t, "failed") /\ UNCHANGED <<window, block, faults>>
        /\ orphan' \in SUBSET Threshold
    BY <1>0, <1>5 DEF FailRun, RunsOK
  <2> QED BY <1>0, <2>1, <2>2, EndRunTyped DEF RunsOK
<1>6. ASSUME NEW t \in Threshold, MarkRun(t) PROVE RunsOK'
  <2>1. CASE run' = [run EXCEPT ![t] = "processing"] /\ UNCHANGED lock
    BY <1>0, <1>6, <2>1 DEF MarkRun, RunsOK, RunStatus
  <2>2. CASE EndRun(t, "failed") BY <1>0, <1>6, <1>e, <2>2 DEF MarkRun, RunsOK, RunStatus
  <2> QED BY <1>6, <2>1, <2>2 DEF MarkRun
<1>7. ASSUME NEW w \in Workflows, Collect(w) \/ Caught(w) PROVE RunsOK'
  <2>1. PICK st \in {"completed", "blocked"} : EndRun(w, st)
    BY <1>7 DEF Collect, Collected, Caught
  <2>2. UNCHANGED <<window, orphan, faults>> BY <1>7 DEF Collect, Caught
  <2>3. block' \in ((Invoices \cup {NoInvoice}) \X Threshold) \cup {NoBlock}
    <3>0. target[w] \in Invoices \cup {NoInvoice} BY DEF TypeInv, GeneratorsOK, Generators
    <3>1. CASE Caught(w) BY <1>0, <3>0, <3>1 DEF Caught, CaughtInvoice, RunsOK
    <3>2. CASE Collect(w) BY <1>0, <3>0, <3>2 DEF Collect, Collected, RunsOK
    <3> QED BY <1>7, <3>1, <3>2
  <2> QED BY <1>e, <2>1, <2>2, <2>3 DEF RunStatus
<1>8. ASSUME NEW i \in Invoices, PayInvoice(i) \/ FinishRelease(i) PROVE RunsOK'
  <2>1. PICK st \in {"completed", "deferred"} : EndBlock(i, st)
    BY <1>8 DEF PayInvoice, FinishRelease
  <2>2. UNCHANGED <<window, orphan, faults>> BY <1>8 DEF PayInvoice, FinishRelease
  <2> QED BY <1>0, <2>1, <2>2 DEF EndBlock, RunsOK, RunStatus
<1>9. ASSUME NEW i \in Invoices, StartRelease(i) PROVE RunsOK'
  BY <1>0, <1>9 DEF StartRelease, RunsOK, billingRun
<1>10. ASSUME NEW r \in Records, Track(r) \/ Arrive(r) PROVE RunsOK'
  BY <1>0, <1>10 DEF Track, Arrive, RunsOK, billingRun
<1>11. CASE UNCHANGED vars BY <1>0, <1>11 DEF vars, RunsOK, billingRun
<1>12. ASSUME NEW t \in Threshold, RunStepFails(t) PROVE RunsOK'
  <2>1. run' \in [Threshold -> RunStatus] /\ lock' \in SUBSET Threshold
    <3>1. CASE UNCHANGED <<run, lock>> BY <1>0, <3>1 DEF RunsOK
    <3>2. CASE run' = [run EXCEPT ![t] = "processing"] /\ UNCHANGED lock
      BY <1>0, <3>2 DEF RunsOK, RunStatus
    <3>3. ASSUME NEW st \in {"completed", "deferred", "failed", "blocked"}, EndRun(t, st)
          PROVE  run' \in [Threshold -> RunStatus] /\ lock' \in SUBSET Threshold
      <4>1. st \in RunStatus BY DEF RunStatus
      <4> QED BY <1>0, <3>3, <4>1, EndRunTyped
    <3> QED BY <1>12, <3>1, <3>2, <3>3, RunStumbles
  <2>2. block' \in ((Invoices \cup {NoInvoice}) \X Threshold) \cup {NoBlock}
    <3>1. target[t] \in Invoices \cup {NoInvoice}
      BY DEF TypeInv, GeneratorsOK, Generators, Workflows
    <3>2. block' \in {block, NoBlock, <<target[t], t>>, <<NoInvoice, t>>} BY <1>12, RunStumbles
    <3> QED BY <1>0, <3>1, <3>2 DEF RunsOK
  <2>3. UNCHANGED window /\ faults' = faults + 1 /\ orphan' \in {orphan, orphan \ {t}}
    BY <1>12, RunStumbles
  <2> QED BY <1>0, <2>1, <2>2, <2>3 DEF RunsOK
<1> QED BY NextCases, <1>1, <1>2, <1>3, <1>4, <1>5, <1>6, <1>7, <1>8, <1>9, <1>10, <1>11, <1>12

LEMMA GeneratorsStep ==
  ASSUME TypeInv, [Next]_vars
  PROVE  GeneratorsOK'
<1>k. ASSUME UNCHANGED <<generator, pc>> PROVE GeneratorsOK'
  BY <1>k DEF TypeInv, GeneratorsOK, generator
<1>1. ASSUME NEW g \in Generators, QuietStep(g) \/ Decide(g) PROVE GeneratorsOK'
  BY <1>1, GeneratorKeeps
<1>2. ASSUME NEW t \in Threshold,
             CreateRun(t) \/ CreateWorkflow(t) \/ MarkRun(t) \/ RunStepFails(t)
      PROVE  GeneratorsOK'
  BY <1>2, GeneratorKeeps DEF Generators, Workflows
<1>3. ASSUME NEW w \in Workflows, Collect(w) \/ Caught(w) PROVE GeneratorsOK'
  BY <1>3, GeneratorKeeps DEF Generators
<1>4. ASSUME NEW t \in Threshold, FailRun(t) PROVE GeneratorsOK' BY <1>4, <1>k DEF FailRun
<1>5. ASSUME NEW i \in Invoices, PayInvoice(i) \/ StartRelease(i) \/ FinishRelease(i)
      PROVE  GeneratorsOK'
  BY <1>5, <1>k DEF PayInvoice, StartRelease, FinishRelease
<1>6. ASSUME NEW r \in Records, Track(r) \/ Arrive(r) PROVE GeneratorsOK'
  BY <1>6, <1>k DEF Track, Arrive
<1>7. CASE UNCHANGED vars BY <1>7, <1>k DEF vars
<1> QED BY NextCases, <1>1, <1>2, <1>3, <1>4, <1>5, <1>6, <1>7

LEMMA TypeInvStep == TypeInv /\ [Next]_vars => TypeInv'
BY LedgerStep, RowsStep, RunsStep, GeneratorsStep DEF TypeInv

(* Every row keeps the shape of its table, whatever is tracked and fails: an  *)
(* invoice has a date for a key and a run has one for a window, because each  *)
(* is only begun with something to bill, and every total and line that        *)
(* rating produces is a number.                                               *)
THEOREM InvoicingTyped == Spec => []TypeOK
<1>1. Spec => []TypeInv BY TypeInvInit, TypeInvStep, PTL DEF Spec
<1>2. TypeInv => TypeOK BY TypeInvTypes
<1> QED BY <1>1, <1>2, PTL

-----------------------------------------------------------------------------
(* Windows.  What is read as unbilled has a date, so the window of a run is   *)
(* the date of something, and no two runs of the customer have the same one.  *)

Begun(t) == run[t] # "none"

\* From the row of the run to the workflow's end, and from its calculation on.
Windowed == {"create_workflow", "load", "mark_run", "read", "sum", "find", "insert", "items",
             "mark", "unstamp", "void", "thrown", "caught", "collect", "collect_caught"}
Cut == {"sum", "find", "insert", "items", "mark", "unstamp", "void", "thrown", "collect"}

Dated ==
  /\ \A r \in stored : created[r] > 0
  /\ \A g \in Generators, f \in Features : calc[g].unbilled[f] # 0 => calc[g].last[f] > 0

WindowInv ==
  /\ \A t \in Threshold : Begun(t) => window[t] > 0
  /\ \A s, t \in Threshold : Begun(s) /\ Begun(t) /\ window[s] = window[t] => s = t
  /\ \A t \in Threshold : pc[t] \in Windowed => Begun(t)
  /\ \A t \in Threshold : pc[t] \in Cut => calc[t].cutoff = window[t]
  /\ \A t \in orphan : Begun(t)
  /\ block # NoBlock => Begun(block[2])

\* What a quiet step, or a decision, may do to a calculation.
LEMMA CalcStep ==
  ASSUME TypeInv, NEW g \in Generators, QuietStep(g)
  PROVE  \/ UNCHANGED calc
         \/ ReadUnbilled(g)
         \/ \E f \in Features : SumUsage(g, f)
<1>1. CASE CalculationFails(g) \/ Begin(g) \/ FindInvoice(g) \/ InsertInvoice(g)
  BY <1>1 DEF CalculationFails, Begin, FindInvoice, InsertInvoice, generator
<1>2. CASE ItemFails(g) \/ ReadBack(g) \/ Generated(g) \/ VoidAfterFailure(g) \/ Thrown(g)
  BY <1>2 DEF ItemFails, ReadBack, Generated, VoidAfterFailure, Thrown, generator
<1>3. CASE \E f \in Features : InsertItem(g, f) \/ MarkFeature(g, f) \/ MarkFails(g, f)
  BY <1>3 DEF InsertItem, MarkFeature, MarkFails, generator
<1>4. CASE ReleaseAfterFailure(g) \/ RunStepAgain(g) \/ RequestDies(g)
  BY <1>4 DEF ReleaseAfterFailure, RunStepAgain, RequestDies, generator
<1>5. CASE Evaluate(g) \/ DecidePreview(g) \/ LoadRun(g) \/ EvaluatorFails(g) \/ LoadFails(g)
  BY <1>5 DEF Evaluate, DecidePreview, LoadRun, EvaluatorFails, LoadFails, generator
<1> QED BY <1>1, <1>2, <1>3, <1>4, <1>5 DEF QuietStep

\* A sum leaves what was read as unbilled.
LEMMA SumCalc ==
  ASSUME TypeInv, NEW g \in Generators, NEW f \in Features, SumUsage(g, f)
  PROVE  /\ calc'[g].cutoff = calc[g].cutoff
         /\ calc'[g].unbilled = calc[g].unbilled /\ calc'[g].last = calc[g].last
         /\ \A h \in Generators : h # g => calc'[h] = calc[h]
<1>1. \E n : calc' = [calc EXCEPT ![g].usage[f] = n] BY DEF SumUsage
<1>2. calc \in [Generators -> Calculation] BY DEF TypeInv, GeneratorsOK
<1>3. calc[g] \in Calculation BY <1>2
<1> QED BY <1>1, <1>2, <1>3 DEF Calculation

\* What is read has a date.
LEMMA ReadCalc ==
  ASSUME TypeInv, Dated, NEW g \in Generators, ReadUnbilled(g)
  PROVE  /\ \A f \in Features : calc'[g].unbilled[f] # 0 => calc'[g].last[f] > 0
         /\ \A h \in Generators : h # g => calc'[h] = calc[h]
         /\ calc'[g].cutoff = IF pc[g] = "read" /\ g \in Threshold THEN window[g] ELSE 0
<1> DEFINE cutoff == IF pc[g] = "read" /\ g \in Threshold THEN window[g] ELSE 0
           until == IF cutoff > 0 THEN cutoff ELSE Cardinality(Records)
           rows == [f \in Features |-> UnbilledIn(f, until)]
           c == [cutoff |-> cutoff,
                 unbilled |-> [f \in Features |-> Cardinality(rows[f])],
                 last |-> [f \in Features |-> Max({created[r] : r \in rows[f]} \cup {0})],
                 usage |-> Nothing]
<1>1. calc' = [calc EXCEPT ![g] = c] BY DEF ReadUnbilled
<1>2. calc \in [Generators -> Calculation] BY DEF TypeInv, GeneratorsOK
<1>3. \A f \in Features : rows[f] \in SUBSET Records /\ \A r \in rows[f] : created[r] > 0
  BY DEF UnbilledIn, InFeature, TypeInv, LedgerOK, Dated
<1> HIDE DEF rows, cutoff
<1>4. ASSUME NEW f \in Features, Cardinality(rows[f]) # 0
      PROVE  Max({created[r] : r \in rows[f]} \cup {0}) > 0
  <2>1. rows[f] # {} BY <1>4, FS_EmptySet
  <2>2. PICK r \in rows[f] : TRUE BY <2>1
  <2> DEFINE dates == {created[q] : q \in rows[f]} \cup {0}
  <2>3. created[r] \in dates /\ created[r] > 0 BY <1>3, <2>2
  <2>4. dates \subseteq Instants
    BY <1>3, InstantsTyped DEF TypeInv, LedgerOK
  <2> HIDE DEF dates
  <2>5. IsFiniteSet(Instants) BY InstantsTyped, FS_Interval DEF Instants
  <2>6. IsFiniteSet(dates) /\ dates \in SUBSET Int
    <3>1. IsFiniteSet(dates) BY <2>4, <2>5, FS_Subset
    <3> QED BY <2>4, <3>1, InstantsTyped
  <2>7. Max(dates) \in dates /\ created[r] <= Max(dates) BY <2>3, <2>6, MaxOf
  <2>8. Max(dates) > 0 BY <2>3, <2>6, <2>7
  <2> QED BY <2>8 DEF dates
<1>5. calc'[g] = c /\ \A h \in Generators : h # g => calc'[h] = calc[h] BY <1>1, <1>2
<1>6. \A f \in Features : c.unbilled[f] # 0 => c.last[f] > 0 BY <1>4
<1> HIDE DEF c
<1>7. \A f \in Features : calc'[g].unbilled[f] # 0 => calc'[g].last[f] > 0 BY <1>5, <1>6
<1>8. calc'[g].cutoff = cutoff BY <1>5 DEF c
<1> QED BY <1>5, <1>7, <1>8 DEF cutoff

LEMMA DatedStep ==
  ASSUME TypeInv, Dated, [Next]_vars
  PROVE  Dated'
<1>k. ASSUME UNCHANGED <<stored, created, calc>> PROVE Dated' BY <1>k DEF Dated
<1>1. ASSUME NEW g \in Generators, QuietStep(g) PROVE Dated'
  <2>1. UNCHANGED <<stored, created>> BY <1>1, QuietLedger DEF ledger
  <2>2. CASE UNCHANGED calc BY <1>k, <2>1, <2>2
  <2>3. CASE ReadUnbilled(g) BY <2>1, <2>3, ReadCalc DEF Dated
  <2>4. CASE \E f \in Features : SumUsage(g, f) BY <2>1, <2>4, SumCalc DEF Dated
  <2> QED BY <1>1, <2>2, <2>3, <2>4, CalcStep
<1>2. ASSUME NEW g \in Generators, Decide(g) PROVE Dated'
  BY <1>2, <1>k DEF Decide, ledger, generator
<1>3. ASSUME NEW t \in Threshold, CreateRun(t) \/ CreateWorkflow(t) \/ FailRun(t) \/ MarkRun(t)
      PROVE  Dated'
  BY <1>3, <1>k DEF CreateRun, CreateWorkflow, FailRun, MarkRun, ledger, generator
<1>4. ASSUME NEW w \in Workflows, Collect(w) \/ Caught(w) PROVE Dated'
  BY <1>4, <1>k DEF Collect, Caught, ledger, generator
<1>5. ASSUME NEW i \in Invoices, PayInvoice(i) \/ StartRelease(i) \/ FinishRelease(i)
      PROVE  Dated'
  BY <1>5, <1>k DEF PayInvoice, StartRelease, FinishRelease, ledger, generator
<1>6. ASSUME NEW r \in Records, Track(r) PROVE Dated'
  <2>1. /\ created' = [created EXCEPT ![r] = clock'] /\ stored' \in {stored, stored \cup {r}}
        /\ clock' = clock + 1 /\ UNCHANGED calc
    BY <1>6 DEF Track, generator
  <2>2. clock' > 0
    <3>1. clock \in Nat BY TrackedCounts, InstantsTyped DEF TypeInv, LedgerOK
    <3> QED BY <2>1, <3>1
  <2>3. created \in [Records -> Instants] /\ stored \subseteq Records BY DEF TypeInv, LedgerOK
  <2> QED BY <2>1, <2>2, <2>3 DEF Dated
<1>7. ASSUME NEW r \in Records, Arrive(r) PROVE Dated'
  BY <1>7 DEF Arrive, Dated, generator
<1>8. CASE UNCHANGED vars BY <1>8, <1>k DEF vars, ledger, generator
<1>9. ASSUME NEW t \in Threshold, RunStepFails(t) PROVE Dated'
  BY <1>9, <1>k, RunStumbles DEF ledger, generator
<1> QED BY NextCases, <1>1, <1>2, <1>3, <1>4, <1>5, <1>6, <1>7, <1>8, <1>9

\* A quiet step moves its own generator, and not into a run that is not begun.
LEMMA QuietWindows ==
  ASSUME TypeInv, Dated, WindowInv, NEW g \in Generators, QuietStep(g)
  PROVE  /\ UNCHANGED window
         /\ \A t \in Threshold : pc'[t] \in Windowed => pc[t] \in Windowed
         /\ \A t \in Threshold : pc'[t] \in Cut => calc'[t].cutoff = window[t]
<1> DEFINE Fits == /\ UNCHANGED window
                   /\ \A t \in Threshold : pc'[t] \in Windowed => pc[t] \in Windowed
                   /\ \A t \in Threshold : pc'[t] \in Cut => calc'[t].cutoff = window[t]
<1>0. pc \in [Generators -> GeneratorPC] /\ Threshold \subseteq Generators
  BY DEF TypeInv, GeneratorsOK, Generators, Workflows
<1>m. ASSUME NEW to, pc' = [pc EXCEPT ![g] = to], UNCHANGED <<window, calc>>,
             to \in Windowed => pc[g] \in Windowed \/ g \notin Threshold,
             to \in Cut => pc[g] \in Cut \/ g \notin Threshold
      PROVE  Fits
  BY <1>0, <1>m DEF WindowInv
<1> HIDE DEF Fits
<1> USE DEF Goto, Windowed, Cut, billingRun, generator
<1>1. ASSUME ReadUnbilled(g) PROVE Fits
  <2>1. /\ calc'[g].cutoff = IF pc[g] = "read" /\ g \in Threshold THEN window[g] ELSE 0
        /\ \A h \in Generators : h # g => calc'[h] = calc[h]
    BY <1>1, ReadCalc
  <2>2. UNCHANGED window BY <1>1 DEF ReadUnbilled
  <2>3. \/ pc[g] = "preview" /\ pc' = [pc EXCEPT ![g] = "preview_sum"]
        \/ pc[g] = "read" /\ pc' = [pc EXCEPT ![g] = "sum"]
    BY <1>1 DEF ReadUnbilled, Goto
  <2>4. CASE pc[g] = "preview" /\ pc' = [pc EXCEPT ![g] = "preview_sum"]
    BY <1>0, <2>1, <2>2, <2>4 DEF Fits, WindowInv
  <2>5. CASE pc[g] = "read" /\ pc' = [pc EXCEPT ![g] = "sum"]
    BY <1>0, <2>1, <2>2, <2>5 DEF Fits, WindowInv
  <2> QED BY <2>3, <2>4, <2>5
<1>2. ASSUME NEW f \in Features, SumUsage(g, f) PROVE Fits
  <2>1. UNCHANGED <<pc, window>> BY <1>2 DEF SumUsage
  <2>2. \A h \in Generators : calc'[h].cutoff = calc[h].cutoff BY <1>2, SumCalc
  <2> QED BY <1>0, <2>1, <2>2 DEF Fits, WindowInv
<1>3. ASSUME FindInvoice(g) PROVE Fits BY <1>3, <1>m DEF FindInvoice
<1>4. ASSUME CalculationFails(g) PROVE Fits BY <1>4, <1>m DEF CalculationFails, Workflows
<1>5. ASSUME Begin(g) PROVE Fits BY <1>5, <1>m DEF Begin
<1>6. ASSUME InsertInvoice(g) PROVE Fits BY <1>6, <1>m DEF InsertInvoice
<1>7. ASSUME ItemFails(g) PROVE Fits BY <1>7, <1>m DEF ItemFails
<1>8. ASSUME ReadBack(g) PROVE Fits
  <2>1. \E to \in {"thrown", "mark"} : pc[g] = "items" /\ pc' = [pc EXCEPT ![g] = to]
    BY <1>8 DEF ReadBack
  <2> QED BY <1>8, <1>m, <2>1 DEF ReadBack
<1>9. ASSUME Generated(g) PROVE Fits
  <2>1. \E to \in {"collect", "done"} : pc[g] = "mark" /\ pc' = [pc EXCEPT ![g] = to]
    BY <1>9 DEF Generated
  <2> QED BY <1>9, <1>m, <2>1 DEF Generated
<1>10. ASSUME NEW f \in Features, InsertItem(g, f) PROVE Fits
  BY <1>10, <1>m DEF InsertItem
<1>11. ASSUME NEW f \in Features, MarkFeature(g, f) PROVE Fits
  BY <1>11, <1>m DEF MarkFeature
<1>12. ASSUME NEW f \in Features, MarkFails(g, f) PROVE Fits
  BY <1>12, <1>m DEF MarkFails
<1>13. ASSUME ReleaseAfterFailure(g) PROVE Fits BY <1>13, <1>m DEF ReleaseAfterFailure
<1>14. ASSUME VoidAfterFailure(g) PROVE Fits BY <1>14, <1>m DEF VoidAfterFailure
<1>15. ASSUME Thrown(g) PROVE Fits BY <1>15, <1>m DEF Thrown
<1>16. ASSUME RunStepAgain(g) PROVE Fits BY <1>16, <1>m DEF RunStepAgain
<1>17. ASSUME RequestDies(g) PROVE Fits BY <1>17, <1>m DEF RequestDies
<1>18. ASSUME Evaluate(g) PROVE Fits BY <1>18, <1>m DEF Evaluate
<1>19. ASSUME DecidePreview(g) PROVE Fits
  <2>1. \E to \in {"create_run", "done"} : pc[g] = "preview_sum" /\ pc' = [pc EXCEPT ![g] = to]
    BY <1>19 DEF DecidePreview
  <2> QED BY <1>19, <1>m, <2>1 DEF DecidePreview
<1>20. ASSUME LoadRun(g) PROVE Fits
  <2>1. \E to \in {"done", "mark_run"} : pc[g] = "load" /\ pc' = [pc EXCEPT ![g] = to]
    BY <1>20 DEF LoadRun
  <2> QED BY <1>20, <1>m, <2>1 DEF LoadRun
<1>21. ASSUME EvaluatorFails(g) PROVE Fits BY <1>21, <1>m DEF EvaluatorFails
<1>22. ASSUME LoadFails(g) PROVE Fits BY <1>22, <1>m DEF LoadFails
<1>23. Fits
  BY <1>1, <1>2, <1>3, <1>4, <1>5, <1>6, <1>7, <1>8, <1>9, <1>10, <1>11, <1>12, <1>13, <1>14,
     <1>15, <1>16, <1>17, <1>18, <1>19, <1>20, <1>21, <1>22 DEF QuietStep
<1> QED BY <1>23 DEF Fits

LEMMA WindowsKept ==
  ASSUME WindowInv, UNCHANGED window,
         \A t \in Threshold : run'[t] # "none" <=> run[t] # "none",
         \A t \in Threshold : pc'[t] \in Windowed => pc[t] \in Windowed,
         \A t \in Threshold : pc'[t] \in Cut => calc'[t].cutoff = window[t],
         orphan' \subseteq Threshold, \A t \in orphan' : run[t] # "none",
         block' # NoBlock => block'[2] \in Threshold /\ run[block'[2]] # "none"
  PROVE  WindowInv'
BY DEF WindowInv, Begun

LEMMA EndRunBegun ==
  ASSUME TypeInv, NEW g, NEW st \in RunStatus \ {"none"}, EndRun(g, st),
         g \in Threshold => run[g] # "none"
  PROVE  \A t \in Threshold : run'[t] # "none" <=> run[t] # "none"
BY DEF TypeInv, RunsOK, EndRun

LEMMA CreateRunWindow ==
  ASSUME TypeInv, Dated, NEW t \in Threshold, CreateRun(t)
  PROVE  WindowEnd(t) > 0 /\ WindowEnd(t) \in Instants
<1> DEFINE c == calc[t]
           lasts == {c.last[f] : f \in BillableOf(c)}
<1>1. c \in Calculation /\ BillableOf(c) # {}
  BY DEF CreateRun, TypeInv, GeneratorsOK, Billing, Generators, Workflows
<1>2. \A f \in BillableOf(c) : c.last[f] \in Nat /\ c.last[f] > 0
  <2>1. \A f \in BillableOf(c) : f \in Features /\ c.unbilled[f] # 0 BY DEF BillableOf, RatedOf
  <2>2. t \in Generators BY DEF Generators, Workflows
  <2>3. c.last \in [Features -> Nat] BY <1>1, InstantsTyped DEF Calculation
  <2> QED BY <2>1, <2>2, <2>3 DEF Dated
<1>3. WindowEnd(t) \in Instants /\ WindowEnd(t) = EndOf(c) BY <1>1, CalcOf, EndTyped
<1>4. c.cutoff \in Nat BY <1>1, InstantsTyped DEF Calculation
<1>5. CASE c.cutoff > 0 BY <1>3, <1>5 DEF EndOf
<1>6. CASE ~(c.cutoff > 0)
  <2>1. EndOf(c) = Max(lasts) BY <1>6 DEF EndOf
  <2>2. lasts # {} /\ lasts \in SUBSET Int BY <1>1, <1>2
  <2>3. IsFiniteSet(lasts)
    <3>1. IsFiniteSet(Instants) BY InstantsTyped, FS_Interval DEF Instants
    <3>2. lasts \subseteq Instants BY <1>1 DEF Calculation, BillableOf
    <3> HIDE DEF lasts
    <3> QED BY <3>1, <3>2, FS_Subset
  <2> HIDE DEF lasts
  <2>4. Max(lasts) \in lasts BY <2>2, <2>3, MaxOf
  <2>5. \A m \in lasts : m > 0 BY <1>2 DEF lasts
  <2> QED BY <1>3, <2>1, <2>4, <2>5
<1> QED BY <1>3, <1>5, <1>6

LEMMA WindowStep ==
  ASSUME TypeInv, Dated, WindowInv, [Next]_vars
  PROVE  /\ WindowInv'
         /\ \A t \in Threshold : Begun(t) /\ pc[t] # "create_run" =>
              run'[t] # "none" /\ window'[t] = window[t]
<1> DEFINE Kept == /\ WindowInv'
                   /\ \A t \in Threshold : Begun(t) /\ pc[t] # "create_run" =>
                        run'[t] # "none" /\ window'[t] = window[t]
<1> SUFFICES Kept OBVIOUS
<1>0. /\ pc \in [Generators -> GeneratorPC] /\ Threshold \subseteq Generators
      /\ run \in [Threshold -> RunStatus] /\ window \in [Threshold -> Instants]
      /\ orphan \subseteq Threshold /\ Workflows \subseteq Generators
  BY DEF TypeInv, GeneratorsOK, RunsOK, Generators, Workflows
<1>b. block # NoBlock => block[2] \in Threshold /\ run[block[2]] # "none"
  BY DEF TypeInv, RunsOK, WindowInv, Begun
<1>o. \A t \in orphan : run[t] # "none" BY DEF WindowInv, Begun
<1>w. \A t \in Threshold : pc[t] \in Cut => calc[t].cutoff = window[t] BY DEF WindowInv
<1>r. ASSUME UNCHANGED window,
             \A t \in Threshold : run'[t] # "none" <=> run[t] # "none",
             \A t \in Threshold : pc'[t] \in Windowed => pc[t] \in Windowed,
             \A t \in Threshold : pc'[t] \in Cut => calc'[t].cutoff = window[t],
             orphan' \subseteq Threshold, \A t \in orphan' : run[t] # "none",
             block' # NoBlock => block'[2] \in Threshold /\ run[block'[2]] # "none"
      PROVE  Kept
  BY <1>r, WindowsKept DEF Begun
<1>g. ASSUME UNCHANGED <<window, calc, orphan>>, NEW g \in Generators, NEW to,
             pc' = [pc EXCEPT ![g] = to],
             to \in Windowed => pc[g] \in Windowed, to \in Cut => pc[g] \in Cut,
             \A t \in Threshold : run'[t] # "none" <=> run[t] # "none",
             block' # NoBlock => block'[2] \in Threshold /\ run[block'[2]] # "none"
      PROVE  Kept
  <2>1. \A t \in Threshold : /\ pc'[t] \in Windowed => pc[t] \in Windowed
                             /\ pc'[t] \in Cut => calc'[t].cutoff = window[t]
    BY <1>0, <1>g, <1>w
  <2> QED BY <1>0, <1>g, <1>o, <1>r, <2>1
<1>k. ASSUME UNCHANGED <<window, calc, pc>>, orphan' \subseteq orphan,
             \A t \in Threshold : run'[t] # "none" <=> run[t] # "none",
             block' # NoBlock => block' = block
      PROVE  Kept
  <2>1. \A t \in Threshold : /\ pc'[t] \in Windowed => pc[t] \in Windowed
                             /\ pc'[t] \in Cut => calc'[t].cutoff = window[t]
    BY <1>k, <1>w
  <2>2. orphan' \subseteq Threshold /\ \A t \in orphan' : run[t] # "none" BY <1>0, <1>k, <1>o
  <2> QED BY <1>b, <1>k, <1>r, <2>1, <2>2
<1> HIDE DEF Kept
<1>1. ASSUME NEW g \in Generators, QuietStep(g) PROVE Kept
  <2>1. UNCHANGED <<run, lock, orphan, block>>
    <3>1. ControlOK BY DEF TypeInv, RunsOK, GeneratorsOK, ControlOK
    <3> QED BY <1>1, <3>1, QuietControl
  <2>2. /\ UNCHANGED window
        /\ \A t \in Threshold : pc'[t] \in Windowed => pc[t] \in Windowed
        /\ \A t \in Threshold : pc'[t] \in Cut => calc'[t].cutoff = window[t]
    BY <1>1, QuietWindows
  <2>3. orphan' \subseteq Threshold /\ \A t \in orphan' : run[t] # "none" BY <1>0, <1>o, <2>1
  <2>4. block' # NoBlock => block'[2] \in Threshold /\ run[block'[2]] # "none" BY <1>b, <2>1
  <2> QED BY <1>r, <2>1, <2>2, <2>3, <2>4
<1>2. ASSUME NEW g \in Generators, Decide(g) PROVE Kept
  <2>1. UNCHANGED <<window, calc, orphan, block>> /\ pc[g] = "sum"
    BY <1>2 DEF Decide, generator
  <2>2. \E to \in {"find", "done"} : pc' = [pc EXCEPT ![g] = to] BY <1>2 DEF Decide, Goto
  <2>3. \A t \in Threshold : run'[t] # "none" <=> run[t] # "none"
    <3>1. CASE UNCHANGED run BY <3>1
    <3>2. ASSUME NEW st \in {"completed", "deferred"}, EndRun(g, st)
          PROVE  \A t \in Threshold : run'[t] # "none" <=> run[t] # "none"
      <4>1. st \in RunStatus \ {"none"} BY DEF RunStatus
      <4>2. g \in Threshold => run[g] # "none" BY <2>1 DEF WindowInv, Begun, Windowed
      <4> QED BY <3>2, <4>1, <4>2, EndRunBegun
    <3> QED BY <1>2, <3>1, <3>2 DEF Decide
  <2> QED BY <1>b, <1>g, <2>1, <2>2, <2>3 DEF Windowed, Cut
<1>3. ASSUME NEW t \in Threshold, CreateRun(t) PROVE Kept
  <2>1. pc[t] = "create_run" /\ UNCHANGED <<orphan, block, calc>>
    BY <1>3 DEF CreateRun, generator
  <2>2. CASE /\ Goto(t, "create_run", "create_workflow")
             /\ run' = [run EXCEPT ![t] = "pending"]
             /\ window' = [window EXCEPT ![t] = WindowEnd(t)]
             /\ \A s \in Threshold : run[s] # "none" => window[s] # WindowEnd(t)
    <3> DEFINE end == WindowEnd(t)
    <3>1. end > 0 BY <1>3, CreateRunWindow
    <3> HIDE DEF end
    <3>2. /\ pc' = [pc EXCEPT ![t] = "create_workflow"] /\ window' = [window EXCEPT ![t] = end]
          /\ \A s \in Threshold : run[s] # "none" => window[s] # end
      BY <2>2 DEF end, Goto
    <3>3. /\ \A s \in Threshold : s # t => run'[s] = run[s] /\ window'[s] = window[s]
                                           /\ pc'[s] = pc[s]
          /\ run'[t] = "pending" /\ window'[t] = end /\ pc'[t] = "create_workflow"
      BY <1>0, <2>2, <3>2
    <3>4. /\ \A s \in Threshold : run'[s] # "none" => window'[s] > 0
          /\ \A s, q \in Threshold : run'[s] # "none" /\ run'[q] # "none"
                                     /\ window'[s] = window'[q] => s = q
      BY <3>1, <3>2, <3>3 DEF WindowInv, Begun
    <3>5. /\ \A s \in Threshold : pc'[s] \in Windowed => run'[s] # "none"
          /\ \A s \in Threshold : pc'[s] \in Cut => calc'[s].cutoff = window'[s]
          /\ \A s \in orphan' : run'[s] # "none"
          /\ block' # NoBlock => run'[block'[2]] # "none"
      BY <1>0, <1>b, <2>1, <3>3 DEF WindowInv, Begun, Cut
    <3>6. WindowInv' BY <3>4, <3>5 DEF WindowInv, Begun
    <3> QED BY <2>1, <3>3, <3>6 DEF Kept, Begun
  <2>3. CASE Goto(t, "create_run", "done") /\ UNCHANGED <<run, window, lock>>
    <3>1. pc' = [pc EXCEPT ![t] = "done"] /\ t \in Generators BY <1>0, <2>3 DEF Goto
    <3> QED BY <1>b, <1>g, <2>1, <2>3, <3>1 DEF Windowed, Cut
  <2> QED BY <1>3, <2>2, <2>3 DEF CreateRun
<1>4. ASSUME NEW t \in Threshold, CreateWorkflow(t) PROVE Kept
  <2>1. /\ pc[t] = "create_workflow" /\ UNCHANGED <<run, window, block, calc>>
        /\ \E to \in {"load", "done"} : pc' = [pc EXCEPT ![t] = to]
        /\ orphan' \in {orphan, orphan \cup {t}}
    BY <1>4 DEF CreateWorkflow, Goto, generator
  <2>2. run[t] # "none" BY <2>1 DEF WindowInv, Begun, Windowed
  <2>3. \A s \in Threshold : /\ pc'[s] \in Windowed => pc[s] \in Windowed
                             /\ pc'[s] \in Cut => calc'[s].cutoff = window[s]
    BY <1>0, <1>w, <2>1 DEF Windowed, Cut
  <2>4. orphan' \subseteq Threshold /\ \A s \in orphan' : run[s] # "none"
    BY <1>0, <1>o, <2>1, <2>2
  <2> QED BY <1>b, <1>r, <2>1, <2>3, <2>4
<1>5. ASSUME NEW t \in Threshold, FailRun(t) PROVE Kept
  <2>1. /\ UNCHANGED <<window, block, calc, pc>> /\ orphan' \subseteq orphan
        /\ EndRun(t, "failed") /\ run[t] # "none"
    BY <1>5, <1>o DEF FailRun, generator
  <2>2. "failed" \in RunStatus \ {"none"} BY DEF RunStatus
  <2>3. \A s \in Threshold : run'[s] # "none" <=> run[s] # "none" BY <2>1, <2>2, EndRunBegun
  <2> QED BY <1>k, <2>1, <2>3
<1>6. ASSUME NEW t \in Threshold, MarkRun(t) PROVE Kept
  <2>1. /\ pc[t] = "mark_run" /\ UNCHANGED <<window, calc, orphan, block>>
        /\ \E to \in {"read", "done"} : pc' = [pc EXCEPT ![t] = to]
    BY <1>6 DEF MarkRun, Goto, generator
  <2>2. run[t] # "none" BY <2>1 DEF WindowInv, Begun, Windowed
  <2>3. \A s \in Threshold : run'[s] # "none" <=> run[s] # "none"
    <3>1. CASE run' = [run EXCEPT ![t] = "processing"] BY <1>0, <2>2, <3>1
    <3>2. CASE EndRun(t, "failed")
      <4>1. "failed" \in RunStatus \ {"none"} BY DEF RunStatus
      <4> QED BY <2>2, <3>2, <4>1, EndRunBegun
    <3> QED BY <1>6, <3>1, <3>2 DEF MarkRun
  <2> QED BY <1>0, <1>b, <1>g, <2>1, <2>3 DEF Windowed, Cut
<1>7. ASSUME NEW w \in Workflows, Collect(w) \/ Caught(w) PROVE Kept
  <2>1. /\ pc[w] \in {"collect", "caught", "collect_caught"} /\ UNCHANGED <<window, calc, orphan>>
        /\ pc' = [pc EXCEPT ![w] = "done"]
    BY <1>7 DEF Collect, Caught, Goto, generator
  <2>2. w \in Threshold => run[w] # "none" BY <2>1 DEF WindowInv, Begun, Windowed
  <2>3. \A s \in Threshold : run'[s] # "none" <=> run[s] # "none"
    <3>1. PICK st \in {"completed", "blocked"} : EndRun(w, st)
      BY <1>7 DEF Collect, Collected, Caught
    <3>2. st \in RunStatus \ {"none"} BY DEF RunStatus
    <3> QED BY <2>2, <3>1, <3>2, EndRunBegun
  <2>4. block' # NoBlock => block'[2] \in Threshold /\ run[block'[2]] # "none"
    <3>1. block' \in {block, NoBlock} \/ (w \in Threshold /\ block'[2] = w)
      BY <1>7 DEF Collect, Collected, Caught
    <3> QED BY <1>b, <2>2, <3>1
  <2> QED BY <1>0, <1>g, <2>1, <2>3, <2>4 DEF Windowed, Cut
<1>8. ASSUME NEW i \in Invoices, PayInvoice(i) \/ FinishRelease(i) PROVE Kept
  <2>1. UNCHANGED <<window, calc, pc, orphan>>
    BY <1>8 DEF PayInvoice, FinishRelease, generator
  <2>2. PICK st \in {"completed", "deferred"} : EndBlock(i, st)
    BY <1>8 DEF PayInvoice, FinishRelease
  <2>3. \A s \in Threshold : run'[s] # "none" <=> run[s] # "none" BY <1>0, <1>b, <2>2 DEF EndBlock
  <2>4. block' # NoBlock => block' = block BY <2>2 DEF EndBlock
  <2> QED BY <1>k, <2>1, <2>3, <2>4
<1>9. ASSUME NEW i \in Invoices, StartRelease(i) PROVE Kept
  BY <1>9, <1>k DEF StartRelease, billingRun, generator
<1>10. ASSUME NEW r \in Records, Track(r) \/ Arrive(r) PROVE Kept
  BY <1>10, <1>k DEF Track, Arrive, billingRun, generator
<1>11. ASSUME UNCHANGED vars PROVE Kept BY <1>11, <1>k DEF vars, billingRun, generator
<1>12. ASSUME NEW t \in Threshold, RunStepFails(t) PROVE Kept
  <2>1. PICK to : /\ pc' = [pc EXCEPT ![t] = to]
                  /\ to # pc[t] => <<pc[t], to>> \in Stumbles
                  /\ to = pc[t] => UNCHANGED <<run, block>> /\ t \in orphan
    BY <1>12, RunStumbles
  <2>2. UNCHANGED <<window, calc>> /\ orphan' \in {orphan, orphan \ {t}}
    BY <1>12, RunStumbles DEF generator
  <2>3. to \in Windowed => pc[t] \in Windowed BY <2>1 DEF Windowed, Stumbles
  <2>4. to \in Cut => pc[t] \in Cut BY <2>1 DEF Cut, Stumbles
  <2>5. pc[t] \in Windowed => run[t] # "none" BY DEF WindowInv, Begun
  <2>6. \A s \in Threshold : run'[s] # "none" <=> run[s] # "none"
    <3>1. CASE UNCHANGED run BY <3>1
    <3>2. CASE run' = [run EXCEPT ![t] = "processing"] /\ pc[t] = "mark_run"
      BY <1>0, <2>5, <3>2 DEF Windowed
    <3>3. ASSUME NEW st \in {"completed", "deferred", "failed", "blocked"}, EndRun(t, st),
                 pc[t] \in {"mark_run", "sum", "collect", "caught", "collect_caught"}
          PROVE  \A s \in Threshold : run'[s] # "none" <=> run[s] # "none"
      <4>1. st \in RunStatus \ {"none"} BY DEF RunStatus
      <4>2. run[t] # "none" BY <2>5, <3>3 DEF Windowed
      <4> QED BY <3>3, <4>1, <4>2, EndRunBegun
    <3> QED BY <1>12, <3>1, <3>2, <3>3, RunStumbles
  <2>7. block' # NoBlock => block'[2] \in Threshold /\ run[block'[2]] # "none"
    <3>1. CASE block' \in {block, NoBlock} BY <1>b, <3>1
    <3>2. CASE /\ pc[t] \in {"collect", "caught", "collect_caught"}
               /\ block' \in {<<target[t], t>>, <<NoInvoice, t>>}
      BY <2>5, <3>2 DEF Windowed
    <3> QED BY <1>12, <3>1, <3>2, RunStumbles
  <2>8. \A s \in Threshold : /\ pc'[s] \in Windowed => pc[s] \in Windowed
                             /\ pc'[s] \in Cut => calc'[s].cutoff = window[s]
    BY <1>0, <1>w, <2>1, <2>2, <2>3, <2>4
  <2>9. orphan' \subseteq Threshold /\ \A s \in orphan' : run[s] # "none"
    BY <1>0, <1>o, <2>2
  <2> QED BY <1>r, <2>2, <2>6, <2>7, <2>8, <2>9
<1> QED BY NextCases, <1>1, <1>2, <1>3, <1>4, <1>5, <1>6, <1>7, <1>8, <1>9, <1>10, <1>11, <1>12

-----------------------------------------------------------------------------
(* Lines.  The rows of an invoice are those of the generator that inserted    *)
(* it, and of its last calculation: as long as no two generators have the     *)
(* same key, nobody else writes them.                                          *)

Past == {"find", "insert", "items", "mark", "unstamp", "void", "thrown", "caught", "collect",
         "collect_caught", "done", "lost"}
Written == {"items", "mark", "unstamp", "void", "collect"}
NoItem == [items |-> 0, amount |-> 0]
LineOf(c, f) == [items |-> 1, amount |-> RatedOf(c, f).amount]
KeyFor(g, c) == <<Trigger(g), EndOf(c)>>

RowOK(i) ==
  /\ key[i] = NoKey => lines[i] = NoLines
  /\ key[i] # NoKey =>
       /\ pc[i[1]] \in Past /\ i[2] <= tries[i[1]]
       /\ key[i] = KeyFor(i[1], calc[i[1]])
       /\ total[i] = TotalOf(calc[i[1]])
       /\ i[1] \in Threshold => run[i[1]] # "none" /\ EndOf(calc[i[1]]) = window[i[1]]
  /\ \A f \in Features :
       \/ lines[i][f] = NoItem
       \/ f \in BillableOf(calc[i[1]]) /\ lines[i][f] = LineOf(calc[i[1]], f)

\* A generator has one row at a time.
OneRow == \A i, j \in Invoices : key[i] # NoKey /\ key[j] # NoKey /\ i[1] = j[1] => i = j

TargetOK(g) ==
  /\ pc[g] \in Writing => target[g] \in Invoices /\ target[g][1] = g
  /\ pc[g] = "insert" =>
       target[g][2] = tries[g] /\ key[target[g]] = NoKey /\ todo[g] = BillableOf(calc[g])
  /\ pc[g] \in Written => key[target[g]] # NoKey
  /\ pc[g] = "items" => todo[g] = {f \in BillableOf(calc[g]) : lines[target[g]][f].items = 0}
  /\ pc[g] \in {"mark", "collect"} =>
       \A f \in BillableOf(calc[g]) : lines[target[g]][f].items # 0

LinesInv ==
  /\ \A i \in Invoices : RowOK(i)
  /\ OneRow
  /\ \A g \in Generators : TargetOK(g)

\* Nobody shares a key by design.
OneEach == (\A m, n \in Manual : m = n) /\ (\A v, w \in PeriodEnd : v = w)

LEMMA InvoiceTyped ==
  ASSUME NEW i \in Invoices
  PROVE  i[1] \in Generators /\ i[2] \in 1 .. MaxTries /\ i = <<i[1], i[2]>>
BY DEF Invoices

\* A window's end is that of the run, from the workflow's calculation on.
LEMMA EndIsWindow ==
  ASSUME WindowInv, NEW t \in Threshold, pc[t] \in Cut
  PROVE  EndOf(calc[t]) = window[t] /\ run[t] # "none"
BY DEF WindowInv, Begun, Cut, Windowed, EndOf

\* A row with the key of a generator that looks for it is its own.
LEMMA KeyIsMine ==
  ASSUME OneEach, WindowInv, NEW i \in Invoices, RowOK(i),
         NEW g \in Generators, pc[g] \in {"find", "insert"}, key[i] = KeyOf(g)
  PROVE  i[1] = g
<1>1. KeyOf(g) = KeyFor(g, calc[g]) BY CalcOf DEF KeyOf, KeyFor
<1>2. key[i] # NoKey BY <1>1 DEF KeyFor, NoKey
<1>3. KeyFor(i[1], calc[i[1]]) = KeyFor(g, calc[g]) BY <1>1, <1>2 DEF RowOK
<1>4. Trigger(i[1]) = Trigger(g) /\ EndOf(calc[i[1]]) = EndOf(calc[g]) BY <1>3 DEF KeyFor
<1>5. i[1] \in Generators BY InvoiceTyped
<1>6. CASE g \in Manual
  <2>1. i[1] \in Manual BY <1>4, <1>5, <1>6 DEF Trigger
  <2> QED BY <1>6, <2>1 DEF OneEach
<1>7. CASE g \notin Manual /\ g \in Threshold
  <2>1. i[1] \in Threshold BY <1>4, <1>5, <1>7 DEF Trigger
  <2>2. run[i[1]] # "none" /\ EndOf(calc[i[1]]) = window[i[1]] BY <1>2, <2>1 DEF RowOK
  <2>3. run[g] # "none" /\ EndOf(calc[g]) = window[g] BY <1>7, EndIsWindow DEF Cut
  <2> QED BY <1>4, <1>7, <2>1, <2>2, <2>3 DEF WindowInv, Begun
<1>8. CASE g \notin Manual /\ g \notin Threshold
  <2>1. g \in PeriodEnd BY <1>8 DEF Generators, Workflows
  <2>2. i[1] \in PeriodEnd BY <1>4, <1>5, <1>8 DEF Trigger, Generators, Workflows
  <2> QED BY <2>1, <2>2 DEF OneEach
<1> QED BY <1>6, <1>7, <1>8

\* A generator moves on: what is written stays, and it does not forget what it wrote.
LEMMA MoveKeepsLines ==
  ASSUME TypeInv, LinesInv, NEW g \in Generators, NEW to, pc' = [pc EXCEPT ![g] = to],
         UNCHANGED <<key, total, lines, calc, target, tries>>,
         \A h \in Generators : h # g => todo'[h] = todo[h],
         pc[g] \in Past => to \in Past,
         to \in Writing => to \in Written \ {"items"} /\ pc[g] \in Written,
         to \in {"mark", "collect"} =>
           \A f \in BillableOf(calc[g]) : lines[target[g]][f].items # 0,
         \A t \in Threshold : run[t] # "none" /\ pc[t] # "create_run" =>
           run'[t] # "none" /\ window'[t] = window[t]
  PROVE  LinesInv'
<1>0. pc \in [Generators -> GeneratorPC] BY DEF TypeInv, GeneratorsOK
<1>1. ASSUME NEW i \in Invoices PROVE RowOK(i)'
  <2>1. RowOK(i) /\ i[1] \in Generators BY InvoiceTyped DEF LinesInv
  <2>2. pc[i[1]] \in Past => pc'[i[1]] \in Past /\ pc[i[1]] # "create_run"
    BY <1>0, <2>1 DEF Past
  <2> QED BY <2>1, <2>2 DEF RowOK
<1>2. OneRow' BY DEF LinesInv, OneRow
<1>3. ASSUME NEW h \in Generators, h # g PROVE TargetOK(h)'
  BY <1>0, <1>3 DEF LinesInv, TargetOK
<1>4. TargetOK(g)'
  <2>1. pc'[g] = to BY <1>0
  <2>2. TargetOK(g) BY DEF LinesInv
  <2>3. pc[g] \in Written => target[g] \in Invoices /\ target[g][1] = g /\ key[target[g]] # NoKey
    BY <2>2 DEF TargetOK, Written, Writing
  <2>4. to # "insert" /\ to # "items" BY DEF Writing, Written
  <2>5. to \in Written => to \in Writing BY DEF Writing, Written
  <2> QED BY <2>1, <2>3, <2>4, <2>5 DEF TargetOK
<1> QED BY <1>1, <1>2, <1>3, <1>4 DEF LinesInv

\* Nothing is written of a generator that calculates.
LEMMA CalcKeepsLines ==
  ASSUME TypeInv, LinesInv, NEW g \in Generators, pc[g] \notin Past,
         UNCHANGED <<key, total, lines, target, tries, run, window>>,
         \A h \in Generators : h # g => pc'[h] = pc[h] /\ calc'[h] = calc[h] /\ todo'[h] = todo[h],
         pc'[g] \notin Writing
  PROVE  LinesInv'
<1>1. ASSUME NEW i \in Invoices PROVE RowOK(i)'
  <2>1. RowOK(i) /\ i[1] \in Generators BY InvoiceTyped DEF LinesInv
  <2>2. CASE i[1] # g BY <2>1, <2>2 DEF RowOK
  <2>3. CASE i[1] = g
    <3>1. key[i] = NoKey /\ lines[i] = NoLines BY <2>1, <2>3 DEF RowOK
    <3> QED BY <3>1 DEF RowOK, NoLines, NoItem
  <2> QED BY <2>2, <2>3
<1>2. OneRow' BY DEF LinesInv, OneRow
<1>3. ASSUME NEW h \in Generators PROVE TargetOK(h)'
  <2>1. CASE h # g BY <1>3, <2>1 DEF LinesInv, TargetOK
  <2>2. CASE h = g BY <2>2 DEF TargetOK, Writing, Written
  <2> QED BY <2>1, <2>2
<1> QED BY <1>1, <1>2, <1>3 DEF LinesInv

\* Nobody moves.
LEMMA StayKeepsLines ==
  ASSUME TypeInv, LinesInv, UNCHANGED <<key, total, lines, generator, pc>>,
         \A t \in Threshold : run[t] # "none" /\ pc[t] # "create_run" =>
           run'[t] # "none" /\ window'[t] = window[t]
  PROVE  LinesInv'
<1>1. ASSUME NEW i \in Invoices PROVE RowOK(i)'
  <2>1. RowOK(i) /\ i[1] \in Generators BY InvoiceTyped DEF LinesInv
  <2>2. pc[i[1]] \in Past => pc[i[1]] # "create_run" BY DEF Past
  <2> QED BY <2>1, <2>2 DEF RowOK, generator
<1>2. OneRow' BY DEF LinesInv, OneRow
<1>3. ASSUME NEW h \in Generators PROVE TargetOK(h)'
  BY <1>3 DEF LinesInv, TargetOK, generator
<1> QED BY <1>1, <1>2, <1>3 DEF LinesInv

LEMMA FindKeepsLines ==
  ASSUME OneEach, TypeInv, WindowInv, LinesInv, NEW g \in Generators, FindInvoice(g)
  PROVE  LinesInv'
<1>0. /\ pc \in [Generators -> GeneratorPC] /\ tries \in [Generators -> 0 .. MaxTries]
      /\ target \in [Generators -> Invoices \cup {NoInvoice}]
      /\ todo \in [Generators -> SUBSET Features]
  BY DEF TypeInv, GeneratorsOK
<1>1. /\ pc[g] = "find" /\ tries' = [tries EXCEPT ![g] = tries[g] + 1] /\ tries[g] < MaxTries
      /\ UNCHANGED <<key, total, lines, calc, run, window>>
      /\ \E to \in {"items", "insert"} : pc' = [pc EXCEPT ![g] = to]
      /\ \A h \in Generators : h # g => target'[h] = target[h] /\ todo'[h] = todo[h]
  BY <1>0 DEF FindInvoice, Goto, invoice, billingRun
<1>2. tries[g] \in Nat /\ \A h \in Generators : h # g => tries'[h] = tries[h] /\ pc'[h] = pc[h]
  BY <1>0, <1>1, InvoicingAssumption
<1>3. ASSUME NEW i \in Invoices PROVE RowOK(i)'
  <2>1. RowOK(i) /\ i[1] \in Generators /\ i[2] \in Nat BY InvoiceTyped DEF LinesInv
  <2>2. pc[i[1]] \in Past => pc'[i[1]] \in Past BY <1>0, <1>1, <2>1 DEF Past
  <2>3. i[2] <= tries[i[1]] => i[2] <= tries'[i[1]] BY <1>0, <1>1, <1>2, <2>1
  <2> QED BY <1>1, <2>1, <2>2, <2>3 DEF RowOK
<1>4. OneRow' BY <1>1 DEF LinesInv, OneRow
<1>5. ASSUME NEW h \in Generators, h # g PROVE TargetOK(h)'
  BY <1>1, <1>2, <1>5 DEF LinesInv, TargetOK
<1>6. TargetOK(g)'
  <2> USE DEF Writing, Written
  <2>1. ASSUME NEW i \in Invoices, key[i] = KeyOf(g), pc'[g] = "items", target'[g] = i,
               todo'[g] = {f \in Billable(g) : lines[i][f].items = 0}
        PROVE  TargetOK(g)'
    <3>1. i[1] = g BY <1>1, <2>1, KeyIsMine DEF LinesInv
    <3>2. key[i] # NoKey BY <2>1 DEF KeyOf, NoKey
    <3>3. todo'[g] = {f \in BillableOf(calc[g]) : lines[i][f].items = 0} BY <2>1, CalcOf
    <3> QED BY <1>1, <2>1, <3>1, <3>2, <3>3 DEF TargetOK
  <2>2. ASSUME \A i \in Invoices : key[i] # KeyOf(g), pc'[g] = "insert",
               target'[g] = <<g, tries'[g]>>, todo'[g] = Billable(g)
        PROVE  TargetOK(g)'
    <3> DEFINE i == <<g, tries'[g]>>
    <3>1. tries'[g] = tries[g] + 1 BY <1>0, <1>1
    <3>2. i \in Invoices /\ i[1] = g /\ i[2] = tries[g] + 1
      BY <1>0, <1>1, <1>2, <3>1, InvoicingAssumption DEF Invoices
    <3>3. ~(i[2] <= tries[g]) BY <1>2, <3>2
    <3> HIDE DEF i
    <3>4. key[i] = NoKey BY <3>2, <3>3 DEF LinesInv, RowOK
    <3>5. target'[g] = i /\ i[2] = tries'[g] BY <2>2, <3>1, <3>2 DEF i
    <3>6. todo'[g] = BillableOf(calc[g]) BY <2>2, CalcOf
    <3> QED BY <1>1, <2>2, <3>2, <3>4, <3>5, <3>6 DEF TargetOK
  <2>3. ASSUME NEW i \in Invoices, key[i] = KeyOf(g), Goto(g, "find", "items"),
               target' = [target EXCEPT ![g] = i],
               todo' = [todo EXCEPT ![g] = {f \in Billable(g) : lines[i][f].items = 0}]
        PROVE  TargetOK(g)'
    BY <1>0, <2>1, <2>3 DEF Goto
  <2>4. ASSUME \A i \in Invoices : key[i] # KeyOf(g), Goto(g, "find", "insert"),
               target' = [target EXCEPT ![g] = <<g, tries'[g]>>],
               todo' = [todo EXCEPT ![g] = Billable(g)]
        PROVE  TargetOK(g)'
    BY <1>0, <2>2, <2>4 DEF Goto
  <2> QED BY <2>3, <2>4 DEF FindInvoice
<1> QED BY <1>3, <1>4, <1>5, <1>6 DEF LinesInv

LEMMA InsertKeepsLines ==
  ASSUME OneEach, TypeInv, WindowInv, LinesInv, NEW g \in Generators, InsertInvoice(g)
  PROVE  LinesInv'
<1>0. /\ pc \in [Generators -> GeneratorPC] /\ key \in [Invoices -> Keys \cup {NoKey}]
      /\ total \in [Invoices -> Int]
  BY DEF TypeInv, GeneratorsOK, RowsOK
<1>1. pc[g] = "insert" /\ UNCHANGED <<lines, run, window, calc, target, tries, todo>>
  BY DEF InsertInvoice, billingRun, generator
<1>2. /\ target[g] \in Invoices /\ target[g][1] = g /\ target[g][2] = tries[g]
      /\ key[target[g]] = NoKey /\ todo[g] = BillableOf(calc[g])
  BY <1>1 DEF LinesInv, TargetOK, Writing
<1>3. CASE Goto(g, "insert", "thrown") /\ UNCHANGED <<key, total>>
  <2>1. pc' = [pc EXCEPT ![g] = "thrown"] BY <1>3 DEF Goto
  <2> QED BY <1>1, <1>3, <2>1, MoveKeepsLines DEF Past, Writing
<1>4. CASE /\ \A i \in Invoices : key[i] # KeyOf(g)
           /\ Goto(g, "insert", "items")
           /\ key' = [key EXCEPT ![target[g]] = KeyOf(g)]
           /\ total' = [total EXCEPT ![target[g]] = TotalEstimated(g)]
  <2> DEFINE i == target[g]
  <2>1. /\ key'[i] = KeyFor(g, calc[g]) /\ total'[i] = TotalOf(calc[g])
        /\ \A j \in Invoices : j # i => key'[j] = key[j] /\ total'[j] = total[j]
    BY <1>0, <1>2, <1>4, CalcOf DEF KeyOf, KeyFor
  <2>2. pc'[g] = "items" /\ \A h \in Generators : h # g => pc'[h] = pc[h]
    BY <1>0, <1>4 DEF Goto
  <2>3. i \in Invoices /\ i[1] = g /\ i[2] = tries[g] /\ key[i] = NoKey BY <1>2
  <2> HIDE DEF i
  <2>4. key'[i] # NoKey BY <2>1 DEF KeyFor, NoKey
  <2>5. lines[i] = NoLines BY <2>3 DEF LinesInv, RowOK
  <2>6. ASSUME NEW j \in Invoices, j[1] = g PROVE key[j] = NoKey
    <3>1. key[j] # NoKey => key[j] = KeyFor(g, calc[g]) BY <2>6 DEF LinesInv, RowOK
    <3>2. KeyFor(g, calc[g]) = KeyOf(g) BY CalcOf DEF KeyFor, KeyOf
    <3> QED BY <1>4, <3>1, <3>2
  <2>7. ASSUME NEW j \in Invoices PROVE RowOK(j)'
    <3>1. CASE j[1] # g
      <4>1. j # i /\ j[1] \in Generators BY <2>3, <3>1, InvoiceTyped
      <4> QED BY <1>1, <2>1, <2>2, <3>1, <4>1 DEF LinesInv, RowOK
    <3>2. CASE j = i
      <4>1. i[2] <= tries[g]
        <5>1. tries[g] \in Int BY DEF TypeInv, GeneratorsOK
        <5> QED BY <2>3, <5>1
      <4>2. g \in Threshold => run[g] # "none" /\ EndOf(calc[g]) = window[g]
        BY <1>1, EndIsWindow DEF Cut
      <4>3. \A f \in Features : lines[i][f] = NoItem BY <2>5 DEF NoLines, NoItem
      <4> QED BY <1>1, <2>1, <2>2, <2>3, <2>4, <3>2, <4>1, <4>2, <4>3 DEF RowOK, Past
    <3>3. CASE j # i /\ j[1] = g
      <4>1. key[j] = NoKey /\ lines[j] = NoLines BY <2>6, <3>3 DEF LinesInv, RowOK
      <4>2. key'[j] = NoKey BY <2>1, <3>3, <4>1
      <4> QED BY <1>1, <4>1, <4>2 DEF RowOK, NoLines, NoItem
    <3> QED BY <3>1, <3>2, <3>3
  <2>8. OneRow'
    <3> SUFFICES ASSUME NEW j \in Invoices, NEW k \in Invoices, key'[j] # NoKey,
                        key'[k] # NoKey, j[1] = k[1]
                 PROVE  j = k
      BY DEF OneRow
    <3>1. CASE j[1] = g BY <2>1, <2>6, <3>1
    <3>2. CASE j[1] # g
      <4>1. j # i /\ k # i BY <2>3, <3>2
      <4> QED BY <2>1, <4>1 DEF LinesInv, OneRow
    <3> QED BY <3>1, <3>2
  <2>9. ASSUME NEW h \in Generators, h # g PROVE TargetOK(h)'
    <3>1. pc[h] \in Writing => target[h] \in Invoices /\ target[h] # i
      BY <2>3, <2>9 DEF LinesInv, TargetOK
    <3>2. pc[h] \in Writing => key'[target[h]] = key[target[h]] BY <2>1, <3>1
    <3>3. pc'[h] = pc[h] BY <2>2, <2>9
    <3> QED BY <1>1, <2>9, <3>2, <3>3 DEF LinesInv, TargetOK, Writing, Written
  <2>10. TargetOK(g)'
    <3>1. todo[g] = {f \in BillableOf(calc[g]) : lines[i][f].items = 0}
      BY <1>2, <2>5 DEF NoLines, BillableOf
    <3>2. target'[g] = i BY <1>1 DEF i
    <3> QED BY <1>1, <2>2, <2>3, <2>4, <3>1, <3>2 DEF TargetOK
  <2> QED BY <2>7, <2>8, <2>9, <2>10 DEF LinesInv
<1> QED BY <1>3, <1>4 DEF InsertInvoice

LEMMA ItemKeepsLines ==
  ASSUME TypeInv, LinesInv, NEW g \in Generators, NEW f \in Features, InsertItem(g, f)
  PROVE  LinesInv'
<1>0. /\ pc \in [Generators -> GeneratorPC] /\ todo \in [Generators -> SUBSET Features]
      /\ lines \in [Invoices -> [Features -> [items : Nat, amount : Int]]]
      /\ calc \in [Generators -> Calculation]
  BY DEF TypeInv, GeneratorsOK, RowsOK
<1>1. pc[g] = "items" /\ f \in todo[g]
      /\ UNCHANGED <<key, total, run, window, calc, target, tries>>
  BY DEF InsertItem, billingRun
<1> DEFINE i == target[g]
           item == [items |-> lines[i][f].items + 1,
                    amount |-> lines[i][f].amount + Rated(g, f).amount]
<1>2. /\ i \in Invoices /\ i[1] = g /\ key[i] # NoKey
      /\ todo[g] = {h \in BillableOf(calc[g]) : lines[i][h].items = 0}
  BY <1>1 DEF LinesInv, TargetOK, Writing, Written
<1>3. /\ pc' = [pc EXCEPT ![g] = "items"] /\ lines' = [lines EXCEPT ![i][f] = item]
      /\ todo' = [todo EXCEPT ![g] = todo[g] \ {f}]
  BY <1>0, <1>2 DEF InsertItem, Goto
<1>4. item = LineOf(calc[g], f)
  <2>1. lines[i][f].items = 0 BY <1>1, <1>2
  <2>2. lines[i][f] = NoItem
    <3>1. RowOK(i) BY <1>2 DEF LinesInv
    <3>2. LineOf(calc[g], f).items = 1 BY DEF LineOf
    <3> HIDE DEF i
    <3>3. lines[i][f] = NoItem \/ lines[i][f] = LineOf(calc[g], f) BY <1>2, <3>1 DEF RowOK
    <3> QED BY <2>1, <3>2, <3>3
  <2>3. Rated(g, f).amount = RatedOf(calc[g], f).amount BY CalcOf
  <2>4. RatedOf(calc[g], f).amount \in Int BY <1>0, RatedTyped
  <2> QED BY <2>2, <2>3, <2>4 DEF NoItem, LineOf
<1>5. f \in BillableOf(calc[g]) BY <1>1, <1>2
<1> HIDE DEF i, item
<1>6. /\ \A j \in Invoices : j # i => lines'[j] = lines[j]
      /\ \A h \in Features : h # f => lines'[i][h] = lines[i][h]
      /\ lines'[i][f] = LineOf(calc[g], f)
  BY <1>0, <1>2, <1>3, <1>4
<1>7. /\ \A h \in Generators : pc'[h] = pc[h] /\ (h # g => todo'[h] = todo[h])
      /\ todo'[g] = todo[g] \ {f}
  BY <1>0, <1>1, <1>3
<1>8. ASSUME NEW j \in Invoices PROVE RowOK(j)'
  <2>1. j[1] \in Generators BY InvoiceTyped
  <2>2. CASE j # i BY <1>1, <1>6, <1>7, <2>1, <2>2 DEF LinesInv, RowOK
  <2>3. CASE j = i BY <1>1, <1>2, <1>5, <1>6, <1>7, <2>1, <2>3 DEF LinesInv, RowOK
  <2> QED BY <2>2, <2>3
<1>9. OneRow' BY <1>1 DEF LinesInv, OneRow
<1>10. ASSUME NEW h \in Generators, h # g PROVE TargetOK(h)'
  <2>1. pc[h] \in Writing => target[h] # i BY <1>2, <1>10 DEF LinesInv, TargetOK
  <2>2. pc[h] \in Writing => lines'[target[h]] = lines[target[h]]
    BY <1>6, <1>10, <2>1 DEF LinesInv, TargetOK
  <2> QED BY <1>1, <1>7, <1>10, <2>2 DEF LinesInv, TargetOK, Writing, Written
<1>11. TargetOK(g)'
  <2>1. todo'[g] = {h \in BillableOf(calc[g]) : lines'[i][h].items = 0}
    BY <1>2, <1>6, <1>7 DEF LineOf, BillableOf, i
  <2>2. target'[g] = i BY <1>1 DEF i
  <2> QED BY <1>1, <1>2, <1>7, <2>1, <2>2 DEF TargetOK
<1> QED BY <1>8, <1>9, <1>10, <1>11 DEF LinesInv

LEMMA FailureKeepsLines ==
  ASSUME TypeInv, LinesInv, NEW g \in Generators, ItemFails(g)
  PROVE  LinesInv'
<1>0. /\ pc \in [Generators -> GeneratorPC] /\ key \in [Invoices -> Keys \cup {NoKey}]
      /\ total \in [Invoices -> Int]
      /\ lines \in [Invoices -> [Features -> [items : Nat, amount : Int]]]
  BY DEF TypeInv, GeneratorsOK, RowsOK
<1>1. /\ pc[g] = "items" /\ pc' = [pc EXCEPT ![g] = "thrown"]
      /\ UNCHANGED <<run, window, calc, target, tries, todo>>
  BY DEF ItemFails, Goto, billingRun, generator
<1>2. target[g] \in Invoices /\ target[g][1] = g
  BY <1>1 DEF LinesInv, TargetOK, Writing
<1>3. CASE UNCHANGED invoice
  BY <1>1, <1>3, MoveKeepsLines DEF Past, Writing, invoice
<1>4. CASE /\ key' = [key EXCEPT ![target[g]] = NoKey]
           /\ total' = [total EXCEPT ![target[g]] = 0]
           /\ lines' = [lines EXCEPT ![target[g]] = NoLines]
  <2> DEFINE i == target[g]
  <2>1. /\ \A j \in Invoices : j # i => /\ key'[j] = key[j] /\ total'[j] = total[j]
                                        /\ lines'[j] = lines[j]
        /\ key'[i] = NoKey /\ lines'[i] = NoLines
    BY <1>0, <1>2, <1>4
  <2>2. i \in Invoices /\ i[1] = g BY <1>2
  <2>3. pc'[g] = "thrown" /\ \A h \in Generators : h # g => pc'[h] = pc[h] BY <1>0, <1>1
  <2>4. ASSUME NEW j \in Invoices PROVE RowOK(j)'
    <3>1. j[1] \in Generators BY InvoiceTyped
    <3>2. CASE j # i
      <4>1. pc[j[1]] \in Past => pc'[j[1]] \in Past BY <2>3, <3>1 DEF Past
      <4> QED BY <1>1, <2>1, <3>2, <4>1 DEF LinesInv, RowOK
    <3>3. CASE j = i BY <2>1, <3>3 DEF RowOK, NoLines, NoItem
    <3> QED BY <3>2, <3>3
  <2>5. OneRow'
    <3>1. \A j \in Invoices : key'[j] # NoKey => key[j] # NoKey BY <2>1
    <3> QED BY <3>1 DEF LinesInv, OneRow
  <2>6. ASSUME NEW h \in Generators, h # g PROVE TargetOK(h)'
    <3>1. pc[h] \in Writing => target[h] \in Invoices /\ target[h] # i
      BY <2>2, <2>6 DEF LinesInv, TargetOK
    <3>2. pc[h] \in Writing => /\ key'[target[h]] = key[target[h]]
                               /\ lines'[target[h]] = lines[target[h]]
      BY <2>1, <3>1
    <3>3. pc'[h] = pc[h] BY <2>3, <2>6
    <3> QED BY <1>1, <2>6, <3>2, <3>3 DEF LinesInv, TargetOK, Writing, Written
  <2>7. TargetOK(g)' BY <2>3 DEF TargetOK, Writing, Written
  <2> QED BY <2>4, <2>5, <2>6, <2>7 DEF LinesInv
<1> QED BY <1>3, <1>4 DEF ItemFails

LEMMA QuietKeepsLines ==
  ASSUME OneEach, TypeInv, WindowInv, LinesInv, NEW g \in Generators, QuietStep(g),
         \A t \in Threshold : run[t] # "none" /\ pc[t] # "create_run" =>
           run'[t] # "none" /\ window'[t] = window[t]
  PROVE  LinesInv'
<1> USE DEF Goto, invoice, billingRun, generator
<1>0. /\ pc \in [Generators -> GeneratorPC] /\ todo \in [Generators -> SUBSET Features]
      /\ calc \in [Generators -> Calculation]
      /\ TargetOK(g)
  BY DEF TypeInv, GeneratorsOK, LinesInv
<1>m. ASSUME NEW to, pc' = [pc EXCEPT ![g] = to],
             UNCHANGED <<key, total, lines, calc, target, tries>>,
             \A h \in Generators : h # g => todo'[h] = todo[h],
             pc[g] \in Past => to \in Past,
             to \in Writing => to \in Written \ {"items"} /\ pc[g] \in Written,
             to \in {"mark", "collect"} =>
               \A f \in BillableOf(calc[g]) : lines[target[g]][f].items # 0
      PROVE  LinesInv'
  BY <1>m, MoveKeepsLines
<1>c. ASSUME pc[g] \notin Past, UNCHANGED <<key, total, lines, target, tries, run, window>>,
             \A h \in Generators : h # g => pc'[h] = pc[h] /\ calc'[h] = calc[h] /\ todo'[h] = todo[h],
             pc'[g] \notin Writing
      PROVE  LinesInv'
  BY <1>c, CalcKeepsLines
<1> USE DEF Past, Writing, Written
<1>1. CASE ReadUnbilled(g)
  <2>1. /\ \E c : calc' = [calc EXCEPT ![g] = c]
        /\ \E left : todo' = [todo EXCEPT ![g] = left]
        /\ \E to \in {"preview_sum", "sum"} : pc' = [pc EXCEPT ![g] = to]
        /\ pc[g] \in {"preview", "read"}
        /\ UNCHANGED <<key, total, lines, target, tries, run, window>>
    BY <1>1 DEF ReadUnbilled
  <2> QED BY <1>0, <1>c, <2>1
<1>2. ASSUME NEW f \in Features, SumUsage(g, f) PROVE LinesInv'
  <2>1. /\ \E n : calc' = [calc EXCEPT ![g].usage[f] = n]
        /\ \E left : todo' = [todo EXCEPT ![g] = left]
        /\ pc[g] \in {"preview_sum", "sum"}
        /\ UNCHANGED <<key, total, lines, target, tries, run, window, pc>>
    BY <1>2 DEF SumUsage
  <2> QED BY <1>0, <1>c, <2>1
<1>3. CASE FindInvoice(g) BY <1>3, FindKeepsLines
<1>4. CASE CalculationFails(g) BY <1>4, <1>m DEF CalculationFails
<1>5. CASE Begin(g) BY <1>5, <1>m DEF Begin
<1>6. CASE InsertInvoice(g) BY <1>6, InsertKeepsLines
<1>7. CASE ItemFails(g) BY <1>7, FailureKeepsLines
<1>8. CASE ReadBack(g)
  <2>1. /\ pc[g] = "items" /\ todo[g] = {}
        /\ \E to \in {"thrown", "mark"} : pc' = [pc EXCEPT ![g] = to]
        /\ todo' = [todo EXCEPT ![g] = Billable(g)]
        /\ UNCHANGED <<key, total, lines, calc, target, tries>>
    BY <1>8 DEF ReadBack
  <2>2. \A f \in BillableOf(calc[g]) : lines[target[g]][f].items # 0 BY <1>0, <2>1 DEF TargetOK
  <2>3. \A h \in Generators : h # g => todo'[h] = todo[h] BY <1>0, <2>1
  <2> QED BY <1>m, <2>1, <2>2, <2>3
<1>9. CASE Generated(g)
  <2>1. /\ pc[g] = "mark" /\ \E to \in {"collect", "done"} : pc' = [pc EXCEPT ![g] = to]
        /\ UNCHANGED <<key, total, lines, calc, target, tries, todo>>
    BY <1>9 DEF Generated
  <2>2. \A f \in BillableOf(calc[g]) : lines[target[g]][f].items # 0 BY <1>0, <2>1 DEF TargetOK
  <2> QED BY <1>m, <2>1, <2>2
<1>10. ASSUME NEW f \in Features, InsertItem(g, f) PROVE LinesInv' BY <1>10, ItemKeepsLines
<1>11. ASSUME NEW f \in Features, MarkFeature(g, f) PROVE LinesInv'
  <2>1. /\ pc[g] = "mark" /\ pc' = [pc EXCEPT ![g] = "mark"]
        /\ \E left : todo' = [todo EXCEPT ![g] = left]
        /\ UNCHANGED <<key, total, lines, calc, target, tries>>
    BY <1>11 DEF MarkFeature
  <2>2. \A f1 \in BillableOf(calc[g]) : lines[target[g]][f1].items # 0
    BY <1>0, <2>1 DEF TargetOK
  <2>3. \A h \in Generators : h # g => todo'[h] = todo[h] BY <1>0, <2>1
  <2> QED BY <1>m, <2>1, <2>2, <2>3
<1>12. ASSUME NEW f \in Features, MarkFails(g, f) PROVE LinesInv' BY <1>12, <1>m DEF MarkFails
<1>13. CASE ReleaseAfterFailure(g) BY <1>13, <1>m DEF ReleaseAfterFailure
<1>14. CASE VoidAfterFailure(g) BY <1>14, <1>m DEF VoidAfterFailure
<1>15. CASE Thrown(g) BY <1>15, <1>m DEF Thrown
<1>16. CASE g \in Workflows /\ RunStepAgain(g) BY <1>0, <1>16, <1>m DEF RunStepAgain
<1>17. CASE g \in Manual /\ RequestDies(g) BY <1>17, <1>m DEF RequestDies
<1>18. CASE Evaluate(g) BY <1>18, <1>m DEF Evaluate
<1>19. CASE DecidePreview(g)
  <2>1. /\ pc[g] = "preview_sum"
        /\ \E to \in {"create_run", "done"} : pc' = [pc EXCEPT ![g] = to]
        /\ UNCHANGED <<key, total, lines, calc, target, tries, todo>>
    BY <1>19 DEF DecidePreview
  <2> QED BY <1>m, <2>1
<1>20. CASE LoadRun(g)
  <2>1. /\ pc[g] = "load"
        /\ \E to \in {"done", "mark_run"} : pc' = [pc EXCEPT ![g] = to]
        /\ UNCHANGED <<key, total, lines, calc, target, tries, todo>>
    BY <1>20 DEF LoadRun
  <2> QED BY <1>m, <2>1
<1>21. CASE EvaluatorFails(g) BY <1>21, <1>m DEF EvaluatorFails
<1>22. CASE LoadFails(g) BY <1>22, <1>m DEF LoadFails
<1> QED BY <1>1, <1>2, <1>3, <1>4, <1>5, <1>6, <1>7, <1>8, <1>9, <1>10, <1>11, <1>12, <1>13,
           <1>14, <1>15, <1>16, <1>17, <1>18, <1>19, <1>20, <1>21, <1>22 DEF QuietStep

LEMMA LinesStep ==
  ASSUME OneEach, TypeInv, Dated, WindowInv, LinesInv, [Next]_vars
  PROVE  LinesInv'
<1> USE DEF invoice, billingRun, generator
<1>w. \A t \in Threshold : run[t] # "none" /\ pc[t] # "create_run" =>
        run'[t] # "none" /\ window'[t] = window[t]
  BY WindowStep DEF Begun
<1>g. Threshold \subseteq Generators /\ Workflows \subseteq Generators
  BY DEF Generators, Workflows
<1>m. ASSUME NEW g \in Generators, NEW to, pc' = [pc EXCEPT ![g] = to],
             UNCHANGED <<key, total, lines, calc, target, tries, todo>>,
             pc[g] \in Past => to \in Past, to \notin Writing
      PROVE  LinesInv'
  BY <1>m, <1>w, MoveKeepsLines DEF Writing
<1>k. ASSUME UNCHANGED <<key, total, lines, generator, pc>> PROVE LinesInv'
  BY <1>k, <1>w, StayKeepsLines
<1>1. ASSUME NEW g \in Generators, QuietStep(g) PROVE LinesInv'
  BY <1>1, <1>w, QuietKeepsLines
<1>2. ASSUME NEW g \in Generators, Decide(g) PROVE LinesInv'
  <2>1. /\ \E to \in {"find", "done"} : pc' = [pc EXCEPT ![g] = to]
        /\ UNCHANGED <<key, total, lines, calc, target, tries, todo>>
    BY <1>2 DEF Decide, Goto
  <2> QED BY <1>m, <2>1 DEF Past, Writing
<1>3. ASSUME NEW t \in Threshold, CreateRun(t) PROVE LinesInv'
  <2>1. /\ pc[t] = "create_run" /\ \E to : to \notin Writing /\ pc' = [pc EXCEPT ![t] = to]
        /\ UNCHANGED <<key, total, lines, calc, target, tries, todo>>
    BY <1>3 DEF CreateRun, Goto, Writing
  <2> QED BY <1>g, <1>m, <2>1 DEF Past
<1>4. ASSUME NEW t \in Threshold, CreateWorkflow(t) PROVE LinesInv'
  BY <1>4, <1>g, <1>m DEF CreateWorkflow, Goto, Past, Writing
<1>5. ASSUME NEW t \in Threshold, MarkRun(t) PROVE LinesInv'
  BY <1>5, <1>g, <1>m DEF MarkRun, Goto, Past, Writing
<1>6. ASSUME NEW w \in Workflows, Collect(w) \/ Caught(w) PROVE LinesInv'
  BY <1>6, <1>g, <1>m DEF Collect, Caught, Goto, Past, Writing
<1>7. ASSUME NEW t \in Threshold, FailRun(t) PROVE LinesInv' BY <1>7, <1>k DEF FailRun
<1>8. ASSUME NEW i \in Invoices, PayInvoice(i) \/ StartRelease(i) \/ FinishRelease(i)
      PROVE  LinesInv'
  BY <1>8, <1>k DEF PayInvoice, StartRelease, FinishRelease
<1>9. ASSUME NEW r \in Records, Track(r) \/ Arrive(r) PROVE LinesInv'
  BY <1>9, <1>k DEF Track, Arrive
<1>10. CASE UNCHANGED vars BY <1>10, <1>k DEF vars
<1>11. ASSUME NEW t \in Threshold, RunStepFails(t) PROVE LinesInv'
  <2>1. PICK to : /\ pc' = [pc EXCEPT ![t] = to]
                  /\ to # pc[t] => <<pc[t], to>> \in Stumbles
    BY <1>11, RunStumbles
  <2>2. UNCHANGED <<key, total, lines, calc, target, tries, todo>> BY <1>11, RunStumbles
  <2>3. CASE to # pc[t]
    <3>1. (pc[t] \in Past => to \in Past) /\ to \notin Writing BY <2>1, <2>3 DEF Stumbles, Past, Writing
    <3> QED BY <1>g, <1>m, <2>1, <2>2, <3>1
  <2>4. CASE to = pc[t]
    <3>1. pc' = pc BY <1>g, <2>1, <2>4 DEF TypeInv, GeneratorsOK
    <3> QED BY <1>k, <2>2, <3>1
  <2> QED BY <2>3, <2>4
<1> QED BY NextCases, <1>1, <1>2, <1>3, <1>4, <1>5, <1>6, <1>7, <1>8, <1>9, <1>10, <1>11

LEMMA LinesInit == Init => Dated /\ WindowInv /\ LinesInv
<1> SUFFICES ASSUME Init PROVE Dated /\ WindowInv /\ LinesInv OBVIOUS
<1> USE DEF Init
<1>1. Dated BY DEF Dated, NoCalculation, Nothing
<1>2. WindowInv
  BY DEF WindowInv, Begun, Windowed, Cut, Generators, Workflows
<1>3. ASSUME NEW i \in Invoices PROVE RowOK(i)
  BY DEF RowOK, NoLines, NoItem
<1>4. OneRow BY DEF OneRow
<1>5. ASSUME NEW g \in Generators PROVE TargetOK(g) BY DEF TargetOK, Writing, Written
<1> QED BY <1>1, <1>2, <1>3, <1>4, <1>5 DEF LinesInv

LEMMA LineSum ==
  ASSUME NEW row, NEW D
  PROVE  MapThenSumSet(LAMBDA f : row[f].amount, D) = Total([f \in D |-> row[f].amount], D)
BY DEF Total, MapThenSumSet, MapThenFoldSet

\* A written invoice asks for the sum of its lines.
LEMMA LinesAddUp ==
  ASSUME TypeInv, LinesInv PROVE TotalIsLines
<1> SUFFICES ASSUME NEW g \in Generators, pc[g] \in {"mark", "collect"}
             PROVE  total[target[g]] =
                      MapThenSumSet(LAMBDA f : lines[target[g]][f].amount, Features)
  BY DEF TotalIsLines
<1> DEFINE i == target[g]
           c == calc[g]
           B == BillableOf(c)
           asked == [f \in Features |-> RatedOf(c, f).amount]
           written == [f \in Features |-> lines[i][f].amount]
<1>1. i \in Invoices /\ i[1] = g /\ key[i] # NoKey /\ \A f \in B : lines[i][f].items # 0
  BY DEF LinesInv, TargetOK, Writing, Written
<1>2. c \in Calculation BY DEF TypeInv, GeneratorsOK
<1>3. total[i] = Total(asked, B) BY <1>1 DEF LinesInv, RowOK, TotalOf
<1>4. /\ B \subseteq Features /\ IsFiniteSet(B) /\ IsFiniteSet(Features \ B)
      /\ B \cup (Features \ B) = Features /\ B \cap (Features \ B) = {}
  <2>1. B \subseteq Features BY DEF BillableOf
  <2> HIDE DEF B
  <2>2. IsFiniteSet(B) /\ IsFiniteSet(Features \ B)
    BY <2>1, InvoicingAssumption, FS_Subset, FS_Difference
  <2> QED BY <2>1, <2>2
<1>5. \A f \in Features : \/ lines[i][f] = NoItem
                          \/ f \in B /\ lines[i][f] = LineOf(c, f)
  BY <1>1 DEF LinesInv, RowOK
<1>6. MapThenSumSet(LAMBDA f : lines[target[g]][f].amount, Features) = Total(written, Features)
  BY LineSum
<1>7. \A f \in B : written[f] = asked[f]
  <2>1. \A f \in B : lines[i][f] # NoItem BY <1>1 DEF NoItem
  <2> HIDE DEF B, c, i
  <2>2. \A f \in B : lines[i][f] = LineOf(c, f) BY <1>4, <1>5, <2>1
  <2>3. \A f \in B : LineOf(c, f).amount = RatedOf(c, f).amount BY DEF LineOf
  <2>4. \A f \in B : lines[i][f].amount = RatedOf(c, f).amount BY <2>2, <2>3
  <2> QED BY <1>4, <2>4
<1>8. \A f \in Features \ B : written[f] = 0 BY <1>5 DEF NoItem
<1>9. \A f \in B : asked[f] \in Int BY <1>2, <1>4, RatedTyped
<1> HIDE DEF B, asked, written, i, c
<1>10. Total(written, B) = Total(asked, B) BY <1>4, <1>7, TotalSame
<1>11. Total(written, Features \ B) = 0 BY <1>4, <1>8, TotalZero
<1>12. Total(asked, B) \in Int BY <1>4, <1>9, TotalType
<1>13. \A f \in Features : written[f] \in Int BY <1>4, <1>7, <1>8, <1>9
<1>14. Total(written, Features) = Total(written, B) + Total(written, Features \ B)
  <2> DEFINE rest == Features \ B
  <2>1. IsFiniteSet(rest) /\ B \cap rest = {} /\ B \cup rest = Features BY <1>4
  <2> HIDE DEF rest
  <2>2. Total(written, B \cup rest) = Total(written, B) + Total(written, rest)
    BY <1>4, <1>13, <2>1, TotalUnion
  <2> QED BY <2>1, <2>2 DEF rest
<1>15. total[i] = Total(written, Features) BY <1>3, <1>10, <1>11, <1>12, <1>14
<1> QED BY <1>6, <1>15 DEF i

(* What the customer is asked to pay is the sum of the lines on the invoice,  *)
(* whatever fails in between, is run again, arrives late or is released: the  *)
(* rows of an invoice come from one calculation, which nobody repeats once    *)
(* the invoice exists.  The hypothesis is what keeps two generators from      *)
(* sharing a row: threshold runs have windows of their own, the other         *)
(* triggers have a date for a key, and nothing else to tell them apart.       *)
THEOREM LinesMakeTheTotal ==
  ASSUME OneEach
  PROVE  Spec => []TotalIsLines
<1>1. Spec => [](TypeInv /\ Dated /\ WindowInv /\ LinesInv)
  <2>1. Init => TypeInv /\ Dated /\ WindowInv /\ LinesInv BY TypeInvInit, LinesInit
  <2>2. TypeInv /\ Dated /\ WindowInv /\ LinesInv /\ [Next]_vars
          => (TypeInv /\ Dated /\ WindowInv /\ LinesInv)'
    BY TypeInvStep, DatedStep, WindowStep, LinesStep
  <2> QED BY <2>1, <2>2, PTL DEF Spec
<1>2. TypeInv /\ LinesInv => TotalIsLines BY LinesAddUp
<1> QED BY <1>1, <1>2, PTL
-----------------------------------------------------------------------------
(* More usage costs no less, but for volume prices: there the band reached     *)
(* prices every unit.                                                          *)

LEMMA TimesRises ==
  ASSUME NEW a \in Nat, NEW b \in Nat, NEW k \in Nat, a <= b
  PROVE  a * k \in Nat /\ b * k \in Nat /\ a * k <= b * k
<1>1. \A x, y \in Nat : x * y \in Nat OBVIOUS
<1>2. PICK d \in Nat : b = a + d
  <2>1. b - a \in Nat /\ b = a + (b - a) OBVIOUS
  <2> QED BY <2>1
<1>3. b * k = a * k + d * k BY <1>2
<1>4. a * k \in Nat /\ d * k \in Nat BY <1>1
<1> QED BY <1>3, <1>4

LEMMA DivisionRises ==
  ASSUME NEW a \in Nat, NEW b \in Nat, NEW w \in Nat, w >= 1, a <= b
  PROVE  a \div w <= b \div w
OBVIOUS

LEMMA PackagesRise ==
  ASSUME NEW a \in Nat, NEW b \in Nat, a <= b, NEW billingUnits \in Nat
  PROVE  Packages(a, billingUnits) <= Packages(b, billingUnits)
<1> DEFINE u == Max({1, billingUnits})
<1>1. u \in Nat /\ u >= 1
  <2>1. u = IF 1 >= billingUnits THEN 1 ELSE billingUnits BY MaxOfTwo
  <2> QED BY <2>1
<1>2. /\ Packages(a, billingUnits) = (a + u - 1) \div u
      /\ Packages(b, billingUnits) = (b + u - 1) \div u
  BY DEF Packages
<1> HIDE DEF u
<1> DEFINE m == a + u - 1
           n == b + u - 1
           x == m \div u
           y == n \div u
<1>3. m \in Nat /\ n \in Nat /\ m <= n BY <1>1
<1> HIDE DEF m, n
<1>4. x <= y BY <1>1, <1>3, DivisionRises
<1> QED BY <1>2, <1>4 DEF x, y, m, n

\* The loop of a graduated price, over the same tiers with more units left.
LEMMA PlaceRises ==
  ASSUME NEW tiers \in Seq(Tier), NEW D, NEW low \in Placed(D), NEW high \in Placed(D),
         NEW i \in DOMAIN tiers, i \in D,
         low.left <= high.left, low.bound = high.bound,
         \A j \in D : low.lines[j].amount <= high.lines[j].amount, low.lines[i] = NoLine
  PROVE  /\ PlaceIn(tiers, low, i).left <= PlaceIn(tiers, high, i).left
         /\ PlaceIn(tiers, low, i).bound = PlaceIn(tiers, high, i).bound
         /\ \A j \in D : PlaceIn(tiers, low, i).lines[j].amount
                         <= PlaceIn(tiers, high, i).lines[j].amount
         /\ \A j \in D : j # i => PlaceIn(tiers, low, i).lines[j] = low.lines[j]
<1> DEFINE open == tiers[i].upTo = NoBound \/ i = Len(tiers)
           cap == tiers[i].upTo - low.bound
           units(acc) == IF open THEN acc.left ELSE Min({acc.left, cap})
           line(n) == [units |-> n, amount |-> n * tiers[i].unitPrice + tiers[i].flatFee]
           m == units(low)
           n == units(high)
<1>1. tiers[i] \in Tier OBVIOUS
<1>2. /\ tiers[i].upTo \in Nat /\ tiers[i].unitPrice \in Nat /\ tiers[i].flatFee \in Nat
  BY <1>1 DEF Tier
<1>3. /\ low.left \in Nat /\ low.bound \in Nat /\ low.lines \in [D -> Line]
      /\ high.left \in Nat /\ high.lines \in [D -> Line]
  BY DEF Placed
<1>4. cap \in Int BY <1>2, <1>3
<1>5. \A acc \in {low, high} :
        PlaceIn(tiers, acc, i) =
          [left |-> acc.left - Max({0, units(acc)}),
           bound |-> IF open THEN acc.bound ELSE tiers[i].upTo,
           lines |-> IF units(acc) > 0 THEN [acc.lines EXCEPT ![i] = line(units(acc))]
                     ELSE acc.lines]
  BY DEF PlaceIn
<1> HIDE DEF cap, open
<1>6. /\ m = IF open THEN low.left ELSE IF low.left <= cap THEN low.left ELSE cap
      /\ n = IF open THEN high.left ELSE IF high.left <= cap THEN high.left ELSE cap
  BY <1>3, <1>4, MinOfTwo
<1>7. m \in Int /\ n \in Int /\ m <= n BY <1>3, <1>4, <1>6
<1>8. Max({0, m}) = (IF 0 >= m THEN 0 ELSE m) /\ Max({0, n}) = (IF 0 >= n THEN 0 ELSE n)
  <2>1. \A v \in Int : Max({0, v}) = (IF 0 >= v THEN 0 ELSE v)
    <3> TAKE v \in Int
    <3>1. 0 \in Int OBVIOUS
    <3> QED BY <3>1, MaxOfTwo
  <2> HIDE DEF m, n
  <2> QED BY <1>7, <2>1
<1>9. low.left - Max({0, m}) <= high.left - Max({0, n})
  BY <1>3, <1>4, <1>6, <1>8
<1>10. ASSUME m > 0 PROVE line(m).amount <= line(n).amount
  <2>1. m \in Nat /\ n \in Nat BY <1>7, <1>10
  <2>2. /\ m * tiers[i].unitPrice \in Nat /\ n * tiers[i].unitPrice \in Nat
        /\ m * tiers[i].unitPrice <= n * tiers[i].unitPrice
    BY <1>2, <1>7, <2>1, TimesRises
  <2> QED BY <1>2, <2>2
<1>11. ASSUME n > 0 PROVE line(n).amount \in Nat
  <2>1. n \in Nat BY <1>7, <1>11
  <2>2. n * tiers[i].unitPrice \in Nat BY <1>2, <2>1, TimesRises
  <2> QED BY <1>2, <2>2
<1> DEFINE before == IF m > 0 THEN [low.lines EXCEPT ![i] = line(m)] ELSE low.lines
           after == IF n > 0 THEN [high.lines EXCEPT ![i] = line(n)] ELSE high.lines
<1>12. /\ PlaceIn(tiers, low, i).lines = before /\ PlaceIn(tiers, high, i).lines = after
       /\ PlaceIn(tiers, low, i).left = low.left - Max({0, m})
       /\ PlaceIn(tiers, high, i).left = high.left - Max({0, n})
       /\ PlaceIn(tiers, low, i).bound = (IF open THEN low.bound ELSE tiers[i].upTo)
       /\ PlaceIn(tiers, high, i).bound = (IF open THEN high.bound ELSE tiers[i].upTo)
  BY <1>5
<1> HIDE DEF m, n, line
<1>13. \A j \in D : j # i => before[j] = low.lines[j] /\ after[j] = high.lines[j]
  BY <1>3
<1>14. before[i].amount <= after[i].amount
  <2>1. CASE m > 0
    <3>1. n > 0 BY <1>7, <2>1
    <3>2. before[i] = line(m) /\ after[i] = line(n) BY <1>3, <2>1, <3>1
    <3> QED BY <1>10, <2>1, <3>2
  <2>2. CASE ~(m > 0)
    <3>1. before[i] = NoLine /\ NoLine.amount = 0 BY <2>2 DEF NoLine
    <3>2. after[i].amount \in Nat BY <1>3, <1>11 DEF Line
    <3> QED BY <3>1, <3>2
  <2> QED BY <2>1, <2>2
<1> HIDE DEF before, after
<1>15. \A j \in D : before[j].amount <= after[j].amount BY <1>13, <1>14
<1> QED BY <1>9, <1>12, <1>13, <1>15

LEMMA GraduatedRises ==
  ASSUME NEW tiers \in Seq(Tier), NEW a \in Nat, NEW b \in Nat, a <= b
  PROVE  Sum(GraduatedBreakdown(a, tiers)) <= Sum(GraduatedBreakdown(b, tiers))
<1> DEFINE D == DOMAIN tiers
           low == CHOOSE iter : Loop(iter, a, tiers, SUBSET D)
           high == CHOOSE iter : Loop(iter, b, tiers, SUBSET D)
           Lower(x, y) == /\ x \in Placed(D) /\ y \in Placed(D)
                          /\ x.left <= y.left /\ x.bound = y.bound
                          /\ \A j \in D : x.lines[j].amount <= y.lines[j].amount
           Good == {T \in SUBSET D : /\ Lower(low[T], high[T])
                                     /\ \A j \in D \ T : low[T].lines[j] = NoLine}
<1>1. IsFiniteSet(D) /\ D \subseteq Int
  <2>1. D = 1 .. Len(tiers) /\ Len(tiers) \in Nat OBVIOUS
  <2> QED BY <2>1, FS_Interval
<1>2. DOMAIN [i \in D |-> i] = D OBVIOUS
<1>3. Loop(low, a, tiers, SUBSET D) /\ Loop(high, b, tiers, SUBSET D) BY <1>1, LoopExists
<1>4. /\ GraduatedBreakdown(a, tiers) = low[D].lines
      /\ GraduatedBreakdown(b, tiers) = high[D].lines
  BY <1>2, GraduatedIsLoop
<1> HIDE DEF low, high
<1>5. /\ Lower(Unplaced(a, tiers), Unplaced(b, tiers))
      /\ \A j \in D : Unplaced(a, tiers).lines[j] = NoLine
  BY DEF Unplaced, Placed, NoLine, Line
<1>6. ASSUME NEW T \in SUBSET D, \A U \in SUBSET T : U # T => U \in Good
      PROVE  T \in Good
  <2>1. CASE T = {}
    <3>1. low[T] = Unplaced(a, tiers) /\ high[T] = Unplaced(b, tiers) BY <1>3, <2>1 DEF Loop
    <3> HIDE DEF Lower
    <3> QED BY <1>5, <3>1
  <2>2. CASE T # {}
    <3>1. Max(T) \in T BY <1>1, <2>2, FS_Subset, MaxOf
    <3> DEFINE m == Max(T)
               x == low[T \ {m}]
               y == high[T \ {m}]
    <3>2. m \in T /\ m \in D BY <3>1
    <3>3. [i \in D |-> i][Max(T)] = m BY <3>1
    <3>4. low[T] = PlaceIn(tiers, x, m) /\ high[T] = PlaceIn(tiers, y, m)
      BY <1>3, <2>2, <3>3 DEF Loop
    <3> HIDE DEF m
    <3>5. T \ {m} \in Good BY <1>6, <3>2
    <3>6. Lower(x, y) /\ \A j \in D \ (T \ {m}) : x.lines[j] = NoLine BY <3>5
    <3>7. x.lines[m] = NoLine BY <3>2, <3>6
    <3> HIDE DEF x, y, D
    <3>8. m \in DOMAIN tiers BY <3>2 DEF D
    <3>9. PlaceIn(tiers, x, m) \in Placed(D) /\ PlaceIn(tiers, y, m) \in Placed(D)
      BY <3>2, <3>6, <3>8, PlaceTyped
    <3>10. /\ PlaceIn(tiers, x, m).left <= PlaceIn(tiers, y, m).left
           /\ PlaceIn(tiers, x, m).bound = PlaceIn(tiers, y, m).bound
           /\ \A j \in D : PlaceIn(tiers, x, m).lines[j].amount
                           <= PlaceIn(tiers, y, m).lines[j].amount
           /\ \A j \in D : j # m => PlaceIn(tiers, x, m).lines[j] = x.lines[j]
      BY <3>2, <3>6, <3>7, <3>8, PlaceRises
    <3>11. Lower(low[T], high[T]) BY <3>4, <3>9, <3>10
    <3>12. \A j \in D \ T : low[T].lines[j] = NoLine BY <3>2, <3>4, <3>6, <3>10
    <3> HIDE DEF Lower
    <3> QED BY <3>11, <3>12
  <2> QED BY <2>1, <2>2
<1>7. Good = SUBSET D
  <2>1. Good \in SUBSET (SUBSET D) OBVIOUS
  <2> HIDE DEF Good, D
  <2> QED BY <1>1, <1>6, <2>1, SetDescent
<1>8. Lower(low[D], high[D])
  <2>1. D \in Good BY <1>7
  <2> HIDE DEF Lower, D
  <2> QED BY <2>1
<1> DEFINE p == GraduatedBreakdown(a, tiers)
           q == GraduatedBreakdown(b, tiers)
           f == [j \in D |-> p[j].amount]
           g == [j \in D |-> q[j].amount]
<1>9. p \in [D -> Line] /\ q \in [D -> Line] BY GraduatedTyped
<1>10. \A j \in D : p[j].amount <= q[j].amount BY <1>4, <1>8
<1> HIDE DEF p, q, D
<1>11. Sum(p) = Total(f, D) /\ Sum(q) = Total(g, D) BY <1>1, <1>9, SumIsTotal
<1>12. \A j \in D : f[j] \in Int /\ g[j] \in Int /\ f[j] <= g[j] BY <1>9, <1>10 DEF Line
<1> HIDE DEF f, g
<1>13. Total(f, D) <= Total(g, D) BY <1>1, <1>12, TotalMonotone
<1> QED BY <1>11, <1>13 DEF p, q

LEMMA QuantityRises ==
  ASSUME NEW p \in Pricing, NEW m \in Nat, NEW n \in Nat, m <= n
  PROVE  BillableQuantity(p, m) <= BillableQuantity(p, n)
<1>1. p.included \in Nat BY DEF Pricing
<1>2. \A v \in Int : Max({0, v}) = IF 0 >= v THEN 0 ELSE v
  <2> TAKE v \in Int
  <2>1. 0 \in Int OBVIOUS
  <2> QED BY <2>1, MaxOfTwo
<1>3. /\ Max({0, m - p.included}) = (IF 0 >= m - p.included THEN 0 ELSE m - p.included)
      /\ Max({0, n - p.included}) = (IF 0 >= n - p.included THEN 0 ELSE n - p.included)
  BY <1>1, <1>2
<1>4. Max({0, m - p.included}) <= Max({0, n - p.included}) BY <1>1, <1>3
<1> QED BY <1>4 DEF BillableQuantity

LEMMA AmountRises ==
  ASSUME NEW p \in Pricing, p.rating # "volume", NEW m \in Nat, NEW n \in Nat, m <= n
  PROVE  Amount(p, m) <= Amount(p, n)
<1> DEFINE a == BillableQuantity(p, m)
           b == BillableQuantity(p, n)
           Of(quantity) ==
             IF quantity = 0 \/ (p.rating # "package" /\ p.tiers = <<>>) THEN 0
             ELSE CASE p.rating = "package" -> Packages(quantity, p.billingUnits) * p.price
                    [] p.rating = "volume" -> Sum(VolumeBreakdown(quantity, p.tiers))
                    [] p.rating = "graduated" -> Sum(GraduatedBreakdown(quantity, p.tiers))
<1>1. a \in Nat /\ b \in Nat /\ a <= b BY QuantityTyped, QuantityRises
<1>2. Amount(p, m) = Of(a) /\ Amount(p, n) = Of(b) BY DEF Amount
<1>3. Amount(p, m) \in Nat /\ Amount(p, n) \in Nat BY AmountTyped
<1>4. /\ p.tiers \in Seq(Tier) /\ p.price \in Nat /\ p.billingUnits \in Nat
      /\ p.rating \in {"package", "graduated"}
  BY DEF Pricing
<1> HIDE DEF a, b
<1>5. CASE Of(a) = 0
  <2> HIDE DEF Of
  <2> QED BY <1>2, <1>3, <1>5
<1>6. CASE Of(a) # 0 /\ p.rating = "package"
  <2>1. Of(a) = Packages(a, p.billingUnits) * p.price BY <1>6
  <2>2. Of(b) = Packages(b, p.billingUnits) * p.price BY <1>1, <1>6
  <2>3. /\ Packages(a, p.billingUnits) \in Nat /\ Packages(b, p.billingUnits) \in Nat
        /\ Packages(a, p.billingUnits) <= Packages(b, p.billingUnits)
    BY <1>1, <1>4, PackagesTyped, PackagesRise
  <2>4. Packages(a, p.billingUnits) * p.price <= Packages(b, p.billingUnits) * p.price
    BY <1>4, <2>3, TimesRises
  <2> QED BY <1>2, <2>1, <2>2, <2>4
<1>7. CASE Of(a) # 0 /\ p.rating = "graduated"
  <2>1. Of(a) = Sum(GraduatedBreakdown(a, p.tiers)) BY <1>7
  <2>2. Of(b) = Sum(GraduatedBreakdown(b, p.tiers)) BY <1>1, <1>7
  <2>3. Sum(GraduatedBreakdown(a, p.tiers)) <= Sum(GraduatedBreakdown(b, p.tiers))
    BY <1>1, <1>4, GraduatedRises
  <2> QED BY <1>2, <2>1, <2>2, <2>3
<1> QED BY <1>4, <1>5, <1>6, <1>7

-----------------------------------------------------------------------------
(* What an invoice asks for, against all usage the customer has: usage is only *)
(* ever added, so no calculation counted more of it than there is now.         *)

Used(f) == {r \in stored : FeatureOf[r] = f}
Costs == [f \in Features |-> Amount(PricingOf[f], Cardinality(Used(f)))]
UsedCost == Total(Costs, Features)

NoVolume == \A f \in Features : PricingOf[f].rating # "volume"
Counted == \A g \in Generators, f \in Features : calc[g].usage[f] <= Cardinality(Used(f))
InvoiceWithinUsage == \A i \in Invoices : total[i] <= UsedCost

LEMMA UsedTyped ==
  ASSUME NEW D \in SUBSET Records
  PROVE  IsFiniteSet(D) /\ Cardinality(D) \in Nat
BY InvoicingAssumption, FS_Subset, FS_CardinalityType

LEMMA UsageStays ==
  ASSUME TypeInv, [Next]_vars
  PROVE  stored \subseteq stored'
<1> USE DEF ledger
<1>1. ASSUME NEW g \in Generators, QuietStep(g) PROVE stored' = stored BY <1>1, QuietLedger
<1>2. ASSUME NEW g \in Generators, Decide(g) PROVE stored' = stored BY <1>2 DEF Decide
<1>3. ASSUME NEW t \in Threshold, CreateRun(t) \/ CreateWorkflow(t) \/ FailRun(t) \/ MarkRun(t)
      PROVE  stored' = stored
  BY <1>3 DEF CreateRun, CreateWorkflow, FailRun, MarkRun
<1>4. ASSUME NEW w \in Workflows, Collect(w) \/ Caught(w) PROVE stored' = stored
  BY <1>4 DEF Collect, Caught
<1>5. ASSUME NEW i \in Invoices, PayInvoice(i) \/ StartRelease(i) \/ FinishRelease(i)
      PROVE  stored' = stored
  BY <1>5 DEF PayInvoice, StartRelease, FinishRelease
<1>6. ASSUME NEW r \in Records, Track(r) \/ Arrive(r) PROVE stored \subseteq stored'
  BY <1>6 DEF Track, Arrive
<1>7. CASE UNCHANGED vars BY <1>7 DEF vars
<1>8. ASSUME NEW t \in Threshold, RunStepFails(t) PROVE stored' = stored BY <1>8, RunStumbles
<1> QED BY NextCases, <1>1, <1>2, <1>3, <1>4, <1>5, <1>6, <1>7, <1>8

LEMMA UsedGrows ==
  ASSUME TypeInv, TypeInv', [Next]_vars, NEW f
  PROVE  /\ Cardinality(Used(f)) \in Nat /\ Cardinality(Used(f)') \in Nat
         /\ Cardinality(Used(f)) <= Cardinality(Used(f)')
<1>1. Used(f) \in SUBSET Records /\ Used(f)' \in SUBSET Records
  BY DEF Used, TypeInv, LedgerOK
<1>2. Used(f) \subseteq Used(f)' BY UsageStays DEF Used
<1>3. \A D, E \in SUBSET Records : D \subseteq E => Cardinality(D) <= Cardinality(E)
  <2> TAKE D, E \in SUBSET Records
  <2> HAVE D \subseteq E
  <2>1. IsFiniteSet(E) BY UsedTyped
  <2> QED BY <2>1, FS_Subset
<1>4. \A D \in SUBSET Records : Cardinality(D) \in Nat BY UsedTyped
<1> QED BY <1>1, <1>2, <1>3, <1>4

\* A feature costs at least nothing, and no less with the next step.
LEMMA CostGrows ==
  ASSUME NoVolume, TypeInv, TypeInv', [Next]_vars
  PROVE  UsedCost \in Int /\ UsedCost' \in Int /\ UsedCost <= UsedCost'
<1>1. \A f \in Features : /\ Costs[f] \in Int /\ Costs'[f] \in Int
                          /\ Costs[f] <= Costs'[f]
  <2> TAKE f \in Features
  <2> DEFINE m == Cardinality(Used(f))
             n == Cardinality(Used(f)')
  <2>1. m \in Nat /\ n \in Nat /\ m <= n BY UsedGrows
  <2>2. Costs[f] = Amount(PricingOf[f], m) /\ Costs'[f] = Amount(PricingOf[f], n) BY DEF Costs
  <2>3. PricingOf[f] \in Pricing /\ PricingOf[f].rating # "volume"
    BY InvoicingAssumption DEF NoVolume
  <2> HIDE DEF m, n
  <2>4. /\ Amount(PricingOf[f], m) \in Nat /\ Amount(PricingOf[f], n) \in Nat
        /\ Amount(PricingOf[f], m) <= Amount(PricingOf[f], n)
    BY <2>1, <2>3, AmountTyped, AmountRises
  <2> QED BY <2>2, <2>4
<1>2. IsFiniteSet(Features) BY InvoicingAssumption
<1>3. Total(Costs, Features) \in Int /\ Total(Costs', Features) \in Int
  BY <1>1, <1>2, TotalType
<1>4. Total(Costs, Features) <= Total(Costs', Features) BY <1>1, <1>2, TotalMonotone
<1> QED BY <1>3, <1>4 DEF UsedCost

\* The difference of two ratings is no more than the second.
LEMMA RatedWithin ==
  ASSUME NoVolume, NEW c \in Calculation, NEW f \in Features, NEW n \in Nat, c.usage[f] <= n
  PROVE  RatedOf(c, f).amount <= Amount(PricingOf[f], n)
<1> DEFINE p == PricingOf[f]
           before == Max({0, c.usage[f] - c.unbilled[f]})
           after == c.usage[f]
<1>1. after \in Nat /\ c.unbilled[f] \in Nat BY DEF Calculation
<1>2. before \in Nat
  <2>1. after - c.unbilled[f] \in Int BY <1>1
  <2>2. before = IF 0 >= after - c.unbilled[f] THEN 0 ELSE after - c.unbilled[f]
    BY <2>1, MaxOfTwo
  <2> QED BY <2>1, <2>2
<1>3. p \in Pricing /\ p.rating # "volume" BY InvoicingAssumption DEF NoVolume
<1>4. RatedOf(c, f) = IF c.unbilled[f] = 0 THEN [quantity |-> 0, amount |-> 0]
                      ELSE RateUsageDelta(p, before, after)
  BY DEF RatedOf
<1> HIDE DEF before, p
<1>5. Amount(p, before) \in Nat /\ Amount(p, after) \in Nat /\ Amount(p, n) \in Nat
  BY <1>1, <1>2, <1>3, AmountTyped
<1>6. Amount(p, after) <= Amount(p, n) BY <1>1, <1>3, AmountRises
<1>7. RatedOf(c, f).amount = 0 \/ RatedOf(c, f).amount = Amount(p, after) - Amount(p, before)
  BY <1>4 DEF RateUsageDelta
<1> QED BY <1>5, <1>6, <1>7 DEF p

\* What a generator asks for is within what the usage it counted costs.
LEMMA TotalWithin ==
  ASSUME NoVolume, TypeInv, Counted, NEW g \in Generators
  PROVE  TotalOf(calc[g]) <= UsedCost
<1> DEFINE c == calc[g]
           B == BillableOf(c)
           asked == [f \in Features |-> RatedOf(c, f).amount]
<1>1. c \in Calculation BY DEF TypeInv, GeneratorsOK
<1>2. B \subseteq Features /\ IsFiniteSet(Features) BY InvoicingAssumption DEF BillableOf
<1>3. \A f \in Features : Costs[f] \in Nat /\ asked[f] \in Int /\ asked[f] <= Costs[f]
  <2> TAKE f \in Features
  <2> DEFINE n == Cardinality(Used(f))
  <2>1. n \in Nat
    <3>1. Used(f) \in SUBSET Records BY DEF Used, TypeInv, LedgerOK
    <3> QED BY <3>1, UsedTyped
  <2>2. c.usage[f] <= n BY DEF Counted
  <2>3. Costs[f] = Amount(PricingOf[f], n) /\ asked[f] = RatedOf(c, f).amount BY DEF Costs
  <2> HIDE DEF n, c
  <2>4. asked[f] <= Amount(PricingOf[f], n) /\ asked[f] \in Int
    BY <1>1, <2>1, <2>2, <2>3, RatedWithin, RatedTyped
  <2>5. Amount(PricingOf[f], n) \in Nat BY <2>1, InvoicingAssumption, AmountTyped
  <2> QED BY <2>3, <2>4, <2>5
<1>4. TotalOf(c) = Total(asked, B) BY DEF TotalOf
<1> HIDE DEF c, B, asked
<1>5. IsFiniteSet(B) BY <1>2, FS_Subset
<1>6. Total(asked, B) <= Total(Costs, B) BY <1>2, <1>3, <1>5, TotalMonotone
<1>7. Total(Costs, B) <= Total(Costs, Features) BY <1>2, <1>3, TotalSubset
<1>8. Total(asked, B) \in Int /\ Total(Costs, B) \in Int /\ Total(Costs, Features) \in Int
  BY <1>2, <1>3, <1>5, TotalType
<1> QED BY <1>4, <1>6, <1>7, <1>8 DEF UsedCost, c

\* A calculation counts what is stored when it counts.
LEMMA CountedStep ==
  ASSUME TypeInv, TypeInv', Counted, [Next]_vars
  PROVE  Counted'
<1>0. calc \in [Generators -> Calculation] /\ calc' \in [Generators -> Calculation]
  BY DEF TypeInv, GeneratorsOK
<1>1. \A f : /\ Cardinality(Used(f)) \in Nat /\ Cardinality(Used(f)') \in Nat
             /\ Cardinality(Used(f)) <= Cardinality(Used(f)')
  BY UsedGrows
<1>2. \A g \in Generators, f \in Features : calc[g].usage[f] \in Nat BY <1>0 DEF Calculation
<1>k. ASSUME UNCHANGED calc PROVE Counted' BY <1>k, <1>1, <1>2 DEF Counted
<1>3. ASSUME NEW g \in Generators, ReadUnbilled(g) PROVE Counted'
  <2>1. \E cutoff, unbilled, last :
          calc' = [calc EXCEPT ![g] = [cutoff |-> cutoff, unbilled |-> unbilled,
                                       last |-> last, usage |-> Nothing]]
    BY <1>3 DEF ReadUnbilled
  <2>3. calc'[g].usage = Nothing /\ \A h \in Generators : h # g => calc'[h] = calc[h]
    BY <1>0, <2>1
  <2>2. ASSUME NEW h \in Generators, NEW f \in Features
        PROVE  calc'[h].usage[f] <= Cardinality(Used(f)')
    <3>1. CASE h = g
      <4>1. calc'[h].usage[f] = 0 BY <2>3, <3>1 DEF Nothing
      <4> QED BY <1>1, <4>1
    <3>2. CASE h # g BY <1>1, <1>2, <2>3, <3>2 DEF Counted
    <3> QED BY <3>1, <3>2
  <2> QED BY <2>2 DEF Counted
<1>4. ASSUME NEW g \in Generators, NEW f \in Features, SumUsage(g, f) PROVE Counted'
  <2> DEFINE until == IF calc[g].cutoff > 0 THEN calc[g].cutoff ELSE Cardinality(Records)
             counted == InFeature(f, until)
             n == Cardinality(counted)
  <2>1. calc' = [calc EXCEPT ![g].usage[f] = n] BY <1>4 DEF SumUsage
  <2>2. counted \subseteq Used(f) /\ Used(f) \in SUBSET Records
    BY DEF InFeature, Used, TypeInv, LedgerOK
  <2> HIDE DEF counted
  <2>3. IsFiniteSet(Used(f)) BY <2>2, UsedTyped
  <2>4. n \in Nat /\ n <= Cardinality(Used(f))
    <3>1. counted \in SUBSET Records BY <2>2
    <3> QED BY <2>2, <2>3, <3>1, FS_Subset, UsedTyped
  <2> HIDE DEF n
  <2>5. ASSUME NEW h \in Generators, NEW d \in Features
        PROVE  calc'[h].usage[d] <= Cardinality(Used(d)')
    <3>1. CASE h = g /\ d = f
      <4>1. calc'[h].usage[d] = n BY <1>0, <2>1, <3>1 DEF Calculation
      <4> QED BY <1>1, <2>4, <3>1, <4>1
    <3>2. CASE ~(h = g /\ d = f)
      <4>1. calc'[h].usage[d] = calc[h].usage[d] BY <1>0, <2>1, <3>2 DEF Calculation
      <4> QED BY <1>1, <1>2, <4>1 DEF Counted
    <3> QED BY <3>1, <3>2
  <2> QED BY <2>5 DEF Counted
<1>5. ASSUME NEW g \in Generators, QuietStep(g) PROVE Counted'
  BY <1>5, <1>k, <1>3, <1>4, CalcStep
<1> USE DEF generator
<1>6. ASSUME NEW g \in Generators, Decide(g) PROVE Counted' BY <1>6, <1>k DEF Decide
<1>7. ASSUME NEW t \in Threshold, CreateRun(t) \/ CreateWorkflow(t) \/ FailRun(t) \/ MarkRun(t)
      PROVE  Counted'
  BY <1>7, <1>k DEF CreateRun, CreateWorkflow, FailRun, MarkRun
<1>8. ASSUME NEW w \in Workflows, Collect(w) \/ Caught(w) PROVE Counted'
  BY <1>8, <1>k DEF Collect, Caught
<1>9. ASSUME NEW i \in Invoices, PayInvoice(i) \/ StartRelease(i) \/ FinishRelease(i)
      PROVE  Counted'
  BY <1>9, <1>k DEF PayInvoice, StartRelease, FinishRelease
<1>10. ASSUME NEW r \in Records, Track(r) \/ Arrive(r) PROVE Counted'
  BY <1>10, <1>k DEF Track, Arrive
<1>11. CASE UNCHANGED vars BY <1>11, <1>k DEF vars
<1>12. ASSUME NEW t \in Threshold, RunStepFails(t) PROVE Counted' BY <1>12, <1>k, RunStumbles
<1> QED BY NextCases, <1>5, <1>6, <1>7, <1>8, <1>9, <1>10, <1>11, <1>12

\* Totals are written in inserting an invoice and in deleting one.
LEMMA TotalStep ==
  ASSUME [Next]_vars
  PROVE  \/ UNCHANGED total
         \/ \E g \in Generators : InsertInvoice(g) \/ ItemFails(g)
<1> USE DEF invoice
<1>1. ASSUME NEW g \in Generators, QuietStep(g)
      PROVE  UNCHANGED total \/ InsertInvoice(g) \/ ItemFails(g)
  BY <1>1, QuietRows DEF VoidAfterFailure, InsertItem
<1>2. ASSUME NEW g \in Generators, Decide(g) PROVE UNCHANGED total BY <1>2 DEF Decide
<1>3. ASSUME NEW t \in Threshold, CreateRun(t) \/ CreateWorkflow(t) \/ FailRun(t) \/ MarkRun(t)
      PROVE  UNCHANGED total
  BY <1>3 DEF CreateRun, CreateWorkflow, FailRun, MarkRun
<1>4. ASSUME NEW w \in Workflows, Collect(w) \/ Caught(w) PROVE UNCHANGED total
  BY <1>4 DEF Collect, Caught
<1>5. ASSUME NEW i \in Invoices, PayInvoice(i) \/ StartRelease(i) \/ FinishRelease(i)
      PROVE  UNCHANGED total
  BY <1>5 DEF PayInvoice, StartRelease, FinishRelease
<1>6. ASSUME NEW r \in Records, Track(r) \/ Arrive(r) PROVE UNCHANGED total
  BY <1>6 DEF Track, Arrive
<1>7. CASE UNCHANGED vars BY <1>7 DEF vars
<1>8. ASSUME NEW t \in Threshold, RunStepFails(t) PROVE UNCHANGED total BY <1>8, RunStumbles
<1> QED BY NextCases, <1>1, <1>2, <1>3, <1>4, <1>5, <1>6, <1>7, <1>8

LEMMA WithinStep ==
  ASSUME NoVolume, TypeInv, TypeInv', Counted, InvoiceWithinUsage, [Next]_vars
  PROVE  InvoiceWithinUsage'
<1>0. /\ total \in [Invoices -> Int]
      /\ UsedCost \in Int /\ UsedCost' \in Int /\ UsedCost <= UsedCost'
  BY CostGrows DEF TypeInv, RowsOK
<1>1. CASE UNCHANGED total BY <1>0, <1>1 DEF InvoiceWithinUsage
<1>2. ASSUME NEW g \in Generators, NEW n \in Int, n <= UsedCost,
             total' = [total EXCEPT ![target[g]] = n]
      PROVE  InvoiceWithinUsage'
  BY <1>0, <1>2 DEF InvoiceWithinUsage
<1>3. ASSUME NEW g \in Generators, InsertInvoice(g) PROVE InvoiceWithinUsage'
  <2>1. \/ UNCHANGED total
        \/ total' = [total EXCEPT ![target[g]] = TotalOf(calc[g])]
    BY <1>3, CalcOf DEF InsertInvoice
  <2>2. TotalOf(calc[g]) \in Int BY TotalOfTyped DEF TypeInv, GeneratorsOK
  <2> QED BY <1>1, <1>2, <2>1, <2>2, TotalWithin
<1>4. ASSUME NEW g \in Generators, ItemFails(g) PROVE InvoiceWithinUsage'
  <2>1. \/ UNCHANGED total
        \/ total' = [total EXCEPT ![target[g]] = 0]
    BY <1>4 DEF ItemFails, invoice
  <2>2. 0 <= UsedCost
    <3> DEFINE none == [f \in Features |-> 0]
    <3>1. IsFiniteSet(Features) BY InvoicingAssumption
    <3>2. \A f \in Features : Costs[f] \in Nat
      <4> TAKE f \in Features
      <4>1. Used(f) \in SUBSET Records BY DEF Used, TypeInv, LedgerOK
      <4>2. Cardinality(Used(f)) \in Nat BY <4>1, UsedTyped
      <4> QED BY <4>2, InvoicingAssumption, AmountTyped DEF Costs
    <3>3. UsedCost \in Nat BY <3>1, <3>2, TotalType DEF UsedCost
    <3> QED BY <3>3
  <2> QED BY <1>1, <1>2, <2>1, <2>2
<1> QED BY <1>1, <1>3, <1>4, TotalStep

LEMMA WithinInit == Init => Counted /\ InvoiceWithinUsage
<1> SUFFICES ASSUME Init PROVE Counted /\ InvoiceWithinUsage OBVIOUS
<1>1. \A f : Used(f) = {} BY DEF Init, Used
<1>2. \A f : Cardinality(Used(f)) = 0 BY <1>1, FS_EmptySet
<1>3. Counted
  <2>1. \A g \in Generators, f \in Features : calc[g].usage[f] = 0
    BY DEF Init, NoCalculation, Nothing
  <2> QED BY <1>2, <2>1 DEF Counted
<1>4. \A f \in Features : Costs[f] \in Nat
  <2> TAKE f \in Features
  <2>1. Cardinality(Used(f)) \in Nat /\ PricingOf[f] \in Pricing
    BY <1>2, InvoicingAssumption
  <2> QED BY <2>1, AmountTyped DEF Costs
<1>5. IsFiniteSet(Features) BY InvoicingAssumption
<1>6. UsedCost \in Nat BY <1>4, <1>5, TotalType DEF UsedCost
<1> QED BY <1>3, <1>6 DEF InvoiceWithinUsage, Init

(* No invoice asks for more than all usage the customer has costs by now,     *)
(* whichever generators run at once, and whatever fails, is run again,        *)
(* arrives late or is released: a calculation counts usage there is, and      *)
(* bills the difference of two ratings of it.  The invoices together may ask  *)
(* for more: two generators may read the same usage as unbilled.  Volume      *)
(* prices are left out because the band reached prices every unit: there more *)
(* usage may cost less.                                                       *)
THEOREM InvoicesWithinUsage ==
  ASSUME NoVolume
  PROVE  Spec => []InvoiceWithinUsage
<1>1. Init => TypeInv /\ Counted /\ InvoiceWithinUsage BY TypeInvInit, WithinInit
<1>2. TypeInv /\ Counted /\ InvoiceWithinUsage /\ [Next]_vars
        => (TypeInv /\ Counted /\ InvoiceWithinUsage)'
  BY TypeInvStep, CountedStep, WithinStep
<1> QED BY <1>1, <1>2, PTL DEF Spec

-----------------------------------------------------------------------------
(* The prices of tiers.  A tier holds the units above the bound of the     *)
(* tier before, up to its own, if it has one and is not the last.          *)
From(tiers, i) == IF i = 1 THEN 0 ELSE tiers[i - 1].upTo
Endless(tiers, i) == tiers[i].upTo = NoBound \/ i = Len(tiers)
InBand(tiers, i, n) == From(tiers, i) < n /\ (Endless(tiers, i) \/ n <= tiers[i].upTo)

\* How many of the first n units a tier holds, and what they cost.
UnitsIn(tiers, i, n) ==
  IF n <= From(tiers, i) THEN 0
  ELSE IF Endless(tiers, i) \/ n <= tiers[i].upTo THEN n - From(tiers, i)
       ELSE tiers[i].upTo - From(tiers, i)
Priced(tier, units) ==
  IF units = 0 THEN NoLine
  ELSE [units |-> units, amount |-> units * tier.unitPrice + tier.flatFee]

LEMMA TiersTyped ==
  ASSUME NEW tiers \in Seq(Tier)
  PROVE  /\ DOMAIN tiers = 1 .. Len(tiers) /\ Len(tiers) \in Nat
         /\ \A i \in DOMAIN tiers :
              /\ tiers[i].upTo \in Nat /\ tiers[i].unitPrice \in Nat /\ tiers[i].flatFee \in Nat
              /\ From(tiers, i) \in Nat
              /\ \A n \in Nat : UnitsIn(tiers, i, n) \in Int
<1>1. \A i \in DOMAIN tiers : tiers[i] \in Tier OBVIOUS
<1>2. \A i \in DOMAIN tiers :
        tiers[i].upTo \in Nat /\ tiers[i].unitPrice \in Nat /\ tiers[i].flatFee \in Nat
  BY <1>1 DEF Tier
<1>3. DOMAIN tiers = 1 .. Len(tiers) /\ Len(tiers) \in Nat OBVIOUS
<1>4. \A i \in DOMAIN tiers : From(tiers, i) \in Nat
  <2> SUFFICES ASSUME NEW i \in DOMAIN tiers, i # 1 PROVE tiers[i - 1].upTo \in Nat BY DEF From
  <2>1. i - 1 \in DOMAIN tiers BY <1>3
  <2> QED BY <1>2, <2>1
<1>5. \A i \in DOMAIN tiers : \A n \in Nat : UnitsIn(tiers, i, n) \in Int
  BY <1>2, <1>4 DEF UnitsIn
<1> QED BY <1>2, <1>3, <1>4, <1>5

LEMMA BoundsRise ==
  ASSUME NEW tiers \in Seq(Tier), Ascending(tiers)
  PROVE  /\ \A i \in DOMAIN tiers : Endless(tiers, i) => i = Len(tiers)
         /\ \A i \in DOMAIN tiers : i # Len(tiers) => tiers[i].upTo > From(tiers, i)
         /\ \A i, j \in DOMAIN tiers : i < j => tiers[i].upTo <= From(tiers, j)
<1>1. /\ DOMAIN tiers = 1 .. Len(tiers) /\ Len(tiers) \in Nat
      /\ \A i \in DOMAIN tiers : tiers[i].upTo \in Nat /\ From(tiers, i) \in Nat
  BY TiersTyped
<1>2. \A i \in DOMAIN tiers : i # Len(tiers) => tiers[i].upTo > From(tiers, i)
  BY DEF Ascending, From
<1>3. \A i \in DOMAIN tiers : Endless(tiers, i) => i = Len(tiers)
  BY <1>1, <1>2 DEF Endless, NoBound
<1> DEFINE Good == {k \in Nat : \A i, j \in DOMAIN tiers :
                                  i < j /\ j <= i + k => tiers[i].upTo <= From(tiers, j)}
<1>4. 0 \in Good BY <1>1
<1>5. ASSUME NEW k \in Good PROVE k + 1 \in Good
  <2> SUFFICES ASSUME NEW i \in DOMAIN tiers, NEW j \in DOMAIN tiers, i < j, j <= i + (k + 1)
               PROVE  tiers[i].upTo <= From(tiers, j)
    OBVIOUS
  <2>1. From(tiers, j) = tiers[j - 1].upTo BY <1>1 DEF From
  <2>2. CASE j = i + 1 BY <1>1, <2>1, <2>2
  <2>3. CASE j # i + 1
    <3>1. j - 1 \in DOMAIN tiers /\ i < j - 1 /\ j - 1 <= i + k /\ j - 1 # Len(tiers) BY <1>1, <2>3
    <3>2. tiers[i].upTo <= From(tiers, j - 1) BY <3>1
    <3>3. tiers[j - 1].upTo > From(tiers, j - 1) BY <1>2, <3>1
    <3> QED BY <1>1, <2>1, <3>1, <3>2, <3>3
  <2> QED BY <2>2, <2>3
<1>6. Good = Nat
  <2>1. Good \in SUBSET Nat OBVIOUS
  <2> HIDE DEF Good
  <2> QED BY <1>4, <1>5, <2>1, NumberInduction
<1>7. ASSUME NEW i \in DOMAIN tiers, NEW j \in DOMAIN tiers, i < j
      PROVE  tiers[i].upTo <= From(tiers, j)
  <2>1. j - i \in Nat /\ j <= i + (j - i) BY <1>1, <1>7
  <2>2. j - i \in Good BY <1>6, <2>1
  <2> QED BY <1>7, <2>1, <2>2
<1> QED BY <1>2, <1>3, <1>7

\* findTierIndex finds the one tier that holds the unit.
LEMMA TierHolds ==
  ASSUME NEW tiers \in Seq(Tier), tiers # <<>>, Ascending(tiers), NEW n \in Nat \ {0}
  PROVE  /\ TierIndex(n, tiers) \in DOMAIN tiers
         /\ \A i \in DOMAIN tiers : InBand(tiers, i, n) <=> i = TierIndex(n, tiers)
<1> DEFINE found == {i \in DOMAIN tiers : \/ tiers[i].upTo = NoBound \/ n <= tiers[i].upTo
                                          \/ i = Len(tiers)}
           t == TierIndex(n, tiers)
<1>1. /\ DOMAIN tiers = 1 .. Len(tiers) /\ Len(tiers) \in Nat
      /\ \A i \in DOMAIN tiers : tiers[i].upTo \in Nat /\ From(tiers, i) \in Nat
  BY TiersTyped
<1>2. t \in DOMAIN tiers BY TierTyped
<1>3. t \in found /\ \A i \in found : t <= i
  <2>1. IsFiniteSet(DOMAIN tiers) BY <1>1, FS_Interval
  <2>2. found \subseteq DOMAIN tiers OBVIOUS
  <2>3. Len(tiers) # 0 OBVIOUS
  <2>4. Len(tiers) \in found BY <1>1, <2>3
  <2>5. IsFiniteSet(found) BY <2>1, <2>2, FS_Subset
  <2>6. t = Min(found) BY DEF TierIndex
  <2>7. found \in SUBSET Int /\ found # {} BY <1>1, <2>2, <2>4
  <2> HIDE DEF found, t
  <2> QED BY <2>5, <2>6, <2>7, MinOf
<1> HIDE DEF t
<1>4. InBand(tiers, t, n)
  <2>1. Endless(tiers, t) \/ n <= tiers[t].upTo BY <1>3 DEF Endless
  <2>2. CASE t = 1 BY <2>1, <2>2 DEF InBand, From
  <2>3. CASE t # 1
    <3>1. t - 1 \in DOMAIN tiers /\ t - 1 \notin found BY <1>1, <1>2, <1>3, <2>3
    <3>2. tiers[t - 1].upTo < n BY <1>1, <3>1
    <3> QED BY <2>1, <2>3, <3>2 DEF InBand, From
  <2> QED BY <2>2, <2>3
<1>5. ASSUME NEW i \in DOMAIN tiers, InBand(tiers, i, n) PROVE i = t
  <2>1. i \in found BY <1>5 DEF InBand, Endless
  <2>2. t <= i BY <1>3, <2>1
  <2>3. ASSUME t < i PROVE FALSE
    <3>1. t # Len(tiers) BY <1>1, <2>3
    <3>2. ~Endless(tiers, t) BY <1>2, <3>1, BoundsRise
    <3>3. n <= tiers[t].upTo BY <1>4, <3>2 DEF InBand
    <3>4. tiers[t].upTo <= From(tiers, i) BY <1>2, <2>3, BoundsRise
    <3>5. From(tiers, i) < n BY <1>5 DEF InBand
    <3> QED BY <1>1, <1>2, <3>3, <3>4, <3>5
  <2> QED BY <1>1, <1>2, <2>2, <2>3
<1> QED BY <1>2, <1>4, <1>5 DEF t

\* One round of the loop gives the tier the units it holds of the quantity.
LEMMA PlacesBand ==
  ASSUME NEW tiers \in Seq(Tier), Ascending(tiers), NEW n \in Nat,
         NEW acc \in Placed(DOMAIN tiers), NEW i \in DOMAIN tiers,
         acc.left = (IF n <= From(tiers, i) THEN 0 ELSE n - From(tiers, i)),
         acc.bound = From(tiers, i), acc.lines[i] = NoLine
  PROVE  /\ i # Len(tiers) => PlaceIn(tiers, acc, i).left =
              (IF n <= tiers[i].upTo THEN 0 ELSE n - tiers[i].upTo)
         /\ i # Len(tiers) => PlaceIn(tiers, acc, i).bound = tiers[i].upTo
         /\ PlaceIn(tiers, acc, i).lines[i] = Priced(tiers[i], UnitsIn(tiers, i, n))
         /\ \A j \in DOMAIN tiers : j # i => PlaceIn(tiers, acc, i).lines[j] = acc.lines[j]
<1> DEFINE open == tiers[i].upTo = NoBound \/ i = Len(tiers)
           units == IF open THEN acc.left ELSE Min({acc.left, tiers[i].upTo - acc.bound})
           line == [units |-> units, amount |-> units * tiers[i].unitPrice + tiers[i].flatFee]
           held == UnitsIn(tiers, i, n)
<1>1. tiers[i].upTo \in Nat /\ From(tiers, i) \in Nat /\ held \in Int BY TiersTyped
<1>2. acc.left \in Nat /\ acc.bound \in Nat /\ acc.lines \in [DOMAIN tiers -> Line] BY DEF Placed
<1>3. i # Len(tiers) => ~open /\ tiers[i].upTo > From(tiers, i)
  BY BoundsRise DEF Endless
<1>4. units = held
  <2>1. CASE open BY <1>1, <2>1 DEF UnitsIn, Endless
  <2>2. CASE ~open
    <3>1. tiers[i].upTo > From(tiers, i) BY <1>3, <2>2
    <3>2. Min({acc.left, tiers[i].upTo - acc.bound}) =
            IF acc.left <= tiers[i].upTo - acc.bound THEN acc.left ELSE tiers[i].upTo - acc.bound
      BY <1>1, <1>2, MinOfTwo
    <3>3. units = IF acc.left <= tiers[i].upTo - acc.bound THEN acc.left
                  ELSE tiers[i].upTo - acc.bound
      BY <2>2, <3>2
    <3>4. held = IF n <= From(tiers, i) THEN 0
                 ELSE IF n <= tiers[i].upTo THEN n - From(tiers, i)
                      ELSE tiers[i].upTo - From(tiers, i)
      BY <2>2 DEF UnitsIn, Endless
    <3> HIDE DEF units, held, open
    <3> QED BY <1>1, <3>1, <3>3, <3>4
  <2> QED BY <2>1, <2>2
<1>5. held >= 0
  BY <1>1, <1>3 DEF UnitsIn, Endless
<1>6. PlaceIn(tiers, acc, i) =
        [left |-> acc.left - Max({0, units}),
         bound |-> IF open THEN acc.bound ELSE tiers[i].upTo,
         lines |-> IF units > 0 THEN [acc.lines EXCEPT ![i] = line] ELSE acc.lines]
  BY DEF PlaceIn
<1>7. Max({0, units}) = units
  <2>1. Max({0, held}) = IF 0 >= held THEN 0 ELSE held BY <1>1, MaxOfTwo
  <2> HIDE DEF units, held
  <2> QED BY <1>1, <1>4, <1>5, <2>1
<1>8. line = [units |-> held, amount |-> held * tiers[i].unitPrice + tiers[i].flatFee] BY <1>4
<1>9. ASSUME i # Len(tiers)
      PROVE  acc.left - held = IF n <= tiers[i].upTo THEN 0 ELSE n - tiers[i].upTo
  <2>1. ~Endless(tiers, i) /\ tiers[i].upTo > From(tiers, i) BY <1>3, <1>9 DEF Endless
  <2> QED BY <1>1, <2>1 DEF UnitsIn
<1>10. held = 0 \/ held > 0 BY <1>1, <1>5
<1> HIDE DEF units, held, line, open
<1>11. PlaceIn(tiers, acc, i).left = acc.left - held BY <1>4, <1>6, <1>7
<1>12. PlaceIn(tiers, acc, i).bound = IF open THEN acc.bound ELSE tiers[i].upTo BY <1>6
<1>13. PlaceIn(tiers, acc, i).lines = IF held > 0 THEN [acc.lines EXCEPT ![i] = line]
                                      ELSE acc.lines
  BY <1>4, <1>6
<1>14. PlaceIn(tiers, acc, i).lines[i] = Priced(tiers[i], held)
  <2>1. CASE held > 0 BY <1>1, <1>2, <1>8, <1>13, <2>1 DEF Priced
  <2>2. CASE held = 0 BY <1>13, <2>2 DEF Priced
  <2> QED BY <1>10, <2>1, <2>2
<1>15. \A j \in DOMAIN tiers : j # i => PlaceIn(tiers, acc, i).lines[j] = acc.lines[j]
  BY <1>2, <1>13
<1> QED BY <1>3, <1>9, <1>11, <1>12, <1>14, <1>15 DEF held

\* So that the whole loop gives each tier the units it holds.
LEMMA GraduatedLines ==
  ASSUME NEW tiers \in Seq(Tier), tiers # <<>>, Ascending(tiers), NEW n \in Nat
  PROVE  \A i \in DOMAIN tiers :
           GraduatedBreakdown(n, tiers)[i] = Priced(tiers[i], UnitsIn(tiers, i, n))
<1> DEFINE D == DOMAIN tiers
           N == Len(tiers)
           chosen == CHOOSE iter : Loop(iter, n, tiers, SUBSET D)
           bound(k) == IF k = 0 THEN 0 ELSE tiers[k].upTo
           Walk(k) ==
             /\ chosen[1 .. k] \in Placed(D)
             /\ k < N => /\ chosen[1 .. k].bound = bound(k)
                         /\ chosen[1 .. k].left = (IF n <= bound(k) THEN 0 ELSE n - bound(k))
             /\ \A i \in D : chosen[1 .. k].lines[i] =
                               IF i <= k THEN Priced(tiers[i], UnitsIn(tiers, i, n)) ELSE NoLine
           Good == {k \in Nat : k <= N => Walk(k)}
<1>1. IsFiniteSet(D) /\ D \subseteq Int /\ D = 1 .. N /\ N \in Nat /\ N # 0
  <2>1. D = 1 .. N /\ N \in Nat /\ N # 0 OBVIOUS
  <2> QED BY <2>1, FS_Interval
<1>2. DOMAIN [i \in D |-> i] = D OBVIOUS
<1>3. Loop(chosen, n, tiers, SUBSET D) BY <1>1, LoopExists
<1>4. GraduatedBreakdown(n, tiers) = chosen[D].lines BY <1>2, GraduatedIsLoop
<1> HIDE DEF chosen
<1>5. 0 \in Good
  <2>1. 1 .. 0 = {} /\ {} \in SUBSET D OBVIOUS
  <2>2. chosen[1 .. 0] = Unplaced(n, tiers) BY <1>3, <2>1 DEF Loop
  <2>3. Unplaced(n, tiers) \in Placed(D) BY DEF Unplaced, Placed, NoLine, Line
  <2>4. /\ Unplaced(n, tiers).bound = 0 /\ Unplaced(n, tiers).left = n
        /\ \A i \in D : Unplaced(n, tiers).lines[i] = NoLine
    BY DEF Unplaced
  <2>5. \A i \in D : ~(i <= 0) BY <1>1
  <2>6. n <= 0 => n = 0 OBVIOUS
  <2> HIDE DEF D
  <2>7. Walk(0) BY <2>2, <2>3, <2>4, <2>5, <2>6
  <2> QED BY <2>7
<1>6. ASSUME NEW k \in Good PROVE k + 1 \in Good
  <2> DEFINE i == k + 1
             acc == chosen[1 .. k]
  <2> SUFFICES ASSUME i <= N PROVE Walk(i) OBVIOUS
  <2>1. k \in Nat /\ k < N /\ Walk(k) BY <1>1
  <2>2. i \in D /\ i \in 1 .. i /\ 1 .. i \in SUBSET D /\ (1 .. i) \ {i} = 1 .. k BY <1>1, <2>1
  <2>3. Max(1 .. i) = i
    <3>1. 1 .. i \in SUBSET Int /\ IsFiniteSet(1 .. i) /\ 1 .. i # {} BY <2>2, <1>1, FS_Subset
    <3>2. Max(1 .. i) \in 1 .. i /\ i <= Max(1 .. i) BY <2>2, <3>1, MaxOf
    <3> DEFINE m == Max(1 .. i)
    <3>3. m \in 1 .. i /\ i <= m BY <3>2
    <3> HIDE DEF m
    <3>4. m = i BY <2>1, <3>3
    <3> QED BY <3>4 DEF m
  <2>4. chosen[1 .. i] = PlaceIn(tiers, acc, i)
    <3>1. 1 .. i # {} /\ [j \in D |-> j][i] = i BY <2>2
    <3>2. chosen[1 .. i] = PlaceIn(tiers, chosen[(1 .. i) \ {Max(1 .. i)}],
                                   [j \in D |-> j][Max(1 .. i)])
      BY <1>3, <2>2, <3>1 DEF Loop
    <3> HIDE DEF i, D
    <3> QED BY <2>2, <2>3, <3>1, <3>2
  <2>5. bound(k) = From(tiers, i) BY <2>1 DEF From
  <2>6. acc \in Placed(D) /\ acc.bound = From(tiers, i)
        /\ acc.left = (IF n <= From(tiers, i) THEN 0 ELSE n - From(tiers, i))
    BY <2>1, <2>5
  <2>7. /\ acc.lines[i] = NoLine
        /\ \A j \in D : acc.lines[j] =
                         IF j <= k THEN Priced(tiers[j], UnitsIn(tiers, j, n)) ELSE NoLine
    <3>1. ~(i <= k) BY <2>1
    <3> QED BY <2>1, <2>2, <3>1
  <2>8. chosen[1 .. i] \in Placed(D) BY <2>2, <2>4, <2>6, PlaceTyped
  <2>9. /\ i # N => PlaceIn(tiers, acc, i).left =
              (IF n <= tiers[i].upTo THEN 0 ELSE n - tiers[i].upTo)
        /\ i # N => PlaceIn(tiers, acc, i).bound = tiers[i].upTo
        /\ PlaceIn(tiers, acc, i).lines[i] = Priced(tiers[i], UnitsIn(tiers, i, n))
        /\ \A j \in D : j # i => PlaceIn(tiers, acc, i).lines[j] = acc.lines[j]
    <3> HIDE DEF acc
    <3> QED BY <2>2, <2>6, <2>7, PlacesBand
  <2>10. bound(i) = tiers[i].upTo BY <2>1
  <2>11. \A j \in D : j # i => (j <= i <=> j <= k) BY <1>1, <2>1
  <2>12. ASSUME NEW j \in D
         PROVE  chosen[1 .. i].lines[j] =
                  IF j <= i THEN Priced(tiers[j], UnitsIn(tiers, j, n)) ELSE NoLine
    <3>1. CASE j = i
      <4>1. j <= i BY <2>1, <3>1
      <4> QED BY <2>4, <2>9, <3>1, <4>1
    <3>2. CASE j # i BY <2>4, <2>7, <2>9, <2>11, <3>2
    <3> QED BY <3>1, <3>2
  <2>13. i < N => i # N BY <1>1, <2>1
  <2>14. i < N => /\ chosen[1 .. i].bound = bound(i)
                  /\ chosen[1 .. i].left = (IF n <= bound(i) THEN 0 ELSE n - bound(i))
    BY <2>4, <2>9, <2>10, <2>13
  <2> HIDE DEF i, D, bound, N
  <2> QED BY <2>8, <2>12, <2>14
<1>7. Good = Nat
  <2>1. Good \in SUBSET Nat OBVIOUS
  <2> HIDE DEF Good
  <2> QED BY <1>5, <1>6, <2>1, NumberInduction
<1>8. Walk(N) BY <1>1, <1>7
<1>9. \A i \in D : i <= N BY <1>1
<1> QED BY <1>1, <1>4, <1>8, <1>9

\* One more unit falls to the one tier that holds it.
LEMMA NextUnit ==
  ASSUME NEW tiers \in Seq(Tier), Ascending(tiers), NEW n \in Nat, NEW i \in DOMAIN tiers
  PROVE  /\ UnitsIn(tiers, i, n) \in Nat
         /\ UnitsIn(tiers, i, n + 1) =
              UnitsIn(tiers, i, n) + (IF InBand(tiers, i, n + 1) THEN 1 ELSE 0)
<1>1. tiers[i].upTo \in Nat /\ From(tiers, i) \in Nat BY TiersTyped
<1>2. ~Endless(tiers, i) => tiers[i].upTo > From(tiers, i) BY BoundsRise DEF Endless
<1> QED BY <1>1, <1>2 DEF UnitsIn, InBand

\* A tier holds some of the first units when it holds one of them.
LEMMA HeldSome ==
  ASSUME NEW tiers \in Seq(Tier), tiers # <<>>, Ascending(tiers), NEW n \in Nat,
         NEW i \in DOMAIN tiers, InBand(tiers, i, n + 1)
  PROVE  UnitsIn(tiers, i, n) # 0 <=> i \in {TierIndex(m, tiers) : m \in 1 .. n}
<1>1. tiers[i].upTo \in Nat /\ From(tiers, i) \in Nat BY TiersTyped
<1>2. UnitsIn(tiers, i, n) # 0 <=> From(tiers, i) < n BY <1>1 DEF UnitsIn, InBand
<1>3. ASSUME From(tiers, i) < n PROVE i \in {TierIndex(m, tiers) : m \in 1 .. n}
  <2>1. InBand(tiers, i, n) BY <1>1, <1>3 DEF InBand
  <2>2. n \in 1 .. n /\ n \in Nat \ {0} BY <1>1, <1>3
  <2>3. i = TierIndex(n, tiers) BY <2>1, <2>2, TierHolds
  <2> QED BY <2>2, <2>3
<1>4. ASSUME NEW m \in 1 .. n, i = TierIndex(m, tiers) PROVE From(tiers, i) < n
  <2>1. m \in Nat \ {0} OBVIOUS
  <2>2. InBand(tiers, i, m) BY <1>4, <2>1, TierHolds
  <2> QED BY <1>1, <2>2 DEF InBand
<1> QED BY <1>2, <1>3, <1>4

\* A price unit by unit: each costs what the tier that holds it says, and each tier
\* that holds any of them its flat fee.
TiersOf(tiers, n) == {TierIndex(m, tiers) : m \in 1 .. n}
UnitByUnit(tiers, n) ==
  MapThenSumSet(LAMBDA m : tiers[TierIndex(m, tiers)].unitPrice, 1 .. n)
  + MapThenSumSet(LAMBDA i : tiers[i].flatFee, TiersOf(tiers, n))

LEMMA UnitByUnitTotals ==
  ASSUME NEW tiers, NEW n
  PROVE  UnitByUnit(tiers, n) =
           Total([m \in 1 .. n |-> tiers[TierIndex(m, tiers)].unitPrice], 1 .. n)
           + Total([i \in TiersOf(tiers, n) |-> tiers[i].flatFee], TiersOf(tiers, n))
<1> DEFINE price == [m \in 1 .. n |-> tiers[TierIndex(m, tiers)].unitPrice]
           fee == [i \in TiersOf(tiers, n) |-> tiers[i].flatFee]
<1>1. MapThenSumSet(LAMBDA m : tiers[TierIndex(m, tiers)].unitPrice, 1 .. n) = Total(price, 1 .. n)
  BY DEF Total, MapThenSumSet, MapThenFoldSet
<1>2. MapThenSumSet(LAMBDA i : tiers[i].flatFee, TiersOf(tiers, n)) = Total(fee, TiersOf(tiers, n))
  BY DEF Total, MapThenSumSet, MapThenFoldSet
<1> QED BY <1>1, <1>2 DEF UnitByUnit

\* The units of one more.
LEMMA UnitByUnitNext ==
  ASSUME NEW tiers \in Seq(Tier), tiers # <<>>, Ascending(tiers), NEW n \in Nat
  PROVE  LET t == TierIndex(n + 1, tiers)
         IN  UnitByUnit(tiers, n + 1) =
               UnitByUnit(tiers, n) + tiers[t].unitPrice
               + (IF t \in TiersOf(tiers, n) THEN 0 ELSE tiers[t].flatFee)
<1> DEFINE t == TierIndex(n + 1, tiers)
           units(k) == [m \in 1 .. k |-> tiers[TierIndex(m, tiers)].unitPrice]
           fees(k) == [i \in TiersOf(tiers, k) |-> tiers[i].flatFee]
           fee == [i \in DOMAIN tiers |-> tiers[i].flatFee]
           U(k) == Total(units(k), 1 .. k)
           F(k) == Total(fees(k), TiersOf(tiers, k))
<1>1. \A m \in Nat \ {0} : TierIndex(m, tiers) \in DOMAIN tiers BY TierTyped
<1>2. \A i \in DOMAIN tiers : tiers[i].unitPrice \in Nat /\ tiers[i].flatFee \in Nat
  BY TiersTyped
<1>3. t \in DOMAIN tiers /\ IsFiniteSet(DOMAIN tiers)
  <2>1. DOMAIN tiers = 1 .. Len(tiers) /\ Len(tiers) \in Nat /\ n + 1 \in Nat \ {0} OBVIOUS
  <2>2. IsFiniteSet(DOMAIN tiers) BY <2>1, FS_Interval
  <2> QED BY <1>1, <2>1, <2>2
<1>4. UnitByUnit(tiers, n) = U(n) + F(n) /\ UnitByUnit(tiers, n + 1) = U(n + 1) + F(n + 1)
  BY UnitByUnitTotals
<1>5. \A k \in Nat : /\ TiersOf(tiers, k) \subseteq DOMAIN tiers /\ IsFiniteSet(TiersOf(tiers, k))
                     /\ IsFiniteSet(1 .. k)
  <2> TAKE k \in Nat
  <2>1. \A m \in 1 .. k : m \in Nat \ {0} OBVIOUS
  <2>2. TiersOf(tiers, k) \subseteq DOMAIN tiers BY <1>1, <2>1 DEF TiersOf
  <2> QED BY <1>3, <2>2, FS_Subset, FS_Interval
<1>6. \A k \in Nat : F(k) = Total(fee, TiersOf(tiers, k))
  <2> TAKE k \in Nat
  <2>1. \A i \in TiersOf(tiers, k) : fees(k)[i] = fee[i] BY <1>5
  <2> HIDE DEF fees, fee
  <2> QED BY <1>5, <2>1, TotalSame
<1>7. U(n + 1) = tiers[t].unitPrice + U(n)
  <2>1. /\ 1 .. (n + 1) = (1 .. n) \cup {n + 1}
        /\ n + 1 \notin 1 .. n /\ n + 1 \in 1 .. (n + 1)
    OBVIOUS
  <2>2. \A m \in 1 .. (n + 1) : m \in Nat \ {0} OBVIOUS
  <2>3. \A m \in 1 .. (n + 1) : units(n + 1)[m] \in Int BY <1>1, <1>2, <2>2
  <2>4. \A m \in 1 .. n : units(n + 1)[m] = units(n)[m] OBVIOUS
  <2>5. units(n + 1)[n + 1] = tiers[t].unitPrice BY <2>1
  <2> HIDE DEF units
  <2>6. Total(units(n + 1), 1 .. n) = Total(units(n), 1 .. n) BY <1>5, <2>4, TotalSame
  <2>7. Total(units(n + 1), 1 .. (n + 1)) = units(n + 1)[n + 1] + Total(units(n + 1), 1 .. n)
    BY <1>5, <2>1, <2>3, TotalAdd
  <2> QED BY <2>5, <2>6, <2>7
<1>8. F(n + 1) = F(n) + (IF t \in TiersOf(tiers, n) THEN 0 ELSE tiers[t].flatFee)
  <2>1. TiersOf(tiers, n + 1) = TiersOf(tiers, n) \cup {t}
    <3>1. 1 .. (n + 1) = (1 .. n) \cup {n + 1} OBVIOUS
    <3> QED BY <3>1 DEF TiersOf
  <2>2. \A i \in DOMAIN tiers : fee[i] \in Int /\ fee[i] = tiers[i].flatFee BY <1>2
  <2> HIDE DEF fee, t
  <2>3. \A i \in TiersOf(tiers, n) \cup {t} : fee[i] \in Int BY <1>3, <1>5, <2>2
  <2>4. Total(fee, TiersOf(tiers, n)) \in Int BY <1>5, <2>3, TotalType
  <2> HIDE DEF F
  <2>5. F(n + 1) = Total(fee, TiersOf(tiers, n + 1)) /\ F(n) = Total(fee, TiersOf(tiers, n))
    BY <1>6
  <2>6. CASE t \in TiersOf(tiers, n)
    <3>1. TiersOf(tiers, n + 1) = TiersOf(tiers, n) BY <2>1, <2>6
    <3> QED BY <2>4, <2>5, <2>6, <3>1
  <2>7. CASE t \notin TiersOf(tiers, n)
    <3>1. Total(fee, TiersOf(tiers, n) \cup {t}) = fee[t] + Total(fee, TiersOf(tiers, n))
      BY <1>5, <2>3, <2>7, TotalAdd
    <3>2. F(n + 1) = fee[t] + F(n) BY <2>1, <2>5, <3>1
    <3>3. fee[t] = tiers[t].flatFee /\ fee[t] \in Int /\ F(n) \in Int BY <1>3, <2>2, <2>4, <2>5
    <3> QED BY <2>7, <3>2, <3>3
  <2> QED BY <2>6, <2>7
<1>9. U(n) \in Int /\ F(n) \in Int
  <2>1. \A m \in 1 .. n : m \in Nat \ {0} OBVIOUS
  <2>2. \A m \in 1 .. n : units(n)[m] \in Int BY <1>1, <1>2, <2>1
  <2>3. \A i \in TiersOf(tiers, n) : fees(n)[i] \in Int BY <1>2, <1>5
  <2> HIDE DEF units, fees
  <2> QED BY <1>5, <2>2, <2>3, TotalType
<1> HIDE DEF U, F, t
<1>10. UnitByUnit(tiers, n + 1) =
         UnitByUnit(tiers, n) + tiers[t].unitPrice
         + (IF t \in TiersOf(tiers, n) THEN 0 ELSE tiers[t].flatFee)
  BY <1>2, <1>3, <1>4, <1>7, <1>8, <1>9
<1> QED BY <1>10 DEF t

LEMMA UnitByUnitNone == ASSUME NEW tiers PROVE UnitByUnit(tiers, 0) = 0
<1> DEFINE price == [m \in 1 .. 0 |-> tiers[TierIndex(m, tiers)].unitPrice]
           fee == [i \in TiersOf(tiers, 0) |-> tiers[i].flatFee]
<1>1. 1 .. 0 = {} OBVIOUS
<1>2. TiersOf(tiers, 0) = {} BY <1>1 DEF TiersOf
<1>3. UnitByUnit(tiers, 0) = Total(price, 1 .. 0) + Total(fee, TiersOf(tiers, 0))
  BY UnitByUnitTotals
<1> HIDE DEF price, fee
<1>4. Total(price, {}) = 0 /\ Total(fee, {}) = 0 BY TotalEmpty
<1> QED BY <1>1, <1>2, <1>3, <1>4

LEMMA GraduatedNext ==
  ASSUME NEW tiers \in Seq(Tier), tiers # <<>>, Ascending(tiers), NEW n \in Nat
  PROVE  LET t == TierIndex(n + 1, tiers)
         IN  Sum(GraduatedBreakdown(n + 1, tiers)) =
               Sum(GraduatedBreakdown(n, tiers)) + tiers[t].unitPrice
               + (IF t \in TiersOf(tiers, n) THEN 0 ELSE tiers[t].flatFee)
<1> DEFINE t == TierIndex(n + 1, tiers)
           D == DOMAIN tiers
           f == [i \in D |-> GraduatedBreakdown(n, tiers)[i].amount]
           g == [i \in D |-> GraduatedBreakdown(n + 1, tiers)[i].amount]
           u(i) == UnitsIn(tiers, i, n)
           v(i) == UnitsIn(tiers, i, n + 1)
<1>1. IsFiniteSet(D)
  <2>1. D = 1 .. Len(tiers) /\ Len(tiers) \in Nat OBVIOUS
  <2> QED BY <2>1, FS_Interval
<1>2. n + 1 \in Nat \ {0} /\ n + 1 \in Nat OBVIOUS
<1>3. /\ GraduatedBreakdown(n, tiers) \in [D -> Line]
      /\ GraduatedBreakdown(n + 1, tiers) \in [D -> Line]
  BY <1>2, GraduatedTyped
<1>4. /\ Sum(GraduatedBreakdown(n, tiers)) = Total(f, D)
      /\ Sum(GraduatedBreakdown(n + 1, tiers)) = Total(g, D)
  BY <1>1, <1>3, SumIsTotal
<1>5. \A i \in D : f[i] \in Int /\ g[i] \in Int BY <1>3 DEF Line
<1>6. t \in D /\ InBand(tiers, t, n + 1)
      /\ \A i \in D : i # t => ~InBand(tiers, i, n + 1)
  BY <1>2, TierHolds
<1>7. \A i \in D : /\ u(i) \in Nat
                   /\ v(i) = u(i) + (IF InBand(tiers, i, n + 1) THEN 1 ELSE 0)
  BY NextUnit
<1>8. \A i \in D : f[i] = Priced(tiers[i], u(i)).amount /\ g[i] = Priced(tiers[i], v(i)).amount
  BY <1>2, GraduatedLines
<1>9. u(t) # 0 <=> t \in TiersOf(tiers, n) BY <1>6, HeldSome DEF TiersOf
<1> HIDE DEF t, D, f, g, u, v
<1>10. \A i \in D : i # t => f[i] = g[i] BY <1>6, <1>7, <1>8
<1>11. g[t] = f[t] + tiers[t].unitPrice + (IF t \in TiersOf(tiers, n) THEN 0 ELSE tiers[t].flatFee)
  <2>1. v(t) = u(t) + 1 /\ u(t) \in Nat /\ v(t) # 0 BY <1>6, <1>7
  <2>2. tiers[t].unitPrice \in Nat /\ tiers[t].flatFee \in Nat BY <1>6, TiersTyped DEF D
  <2>3. g[t] = v(t) * tiers[t].unitPrice + tiers[t].flatFee BY <1>6, <1>8, <2>1 DEF Priced
  <2>4. f[t] = IF u(t) = 0 THEN 0 ELSE u(t) * tiers[t].unitPrice + tiers[t].flatFee
    BY <1>6, <1>8 DEF Priced, NoLine
  <2>5. \A a, b \in Nat : (a + 1) * b = a * b + b /\ a * b \in Nat OBVIOUS
  <2>6. v(t) * tiers[t].unitPrice = u(t) * tiers[t].unitPrice + tiers[t].unitPrice
        /\ u(t) * tiers[t].unitPrice \in Nat
    BY <2>1, <2>2, <2>5
  <2>7. CASE u(t) = 0
    <3>1. 0 * tiers[t].unitPrice = 0 BY <2>2
    <3> QED BY <1>9, <2>2, <2>3, <2>4, <2>6, <2>7, <3>1
  <2>8. CASE u(t) # 0 BY <1>9, <2>2, <2>3, <2>4, <2>6, <2>8
  <2> QED BY <2>7, <2>8
<1>12. Total(g, D) = Total(f, D) - f[t] + g[t] BY <1>1, <1>5, <1>6, <1>10, TotalUpdate
<1>13. Total(f, D) \in Int BY <1>1, <1>5, TotalType
<1>14. tiers[t].unitPrice \in Nat /\ tiers[t].flatFee \in Nat BY <1>6, TiersTyped DEF D
<1>15. Sum(GraduatedBreakdown(n + 1, tiers)) =
         Sum(GraduatedBreakdown(n, tiers)) + tiers[t].unitPrice
         + (IF t \in TiersOf(tiers, n) THEN 0 ELSE tiers[t].flatFee)
  BY <1>4, <1>5, <1>6, <1>11, <1>12, <1>13, <1>14
<1> QED BY <1>15 DEF t

LEMMA GraduatedIsUnitByUnit ==
  ASSUME NEW tiers \in Seq(Tier), tiers # <<>>, Ascending(tiers), NEW n \in Nat
  PROVE  Sum(GraduatedBreakdown(n, tiers)) = UnitByUnit(tiers, n)
<1> DEFINE D == DOMAIN tiers
           Good == {k \in Nat : Sum(GraduatedBreakdown(k, tiers)) = UnitByUnit(tiers, k)}
<1>1. IsFiniteSet(D)
  <2>1. D = 1 .. Len(tiers) /\ Len(tiers) \in Nat OBVIOUS
  <2> QED BY <2>1, FS_Interval
<1>2. 0 \in Good
  <2> DEFINE p == GraduatedBreakdown(0, tiers)
             f == [i \in D |-> p[i].amount]
  <2>1. \A i \in D : From(tiers, i) \in Nat BY TiersTyped
  <2>2. \A i \in D : UnitsIn(tiers, i, 0) = 0 BY <2>1 DEF UnitsIn
  <2>3. \A i \in D : p[i] = NoLine BY <2>2, GraduatedLines DEF Priced
  <2>4. p \in [D -> Line] BY GraduatedTyped
  <2> HIDE DEF p
  <2>5. Sum(p) = Total(f, D) BY <1>1, <2>4, SumIsTotal
  <2>6. \A i \in D : f[i] = 0 BY <2>3 DEF NoLine
  <2> HIDE DEF f
  <2>7. Sum(p) = 0 BY <1>1, <2>5, <2>6, TotalZero
  <2> QED BY <2>7, UnitByUnitNone DEF p
<1>3. ASSUME NEW k \in Good PROVE k + 1 \in Good
  <2> DEFINE t == TierIndex(k + 1, tiers)
             more == IF t \in TiersOf(tiers, k) THEN 0 ELSE tiers[t].flatFee
  <2>1. k \in Nat /\ Sum(GraduatedBreakdown(k, tiers)) = UnitByUnit(tiers, k) OBVIOUS
  <2>2. Sum(GraduatedBreakdown(k + 1, tiers)) =
          Sum(GraduatedBreakdown(k, tiers)) + tiers[t].unitPrice + more
    BY <2>1, GraduatedNext
  <2>3. UnitByUnit(tiers, k + 1) = UnitByUnit(tiers, k) + tiers[t].unitPrice + more
    BY <2>1, UnitByUnitNext
  <2> HIDE DEF t, more
  <2> QED BY <2>1, <2>2, <2>3
<1>4. Good = Nat
  <2>1. Good \in SUBSET Nat OBVIOUS
  <2> HIDE DEF Good
  <2> QED BY <1>2, <1>3, <2>1, NumberInduction
<1> QED BY <1>4

(* What graduated tiers ask for any usage, in any table that               *)
(* validatePricingTiers lets pass: each billable unit costs what the tier  *)
(* that holds it says, whatever is used beside it, and each tier that was  *)
(* reached its flat fee, once (usage-rating.ts rateUsage).                 *)
THEOREM GraduatedPriced ==
  ASSUME NEW p \in Pricing, p.rating = "graduated", p.tiers # <<>>, Ascending(p.tiers),
         NEW usage \in Nat
  PROVE  Amount(p, usage) = UnitByUnit(p.tiers, BillableQuantity(p, usage))
<1> DEFINE n == BillableQuantity(p, usage)
           tiers == p.tiers
<1>1. n \in Nat BY QuantityTyped
<1>2. tiers \in Seq(Tier) BY DEF Pricing
<1>3. Amount(p, usage) = IF n = 0 THEN 0 ELSE Sum(GraduatedBreakdown(n, tiers)) BY DEF Amount
<1> HIDE DEF n, tiers
<1>4. UnitByUnit(tiers, 0) = 0 BY UnitByUnitNone
<1>5. Sum(GraduatedBreakdown(n, tiers)) = UnitByUnit(tiers, n)
  BY <1>1, <1>2, GraduatedIsUnitByUnit DEF tiers
<1> QED BY <1>3, <1>4, <1>5 DEF n, tiers

(* What volume tiers ask: all units at the price of the one tier that      *)
(* holds the last of them, and its flat fee (usage-rating.ts rateUsage).   *)
THEOREM VolumePriced ==
  ASSUME NEW p \in Pricing, p.rating = "volume", p.tiers # <<>>, Ascending(p.tiers),
         NEW usage \in Nat, BillableQuantity(p, usage) # 0,
         NEW i \in DOMAIN p.tiers, InBand(p.tiers, i, BillableQuantity(p, usage))
  PROVE  Amount(p, usage) =
           BillableQuantity(p, usage) * p.tiers[i].unitPrice + p.tiers[i].flatFee
<1> DEFINE n == BillableQuantity(p, usage)
           tiers == p.tiers
           line == [units |-> n, amount |-> n * tiers[i].unitPrice + tiers[i].flatFee]
<1>1. n \in Nat /\ n # 0 /\ n \in Nat \ {0} BY QuantityTyped
<1>2. tiers \in Seq(Tier) BY DEF Pricing
<1>3. Amount(p, usage) = Sum(VolumeBreakdown(n, tiers)) BY DEF Amount
<1> HIDE DEF n
<1>4. i = TierIndex(n, tiers) BY <1>1, <1>2, TierHolds DEF n
<1> HIDE DEF tiers
<1>5. VolumeBreakdown(n, tiers) = [j \in {i} |->
         [units |-> n, amount |-> n * tiers[j].unitPrice + tiers[j].flatFee]]
  BY <1>4 DEF VolumeBreakdown
<1>6. tiers[i].unitPrice \in Nat /\ tiers[i].flatFee \in Nat BY <1>2, TiersTyped DEF tiers
<1>7. n * tiers[i].unitPrice \in Nat BY <1>1, <1>6
<1>8. line \in Line BY <1>1, <1>6, <1>7 DEF Line
<1>9. VolumeBreakdown(n, tiers) \in [{i} -> Line] BY <1>5, <1>8
<1> DEFINE f == [j \in {i} |-> VolumeBreakdown(n, tiers)[j].amount]
<1>10. Sum(VolumeBreakdown(n, tiers)) = Total(f, {i}) BY <1>9, FS_Singleton, SumIsTotal
<1>11. f[i] = n * tiers[i].unitPrice + tiers[i].flatFee /\ f[i] \in Int BY <1>5, <1>6, <1>7
<1> HIDE DEF f
<1>12. Total(f, {i}) = f[i]
  <2>1. {i} \ {i} = {} /\ IsFiniteSet({i}) BY FS_Singleton
  <2>2. Total(f, {i}) = f[i] + Total(f, {i} \ {i}) BY <1>11, <2>1, TotalRemove
  <2>3. Total(f, {i} \ {i}) = 0 BY <2>1, TotalEmpty
  <2> HIDE DEF line
  <2>4. \A x, y \in Int : y = 0 => x + y = x OBVIOUS
  <2>5. Total(f, {i} \ {i}) \in Int BY <2>3
  <2> QED BY <1>11, <2>2, <2>3, <2>4, <2>5
<1> QED BY <1>3, <1>10, <1>11, <1>12 DEF n, tiers

LEMMA Divides ==
  ASSUME NEW m \in Nat, NEW u \in Nat \ {0}
  PROVE  m \div u \in Nat /\ u * (m \div u) <= m /\ m < u * (m \div u) + u
<1>1. m \div u \in Int /\ m % u \in 0 .. u - 1 /\ m = u * (m \div u) + (m % u) OBVIOUS
<1> QED BY <1>1

(* What packages ask: for as many as hold the usage, and none that stays   *)
(* empty, however many units a package is of (usage-rating.ts rateUsage).  *)
THEOREM PackagePriced ==
  ASSUME NEW p \in Pricing, p.rating = "package", NEW usage \in Nat
  PROVE  \E packages \in Nat :
           LET units == Max({1, p.billingUnits})
               quantity == BillableQuantity(p, usage)
           IN  /\ Amount(p, usage) = packages * p.price
               /\ quantity <= units * packages /\ units * packages < quantity + units
<1> DEFINE q == BillableQuantity(p, usage)
           u == Max({1, p.billingUnits})
           x == (q + u - 1) \div u
<1>1. q \in Nat BY QuantityTyped
<1>2. p.price \in Nat /\ p.billingUnits \in Nat BY DEF Pricing
<1>3. u \in Nat \ {0}
  <2>1. u = IF 1 >= p.billingUnits THEN 1 ELSE p.billingUnits BY <1>2, MaxOfTwo
  <2> QED BY <1>2, <2>1
<1>4. Amount(p, usage) = IF q = 0 THEN 0 ELSE Packages(q, p.billingUnits) * p.price
  BY DEF Amount
<1>5. Packages(q, p.billingUnits) = x BY DEF Packages
<1> HIDE DEF q, u
<1>6. q + u - 1 \in Nat BY <1>1, <1>3
<1>7. x \in Nat /\ u * x <= q + u - 1 /\ q + u - 1 < u * x + u BY <1>3, <1>6, Divides
<1> HIDE DEF x
<1>8. CASE q = 0
  <2>1. 0 \in Nat /\ 0 * p.price = 0 /\ u * 0 = 0 BY <1>2, <1>3
  <2>2. Amount(p, usage) = 0 * p.price /\ q <= u * 0 /\ u * 0 < q + u
    BY <1>3, <1>4, <1>8, <2>1
  <2> QED BY <2>1, <2>2 DEF q, u
<1>9. CASE q # 0
  <2>1. u * x \in Int BY <1>3, <1>7
  <2>2. Amount(p, usage) = x * p.price /\ q <= u * x /\ u * x < q + u
    BY <1>1, <1>3, <1>4, <1>5, <1>7, <1>9, <2>1
  <2> QED BY <1>7, <2>2 DEF q, u
<1> QED BY <1>8, <1>9
=============================================================================
