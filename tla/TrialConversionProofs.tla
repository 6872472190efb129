----------------------- MODULE TrialConversionProofs -----------------------
(***************************************************************************)
(* Proofs about TrialConversion, for any number of retries and requests,   *)
(* any answers of the provider and any failures.                           *)
(***************************************************************************)
EXTENDS TrialConversion, TLAPS

(* Type correctness, actor by actor.  It needs four facts about control:   *)
(* a run that waits has an attempt left, one that saves has a code, the    *)
(* workflow holds metadata only where it records, and a request that       *)
(* cancels at once starts no workflow.                                     *)
Recording == {"processing", "succeeded", "failed", "recordScheduled", "recordFailed"}

WfRecord == [pc : WfSteps, seen : Meta \cup {NoMeta}, tries : 0..ChargeAttempts - 1,
             code : Codes \cup {NoCode}]
RunRecord == [pc : RetrySteps, left : 0..Delays + 1, seen : Row, code : Codes \cup {NoCode}]
RequestRecord == [pc : ReqSteps, kind : Kinds, seen : Row]

RowOK == sub \in Row
WfOK == wf \in WfRecord /\ (wf.seen # NoMeta => wf.pc \in Recording)
RunOK(run) ==
  /\ run \in RunRecord
  /\ run.pc = "wait" => run.left > 0
  /\ run.pc = "save" => run.code \in Codes
RunsOK == retry = [r \in Retries |-> retry[r]] /\ \A r \in Retries : RunOK(retry[r])
RequestsOK ==
  /\ req \in [Requests -> RequestRecord]
  /\ \A q \in Requests : req[q].pc = "dispatch" => req[q].kind # "cancelNow"
ProviderOK == provider \subseteq used /\ used \subseteq Codes
EndsOK == ends \subseteq [kind : {"cancel", "downgrade"}, at : Ends]
RestOK ==
  /\ time \in {"trial", "period", "over"}
  /\ charges \in Nat
  /\ inTime \in BOOLEAN /\ overtaken \in BOOLEAN
  /\ faults \in 0..MaxFaults

IInv == RowOK /\ WfOK /\ RunsOK /\ RequestsOK /\ ProviderOK /\ EndsOK /\ RestOK

LEMMA TypesFollow == IInv => TypeOK
<1> SUFFICES ASSUME IInv PROVE TypeOK OBVIOUS
<1>1. retry \in [Retries -> RunRecord] BY DEF IInv, RunsOK, RunOK
<1> QED BY <1>1 DEF IInv, RowOK, WfOK, RequestsOK, ProviderOK, EndsOK, RestOK, TypeOK,
                WfRecord, RunRecord, RequestRecord

-----------------------------------------------------------------------------
(* What the parts of a step write. *)
LEMMA Rows ==
  ASSUME NEW row \in Row
  PROVE  /\ row.meta \in Meta /\ row.end \in Ends /\ row.code \in Codes \cup {TrialCode}
         /\ \A s \in {"trialing", "active", "canceled", "expired"} :
              [row EXCEPT !.status = s] \in Row
         /\ \A m \in Meta : [row EXCEPT !.meta = m] \in Row
         /\ \A m \in Meta : [row EXCEPT !.cancelAt = "none", !.meta = m] \in Row
         /\ \A m \in Meta, k \in Codes :
              [row EXCEPT !.code = k, !.cancelAt = "none", !.meta = m] \in Row
         /\ \A s \in {"trialing", "active"}, e \in Ends :
              [row EXCEPT !.status = s, !.cancelAt = e] \in Row
         /\ \A s \in {"trialing", "active"}, e \in Ends, m \in Meta :
              [row EXCEPT !.status = s, !.cancelAt = e, !.meta = m] \in Row
  BY DEF Row

LEMMA Metas ==
  ASSUME NEW m \in Meta
  PROVE  /\ \A s \in {"none", "scheduled", "failed", "complete"} : [m EXCEPT !.setup = s] \in Meta
         /\ \A c \in {"none", "processing", "succeeded", "failed"} : [m EXCEPT !.charge = c] \in Meta
         /\ [m EXCEPT !.sched = TRUE] \in Meta
  BY DEF Meta

\* The workflow moves on and holds nothing it has read.
LEMMA WfMoves ==
  ASSUME WfOK, NEW step \in WfSteps, WfGoto(step), wf.seen = NoMeta
  PROVE  WfOK'
  BY DEF WfOK, WfGoto, WfRecord

LEMMA WfTries ==
  ASSUME WfOK, NextTry, wf.seen = NoMeta
  PROVE  WfOK'
<1>1. CASE wf.tries + 1 < ChargeAttempts
  <2>1. wf.tries + 1 \in 0..ChargeAttempts - 1 BY <1>1 DEF WfOK, WfRecord, ChargeAttempts
  <2>2. wf' = [wf EXCEPT !.tries = wf.tries + 1] BY <1>1 DEF NextTry
  <2> QED BY <2>1, <2>2 DEF WfOK, WfRecord
<1>2. CASE ~(wf.tries + 1 < ChargeAttempts)
  <2>1. WfGoto("failed") BY <1>2 DEF NextTry
  <2> QED BY <2>1, WfMoves DEF WfSteps
<1> QED BY <1>1, <1>2

\* A run moves on.
LEMMA RunMoves ==
  ASSUME RunsOK, NEW r \in Retries, NEW run, RunOK(run), retry' = [retry EXCEPT ![r] = run]
  PROVE  RunsOK'
  BY DEF RunsOK

LEMMA RunSteps ==
  ASSUME RunsOK, NEW r \in Retries, NEW step \in RetrySteps \ {"wait", "save"}, RGoto(r, step)
  PROVE  RunsOK'
<1>1. retry' = [retry EXCEPT ![r] = [retry[r] EXCEPT !.pc = step]] BY DEF RGoto
<1>2. RunOK([retry[r] EXCEPT !.pc = step]) BY DEF RunsOK, RunOK, RunRecord
<1> QED BY <1>1, <1>2, RunMoves

LEMMA RunStarts ==
  ASSUME RunsOK, NEW r \in Retries, NEW n \in 1..Delays + 1, StartRetry(r, n)
  PROVE  RunsOK'
<1> DEFINE run == [retry[r] EXCEPT !.pc = "wait", !.left = n]
<1>1. retry' = [retry EXCEPT ![r] = run] BY DEF StartRetry
<1>2. retry[r] \in RunRecord /\ n \in 0..Delays + 1 /\ n > 0 BY DEF RunsOK, RunOK, Delays
<1>3. run \in RunRecord BY <1>2 DEF RunRecord, RetrySteps
<1>4. RunOK(run) BY <1>2, <1>3 DEF RunOK, RunRecord
<1> QED BY <1>1, <1>4, RunMoves

-----------------------------------------------------------------------------
LEMMA TypeInit == Init => IInv
<1> SUFFICES ASSUME Init PROVE IInv OBVIOUS
<1>1. RowOK BY DEF Init, RowOK, Row, Meta, Ends
<1>2. \A r \in Retries : RunOK(retry[r])
  BY <1>1 DEF Init, Idle, RunOK, RunRecord, RetrySteps, Delays, RowOK
<1>3. RunsOK BY <1>2 DEF Init, RunsOK
<1>4. RequestsOK BY <1>1 DEF Init, RequestsOK, RequestRecord, ReqSteps, RowOK
<1>5. WfOK BY DEF Init, WfOK, WfRecord, WfSteps, ChargeAttempts
<1>6. ProviderOK /\ EndsOK BY DEF Init, ProviderOK, EndsOK
<1>7. RestOK
  <2>1. /\ time = "trial" /\ charges = 0 /\ inTime = FALSE /\ overtaken = FALSE /\ faults = 0
    BY DEF Init
  <2>2. MaxFaults \in Nat BY TrialAssumption
  <2>3. inTime \in BOOLEAN /\ overtaken \in BOOLEAN BY <2>1
  <2>4. charges \in Nat /\ faults \in 0..MaxFaults BY <2>1, <2>2
  <2> QED BY <2>1, <2>3, <2>4 DEF RestOK
<1> QED BY <1>1, <1>3, <1>4, <1>5, <1>6, <1>7 DEF IInv

\* What the steps of the workflow leave alone stays as it is.
LEMMA WfFrame ==
  ASSUME IInv, WfOnly
  PROVE  RunsOK' /\ RequestsOK' /\ EndsOK'
         /\ (RestOK' <=> charges' \in Nat /\ faults' \in 0..MaxFaults)
  BY DEF IInv, WfOnly, RunsOK, RequestsOK, EndsOK, RestOK

LEMMA WorkflowType ==
  ASSUME IInv, Workflow \/ WfChargeLost \/ WfRestart
  PROVE  IInv'
<1> USE DEF WfAt
<1>0. /\ sub \in Row /\ WfOK /\ RunsOK /\ ProviderOK /\ charges \in Nat /\ faults \in 0..MaxFaults
      /\ (wf.pc \notin Recording => wf.seen = NoMeta)
  BY DEF IInv, RowOK, RestOK, WfOK
<1>1. CASE WfWake \/ WfAuth \/ WfLookup \/ WfCheck \/ WfLoad
  <2>1. PICK step \in WfSteps : WfGoto(step)
    BY <1>1 DEF WfWake, WfAuth, WfLookup, WfCheck, WfLoad, WfSteps
  <2>2. wf.seen = NoMeta
    BY <1>0, <1>1 DEF WfWake, WfAuth, WfLookup, WfCheck, WfLoad, Recording
  <2>3. WfOK' BY <1>0, <2>1, <2>2, WfMoves
  <2>4. WfOnly /\ NoCharge /\ UNCHANGED <<sub, faults>>
    BY <1>1 DEF WfWake, WfAuth, WfLookup, WfCheck, WfLoad
  <2> QED BY <1>0, <2>3, <2>4, WfFrame DEF IInv, NoCharge, ProviderOK, RowOK
<1>2. CASE WfCancel \/ WfExpire
  <2>1. WfGoto("done") /\ wf.seen = NoMeta BY <1>0, <1>2 DEF WfCancel, WfExpire, Recording
  <2>2. WfOK' BY <1>0, <2>1, WfMoves DEF WfSteps
  <2>3. RowOK' BY <1>0, <1>2, Rows DEF WfCancel, WfExpire, RowOK
  <2>4. WfOnly /\ NoCharge /\ UNCHANGED faults BY <1>2 DEF WfCancel, WfExpire
  <2> QED BY <1>0, <2>2, <2>3, <2>4, WfFrame DEF IInv, NoCharge, ProviderOK
<1>3. CASE WfReadMeta
  <2>1. wf' = [wf EXCEPT !.seen = sub.meta] /\ wf.pc \in Recording
    BY <1>3 DEF WfReadMeta, Recording
  <2>2. WfOK' BY <1>0, <2>1, Rows DEF WfOK, WfRecord
  <2> QED BY <1>0, <1>3, <2>2, WfFrame DEF WfReadMeta, IInv, NoCharge, ProviderOK, RowOK
<1>4. CASE WfWriteMeta
  <2>1. wf.seen \in Meta /\ wf.pc \in Recording
    BY <1>0, <1>4 DEF WfWriteMeta, WfOK, WfRecord
  <2>2. PICK m \in Meta, step \in WfSteps :
          sub' = [sub EXCEPT !.meta = m] /\ wf' = [wf EXCEPT !.pc = step, !.seen = NoMeta]
    <3> USE DEF WfSteps
    <3>1. CASE WfAt("processing") BY <1>4, <2>1, <3>1, Metas DEF WfWriteMeta
    <3>2. CASE WfAt("succeeded") BY <1>4, <2>1, <3>2, Metas DEF WfWriteMeta
    <3>3. CASE WfAt("failed") BY <1>4, <2>1, <3>3, Metas DEF WfWriteMeta
    <3>4. CASE WfAt("recordScheduled") BY <1>4, <2>1, <3>4, Metas DEF WfWriteMeta
    <3>5. CASE WfAt("recordFailed") BY <1>4, <2>1, <3>5, Metas DEF WfWriteMeta
    <3> QED BY <2>1, <3>1, <3>2, <3>3, <3>4, <3>5 DEF Recording
  <2>3. RowOK' BY <1>0, <2>2, Rows DEF RowOK
  <2>4. WfOK' BY <1>0, <2>2 DEF WfOK, WfRecord
  <2>5. WfOnly /\ NoCharge /\ UNCHANGED faults BY <1>4 DEF WfWriteMeta
  <2> QED BY <1>0, <2>3, <2>4, <2>5, WfFrame DEF IInv, NoCharge, ProviderOK
<1>5. CASE WfCharge \/ WfDeclined \/ WfChargeLost
  <2>1. wf.seen = NoMeta BY <1>0, <1>5 DEF WfCharge, WfDeclined, WfChargeLost, Recording
  <2>2. NextTry \/ WfGoto("succeeded") \/ WfGoto("failed") \/ UNCHANGED wf
    BY <1>5 DEF WfCharge, WfDeclined, WfChargeLost
  <2>3. WfOK'
    <3>1. CASE NextTry BY <1>0, <2>1, <3>1, WfTries
    <3>2. CASE WfGoto("succeeded") BY <1>0, <2>1, <3>2, WfMoves DEF WfSteps
    <3>3. CASE WfGoto("failed") BY <1>0, <2>1, <3>3, WfMoves DEF WfSteps
    <3>4. CASE UNCHANGED wf BY <1>0, <3>4 DEF WfOK
    <3> QED BY <2>2, <3>1, <3>2, <3>3, <3>4
  <2>4. charges' \in Nat /\ faults' \in 0..MaxFaults
    BY <1>0, <1>5, TrialAssumption DEF WfCharge, WfDeclined, WfChargeLost, Fault, NoCharge
  <2>5. WfOnly /\ UNCHANGED <<sub, provider, used>>
    BY <1>5 DEF WfCharge, WfDeclined, WfChargeLost, NoCharge
  <2> QED BY <1>0, <2>3, <2>4, <2>5, WfFrame DEF IInv, ProviderOK, RowOK
<1>6. CASE WfCreate
  <2>1. wf.seen = NoMeta BY <1>0, <1>6 DEF WfCreate, Recording
  <2>2. WfOK'
    <3>1. CASE \E k \in Codes : wf' = [wf EXCEPT !.pc = "activate", !.code = k]
      BY <1>0, <2>1, <3>1 DEF WfOK, WfRecord, WfSteps
    <3>2. CASE WfGoto("activate") BY <1>0, <2>1, <3>2, WfMoves DEF WfSteps
    <3>3. CASE UNCHANGED wf BY <1>0, <3>3 DEF WfOK
    <3> QED BY <1>6, <3>1, <3>2, <3>3 DEF WfCreate
  <2>3. ProviderOK' BY <1>0, <1>6 DEF WfCreate, Make, ProviderOK
  <2>4. faults' \in 0..MaxFaults
    <3>1. faults' = faults \/ Fault("rerun") BY <1>6 DEF WfCreate
    <3> QED BY <1>0, <3>1, TrialAssumption DEF Fault
  <2>5. WfOnly /\ UNCHANGED <<sub, charges>> BY <1>6 DEF WfCreate
  <2> QED BY <1>0, <2>2, <2>3, <2>4, <2>5, WfFrame DEF IInv, RowOK
<1>7. CASE WfActivate
  <2>1. PICK step \in WfSteps : WfGoto(step) BY <1>7 DEF WfActivate, WfSteps
  <2>2. WfOK' BY <1>0, <1>7, <2>1, WfMoves DEF WfActivate, Recording
  <2>3. wf.code = NoCode \/ wf.code \in Codes BY <1>0 DEF WfOK, WfRecord
  <2>4. RowOK' BY <1>0, <1>7, <2>3 DEF WfActivate, RowOK, Row, Ends
  <2>5. WfOnly /\ NoCharge /\ UNCHANGED faults BY <1>7 DEF WfActivate
  <2> QED BY <1>0, <2>2, <2>4, <2>5, WfFrame DEF IInv, NoCharge, ProviderOK
<1>8. CASE WfStartRetry
  <2>1. PICK step \in WfSteps : WfGoto(step) BY <1>8 DEF WfStartRetry, WfSteps
  <2>2. WfOK' BY <1>0, <1>8, <2>1, WfMoves DEF WfStartRetry, Recording
  <2>3. RunsOK'
    <3>1. CASE \E r \in Retries : StartRetry(r, Delays) BY <1>0, <3>1, RunStarts DEF Delays
    <3>2. CASE UNCHANGED retry BY <1>0, <3>2 DEF RunsOK
    <3> QED BY <1>8, <3>1, <3>2 DEF WfStartRetry
  <2>4. faults' \in 0..MaxFaults BY <1>0, <1>8, TrialAssumption DEF WfStartRetry, Fault
  <2> QED BY <1>0, <1>8, <2>2, <2>3, <2>4
          DEF WfStartRetry, NoCharge, IInv, RowOK, RequestsOK, ProviderOK, EndsOK, RestOK
<1>9. CASE WfRestart
  <2>1. WfOK' BY <1>9 DEF WfRestart, WfOK, WfRecord, WfSteps, ChargeAttempts
  <2>2. faults' \in 0..MaxFaults BY <1>0, <1>9, TrialAssumption DEF WfRestart, Fault
  <2> QED BY <1>0, <1>9, <2>1, <2>2, WfFrame DEF WfRestart, NoCharge, IInv, RowOK, ProviderOK
<1> QED BY <1>1, <1>2, <1>3, <1>4, <1>5, <1>6, <1>7, <1>8, <1>9 DEF Workflow

LEMMA RetryType ==
  ASSUME IInv, NEW r \in Retries, Retry(r)
  PROVE  IInv'
<1> USE DEF RAt
<1> DEFINE run == retry[r]
<1>0. /\ sub \in Row /\ RunsOK /\ ProviderOK /\ RunOK(run) /\ run \in RunRecord
      /\ run.seen \in Row /\ run.seen.meta \in Meta /\ faults \in 0..MaxFaults
  BY Rows DEF IInv, RowOK, RestOK, RunsOK, RunOK, RunRecord
<1>1. RowOK'
  <2>1. CASE UNCHANGED sub BY <1>0, <2>1 DEF RowOK
  <2>2. CASE RetryRecover(r) BY <1>0, <2>2, Rows, Metas DEF RetryRecover, RowOK
  <2>3. CASE RetryFail(r)
    <3>1. PICK s \in {"scheduled", "failed"} :
            sub' = [sub EXCEPT !.meta = [run.seen.meta EXCEPT !.setup = s]]
      BY <2>3 DEF RetryFail
    <3> QED BY <1>0, <3>1, Rows, Metas DEF RowOK
  <2>4. CASE RetrySave(r) /\ run.pc = "save" /\ ~UNCHANGED sub
    <3>1. run.code \in Codes BY <1>0, <2>4 DEF RunOK
    <3>2. sub' = [sub EXCEPT !.code = run.code, !.cancelAt = "none",
                             !.meta = [run.seen.meta EXCEPT !.setup = "complete"]]
      BY <2>4 DEF RetrySave
    <3> QED BY <1>0, <3>1, <3>2, Rows, Metas DEF RowOK
  <2> QED BY <2>1, <2>2, <2>3, <2>4
          DEF Retry, RetryWait, RetryRead, RetryCreate, RetrySave
<1>2. RunsOK'
  <2>1. CASE RetryWait(r)
    <3> DEFINE new == [run EXCEPT !.pc = "read", !.left = @ - 1]
    <3>1. retry' = [retry EXCEPT ![r] = new] BY <2>1 DEF RetryWait
    <3>2. run.left - 1 \in 0..Delays + 1 BY <1>0, <2>1 DEF RetryWait, RunOK, RunRecord, Delays
    <3>3. RunOK(new) BY <1>0, <3>2 DEF RunOK, RunRecord, RetrySteps
    <3> QED BY <1>0, <3>1, <3>3, RunMoves
  <2>2. CASE RetryRead(r)
    <3>1. PICK step \in {"recover", "done", "create", "giveUp"} :
            retry' = [retry EXCEPT ![r].seen = sub, ![r].pc = step]
      BY <2>2 DEF RetryRead
    <3> DEFINE new == [run EXCEPT !.seen = sub, !.pc = step]
    <3>2. retry' = [retry EXCEPT ![r] = new] BY <3>1
    <3>3. RunOK(new) BY <1>0 DEF RunOK, RunRecord, RetrySteps
    <3> QED BY <1>0, <3>2, <3>3, RunMoves
  <2>3. CASE RetryRecover(r) BY <1>0, <2>3, RunSteps DEF RetryRecover, RetrySteps
  <2>4. CASE RetryCreate(r)
    <3>1. CASE RGoto(r, "fail") \/ RGoto(r, "giveUp") BY <1>0, <3>1, RunSteps DEF RetrySteps
    <3>2. ASSUME NEW k \in Codes, retry' = [retry EXCEPT ![r].pc = "save", ![r].code = k]
          PROVE  RunsOK'
      <4> DEFINE new == [run EXCEPT !.pc = "save", !.code = k]
      <4>1. retry' = [retry EXCEPT ![r] = new] BY <3>2
      <4>2. RunOK(new) BY <1>0 DEF RunOK, RunRecord, RetrySteps
      <4> QED BY <1>0, <4>1, <4>2, RunMoves
    <3> QED BY <2>4, <3>1, <3>2 DEF RetryCreate
  <2>5. CASE RetryFail(r)
    <3>1. CASE RGoto(r, "done") BY <1>0, <3>1, RunSteps DEF RetrySteps
    <3>2. CASE RGoto(r, "wait") /\ run.left > 0
      <4> DEFINE new == [run EXCEPT !.pc = "wait"]
      <4>1. retry' = [retry EXCEPT ![r] = new] BY <3>2 DEF RGoto
      <4>2. RunOK(new) BY <1>0, <3>2 DEF RunOK, RunRecord, RetrySteps
      <4> QED BY <1>0, <4>1, <4>2, RunMoves
    <3> QED BY <2>5, <3>1, <3>2 DEF RetryFail
  <2>6. CASE RetrySave(r) BY <1>0, <2>6, RunSteps DEF RetrySave, RetrySteps
  <2> QED BY <2>1, <2>2, <2>3, <2>4, <2>5, <2>6 DEF Retry
<1>3. ProviderOK'
  <2>1. CASE RetryCreate(r) BY <1>0, <2>1 DEF RetryCreate, Make, ProviderOK
  <2>2. CASE UNCHANGED <<provider, used>> BY <1>0, <2>2 DEF ProviderOK
  <2> QED BY <2>1, <2>2 DEF Retry, RetryWait, RetryRead, RetryRecover, RetryFail, RetrySave
<1>4. faults' \in 0..MaxFaults
  BY <1>0, TrialAssumption
     DEF Retry, RetryWait, RetryRead, RetryRecover, RetryCreate, RetryFail, RetrySave, Fault
<1>5. ROnly
  BY DEF Retry, RetryWait, RetryRead, RetryRecover, RetryCreate, RetryFail, RetrySave
<1> QED BY <1>1, <1>2, <1>3, <1>4, <1>5
        DEF IInv, ROnly, WfOK, RequestsOK, EndsOK, RestOK

LEMMA RequestType ==
  ASSUME IInv, NEW q \in Requests, QRead(q) \/ QWrite(q) \/ QDispatch(q)
  PROVE  IInv'
<1> USE DEF Kind
<1> DEFINE seen == req[q].seen
<1>0. /\ sub \in Row /\ req[q] \in RequestRecord /\ seen \in Row /\ seen.meta \in Meta
      /\ seen.end \in Ends /\ RunsOK /\ ProviderOK /\ faults \in 0..MaxFaults
  BY Rows DEF IInv, RowOK, RestOK, RequestsOK, RequestRecord
<1>1. CASE QRead(q)
  <2>1. RequestsOK'
    BY <1>0, <1>1 DEF QRead, IInv, RequestsOK, RequestRecord, ReqSteps
  <2> QED BY <1>1, <2>1 DEF QRead, IInv, RowOK, WfOK, RunsOK, ProviderOK, EndsOK, RestOK
<1>2. CASE QWrite(q)
  <2>1. RequestsOK' BY <1>2 DEF QWrite, QGoto, IInv, RequestsOK, RequestRecord, ReqSteps
  <2>2. RowOK'
    <3> DEFINE kept == IF seen.status = "trialing" THEN "trialing" ELSE "active"
    <3>1. kept \in {"trialing", "active"} OBVIOUS
    <3>2. req[q].kind \in Kinds BY <1>0 DEF RequestRecord
    <3>3. CASE req[q].kind = "cancel"
      <4>1. sub' = [sub EXCEPT !.status = kept, !.cancelAt = seen.end] BY <1>2, <3>3 DEF QWrite
      <4> QED BY <1>0, <3>1, <4>1, Rows DEF RowOK
    <3>4. CASE req[q].kind = "cancelNow"
      <4>1. sub' = [sub EXCEPT !.status = "canceled"] BY <1>2, <3>4 DEF QWrite
      <4> QED BY <1>0, <4>1, Rows DEF RowOK
    <3>5. CASE req[q].kind = "downgrade"
      <4>1. sub' = [sub EXCEPT !.status = kept, !.cancelAt = seen.end,
                               !.meta = [seen.meta EXCEPT !.sched = TRUE]]
        BY <1>2, <3>5 DEF QWrite
      <4> QED BY <1>0, <3>1, <4>1, Rows, Metas DEF RowOK
    <3>6. CASE req[q].kind = "retry"
      <4>1. sub' = [sub EXCEPT !.meta = [seen.meta EXCEPT !.setup = "scheduled"]]
        BY <1>2, <3>6 DEF QWrite
      <4> QED BY <1>0, <4>1, Rows, Metas DEF RowOK
    <3> QED BY <3>2, <3>3, <3>4, <3>5, <3>6 DEF Kinds
  <2>3. ProviderOK' BY <1>0, <1>2 DEF QWrite, Dropped, ProviderOK
  <2>4. RestOK' BY <1>2 DEF QWrite, IInv, RestOK
  <2> QED BY <1>2, <2>1, <2>2, <2>3, <2>4 DEF QWrite, IInv, WfOK, RunsOK, EndsOK
<1>3. CASE QDispatch(q)
  <2>1. RequestsOK' BY <1>3 DEF QDispatch, QGoto, IInv, RequestsOK, RequestRecord, ReqSteps
  <2>2. RowOK' BY <1>0, <1>3, Rows DEF QDispatch, RowOK
  <2>3. EndsOK'
    <3>1. CASE UNCHANGED ends BY <3>1 DEF IInv, EndsOK
    <3>2. CASE ends' = ends \cup {[kind |-> req[q].kind, at |-> seen.end]} /\ req[q].kind # "retry"
      <4>1. req[q].kind \in {"cancel", "downgrade"}
        BY <1>0, <1>3, <3>2 DEF QDispatch, IInv, RequestsOK, RequestRecord, Kinds
      <4> QED BY <1>0, <3>2, <4>1 DEF IInv, EndsOK
    <3> QED BY <1>3, <3>1, <3>2 DEF QDispatch
  <2>4. RunsOK'
    <3>1. CASE \E r \in Retries : StartRetry(r, Delays + 1) BY <1>0, <3>1, RunStarts DEF Delays
    <3>2. CASE UNCHANGED retry BY <1>0, <3>2 DEF RunsOK
    <3> QED BY <1>3, <3>1, <3>2 DEF QDispatch
  <2>5. faults' \in 0..MaxFaults BY <1>0, <1>3, TrialAssumption DEF QDispatch, Fault
  <2> QED BY <1>0, <1>3, <2>1, <2>2, <2>3, <2>4, <2>5
          DEF QDispatch, NoCharge, IInv, WfOK, ProviderOK, RestOK
<1> QED BY <1>1, <1>2, <1>3

LEMMA TypeNext == IInv /\ [Next]_vars => IInv'
<1> SUFFICES ASSUME IInv, [Next]_vars PROVE IInv' OBVIOUS
<1>1. CASE Tick
  BY <1>1 DEF Tick, IInv, RowOK, WfOK, RunsOK, RequestsOK, ProviderOK, EndsOK, RestOK
<1>2. CASE Workflow \/ WfChargeLost \/ WfRestart BY <1>2, WorkflowType
<1>3. CASE \E r \in Retries : Retry(r) BY <1>3, RetryType
<1>4. CASE \E q \in Requests : QRead(q) \/ QWrite(q) \/ QDispatch(q) BY <1>4, RequestType
<1>5. CASE \E e \in ends : End(e)
  <2>1. RowOK' BY <1>5, Rows DEF End, IInv, RowOK
  <2> QED BY <1>5, <2>1
          DEF End, NoCharge, IInv, WfOK, RunsOK, RequestsOK, ProviderOK, EndsOK, RestOK
<1>6. CASE UNCHANGED vars
  BY <1>6 DEF vars, IInv, RowOK, WfOK, RunsOK, RequestsOK, ProviderOK, EndsOK, RestOK
<1> QED BY <1>1, <1>2, <1>3, <1>4, <1>5, <1>6 DEF Next

LEMMA Typed == Spec => []IInv
  BY TypeInit, TypeNext, PTL DEF Spec

(* Every reachable state is well typed, for any constants. *)
THEOREM TypeCorrect == Spec => []TypeOK
  BY Typed, TypesFollow, PTL

-----------------------------------------------------------------------------
(* Renewals.  Whoever writes the metadata writes a copy of what it read,   *)
(* so "complete" must be true of every copy that is held; and it stays     *)
(* true, because a code of a provider is never taken off the row.          *)
Linked(m) == m.setup = "complete" => Real(sub)

CopiesLinked ==
  /\ Linked(sub.meta)
  /\ wf.seen # NoMeta => Linked(wf.seen)
  /\ \A r \in Retries : Linked(retry[r].seen.meta)
  /\ \A q \in Requests : Linked(req[q].seen.meta)

RecoversReal == \A r \in Retries : retry[r].pc = "recover" => Real(sub)

LinkInv == CopiesLinked /\ RecoversReal /\ ActiveRenewsOrEnds

\* What a step may do: the copies it takes are those of the row, what it writes
\* to the row it has set up or has a copy of.
LinkStep ==
  /\ Real(sub) => Real(sub)'
  /\ Linked(sub.meta)'
  /\ ActiveRenewsOrEnds'
  /\ wf'.seen \in {NoMeta, wf.seen, sub.meta}
  /\ \A r \in Retries : /\ retry'[r].seen \in {retry[r].seen, sub}
                        /\ retry'[r].pc = "recover" => retry[r].pc = "recover" \/ Real(sub)
  /\ \A q \in Requests : req'[q].seen \in {req[q].seen, sub}

LEMMA LinkStepKeeps ==
  ASSUME LinkInv, LinkStep
  PROVE  LinkInv'
<1>1. \A m : Linked(m) => (m.setup = "complete" => Real(sub)') BY DEF LinkStep, Linked
<1>2. CopiesLinked'
  <2>1. wf'.seen # NoMeta => (wf'.seen.setup = "complete" => Real(sub)')
    BY <1>1 DEF LinkStep, LinkInv, CopiesLinked
  <2>2. ASSUME NEW r \in Retries
        PROVE  retry'[r].seen.meta.setup = "complete" => Real(sub)'
    <3>1. Linked(retry[r].seen.meta) /\ Linked(sub.meta) BY DEF LinkInv, CopiesLinked
    <3>2. retry'[r].seen = retry[r].seen \/ retry'[r].seen = sub BY DEF LinkStep
    <3> QED BY <1>1, <3>1, <3>2
  <2>3. ASSUME NEW q \in Requests
        PROVE  req'[q].seen.meta.setup = "complete" => Real(sub)'
    <3>1. Linked(req[q].seen.meta) /\ Linked(sub.meta) BY DEF LinkInv, CopiesLinked
    <3>2. req'[q].seen = req[q].seen \/ req'[q].seen = sub BY DEF LinkStep
    <3> QED BY <1>1, <3>1, <3>2
  <2> QED BY <2>1, <2>2, <2>3 DEF CopiesLinked, Linked, LinkStep
<1>3. RecoversReal'
  <2> SUFFICES ASSUME NEW r \in Retries, retry'[r].pc = "recover" PROVE Real(sub)'
    BY DEF RecoversReal
  <2>1. retry[r].pc = "recover" \/ Real(sub) BY DEF LinkStep
  <2>2. Real(sub) BY <2>1 DEF LinkInv, RecoversReal
  <2> QED BY <2>2 DEF LinkStep
<1> QED BY <1>2, <1>3 DEF LinkInv, LinkStep

LEMMA StartKeepsCopies ==
  ASSUME RunsOK, NEW s \in Retries, NEW n \in Nat, StartRetry(s, n)
  PROVE  \A r \in Retries : /\ retry'[r].seen = retry[r].seen
                            /\ retry'[r].pc = "recover" => retry[r].pc = "recover"
<1> SUFFICES ASSUME NEW r \in Retries
             PROVE  /\ retry'[r].seen = retry[r].seen
                    /\ retry'[r].pc = "recover" => retry[r].pc = "recover"
  OBVIOUS
<1>1. retry[r] \in RunRecord BY DEF RunsOK, RunOK
<1>2. CASE r # s BY <1>2 DEF StartRetry, RunsOK
<1>3. CASE r = s
  <2>1. retry'[r] = [retry[r] EXCEPT !.pc = "wait", !.left = n] BY <1>3 DEF StartRetry, RunsOK
  <2> QED BY <1>1, <2>1 DEF RunRecord
<1> QED BY <1>2, <1>3

LEMMA WorkflowLinks ==
  ASSUME IInv, LinkInv, Workflow \/ WfChargeLost \/ WfRestart
  PROVE  LinkInv'
<1> USE DEF WfAt
<1>0. /\ sub \in Row /\ wf \in WfRecord /\ \A r \in Retries : retry[r] \in RunRecord
      /\ (Linked(sub.meta) /\ ActiveRenewsOrEnds)
  BY DEF IInv, RowOK, WfOK, RunsOK, RunOK, LinkInv, CopiesLinked
<1>1. CASE UNCHANGED <<sub, retry, req>> /\ wf'.seen \in {NoMeta, wf.seen, sub.meta}
  <2>1. LinkStep BY <1>0, <1>1 DEF LinkStep, Linked, ActiveRenewsOrEnds, Real
  <2> QED BY <2>1, LinkStepKeeps
<1>2. CASE WfCancel \/ WfExpire
  <2>1. \/ UNCHANGED sub
        \/ \E s \in {"canceled", "expired"} : sub' = [sub EXCEPT !.status = s]
    BY <1>2 DEF WfCancel, WfExpire
  <2>2. wf'.seen = wf.seen /\ UNCHANGED <<retry, req>>
    BY <1>0, <1>2 DEF WfCancel, WfExpire, WfGoto, WfOnly, WfRecord
  <2>3. LinkStep
    BY <1>0, <2>1, <2>2 DEF LinkStep, Linked, ActiveRenewsOrEnds, Real, Row
  <2> QED BY <2>3, LinkStepKeeps
<1>3. CASE WfWriteMeta
  <2>1. PICK m \in Meta :
          sub' = [sub EXCEPT !.meta = m] /\ (m.setup = "complete" => wf.seen.setup = "complete")
    <3>1. wf.seen \in Meta /\ wf.pc \in Recording
      BY <1>3 DEF WfWriteMeta, IInv, WfOK, WfRecord
    <3>2. CASE WfAt("processing")
      <4>1. sub' = [sub EXCEPT !.meta = [wf.seen EXCEPT !.charge = "processing"]]
        BY <1>3, <3>2 DEF WfWriteMeta
      <4>2. [wf.seen EXCEPT !.charge = "processing"] \in Meta BY <3>1, Metas
      <4>3. [wf.seen EXCEPT !.charge = "processing"].setup = "complete" => wf.seen.setup = "complete"
        BY <3>1 DEF Meta
      <4> QED BY <4>1, <4>2, <4>3
    <3>3. CASE WfAt("succeeded")
      <4>1. sub' = [sub EXCEPT !.meta = [wf.seen EXCEPT !.charge = "succeeded"]]
        BY <1>3, <3>3 DEF WfWriteMeta
      <4>2. [wf.seen EXCEPT !.charge = "succeeded"] \in Meta BY <3>1, Metas
      <4>3. [wf.seen EXCEPT !.charge = "succeeded"].setup = "complete" => wf.seen.setup = "complete"
        BY <3>1 DEF Meta
      <4> QED BY <4>1, <4>2, <4>3
    <3>4. CASE WfAt("failed")
      <4>1. sub' = [sub EXCEPT !.meta = [wf.seen EXCEPT !.charge = "failed"]]
        BY <1>3, <3>4 DEF WfWriteMeta
      <4>2. [wf.seen EXCEPT !.charge = "failed"] \in Meta BY <3>1, Metas
      <4>3. [wf.seen EXCEPT !.charge = "failed"].setup = "complete" => wf.seen.setup = "complete"
        BY <3>1 DEF Meta
      <4> QED BY <4>1, <4>2, <4>3
    <3>5. CASE WfAt("recordScheduled")
      <4>1. sub' = [sub EXCEPT !.meta = [wf.seen EXCEPT !.setup = "scheduled"]]
        BY <1>3, <3>5 DEF WfWriteMeta
      <4>2. [wf.seen EXCEPT !.setup = "scheduled"] \in Meta BY <3>1, Metas
      <4>3. [wf.seen EXCEPT !.setup = "scheduled"].setup = "complete" => wf.seen.setup = "complete"
        BY <3>1 DEF Meta
      <4> QED BY <4>1, <4>2, <4>3
    <3>6. CASE WfAt("recordFailed")
      <4>1. sub' = [sub EXCEPT !.meta = [wf.seen EXCEPT !.setup = "failed"]]
        BY <1>3, <3>6 DEF WfWriteMeta
      <4>2. [wf.seen EXCEPT !.setup = "failed"] \in Meta BY <3>1, Metas
      <4>3. [wf.seen EXCEPT !.setup = "failed"].setup = "complete" => wf.seen.setup = "complete"
        BY <3>1 DEF Meta
      <4> QED BY <4>1, <4>2, <4>3
    <3> QED BY <3>1, <3>2, <3>3, <3>4, <3>5, <3>6 DEF Recording
  <2>2. wf.seen # NoMeta /\ wf'.seen = NoMeta
    <3>1. wf.seen # NoMeta /\ wf.pc \in Recording BY <1>3 DEF WfWriteMeta, IInv, WfOK
    <3>2. \E step \in WfSteps : wf' = [wf EXCEPT !.pc = step, !.seen = NoMeta]
      BY <1>3, <3>1 DEF WfWriteMeta, Recording, WfSteps
    <3> QED BY <1>0, <3>1, <3>2 DEF WfRecord
  <2>3. m.setup = "complete" => Real(sub)
    BY <2>1, <2>2 DEF LinkInv, CopiesLinked, Linked
  <2>4. UNCHANGED <<retry, req>> BY <1>3 DEF WfWriteMeta, WfOnly
  <2>5. LinkStep
    BY <1>0, <2>1, <2>2, <2>3, <2>4 DEF LinkStep, Linked, ActiveRenewsOrEnds, Real, Row
  <2> QED BY <2>5, LinkStepKeeps
<1>4. CASE WfActivate
  <2>1. wf.code = NoCode \/ wf.code \in Codes BY <1>0 DEF WfRecord
  <2>2. wf'.seen = wf.seen /\ UNCHANGED <<retry, req>>
    BY <1>0, <1>4 DEF WfActivate, WfGoto, WfOnly, WfRecord
  <2>3. /\ sub'.meta = sub.meta
        /\ Real(sub) => Real(sub)'
        /\ ActiveRenewsOrEnds'
    BY <1>0, <1>4, <2>1 DEF WfActivate, Real, ActiveRenewsOrEnds, Row
  <2>4. LinkStep BY <1>0, <2>2, <2>3 DEF LinkStep, Linked
  <2> QED BY <2>4, LinkStepKeeps
<1>5. CASE WfStartRetry
  <2>1. wf'.seen = wf.seen /\ UNCHANGED <<sub, req>>
    BY <1>0, <1>5 DEF WfStartRetry, WfGoto, WfRecord
  <2>2. \A r \in Retries : /\ retry'[r].seen = retry[r].seen
                           /\ retry'[r].pc = "recover" => retry[r].pc = "recover"
    <3>1. CASE UNCHANGED retry BY <3>1
    <3>2. CASE \E r \in Retries : StartRetry(r, Delays) BY <3>2, StartKeepsCopies DEF IInv, Delays
    <3> QED BY <1>5, <3>1, <3>2 DEF WfStartRetry
  <2>3. LinkStep BY <1>0, <2>1, <2>2 DEF LinkStep, Linked, ActiveRenewsOrEnds, Real
  <2> QED BY <2>3, LinkStepKeeps
<1>6. CASE WfWake \/ WfAuth \/ WfLookup \/ WfCheck \/ WfLoad
  <2>1. UNCHANGED <<sub, retry, req>> /\ \E step \in WfSteps : WfGoto(step)
    BY <1>6 DEF WfWake, WfAuth, WfLookup, WfCheck, WfLoad, WfOnly, WfSteps
  <2>2. wf'.seen = wf.seen BY <1>0, <2>1 DEF WfGoto, WfRecord
  <2> QED BY <1>1, <2>1, <2>2
<1>7. CASE WfReadMeta BY <1>0, <1>1, <1>7 DEF WfReadMeta, WfOnly, WfRecord
<1>8. CASE WfCharge \/ WfDeclined \/ WfChargeLost \/ WfCreate \/ WfRestart
  <2>1. UNCHANGED <<sub, retry, req>>
    BY <1>8 DEF WfCharge, WfDeclined, WfChargeLost, WfCreate, WfRestart, WfOnly
  <2>2. wf'.seen \in {NoMeta, wf.seen}
    <3>1. CASE \E step \in WfSteps : WfGoto(step) BY <1>0, <3>1 DEF WfGoto, WfRecord
    <3>2. CASE NextTry
      <4>1. wf' = [wf EXCEPT !.tries = @ + 1] \/ wf' = [wf EXCEPT !.pc = "failed"]
        BY <3>2 DEF NextTry, WfGoto
      <4> QED BY <1>0, <4>1 DEF WfRecord
    <3>3. CASE UNCHANGED wf BY <3>3
    <3>4. CASE WfCreate
      BY <1>0, <3>4 DEF WfCreate, WfGoto, WfRecord
    <3>5. CASE WfRestart BY <3>5 DEF WfRestart
    <3> QED BY <1>8, <3>1, <3>2, <3>3, <3>4, <3>5 DEF WfCharge, WfDeclined, WfChargeLost, WfSteps
  <2> QED BY <1>1, <2>1, <2>2
<1> QED BY <1>2, <1>3, <1>4, <1>5, <1>6, <1>7, <1>8 DEF Workflow

LEMMA RetryLinks ==
  ASSUME IInv, LinkInv, NEW r \in Retries, Retry(r)
  PROVE  LinkInv'
<1> USE DEF RAt
<1> DEFINE run == retry[r]
<1>0. /\ sub \in Row /\ run \in RunRecord /\ run.seen.meta \in Meta /\ RunOK(run)
      /\ Linked(sub.meta) /\ Linked(run.seen.meta) /\ ActiveRenewsOrEnds
      /\ run.pc = "recover" => Real(sub)
  BY Rows DEF IInv, RowOK, RunsOK, RunOK, RunRecord, LinkInv, CopiesLinked, RecoversReal
<1>1. UNCHANGED <<wf, req>>
  BY DEF Retry, RetryWait, RetryRead, RetryRecover, RetryCreate, RetryFail, RetrySave, ROnly
<1>2. \A other \in Retries : other # r => retry'[other] = retry[other]
  BY DEF Retry, RetryWait, RetryRead, RetryRecover, RetryCreate, RetryFail, RetrySave, RGoto,
         IInv, RunsOK
<1>3. /\ retry'[r].seen \in {run.seen, sub}
      /\ retry'[r].pc = "recover" => Real(sub)
  <2>1. CASE RetryRead(r)
    <3>1. PICK step \in {"recover", "done", "create", "giveUp"} :
            /\ retry' = [retry EXCEPT ![r].seen = sub, ![r].pc = step]
            /\ step = "recover" => Real(sub)
      BY <2>1 DEF RetryRead
    <3> QED BY <1>0, <3>1 DEF RunRecord, IInv, RunsOK
  <2>2. CASE \E step \in {"done", "fail", "giveUp", "wait", "read"} : RGoto(r, step)
    BY <1>0, <2>2 DEF RGoto, RunRecord, IInv, RunsOK
  <2>3. CASE RetryWait(r) BY <1>0, <2>3 DEF RetryWait, RunRecord, IInv, RunsOK
  <2>4. CASE \E k \in Codes : retry' = [retry EXCEPT ![r].pc = "save", ![r].code = k]
    BY <1>0, <2>4 DEF RunRecord, IInv, RunsOK
  <2> QED BY <2>1, <2>2, <2>3, <2>4
          DEF Retry, RetryRecover, RetryCreate, RetryFail, RetrySave
<1>4. /\ Real(sub) => Real(sub)'
      /\ Linked(sub.meta)'
      /\ ActiveRenewsOrEnds'
  <2>1. CASE UNCHANGED sub BY <1>0, <2>1 DEF Linked, ActiveRenewsOrEnds, Real
  <2>2. CASE RetryRecover(r)
    BY <1>0, <2>2 DEF RetryRecover, Linked, ActiveRenewsOrEnds, Real, Row
  <2>3. CASE RetryFail(r)
    <3>1. PICK s \in {"scheduled", "failed"} :
            sub' = [sub EXCEPT !.meta = [run.seen.meta EXCEPT !.setup = s]]
      BY <2>3 DEF RetryFail
    <3>2. [run.seen.meta EXCEPT !.setup = s].setup = s BY <1>0 DEF Meta
    <3> QED BY <1>0, <3>1, <3>2 DEF Linked, ActiveRenewsOrEnds, Real, Row
  <2>4. CASE RetrySave(r) /\ run.pc = "save" /\ ~UNCHANGED sub
    <3>1. run.code \in Codes BY <1>0, <2>4 DEF RunOK
    <3>2. sub' = [sub EXCEPT !.code = run.code, !.cancelAt = "none",
                             !.meta = [run.seen.meta EXCEPT !.setup = "complete"]]
      BY <2>4 DEF RetrySave
    <3> QED BY <1>0, <3>1, <3>2 DEF Linked, ActiveRenewsOrEnds, Real, Row
  <2> QED BY <2>1, <2>2, <2>3, <2>4
          DEF Retry, RetryWait, RetryRead, RetryCreate, RetrySave
<1>5. LinkStep
  BY <1>1, <1>2, <1>3, <1>4 DEF LinkStep
<1> QED BY <1>5, LinkStepKeeps

LEMMA RequestLinks ==
  ASSUME IInv, LinkInv, NEW q \in Requests, QRead(q) \/ QWrite(q) \/ QDispatch(q)
  PROVE  LinkInv'
<1> USE DEF Kind
<1> DEFINE seen == req[q].seen
<1>0. /\ sub \in Row /\ req[q] \in RequestRecord /\ seen \in Row /\ seen.meta \in Meta
      /\ seen.end \in Ends /\ \A r \in Retries : retry[r] \in RunRecord
      /\ Linked(sub.meta) /\ Linked(seen.meta) /\ ActiveRenewsOrEnds
  BY Rows DEF IInv, RowOK, RequestsOK, RequestRecord, RunsOK, RunOK, LinkInv, CopiesLinked
<1>1. wf' = wf BY DEF QRead, QWrite, QDispatch
<1>2. \A other \in Requests : req'[other].seen \in {req[other].seen, sub}
  <2> SUFFICES ASSUME NEW other \in Requests PROVE req'[other].seen \in {req[other].seen, sub}
    OBVIOUS
  <2>1. req \in [Requests -> RequestRecord] BY DEF IInv, RequestsOK
  <2>2. CASE QRead(q) BY <2>1, <2>2 DEF QRead, RequestRecord
  <2>3. CASE \E step \in ReqSteps : QGoto(q, step) BY <2>1, <2>3 DEF QGoto, RequestRecord
  <2> QED BY <2>2, <2>3 DEF QWrite, QDispatch, ReqSteps
<1>3. \A r \in Retries : /\ retry'[r].seen = retry[r].seen
                         /\ retry'[r].pc = "recover" => retry[r].pc = "recover"
  <2>1. CASE UNCHANGED retry BY <2>1
  <2>2. CASE \E r \in Retries : StartRetry(r, Delays + 1)
    BY <2>2, StartKeepsCopies DEF IInv, Delays
  <2> QED BY <2>1, <2>2 DEF QRead, QWrite, QDispatch
<1>4. /\ Real(sub) => Real(sub)'
      /\ Linked(sub.meta)'
      /\ ActiveRenewsOrEnds'
  <2>1. CASE UNCHANGED sub BY <1>0, <2>1 DEF Linked, ActiveRenewsOrEnds, Real
  <2>2. CASE QWrite(q)
    <3> DEFINE kept == IF seen.status = "trialing" THEN "trialing" ELSE "active"
    <3>1. req[q].kind \in Kinds BY <1>0 DEF RequestRecord
    <3>2. seen.end # "none" BY <1>0 DEF Ends
    <3>3. CASE req[q].kind = "cancel"
      <4>1. sub' = [sub EXCEPT !.status = kept, !.cancelAt = seen.end] BY <2>2, <3>3 DEF QWrite
      <4> QED BY <1>0, <3>2, <4>1 DEF Linked, ActiveRenewsOrEnds, Real, Row
    <3>4. CASE req[q].kind = "cancelNow"
      <4>1. sub' = [sub EXCEPT !.status = "canceled"] BY <2>2, <3>4 DEF QWrite
      <4> QED BY <1>0, <4>1 DEF Linked, ActiveRenewsOrEnds, Real, Row
    <3>5. CASE req[q].kind = "downgrade"
      <4>1. sub' = [sub EXCEPT !.status = kept, !.cancelAt = seen.end,
                               !.meta = [seen.meta EXCEPT !.sched = TRUE]]
        BY <2>2, <3>5 DEF QWrite
      <4>2. [seen.meta EXCEPT !.sched = TRUE].setup = seen.meta.setup BY <1>0 DEF Meta
      <4> QED BY <1>0, <3>2, <4>1, <4>2 DEF Linked, ActiveRenewsOrEnds, Real, Row
    <3>6. CASE req[q].kind = "retry"
      <4>1. sub' = [sub EXCEPT !.meta = [seen.meta EXCEPT !.setup = "scheduled"]]
        BY <2>2, <3>6 DEF QWrite
      <4>2. [seen.meta EXCEPT !.setup = "scheduled"].setup = "scheduled" BY <1>0 DEF Meta
      <4> QED BY <1>0, <4>1, <4>2 DEF Linked, ActiveRenewsOrEnds, Real, Row
    <3> QED BY <3>1, <3>3, <3>4, <3>5, <3>6 DEF Kinds
  <2>3. CASE QDispatch(q) /\ sub' = [sub EXCEPT !.meta = seen.meta]
    BY <1>0, <2>3 DEF Linked, ActiveRenewsOrEnds, Real, Row
  <2> QED BY <2>1, <2>2, <2>3 DEF QRead, QDispatch
<1>5. LinkStep
  BY <1>1, <1>2, <1>3, <1>4 DEF LinkStep
<1> QED BY <1>5, LinkStepKeeps

LEMMA LinkInvariant == Spec => []LinkInv
<1>1. Init => LinkInv
  <2> SUFFICES ASSUME Init PROVE LinkInv OBVIOUS
  <2>1. sub.meta.setup = "none" /\ sub.status = "trialing" /\ wf.seen = NoMeta BY DEF Init
  <2>2. \A r \in Retries : retry[r].seen = sub /\ retry[r].pc = "unused" BY DEF Init, Idle
  <2>3. \A q \in Requests : req[q].seen = sub BY DEF Init
  <2> QED BY <2>1, <2>2, <2>3
          DEF LinkInv, CopiesLinked, Linked, RecoversReal, ActiveRenewsOrEnds
<1>2. IInv /\ LinkInv /\ [Next]_vars => LinkInv'
  <2> SUFFICES ASSUME IInv, LinkInv, [Next]_vars PROVE LinkInv' OBVIOUS
  <2>1. CASE Workflow \/ WfChargeLost \/ WfRestart BY <2>1, WorkflowLinks
  <2>2. CASE \E r \in Retries : Retry(r) BY <2>2, RetryLinks
  <2>3. CASE \E q \in Requests : QRead(q) \/ QWrite(q) \/ QDispatch(q) BY <2>3, RequestLinks
  <2>4. CASE UNCHANGED <<sub, wf, retry, req>>
    BY <2>4 DEF LinkInv, CopiesLinked, Linked, RecoversReal, ActiveRenewsOrEnds, Real
  <2>5. CASE \E e \in ends : End(e)
    <3>1. UNCHANGED <<wf, retry, req>> BY <2>5 DEF End
    <3>2. \/ UNCHANGED sub
          \/ sub' = [sub EXCEPT !.status = "canceled"]
      BY <2>5 DEF End
    <3>3. sub \in Row BY DEF IInv, RowOK
    <3>4. LinkStep
      BY <3>1, <3>2, <3>3 DEF LinkStep, LinkInv, CopiesLinked, Linked, ActiveRenewsOrEnds, Real, Row
    <3> QED BY <3>4, LinkStepKeeps
  <2> QED BY <2>1, <2>2, <2>3, <2>4, <2>5 DEF Next, Tick, vars
<1> QED BY <1>1, <1>2, Typed, PTL DEF Spec

(* However runs and requests write back what they read, a renewal is only  *)
(* called complete when the row has a subscription of the provider.        *)
THEOREM CompletionIsReal == Spec => []CompleteIsLinked
<1>1. LinkInv => CompleteIsLinked BY DEF LinkInv, CopiesLinked, Linked, CompleteIsLinked
<1> QED BY <1>1, LinkInvariant, PTL

(* No interleaving gives a plan away: an active subscription is renewed by *)
(* the provider or has an end.                                             *)
THEOREM NothingForFree == Spec => []ActiveRenewsOrEnds
<1>1. LinkInv => ActiveRenewsOrEnds BY DEF LinkInv
<1> QED BY <1>1, LinkInvariant, PTL

-----------------------------------------------------------------------------
(* Once the card is charged the workflow, if nothing fails, only goes on   *)
(* to steps that keep the subscription, and one that is expired was not    *)
(* charged and has no workflow any more.                                   *)
AfterCharge == {"succeeded", "lookup", "create", "activate", "startRetry", "recordScheduled",
                "recordFailed", "done"}
PaidInv ==
  faults = 0 => /\ charges > 0 => wf.pc \in AfterCharge
                /\ sub.status = "expired" => wf.pc = "done" /\ charges = 0

\* A fault is counted.
LEMMA FaultsCounted ==
  ASSUME IInv, [Next]_vars
  PROVE  faults' = faults \/ \E kind \in Faults : Fault(kind)
<1> USE DEF Fault
<1>1. CASE Workflow \/ WfChargeLost \/ WfRestart
  BY <1>1 DEF Workflow, WfWake, WfCheck, WfCancel, WfAuth, WfLoad, WfReadMeta, WfWriteMeta,
              WfCharge, WfDeclined, WfLookup, WfCreate, WfActivate, WfStartRetry, WfExpire,
              WfChargeLost, WfRestart
<1>2. CASE \E r \in Retries : Retry(r)
  BY <1>2 DEF Retry, RetryWait, RetryRead, RetryRecover, RetryCreate, RetryFail, RetrySave
<1>3. CASE \E q \in Requests : QRead(q) \/ QWrite(q) \/ QDispatch(q)
  BY <1>3 DEF QRead, QWrite, QDispatch
<1>4. CASE Tick \/ (\E e \in ends : End(e)) \/ UNCHANGED vars BY <1>4 DEF Tick, End, vars
<1> QED BY <1>1, <1>2, <1>3, <1>4 DEF Next

\* Nothing but the workflow expires the subscription.
LEMMA OthersExpireNothing ==
  ASSUME IInv, [Next]_vars, ~(Workflow \/ WfChargeLost \/ WfRestart)
  PROVE  /\ wf' = wf /\ charges' = charges
         /\ sub'.status = "expired" => sub.status = "expired"
<1>0. sub \in Row BY DEF IInv, RowOK
<1>1. CASE \E r \in Retries : Retry(r)
  <2>1. wf' = wf /\ charges' = charges
    BY <1>1 DEF Retry, RetryWait, RetryRead, RetryRecover, RetryCreate, RetryFail, RetrySave, ROnly
  <2>2. sub'.status = sub.status
    BY <1>0, <1>1 DEF Row, Retry, RetryWait, RetryRead, RetryRecover, RetryCreate, RetryFail,
                      RetrySave
  <2> QED BY <2>1, <2>2
<1>2. ASSUME NEW q \in Requests, QRead(q) \/ QWrite(q) \/ QDispatch(q)
      PROVE  /\ wf' = wf /\ charges' = charges
             /\ sub'.status = "expired" => sub.status = "expired"
  <2>1. wf' = wf /\ charges' = charges BY <1>2 DEF QRead, QWrite, QDispatch, NoCharge
  <2>2. CASE QWrite(q)
    <3>1. req[q].kind \in Kinds BY DEF IInv, RequestsOK, RequestRecord
    <3>2. sub'.status \in {sub.status, "trialing", "active", "canceled"}
      BY <1>0, <2>2, <3>1 DEF QWrite, Kind, Kinds, Row
    <3> QED BY <2>1, <3>2
  <2>3. CASE QRead(q) \/ QDispatch(q)
    BY <1>0, <2>1, <2>3 DEF QRead, QDispatch, Row
  <2> QED BY <1>2, <2>2, <2>3
<1>3. CASE Tick \/ (\E e \in ends : End(e)) \/ UNCHANGED vars
  BY <1>0, <1>3 DEF Tick, End, vars, NoCharge, Row
<1> QED BY <1>1, <1>2, <1>3 DEF Next

LEMMA PaidStep == IInv /\ PaidInv /\ [Next]_vars => PaidInv'
<1> SUFFICES ASSUME IInv, PaidInv, [Next]_vars, faults' = 0
             PROVE  /\ charges' > 0 => wf'.pc \in AfterCharge
                    /\ sub'.status = "expired" => wf'.pc = "done" /\ charges' = 0
  BY DEF PaidInv
<1> USE DEF WfAt, AfterCharge
<1>0. sub \in Row /\ wf \in WfRecord /\ charges \in Nat /\ faults \in 0..MaxFaults
  BY DEF IInv, RowOK, WfOK, RestOK
<1>1. faults = 0 /\ \A kind \in Faults : ~Fault(kind)
  BY <1>0, FaultsCounted, TrialAssumption DEF Fault
<1>2. /\ charges > 0 => wf.pc \in AfterCharge
      /\ sub.status = "expired" => wf.pc = "done" /\ charges = 0
  BY <1>1 DEF PaidInv
<1>3. CASE ~(Workflow \/ WfChargeLost \/ WfRestart) BY <1>2, <1>3, OthersExpireNothing
<1>4. CASE WfChargeLost \/ WfRestart BY <1>1, <1>4 DEF WfChargeLost, WfRestart, Fault
<1>5. CASE WfWake \/ WfCheck \/ WfAuth \/ WfLoad \/ WfLookup \/ WfReadMeta \/ WfStartRetry
  BY <1>0, <1>2, <1>5 DEF WfWake, WfCheck, WfAuth, WfLoad, WfLookup, WfReadMeta, WfStartRetry,
                          WfGoto, NoCharge, WfRecord
<1>6. CASE WfCancel \/ WfExpire
  BY <1>0, <1>2, <1>6 DEF WfCancel, WfExpire, WfGoto, NoCharge, WfRecord, Row
<1>7. CASE WfWriteMeta
  <2>1. wf.seen # NoMeta /\ wf.pc \in Recording BY <1>7 DEF WfWriteMeta, IInv, WfOK
  <2>2. charges' = charges /\ sub'.status = sub.status
    BY <1>0, <1>7, <2>1 DEF WfWriteMeta, NoCharge, Recording, Row
  <2>3. /\ wf.pc = "processing" => wf'.pc = "charge"
        /\ wf.pc = "failed" => wf'.pc = "expire"
        /\ wf.pc = "succeeded" => wf'.pc = "lookup"
        /\ wf.pc \in {"recordScheduled", "recordFailed"} => wf'.pc = "done"
    BY <1>0, <1>7, <2>1 DEF WfWriteMeta, WfRecord
  <2> QED BY <1>2, <2>1, <2>2, <2>3 DEF Recording
<1>8. CASE WfCharge \/ WfDeclined
  <2>1. wf.pc = "charge" /\ charges = 0 BY <1>0, <1>2, <1>8 DEF WfCharge, WfDeclined
  <2>2. sub' = sub BY <1>8 DEF WfCharge, WfDeclined
  <2>3. charges' = 0 \/ WfGoto("succeeded") BY <1>8, <2>1 DEF WfCharge, WfDeclined, NoCharge
  <2> QED BY <1>0, <1>2, <2>1, <2>2, <2>3 DEF WfGoto, WfRecord
<1>9. CASE WfCreate
  <2>1. wf.pc = "create" /\ sub' = sub /\ charges' = charges BY <1>9 DEF WfCreate
  <2>2. wf'.pc \in {"create", "activate"} BY <1>0, <1>9, <2>1 DEF WfCreate, WfGoto, WfRecord
  <2> QED BY <1>2, <2>1, <2>2
<1>10. CASE WfActivate
  <2>1. wf.pc = "activate" /\ charges' = charges BY <1>10 DEF WfActivate, NoCharge
  <2>2. wf'.pc \in {"startRetry", "done"} BY <1>0, <1>10 DEF WfActivate, WfGoto, WfRecord
  <2>3. sub'.status \in {sub.status, "active"} BY <1>0, <1>10 DEF WfActivate, Row
  <2> QED BY <1>2, <2>1, <2>2, <2>3
<1> QED BY <1>3, <1>4, <1>5, <1>6, <1>7, <1>8, <1>9, <1>10 DEF Workflow

(* What is paid is kept: unless something fails, no interleaving of the    *)
(* workflow, its retries and requests expires a trial that was charged.    *)
THEOREM PaidIsKept == Spec => []PaidNotExpired
<1>1. Init => PaidInv BY DEF Init, PaidInv
<1>2. PaidInv => PaidNotExpired BY DEF PaidInv, PaidNotExpired
<1> QED BY <1>1, <1>2, PaidStep, Typed, PTL DEF Spec

-----------------------------------------------------------------------------
(* A trial that was canceled in time and not written over is kept from the *)
(* charge by its status or its end.  Whoever clears that end is a run of   *)
(* the renewal's setup, and those begin when the trial is over.            *)
NotTrialing == sub.status # "trialing"
Stopped ==
  /\ charges = 0
  /\ wf.pc \in {"sleep", "check", "cancel", "done"}
  /\ wf.pc # "done" => NotTrialing \/ sub.cancelAt # "none"

StopInv ==
  ~overtaken =>
    /\ \A r \in Retries : retry[r].pc # "unused" => NotTrialing
    /\ \A q \in Requests :
         req[q].kind = "retry" /\ req[q].pc \in {"write", "dispatch"} => NotTrialing
    /\ wf.pc = "startRetry" => NotTrialing
    /\ inTime => Stopped

LEMMA StopStep == IInv /\ StopInv /\ [Next]_vars => StopInv'
<1> SUFFICES ASSUME IInv, StopInv, [Next]_vars, ~overtaken' PROVE StopInv'
  BY DEF StopInv
<1> USE DEF WfAt, RAt, Kind
<1>0. /\ sub \in Row /\ wf \in WfRecord /\ charges \in Nat /\ inTime \in BOOLEAN
      /\ overtaken \in BOOLEAN
      /\ retry = [r \in Retries |-> retry[r]] /\ \A r \in Retries : retry[r] \in RunRecord
      /\ req \in [Requests -> RequestRecord]
  BY DEF IInv, RowOK, WfOK, RestOK, RunsOK, RunOK, RequestsOK
<1>1. CASE Workflow \/ WfChargeLost \/ WfRestart
  <2>0. UNCHANGED <<req, inTime, overtaken>>
    BY <1>1 DEF Workflow, WfWake, WfCheck, WfCancel, WfAuth, WfLoad, WfReadMeta, WfWriteMeta,
                WfCharge, WfDeclined, WfLookup, WfCreate, WfActivate, WfStartRetry, WfExpire,
                WfChargeLost, WfRestart, WfOnly
  <2>1. /\ \A r \in Retries : retry[r].pc # "unused" => NotTrialing
        /\ \A q \in Requests :
             req[q].kind = "retry" /\ req[q].pc \in {"write", "dispatch"} => NotTrialing
        /\ wf.pc = "startRetry" => NotTrialing
        /\ inTime => Stopped
    BY <2>0 DEF StopInv
  <2>2. NotTrialing => NotTrialing'
    <3>1. CASE WfWriteMeta
      <4>1. wf.pc \in Recording BY <3>1 DEF WfWriteMeta, IInv, WfOK
      <4> QED BY <1>0, <3>1, <4>1 DEF WfWriteMeta, Recording, NotTrialing, Row
    <3>2. CASE ~WfWriteMeta
      BY <1>0, <1>1, <3>2
         DEF NotTrialing, Row, Workflow, WfWake, WfCheck, WfCancel, WfAuth, WfLoad, WfReadMeta,
             WfCharge, WfDeclined, WfLookup, WfCreate, WfActivate, WfStartRetry, WfExpire,
             WfChargeLost, WfRestart
    <3> QED BY <3>1, <3>2
  <2>3. wf'.pc = "startRetry" => NotTrialing'
    <3>1. CASE WfActivate
      BY <1>0, <3>1 DEF WfActivate, NotTrialing, Row
    <3>2. CASE WfWriteMeta
      <4>1. wf.pc \in Recording BY <3>2 DEF WfWriteMeta, IInv, WfOK
      <4> QED BY <1>0, <3>2, <4>1 DEF WfWriteMeta, Recording, WfRecord
    <3>3. CASE WfStartRetry BY <1>0, <3>3 DEF WfStartRetry, WfGoto, WfRecord
    <3>4. CASE WfCharge \/ WfDeclined \/ WfChargeLost
      <4>1. wf'.pc \in {"charge", "failed", "succeeded"}
        BY <1>0, <3>4 DEF WfCharge, WfDeclined, WfChargeLost, NextTry, WfGoto, WfRecord
      <4> QED BY <4>1
    <3>5. CASE WfWake \/ WfCheck \/ WfCancel \/ WfAuth \/ WfLoad \/ WfLookup \/ WfExpire \/ WfRestart
      BY <1>0, <3>5 DEF WfWake, WfCheck, WfCancel, WfAuth, WfLoad, WfLookup, WfExpire, WfRestart,
                        WfGoto, WfRecord
    <3>6. CASE WfReadMeta BY <1>0, <2>1, <3>6 DEF WfReadMeta, WfRecord
    <3>7. CASE WfCreate
      <4>1. wf'.pc \in {"create", "activate"} BY <1>0, <3>7 DEF WfCreate, WfGoto, WfRecord
      <4> QED BY <4>1
    <3> QED BY <1>1, <3>1, <3>2, <3>3, <3>4, <3>5, <3>6, <3>7 DEF Workflow
  <2>4. \A r \in Retries : retry'[r].pc # "unused" => NotTrialing'
    <3> SUFFICES ASSUME NEW r \in Retries, retry'[r].pc # "unused" PROVE NotTrialing' OBVIOUS
    <3>1. CASE retry' = retry BY <2>1, <2>2, <3>1
    <3>2. CASE retry' # retry
      <4>1. WfStartRetry
        BY <1>1, <3>2
           DEF Workflow, WfWake, WfCheck, WfCancel, WfAuth, WfLoad, WfReadMeta, WfWriteMeta,
               WfCharge, WfDeclined, WfLookup, WfCreate, WfActivate, WfExpire, WfChargeLost,
               WfRestart, WfOnly
      <4> QED BY <2>1, <2>2, <4>1 DEF WfStartRetry
    <3> QED BY <3>1, <3>2
  <2>5. ASSUME inTime PROVE Stopped'
    <3>1. Stopped BY <2>1, <2>5
    <3>2. WfWake \/ WfCheck \/ WfCancel \/ WfRestart
      <4>1. ~WfAuth /\ ~WfLoad /\ ~WfReadMeta /\ ~WfLookup /\ ~WfCreate /\ ~WfActivate
        BY <3>1 DEF Stopped, WfAuth, WfLoad, WfReadMeta, WfLookup, WfCreate, WfActivate
      <4>2. ~WfStartRetry /\ ~WfExpire /\ ~WfCharge /\ ~WfDeclined /\ ~WfChargeLost
        BY <3>1 DEF Stopped, WfStartRetry, WfExpire, WfCharge, WfDeclined, WfChargeLost
      <4>3. ~WfWriteMeta
        <5>1. wf.pc \notin Recording BY <3>1 DEF Stopped, Recording
        <5> QED BY <5>1 DEF WfWriteMeta, IInv, WfOK
      <4> QED BY <1>1, <4>1, <4>2, <4>3 DEF Workflow
    <3>3. CASE WfWake BY <1>0, <3>1, <3>3 DEF WfWake, WfGoto, Stopped, NotTrialing, NoCharge, WfRecord
    <3>4. CASE WfCheck
      <4>1. wf'.pc \in {"done", "cancel"}
        BY <1>0, <3>1, <3>4 DEF WfCheck, WfGoto, Stopped, NotTrialing, WfRecord
      <4> QED BY <3>1, <3>4, <4>1 DEF WfCheck, Stopped, NoCharge, NotTrialing
    <3>5. CASE WfCancel BY <1>0, <3>1, <3>5 DEF WfCancel, WfGoto, Stopped, NoCharge, WfRecord
    <3>6. CASE WfRestart
      BY <1>0, <3>1, <3>6 DEF WfRestart, Stopped, NoCharge, NotTrialing
    <3> QED BY <3>2, <3>3, <3>4, <3>5, <3>6
  <2> QED BY <2>0, <2>1, <2>2, <2>3, <2>4, <2>5 DEF StopInv
<1>2. CASE \E r \in Retries : Retry(r)
  <2> PICK r \in Retries : Retry(r) BY <1>2
  <2>0. UNCHANGED <<wf, charges, req, inTime, overtaken>>
    BY DEF Retry, RetryWait, RetryRead, RetryRecover, RetryCreate, RetryFail, RetrySave, ROnly
  <2>1. sub'.status = sub.status
    BY <1>0 DEF Retry, RetryWait, RetryRead, RetryRecover, RetryCreate, RetryFail, RetrySave, Row
  <2>2. retry[r].pc # "unused"
    BY DEF Retry, RetryWait, RetryRead, RetryRecover, RetryCreate, RetryFail, RetrySave
  <2>3. NotTrialing BY <2>0, <2>2 DEF StopInv
  <2> QED BY <2>0, <2>1, <2>3 DEF StopInv, Stopped, NotTrialing
<1>3. CASE \E q \in Requests : QRead(q)
  <2> PICK q \in Requests : QRead(q) BY <1>3
  <2>0. UNCHANGED <<sub, wf, retry, charges, inTime, overtaken>> BY DEF QRead
  <2>1. req'[q].kind = "retry" => NotTrialing
    BY <1>0 DEF QRead, RequestRecord, NotTrialing
  <2>2. \A other \in Requests : other # q => req'[other] = req[other] BY <1>0 DEF QRead
  <2> QED BY <2>0, <2>1, <2>2 DEF StopInv, Stopped, NotTrialing
<1>4. CASE \E q \in Requests : QWrite(q)
  <2> PICK q \in Requests : QWrite(q) BY <1>4
  <2> DEFINE seen == req[q].seen
  <2>0. UNCHANGED <<wf, retry, charges>> BY DEF QWrite
  <2>1. ~overtaken /\ seen.status = sub.status BY DEF QWrite
  <2>2. req[q].kind \in Kinds /\ seen \in Row BY <1>0 DEF RequestRecord
  <2>3. NotTrialing => NotTrialing'
    BY <1>0, <2>1, <2>2 DEF QWrite, NotTrialing, Row, Kinds
  <2>4. \A other \in Requests :
          /\ req'[other].kind = req[other].kind
          /\ req'[other].pc \in {"write", "dispatch"} => req[other].pc \in {"write", "dispatch"}
    BY <1>0 DEF QWrite, QGoto, RequestRecord
  <2>5. ASSUME inTime' PROVE Stopped'
    <3>1. req[q].kind = "retry" => inTime' = inTime /\ NotTrialing
      BY <1>0, <2>1 DEF QWrite, StopInv
    <3>2. charges = 0 /\ wf.pc \in {"sleep", "check", "cancel", "done"}
      BY <2>1, <2>5 DEF QWrite, StopInv, Stopped
    <3>3. req[q].kind # "retry" => NotTrialing' \/ sub'.cancelAt # "none"
      BY <1>0, <2>2 DEF QWrite, NotTrialing, Row, Kinds, Ends
    <3>4. req[q].kind = "retry" => NotTrialing'
      BY <2>3, <3>1
    <3> QED BY <2>0, <3>2, <3>3, <3>4 DEF Stopped
  <2>6. /\ \A r \in Retries : retry[r].pc # "unused" => NotTrialing
        /\ \A p \in Requests :
             req[p].kind = "retry" /\ req[p].pc \in {"write", "dispatch"} => NotTrialing
        /\ wf.pc = "startRetry" => NotTrialing
    BY <2>1 DEF StopInv
  <2>7. \A p \in Requests :
          req'[p].kind = "retry" /\ req'[p].pc \in {"write", "dispatch"} => NotTrialing'
    BY <2>3, <2>4, <2>6
  <2> QED BY <2>0, <2>3, <2>5, <2>6, <2>7 DEF StopInv
<1>5. CASE \E q \in Requests : QDispatch(q)
  <2> PICK q \in Requests : QDispatch(q) BY <1>5
  <2>0. UNCHANGED <<wf, charges, inTime, overtaken>> BY DEF QDispatch, NoCharge
  <2>1. sub'.status = sub.status /\ sub'.cancelAt = sub.cancelAt BY <1>0 DEF QDispatch, Row
  <2>2. \A other \in Requests :
          /\ req'[other].kind = req[other].kind
          /\ req'[other].pc \in {"write", "dispatch"} => req[other].pc \in {"write", "dispatch"}
    BY <1>0 DEF QDispatch, QGoto, RequestRecord
  <2>3. ASSUME NEW r \in Retries, retry'[r].pc # "unused" PROVE NotTrialing
    <3>1. CASE req[q].kind = "retry" BY <2>0, <3>1 DEF QDispatch, StopInv
    <3>2. CASE req[q].kind # "retry"
      <4>1. retry' = retry BY <3>2 DEF QDispatch
      <4> QED BY <2>0, <2>3, <4>1 DEF StopInv
    <3> QED BY <3>1, <3>2
  <2>4. /\ \A p \in Requests :
             req[p].kind = "retry" /\ req[p].pc \in {"write", "dispatch"} => NotTrialing
        /\ wf.pc = "startRetry" => NotTrialing
        /\ inTime => Stopped
    BY <2>0 DEF StopInv
  <2>5. (NotTrialing' <=> NotTrialing) /\ (Stopped' <=> Stopped)
    BY <2>0, <2>1 DEF NotTrialing, Stopped
  <2>6. \A p \in Requests :
          req'[p].kind = "retry" /\ req'[p].pc \in {"write", "dispatch"} => NotTrialing'
    BY <2>2, <2>4, <2>5
  <2> QED BY <2>0, <2>3, <2>4, <2>5, <2>6 DEF StopInv
<1>6. CASE \E e \in ends : End(e)
  <2>1. UNCHANGED <<wf, charges, retry, req, inTime, overtaken>> BY <1>6 DEF End, NoCharge
  <2>2. /\ NotTrialing => NotTrialing'
        /\ sub'.cancelAt = sub.cancelAt
    BY <1>0, <1>6 DEF End, NotTrialing, Row
  <2> QED BY <2>1, <2>2 DEF StopInv, Stopped
<1>7. CASE Tick \/ UNCHANGED vars
  BY <1>7 DEF Tick, vars, StopInv, Stopped, NotTrialing
<1> QED BY <1>1, <1>2, <1>3, <1>4, <1>5, <1>6, <1>7 DEF Next

(* A cancellation in time stops the charge: whatever requests, retries and *)
(* failures come together, if none writes back a status or metadata that   *)
(* had changed.                                                            *)
THEOREM CanceledIsFree == Spec => []CanceledNotCharged
<1>1. Init => StopInv BY DEF Init, StopInv, Idle
<1>2. StopInv => CanceledNotCharged BY DEF StopInv, Stopped, CanceledNotCharged
<1> QED BY <1>1, <1>2, StopStep, Typed, PTL DEF Spec
=============================================================================
