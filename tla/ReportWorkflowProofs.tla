------------------------ MODULE ReportWorkflowProofs ------------------------
(***************************************************************************)
(* Theorems about ReportWorkflow, for every set of symbols, every list of  *)
(* enabled channels, every number of retries and every value of the bounds.*)
(***************************************************************************)
EXTENDS ReportWorkflow, SequenceTheorems, TLAPS

USE DEF vars, call, files, sends, Dispatching

-----------------------------------------------------------------------------
(* Type correctness. *)

LEMMA StageSteps ==
    /\ Stage = {"RUNNING", "DATA_COLLECTED", "DATA_VALIDATED", "ANALYZED",
                "REPORT_GENERATED"}
    /\ \A p \in Stage :
          StageLog[p] \in {"collect", "validate", "save_clean", "save_report", "send"}
  BY DEF Stage, StageLog

LEMMA ChannelInHand ==
    ASSUME ch \in 1..Len(Channels)
    PROVE  Channels[ch] \in Channel
  BY WorkflowConstants

LEMMA RowsType ==
    ASSUME NEW S, NEW st \in Status, runlog \in [Row -> Status]
    PROVE  Rows(S, st) \in [Row -> Status]
  BY DEF Rows

LEMMA StatusType == DispatchStatus \in Status
  BY DEF DispatchStatus, Status

LEMMA NoDataType == NoData \in Dataset
  BY DEF NoData, Dataset, Quote, MarketStatus

LEMMA CleanType ==
    ASSUME NEW d \in Dataset
    PROVE  Clean(d) \in Dataset
  BY DEF Clean, Dataset, Quote

LEMMA WorkflowInitType == Init => TypeOK
<1> SUFFICES ASSUME Init PROVE TypeOK
  OBVIOUS
<1>1. 1 \in 1..Len(Channels) /\ <<>> \in Seq(BOOLEAN)
  BY WorkflowConstants
<1>2. runlog \in [Row -> Status]
  BY DEF Init, Status
<1>3. copies \in [Channel -> Nat] /\ unconfirmed \in [Channel -> Nat]
  BY DEF Init
<1>4. pc \in Step
  BY DEF Init, Step
<1>5. out \in BOOLEAN /\ hit \in BOOLEAN
  BY DEF Init
<1> QED
  BY <1>1, <1>2, <1>3, <1>4, <1>5, NoDataType, WorkflowConstants DEF Init, TypeOK

\* A step that ends the call, with rows of the run log and the report written.
LEMMA ReturnType ==
    ASSUME TypeOK, NEW a \in {"none", "true", "false"}, Return(a),
           runlog' \in [Row -> Status], report' \in Nat, repeats' \in Nat,
           hit' \in BOOLEAN, faults' \in 0..MaxFaults, UNCHANGED <<runs, sends>>
    PROVE  TypeOK'
  BY NoDataType, WorkflowConstants DEF TypeOK, Return, Step

LEMMA FaultType ==
    ASSUME TypeOK, Fault
    PROVE  hit' \in BOOLEAN /\ faults' \in 0..MaxFaults
  BY WorkflowConstants DEF TypeOK, Fault

LEMMA RepeatType ==
    ASSUME TypeOK, CountRepeat
    PROVE  repeats' \in Nat
  BY DEF TypeOK, CountRepeat

LEMMA NextChannelType ==
    ASSUME TypeOK, pc = "send", NEW b \in BOOLEAN, NextChannel(b)
    PROVE  /\ results' \in Seq(BOOLEAN) /\ attempt' \in Nat
           /\ ch' \in 1..Len(Channels) /\ pc' \in {"send", "dispatch"}
  BY WorkflowConstants DEF TypeOK, NextChannel

LEMMA WorkflowNextType == TypeOK /\ [Next]_vars => TypeOK'
<1> SUFFICES ASSUME TypeOK, [Next]_vars PROVE TypeOK'
  OBVIOUS
<1>1. CASE Call
  <2>1. runlog' \in [Row -> Status]
    BY <1>1 DEF Call, Status
  <2>2. pc' \in Step
    BY <1>1 DEF Call, Step
  <2>3. out' \in BOOLEAN /\ hit' \in BOOLEAN
    BY <1>1 DEF Call
  <2>4. runs' \in Nat
    BY <1>1 DEF Call, TypeOK
  <2> QED
    BY <1>1, <2>1, <2>2, <2>3, <2>4 DEF Call, TypeOK
<1>2. CASE LogPending
  <2>1. runlog' \in [Row -> Status]
    BY <1>2, RowsType DEF LogPending, TypeOK, Status
  <2> QED
    BY <1>2, <2>1, StageSteps DEF LogPending, NoFault, TypeOK, Step
<1>3. CASE LogStage
  <2>1. runlog' \in [Row -> Status]
    BY <1>3, RowsType, StageSteps DEF LogStage, TypeOK, Status
  <2> QED
    BY <1>3, <2>1, StageSteps DEF LogStage, NoFault, TypeOK, Step
<1>4. CASE Collect \/ Validate
  BY <1>4, CleanType, StageSteps DEF Collect, Validate, NoFault, TypeOK, Step
<1>5. CASE LogSkipped
  <2>1. runlog' \in [Row -> Status]
    BY <1>5, RowsType DEF LogSkipped, TypeOK, Status
  <2> QED
    BY <1>5, <2>1, ReturnType DEF LogSkipped, NoFault, TypeOK, Step
<1>6. CASE SaveClean \/ SaveReport \/ CollectRaises
  BY <1>6, StageSteps DEF SaveClean, SaveReport, CollectRaises, NoFault, TypeOK, Step
<1>7. CASE SendConfirmed
  <2>1. copies' \in [Channel -> Nat]
    BY <1>7, ChannelInHand DEF SendConfirmed, TypeOK
  <2> QED
    BY <1>7, <2>1, NextChannelType DEF SendConfirmed, NoFault, TypeOK, Step
<1>8. CASE SendFails
  BY <1>8 DEF SendFails, NoFault, TypeOK, Step
<1>9. CASE SendUnconfirmed
  BY <1>9, FaultType, ChannelInHand DEF SendUnconfirmed, TypeOK, Step
<1>10. CASE GiveUp
  BY <1>10, NextChannelType DEF GiveUp, NoFault, TypeOK, Step
<1>11. CASE LogDispatch
  <2>1. runlog' \in [Row -> Status]
    BY <1>11, RowsType, StatusType DEF LogDispatch, TypeOK
  <2> QED
    BY <1>11, <2>1, ReturnType DEF LogDispatch, NoFault, TypeOK, Step
<1>12. CASE LogFailed
  <2>1. runlog' \in [Row -> Status]
    BY <1>12, RowsType DEF LogFailed, TypeOK, Status
  <2> QED
    BY <1>12, <2>1, ReturnType DEF LogFailed, NoFault, TypeOK, Step
<1>13. CASE LogRaises
  <2>1. runlog' \in [Row -> Status]
    <3>1. PICK S : runlog' = Rows(S, IF pc = "dispatch" THEN DispatchStatus ELSE pc)
      BY <1>13 DEF LogRaises
    <3>2. (IF pc = "dispatch" THEN DispatchStatus ELSE pc) \in Status
      BY <1>13, StatusType, StageSteps DEF LogRaises, Status
    <3> QED
      BY <3>1, <3>2, RowsType DEF TypeOK
  <2>2. CASE Return("false")
    BY <1>13, <2>1, <2>2, ReturnType, FaultType, RepeatType DEF LogRaises, TypeOK, Step
  <2>3. CASE pc' = "FAILED" /\ UNCHANGED <<call, answer>>
    BY <1>13, <2>1, <2>3, FaultType, RepeatType DEF LogRaises, TypeOK, Step
  <2> QED
    BY <1>13, <2>2, <2>3 DEF LogRaises, Raise
<1>14. CASE SaveRaises
  BY <1>14, FaultType DEF SaveRaises, Raise, Uncaught, TypeOK, Step
<1>15. CASE Die
  <2>1. report' \in Nat /\ runlog' \in [Row -> Status] /\ UNCHANGED <<runs, sends>>
    BY <1>15 DEF Die, TypeOK
  <2> QED
    BY <1>15, <2>1, ReturnType, FaultType, RepeatType DEF Die
<1>16. CASE UNCHANGED vars
  BY <1>16 DEF TypeOK
<1> QED
  BY <1>1, <1>2, <1>3, <1>4, <1>5, <1>6, <1>7, <1>8, <1>9, <1>10, <1>11, <1>12,
     <1>13, <1>14, <1>15, <1>16 DEF Next

\* The workflow never leaves its types.
THEOREM WorkflowTypeCorrect == Spec => []TypeOK
  BY WorkflowInitType, WorkflowNextType, PTL DEF Spec

-----------------------------------------------------------------------------
(* What the steps of a call know of its deliveries. *)

\* Some channel confirmed the report; channel c did.
SomeConfirmed == \E i \in 1..Len(results) : results[i]

Confirmed(c) == \E i \in 1..Len(results) : results[i] /\ Channels[i] = c

\* The results are those of the channels before the one being tried; a report
\* that went out was confirmed or a fault struck it, and the steps before the
\* dispatch, the failed ones and the answer agree with that.
DispatchInv ==
    /\ pc \notin Dispatching \cup {"FAILED"} => ch = 1 /\ results = <<>>
    /\ pc = "send" => Len(results) + 1 = ch
    /\ pc = "dispatch" => Len(results) = Len(Channels)
    /\ pc \in Dispatching => /\ SomeConfirmed => out
                             /\ out => hit \/ SomeConfirmed
    /\ pc \notin Dispatching \cup {"FAILED", "idle"} => ~out
    /\ pc = "FAILED" /\ out => hit
    /\ pc # "idle" => answer = "none"
    /\ pc = "idle" /\ answer = "true" => out
    /\ pc = "idle" /\ answer = "false" /\ out => hit

\* The copies of a channel are accounted for by faults, but for the one that it
\* confirmed in this call or in the call that answered True.
CopiesInv ==
    \A c \in Channel :
        \/ copies[c] <= unconfirmed[c] + repeats
        \/ /\ copies[c] <= 1 + unconfirmed[c] + repeats
           /\ answer = "true" \/ (pc \in Dispatching /\ Confirmed(c))

\* One more result.
LEMMA ResultAppended ==
    ASSUME TypeOK, NEW b \in BOOLEAN, results' = Append(results, b)
    PROVE  /\ Len(results') = Len(results) + 1
           /\ \A i \in 1..Len(results) : results'[i] = results[i]
           /\ results'[Len(results) + 1] = b
  BY DEF TypeOK

LEMMA ConfirmedAppended ==
    ASSUME TypeOK, NEW b \in BOOLEAN, results' = Append(results, b)
    PROVE  SomeConfirmed' <=> SomeConfirmed \/ b
<1>1. Len(results) \in Nat
  BY DEF TypeOK
<1>2. CASE SomeConfirmed
  <2>1. PICK i \in 1..Len(results) : results[i]
    BY <1>2 DEF SomeConfirmed
  <2>2. i \in 1..Len(results')
    BY <1>1, ResultAppended
  <2>3. results'[i]
    BY <2>1, ResultAppended
  <2> QED
    BY <1>2, <2>2, <2>3 DEF SomeConfirmed
<1>3. CASE b
  <2>1. Len(results) + 1 \in 1..Len(results')
    BY <1>1, ResultAppended
  <2>2. results'[Len(results) + 1]
    BY <1>3, ResultAppended
  <2> QED
    BY <1>3, <2>1, <2>2 DEF SomeConfirmed
<1>4. ASSUME SomeConfirmed', ~b PROVE SomeConfirmed
  <2>1. PICK i \in 1..Len(results') : results'[i]
    BY <1>4 DEF SomeConfirmed
  <2>2. i # Len(results) + 1
    BY <1>4, <2>1, ResultAppended
  <2>3. i \in 1..Len(results)
    BY <1>1, <2>1, <2>2, ResultAppended
  <2>4. results[i]
    BY <2>1, <2>3, ResultAppended
  <2> QED
    BY <2>3, <2>4 DEF SomeConfirmed
<1> QED
  BY <1>2, <1>3, <1>4

\* The status of a dispatch is FAILED exactly when no channel confirmed.
LEMMA StatusTells ==
    ASSUME TypeOK, pc = "dispatch", Len(results) = Len(Channels)
    PROVE  DispatchStatus = "FAILED" <=> ~SomeConfirmed
<1>1. DOMAIN results = 1..Len(results) /\ 1 \in 1..Len(results)
  BY WorkflowConstants DEF TypeOK
<1>2. \A i \in 1..Len(results) : results[i] \in BOOLEAN
  BY DEF TypeOK
<1> QED
  BY <1>1, <1>2 DEF DispatchStatus, SomeConfirmed

LEMMA DispatchInit == Init => DispatchInv
  BY DEF Init, DispatchInv

\* A call that moves on before its dispatch.
LEMMA DispatchEarly ==
    ASSUME DispatchInv, pc \notin Dispatching \cup {"idle", "FAILED"},
           pc' \notin Dispatching \cup {"idle"},
           UNCHANGED <<ch, results, answer, sends>>
    PROVE  DispatchInv'
  BY DEF DispatchInv

\* A call that ends with a fault, or before its dispatch.
LEMMA DispatchEnds ==
    ASSUME DispatchInv, pc # "idle", NEW a \in {"none", "false"}, Return(a),
           UNCHANGED sends, out => hit'
    PROVE  DispatchInv'
  BY DEF DispatchInv, Return

LEMMA DispatchNext == TypeOK /\ DispatchInv /\ [Next]_vars => DispatchInv'
<1> SUFFICES ASSUME TypeOK, DispatchInv, [Next]_vars PROVE DispatchInv'
  OBVIOUS
<1>1. CASE Call
  BY <1>1 DEF Call, DispatchInv
<1>2. CASE LogPending \/ Collect \/ Validate \/ SaveClean \/ SaveReport \/ CollectRaises
  BY <1>2, DispatchEarly
  DEF LogPending, Collect, Validate, SaveClean, SaveReport, CollectRaises
<1>3. CASE LogStage
  <2>1. CASE pc' # "send"
    BY <1>3, <2>1, StageSteps, DispatchEarly DEF LogStage
  <2>2. CASE pc' = "send"
    <3>1. /\ pc \notin Dispatching \cup {"idle", "FAILED"}
          /\ UNCHANGED <<ch, results, answer, sends>>
      BY <1>3, StageSteps DEF LogStage
    <3>2. ~SomeConfirmed'
      BY <3>1 DEF DispatchInv, SomeConfirmed
    <3>3. Len(results') + 1 = ch'
      BY <3>1 DEF DispatchInv
    <3> QED
      BY <2>2, <3>1, <3>2, <3>3 DEF DispatchInv
  <2> QED
    BY <2>1, <2>2
<1>4. CASE LogSkipped \/ LogFailed
  BY <1>4, DispatchEnds DEF LogSkipped, LogFailed, NoFault, DispatchInv
<1>5. CASE SendConfirmed \/ GiveUp
  <2>1. PICK b \in BOOLEAN : /\ NextChannel(b)
                            /\ out' = IF b THEN TRUE ELSE out
    <3>1. CASE SendConfirmed
      BY <3>1 DEF SendConfirmed
    <3>2. CASE GiveUp
      BY <3>2 DEF GiveUp
    <3> QED
      BY <1>5, <3>1, <3>2
  <2>2. SomeConfirmed' <=> SomeConfirmed \/ b
    BY <2>1, ConfirmedAppended DEF NextChannel
  <2>3. pc = "send" /\ answer' = answer /\ hit' = hit
    BY <1>5 DEF SendConfirmed, GiveUp, NoFault
  <2>4. Len(results) + 1 = ch /\ Len(results') = Len(results) + 1
    BY <2>1, <2>3, ResultAppended DEF NextChannel, DispatchInv
  <2>5. /\ pc' = "send" => Len(results') + 1 = ch'
        /\ pc' = "dispatch" => Len(results') = Len(Channels)
        /\ pc' \in Dispatching
    BY <2>1, <2>3, <2>4 DEF NextChannel
  <2> QED
    BY <2>1, <2>2, <2>3, <2>5 DEF DispatchInv
<1>6. CASE SendFails
  BY <1>6 DEF SendFails, NoFault, DispatchInv, SomeConfirmed
<1>7. CASE SendUnconfirmed
  BY <1>7 DEF SendUnconfirmed, Fault, DispatchInv, SomeConfirmed
<1>8. CASE LogDispatch
  BY <1>8, StatusTells DEF LogDispatch, Return, NoFault, DispatchInv
<1>9. CASE LogRaises \/ SaveRaises
  <2>1. pc # "idle" /\ hit' /\ UNCHANGED sends
    BY <1>9, StageSteps DEF LogRaises, SaveRaises, Fault
  <2>2. CASE Return("false")
    BY <2>1, <2>2, DispatchEnds
  <2>3. CASE pc' = "FAILED" /\ UNCHANGED answer
    BY <2>1, <2>3 DEF DispatchInv
  <2> QED
    BY <1>9, <2>2, <2>3 DEF LogRaises, SaveRaises, Raise
<1>10. CASE Die
  BY <1>10, DispatchEnds DEF Die, Fault
<1>11. CASE UNCHANGED vars
  BY <1>11 DEF DispatchInv, SomeConfirmed
<1> QED
  BY <1>1, <1>2, <1>3, <1>4, <1>5, <1>6, <1>7, <1>8, <1>9, <1>10, <1>11 DEF Next

THEOREM DispatchInvariant == Spec => []DispatchInv
  BY WorkflowInitType, WorkflowNextType, DispatchInit, DispatchNext, PTL DEF Spec

\* A True means that some channel has the report, and a False that none got it
\* in this call unless a fault struck it.
THEOREM AnswersAreTrue == Spec => []AnswerTellsDelivery
<1>1. DispatchInv => AnswerTellsDelivery
  BY DEF DispatchInv, AnswerTellsDelivery
<1> QED
  BY <1>1, DispatchInvariant, PTL

\* Every channel has been tried when the dispatch is judged.
THEOREM NoChannelIsSkipped == Spec => []EveryChannelTried
<1>1. DispatchInv => EveryChannelTried
  BY DEF DispatchInv, EveryChannelTried
<1> QED
  BY <1>1, DispatchInvariant, PTL

-----------------------------------------------------------------------------
(* The copies that reach a channel over all the calls. *)

\* The channel being tried has not been confirmed: the channels are distinct.
LEMMA NotYetConfirmed ==
    ASSUME TypeOK, Len(results) + 1 = ch
    PROVE  ~Confirmed(Channels[ch])
<1>1. Len(results) \in Nat /\ Len(Channels) \in Nat /\ ch \in 1..Len(Channels)
  BY WorkflowConstants DEF TypeOK
<1>2. ASSUME NEW i \in 1..Len(results) PROVE Channels[i] # Channels[ch]
  <2>1. i \in 1..Len(Channels) /\ i # ch
    BY <1>1
  <2> QED
    BY <1>1, <2>1, WorkflowConstants
<1> QED
  BY <1>2 DEF Confirmed

\* Results are only added, and the result of a confirmed send is its channel's.
LEMMA StillConfirmed ==
    ASSUME TypeOK, NEW b \in BOOLEAN, results' = Append(results, b),
           NEW c \in Channel, Confirmed(c)
    PROVE  Confirmed(c)'
<1>1. Len(results) \in Nat
  BY DEF TypeOK
<1>2. PICK i \in 1..Len(results) : results[i] /\ Channels[i] = c
  BY DEF Confirmed
<1>3. i \in 1..Len(results') /\ results'[i]
  BY <1>1, <1>2, ResultAppended
<1> QED
  BY <1>2, <1>3 DEF Confirmed

LEMMA NowConfirmed ==
    ASSUME TypeOK, Len(results) + 1 = ch, results' = Append(results, TRUE),
           NEW c \in Channel, c = Channels[ch]
    PROVE  Confirmed(c)'
<1>1. Len(results) \in Nat /\ ch \in 1..Len(results')
  BY ResultAppended DEF TypeOK
<1>2. results'[ch]
  BY ResultAppended
<1> QED
  BY <1>1, <1>2 DEF Confirmed

\* A step that leaves the confirmed channels and the copies as they are.
LEMMA CopiesKept ==
    ASSUME TypeOK, CopiesInv, UNCHANGED <<sends, results, repeats, answer>>,
           pc \in Dispatching => pc' \in Dispatching
    PROVE  CopiesInv'
  BY DEF CopiesInv, Confirmed

\* A step of a call in which nothing has gone out.
LEMMA CopiesQuiet ==
    ASSUME TypeOK, CopiesInv, answer # "true",
           pc \notin Dispatching \/ ~SomeConfirmed,
           copies' = copies, unconfirmed' = unconfirmed, repeats' = repeats
    PROVE  CopiesInv'
<1> SUFFICES ASSUME NEW c \in Channel
             PROVE  copies[c] <= unconfirmed[c] + repeats
  BY DEF CopiesInv
<1>1. ~(pc \in Dispatching /\ Confirmed(c))
  BY DEF Confirmed, SomeConfirmed
<1> QED
  BY <1>1 DEF CopiesInv

\* A fault that breaks off the dispatch pays for the copies it forgets.
LEMMA CopiesRepeated ==
    ASSUME TypeOK, DispatchInv, CopiesInv, pc # "idle",
           CountRepeat, copies' = copies, unconfirmed' = unconfirmed
    PROVE  CopiesInv'
<1>1. answer # "true"
  BY DEF DispatchInv
<1>2. CASE out /\ pc \in Dispatching
  <2>1. repeats' = repeats + 1
    BY <1>2 DEF CountRepeat
  <2> SUFFICES ASSUME NEW c \in Channel
               PROVE  copies[c] <= unconfirmed[c] + (repeats + 1)
    BY <2>1 DEF CopiesInv
  <2>2. copies[c] <= 1 + unconfirmed[c] + repeats
    BY DEF CopiesInv, TypeOK
  <2> QED
    BY <2>2 DEF TypeOK
<1>3. CASE ~(out /\ pc \in Dispatching)
  <2>1. repeats' = repeats
    BY <1>3 DEF CountRepeat
  <2>2. pc \notin Dispatching \/ ~SomeConfirmed
    BY <1>3 DEF DispatchInv
  <2> QED
    BY <1>1, <2>1, <2>2, CopiesQuiet
<1> QED
  BY <1>2, <1>3

LEMMA CopiesInit == Init => CopiesInv
  BY DEF Init, CopiesInv

LEMMA CopiesNext == TypeOK /\ DispatchInv /\ CopiesInv /\ [Next]_vars => CopiesInv'
<1> SUFFICES ASSUME TypeOK, DispatchInv, CopiesInv, [Next]_vars PROVE CopiesInv'
  OBVIOUS
<1>1. CASE Call
  BY <1>1, CopiesQuiet DEF Call
<1>2. CASE LogPending \/ LogStage \/ Collect \/ Validate \/ SaveClean \/ SaveReport
           \/ CollectRaises
  <2>1. /\ pc \notin Dispatching \cup {"idle"}
        /\ copies' = copies /\ unconfirmed' = unconfirmed /\ repeats' = repeats
    BY <1>2, StageSteps DEF LogPending, LogStage, Collect, Validate, SaveClean,
       SaveReport, CollectRaises, NoFault
  <2> QED
    BY <2>1, CopiesQuiet DEF DispatchInv
<1>3. CASE LogSkipped \/ LogFailed
  <2>1. /\ pc \notin Dispatching \cup {"idle"}
        /\ copies' = copies /\ unconfirmed' = unconfirmed /\ repeats' = repeats
    BY <1>3 DEF LogSkipped, LogFailed, NoFault
  <2> QED
    BY <2>1, CopiesQuiet DEF DispatchInv
<1>4. CASE SendConfirmed
  <2> DEFINE d == Channels[ch]
  <2>1. /\ pc = "send" /\ pc' \in Dispatching /\ d \in Channel
        /\ results' = Append(results, TRUE) /\ Len(results) + 1 = ch
        /\ copies' = [copies EXCEPT ![d] = @ + 1]
        /\ unconfirmed' = unconfirmed /\ repeats' = repeats /\ answer # "true"
    BY <1>4, ChannelInHand DEF SendConfirmed, NextChannel, NoFault, DispatchInv, TypeOK
  <2>2. SUFFICES ASSUME NEW c \in Channel
                 PROVE  \/ copies'[c] <= unconfirmed[c] + repeats
                        \/ /\ copies'[c] <= 1 + unconfirmed[c] + repeats
                           /\ Confirmed(c)'
    BY <2>1 DEF CopiesInv
  <2>3. CASE c = d
    <3>1. copies[c] <= unconfirmed[c] + repeats
      BY <2>1, <2>3, NotYetConfirmed DEF CopiesInv
    <3>2. copies'[c] = copies[c] + 1
      BY <2>1, <2>3 DEF TypeOK
    <3>3. Confirmed(c)'
      BY <2>1, <2>3, NowConfirmed
    <3> QED
      BY <3>1, <3>2, <3>3 DEF TypeOK
  <2>4. CASE c # d
    <3>1. copies'[c] = copies[c]
      BY <2>1, <2>4 DEF TypeOK
    <3>2. Confirmed(c) => Confirmed(c)'
      BY <2>1, StillConfirmed
    <3> QED
      BY <2>1, <3>1, <3>2 DEF CopiesInv
  <2> QED
    BY <2>3, <2>4
<1>5. CASE SendFails
  BY <1>5, CopiesKept DEF SendFails, NoFault
<1>6. CASE SendUnconfirmed
  <2> DEFINE d == Channels[ch]
  <2>1. /\ pc = "send" /\ pc' = "send" /\ d \in Channel
        /\ results' = results
        /\ copies' = [copies EXCEPT ![d] = @ + 1]
        /\ unconfirmed' = [unconfirmed EXCEPT ![d] = @ + 1]
        /\ repeats' = repeats /\ answer' = answer
    BY <1>6, ChannelInHand DEF SendUnconfirmed, TypeOK
  <2>2. SUFFICES ASSUME NEW c \in Channel
                 PROVE  \/ copies'[c] <= unconfirmed'[c] + repeats
                        \/ /\ copies'[c] <= 1 + unconfirmed'[c] + repeats
                           /\ answer = "true" \/ Confirmed(c)
    BY <2>1 DEF CopiesInv, Confirmed
  <2>3. \/ copies[c] <= unconfirmed[c] + repeats
        \/ /\ copies[c] <= 1 + unconfirmed[c] + repeats
           /\ answer = "true" \/ Confirmed(c)
    BY DEF CopiesInv
  <2>4. \/ copies'[c] = copies[c] /\ unconfirmed'[c] = unconfirmed[c]
        \/ copies'[c] = copies[c] + 1 /\ unconfirmed'[c] = unconfirmed[c] + 1
    BY <2>1 DEF TypeOK
  <2> QED
    BY <2>3, <2>4 DEF TypeOK
<1>7. CASE GiveUp
  <2>1. /\ pc = "send" /\ pc' \in Dispatching
        /\ results' = Append(results, FALSE)
        /\ UNCHANGED <<copies, unconfirmed, repeats, answer>>
    BY <1>7 DEF GiveUp, NextChannel, NoFault
  <2>2. ASSUME NEW c \in Channel, Confirmed(c) PROVE Confirmed(c)'
    BY <2>1, <2>2, StillConfirmed
  <2> QED
    BY <2>1, <2>2 DEF CopiesInv
<1>8. CASE LogDispatch
  <2>1. /\ pc = "dispatch" /\ answer # "true"
        /\ copies' = copies /\ unconfirmed' = unconfirmed /\ repeats' = repeats
    BY <1>8 DEF LogDispatch, NoFault, DispatchInv
  <2>2. CASE SomeConfirmed
    <3>1. answer' = "true"
      BY <1>8, <2>1, <2>2, StatusTells DEF LogDispatch, Return, DispatchInv
    <3> QED
      BY <2>1, <3>1 DEF CopiesInv
  <2>3. CASE ~SomeConfirmed
    BY <2>1, <2>3, CopiesQuiet
  <2> QED
    BY <2>2, <2>3
<1>9. CASE LogRaises \/ Die
  <2>1. pc # "idle" /\ CountRepeat /\ copies' = copies /\ unconfirmed' = unconfirmed
    BY <1>9, StageSteps DEF LogRaises, Die
  <2> QED
    BY <2>1, CopiesRepeated
<1>10. CASE SaveRaises
  <2>1. /\ pc \notin Dispatching \cup {"idle"}
        /\ copies' = copies /\ unconfirmed' = unconfirmed /\ repeats' = repeats
    BY <1>10 DEF SaveRaises
  <2> QED
    BY <2>1, CopiesQuiet DEF DispatchInv
<1>11. CASE UNCHANGED vars
  BY <1>11, CopiesKept
<1> QED
  BY <1>1, <1>2, <1>3, <1>4, <1>5, <1>6, <1>7, <1>8, <1>9, <1>10, <1>11 DEF Next

\* However the calls fail, die and are repeated, a channel gets one copy of the
\* report and one more per unconfirmed send and per fault in a dispatch.
THEOREM CopiesAreExplained == Spec => []CopiesExplained
<1>1. TypeOK /\ CopiesInv => CopiesExplained
  <2> SUFFICES ASSUME TypeOK, CopiesInv, NEW c \in Channel
               PROVE  copies[c] <= 1 + unconfirmed[c] + repeats
    BY DEF CopiesExplained
  <2> QED
    BY DEF CopiesInv, TypeOK
<1> QED
  BY <1>1, WorkflowTypeCorrect, DispatchInvariant, WorkflowInitType, WorkflowNextType,
     CopiesInit, CopiesNext, PTL DEF Spec
-----------------------------------------------------------------------------
(* The workflow implements the handler that McpScheduler assumes. *)

USE DEF Handler!vars

\* The phase of the handler, as ReportWorkflow maps it.
HandlerPhase == IF pc = "idle" THEN "idle" ELSE IF out THEN "delivered" ELSE "called"

LEMMA HandlerInit == Init => Handler!Init
  BY DEF Init, Handler!Init

\* A step inside a call that delivers nothing and is not disturbed.
LEMMA HandlerStutters ==
    ASSUME pc # "idle", pc' # "idle", UNCHANGED <<answer, sends, hit>>
    PROVE  UNCHANGED Handler!vars
  OBVIOUS

\* A call that answers False.
LEMMA HandlerAnswersFalse ==
    ASSUME TypeOK, pc # "idle", Return("false"), UNCHANGED sends,
           hit' = hit \/ hit' = TRUE, out => hit'
    PROVE  Handler!Next
<1>1. pc' = "idle" /\ answer' = "false"
  BY DEF Return
<1>2. hit' \in {hit, TRUE}
  OBVIOUS
<1>3. CASE out
  BY <1>1, <1>2, <1>3 DEF Handler!Next, Handler!Denies, Handler!Return
<1>4. CASE ~out
  BY <1>1, <1>2, <1>4 DEF Handler!Next, Handler!Fails, Handler!Return
<1> QED
  BY <1>3, <1>4

\* A fault that does not end the call.
LEMMA HandlerDisturbed ==
    ASSUME TypeOK, pc # "idle", pc' # "idle", answer' = answer, hit' = TRUE,
           out' = out \/ out' = TRUE
    PROVE  Handler!Next
<1>1. HandlerPhase # "idle"
  BY DEF HandlerPhase
<1>2. HandlerPhase' \in {HandlerPhase,
                       IF HandlerPhase = "called" THEN "delivered" ELSE HandlerPhase}
  BY DEF HandlerPhase
<1>3. Handler!Disturb
  BY <1>1, <1>2 DEF Handler!Disturb, HandlerPhase
<1> QED
  BY <1>3 DEF Handler!Next

LEMMA HandlerNext ==
    TypeOK /\ DispatchInv /\ [Next]_vars => [Handler!Next]_(Handler!vars)
<1> SUFFICES ASSUME TypeOK, DispatchInv, [Next]_vars
             PROVE  Handler!Next \/ UNCHANGED Handler!vars
  OBVIOUS
<1>1. CASE Call
  <2>1. Handler!Call
    BY <1>1 DEF Call, Handler!Call
  <2> QED
    BY <2>1 DEF Handler!Next
<1>2. CASE LogPending \/ LogStage \/ Collect \/ Validate \/ SaveClean \/ SaveReport
           \/ CollectRaises \/ SendFails \/ GiveUp
  <2>1. pc # "idle" /\ pc' # "idle" /\ UNCHANGED <<answer, sends, hit>>
    BY <1>2, StageSteps DEF LogPending, LogStage, Collect, Validate, SaveClean,
       SaveReport, CollectRaises, SendFails, GiveUp, NextChannel, NoFault
  <2> QED
    BY <2>1, HandlerStutters
<1>3. CASE LogSkipped \/ LogFailed
  BY <1>3, HandlerAnswersFalse DEF LogSkipped, LogFailed, NoFault, DispatchInv
<1>4. CASE SendConfirmed
  <2>1. /\ pc # "idle" /\ pc' # "idle" /\ out' = TRUE
        /\ answer' = answer /\ hit' = hit
    BY <1>4 DEF SendConfirmed, NextChannel, NoFault
  <2>2. CASE out
    BY <2>1, <2>2
  <2>3. CASE ~out
    BY <2>1, <2>3 DEF Handler!Next, Handler!Deliver
  <2> QED
    BY <2>2, <2>3
<1>5. CASE SendUnconfirmed
  BY <1>5, HandlerDisturbed DEF SendUnconfirmed, Fault
<1>6. CASE LogDispatch
  <2>1. /\ pc = "dispatch" /\ hit' = hit /\ UNCHANGED sends
        /\ Return(IF DispatchStatus # "FAILED" THEN "true" ELSE "false")
    BY <1>6 DEF LogDispatch, NoFault
  <2>2. CASE SomeConfirmed
    <3>1. out /\ Return("true")
      BY <2>1, <2>2, StatusTells DEF DispatchInv
    <3> QED
      BY <2>1, <3>1 DEF Return, Handler!Next, Handler!Succeeds, Handler!Return
  <2>3. CASE ~SomeConfirmed
    <3>1. Return("false") /\ (out => hit)
      BY <2>1, <2>3, StatusTells DEF DispatchInv
    <3> QED
      BY <2>1, <3>1, HandlerAnswersFalse
  <2> QED
    BY <2>2, <2>3
<1>7. CASE LogRaises \/ SaveRaises
  <2>1. pc # "idle" /\ hit' = TRUE /\ UNCHANGED sends
    BY <1>7, StageSteps DEF LogRaises, SaveRaises, Fault
  <2>2. CASE Return("false")
    BY <2>1, <2>2, HandlerAnswersFalse
  <2>3. CASE pc' = "FAILED" /\ UNCHANGED answer
    BY <2>1, <2>3, HandlerDisturbed
  <2> QED
    BY <1>7, <2>2, <2>3 DEF LogRaises, SaveRaises, Raise
<1>8. CASE Die
  <2>1. Handler!Dies
    BY <1>8 DEF Die, Fault, Return, Handler!Dies, Handler!Return
  <2> QED
    BY <2>1 DEF Handler!Next
<1>9. CASE UNCHANGED vars
  BY <1>9
<1> QED
  BY <1>1, <1>2, <1>3, <1>4, <1>5, <1>6, <1>7, <1>8, <1>9 DEF Next

\* Every behaviour of the workflow is one of the handler the scheduler relies on:
\* one delivery per call, denied only by a call that a fault disturbed.
THEOREM WorkflowIsHandler == Spec => ImplementsHandler
  BY WorkflowTypeCorrect, DispatchInvariant, HandlerInit, HandlerNext, PTL
  DEF Spec, ImplementsHandler, Handler!Spec
-----------------------------------------------------------------------------
(* The run log. *)

\* Until its dispatch is logged or it fails, a call's symbols are PENDING.
LogInv ==
    /\ pc \notin {"idle", "PENDING", "FAILED"} => \A s \in Symbol : runlog[s] = "PENDING"
    /\ LogTellsAnswer

LEMMA RowsGive ==
    ASSUME NEW S \in SUBSET Row, NEW st
    PROVE  /\ \A r \in S : Rows(S, st)[r] = st
           /\ \A r \in Row \ S : Rows(S, st)[r] = runlog[r]
  BY DEF Rows

LEMMA MarketRowGives ==
    ASSUME NEW st
    PROVE  /\ Rows({"*"}, st)["*"] = st
           /\ \A s \in Symbol : Rows({"*"}, st)[s] = runlog[s]
  BY WorkflowConstants DEF Rows, Row

LEMMA LogNext == TypeOK /\ DispatchInv /\ LogInv /\ [Next]_vars => LogInv'
<1> SUFFICES ASSUME TypeOK, DispatchInv, LogInv, [Next]_vars PROVE LogInv'
  OBVIOUS
<1> USE DEF Row
<1>1. CASE Call
  BY <1>1 DEF Call, LogInv, LogTellsAnswer
<1>2. CASE LogPending
  BY <1>2, RowsGive DEF LogPending, LogInv, LogTellsAnswer
<1>3. CASE LogStage
  <2>1. /\ pc \notin {"idle", "PENDING", "FAILED"} /\ pc' # "idle"
        /\ runlog' = Rows({"*"}, pc)
    BY <1>3, StageSteps DEF LogStage
  <2>2. \A s \in Symbol : runlog'[s] = runlog[s]
    BY <2>1, MarketRowGives
  <2> QED
    BY <2>1, <2>2 DEF LogInv, LogTellsAnswer
<1>4. CASE Collect \/ Validate \/ SaveClean \/ SaveReport \/ CollectRaises
           \/ SendConfirmed \/ SendFails \/ SendUnconfirmed \/ GiveUp
  <2>1. pc \notin {"idle", "PENDING", "FAILED"} /\ pc' # "idle" /\ runlog' = runlog
    BY <1>4 DEF Collect, Validate, SaveClean, SaveReport, CollectRaises,
       SendConfirmed, SendFails, SendUnconfirmed, GiveUp, NextChannel
  <2> QED
    BY <2>1 DEF LogInv, LogTellsAnswer
<1>5. CASE LogSkipped
  <2>1. \A s \in Symbol : runlog'[s] = "SKIPPED"
    BY <1>5, RowsGive DEF LogSkipped
  <2> QED
    BY <1>5, <2>1 DEF LogSkipped, Return, LogInv, LogTellsAnswer
<1>6. CASE LogFailed
  <2>1. \A s \in Symbol : runlog'[s] = "FAILED"
    BY <1>6, RowsGive DEF LogFailed
  <2> QED
    BY <1>6, <2>1 DEF LogFailed, Return, LogInv, LogTellsAnswer
<1>7. CASE LogDispatch
  <2>1. runlog'["*"] = DispatchStatus /\ \A s \in Symbol : runlog'[s] = runlog[s]
    BY <1>7, MarketRowGives DEF LogDispatch
  <2>2. \A s \in Symbol : runlog'[s] = "PENDING"
    BY <1>7, <2>1 DEF LogDispatch, LogInv
  <2>3. DispatchStatus \in {"DISPATCHED", "PARTIAL_FAILED", "FAILED"}
    BY DEF DispatchStatus
  <2>4. pc' = "idle" /\ answer' = IF DispatchStatus # "FAILED" THEN "true" ELSE "false"
    BY <1>7 DEF LogDispatch, Return
  <2> QED
    BY <2>1, <2>2, <2>3, <2>4 DEF LogInv, LogTellsAnswer
<1>8. CASE LogRaises \/ SaveRaises
  <2>1. hit' = TRUE
    BY <1>8 DEF LogRaises, SaveRaises, Fault
  <2>2. CASE Return("false")
    BY <2>1, <2>2 DEF Return, LogInv, LogTellsAnswer
  <2>3. CASE pc' = "FAILED"
    BY <2>3 DEF LogInv, LogTellsAnswer
  <2> QED
    BY <1>8, <2>2, <2>3 DEF LogRaises, SaveRaises, Raise
<1>9. CASE Die
  BY <1>9 DEF Die, Return, LogInv, LogTellsAnswer
<1>10. CASE UNCHANGED vars
  BY <1>10 DEF LogInv, LogTellsAnswer
<1> QED
  BY <1>1, <1>2, <1>3, <1>4, <1>5, <1>6, <1>7, <1>8, <1>9, <1>10 DEF Next

\* The run log of a call ends as its answer says.
THEOREM LogIsTrue == Spec => []LogTellsAnswer
<1>1. Init => LogInv
  BY DEF Init, LogInv, LogTellsAnswer
<1>2. LogInv => LogTellsAnswer
  BY DEF LogInv
<1> QED
  BY <1>1, <1>2, LogNext, WorkflowTypeCorrect, DispatchInvariant, PTL DEF Spec

-----------------------------------------------------------------------------
(* What goes out. *)

\* From its validation on, a call holds clean data that validates; from its
\* report on, the file is its own.
Vetted == {"DATA_VALIDATED", "save_clean", "ANALYZED", "save_report",
           "REPORT_GENERATED", "send"}

DataInv ==
    /\ pc \in Vetted => Validated(ds) /\ \A s \in Symbol : ds.quotes[s] # "outlier"
    /\ pc \in {"REPORT_GENERATED", "send"} => report = runs

LEMMA CleanHasNoOutlier ==
    ASSUME NEW d \in Dataset, NEW s \in Symbol
    PROVE  Clean(d).quotes[s] # "outlier"
  BY DEF Clean, Dataset

LEMMA DataNext == TypeOK /\ DataInv /\ [Next]_vars => DataInv'
<1> SUFFICES ASSUME TypeOK, DataInv, [Next]_vars PROVE DataInv'
  OBVIOUS
<1>1. CASE Validate
  <2>1. pc' \in {"DATA_VALIDATED", "SKIPPED"} /\ ds' = Clean(ds)
    BY <1>1 DEF Validate
  <2>2. \A s \in Symbol : ds'.quotes[s] # "outlier"
    BY <2>1, CleanHasNoOutlier DEF TypeOK
  <2>3. pc' = "DATA_VALIDATED" => Validated(ds')
    BY <1>1, <2>1 DEF Validate
  <2> QED
    BY <2>1, <2>2, <2>3 DEF DataInv, Vetted, Validated, ValidFor
<1>2. CASE LogStage
  <2>1. /\ pc' \in {"collect", "validate", "save_clean", "save_report", "send"}
        /\ pc' = "save_clean" => pc = "DATA_VALIDATED"
        /\ pc' = "save_report" => pc = "ANALYZED"
        /\ pc' = "send" => pc = "REPORT_GENERATED"
    BY <1>2 DEF LogStage, Stage, StageLog
  <2>2. ds' = ds /\ report' = report /\ runs' = runs
    BY <1>2 DEF LogStage
  <2> QED
    BY <2>1, <2>2 DEF DataInv, Vetted, Validated, ValidFor
<1>3. CASE SaveClean \/ SaveReport
  BY <1>3 DEF SaveClean, SaveReport, DataInv, Vetted, Validated, ValidFor
<1>4. CASE SendConfirmed \/ SendFails \/ SendUnconfirmed \/ GiveUp
  <2>1. /\ pc = "send" /\ pc' \in {"send", "dispatch"}
        /\ ds' = ds /\ report' = report /\ runs' = runs
    BY <1>4 DEF SendConfirmed, SendFails, SendUnconfirmed, GiveUp, NextChannel
  <2> QED
    BY <2>1 DEF DataInv, Vetted, Validated, ValidFor
<1>5. CASE \/ Call \/ LogPending \/ Collect \/ LogSkipped \/ LogDispatch \/ LogFailed
           \/ CollectRaises \/ LogRaises \/ SaveRaises \/ Die
  <2>1. pc' \in {"PENDING", "RUNNING", "DATA_COLLECTED", "idle", "FAILED"}
    BY <1>5 DEF Call, LogPending, Collect, LogSkipped, LogDispatch, LogFailed,
       CollectRaises, LogRaises, SaveRaises, Die, Raise, Return
  <2> QED
    BY <2>1 DEF DataInv, Vetted
<1>6. CASE UNCHANGED vars
  BY <1>6 DEF DataInv, Vetted, Validated, ValidFor
<1> QED
  BY <1>1, <1>2, <1>3, <1>4, <1>5, <1>6 DEF Next

\* What goes out is this call's report, saved whole first, and it covers every
\* symbol, whatever failed in this call and in those before it.
THEOREM OnlyVettedReportsGoOut == Spec => SentIsSavedAndComplete
<1> DEFINE Sent ==
      copies' # copies =>
         /\ report = runs
         /\ \A s \in Symbol : ds.quotes[s] \notin {"absent", "outlier"}
         /\ Type = "daily_close_report" =>
               ds.aligned = Symbol /\ \A s \in Symbol : ds.quotes[s] = "fresh"
<1>1. Init => DataInv
  BY DEF Init, DataInv, Vetted
<1>2. TypeOK /\ DataInv /\ [Next]_vars => [Sent]_vars
  <2> SUFFICES ASSUME TypeOK, DataInv, Next, copies' # copies PROVE Sent
    OBVIOUS
  <2>1. pc = "send"
    BY DEF Next, Call, LogPending, LogStage, Collect, Validate, LogSkipped, SaveClean,
       SaveReport, SendConfirmed, SendFails, SendUnconfirmed, GiveUp, LogDispatch,
       LogFailed, CollectRaises, LogRaises, SaveRaises, Die
  <2>2. ds.aligned \subseteq Symbol
    BY DEF TypeOK, Dataset
  <2> QED
    BY <2>1, <2>2, WorkflowConstants DEF DataInv, Vetted, Validated, ValidFor, ReportType
<1> QED
  BY <1>1, <1>2, DataNext, WorkflowTypeCorrect, PTL DEF Spec, SentIsSavedAndComplete
=============================================================================
