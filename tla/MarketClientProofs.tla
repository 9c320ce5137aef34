------------------------- MODULE MarketClientProofs -------------------------
(***************************************************************************)
(* Proofs about MarketClient, for any symbols, markets, authorizations and *)
(* any tools the provider may offer.                                       *)
(***************************************************************************)
EXTENDS MarketClient, TLAPS

\* What makes FailClosed inductive: the tool map names tools that were seen,
\* and a process that was just started has called nothing.
VettedInv ==
    /\ FailClosed
    /\ discovery = "ok" => Required \subseteq discovered
    /\ \A operation \in DOMAIN Mappings :
         toolMap[operation] # NoTool => toolMap[operation] \in discovered
    /\ ~running => called = {}

Answered(A, i, t) == \E a \in A : a.step = i /\ a.target = t

\* Every request before the one in hand was answered in full, unless one of
\* the collection failed.
EarlierAnswered ==
    \A i \in 1..(Len(Requests) - 1) :
        i < step => errors # {} \/ \A t \in Target(i) : Answered(answers, i, t)

\* What the request in hand does not ask for any more, it has an answer for.
CurrentAnswered ==
    /\ step \in 1..(Len(Requests) - 1) =>
         \A t \in Target(step) : t \in todo \/ Answered(answers, step, t)
    /\ step = Len(Requests) =>
         todo # {} \/ \E a \in answers : a.step = step

WholeInv ==
    /\ EarlierAnswered
    /\ CurrentAnswered
    /\ outcome = "dataset" => step = 0
    /\ DatasetIsWhole

-----------------------------------------------------------------------------
LEMMA RequestsLen == Len(Requests) = 5
  BY DEF Requests

LEMMA RequestsAreOperations ==
    \A i \in 1..5 : Requests[i] \in DOMAIN Mappings
  <1>1. DOMAIN Mappings = {"quote", "candles", "intraday", "market_status"}
    BY DEF Mappings
  <1> QED BY <1>1 DEF Requests

\* Requests are made in order, and only while one is in hand.
LEMMA AskTyped ==
    ASSUME NEW i \in 1..5, Ask(i)
    PROVE  /\ step' = i
           /\ todo' \subseteq Symbol \cup Market
           /\ i < 5 => todo' = Target(i)
           /\ i = 5 => todo' # {}
  <1>1. CASE i = 5
    BY <1>1, RequestsLen DEF Ask
  <1>2. CASE i # 5
    BY <1>2, RequestsLen DEF Ask, Target
  <1> QED BY <1>1, <1>2

\* The two ways a request that raises goes on.
LEMMA RaiseCases ==
    ASSUME TypeOK, step # 0, Raise
    PROVE  /\ answers' = {a \in answers : a.step # step}
           /\ \/ EndTick("raised")
              \/ /\ step \in 2..4
                 /\ Ask(step + 1) /\ errors' = errors \cup {step} /\ outcome' = outcome
  <1>1. step \in 1..5
    BY RequestsLen DEF TypeOK
  <1>2. CASE step = 1
    BY <1>2 DEF Raise
  <1>3. CASE step = 5
    BY <1>3, RequestsLen DEF Raise
  <1>4. CASE step \in 2..4
    BY <1>4, RequestsLen DEF Raise
  <1> QED BY <1>1, <1>2, <1>3, <1>4

LEMMA RaiseTyped ==
    ASSUME TypeOK, step # 0, Raise
    PROVE  /\ step' \in 0..Len(Requests)
           /\ todo' \subseteq Symbol \cup Market
           /\ errors' \subseteq 1..Len(Requests)
           /\ answers' \subseteq Answer
           /\ outcome' \in {"none", "raised", "dataset"}
  <1>1. CASE EndTick("raised")
    BY <1>1, RaiseCases, RequestsLen DEF EndTick, TypeOK
  <1>2. CASE /\ step \in 2..4
             /\ Ask(step + 1) /\ errors' = errors \cup {step} /\ outcome' = outcome
    <2>1. step + 1 \in 1..5
      BY <1>2
    <2> QED BY <1>2, <2>1, AskTyped, RaiseCases, RequestsLen DEF TypeOK
  <1> QED BY <1>1, <1>2, RaiseCases

\* The tools of the map are approved ones.
LEMMA MappingsApproved ==
    ASSUME NEW tools, UpdateFromDiscovery(tools), tools \subseteq Tool
    PROVE  PolicyTypeOK' /\ \A operation \in DOMAIN Mappings :
             toolMap'[operation] # NoTool => toolMap'[operation] \in discovered'
  <1>1. \A operation \in DOMAIN Mappings : Mappings[operation] \in ApprovedTools
    BY DEF Mappings, ApprovedTools
  <1> QED BY <1>1 DEF UpdateFromDiscovery, PolicyTypeOK

LEMMA NoMapTyped == NoMap \in [DOMAIN Mappings -> ApprovedTools \cup {NoTool}]
  BY DEF NoMap

LEMMA ToolOfTyped ==
    ASSUME TypeOK, step # 0
    PROVE  /\ step \in 1..5
           /\ Requests[step] \in DOMAIN Mappings
           /\ ToolOf(step) \in ApprovedTools \cup {NoTool}
  <1>1. step \in 1..5
    BY RequestsLen DEF TypeOK
  <1> QED BY <1>1, RequestsAreOperations DEF ToolOf, TypeOK, PolicyTypeOK

-----------------------------------------------------------------------------
(* Types. *)

LEMMA InitTyped == Init => TypeOK
  <1> SUFFICES ASSUME Init PROVE TypeOK
    OBVIOUS
  <1>1. PolicyTypeOK
    BY NoMapTyped DEF Init, EmptyPolicy, PolicyTypeOK
  <1>2. step \in 0..Len(Requests) /\ errors \subseteq 1..Len(Requests)
    BY RequestsLen DEF Init
  <1>3. up \in BOOLEAN /\ running \in BOOLEAN
    BY Zenon DEF Init
  <1> QED BY <1>1, <1>2, <1>3 DEF Init, TypeOK

LEMMA NextTyped == TypeOK /\ [Next]_vars => TypeOK'
  <1> SUFFICES ASSUME TypeOK, [Next]_vars PROVE TypeOK'
    OBVIOUS
  <1>1. CASE EndpointChanges
    BY <1>1 DEF EndpointChanges, TypeOK, PolicyTypeOK, policy, request
  <1>2. CASE Boot
    BY <1>2, NoMapTyped
       DEF Boot, TypeOK, PolicyTypeOK, ResetPolicy, environment, request
  <1>3. CASE Stop
    <2>1. step' \in 0..Len(Requests) /\ errors' \subseteq 1..Len(Requests)
      BY <1>3, RequestsLen DEF Stop
    <2>2. running' \in BOOLEAN /\ up' \in BOOLEAN
      BY <1>3, Zenon DEF Stop, TypeOK, environment
    <2>3. PolicyTypeOK'
      BY <1>3 DEF Stop, TypeOK, PolicyTypeOK, policy
    <2> QED BY <1>3, <2>1, <2>2, <2>3 DEF Stop, TypeOK, environment
  <1>4. CASE BeginTick
    BY <1>4, AskTyped, RequestsLen
       DEF BeginTick, TypeOK, PolicyTypeOK, environment, policy
  <1>5. CASE Discover
    <2>1. step # 0 /\ UNCHANGED <<environment, running, header, called>>
      BY <1>5 DEF Discover
    <2>2. CASE UNCHANGED request /\ UpdateFromDiscovery(offered)
                 /\ discovery' = "ok"
      <3>1. offered \subseteq Tool
        BY ClientConstants DEF TypeOK
      <3> QED BY <2>1, <2>2, <3>1, MappingsApproved
              DEF TypeOK, environment, request
    <2>3. CASE Raise /\ UpdateFromDiscovery(offered) /\ discovery' = "failed"
      <3>1. offered \subseteq Tool
        BY ClientConstants DEF TypeOK
      <3> QED BY <2>1, <2>3, <3>1, MappingsApproved, RaiseTyped
              DEF TypeOK, environment
    <2>4. CASE Raise /\ UNCHANGED policy /\ discovery' \in {discovery, "failed"}
      BY <2>1, <2>4, RaiseTyped DEF TypeOK, PolicyTypeOK, environment, policy
    <2> QED BY <1>5, <2>2, <2>3, <2>4 DEF Discover
  <1>6. CASE Refuse
    BY <1>6, RaiseTyped DEF Refuse, TypeOK, PolicyTypeOK, environment, policy
  <1>7. CASE CallAnswered
    <2>1. step # 0 /\ ToolOf(step) # NoTool /\ Call
      BY <1>7 DEF CallAnswered, Calling, MayCall
    <2>2. called' \subseteq ApprovedTools
      BY <2>1, ToolOfTyped DEF Call, TypeOK
    <2>3. PICK t \in todo :
            /\ answers' = answers \cup {[step |-> step, target |-> t]}
            /\ todo' = todo \ {t}
      BY <1>7 DEF CallAnswered
    <2>4. answers' \subseteq Answer
      BY <2>1, <2>3, ToolOfTyped, RequestsLen DEF TypeOK, Answer
    <2>5. todo' \subseteq Symbol \cup Market
      BY <2>3 DEF TypeOK
    <2> QED BY <1>7, <2>2, <2>4, <2>5
            DEF CallAnswered, TypeOK, PolicyTypeOK, environment, policy
  <1>8. CASE CallFails
    <2>1. step # 0 /\ Call /\ Raise
      BY <1>8 DEF CallFails, Calling
    <2>2. called' \subseteq ApprovedTools
      BY <2>1, ToolOfTyped DEF Call, MayCall, TypeOK
    <2> QED BY <1>8, <2>1, <2>2, RaiseTyped
            DEF CallFails, TypeOK, PolicyTypeOK, environment, policy
  <1>9. CASE Finish
    <2>1. step \in 1..5
      BY <1>9, RequestsLen DEF Finish, TypeOK
    <2>2. CASE step = 5
      BY <1>9, <2>2, RequestsLen
         DEF Finish, Return, EndTick, TypeOK, PolicyTypeOK, environment, policy
    <2>3. CASE step \in 1..4
      <3>1. step + 1 \in 1..5 /\ Ask(step + 1)
        BY <1>9, <2>3, RequestsLen DEF Finish, Return
      <3>2. step' \in 0..Len(Requests) /\ todo' \subseteq Symbol \cup Market
        BY <2>3, <3>1, AskTyped, RequestsLen
      <3>3. UNCHANGED <<errors, outcome, answers>>
        BY <1>9, <2>3, RequestsLen DEF Finish, Return
      <3> QED BY <1>9, <3>2, <3>3
              DEF Finish, TypeOK, PolicyTypeOK, environment, policy
    <2> QED BY <2>1, <2>2, <2>3
  <1>10. CASE UNCHANGED vars
    BY <1>10 DEF vars, TypeOK, PolicyTypeOK, environment, policy, request
  <1> QED BY <1>1, <1>2, <1>3, <1>4, <1>5, <1>6, <1>7, <1>8, <1>9, <1>10
          DEF Next, Work

\* Every state the client reaches is well typed.
THEOREM ClientTypeCorrect == Spec => []TypeOK
  BY InitTyped, NextTyped, PTL DEF Spec

-----------------------------------------------------------------------------
(* Nothing is called that was not discovered and approved. *)

LEMMA InitVetted == Init => VettedInv
  BY DEF Init, VettedInv, FailClosed, EmptyPolicy, NoMap

LEMMA NextVetted == TypeOK /\ VettedInv /\ [Next]_vars => VettedInv'
  <1> SUFFICES ASSUME TypeOK, VettedInv, [Next]_vars PROVE VettedInv'
    OBVIOUS
  <1>1. CASE EndpointChanges
    BY <1>1 DEF EndpointChanges, VettedInv, FailClosed, policy
  <1>2. CASE Boot
    BY <1>2 DEF Boot, VettedInv, FailClosed, ResetPolicy, NoMap
  <1>3. CASE Stop
    BY <1>3 DEF Stop, VettedInv, FailClosed, policy
  <1>4. CASE BeginTick
    BY <1>4 DEF BeginTick, VettedInv, FailClosed, policy
  <1>5. CASE Discover
    <2>1. running /\ running' = running /\ called = {} /\ called' = {}
      BY <1>5 DEF Discover, VettedInv, FailClosed
    <2>2. CASE UpdateFromDiscovery(offered)
                 /\ (discovery' = "failed" \/ Required \subseteq offered)
      <3>1. offered \subseteq Tool
        BY ClientConstants DEF TypeOK
      <3> QED BY <2>1, <2>2, <3>1, MappingsApproved
              DEF VettedInv, FailClosed, UpdateFromDiscovery
    <2>3. CASE UNCHANGED policy /\ discovery' \in {discovery, "failed"}
      BY <2>1, <2>3 DEF VettedInv, FailClosed, policy
    <2> QED BY <1>5, <2>2, <2>3 DEF Discover
  <1>6. CASE Refuse
    BY <1>6 DEF Refuse, VettedInv, FailClosed, policy
  <1>7. CASE Calling /\ Call /\ UNCHANGED <<running, discovery, policy>>
    <2>1. step # 0 /\ discovery = "ok" /\ running
      BY <1>7 DEF Calling
    <2>2. MayCall => ToolOf(step) \in ApprovedTools \cap discovered
      BY <2>1, ToolOfTyped DEF MayCall, ToolOf, VettedInv
    <2> QED BY <1>7, <2>1, <2>2 DEF Call, VettedInv, FailClosed, policy
  <1>8. CASE Finish
    BY <1>8 DEF Finish, VettedInv, FailClosed, policy
  <1>9. CASE UNCHANGED vars
    BY <1>9 DEF vars, VettedInv, FailClosed, policy
  <1> QED BY <1>1, <1>2, <1>3, <1>4, <1>5, <1>6, <1>7, <1>8, <1>9
          DEF Next, Work, CallAnswered, CallFails

\* Whatever the provider offers and whenever it changes, a process calls only
\* approved tools it discovered, and none unless its discovery succeeded.
THEOREM NothingUnvetted == Spec => []FailClosed
  <1>1. VettedInv => FailClosed
    BY DEF VettedInv
  <1> QED BY InitTyped, NextTyped, InitVetted, NextVetted, <1>1, PTL DEF Spec

-----------------------------------------------------------------------------
(* Datasets are whole. *)

LEMMA InitWhole == Init => WholeInv
  BY RequestsLen
     DEF Init, WholeInv, EarlierAnswered, CurrentAnswered, DatasetIsWhole

\* A step that leaves the request alone.
LEMMA WholeUnchanged == WholeInv /\ UNCHANGED request => WholeInv'
  BY DEF WholeInv, EarlierAnswered, CurrentAnswered, DatasetIsWhole, Answered,
         request

\* The next request is asked: the one in hand was answered, or has failed.
LEMMA WholeAsk ==
    ASSUME TypeOK, WholeInv, step \in 1..4, Ask(step + 1), 
           outcome' = outcome,
           \A i \in 1..4 : i < step =>
             \A t : Answered(answers, i, t) => Answered(answers', i, t),
           errors # {} => errors' # {},
           errors' # {} \/ \A t \in Target(step) : Answered(answers', step, t)
    PROVE  WholeInv'
  <1>1. step + 1 \in 1..5 /\ step' = step + 1
    BY AskTyped
  <1>2. outcome # "dataset"
    BY DEF WholeInv
  <1>3. EarlierAnswered'
    <2> SUFFICES ASSUME NEW i \in 1..4, i < step + 1, errors' = {}
                 PROVE  \A t \in Target(i) : Answered(answers', i, t)
      BY <1>1, RequestsLen DEF EarlierAnswered, Target
    <2>1. CASE i = step
      BY <2>1
    <2>2. CASE i < step
      BY <2>2, RequestsLen DEF WholeInv, EarlierAnswered
    <2> QED BY <1>1, <2>1, <2>2
  <1>4. CurrentAnswered'
    <2>1. step' \in 1..4 => todo' = Target(step')
      BY <1>1, AskTyped
    <2>2. step' = 5 => todo' # {}
      BY <1>1, AskTyped
    <2> QED BY <2>1, <2>2, RequestsLen DEF CurrentAnswered, Target
  <1> QED BY <1>2, <1>3, <1>4 DEF WholeInv, DatasetIsWhole

LEMMA WholeEndTick ==
    ASSUME EndTick("raised") PROVE WholeInv'
  BY RequestsLen
     DEF EndTick, WholeInv, EarlierAnswered, CurrentAnswered, DatasetIsWhole

LEMMA WholeRaise ==
    ASSUME TypeOK, WholeInv, step # 0, Raise PROVE WholeInv'
  <1>1. CASE EndTick("raised")
    BY <1>1, WholeEndTick
  <1>2. CASE /\ step \in 2..4
             /\ Ask(step + 1) /\ errors' = errors \cup {step} /\ outcome' = outcome
    <2>1. \A i \in 1..4 : i < step =>
            \A t : Answered(answers, i, t) => Answered(answers', i, t)
      BY RaiseCases DEF Answered
    <2> QED BY <1>2, <2>1, WholeAsk DEF TypeOK
  <1> QED BY <1>1, <1>2, RaiseCases

LEMMA WholeAnswered ==
    ASSUME TypeOK, WholeInv, CallAnswered PROVE WholeInv'
  <1>1. PICK t \in todo :
          /\ answers' = answers \cup {[step |-> step, target |-> t]}
          /\ todo' = todo \ {t}
    BY DEF CallAnswered
  <1>2. UNCHANGED <<step, errors, outcome>> /\ step # 0
    BY DEF CallAnswered, Calling
  <1>3. Answered(answers', step, t) /\ \E a \in answers' : a.step = step
    <2> DEFINE answer == [step |-> step, target |-> t]
    <2>1. answer \in answers' /\ answer.step = step /\ answer.target = t
      BY <1>1
    <2> QED BY <2>1 DEF Answered
  <1>4. \A i, u : Answered(answers, i, u) => Answered(answers', i, u)
    BY <1>1 DEF Answered
  <1>5. EarlierAnswered'
    BY <1>2, <1>4 DEF WholeInv, EarlierAnswered, Target
  <1>6. CurrentAnswered'
    <2>1. step \in 1..(Len(Requests) - 1) =>
            \A u \in Target(step) : u \in todo' \/ Answered(answers', step, u)
      BY <1>1, <1>3, <1>4 DEF WholeInv, CurrentAnswered
    <2> QED BY <1>2, <1>3, <2>1 DEF CurrentAnswered, Target
  <1> QED BY <1>2, <1>5, <1>6 DEF WholeInv, DatasetIsWhole

LEMMA WholeFinish ==
    ASSUME TypeOK, WholeInv, Finish PROVE WholeInv'
  <1>1. step \in 1..5 /\ todo = {} /\ answers' = answers
    BY RequestsLen DEF Finish, Return, TypeOK
  <1>2. CASE step = 5
    <2>1. EndTick(IF errors # {} THEN "raised" ELSE "dataset")
      BY <1>2, RequestsLen DEF Finish, Return
    <2>2. CASE errors # {}
      BY <2>1, <2>2, WholeEndTick
    <2>3. CASE errors = {}
      <3>1. \A i \in 1..4 : \A t \in Target(i) : Answered(answers, i, t)
        BY <1>2, <2>3, RequestsLen DEF WholeInv, EarlierAnswered
      <3>2. \E a \in answers : a.step = 5
        BY <1>1, <1>2, RequestsLen DEF WholeInv, CurrentAnswered
      <3>3. DatasetIsWhole'
        BY <1>1, <3>1, <3>2, RequestsLen
           DEF DatasetIsWhole, Answered, Target
      <3>4. step' = 0
        BY <2>1 DEF EndTick
      <3> QED BY <3>3, <3>4, RequestsLen
              DEF WholeInv, EarlierAnswered, CurrentAnswered
    <2> QED BY <2>2, <2>3
  <1>3. CASE step \in 1..4
    <2>1. Ask(step + 1) /\ UNCHANGED <<errors, outcome>>
      BY <1>3, RequestsLen DEF Finish, Return
    <2>2. \A t \in Target(step) : Answered(answers, step, t)
      BY <1>1, <1>3, RequestsLen DEF WholeInv, CurrentAnswered
    <2>3. \A i, t : Answered(answers, i, t) => Answered(answers', i, t)
      BY <1>1 DEF Answered
    <2> QED BY <1>3, <2>1, <2>2, <2>3, WholeAsk DEF TypeOK
  <1> QED BY <1>1, <1>2, <1>3

LEMMA NextWhole == TypeOK /\ WholeInv /\ [Next]_vars => WholeInv'
  <1> SUFFICES ASSUME TypeOK, WholeInv, [Next]_vars PROVE WholeInv'
    OBVIOUS
  <1>1. CASE EndpointChanges \/ Boot \/ UNCHANGED vars
    BY <1>1, WholeUnchanged DEF EndpointChanges, Boot, vars
  <1>2. CASE Stop
    BY <1>2, RequestsLen
       DEF Stop, WholeInv, EarlierAnswered, CurrentAnswered, DatasetIsWhole
  <1>3. CASE BeginTick
    <2>1. step' = 1 /\ todo' = Target(1) /\ outcome' = "none"
      BY <1>3, AskTyped DEF BeginTick
    <2> QED BY <2>1, RequestsLen
            DEF WholeInv, EarlierAnswered, CurrentAnswered, DatasetIsWhole,
                Target
  <1>4. CASE Discover
    BY <1>4, WholeRaise, WholeUnchanged DEF Discover
  <1>5. CASE Refuse
    BY <1>5, WholeRaise DEF Refuse
  <1>6. CASE CallAnswered
    BY <1>6, WholeAnswered
  <1>7. CASE CallFails
    BY <1>7, WholeRaise DEF CallFails, Calling
  <1>8. CASE Finish
    BY <1>8, WholeFinish
  <1> QED BY <1>1, <1>2, <1>3, <1>4, <1>5, <1>6, <1>7, <1>8 DEF Next, Work

\* Whatever the provider does between the calls, a dataset that is handed over
\* holds an answer to every call of its tick.
THEOREM DatasetsAreWhole == Spec => []DatasetIsWhole
  <1>1. WholeInv => DatasetIsWhole
    BY DEF WholeInv
  <1> QED BY InitTyped, NextTyped, InitWhole, NextWhole, <1>1, PTL DEF Spec
=============================================================================
