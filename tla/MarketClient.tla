---------------------------- MODULE MarketClient ----------------------------
(***************************************************************************)
(* clients/longbridge_mcp_client.py, class LongbridgeMcpClient, used by    *)
(* the service process: a tick of the scheduler asks for the status of all *)
(* markets, and a report of one market asks for its quotes, candles,       *)
(* intraday points and status (core/mcp_collector.py).                     *)
(*                                                                         *)
(* The provider may go away, change the tools it offers and renew the      *)
(* authorization it accepts at any time, also between two calls of one     *)
(* request; the process reads its header when it starts.                   *)
(***************************************************************************)
EXTENDS ToolPolicy, Naturals, Sequences

CONSTANTS
    Symbol,         \* the symbols of the markets
    Market,         \* the markets
    Header,         \* authorization headers
    Offers          \* sets of tools the provider may offer

NoHeader == "none"

ASSUME ClientConstants ==
    /\ Symbol # {} /\ Market # {}
    /\ NoHeader \notin Header
    /\ Offers \subseteq SUBSET Tool

VARIABLES
    (* the environment *)
    up,             \* the endpoint can be reached
    offered,        \* the tools it lists and serves
    accepted,       \* the header it accepts
    env,            \* LONGBRIDGE_MCP_AUTH_HEADER in the environment file
    (* the process *)
    running,
    header,         \* _auth_header
    discovery,      \* _discovery_done and _discovery_error
    step,           \* the request of the tick in hand, 0: none
    todo,           \* the symbols or markets of the request still to be asked
    errors,         \* collection_errors: the requests that raised
    answers,        \* the answers of the tick
    (* observation *)
    called,         \* the tools this process called
    outcome         \* how the last tick ended

environment == <<up, offered, accepted, env>>
request     == <<step, todo, errors, answers, outcome>>
vars        == <<environment, running, header, discovery, policy, request,
                 called>>

Required ==
    {"quote", "candlesticks", "intraday", "market_status", "trading_session"}

\* The requests of a tick in which a report is due: the first by the scheduler
\* for all markets, the others by the collector for one.
Requests == <<"market_status", "quote", "candles", "intraday", "market_status">>

Target(i) == IF Requests[i] = "market_status" THEN Market ELSE Symbol

\* A call that was answered, with data or with text that holds none (a tool that
\* reports an error): the parsers make something of either.
Answer == [step : 1..Len(Requests), target : Symbol \cup Market]

Init ==
    /\ up = TRUE /\ offered \in Offers /\ accepted \in Header
    /\ env \in Header \cup {NoHeader}
    /\ running = FALSE /\ header = NoHeader
    /\ discovery = "none" /\ EmptyPolicy
    /\ step = 0 /\ todo = {} /\ errors = {} /\ answers = {}
    /\ called = {} /\ outcome = "none"

-----------------------------------------------------------------------------
(* The environment. *)

EndpointChanges ==
    /\ \/ up' = ~up /\ UNCHANGED <<offered, accepted, env>>
       \/ offered' \in Offers /\ UNCHANGED <<up, accepted, env>>
       \/ accepted' \in Header /\ UNCHANGED <<up, offered, env>>
       \/ env' \in Header \cup {NoHeader} /\ UNCHANGED <<up, offered, accepted>>
    /\ UNCHANGED <<running, header, discovery, policy, request, called>>

\* Mutant: what a former process found out is still held against the next.
Boot_KeepsDiscovery ==
    /\ ~running /\ running' = TRUE
    /\ header' = env
    /\ UNCHANGED <<environment, discovery, policy, request, called>>

\* The constructor.
Boot ==
    /\ ~running /\ running' = TRUE
    /\ header' = env
    /\ discovery' = "none" /\ ResetPolicy
    /\ UNCHANGED <<environment, request, called>>

\* The process dies or is restarted by its operator.
Stop ==
    /\ running /\ running' = FALSE
    /\ step' = 0 /\ todo' = {} /\ errors' = {} /\ answers' = {}
    /\ called' = {} /\ outcome' = "none"
    /\ UNCHANGED <<environment, header, discovery, policy>>

-----------------------------------------------------------------------------
(* Requests. *)

Ask(i) ==
    /\ step' = i
    /\ todo' \in IF i = Len(Requests) THEN {{mk} : mk \in Market}
                                      ELSE {Target(i)}

EndTick(how) ==
    /\ step' = 0 /\ todo' = {} /\ errors' = {} /\ outcome' = how

BeginTick ==
    /\ running /\ step = 0
    /\ Ask(1)
    /\ errors' = {} /\ answers' = {} /\ outcome' = "none"
    /\ UNCHANGED <<environment, running, header, discovery, policy, called>>

\* Mutant: the collector forgets a request that raised.
Raise_Unnoted ==
    /\ answers' = {a \in answers : a.step # step}
    /\ IF step \in {1, Len(Requests)} THEN EndTick("raised")
       ELSE Ask(step + 1) /\ UNCHANGED <<errors, outcome>>

\* A request that raises hands over nothing.  The scheduler gives up the tick;
\* the collector notes the error, makes its other requests and raises at the end.
Raise ==
    /\ answers' = {a \in answers : a.step # step}
    /\ CASE step = 1             -> EndTick("raised")
         [] step = Len(Requests) -> EndTick("raised")
         [] OTHER -> Ask(step + 1) /\ errors' = errors \cup {step} /\ UNCHANGED outcome

Return ==
    /\ UNCHANGED answers
    /\ IF step = Len(Requests)
       THEN EndTick(IF errors # {} THEN "raised" ELSE "dataset")
       ELSE Ask(step + 1) /\ UNCHANGED <<errors, outcome>>

Finish ==
    /\ running /\ step # 0 /\ todo = {}
    /\ Return
    /\ UNCHANGED <<environment, running, header, discovery, policy, called>>

\* The provider answers a call, or the listing of its tools.
Serves == up /\ header = accepted

\* discover_tools when nothing was discovered yet: without a header it raises
\* and may be tried again; otherwise its result is kept.
Discover ==
    /\ running /\ step # 0 /\ todo # {} /\ discovery = "none"
    /\ IF header = NoHeader
       THEN Raise /\ UNCHANGED <<discovery, policy>>
       ELSE \/ /\ Serves /\ offered # {}
               /\ UpdateFromDiscovery(offered)
               /\ IF Required \subseteq offered
                  THEN discovery' = "ok" /\ UNCHANGED request
                  ELSE discovery' = "failed" /\ Raise
            \/ /\ ~Serves \/ offered = {}
               /\ discovery' = "failed" /\ Raise
               /\ UNCHANGED policy
    /\ UNCHANGED <<environment, running, header, called>>

\* Mutant: a failed discovery is only raised by the request that ran it.
Refuse_Once ==
    /\ running /\ step # 0 /\ todo # {} /\ discovery = "failed"
    /\ discovery' = "ok"
    /\ UNCHANGED <<environment, running, header, policy, request, called>>

Refuse ==
    /\ running /\ step # 0 /\ todo # {} /\ discovery = "failed"
    /\ Raise
    /\ UNCHANGED <<environment, running, header, discovery, policy, called>>

\* _call_mcp_tool: the tool of the operation, if there is one and the policy
\* allows it; then the call, which the provider answers or not.
ToolOf(i) == toolMap[Requests[i]]

Calling == running /\ step # 0 /\ todo # {} /\ discovery = "ok"

MayCall == ToolOf(step) # NoTool /\ IsAllowed(ToolOf(step))

Call == called' = IF MayCall THEN called \cup {ToolOf(step)} ELSE called

CallAnswered ==
    /\ Calling /\ MayCall /\ Serves /\ ToolOf(step) \in offered
    /\ Call
    /\ \E t \in todo :
         /\ answers' = answers \cup {[step |-> step, target |-> t]}
         /\ todo' = todo \ {t}
    /\ UNCHANGED <<environment, running, header, discovery, policy, step,
                   errors, outcome>>

\* Mutant: the error of a call is kept like the error of the discovery.
CallFails_Sticky ==
    /\ Calling /\ ~(MayCall /\ Serves /\ ToolOf(step) \in offered)
    /\ Call /\ Raise /\ discovery' = "failed"
    /\ UNCHANGED <<environment, running, header, policy>>

\* One call that is turned down or times out fails its whole request.
CallFails ==
    /\ Calling /\ ~(MayCall /\ Serves /\ ToolOf(step) \in offered)
    /\ Call /\ Raise
    /\ UNCHANGED <<environment, running, header, discovery, policy>>

Work == BeginTick \/ Discover \/ Refuse \/ CallAnswered \/ CallFails \/ Finish

Next == EndpointChanges \/ Boot \/ Stop \/ Work

\* The loop of the scheduler goes on after every error, and the service manager
\* starts the process again.
Spec == Init /\ [][Next]_vars /\ WF_vars(Work) /\ WF_vars(Boot)

-----------------------------------------------------------------------------
TypeOK ==
    /\ up \in BOOLEAN /\ offered \in Offers /\ accepted \in Header
    /\ env \in Header \cup {NoHeader}
    /\ running \in BOOLEAN
    /\ header \in Header \cup {NoHeader}
    /\ discovery \in {"none", "ok", "failed"}
    /\ PolicyTypeOK
    /\ step \in 0..Len(Requests)
    /\ todo \subseteq Symbol \cup Market
    /\ errors \subseteq 1..Len(Requests)
    /\ answers \subseteq Answer
    /\ called \subseteq ApprovedTools
    /\ outcome \in {"none", "raised", "dataset"}

\* Discovery or mapping failure blocks the provider: a process calls nothing
\* before it has seen every required tool offered, after that only approved
\* tools it saw, and never anything once its discovery has failed.
FailClosed ==
    called # {} =>
        /\ discovery = "ok"
        /\ Required \subseteq discovered
        /\ called \subseteq ApprovedTools \cap discovered

\* What the collector hands over is whole: of a tick that ended in a dataset,
\* every request was answered for each of its symbols, in that very tick,
\* however often the provider came and went meanwhile.  One symbol that could
\* not be asked costs the market its report, where the documents promise a
\* report on the others (PartialDataIsReported of ReportWorkflow).
DatasetIsWhole ==
    outcome = "dataset" =>
        /\ \A i \in 1..(Len(Requests) - 1) : \A t \in Target(i) :
             \E a \in answers : a.step = i /\ a.target = t
        /\ \E a \in answers : a.step = Len(Requests)

\* The provider could serve the process that is or would be running.
Serving == up /\ Required \subseteq offered

\* A process that has discovered the tools gets over every outage without a
\* restart: when the provider is back, datasets are made again.
OutageHeals ==
    [](discovery = "ok" /\ []running /\ <>[](Serving /\ header = accepted)
        => []<>(outcome = "dataset"))

\* Whatever a process got stuck on, the next one serves.
RestartHeals ==
    [](~running /\ [](Serving /\ env = accepted) /\ <>[]running
        => <>(outcome = "dataset"))
=============================================================================
