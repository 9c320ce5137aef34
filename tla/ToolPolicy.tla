----------------------------- MODULE ToolPolicy -----------------------------
(***************************************************************************)
(* app/policy/tool_policy.py, class LongbridgeToolPolicy: which tools of   *)
(* the provider may be called, and which tool serves an operation of the   *)
(* client.  Everything is denied until tools have been discovered.         *)
(*                                                                         *)
(* A trading, an account-read and an unknown tool stand for their sets.    *)
(***************************************************************************)
CONSTANT AccountRead    \* account_read_enabled

ASSUME PolicyConstants == AccountRead \in BOOLEAN

TradingTools     == {"submit_order"}
AccountReadTools == {"account_balance"}
ApprovedTools    ==
    {"quote", "candlesticks", "intraday", "market_status", "trading_session"}
Tool == ApprovedTools \cup TradingTools \cup AccountReadTools \cup {"other"}

VARIABLES
    discovered,     \* _discovered_tools
    toolMap,        \* _tool_map
    allowed         \* _allowed_market_tools

policy == <<discovered, toolMap, allowed>>

Mappings ==
    [quote         |-> "quote",
     candles       |-> "candlesticks",
     intraday      |-> "intraday",
     market_status |-> "trading_session"]

\* An operation that has no tool in _tool_map.
NoTool == "none"

NoMap == [operation \in DOMAIN Mappings |-> NoTool]

EmptyPolicy == discovered = {} /\ toolMap = NoMap /\ allowed = {}

ResetPolicy == discovered' = {} /\ toolMap' = NoMap /\ allowed' = {}

\* Mutant: whatever is discovered is allowed.
UpdateFromDiscovery_AllowsAll(tools) ==
    /\ discovered' = tools
    /\ toolMap' = [operation \in DOMAIN Mappings |->
         IF Mappings[operation] \in tools THEN Mappings[operation] ELSE NoTool]
    /\ allowed' = tools

UpdateFromDiscovery(tools) ==
    /\ discovered' = tools
    /\ toolMap' = [operation \in DOMAIN Mappings |->
         IF Mappings[operation] \in tools THEN Mappings[operation] ELSE NoTool]
    /\ allowed' = tools \cap ApprovedTools

\* check_tool: the categories are tried in this order.
IsAllowed(tool) ==
    /\ tool \notin TradingTools
    /\ IF tool \in AccountReadTools THEN AccountRead ELSE tool \in allowed

PolicyTypeOK ==
    /\ discovered \subseteq Tool
    /\ toolMap \in [DOMAIN Mappings -> ApprovedTools \cup {NoTool}]
    /\ allowed \subseteq ApprovedTools
=============================================================================
