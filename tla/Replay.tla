--------------------------------- MODULE Replay ---------------------------------
(***************************************************************************)
(* The replay engine (replay.py) and its guarded local handlers            *)
(* (handlers.py).  A handler is Python code of the user: it returns any    *)
(* JSON value or raises.                                                   *)
(***************************************************************************)
EXTENDS ToolCalls

CONSTANTS
  FixedResults,  \* results that handler configurations give
  MaxEntries     \* bound: handlers of one configuration

ASSUME ReplayAssumption ==
  FixedResults \subseteq Value \ {Null} /\ MaxEntries \in Nat

VARIABLES
  handlers,   \* handlers[t]: the handler of tool t, or None
  policy,     \* the side-effect policy of the engine
  answer      \* the report or error being returned, or None

engine == <<handlers, policy>>

-----------------------------------------------------------------------------
(* Levels and policies.                                                    *)

Levels == {"read_only", "local_write", "network", "unknown"}
ReplayPolicies == {"strict", "local", "all"}

LevelRank(level) ==
  CASE level = "read_only" -> 0 [] level = "local_write" -> 1
    [] level = "network" -> 2   [] level = "unknown" -> 3

PolicyLimit(p) ==
  CASE p = "strict" -> LevelRank("read_only")
    [] p = "local"  -> LevelRank("local_write")
    [] p = "all"    -> LevelRank("unknown")

side_effect_allowed(level, p) == LevelRank(level) <= PolicyLimit(p)

(* A handler with no fixed result has a function.                          *)
Handler == [side_effect : Levels, fixed_result : FixedResults \cup {None}]

-----------------------------------------------------------------------------
(* Configurations.                                                         *)

(* An entry names a script or a result; a script may turn out to be        *)
(* missing, or not to define run(arguments).                               *)
Entry == [tool : Tools, script : {"runs", "broken"}, result : {None},
          side_effect : Levels]
           \cup [tool : Tools, script : {None}, result : FixedResults,
                 side_effect : Levels]

Config == [policy : ReplayPolicies,
           handlers : UNION {[1 .. n -> Entry] : n \in 0 .. MaxEntries}]

(* build_registry comes to its end.                                        *)
Builds(entries) ==
  /\ \A i, j \in DOMAIN entries : entries[i].tool = entries[j].tool => i = j
  /\ \A i \in DOMAIN entries : entries[i].script # "broken"

(* The handlers with those of the entries put over them.                   *)
Updated(entries) ==
  [t \in Tools |->
     IF \E i \in DOMAIN entries : entries[i].tool = t
     THEN LET i == CHOOSE i \in DOMAIN entries : entries[i].tool = t
          IN  [side_effect |-> entries[i].side_effect,
               fixed_result |-> entries[i].result]
     ELSE handlers[t]]

-----------------------------------------------------------------------------
(* A replay.                                                               *)

Modes == {"recorded-fallback", "guarded", "handler"}

Mode(call, p) ==
  IF handlers[call.name] = None THEN "recorded-fallback"
  ELSE IF side_effect_allowed(handlers[call.name].side_effect, p) THEN "handler"
  ELSE "guarded"

Step(call, p, outcome, result) ==
  [call             |-> call,
   mode             |-> Mode(call, p),
   replayed_outcome |-> outcome,
   replayed_result  |-> result,
   result_match     |-> SameHash(call.result, result)]

(* What a handler may come to.  One that raises leaves the recorded result *)
(* in place.                                                               *)
Executions(call) ==
  IF handlers[call.name].fixed_result # None
  THEN {<<"success", handlers[call.name].fixed_result>>}
  ELSE ({"success"} \X Value) \cup {<<"failure", call.result>>}

(* Mutant: a failed handler has no result.                                 *)
StepsWithoutFallback(call, p) ==
  IF Mode(call, p) = "handler"
  THEN {Step(call, p, run[1], IF run[1] = "failure" THEN Null ELSE run[2]) :
          run \in Executions(call)}
  ELSE {Step(call, p, call.outcome, call.result)}

(* The steps a call may be replayed as.                                    *)
Steps(call, p) ==
  IF Mode(call, p) = "handler"
  THEN {Step(call, p, run[1], run[2]) : run \in Executions(call)}
  ELSE {Step(call, p, call.outcome, call.result)}

-----------------------------------------------------------------------------
(* default_replay_engine knows tools that read only.                       *)
ReplayInit ==
  /\ \E T \in SUBSET Tools :
       handlers = [t \in Tools |-> IF t \in T THEN [side_effect |-> "read_only",
                                                    fixed_result |-> None]
                                              ELSE None]
  /\ policy = "strict"
  /\ answer = None

Register(t, level) ==
  /\ answer = None
  /\ handlers' = [handlers EXCEPT ![t] = [side_effect |-> level, fixed_result |-> None]]
  /\ UNCHANGED <<policy, answer>>

(* ATW_REPLAY_POLICY, --policy *)
SetPolicy(p) == answer = None /\ policy' = p /\ UNCHANGED <<handlers, answer>>

LoadConfig(config) ==
  /\ answer = None
  /\ policy' = config.policy
  /\ Builds(config.handlers)
  /\ handlers' = Updated(config.handlers)
  /\ UNCHANGED answer

(* build_registry raises, with the policy adopted and no handler.          *)
LoadConfigFails(config) ==
  /\ answer = None
  /\ policy' = config.policy
  /\ ~Builds(config.handlers)
  /\ answer' = [kind |-> "error"]
  /\ UNCHANGED handlers

ReplayRun(trace) ==
  /\ answer = None
  /\ \E steps \in [1 .. Len(trace) -> UNION {Steps(trace[i], policy) : i \in DOMAIN trace}] :
        /\ \A i \in DOMAIN trace : steps[i] \in Steps(trace[i], policy)
        /\ answer' = [kind |-> "replay", trace |-> trace, policy |-> policy,
                      steps |-> steps]
  /\ UNCHANGED engine

(* The report goes to its caller.                                          *)
Return == answer # None /\ answer' = None /\ UNCHANGED engine

ReplayNext ==
  \/ Return
  \/ \E t \in Tools, level \in Levels : Register(t, level)
  \/ \E p \in ReplayPolicies : SetPolicy(p)
  \/ \E config \in Config : LoadConfig(config) \/ LoadConfigFails(config)
  \/ \E trace \in TraceDocument : ReplayRun(trace)

Replayed == answer # None /\ answer.kind = "replay"
=============================================================================
