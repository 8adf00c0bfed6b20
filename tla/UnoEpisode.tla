------------------------------ MODULE UnoEpisode ------------------------------
(***************************************************************************)
(* One training episode: UnoAgentLoop.run of scripts/rl/uno_rollout.py     *)
(* driving SingleUnoEnv.step of env/env_package/uno/envs.py, and the       *)
(* position at which UnoRewardManager puts the reward.                     *)
(*                                                                         *)
(* Abstractions.  A policy turn is its number of tokens and the tags the   *)
(* environment's regular expressions find in it.  An observation is its    *)
(* number of tokens, a guarding newline included.  The outcome of          *)
(* harness.run_route is one of four kinds.  A verifier answers 0 or 1, and *)
(* the blend of correctness and cost, which is positive exactly if the     *)
(* answer is correct, is 1.                                                *)
(***************************************************************************)
EXTENDS Naturals, Sequences

CONSTANTS max_turns,        \* of the loop
          response_length,  \* tokens of a response
          MaxTokens,        \* bound: tokens of one turn or observation
          MaxRoutes         \* bound: routes of one turn

ASSUME EpisodeAssumption ==
  /\ max_turns \in Nat \ {0} /\ response_length \in Nat \ {0}
  /\ MaxTokens \in Nat \ {0} /\ MaxRoutes \in Nat

VARIABLES
  pc,             \* where the coroutine is, see TypeOK
  lazy_allowed,   \* the source is in LAZY_ALLOWED_SOURCES
  (* SingleUnoEnv *)
  env_max_turns,  \* its own limit
  current_round, done,
  (* env.step: the action, and what it has built so far *)
  action,         \* the tags of the turn
  dispatched,     \* routes handed to the harness in this turn
  obs_parts,      \* observations made in this turn
  metadata, reward,
  (* UnoAgentLoop.run *)
  response_mask,
  turn_start,     \* where the turn being worked on starts
  turns,          \* the lists turn_starts, turn_ends, turn_action_types
  n_route_calls, done_reason, env_terminal_reward,
  (* history *)
  executed        \* routes the harness has answered

env == <<lazy_allowed, env_max_turns, current_round, done>>
step == <<action, dispatched, obs_parts, metadata, reward>>
rollout == <<response_mask, turn_start, turns, n_route_calls, done_reason,
             env_terminal_reward>>
vars == <<pc, env, step, rollout, executed>>

-------------------------------------------------------------------------------
(* What the regular expressions find.  "text": there is any text at all. *)
Actions == [final : BOOLEAN, plan : BOOLEAN, routes : 0..MaxRoutes, text : BOOLEAN]

NoAction == [final |-> FALSE, plan |-> FALSE, routes |-> 0, text |-> FALSE]

NoMetadata ==
  [format_valid |-> TRUE, format_error |-> FALSE, timeout |-> FALSE,
   final_answer |-> FALSE, lazy_mode |-> FALSE, n_routes |-> 0, round |-> 1]

(* extra_info may bring a limit of its own, the default is the loop's. *)
Init ==
  /\ pc = "generate"
  /\ lazy_allowed \in BOOLEAN
  /\ env_max_turns \in 1..(max_turns + 1)
  /\ current_round = 0 /\ done = FALSE
  /\ action = NoAction /\ dispatched = 0 /\ obs_parts = 0
  /\ metadata = NoMetadata /\ reward = 0
  /\ response_mask = <<>> /\ turn_start = 0 /\ turns = <<>>
  /\ n_route_calls = 0
  /\ done_reason = "max_turns"
  /\ env_terminal_reward = 0
  /\ executed = 0

Tokens(n, m) == [i \in 1..n |-> m]

Least(m, n) == IF m <= n THEN m ELSE n

Credit(start, end, type) ==
  IF end <= start THEN turns
  ELSE Append(turns, [start |-> start, end |-> end, type |-> type])

(* No tokens were generated. *)
EmptyGeneration ==
  /\ pc = "generate" /\ current_round < max_turns
  /\ done_reason' = "empty_generation"
  /\ pc' = "returned"
  /\ UNCHANGED <<env, step, response_mask, turn_start, turns, n_route_calls,
                 env_terminal_reward, executed>>

(* A bug the code does not have: a turn that fills the response is played  *)
(* all the same.                                                           *)
Generate_NoCut(n) ==
  /\ pc = "generate" /\ current_round < max_turns
  /\ response_mask' = response_mask \o Tokens(n, 1)
  /\ turn_start' = Len(response_mask)
  /\ pc' = "step"
  /\ action' \in Actions
  /\ action'.final \/ action'.plan \/ action'.routes > 0 => action'.text
  /\ UNCHANGED <<env, dispatched, obs_parts, metadata, reward, turns,
                 n_route_calls, done_reason, env_terminal_reward, executed>>

(* A turn that fills the response is credited and never reaches the        *)
(* environment; any other goes to env.step.                                *)
Generate(n) ==
  /\ pc = "generate" /\ current_round < max_turns
  /\ response_mask' = response_mask \o Tokens(n, 1)
  /\ turn_start' = Len(response_mask)
  /\ IF Len(response_mask) + n >= response_length
     THEN /\ pc' = "returned"
          /\ done_reason' = "response_length"
          /\ turns' = Credit(Len(response_mask), response_length, "response_length")
          /\ UNCHANGED action
     ELSE /\ pc' = "step"
          /\ action' \in Actions
          /\ action'.final \/ action'.plan \/ action'.routes > 0 => action'.text
          /\ UNCHANGED <<done_reason, turns>>
  /\ UNCHANGED <<env, dispatched, obs_parts, metadata, reward, n_route_calls,
                 env_terminal_reward, executed>>

(* The loop has used up its turns. *)
OutOfTurns ==
  /\ pc = "generate" /\ current_round = max_turns
  /\ pc' = "returned"
  /\ UNCHANGED <<env, step, rollout, executed>>

-------------------------------------------------------------------------------
(* env.step *)

HasRoute == action.routes > 0

(* A bug the code does not have: a final answer never needs a route. *)
HasFinal_AnyTurn == action.final

(* The final answer of a first turn without plan or route does not count,  *)
(* unless the source may be answered directly.                             *)
HasFinal ==
  /\ action.final
  /\ action.plan \/ HasRoute \/ lazy_allowed \/ current_round >= 1

IsLazy ==
  /\ ~action.final /\ ~action.plan /\ ~HasRoute
  /\ action.text
  /\ lazy_allowed

FormatValid == HasFinal \/ (action.plan /\ HasRoute) \/ IsLazy

(* Garbage ends the episode. *)
StepInvalid ==
  /\ pc = "step" /\ ~FormatValid
  /\ current_round' = current_round + 1
  /\ done' = TRUE
  /\ reward' = 0
  /\ metadata' = [NoMetadata EXCEPT !.format_valid = FALSE, !.format_error = TRUE]
  /\ dispatched' = 0 /\ obs_parts' = 0
  /\ pc' = "stepped"
  /\ UNCHANGED <<lazy_allowed, env_max_turns, action, rollout, executed>>

(* An answer ends the episode; routes of the same turn are not run. *)
StepAnswer ==
  /\ pc = "step" /\ (HasFinal \/ IsLazy)
  /\ current_round' = current_round + 1
  /\ done' = TRUE
  /\ reward' \in {0, 1}
  /\ metadata' = [NoMetadata EXCEPT !.final_answer = TRUE, !.lazy_mode = IsLazy]
  /\ dispatched' = 0 /\ obs_parts' = 0
  /\ pc' = "stepped"
  /\ UNCHANGED <<lazy_allowed, env_max_turns, action, rollout, executed>>

StepRoutes ==
  /\ pc = "step" /\ FormatValid /\ ~HasFinal /\ ~IsLazy
  /\ current_round' = current_round + 1
  /\ reward' = 0
  /\ metadata' = NoMetadata
  /\ dispatched' = 0 /\ obs_parts' = 0
  /\ pc' = "route"
  /\ UNCHANGED <<lazy_allowed, env_max_turns, done, action, rollout, executed>>

(* harness.run_route is called for the next route: it may refuse it ... *)
RouteRefused ==
  /\ pc = "route" /\ dispatched < action.routes
  /\ dispatched' = dispatched + 1
  /\ obs_parts' = obs_parts + 1
  /\ done' = TRUE
  /\ metadata' = [metadata EXCEPT !.format_error = TRUE]
  /\ pc' = "stepping"
  /\ UNCHANGED <<lazy_allowed, env_max_turns, current_round, action, reward, rollout, executed>>

(* ... or start it and block until it is done or timed out. *)
RouteStart ==
  /\ pc = "route" /\ dispatched < action.routes
  /\ dispatched' = dispatched + 1
  /\ pc' = "waiting"
  /\ UNCHANGED <<env, action, obs_parts, metadata, reward, rollout, executed>>

RouteDone ==
  /\ pc = "waiting"
  /\ obs_parts' = obs_parts + 1
  /\ executed' = executed + 1
  /\ pc' = "route"
  /\ UNCHANGED <<env, action, dispatched, metadata, reward, rollout>>

(* A bug the code does not have: a timeout skips the other routes but does *)
(* not end the episode.                                                    *)
RouteTimedOut_GoOn ==
  /\ pc = "waiting"
  /\ obs_parts' = obs_parts + 1
  /\ metadata' = [metadata EXCEPT !.timeout = TRUE]
  /\ pc' = "stepping"
  /\ UNCHANGED <<env, action, dispatched, reward, rollout, executed>>

(* A bug the code does not have: only the first route of a turn is watched *)
(* by the clock.                                                           *)
RouteTimedOut_FirstOnly ==
  /\ pc = "waiting" /\ dispatched = 1
  /\ obs_parts' = obs_parts + 1
  /\ done' = TRUE
  /\ metadata' = [metadata EXCEPT !.timeout = TRUE]
  /\ pc' = "stepping"
  /\ UNCHANGED <<lazy_allowed, env_max_turns, current_round, action, dispatched,
                 reward, rollout, executed>>

RouteTimedOut ==
  /\ pc = "waiting"
  /\ obs_parts' = obs_parts + 1
  /\ done' = TRUE
  /\ metadata' = [metadata EXCEPT !.timeout = TRUE]
  /\ pc' = "stepping"
  /\ UNCHANGED <<lazy_allowed, env_max_turns, current_round, action, dispatched, reward,
                 rollout, executed>>

(* A bug the code does not have: one turn too many is allowed. *)
StepEnd_OneMore ==
  /\ pc = "stepping" \/ (pc = "route" /\ dispatched = action.routes)
  /\ done' = (done \/ current_round > env_max_turns)
  /\ metadata' = [metadata EXCEPT
                    !.timeout = @ \/ current_round > env_max_turns,
                    !.n_routes = action.routes,
                    !.round = current_round]
  /\ pc' = "stepped"
  /\ UNCHANGED <<lazy_allowed, env_max_turns, current_round, action, dispatched,
                 obs_parts, reward, rollout, executed>>

(* A bug the code does not have: the turn limit returns at once, without   *)
(* the metadata.                                                           *)
StepEnd_NoMetadata ==
  /\ pc = "stepping" \/ (pc = "route" /\ dispatched = action.routes)
  /\ done' = (done \/ current_round >= env_max_turns)
  /\ pc' = "stepped"
  /\ UNCHANGED <<lazy_allowed, env_max_turns, current_round, action, dispatched,
                 obs_parts, metadata, reward, rollout, executed>>

(* After the last route or a break: max_turns, and the metadata. *)
StepEnd ==
  /\ pc = "stepping" \/ (pc = "route" /\ dispatched = action.routes)
  /\ done' = (done \/ current_round >= env_max_turns)
  /\ metadata' = [metadata EXCEPT
                    !.timeout = @ \/ current_round >= env_max_turns,
                    !.n_routes = action.routes,
                    !.round = current_round]
  /\ pc' = "stepped"
  /\ UNCHANGED <<lazy_allowed, env_max_turns, current_round, action, dispatched, obs_parts,
                 reward, rollout, executed>>

-------------------------------------------------------------------------------
(* After env.step. *)

(* _classify_turn_action *)
ActionType ==
  CASE metadata.format_error -> "format_error"
    [] ~metadata.format_error /\ metadata.timeout -> "timeout"
    [] ~metadata.format_error /\ ~metadata.timeout /\ metadata.final_answer ->
         IF metadata.lazy_mode THEN "lazy" ELSE "final"
    [] OTHER ->
         IF metadata.n_routes > 0
         THEN IF metadata.round > 1 THEN "repair" ELSE "route"
         ELSE IF done THEN "done" ELSE "other"

DoneReason ==
  CASE metadata.final_answer -> IF metadata.lazy_mode THEN "lazy" ELSE "final"
    [] ~metadata.final_answer /\ metadata.format_error -> "format_error"
    [] ~metadata.final_answer /\ ~metadata.format_error /\ metadata.timeout -> "timeout"
    [] OTHER -> "done"

(* A bug the code does not have: the span starts where the last one ended. *)
CreditTurn_FromLastEnd ==
  turns' = Credit(IF turns = <<>> THEN 0 ELSE turns[Len(turns)].end,
                  Least(Len(response_mask), response_length), ActionType)

(* The turn is credited up to its own last token. *)
CreditTurn ==
  turns' = Credit(turn_start, Least(Len(response_mask), response_length), ActionType)

Finish ==
  /\ pc = "stepped" /\ done
  /\ CreditTurn
  /\ n_route_calls' = n_route_calls + metadata.n_routes
  /\ done_reason' = DoneReason
  /\ env_terminal_reward' = reward
  /\ pc' = "returned"
  /\ UNCHANGED <<env, step, response_mask, turn_start, executed>>

(* The observation is appended with mask 0; it may fill the response. *)
Observe(n) ==
  /\ pc = "stepped" /\ ~done
  /\ CreditTurn
  /\ n_route_calls' = n_route_calls + metadata.n_routes
  /\ response_mask' = response_mask \o Tokens(n, 0)
  /\ IF Len(response_mask) + n >= response_length
     THEN pc' = "returned" /\ done_reason' = "response_length"
     ELSE pc' = "generate" /\ UNCHANGED done_reason
  /\ UNCHANGED <<env, step, turn_start, env_terminal_reward, executed>>

-------------------------------------------------------------------------------
Env ==
  \/ StepInvalid \/ StepAnswer \/ StepRoutes
  \/ RouteRefused \/ RouteStart \/ RouteTimedOut \/ StepEnd

Loop ==
  \/ EmptyGeneration \/ OutOfTurns \/ Finish
  \/ \E n \in 1..MaxTokens : Generate(n) \/ Observe(n)

Next == Env \/ RouteDone \/ Loop

Spec == Init /\ [][Next]_vars

(* The coroutine and the thread env.step runs on keep going, and the model *)
(* server answers.  A worker may never answer: the harness's hard timeout  *)
(* is all that is certain to end a route.                                  *)
FairSpec == Spec /\ WF_vars(Env) /\ WF_vars(Loop)

-------------------------------------------------------------------------------
(* What run returns, and where UnoRewardManager puts the reward. *)

resp_len == Least(Len(response_mask), response_length)

response_mask_out == SubSeq(response_mask, 1, resp_len)

(* The last policy token of the response, 0 if there is none. *)
last_pos ==
  LET policy == {i \in 1..resp_len : response_mask_out[i] = 1}
  IN  IF policy = {} THEN 0 ELSE CHOOSE i \in policy : \A j \in policy : j <= i

-------------------------------------------------------------------------------
ActionTypes ==
  {"format_error", "timeout", "lazy", "final", "route", "repair", "response_length"}

Metadata ==
  [format_valid : BOOLEAN, format_error : BOOLEAN, timeout : BOOLEAN,
   final_answer : BOOLEAN, lazy_mode : BOOLEAN, n_routes : Nat, round : Nat]

Span == [start : Nat, end : Nat, type : ActionTypes]

(* The shape of every variable. *)
TypeOK ==
  /\ pc \in {"generate", "step", "route", "waiting", "stepping", "stepped", "returned"}
  /\ lazy_allowed \in BOOLEAN /\ done \in BOOLEAN
  /\ env_max_turns \in 1..(max_turns + 1)
  /\ current_round \in 0..max_turns
  /\ action \in Actions
  /\ dispatched \in 0..MaxRoutes /\ obs_parts \in 0..MaxRoutes
  /\ metadata \in Metadata
  /\ reward \in {0, 1} /\ env_terminal_reward \in {0, 1}
  /\ response_mask \in Seq({0, 1})
  /\ turn_start \in Nat
  /\ turns \in Seq(Span)
  /\ n_route_calls \in Nat
  /\ done_reason \in (ActionTypes \ {"route", "repair"})
                      \cup {"max_turns", "empty_generation", "done"}
  /\ executed \in Nat

(* Token i of the response lies in the span of turn k. *)
Credits(k, i) == turns[k].start < i /\ i <= turns[k].end

(* Whenever the policy is to speak, and when the episode has returned, the *)
(* spans the loop hands to the trainer partition the policy tokens of the  *)
(* (cut) response: each belongs to exactly one turn, no observation token  *)
(* to any.                                                                 *)
TokensCredited ==
  pc \in {"generate", "returned"} =>
    /\ \A i \in 1..resp_len :
         response_mask[i] = 1 <=> \E k \in 1..Len(turns) : Credits(k, i)
    /\ \A k, l \in 1..Len(turns) : k < l => turns[k].end <= turns[l].start
    /\ \A k \in 1..Len(turns) : turns[k].end <= resp_len

(* A positive reward lands on the last token of the turn that answered,    *)
(* and nothing of that turn was cut off.                                   *)
RewardOnAnswer ==
  (pc = "returned" /\ env_terminal_reward > 0) =>
    /\ turns # <<>>
    /\ turns[Len(turns)].type \in {"final", "lazy"}
    /\ last_pos = turns[Len(turns)].end
    /\ last_pos = Len(response_mask)
    /\ Len(response_mask) < response_length

(* The policy never goes on with a route unanswered: before it speaks      *)
(* again, each route of the turn has its observation, and every route the  *)
(* loop has counted in this or an earlier turn was answered by the         *)
(* harness, none refused, timed out or skipped.                            *)
EveryRouteAnswered ==
  (pc = "generate" /\ current_round > 0) =>
    /\ action.routes > 0
    /\ obs_parts = action.routes
    /\ executed = n_route_calls

(* The reason reported agrees with what the environment saw: an answer if  *)
(* and only if one was accepted, and the episode ran to the end of its     *)
(* environment unless the loop ended it, for its own limit only if that is *)
(* the lower one.  No episode falls in the "done" bucket of the metrics.   *)
DoneReasonTrue ==
  pc = "returned" =>
    /\ done_reason \in {"final", "lazy"} <=> metadata.final_answer
    /\ ~done <=> done_reason \in {"response_length", "empty_generation", "max_turns"}
    /\ done_reason = "max_turns" =>
         current_round = max_turns /\ max_turns < env_max_turns
    /\ done_reason # "done"

(* A bare final answer for a source that must be routed is accepted only   *)
(* after the harness has answered a route in an earlier turn, which is     *)
(* what step relies on when it looks at current_round.                     *)
BareAnswerAfterRouting ==
  (metadata.final_answer /\ ~lazy_allowed /\ ~action.plan /\ ~HasRoute) =>
    executed > 0

(* Every episode returns. *)
EpisodeReturns == <>(pc = "returned")

-------------------------------------------------------------------------------
(* Claims of the comments. *)

(* "Everything else ... must emit at least one <plan>+<route> before a     *)
(* <final_answer>": what is accepted as the answer of a source that is not *)
(* in LAZY_ALLOWED_SOURCES comes after a route, in an earlier turn or at   *)
(* least in its own.                                                       *)
RoutesBeforeAnswer ==
  (metadata.final_answer /\ ~lazy_allowed) => executed > 0 \/ HasRoute

-------------------------------------------------------------------------------
(* The inductive invariant. *)

(* Up to here the tokens are credited; the rest is the turn in progress.   *)
settled == IF pc \in {"generate", "returned"} THEN resp_len ELSE turn_start

Partition ==
  /\ \A i \in 1..settled :
       response_mask[i] = 1 <=> \E k \in 1..Len(turns) : Credits(k, i)
  /\ \A k, l \in 1..Len(turns) : k < l => turns[k].end <= turns[l].start
  /\ \A k \in 1..Len(turns) : turns[k].end <= settled

(* Until it returns, the response has room and nothing is decided; the     *)
(* turn in progress is all policy tokens.                                  *)
Playing ==
  pc # "returned" =>
    /\ Len(response_mask) < response_length
    /\ done_reason = "max_turns" /\ env_terminal_reward = 0
    /\ pc # "generate" =>
         /\ turn_start < Len(response_mask)
         /\ \A i \in (turn_start + 1)..Len(response_mask) : response_mask[i] = 1

(* The policy speaks: every turn so far was routed and answered in full. *)
SpeakSound ==
  pc \in {"generate", "step"} =>
    /\ ~done /\ ~metadata.final_answer
    /\ current_round < env_max_turns
    /\ executed >= current_round /\ executed = n_route_calls
    /\ pc = "step" => current_round < max_turns
    /\ (pc = "generate" /\ current_round > 0) =>
         action.routes > 0 /\ obs_parts = action.routes

(* The routes of a turn. *)
RouteSound ==
  pc \in {"route", "waiting", "stepping"} =>
    /\ current_round > 0 /\ reward = 0 /\ HasRoute
    /\ dispatched <= action.routes
    /\ obs_parts = IF pc = "waiting" THEN dispatched - 1 ELSE dispatched
    /\ pc = "waiting" => dispatched > 0
    /\ ~metadata.final_answer
    /\ IF pc = "stepping"
       THEN done /\ (metadata.format_error <=> ~metadata.timeout)
       ELSE /\ ~done /\ ~metadata.format_error /\ ~metadata.timeout
            /\ executed + 1 >= current_round + obs_parts
            /\ executed = n_route_calls + obs_parts

(* The environment's verdict on a turn. *)
SteppedSound ==
  pc = "stepped" =>
    /\ IF metadata.final_answer
       THEN ~metadata.format_error /\ ~metadata.timeout
       ELSE reward = 0
    /\ done <=> metadata.final_answer \/ metadata.format_error \/ metadata.timeout
    /\ ~done =>
         /\ HasRoute /\ obs_parts = action.routes
         /\ metadata.n_routes = action.routes
         /\ current_round < env_max_turns /\ executed >= current_round
         /\ executed = n_route_calls + action.routes

(* The last turn of a returned episode with a reward. *)
RewardSound ==
  (pc = "returned" /\ env_terminal_reward > 0) =>
    /\ turns # <<>>
    /\ turns[Len(turns)].type \in {"final", "lazy"}
    /\ turns[Len(turns)].end = Len(response_mask)
    /\ Len(response_mask) > 0 /\ response_mask[Len(response_mask)] = 1
    /\ Len(response_mask) < response_length

IInv ==
  /\ TypeOK /\ Partition /\ Playing /\ SpeakSound /\ RouteSound /\ SteppedSound
  /\ RewardSound /\ DoneReasonTrue /\ BareAnswerAfterRouting

===============================================================================
