--------------------------- MODULE UnoEpisodeProofs ---------------------------
(***************************************************************************)
(* What a training episode hands to the trainer, for every limit on turns, *)
(* tokens and routes: the credited spans, the place of the reward and the  *)
(* reason it reports.                                                      *)
(***************************************************************************)
EXTENDS UnoEpisode, SequenceTheorems, TLAPS

USE EpisodeAssumption

-------------------------------------------------------------------------------
(* Sequences of tokens and of spans. *)

(* r is m with n more tokens, all of them b. *)
Extends(r, m, n, b) ==
  /\ r \in Seq({0, 1})
  /\ Len(r) = Len(m) + n
  /\ \A i \in 1..Len(m) : r[i] = m[i]
  /\ \A i \in (Len(m) + 1)..(Len(m) + n) : r[i] = b

LEMMA MoreTokens ==
  ASSUME NEW m \in Seq({0, 1}), NEW n \in Nat, NEW b \in {0, 1}
  PROVE  Extends(m \o Tokens(n, b), m, n, b)
<1>1. Tokens(n, b) \in Seq({0, 1}) /\ Len(Tokens(n, b)) = n
  BY DEF Tokens
<1>2. \A i \in 1..n : Tokens(n, b)[i] = b
  BY DEF Tokens
<1>3. /\ m \o Tokens(n, b) \in Seq({0, 1})
      /\ Len(m \o Tokens(n, b)) = Len(m) + n
      /\ \A i \in 1..(Len(m) + n) :
           (m \o Tokens(n, b))[i] = IF i <= Len(m) THEN m[i] ELSE Tokens(n, b)[i - Len(m)]
  BY <1>1, ConcatProperties
<1>4. Len(m) \in Nat
  OBVIOUS
<1>. QED
  BY <1>2, <1>3, <1>4 DEF Extends

LEMMA NewSpan ==
  ASSUME turns \in Seq(Span), NEW s \in Nat, NEW e \in Nat, s < e,
         NEW type \in ActionTypes, turns' = Credit(s, e, type)
  PROVE  /\ turns' \in Seq(Span) /\ Len(turns') = Len(turns) + 1 /\ Len(turns) \in Nat
         /\ \A k \in 1..Len(turns) : turns'[k] = turns[k]
         /\ turns'[Len(turns) + 1] = [start |-> s, end |-> e, type |-> type]
<1>1. [start |-> s, end |-> e, type |-> type] \in Span
  BY DEF Span
<1>2. turns' = Append(turns, [start |-> s, end |-> e, type |-> type])
  BY DEF Credit
<1>. QED
  BY <1>1, <1>2

LEMMA SettledType ==
  ASSUME TypeOK, Playing
  PROVE  /\ settled \in Nat /\ Len(response_mask) \in Nat
         /\ settled <= Len(response_mask)
         /\ pc = "generate" => settled = Len(response_mask)
         /\ \A k \in 1..Len(turns) : turns[k] \in Span
         /\ turns \in Seq(Span) /\ Len(turns) \in Nat
<1>1. Len(response_mask) \in Nat /\ turns \in Seq(Span) /\ Len(turns) \in Nat
  BY DEF TypeOK
<1>2. \A k \in 1..Len(turns) : turns[k] \in Span
  BY <1>1
<1>. QED
  BY <1>1, <1>2 DEF TypeOK, Playing, settled, resp_len, Least

(* Crediting the tokens from settled to e, all of the policy, when only    *)
(* observations follow them.                                               *)
LEMMA PartitionGrows ==
  ASSUME TypeOK, Playing, Partition,
         NEW e \in Nat, settled < e, e <= settled', settled' \in Nat,
         \A i \in 1..settled : response_mask'[i] = response_mask[i],
         \A i \in (settled + 1)..e : response_mask'[i] = 1,
         \A i \in (e + 1)..settled' : response_mask'[i] = 0,
         NEW type \in ActionTypes, turns' = Credit(settled, e, type)
  PROVE  Partition' /\ turns' \in Seq(Span)
<1>1. /\ settled \in Nat /\ Len(turns) \in Nat /\ turns \in Seq(Span)
      /\ \A k \in 1..Len(turns) : turns[k] \in Span
  BY SettledType
<1>2. /\ turns' \in Seq(Span) /\ Len(turns') = Len(turns) + 1
      /\ \A k \in 1..Len(turns) : turns'[k] = turns[k]
      /\ turns'[Len(turns) + 1] = [start |-> settled, end |-> e, type |-> type]
  BY <1>1, NewSpan
<1>3. /\ turns'[Len(turns) + 1].start = settled /\ turns'[Len(turns) + 1].end = e
  BY <1>2
<1>4. \A k \in 1..Len(turns) : turns[k].end \in Nat /\ turns[k].start \in Nat
  BY <1>1 DEF Span
<1>5. \A k \in 1..Len(turns) : turns[k].end <= settled
  BY DEF Partition
<1>6. ASSUME NEW i \in 1..settled'
      PROVE  response_mask'[i] = 1 <=> \E k \in 1..Len(turns') : Credits(k, i)'
  <2>1. CASE i \in 1..settled
    <3>1. ~Credits(Len(turns), i)'
      BY <1>1, <1>2, <1>3, <2>1 DEF Credits
    <3>2. \A k \in 1..Len(turns) : Credits(k, i)' <=> Credits(k, i)
      BY <1>2 DEF Credits
    <3>3. response_mask'[i] = 1 <=> \E k \in 1..Len(turns) : Credits(k, i)
      BY <2>1 DEF Partition
    <3>. QED
      BY <1>1, <1>2, <3>1, <3>2, <3>3
  <2>2. CASE i \in (settled + 1)..e
    <3>1. Credits(Len(turns), i)'
      BY <1>1, <1>2, <1>3, <2>2 DEF Credits
    <3>. QED
      BY <1>1, <1>2, <2>2, <3>1
  <2>3. CASE i \in (e + 1)..settled'
    <3>1. ~Credits(Len(turns), i)'
      BY <1>1, <1>2, <1>3, <2>3 DEF Credits
    <3>2. \A k \in 1..Len(turns) : ~Credits(k, i)'
      BY <1>1, <1>2, <1>4, <1>5, <2>3 DEF Credits
    <3>. QED
      BY <1>1, <1>2, <2>3, <3>1, <3>2
  <2>. QED
    BY <1>1, <2>1, <2>2, <2>3
<1>7. \A k, l \in 1..Len(turns') : k < l => turns'[k].end <= turns'[l].start
  <2> SUFFICES ASSUME NEW k \in 1..Len(turns'), NEW l \in 1..Len(turns'), k < l
               PROVE  turns'[k].end <= turns'[l].start
    OBVIOUS
  <2>1. k \in 1..Len(turns) /\ turns'[k] = turns[k]
    BY <1>1, <1>2
  <2>2. CASE l \in 1..Len(turns)
    BY <1>2, <2>1, <2>2 DEF Partition
  <2>3. CASE l = Len(turns) + 1
    BY <1>3, <1>5, <2>1, <2>3
  <2>. QED
    BY <1>1, <1>2, <2>2, <2>3
<1>8. \A k \in 1..Len(turns') : turns'[k].end <= settled'
  <2> SUFFICES ASSUME NEW k \in 1..Len(turns') PROVE turns'[k].end <= settled'
    OBVIOUS
  <2>1. CASE k \in 1..Len(turns)
    BY <1>1, <1>2, <1>4, <1>5, <2>1
  <2>2. CASE k = Len(turns) + 1
    BY <1>3, <2>2
  <2>. QED
    BY <1>1, <1>2, <2>1, <2>2
<1>. QED
  BY <1>2, <1>6, <1>7, <1>8 DEF Partition

LEMMA PartitionStays ==
  ASSUME TypeOK, Playing, Partition, settled' = settled, turns' = turns,
         \A i \in 1..settled : response_mask'[i] = response_mask[i]
  PROVE  Partition'
BY DEF Partition, Credits

-------------------------------------------------------------------------------
(* Metadata: a new record, and one with a field changed. *)
LEMMA FreshMetadata ==
  ASSUME NEW a \in BOOLEAN, NEW b \in BOOLEAN
  PROVE  /\ NoMetadata \in Metadata
         /\ [NoMetadata EXCEPT !.format_valid = a, !.format_error = b] \in Metadata
         /\ [NoMetadata EXCEPT !.final_answer = a, !.lazy_mode = b] \in Metadata
BY DEF NoMetadata, Metadata

LEMMA MetadataField ==
  ASSUME NEW m \in Metadata, NEW b \in BOOLEAN
  PROVE  /\ [m EXCEPT !.format_error = b] \in Metadata
         /\ ([m EXCEPT !.format_error = b].format_error <=> b)
         /\ ([m EXCEPT !.format_error = b].timeout <=> m.timeout)
         /\ ([m EXCEPT !.format_error = b].final_answer <=> m.final_answer)
         /\ [m EXCEPT !.timeout = b] \in Metadata
         /\ ([m EXCEPT !.timeout = b].timeout <=> b)
         /\ ([m EXCEPT !.timeout = b].format_error <=> m.format_error)
         /\ ([m EXCEPT !.timeout = b].final_answer <=> m.final_answer)
BY DEF Metadata

(* The inductive invariant. *)

LEMMA InitInv == Init => IInv
<1> SUFFICES ASSUME Init PROVE IInv
  OBVIOUS
<1>1. NoAction \in Actions
  BY DEF NoAction, Actions
<1>2. /\ response_mask \in Seq({0, 1}) /\ Len(response_mask) = 0
      /\ turns \in Seq(Span) /\ Len(turns) = 0
  BY EmptySeq DEF Init
<1>3. TypeOK
  <2>1. metadata \in Metadata /\ action \in Actions
    BY <1>1, FreshMetadata DEF Init
  <2>2. /\ current_round \in 0..max_turns /\ env_max_turns \in 1..(max_turns + 1)
        /\ dispatched \in 0..MaxRoutes /\ obs_parts \in 0..MaxRoutes
        /\ turn_start \in Nat /\ n_route_calls \in Nat /\ executed \in Nat
        /\ reward \in {0, 1} /\ env_terminal_reward \in {0, 1}
    BY DEF Init
  <2>3. /\ lazy_allowed \in BOOLEAN /\ done \in BOOLEAN
        /\ pc \in {"generate", "step", "route", "waiting", "stepping", "stepped", "returned"}
        /\ done_reason \in (ActionTypes \ {"route", "repair"})
                            \cup {"max_turns", "empty_generation", "done"}
    BY DEF Init
  <2>. QED
    BY <1>2, <2>1, <2>2, <2>3 DEF TypeOK
<1>4. settled = 0
  BY <1>2 DEF Init, settled, resp_len, Least
<1>5. Partition
  BY <1>2, <1>4 DEF Partition
<1>6. Playing /\ RewardSound
  BY <1>2 DEF Init, Playing, RewardSound
<1>7. SpeakSound /\ RouteSound /\ SteppedSound /\ DoneReasonTrue /\ BareAnswerAfterRouting
  BY DEF Init, NoMetadata, SpeakSound, RouteSound, SteppedSound, DoneReasonTrue,
         BareAnswerAfterRouting
<1>. QED
  BY <1>3, <1>5, <1>6, <1>7 DEF IInv

(* A step inside env.step touches neither the response nor the spans. *)
LEMMA InsideStep ==
  ASSUME IInv, UNCHANGED rollout, pc \notin {"generate", "returned"},
         pc' \notin {"generate", "returned"}
  PROVE  Partition' /\ Playing' /\ RewardSound' /\ DoneReasonTrue'
<1>1. settled' = settled /\ response_mask' = response_mask /\ turns' = turns
  BY DEF rollout, settled, resp_len
<1>2. Partition'
  BY <1>1, PartitionStays DEF IInv
<1>. QED
  BY <1>2 DEF IInv, Playing, RewardSound, DoneReasonTrue, rollout

(* What a step inside env.step may change keeps its type. *)
LEMMA InsideTypes ==
  ASSUME IInv, UNCHANGED rollout, UNCHANGED <<lazy_allowed, env_max_turns, action>>,
         pc' \in {"route", "waiting", "stepping", "stepped"},
         done' \in BOOLEAN, current_round' \in 0..max_turns,
         dispatched' \in 0..MaxRoutes, obs_parts' \in 0..MaxRoutes,
         metadata' \in Metadata, reward' \in {0, 1}, executed' \in Nat
  PROVE  TypeOK'
BY DEF IInv, TypeOK, rollout

(* env.step starts: the turn is one of max_turns. *)
LEMMA StepTypes ==
  ASSUME IInv, pc = "step"
  PROVE  /\ current_round \in Nat /\ current_round + 1 \in 0..max_turns
         /\ 0 \in 0..MaxRoutes /\ executed \in Nat /\ executed >= current_round
         /\ executed = n_route_calls /\ done = FALSE
<1>1. /\ current_round \in Nat /\ executed \in Nat /\ done \in BOOLEAN
      /\ max_turns \in Nat /\ MaxRoutes \in Nat
  BY EpisodeAssumption DEF IInv, TypeOK
<1>2. /\ current_round < max_turns /\ executed >= current_round /\ ~done
      /\ executed = n_route_calls
  BY DEF IInv, SpeakSound
<1>. QED
  BY <1>1, <1>2

(* The routes of the turn, with the types of what they count. *)
LEMMA RouteFacts ==
  ASSUME IInv, pc \in {"route", "waiting"}
  PROVE  /\ action.routes \in 0..MaxRoutes /\ MaxRoutes \in Nat
         /\ dispatched \in Nat /\ obs_parts \in Nat /\ executed \in Nat
         /\ current_round \in 0..max_turns /\ current_round > 0
         /\ reward = 0 /\ HasRoute /\ dispatched <= action.routes
         /\ pc = "route" => obs_parts = dispatched
         /\ pc = "waiting" => dispatched > 0 /\ obs_parts + 1 = dispatched
         /\ executed + 1 >= current_round + obs_parts
         /\ executed = n_route_calls + obs_parts /\ n_route_calls \in Nat
         /\ metadata \in Metadata /\ done = FALSE
         /\ ~metadata.final_answer /\ ~metadata.format_error /\ ~metadata.timeout
<1>1. /\ action.routes \in 0..MaxRoutes /\ MaxRoutes \in Nat /\ current_round \in 0..max_turns
      /\ dispatched \in Nat /\ obs_parts \in Nat /\ executed \in Nat /\ n_route_calls \in Nat
      /\ metadata \in Metadata /\ done \in BOOLEAN
  BY EpisodeAssumption DEF IInv, TypeOK, Actions
<1>2. /\ current_round > 0 /\ reward = 0 /\ HasRoute /\ dispatched <= action.routes
      /\ obs_parts = IF pc = "waiting" THEN dispatched - 1 ELSE dispatched
      /\ pc = "waiting" => dispatched > 0
      /\ executed + 1 >= current_round + obs_parts /\ ~done
      /\ executed = n_route_calls + obs_parts
      /\ ~metadata.final_answer /\ ~metadata.format_error /\ ~metadata.timeout
  BY DEF IInv, RouteSound
<1>. QED
  BY <1>1, <1>2

LEMMA StepInvalidInv == ASSUME IInv, StepInvalid PROVE IInv'
<1>1. TypeOK'
  <2>1. metadata' \in Metadata
    BY FreshMetadata DEF StepInvalid
  <2>. QED
    BY <2>1, StepTypes, InsideTypes DEF StepInvalid
<1>2. Partition' /\ Playing' /\ RewardSound' /\ DoneReasonTrue'
  BY InsideStep DEF StepInvalid
<1>3. SpeakSound' /\ RouteSound' /\ SteppedSound' /\ BareAnswerAfterRouting'
  BY DEF StepInvalid, SpeakSound, RouteSound, SteppedSound, BareAnswerAfterRouting,
         NoMetadata
<1>. QED
  BY <1>1, <1>2, <1>3 DEF IInv

LEMMA StepAnswerInv == ASSUME IInv, StepAnswer PROVE IInv'
<1>1. IsLazy \in BOOLEAN
  BY DEF IsLazy
<1>2. TypeOK'
  <2>1. metadata' \in Metadata
    BY <1>1, FreshMetadata DEF StepAnswer
  <2>. QED
    BY <2>1, StepTypes, InsideTypes DEF StepAnswer
<1>3. Partition' /\ Playing' /\ RewardSound' /\ DoneReasonTrue'
  BY InsideStep DEF StepAnswer
<1>4. SpeakSound' /\ RouteSound' /\ SteppedSound'
  BY DEF StepAnswer, SpeakSound, RouteSound, SteppedSound, NoMetadata
<1>5. BareAnswerAfterRouting'
  <2> SUFFICES ASSUME ~lazy_allowed, ~action.plan, ~HasRoute
               PROVE  executed' > 0
    BY DEF StepAnswer, BareAnswerAfterRouting, HasRoute
  <2>1. current_round >= 1
    BY DEF StepAnswer, HasFinal, IsLazy, HasRoute
  <2>2. executed' = executed /\ executed >= current_round
    BY DEF IInv, SpeakSound, StepAnswer
  <2>. QED
    BY <2>1, <2>2 DEF IInv, TypeOK
<1>. QED
  BY <1>2, <1>3, <1>4, <1>5 DEF IInv

LEMMA StepRoutesInv == ASSUME IInv, StepRoutes PROVE IInv'
<1>1. TypeOK'
  <2>1. metadata' \in Metadata
    BY FreshMetadata DEF StepRoutes
  <2>. QED
    BY <2>1, StepTypes, InsideTypes DEF StepRoutes
<1>2. Partition' /\ Playing' /\ RewardSound' /\ DoneReasonTrue'
  BY InsideStep DEF StepRoutes
<1>3. RouteSound'
  <2>1. HasRoute
    BY DEF StepRoutes, FormatValid
  <2>2. action.routes \in Nat
    BY DEF IInv, TypeOK, Actions
  <2>3. /\ reward' = 0 /\ HasRoute' /\ pc' = "route" /\ dispatched' = 0 /\ obs_parts' = 0
        /\ action' = action /\ ~done'
    BY <2>1, StepTypes DEF StepRoutes, HasRoute
  <2>4. ~metadata'.final_answer /\ ~metadata'.format_error /\ ~metadata'.timeout
    BY DEF StepRoutes, NoMetadata
  <2>5. current_round' > 0 /\ executed' + 1 >= current_round' + obs_parts'
    BY <2>3, StepTypes DEF StepRoutes
  <2>6. executed' = n_route_calls' + obs_parts'
    BY <2>3, StepTypes DEF StepRoutes, rollout
  <2>. QED
    BY <2>2, <2>3, <2>4, <2>5, <2>6 DEF RouteSound
<1>4. SpeakSound' /\ SteppedSound' /\ BareAnswerAfterRouting'
  BY DEF StepRoutes, SpeakSound, SteppedSound, BareAnswerAfterRouting, NoMetadata
<1>. QED
  BY <1>1, <1>2, <1>3, <1>4 DEF IInv

LEMMA RouteRefusedInv == ASSUME IInv, RouteRefused PROVE IInv'
<1>1. /\ pc' = "stepping" /\ dispatched' = dispatched + 1 /\ obs_parts' = obs_parts + 1
      /\ done' = TRUE /\ dispatched < action.routes
      /\ UNCHANGED <<lazy_allowed, env_max_turns, current_round, action, reward, executed>>
      /\ UNCHANGED rollout
  BY DEF RouteRefused
<1>2. /\ metadata' \in Metadata
      /\ metadata'.format_error /\ ~metadata'.timeout /\ ~metadata'.final_answer
  BY RouteFacts, MetadataField DEF RouteRefused
<1>3. TypeOK'
  <2>1. dispatched' \in 0..MaxRoutes /\ obs_parts' \in 0..MaxRoutes
    BY <1>1, RouteFacts DEF RouteRefused
  <2>. QED
    BY <1>1, <1>2, <2>1, RouteFacts, InsideTypes DEF RouteRefused
<1>4. Partition' /\ Playing' /\ RewardSound' /\ DoneReasonTrue'
  BY InsideStep DEF RouteRefused
<1>5. RouteSound'
  <2>1. HasRoute' /\ current_round' > 0 /\ reward' = 0
    BY <1>1, RouteFacts DEF RouteRefused, HasRoute
  <2>2. dispatched' <= action'.routes /\ obs_parts' = dispatched'
    BY <1>1, RouteFacts DEF RouteRefused
  <2>. QED
    BY <1>1, <1>2, <2>1, <2>2 DEF RouteSound
<1>6. SpeakSound' /\ SteppedSound' /\ BareAnswerAfterRouting'
  BY <1>1, <1>2 DEF SpeakSound, SteppedSound, BareAnswerAfterRouting
<1>. QED
  BY <1>3, <1>4, <1>5, <1>6 DEF IInv

LEMMA RouteStartInv == ASSUME IInv, RouteStart PROVE IInv'
<1>1. /\ pc' = "waiting" /\ dispatched' = dispatched + 1 /\ dispatched < action.routes
      /\ UNCHANGED <<lazy_allowed, env_max_turns, current_round, done, action, obs_parts,
                     metadata, reward, executed>>
      /\ UNCHANGED rollout
  BY DEF RouteStart, env
<1>2. TypeOK'
  <2>1. dispatched' \in 0..MaxRoutes /\ obs_parts' \in 0..MaxRoutes
    BY <1>1, RouteFacts DEF RouteStart
  <2>. QED
    BY <1>1, <2>1, RouteFacts, InsideTypes DEF RouteStart
<1>3. Partition' /\ Playing' /\ RewardSound' /\ DoneReasonTrue'
  BY InsideStep DEF RouteStart, env
<1>4. RouteSound'
  <2>1. HasRoute' /\ current_round' > 0 /\ reward' = 0
    BY <1>1, RouteFacts DEF RouteStart, HasRoute
  <2>2. /\ dispatched' <= action'.routes /\ obs_parts' = dispatched' - 1 /\ dispatched' > 0
        /\ executed' + 1 >= current_round' + obs_parts'
    BY <1>1, RouteFacts DEF RouteStart
  <2>4. executed' = n_route_calls' + obs_parts'
    BY <1>1, RouteFacts DEF RouteStart, rollout
  <2>3. ~done' /\ ~metadata'.final_answer /\ ~metadata'.format_error /\ ~metadata'.timeout
    BY <1>1, RouteFacts DEF RouteStart
  <2>. QED
    BY <1>1, <2>1, <2>2, <2>3, <2>4 DEF RouteSound
<1>5. SpeakSound' /\ SteppedSound' /\ BareAnswerAfterRouting'
  BY <1>1, RouteFacts DEF RouteStart, SpeakSound, SteppedSound, BareAnswerAfterRouting
<1>. QED
  BY <1>2, <1>3, <1>4, <1>5 DEF IInv

LEMMA RouteDoneInv == ASSUME IInv, RouteDone PROVE IInv'
<1>1. /\ pc' = "route" /\ obs_parts' = obs_parts + 1 /\ executed' = executed + 1
      /\ UNCHANGED <<lazy_allowed, env_max_turns, current_round, done, action, dispatched,
                     metadata, reward>>
      /\ UNCHANGED rollout
  BY DEF RouteDone, env
<1>2. TypeOK'
  <2>1. dispatched' \in 0..MaxRoutes /\ obs_parts' \in 0..MaxRoutes /\ executed' \in Nat
    BY <1>1, RouteFacts DEF RouteDone
  <2>. QED
    BY <1>1, <2>1, RouteFacts, InsideTypes DEF RouteDone
<1>3. Partition' /\ Playing' /\ RewardSound' /\ DoneReasonTrue'
  BY InsideStep DEF RouteDone, env
<1>4. RouteSound'
  <2>1. HasRoute' /\ current_round' > 0 /\ reward' = 0
    BY <1>1, RouteFacts DEF RouteDone, HasRoute
  <2>2. /\ dispatched' <= action'.routes /\ obs_parts' = dispatched'
        /\ executed' + 1 >= current_round' + obs_parts'
    BY <1>1, RouteFacts DEF RouteDone
  <2>4. executed' = n_route_calls' + obs_parts'
    BY <1>1, RouteFacts DEF RouteDone, rollout
  <2>3. ~done' /\ ~metadata'.final_answer /\ ~metadata'.format_error /\ ~metadata'.timeout
    BY <1>1, RouteFacts DEF RouteDone
  <2>. QED
    BY <1>1, <2>1, <2>2, <2>3, <2>4 DEF RouteSound
<1>5. SpeakSound' /\ SteppedSound' /\ BareAnswerAfterRouting'
  BY <1>1, RouteFacts DEF RouteDone, SpeakSound, SteppedSound, BareAnswerAfterRouting
<1>. QED
  BY <1>2, <1>3, <1>4, <1>5 DEF IInv

LEMMA RouteTimedOutInv == ASSUME IInv, RouteTimedOut PROVE IInv'
<1>1. /\ pc' = "stepping" /\ obs_parts' = obs_parts + 1 /\ done' = TRUE
      /\ UNCHANGED <<lazy_allowed, env_max_turns, current_round, action, dispatched, reward,
                     executed>>
      /\ UNCHANGED rollout
  BY DEF RouteTimedOut
<1>2. /\ metadata' \in Metadata
      /\ metadata'.timeout /\ ~metadata'.format_error /\ ~metadata'.final_answer
  BY RouteFacts, MetadataField DEF RouteTimedOut
<1>3. TypeOK'
  <2>1. dispatched' \in 0..MaxRoutes /\ obs_parts' \in 0..MaxRoutes
    BY <1>1, RouteFacts DEF RouteTimedOut
  <2>. QED
    BY <1>1, <1>2, <2>1, RouteFacts, InsideTypes DEF RouteTimedOut
<1>4. Partition' /\ Playing' /\ RewardSound' /\ DoneReasonTrue'
  BY InsideStep DEF RouteTimedOut
<1>5. RouteSound'
  <2>1. HasRoute' /\ current_round' > 0 /\ reward' = 0
    BY <1>1, RouteFacts DEF RouteTimedOut, HasRoute
  <2>2. dispatched' <= action'.routes /\ obs_parts' = dispatched'
    BY <1>1, RouteFacts DEF RouteTimedOut
  <2>. QED
    BY <1>1, <1>2, <2>1, <2>2 DEF RouteSound
<1>6. SpeakSound' /\ SteppedSound' /\ BareAnswerAfterRouting'
  BY <1>1, <1>2 DEF SpeakSound, SteppedSound, BareAnswerAfterRouting
<1>. QED
  BY <1>3, <1>4, <1>5, <1>6 DEF IInv

LEMMA StepEndInv == ASSUME IInv, StepEnd PROVE IInv'
<1>1. /\ metadata' \in Metadata
      /\ (metadata'.timeout <=> metadata.timeout \/ current_round >= env_max_turns)
      /\ (metadata'.format_error <=> metadata.format_error)
      /\ (metadata'.final_answer <=> metadata.final_answer)
      /\ metadata'.n_routes = action.routes
  <2> DEFINE over == current_round >= env_max_turns
  <2>1. /\ metadata \in Metadata /\ action.routes \in Nat /\ current_round \in Nat
        /\ over \in BOOLEAN
    BY DEF IInv, TypeOK, Actions
  <2>2. metadata' = [metadata EXCEPT !.timeout = metadata.timeout \/ over,
                                     !.n_routes = action.routes, !.round = current_round]
    BY DEF StepEnd
  <2> HIDE DEF over
  <2>3. /\ metadata' \in Metadata
        /\ metadata'.timeout <=> metadata.timeout \/ over
        /\ metadata'.format_error <=> metadata.format_error
        /\ metadata'.final_answer <=> metadata.final_answer
        /\ metadata'.n_routes = action.routes
    BY <2>1, <2>2 DEF Metadata
  <2>. QED
    BY <2>3 DEF over
<1>2. TypeOK'
  BY <1>1 DEF IInv, TypeOK, StepEnd, rollout
<1>3. Partition' /\ Playing' /\ RewardSound' /\ DoneReasonTrue'
  BY InsideStep DEF StepEnd
<1>4. SteppedSound'
  <2>1. CASE pc = "stepping"
    BY <1>1, <2>1 DEF IInv, TypeOK, RouteSound, StepEnd, SteppedSound
  <2>2. CASE pc = "route" /\ dispatched = action.routes
    <3>1. env_max_turns \in Nat /\ current_round \in Nat /\ executed \in Nat
      BY DEF IInv, TypeOK
    <3>2. /\ obs_parts = action.routes /\ executed >= current_round
          /\ executed = n_route_calls + action.routes
          /\ HasRoute /\ reward = 0 /\ done = FALSE
          /\ ~metadata.final_answer /\ ~metadata.format_error /\ ~metadata.timeout
      BY <2>2, <3>1, RouteFacts DEF HasRoute
    <3>3. /\ UNCHANGED <<action, obs_parts, reward, current_round, env_max_turns, executed,
                         n_route_calls>>
          /\ done' = (done \/ current_round >= env_max_turns)
      BY DEF StepEnd, rollout
    <3>4. /\ obs_parts' = action'.routes /\ executed' >= current_round' /\ HasRoute'
          /\ executed' = n_route_calls' + action'.routes
      BY <3>2, <3>3 DEF HasRoute
    <3>5. /\ done' <=> current_round >= env_max_turns
          /\ metadata'.timeout <=> current_round >= env_max_turns
          /\ ~metadata'.format_error /\ ~metadata'.final_answer
      BY <1>1, <3>2, <3>3
    <3>6. /\ ~done' => current_round' < env_max_turns'
          /\ metadata'.n_routes = action'.routes /\ reward' = 0
      BY <1>1, <3>1, <3>2, <3>3, <3>5
    <3>. QED
      BY <3>4, <3>5, <3>6 DEF SteppedSound
  <2>. QED
    BY <2>1, <2>2 DEF StepEnd
<1>5. BareAnswerAfterRouting'
  BY <1>1 DEF IInv, RouteSound, StepEnd, BareAnswerAfterRouting
<1>6. SpeakSound' /\ RouteSound'
  BY DEF StepEnd, SpeakSound, RouteSound
<1>. QED
  BY <1>2, <1>3, <1>4, <1>5, <1>6 DEF IInv

(* The loop returns between two turns: what it has is settled. *)
LEMMA BetweenTurns ==
  ASSUME IInv, pc = "generate", pc' = "returned",
         UNCHANGED <<env, step, response_mask, turn_start, turns, env_terminal_reward,
                     executed>>
  PROVE  Partition' /\ Playing' /\ SpeakSound' /\ RouteSound' /\ SteppedSound'
         /\ RewardSound' /\ BareAnswerAfterRouting'
<1>1. settled' = settled
  BY DEF settled, resp_len
<1>2. Partition'
  BY <1>1, PartitionStays DEF IInv
<1>3. Playing' /\ SpeakSound' /\ RouteSound' /\ SteppedSound'
  BY DEF Playing, SpeakSound, RouteSound, SteppedSound
<1>4. RewardSound' /\ BareAnswerAfterRouting'
  BY DEF IInv, Playing, RewardSound, BareAnswerAfterRouting, HasRoute, env, step
<1>. QED
  BY <1>2, <1>3, <1>4

LEMMA EmptyGenerationInv == ASSUME IInv, EmptyGeneration PROVE IInv'
<1>1. TypeOK'
  BY DEF IInv, TypeOK, EmptyGeneration, env, step
<1>2. Partition' /\ Playing' /\ SpeakSound' /\ RouteSound' /\ SteppedSound'
      /\ RewardSound' /\ BareAnswerAfterRouting'
  BY BetweenTurns DEF EmptyGeneration
<1>3. DoneReasonTrue'
  BY DEF IInv, SpeakSound, EmptyGeneration, DoneReasonTrue, env, step
<1>. QED
  BY <1>1, <1>2, <1>3 DEF IInv

LEMMA OutOfTurnsInv == ASSUME IInv, OutOfTurns PROVE IInv'
<1>1. TypeOK'
  BY DEF IInv, TypeOK, OutOfTurns, env, step, rollout
<1>2. Partition' /\ Playing' /\ SpeakSound' /\ RouteSound' /\ SteppedSound'
      /\ RewardSound' /\ BareAnswerAfterRouting'
  BY BetweenTurns DEF OutOfTurns, rollout
<1>3. DoneReasonTrue'
  BY DEF IInv, SpeakSound, Playing, OutOfTurns, DoneReasonTrue, env, step, rollout
<1>. QED
  BY <1>1, <1>2, <1>3 DEF IInv

LEMMA GenerateInv ==
  ASSUME IInv, NEW n \in 1..MaxTokens, Generate(n)
  PROVE  IInv'
<1>1. /\ response_mask \in Seq({0, 1}) /\ Len(response_mask) \in Nat
      /\ settled = Len(response_mask) /\ settled \in Nat
      /\ Len(response_mask) < response_length
      /\ turns \in Seq(Span) /\ Len(turns) \in Nat
  BY SettledType DEF IInv, TypeOK, Playing, Generate
<1>2. /\ response_mask' \in Seq({0, 1})
      /\ Len(response_mask') = Len(response_mask) + n
      /\ \A i \in 1..Len(response_mask) : response_mask'[i] = response_mask[i]
      /\ \A i \in (Len(response_mask) + 1)..(Len(response_mask) + n) :
           response_mask'[i] = 1
  <2>1. Extends(response_mask \o Tokens(n, 1), response_mask, n, 1)
    <3>1. n \in Nat /\ 1 \in {0, 1}
      OBVIOUS
    <3>. QED
      BY <1>1, <3>1, MoreTokens
  <2>2. response_mask' = response_mask \o Tokens(n, 1)
    BY DEF Generate
  <2>3. Extends(response_mask', response_mask, n, 1)
    BY <2>1, <2>2
  <2>. QED
    BY <2>3 DEF Extends
<1>3. CASE Len(response_mask) + n >= response_length
  <2>1. /\ pc' = "returned" /\ done_reason' = "response_length"
        /\ turns' = Credit(settled, response_length, "response_length")
        /\ UNCHANGED <<env, step, n_route_calls, env_terminal_reward, executed>>
    BY <1>1, <1>3 DEF Generate, step
  <2>2. settled' = response_length
    <3>1. ~(Len(response_mask') <= response_length) \/ Len(response_mask') = response_length
      <4>1. n \in Nat /\ response_length \in Nat /\ Len(response_mask) + n \in Nat
        BY <1>1, EpisodeAssumption
      <4>. QED
        BY <1>2, <1>3, <4>1
    <3>2. settled' = Least(Len(response_mask'), response_length)
      BY <2>1 DEF settled, resp_len
    <3>. QED
      BY <3>1, <3>2 DEF Least
  <2>3. Partition' /\ turns' \in Seq(Span)
    <3>1. "response_length" \in ActionTypes
      BY DEF ActionTypes
    <3>2. TypeOK /\ Playing /\ Partition
      BY DEF IInv
    <3>3. /\ response_length \in Nat /\ settled < response_length
          /\ response_length <= settled' /\ settled' \in Nat
      BY <1>1, <2>2, EpisodeAssumption
    <3>4. \A i \in 1..settled : response_mask'[i] = response_mask[i]
      BY <1>1, <1>2
    <3>5. \A i \in (settled + 1)..response_length : response_mask'[i] = 1
      <4>1. n \in Nat
        OBVIOUS
      <4>. QED
        BY <1>1, <1>2, <1>3, <4>1, EpisodeAssumption
    <3>6. \A i \in (response_length + 1)..settled' : response_mask'[i] = 0
      BY <2>2, EpisodeAssumption
    <3>. QED
      BY <2>1, <3>1, <3>2, <3>3, <3>4, <3>5, <3>6, PartitionGrows
  <2>4. TypeOK'
    <3>1. /\ done_reason' \in (ActionTypes \ {"route", "repair"})
          /\ turn_start' \in Nat /\ action' = action /\ env_terminal_reward' = env_terminal_reward
      BY <1>1, <2>1 DEF Generate, step, ActionTypes
    <3>2. UNCHANGED <<lazy_allowed, env_max_turns, current_round, done, dispatched, obs_parts,
                      metadata, reward, n_route_calls, executed>>
      BY <2>1 DEF env, step
    <3>. QED
      BY <1>2, <2>1, <2>3, <3>1, <3>2 DEF IInv, TypeOK
  <2>5. Playing' /\ SpeakSound' /\ RouteSound' /\ SteppedSound'
    BY <2>1 DEF Playing, SpeakSound, RouteSound, SteppedSound
  <2>6. RewardSound' /\ DoneReasonTrue' /\ BareAnswerAfterRouting'
    BY <2>1 DEF IInv, Generate, Playing, SpeakSound, RewardSound, DoneReasonTrue,
                BareAnswerAfterRouting, env, step
  <2>. QED
    BY <2>3, <2>4, <2>5, <2>6 DEF IInv
<1>4. CASE ~(Len(response_mask) + n >= response_length)
  <2>1. /\ pc' = "step" /\ action' \in Actions /\ turn_start' = Len(response_mask)
        /\ UNCHANGED <<env, dispatched, obs_parts, metadata, reward, turns, done_reason,
                       n_route_calls, env_terminal_reward, executed>>
    BY <1>4 DEF Generate
  <2>2. Partition'
    <3>1. settled' = settled
      BY <1>1, <2>1 DEF settled
    <3>. QED
      BY <1>1, <1>2, <2>1, <3>1, PartitionStays DEF IInv
  <2>3. TypeOK'
    <3>1. UNCHANGED <<lazy_allowed, env_max_turns, current_round, done>> /\ turn_start' \in Nat
      BY <1>1, <2>1 DEF env
    <3>. QED
      BY <1>2, <2>1, <3>1 DEF IInv, TypeOK
  <2>4. Playing'
    BY <1>1, <1>2, <1>4, <2>1 DEF IInv, Playing, Generate
  <2>5. SpeakSound'
    BY <2>1 DEF IInv, SpeakSound, Generate, env
  <2>6. RouteSound' /\ SteppedSound' /\ RewardSound' /\ DoneReasonTrue'
    BY <2>1 DEF RouteSound, SteppedSound, RewardSound, DoneReasonTrue
  <2>7. BareAnswerAfterRouting'
    BY <2>1 DEF IInv, SpeakSound, Generate, BareAnswerAfterRouting
  <2>. QED
    BY <2>2, <2>3, <2>4, <2>5, <2>6, <2>7 DEF IInv
<1>. QED
  BY <1>3, <1>4

-------------------------------------------------------------------------------
(* The end of a turn. *)

(* What the environment says of a turn has a name in the statistics. *)
LEMMA ActionTypeNamed ==
  ASSUME IInv, pc = "stepped"
  PROVE  /\ ActionType \in ActionTypes
         /\ metadata.final_answer => ActionType \in {"final", "lazy"}
<1>1. CASE metadata.format_error
  BY <1>1 DEF IInv, SteppedSound, ActionType, ActionTypes
<1>2. CASE ~metadata.format_error /\ metadata.timeout
  BY <1>2 DEF IInv, SteppedSound, ActionType, ActionTypes
<1>3. CASE ~metadata.format_error /\ ~metadata.timeout /\ metadata.final_answer
  BY <1>3 DEF ActionType, ActionTypes
<1>4. CASE ~metadata.format_error /\ ~metadata.timeout /\ ~metadata.final_answer
  <2>1. metadata.n_routes > 0
    BY <1>4 DEF IInv, SteppedSound, HasRoute
  <2>. QED
    BY <1>4, <2>1 DEF ActionType, ActionTypes
<1>. QED
  BY <1>1, <1>2, <1>3, <1>4

(* The span of the turn is credited; observations follow. *)
LEMMA TurnCredited ==
  ASSUME IInv, pc = "stepped", CreditTurn, settled' \in Nat,
         settled' >= Len(response_mask),
         \A i \in 1..Len(response_mask) : response_mask'[i] = response_mask[i],
         \A i \in (Len(response_mask) + 1)..settled' : response_mask'[i] = 0
  PROVE  /\ Partition' /\ turns' \in Seq(Span)
         /\ Len(turns') = Len(turns) + 1 /\ Len(turns) \in Nat
         /\ turns'[Len(turns')].end = Len(response_mask)
         /\ turns'[Len(turns')].type = ActionType
<1>1. /\ Len(response_mask) \in Nat /\ settled = turn_start /\ settled \in Nat
      /\ settled < Len(response_mask) /\ Len(response_mask) < response_length
      /\ \A i \in (settled + 1)..Len(response_mask) : response_mask[i] = 1
      /\ turns \in Seq(Span) /\ Len(turns) \in Nat
  BY SettledType DEF IInv, TypeOK, Playing, settled
<1>2. turns' = Credit(settled, Len(response_mask), ActionType)
  BY <1>1 DEF CreditTurn, Least
<1>3. ActionType \in ActionTypes
  BY ActionTypeNamed
<1>4. Partition' /\ turns' \in Seq(Span)
  BY <1>1, <1>2, <1>3, PartitionGrows DEF IInv
<1>5. /\ Len(turns') = Len(turns) + 1
      /\ turns'[Len(turns) + 1]
           = [start |-> settled, end |-> Len(response_mask), type |-> ActionType]
  <2> DEFINE last == Len(response_mask)
             type == ActionType
  <2>1. settled \in Nat /\ last \in Nat /\ settled < last /\ turns \in Seq(Span)
    BY <1>1
  <2>2. type \in ActionTypes /\ turns' = Credit(settled, last, type)
    BY <1>2, <1>3
  <2> HIDE DEF last, type
  <2>3. /\ Len(turns') = Len(turns) + 1
        /\ turns'[Len(turns) + 1] = [start |-> settled, end |-> last, type |-> type]
    BY <2>1, <2>2, NewSpan
  <2>. QED
    BY <2>3 DEF last, type
<1>6. turns'[Len(turns')] = [start |-> settled, end |-> Len(response_mask), type |-> ActionType]
  BY <1>5
<1>7. turns'[Len(turns')].end = Len(response_mask) /\ turns'[Len(turns')].type = ActionType
  BY <1>6
<1>. QED
  BY <1>1, <1>4, <1>5, <1>7

LEMMA FinishInv == ASSUME IInv, Finish PROVE IInv'
<1>1. /\ response_mask' = response_mask /\ Len(response_mask) \in Nat
      /\ Len(response_mask) > 0 /\ response_mask[Len(response_mask)] = 1
      /\ Len(response_mask) < response_length
  BY DEF Finish, IInv, TypeOK, Playing
<1>2. settled' = Len(response_mask)
  BY <1>1 DEF Finish, settled, resp_len, Least
<1>3. /\ Partition' /\ turns' \in Seq(Span)
      /\ Len(turns') = Len(turns) + 1 /\ Len(turns) \in Nat
      /\ turns'[Len(turns')].end = Len(response_mask)
      /\ turns'[Len(turns')].type = ActionType
  BY <1>1, <1>2, TurnCredited DEF Finish
<1>4. DoneReason \in {"final", "lazy", "format_error", "timeout"}
      /\ (DoneReason \in {"final", "lazy"} <=> metadata.final_answer)
  BY DEF Finish, IInv, SteppedSound, DoneReason
<1>5. TypeOK'
  <2>1. n_route_calls' \in Nat
    BY DEF Finish, IInv, TypeOK, Metadata
  <2>2. done_reason' \in (ActionTypes \ {"route", "repair"})
    BY <1>4 DEF Finish, ActionTypes
  <2>. QED
    BY <1>3, <2>1, <2>2 DEF Finish, IInv, TypeOK, env, step
<1>6. Playing' /\ SpeakSound' /\ RouteSound' /\ SteppedSound'
  BY DEF Finish, Playing, SpeakSound, RouteSound, SteppedSound
<1>7. RewardSound'
  <2> SUFFICES ASSUME reward > 0
               PROVE  turns' # <<>> /\ turns'[Len(turns')].type \in {"final", "lazy"}
    BY <1>1, <1>3 DEF Finish, RewardSound
  <2>1. metadata.final_answer
    BY DEF Finish, IInv, SteppedSound
  <2>. QED
    BY <1>3, <2>1, ActionTypeNamed DEF Finish
<1>8. DoneReasonTrue' /\ BareAnswerAfterRouting'
  BY <1>4 DEF Finish, IInv, DoneReasonTrue, BareAnswerAfterRouting, HasRoute, env, step
<1>. QED
  BY <1>3, <1>5, <1>6, <1>7, <1>8 DEF IInv

LEMMA ObserveInv ==
  ASSUME IInv, NEW n \in 1..MaxTokens, Observe(n)
  PROVE  IInv'
<1>1. /\ response_mask \in Seq({0, 1}) /\ Len(response_mask) \in Nat
      /\ Len(response_mask) < response_length
  BY DEF Observe, IInv, TypeOK, Playing
<1>2. /\ response_mask' \in Seq({0, 1})
      /\ Len(response_mask') = Len(response_mask) + n
      /\ \A i \in 1..Len(response_mask) : response_mask'[i] = response_mask[i]
      /\ \A i \in (Len(response_mask) + 1)..(Len(response_mask) + n) :
           response_mask'[i] = 0
  <2>1. Extends(response_mask \o Tokens(n, 0), response_mask, n, 0)
    <3>1. n \in Nat /\ 0 \in {0, 1}
      OBVIOUS
    <3>. QED
      BY <1>1, <3>1, MoreTokens
  <2>2. response_mask' = response_mask \o Tokens(n, 0)
    BY DEF Observe
  <2>3. Extends(response_mask', response_mask, n, 0)
    BY <2>1, <2>2
  <2>. QED
    BY <2>3 DEF Extends
<1>3. /\ settled' \in Nat /\ settled' >= Len(response_mask)
      /\ settled' <= Len(response_mask) + n
  BY <1>1, <1>2 DEF Observe, settled, resp_len, Least
<1>4. Partition' /\ turns' \in Seq(Span)
  BY <1>1, <1>2, <1>3, TurnCredited DEF Observe
<1>5. TypeOK'
  <2>1. n_route_calls' \in Nat
    BY DEF Observe, IInv, TypeOK, Metadata
  <2>2. done_reason' \in (ActionTypes \ {"route", "repair"})
                          \cup {"max_turns", "empty_generation", "done"}
    BY DEF Observe, IInv, TypeOK, ActionTypes
  <2>. QED
    BY <1>2, <1>4, <2>1, <2>2 DEF Observe, IInv, TypeOK, env, step
<1>6. ~metadata.final_answer /\ ~done
  BY DEF Observe, IInv, SteppedSound
<1>7. Playing'
  BY <1>1, <1>2 DEF Observe, IInv, Playing
<1>8. SpeakSound' /\ RouteSound' /\ SteppedSound'
  BY <1>6 DEF Observe, IInv, SteppedSound, SpeakSound, RouteSound, HasRoute, env, step
<1>9. RewardSound' /\ DoneReasonTrue' /\ BareAnswerAfterRouting'
  BY <1>6 DEF Observe, IInv, Playing, RewardSound, DoneReasonTrue,
              BareAnswerAfterRouting, env, step
<1>. QED
  BY <1>4, <1>5, <1>7, <1>8, <1>9 DEF IInv

LEMMA NextInv == IInv /\ [Next]_vars => IInv'
<1> SUFFICES ASSUME IInv, [Next]_vars PROVE IInv'
  OBVIOUS
<1>1. CASE Env
  BY <1>1, StepInvalidInv, StepAnswerInv, StepRoutesInv, RouteRefusedInv,
     RouteStartInv, RouteTimedOutInv, StepEndInv DEF Env
<1>2. CASE RouteDone
  BY <1>2, RouteDoneInv
<1>3. CASE Loop
  BY <1>3, EmptyGenerationInv, OutOfTurnsInv, FinishInv, GenerateInv, ObserveInv DEF Loop
<1>4. CASE UNCHANGED vars
  <2>1. UNCHANGED <<rollout, pc, settled, response_mask, turns>>
    BY <1>4 DEF vars, rollout, settled, resp_len
  <2>2. Partition'
    BY <2>1, PartitionStays DEF IInv
  <2>3. TypeOK' /\ Playing' /\ RewardSound' /\ DoneReasonTrue'
    BY <1>4 DEF IInv, vars, env, step, rollout, TypeOK, Playing, RewardSound,
                DoneReasonTrue
  <2>4. SpeakSound' /\ RouteSound' /\ SteppedSound' /\ BareAnswerAfterRouting'
    BY <1>4 DEF IInv, vars, env, step, rollout, SpeakSound, RouteSound, SteppedSound,
                BareAnswerAfterRouting, HasRoute
  <2>. QED
    BY <2>2, <2>3, <2>4 DEF IInv
<1>. QED
  BY <1>1, <1>2, <1>3, <1>4 DEF Next

-------------------------------------------------------------------------------
(* What follows from the invariant. *)

(* The inductive invariant holds of every episode. *)
THEOREM Invariance == Spec => []IInv
BY InitInv, NextInv, PTL DEF Spec

(* Every variable keeps its shape: each turn has a name, none is left in   *)
(* the "done" or "other" bucket.                                           *)
THEOREM TypeCorrect == Spec => []TypeOK
<1>1. IInv => TypeOK
  BY DEF IInv
<1>. QED
  BY <1>1, Invariance, PTL

(* Whatever the turns, routes and cuts: the spans handed to the trainer    *)
(* partition the policy tokens of the response.                            *)
THEOREM Tokens_Credited == Spec => []TokensCredited
<1>1. IInv => TokensCredited
  BY DEF IInv, Partition, TokensCredited, settled
<1>. QED
  BY <1>1, Invariance, PTL

(* The last policy token is the maximum CHOOSE picks. *)
LEMMA LastToken ==
  ASSUME response_mask \in Seq({0, 1}), Len(response_mask) > 0,
         response_mask[Len(response_mask)] = 1, Len(response_mask) < response_length
  PROVE  last_pos = Len(response_mask)
<1> DEFINE last == Len(response_mask)
           policy == {i \in 1..resp_len : response_mask_out[i] = 1}
<1>1. last \in Nat /\ resp_len = last
  BY DEF resp_len, Least
<1>2. response_mask_out = response_mask
  BY <1>1 DEF response_mask_out
<1>3. last \in policy /\ \A j \in policy : j <= last
  BY <1>1, <1>2
<1>4. \A i \in policy : (\A j \in policy : j <= i) => i = last
  BY <1>1, <1>3
<1>5. (CHOOSE i \in policy : \A j \in policy : j <= i) = last
  BY <1>3, <1>4
<1>. QED
  BY <1>3, <1>5 DEF last_pos

(* A positive reward lands on the last token of the answer, uncut. *)
THEOREM Reward_OnAnswer == Spec => []RewardOnAnswer
<1>1. IInv => RewardOnAnswer
  BY LastToken DEF IInv, TypeOK, RewardSound, RewardOnAnswer
<1>. QED
  BY <1>1, Invariance, PTL

(* The policy never speaks while a route of its last turn is unanswered. *)
THEOREM Every_RouteAnswered == Spec => []EveryRouteAnswered
<1>1. IInv => EveryRouteAnswered
  BY DEF IInv, SpeakSound, EveryRouteAnswered
<1>. QED
  BY <1>1, Invariance, PTL

(* The reason that is reported is what happened. *)
THEOREM DoneReason_True == Spec => []DoneReasonTrue
<1>1. IInv => DoneReasonTrue
  BY DEF IInv
<1>. QED
  BY <1>1, Invariance, PTL

(* A bare answer of a source that must route comes after a routed turn. *)
THEOREM BareAnswer_AfterRouting == Spec => []BareAnswerAfterRouting
<1>1. IInv => BareAnswerAfterRouting
  BY DEF IInv
<1>. QED
  BY <1>1, Invariance, PTL
===============================================================================
