----------------------------- MODULE RouteHarness -----------------------------
(***************************************************************************)
(* RouteHarness.run_route of uno_orchestor/routing/uno/harness.py, the     *)
(* thread pool behind it, the order in which run_primitive asks the        *)
(* backends and the composed skills of skills/default.py.                  *)
(*                                                                         *)
(* Callers are the threads of env.step.  A call that is timed out stays in *)
(* the pool: its future is not cancelled, and its thread is held until the *)
(* backend comes back, if it ever does.                                    *)
(*                                                                         *)
(* Abstractions.  Queries and texts are left out.  The result of a         *)
(* primitive is whether it is an error, whether a worker model was paid    *)
(* for it (1 token) and whether the execution it asked for timed out.      *)
(* Only the primitives the skills use are told apart, with "reason" for    *)
(* those that only a worker model knows.                                   *)
(***************************************************************************)
EXTENDS Naturals, Sequences, FiniteSets, SequencesExt

CONSTANTS Callers,
          PoolSize,   \* timeout_pool_size
          MaxCalls,   \* bound: routes of one caller
          None        \* nothing yet

Skills == {"symbolic_math", "extract_field", "fact_check", "reason",
           "execute_python"}

(* What the recipes of the skills are made of. *)
Primitives == Skills \cup {"parse_structured", "web_search"}

ASSUME HarnessAssumption ==
  /\ IsFiniteSet(Callers)
  /\ PoolSize \in Nat \ {0} /\ MaxCalls \in Nat
  /\ None \notin Primitives

VARIABLES
  calls,      \* how many routes each caller has run so far
  waiting,    \* the callers that block in fut.result
  work,       \* the queue of the pool, of calls
  fut,        \* each call: "none", "queued", "running" or "done"
  skill,      \* each call: the skill of its route
  parts,      \* each call: the results of its primitives so far
  asked,      \* each call: backends asked for the current primitive
  returned    \* each call: what run_route gave back

vars == <<calls, waiting, work, fut, skill, parts, asked, returned>>

-------------------------------------------------------------------------------
Calls == Callers \X (1..MaxCalls)

Results == [error : BOOLEAN, tokens : Nat, timed_out : BOOLEAN]

(* Results of one primitive, which a worker was paid for or not. *)
Parts == [error : BOOLEAN, tokens : {0, 1}, timed_out : BOOLEAN]

TimedOut == [error |-> TRUE, tokens |-> 0, timed_out |-> TRUE]

(* self.backends: the local one, then the worker models. *)
Backends == <<"local", "langchain_subagent">>

(* What run of a backend may return besides None.  The local backend knows *)
(* few primitives, and errors, a timeout among them, come from execution;  *)
(* a worker model may answer with a text that reads like an error.         *)
AnswersOf(backend, primitive) ==
  CASE backend = "local" /\ primitive = "execute_python" ->
         [error : {TRUE}, tokens : {0}, timed_out : BOOLEAN]
           \cup [error : {FALSE}, tokens : {0}, timed_out : {FALSE}]
    [] backend = "local" /\ primitive # "execute_python" ->
         IF primitive \in {"symbolic_math", "extract_field", "parse_structured"}
         THEN [error : {FALSE}, tokens : {0}, timed_out : {FALSE}] ELSE {}
    [] backend = "langchain_subagent" ->
         [error : BOOLEAN, tokens : {1}, timed_out : {FALSE}]

-------------------------------------------------------------------------------
(* The composed skills: the primitive that comes next, None at the end. *)

Ok(r) == ~r.error

NextPrimitive(s, p) ==
  CASE s = "symbolic_math" ->
         IF p = <<>> THEN "symbolic_math"
         ELSE IF Len(p) = 1 /\ Ok(p[1]) THEN "execute_python" ELSE None
    [] s = "extract_field" ->
         IF p = <<>> THEN "parse_structured"
         ELSE IF Len(p) = 1 \/ (Len(p) = 2 /\ Ok(p[1]) /\ ~Ok(p[2]))
              THEN "extract_field" ELSE None
    [] s = "fact_check" ->
         IF p = <<>> THEN "web_search"
         ELSE IF Len(p) = 1 THEN "fact_check" ELSE None
    [] OTHER -> IF p = <<>> THEN s ELSE None

(* The tokens of all parts, each of which has cost one or none. *)
Paid(p) == {i \in 1..Len(p) : p[i].tokens = 1}
Sum(p) == Cardinality(Paid(p))

(* A bug the code does not have: the tokens of the last part only. *)
Combine_LastOnly(p) ==
  [error |-> FALSE, tokens |-> Last(p).tokens, timed_out |-> FALSE]

(* _combine *)
Combine(p) == [error |-> FALSE, tokens |-> Sum(p),
               timed_out |-> \E i \in 1..Len(p) : p[i].timed_out]

(* A bug the code does not have: whatever comes last is the result. *)
SkillResult_Last(s, p) ==
  IF \A i \in 1..Len(p) : Ok(p[i]) THEN Combine(p) ELSE Last(p)

(* What skill.run returns after its last primitive: all parts combined, or *)
(* the part it falls back to: the exact result without its check, the      *)
(* direct extraction, the evidence without the verdict.                    *)
SkillResult(s, p) ==
  IF \A i \in 1..Len(p) : Ok(p[i]) THEN Combine(p)
  ELSE IF s = "symbolic_math" \/ (s = "fact_check" /\ Ok(p[1])) THEN p[1]
  ELSE Last(p)

-------------------------------------------------------------------------------
Init ==
  /\ calls = [c \in Callers |-> 0]
  /\ waiting = {}
  /\ work = <<>>
  /\ fut = [k \in Calls |-> "none"]
  /\ skill = [k \in Calls |-> None]
  /\ parts = [k \in Calls |-> <<>>]
  /\ asked = [k \in Calls |-> 0]
  /\ returned = [k \in Calls |-> None]

Current(c) == <<c, calls[c]>>

(* run_route validates the route and submits it. *)
RunRoute(c) ==
  /\ c \notin waiting
  /\ calls[c] < MaxCalls
  /\ calls' = [calls EXCEPT ![c] = @ + 1]
  /\ waiting' = waiting \cup {c}
  /\ LET k == <<c, calls[c] + 1>>
     IN  /\ \E s \in Skills : skill' = [skill EXCEPT ![k] = s]
         /\ fut' = [fut EXCEPT ![k] = "queued"]
         /\ work' = Append(work, k)
  /\ UNCHANGED <<parts, asked, returned>>

Running == {k \in Calls : fut[k] = "running"}

(* A bug the code does not have: the thread of a call that was timed out   *)
(* counts as free.                                                         *)
ThreadStarts_ZombiesFree ==
  /\ Cardinality({k \in Running : returned[k] = None}) < PoolSize
  /\ work # <<>>
  /\ fut' = [fut EXCEPT ![Head(work)] = "running"]
  /\ work' = Tail(work)
  /\ UNCHANGED <<calls, waiting, skill, parts, asked, returned>>

(* A free thread of the pool takes the oldest call. *)
ThreadStarts ==
  /\ Cardinality(Running) < PoolSize
  /\ work # <<>>
  /\ fut' = [fut EXCEPT ![Head(work)] = "running"]
  /\ work' = Tail(work)
  /\ UNCHANGED <<calls, waiting, skill, parts, asked, returned>>

Primitive(k) == NextPrimitive(skill[k], parts[k])

(* A primitive has its result; the skill goes on or the future is done. *)
PrimitiveReturns(k, r) ==
  /\ parts' = [parts EXCEPT ![k] = Append(@, r)]
  /\ asked' = [asked EXCEPT ![k] = 0]
  /\ fut' = IF NextPrimitive(skill[k], Append(parts[k], r)) = None
            THEN [fut EXCEPT ![k] = "done"] ELSE fut

(* The next backend answers, with a result or an error text. *)
BackendAnswers(k) ==
  /\ fut[k] = "running" /\ asked[k] < Len(Backends)
  /\ \E r \in AnswersOf(Backends[asked[k] + 1], Primitive(k)) :
       PrimitiveReturns(k, r)
  /\ UNCHANGED <<calls, waiting, work, skill, returned>>

(* It returns None or raises; the one after it is asked. *)
BackendFails(k) ==
  /\ fut[k] = "running" /\ asked[k] < Len(Backends)
  /\ asked' = [asked EXCEPT ![k] = @ + 1]
  /\ UNCHANGED <<calls, waiting, work, fut, skill, parts, returned>>

(* primitive_backend_failed or primitive_backend_not_configured *)
NoBackend(k) ==
  /\ fut[k] = "running" /\ asked[k] = Len(Backends)
  /\ PrimitiveReturns(k, [error |-> TRUE, tokens |-> 0, timed_out |-> FALSE])
  /\ UNCHANGED <<calls, waiting, work, skill, returned>>

(* fut.result returns. *)
Return(c) ==
  /\ c \in waiting
  /\ fut[Current(c)] = "done"
  /\ returned' = [returned EXCEPT ![Current(c)] =
                    SkillResult(skill[Current(c)], parts[Current(c)])]
  /\ waiting' = waiting \ {c}
  /\ UNCHANGED <<calls, work, fut, skill, parts, asked>>

(* A bug the code does not have: the clock starts with the thread. *)
HardTimeout_WhenRunning(c) ==
  /\ c \in waiting
  /\ fut[Current(c)] = "running"
  /\ returned' = [returned EXCEPT ![Current(c)] = TimedOut]
  /\ waiting' = waiting \ {c}
  /\ UNCHANGED <<calls, work, fut, skill, parts, asked>>

(* fut.result times out, counted from the submission; the call goes on. *)
HardTimeout(c) ==
  /\ c \in waiting
  /\ fut[Current(c)] # "done"
  /\ returned' = [returned EXCEPT ![Current(c)] = TimedOut]
  /\ waiting' = waiting \ {c}
  /\ UNCHANGED <<calls, work, fut, skill, parts, asked>>

Threads ==
  \/ ThreadStarts
  \/ \E k \in Calls : BackendAnswers(k) \/ BackendFails(k) \/ NoBackend(k)

Next == Threads \/ \E c \in Callers : RunRoute(c) \/ Return(c) \/ HardTimeout(c)

Spec == Init /\ [][Next]_vars

(* Time passes for every caller that waits.  Nothing is assumed of the     *)
(* backends: one that hangs holds its thread for good.                     *)
FairSpec == Spec /\ \A c \in Callers : WF_vars(Return(c) \/ HardTimeout(c))

-------------------------------------------------------------------------------
(* The shape of every variable, and the size of the pool. *)
TypeOK ==
  /\ calls \in [Callers -> 0..MaxCalls]
  /\ waiting \subseteq Callers
  /\ work \in Seq(Calls)
  /\ fut \in [Calls -> {"none", "queued", "running", "done"}]
  /\ skill \in [Calls -> Skills \cup {None}]
  /\ parts \in [Calls -> Seq(Parts)]
  /\ asked \in [Calls -> 0..Len(Backends)]
  /\ returned \in [Calls -> Results \cup {None}]
  /\ Cardinality(Running) <= PoolSize

(* The caller has an answer that does not end its episode. *)
Answered(k) == returned[k] # None /\ ~returned[k].timed_out

(* A call whose primitives all succeeded reports every token a worker      *)
(* spent on it, and no call ever reports more than was spent.              *)
TokensReported ==
  \A k \in Calls : Answered(k) =>
    /\ returned[k].tokens <= Sum(parts[k])
    /\ (\A i \in 1..Len(parts[k]) : Ok(parts[k][i])) =>
         returned[k].tokens = Sum(parts[k])

(* Primitives a recipe runs for support; they are no answer on their own. *)
Auxiliary == {"execute_python", "parse_structured"}

(* A skill falls back as far as it can: the caller gets an error only if   *)
(* every primitive of the recipe that answers the query has failed.        *)
ErrorMeansNoAnswer ==
  \A k \in Calls : (Answered(k) /\ returned[k].error) =>
    \A i \in 1..Len(parts[k]) :
      \/ ~Ok(parts[k][i])
      \/ NextPrimitive(skill[k], SubSeq(parts[k], 1, i - 1)) \in Auxiliary

(* The inductive invariant behind these.  The calls of a caller begin one  *)
(* after the other, and it waits for the last of them.                     *)
CallSound ==
  /\ \A c \in Callers, i \in 1..MaxCalls : fut[<<c, i>>] = "none" <=> i > calls[c]
  /\ \A c \in waiting : calls[c] > 0

(* The queue holds each call that no thread has taken at most once. *)
WorkSound ==
  /\ \A i \in 1..Len(work) : fut[work[i]] = "queued"
  /\ \A i, j \in 1..Len(work) : work[i] = work[j] => i = j

(* How far a recipe may have come. *)
Shape(s, p) ==
  /\ Len(p) <= 3
  /\ s = "symbolic_math" => Len(p) <= 2 /\ (Len(p) = 2 => Ok(p[1]))
  /\ s = "extract_field" => (Len(p) = 3 => Ok(p[1]) /\ ~Ok(p[2]))
  /\ s = "fact_check" => Len(p) <= 2
  /\ s \in {"reason", "execute_python"} => Len(p) <= 1

(* A call follows the recipe of its skill, to the end if it is done. *)
RecipeSound ==
  \A k \in Calls :
    /\ fut[k] = "none" => returned[k] = None
    /\ fut[k] # "none" => skill[k] \in Skills
    /\ fut[k] \in {"none", "queued"} => parts[k] = <<>>
    /\ fut[k] = "running" => Primitive(k) # None
    /\ fut[k] = "done" => Primitive(k) = None
    /\ Shape(skill[k], parts[k])

(* What the caller has is the result of the finished recipe, or a timeout. *)
ReturnSound ==
  \A k \in Calls :
    \/ returned[k] = None
    \/ returned[k] = TimedOut
    \/ fut[k] = "done" /\ returned[k] = SkillResult(skill[k], parts[k])

IInv == TypeOK /\ CallSound /\ WorkSound /\ RecipeSound /\ ReturnSound

(* However many threads hung backends hold, also all of them, every        *)
(* run_route returns.                                                      *)
RunRouteReturns == \A c \in Callers : c \in waiting ~> c \notin waiting

===============================================================================
