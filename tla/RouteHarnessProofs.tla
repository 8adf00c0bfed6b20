-------------------------- MODULE RouteHarnessProofs --------------------------
(***************************************************************************)
(* The answers of run_route, for every number of callers, of routes, and   *)
(* of threads in the pool, whatever the backends do and however late.      *)
(***************************************************************************)
EXTENDS RouteHarness, SequenceTheorems, FiniteSetTheorems, TLAPS

USE HarnessAssumption

-------------------------------------------------------------------------------
(* Recipes and their results. *)

LEMMA LongerParts ==
  ASSUME NEW p \in Seq(Parts), NEW r \in Parts
  PROVE  /\ Append(p, r) \in Seq(Parts) /\ Append(p, r) # <<>>
         /\ Len(p) \in Nat /\ Len(Append(p, r)) = Len(p) + 1
         /\ Append(p, r)[Len(p) + 1] = r
         /\ \A i \in 1..Len(p) : Append(p, r)[i] = p[i] /\ p[i] \in Parts
OBVIOUS

LEMMA PartsLength ==
  ASSUME NEW p \in Seq(Parts)
  PROVE  Len(p) \in Nat /\ (Len(p) = 0 <=> p = <<>>)
BY EmptySeq

LEMMA FewParts ==
  \A n \in Nat : /\ n # 0 /\ n <= 1 => n = 1
                 /\ n # 0 /\ n <= 2 => n = 1 \/ n = 2
                 /\ n # 0 /\ n <= 3 => n = 1 \/ n = 2 \/ n = 3
OBVIOUS

LEMMA FewPositions ==
  \A i : /\ i \in 1..1 => i = 1
         /\ i \in 1..2 => i = 1 \/ i = 2
         /\ i \in 1..3 => i = 1 \/ i = 2 \/ i = 3
OBVIOUS

LEMMA Bounds == 1 <= 1 /\ 1 <= 2 /\ 1 <= 3 /\ 2 <= 2 /\ 2 <= 3 /\ 3 <= 3
OBVIOUS

(* An answer of a backend is the result of one primitive. *)
LEMMA AnswerType ==
  ASSUME NEW n \in 0..1, NEW q, NEW r \in AnswersOf(Backends[n + 1], q)
  PROVE  r \in Parts
<1>1. n = 0 \/ n = 1
  OBVIOUS
<1>2. Backends[1] = "local" /\ Backends[2] = "langchain_subagent"
  BY DEF Backends
<1>3. CASE n = 0
  <2>1. r \in AnswersOf("local", q)
    BY <1>2, <1>3
  <2>. QED
    BY <2>1 DEF AnswersOf, Parts
<1>4. CASE n = 1
  <2>1. r \in AnswersOf("langchain_subagent", q)
    BY <1>2, <1>4
  <2>. QED
    BY <2>1 DEF AnswersOf, Parts
<1>. QED
  BY <1>1, <1>3, <1>4

(* A recipe starts with some primitive, and goes on as it may. *)
LEMMA RecipeStarts ==
  /\ \A s : Shape(s, <<>>)
  /\ \A s \in Skills : NextPrimitive(s, <<>>) # None
BY DEF Shape, NextPrimitive, Primitives, Skills

LEMMA RecipeGoesOn ==
  ASSUME NEW s \in Skills, NEW p \in Seq(Parts), NEW r \in Parts,
         Shape(s, p), NextPrimitive(s, p) # None
  PROVE  Shape(s, Append(p, r))
<1>. DEFINE q == Append(p, r)
<1>1. /\ Len(p) \in Nat /\ (Len(p) = 0 <=> p = <<>>)
      /\ Len(p) = 0 => Len(q) = 1
      /\ Len(p) = 1 => Len(q) = 2
      /\ Len(p) = 2 => Len(q) = 3
      /\ Len(p) = 1 \/ Len(p) = 2 => q[1] = p[1]
      /\ Len(p) = 2 => q[2] = p[2]
  <2>1. /\ Len(p) \in Nat /\ Len(q) = Len(p) + 1
        /\ \A i \in 1..Len(p) : q[i] = p[i]
    BY LongerParts
  <2>2. 1 \in 1..1 /\ 1 \in 1..2 /\ 2 \in 1..2 /\ 0 + 1 = 1 /\ 1 + 1 = 2 /\ 2 + 1 = 3
    OBVIOUS
  <2>. HIDE DEF q
  <2>. QED
    BY <2>1, <2>2, PartsLength
<1>. SUFFICES Shape(s, q)
  OBVIOUS
<1>. HIDE DEF q
<1>2. CASE s = "symbolic_math"
  <2>1. Len(p) = 0 \/ (Len(p) = 1 /\ Ok(p[1]))
    BY <1>1, <1>2 DEF NextPrimitive
  <2>2. CASE Len(p) = 0
    <3>1. Len(q) = 1
      BY <1>1, <2>2
    <3>. QED
      BY <1>2, <3>1, Bounds DEF Shape
  <2>3. CASE Len(p) = 1 /\ Ok(p[1])
    <3>1. Len(q) = 2 /\ q[1] = p[1]
      BY <1>1, <2>3
    <3>2. Ok(q[1])
      BY <2>3, <3>1
    <3>. QED
      BY <1>2, <3>1, <3>2, Bounds DEF Shape
  <2>. QED
    BY <2>1, <2>2, <2>3
<1>3. CASE s = "extract_field"
  <2>1. \/ Len(p) = 0 \/ Len(p) = 1
        \/ Len(p) = 2 /\ Ok(p[1]) /\ ~Ok(p[2])
    BY <1>1, <1>3 DEF NextPrimitive
  <2>2. CASE Len(p) = 0 \/ Len(p) = 1
    <3>1. Len(q) = 1 \/ Len(q) = 2
      BY <1>1, <2>2
    <3>. QED
      BY <1>3, <3>1, Bounds DEF Shape
  <2>3. CASE Len(p) = 2 /\ Ok(p[1]) /\ ~Ok(p[2])
    <3>1. Len(q) = 3 /\ q[1] = p[1] /\ q[2] = p[2]
      BY <1>1, <2>3
    <3>2. Ok(q[1]) /\ ~Ok(q[2])
      BY <2>3, <3>1
    <3>. QED
      BY <1>3, <3>1, <3>2, Bounds DEF Shape
  <2>. QED
    BY <2>1, <2>2, <2>3
<1>4. CASE s = "fact_check"
  <2>1. Len(p) = 0 \/ Len(p) = 1
    BY <1>1, <1>4 DEF NextPrimitive
  <2>. QED
    BY <1>1, <1>4, <2>1, Bounds DEF Shape
<1>5. CASE s \in {"reason", "execute_python"}
  <2>1. Len(p) = 0
    BY <1>1, <1>5 DEF NextPrimitive
  <2>. QED
    BY <1>1, <1>5, <2>1, Bounds DEF Shape
<1>. QED
  BY <1>2, <1>3, <1>4, <1>5 DEF Skills

(* No single part costs more than all of them. *)
LEMMA PartPaid ==
  ASSUME NEW p \in Seq(Parts)
  PROVE  /\ Sum(p) \in Nat
         /\ \A i \in 1..Len(p) : p[i].tokens <= Sum(p)
<1>1. IsFiniteSet(1..Len(p))
  BY FS_Interval, PartsLength
<1>2. Paid(p) \in SUBSET (1..Len(p))
  BY DEF Paid
<1>3. IsFiniteSet(Paid(p)) /\ Sum(p) \in Nat
  BY <1>1, <1>2, FS_Subset, FS_CardinalityType DEF Sum
<1>4. ASSUME NEW i \in 1..Len(p) PROVE p[i].tokens <= Sum(p)
  <2>1. p[i] \in Parts
    BY PartsLength
  <2>3. p[i].tokens \in {0, 1}
    BY <2>1 DEF Parts
  <2>2. CASE p[i].tokens = 1
    <3>1. {i} \in SUBSET Paid(p)
      BY <2>2 DEF Paid
    <3>2. Cardinality({i}) = 1
      BY FS_Singleton
    <3>3. Cardinality({i}) <= Cardinality(Paid(p))
      BY <1>3, <3>1, FS_Subset
    <3>. QED
      BY <1>3, <2>2, <3>2, <3>3 DEF Sum
  <2>. QED
    BY <1>3, <2>3, <2>2
<1>. QED
  BY <1>3, <1>4

LEMMA LastPart ==
  ASSUME NEW p \in Seq(Parts), p # <<>>
  PROVE  /\ Len(p) \in 1..Len(p) /\ 1 \in 1..Len(p)
         /\ Last(p) = p[Len(p)] /\ Last(p) \in Parts /\ p[1] \in Parts
<1>1. Len(p) \in Nat /\ Len(p) # 0
  BY PartsLength
<1>. QED
  BY <1>1 DEF Last

(* What a finished recipe returns. *)
LEMMA ResultOf ==
  ASSUME NEW s, NEW p \in Seq(Parts), p # <<>>
  PROVE  /\ SkillResult(s, p) \in Results
         /\ SkillResult(s, p).tokens <= Sum(p)
         /\ (\A i \in 1..Len(p) : Ok(p[i])) => SkillResult(s, p).tokens = Sum(p)
<1>1. CASE \A i \in 1..Len(p) : Ok(p[i])
  <2>1. SkillResult(s, p) = Combine(p)
    BY <1>1 DEF SkillResult
  <2>2. Combine(p) \in Results /\ Combine(p).tokens = Sum(p)
    BY PartPaid DEF Combine, Results
  <2>. QED
    BY <2>1, <2>2, PartPaid
<1>2. CASE ~ \A i \in 1..Len(p) : Ok(p[i])
  <2>1. SkillResult(s, p) = p[1] \/ SkillResult(s, p) = p[Len(p)]
    BY <1>2, LastPart DEF SkillResult
  <2>2. \A r \in Parts : r \in Results
    BY DEF Parts, Results
  <2>. QED
    BY <1>2, <2>1, <2>2, LastPart, PartPaid
<1>. QED
  BY <1>1, <1>2

(* It is an error only if the primitives that answer have failed. *)
LEMMA ErrorOf ==
  ASSUME NEW s \in Skills, NEW p \in Seq(Parts), p # <<>>, Shape(s, p),
         NextPrimitive(s, p) = None, SkillResult(s, p).error,
         NEW i \in 1..Len(p)
  PROVE  ~Ok(p[i]) \/ NextPrimitive(s, SubSeq(p, 1, i - 1)) \in Auxiliary
<1>1. Len(p) \in Nat /\ Len(p) # 0 /\ Last(p) = p[Len(p)]
  BY PartsLength, LastPart
<1>2. ~ \A j \in 1..Len(p) : Ok(p[j])
  BY DEF SkillResult, Combine
<1>3. CASE s = "symbolic_math"
  <2>1. ~Ok(p[1])
    BY <1>2, <1>3 DEF SkillResult, Ok
  <2>2. Len(p) = 1
    <3>1. Len(p) <= 2 /\ Len(p) # 2
      BY <1>3, <2>1 DEF Shape
    <3>. QED
      BY <1>1, <3>1, FewParts
  <2>. QED
    BY <2>1, <2>2
<1>4. CASE s = "fact_check"
  <2>1. Len(p) = 2
    <3>1. Len(p) <= 2
      BY <1>4 DEF Shape
    <3>2. Len(p) # 1
      BY <1>4 DEF NextPrimitive, Primitives, Skills
    <3>. QED
      BY <1>1, <3>1, <3>2, FewParts
  <2>2. ~Ok(p[1])
    BY <1>2, <1>4 DEF SkillResult, Ok
  <2>3. ~Ok(p[2])
    BY <1>1, <1>2, <1>4, <2>1, <2>2 DEF SkillResult, Ok
  <2>. QED
    BY <2>1, <2>2, <2>3
<1>5. CASE s = "extract_field"
  <2>1. ~Ok(p[Len(p)])
    BY <1>1, <1>2, <1>5 DEF SkillResult, Ok
  <2>2. NextPrimitive(s, SubSeq(p, 1, 0)) \in Auxiliary
    <3>1. SubSeq(p, 1, 0) = <<>>
      OBVIOUS
    <3>. QED
      BY <1>5, <3>1 DEF NextPrimitive, Auxiliary
  <2>3. CASE i = 1
    BY <2>2, <2>3
  <2>4. CASE i = Len(p)
    BY <2>1, <2>4
  <2>5. CASE i # 1 /\ i # Len(p)
    <3>1. i = 2 /\ Len(p) = 3
      <4>1. Len(p) <= 3
        BY DEF Shape
      <4>2. Len(p) = 1 \/ Len(p) = 2 \/ Len(p) = 3
        BY <1>1, <4>1, FewParts
      <4>. QED
        BY <2>5, <4>2, FewPositions
    <3>. QED
      BY <1>5, <3>1 DEF Shape
  <2>. QED
    BY <2>3, <2>4, <2>5
<1>6. CASE s \in {"reason", "execute_python"}
  <2>1. Len(p) = 1
    <3>1. Len(p) <= 1
      BY <1>6 DEF Shape
    <3>. QED
      BY <1>1, <3>1, FewParts
  <2>2. ~Ok(p[1])
    BY <1>1, <1>2, <1>6, <2>1 DEF SkillResult, Ok
  <2>. QED
    BY <2>1, <2>2
<1>. QED
  BY <1>3, <1>4, <1>5, <1>6 DEF Skills

-------------------------------------------------------------------------------
(* The calls of a caller and the queue. *)

LEMMA CallsFinite == \A T \in SUBSET Calls : IsFiniteSet(T) /\ Cardinality(T) \in Nat
<1>1. IsFiniteSet(1..MaxCalls)
  BY FS_Interval
<1>2. IsFiniteSet(Calls)
  BY <1>1, FS_Product DEF Calls
<1>. QED
  BY <1>2, FS_Subset, FS_CardinalityType

(* The call a caller waits for. *)
LEMMA WaitingFor ==
  ASSUME TypeOK, CallSound, NEW c \in waiting
  PROVE  c \in Callers /\ Current(c) \in Calls /\ fut[Current(c)] # "none"
<1>1. c \in Callers /\ calls[c] \in 1..MaxCalls
  BY DEF TypeOK, CallSound
<1>2. fut[<<c, calls[c]>>] # "none"
  BY <1>1 DEF CallSound
<1>. QED
  BY <1>1, <1>2 DEF Current, Calls

(* The call a caller makes next. *)
LEMMA NextCall ==
  ASSUME TypeOK, CallSound, NEW c \in Callers, calls[c] < MaxCalls
  PROVE  /\ calls[c] + 1 \in 1..MaxCalls
         /\ <<c, calls[c] + 1>> \in Calls /\ fut[<<c, calls[c] + 1>>] = "none"
<1>1. calls[c] \in Nat /\ calls[c] + 1 \in 1..MaxCalls
  BY DEF TypeOK
<1>. QED
  BY <1>1 DEF CallSound, Calls

(* The oldest call of the queue, and those behind it. *)
LEMMA OldestCall ==
  ASSUME TypeOK, WorkSound, work # <<>>
  PROVE  /\ Head(work) \in Calls /\ fut[Head(work)] = "queued"
         /\ Tail(work) \in Seq(Calls)
         /\ \A i \in 1..Len(Tail(work)) :
              /\ i + 1 \in 1..Len(work) /\ Tail(work)[i] = work[i + 1]
              /\ Tail(work)[i] # Head(work)
<1>1. /\ work \in Seq(Calls) /\ Len(work) \in Nat /\ Len(work) # 0
      /\ Len(Tail(work)) = Len(work) - 1
      /\ Head(work) = work[1] /\ 1 \in 1..Len(work)
  BY EmptySeq DEF TypeOK
<1>2. \A i \in 1..Len(Tail(work)) : i + 1 \in 1..Len(work) /\ Tail(work)[i] = work[i + 1]
  BY <1>1
<1>3. \A i \in 1..Len(Tail(work)) : i + 1 # 1
  BY <1>1
<1>. QED
  BY <1>1, <1>2, <1>3 DEF WorkSound

-------------------------------------------------------------------------------
(* The inductive invariant. *)

LEMMA InitInv == Init => IInv
<1> SUFFICES ASSUME Init PROVE IInv
  OBVIOUS
<1>1. Running = {}
  BY DEF Init, Running
<1>2. TypeOK
  <2>1. work \in Seq(Calls) /\ <<>> \in Seq(Parts) /\ 0 \in 0..Len(Backends)
    BY DEF Init, Backends
  <2>2. Cardinality(Running) <= PoolSize
    BY <1>1, FS_EmptySet
  <2>. QED
    BY <2>1, <2>2 DEF Init, TypeOK
<1>3. CallSound
  BY DEF Init, CallSound, Calls
<1>4. WorkSound
  BY DEF Init, WorkSound
<1>5. RecipeSound
  BY RecipeStarts DEF Init, RecipeSound
<1>6. ReturnSound
  BY DEF Init, ReturnSound
<1>. QED
  BY <1>2, <1>3, <1>4, <1>5, <1>6 DEF IInv

LEMMA RunRouteInv == ASSUME IInv, NEW c \in Callers, RunRoute(c) PROVE IInv'
<1>. DEFINE k == <<c, calls[c] + 1>>
<1>1. PICK s \in Skills : skill' = [skill EXCEPT ![k] = s]
  BY DEF RunRoute
<1>2. /\ calls' = [calls EXCEPT ![c] = calls[c] + 1] /\ waiting' = waiting \cup {c}
      /\ fut' = [fut EXCEPT ![k] = "queued"] /\ work' = Append(work, k)
      /\ UNCHANGED <<parts, asked, returned>>
  BY DEF RunRoute
<1>3. /\ k \in Calls /\ fut[k] = "none" /\ calls[c] + 1 \in 1..MaxCalls
      /\ calls[c] \in Nat
  BY NextCall DEF RunRoute, IInv, TypeOK
<1>4. TypeOK'
  <2>1. Running' = Running
    BY <1>2, <1>3 DEF Running, IInv, TypeOK
  <2>2. work' \in Seq(Calls)
    BY <1>2, <1>3 DEF IInv, TypeOK
  <2>3. calls' \in [Callers -> 0..MaxCalls] /\ waiting' \subseteq Callers
    BY <1>2, <1>3 DEF IInv, TypeOK
  <2>4. /\ fut' \in [Calls -> {"none", "queued", "running", "done"}]
        /\ skill' \in [Calls -> Skills \cup {None}]
    BY <1>1, <1>2 DEF IInv, TypeOK
  <2>. QED
    BY <1>2, <2>1, <2>2, <2>3, <2>4 DEF IInv, TypeOK
<1>5. CallSound'
  <2>1. ASSUME NEW d \in Callers, NEW i \in 1..MaxCalls
        PROVE  fut'[<<d, i>>] = "none" <=> i > calls'[d]
    <3>1. <<d, i>> \in Calls
      BY DEF Calls
    <3>2. fut[<<d, i>>] = "none" <=> i > calls[d]
      BY DEF IInv, CallSound
    <3>3. CASE d = c /\ i = calls[c] + 1
      BY <1>2, <1>3, <3>3 DEF IInv, TypeOK
    <3>4. CASE d = c /\ i # calls[c] + 1
      <4>1. fut'[<<d, i>>] = fut[<<d, i>>]
        BY <1>2, <3>1, <3>4 DEF IInv, TypeOK
      <4>2. calls'[d] = calls[c] + 1
        BY <1>2, <3>4 DEF IInv, TypeOK
      <4>. QED
        BY <1>3, <3>2, <3>4, <4>1, <4>2
    <3>5. CASE d # c
      BY <1>2, <3>1, <3>2, <3>5 DEF IInv, TypeOK
    <3>. QED
      BY <3>3, <3>4, <3>5
  <2>2. ASSUME NEW d \in waiting' PROVE calls'[d] > 0
    BY <1>2, <1>3 DEF IInv, TypeOK, CallSound
  <2>. QED
    BY <2>1, <2>2 DEF CallSound
<1>6. WorkSound'
  <2>1. work \in Seq(Calls) /\ Len(work) \in Nat /\ Len(work') = Len(work) + 1
    BY <1>2, <1>3 DEF IInv, TypeOK
  <2>2. ASSUME NEW i \in 1..Len(work')
        PROVE  \/ i \in 1..Len(work) /\ work'[i] = work[i]
               \/ i = Len(work) + 1 /\ work'[i] = k
    BY <1>2, <1>3, <2>1
  <2>3. ASSUME NEW i \in 1..Len(work)
        PROVE  work[i] \in Calls /\ fut[work[i]] = "queued" /\ work[i] # k
    <3>1. work[i] \in Calls
      BY <2>1
    <3>2. fut[work[i]] = "queued"
      BY DEF IInv, WorkSound
    <3>. HIDE DEF k
    <3>. QED
      BY <1>3, <3>1, <3>2
  <2>4. ASSUME NEW i \in 1..Len(work') PROVE fut'[work'[i]] = "queued"
    <3>1. fut \in [Calls -> {"none", "queued", "running", "done"}]
      BY DEF IInv, TypeOK
    <3>2. fut'[k] = "queued" /\ \A u \in Calls : u # k => fut'[u] = fut[u]
      BY <1>2, <1>3, <3>1
    <3>. HIDE DEF k
    <3>. QED
      BY <2>2, <2>3, <3>2
  <2>5. ASSUME NEW i \in 1..Len(work'), NEW j \in 1..Len(work'), work'[i] = work'[j]
        PROVE  i = j
    BY <2>2, <2>3, <2>5 DEF IInv, WorkSound
  <2>. QED
    BY <2>4, <2>5 DEF WorkSound
<1>7. RecipeSound'
  <2> SUFFICES ASSUME NEW u \in Calls
               PROVE  /\ fut'[u] = "none" => returned'[u] = None
                      /\ fut'[u] # "none" => skill'[u] \in Skills
                      /\ fut'[u] \in {"none", "queued"} => parts'[u] = <<>>
                      /\ fut'[u] = "running" => NextPrimitive(skill'[u], parts'[u]) # None
                      /\ fut'[u] = "done" => NextPrimitive(skill'[u], parts'[u]) = None
                      /\ Shape(skill'[u], parts'[u])
    BY DEF RecipeSound, Primitive
  <2>1. CASE u = k
    <3>1. fut'[u] = "queued" /\ skill'[u] = s /\ parts'[u] = parts[u]
      BY <1>1, <1>2, <1>3, <2>1 DEF IInv, TypeOK
    <3>2. parts[u] = <<>>
      BY <1>3, <2>1 DEF IInv, RecipeSound
    <3>. QED
      BY <3>1, <3>2, RecipeStarts
  <2>2. CASE u # k
    <3>1. UNCHANGED <<fut[u], skill[u], parts[u], returned[u]>>
      BY <1>1, <1>2, <2>2 DEF IInv, TypeOK
    <3>. QED
      BY <3>1 DEF IInv, RecipeSound, Primitive
  <2>. QED
    BY <2>1, <2>2
<1>8. ReturnSound'
  <2> SUFFICES ASSUME NEW u \in Calls
               PROVE  \/ returned'[u] = None \/ returned'[u] = TimedOut
                      \/ fut'[u] = "done" /\ returned'[u] = SkillResult(skill'[u], parts'[u])
    BY DEF ReturnSound
  <2>1. CASE u = k
    BY <1>2, <1>3, <2>1 DEF IInv, RecipeSound
  <2>2. CASE u # k
    <3>1. UNCHANGED <<fut[u], skill[u], parts[u], returned[u]>>
      BY <1>1, <1>2, <2>2 DEF IInv, TypeOK
    <3>. QED
      BY <3>1 DEF IInv, ReturnSound
  <2>. QED
    BY <2>1, <2>2
<1>. QED
  BY <1>4, <1>5, <1>6, <1>7, <1>8 DEF IInv

LEMMA ThreadStartsInv == ASSUME IInv, ThreadStarts PROVE IInv'
<1>. DEFINE h == Head(work)
<1>1. /\ Cardinality(Running) < PoolSize /\ work # <<>>
      /\ fut' = [fut EXCEPT ![h] = "running"] /\ work' = Tail(work)
      /\ UNCHANGED <<calls, waiting, skill, parts, asked, returned>>
  BY DEF ThreadStarts
<1>2. h \in Calls /\ fut[h] = "queued"
  BY <1>1, OldestCall DEF IInv
<1>3. work' \in Seq(Calls)
  BY <1>1, OldestCall DEF IInv
<1>4. \A i \in 1..Len(work') : i + 1 \in 1..Len(work) /\ work'[i] = work[i + 1] /\ work'[i] # h
  BY <1>1, OldestCall DEF IInv
<1>5. fut \in [Calls -> {"none", "queued", "running", "done"}]
  BY DEF IInv, TypeOK
<1>6. fut'[h] = "running" /\ \A u \in Calls : u # h => fut'[u] = fut[u]
  BY <1>1, <1>2, <1>5
<1>. HIDE DEF h
<1>7. TypeOK'
  <2>1. fut' \in [Calls -> {"none", "queued", "running", "done"}]
    BY <1>1, <1>5
  <2>2. Cardinality(Running') <= PoolSize
    <3>1. Running' = Running \cup {h} /\ h \notin Running
      BY <1>2, <1>6 DEF Running
    <3>2. IsFiniteSet(Running) /\ Cardinality(Running) \in Nat
      BY CallsFinite DEF Running
    <3>3. Cardinality(Running') = Cardinality(Running) + 1
      BY <3>1, <3>2, FS_AddElement
    <3>. QED
      BY <1>1, <3>2, <3>3
  <2>. QED
    BY <1>1, <1>3, <2>1, <2>2 DEF IInv, TypeOK
<1>8. CallSound'
  <2>1. ASSUME NEW d \in Callers, NEW i \in 1..MaxCalls
        PROVE  fut'[<<d, i>>] = "none" <=> i > calls'[d]
    <3>1. <<d, i>> \in Calls
      BY DEF Calls
    <3>2. fut[<<d, i>>] = "none" <=> i > calls[d]
      BY DEF IInv, CallSound
    <3>3. fut'[<<d, i>>] = "none" <=> fut[<<d, i>>] = "none"
      BY <1>2, <1>6, <3>1
    <3>. QED
      BY <1>1, <3>2, <3>3
  <2>. QED
    BY <1>1, <2>1 DEF IInv, CallSound
<1>9. WorkSound'
  <2>1. ASSUME NEW i \in 1..Len(work') PROVE fut'[work'[i]] = "queued"
    <3>1. fut[work'[i]] = "queued"
      BY <1>4 DEF IInv, WorkSound
    <3>2. work'[i] \in Calls
      BY <1>3
    <3>. QED
      BY <1>4, <1>6, <3>1, <3>2
  <2>2. ASSUME NEW i \in 1..Len(work'), NEW j \in 1..Len(work'), work'[i] = work'[j]
        PROVE  i = j
    <3>1. i + 1 = j + 1
      BY <1>4, <2>2 DEF IInv, WorkSound
    <3>. QED
      BY <3>1
  <2>. QED
    BY <2>1, <2>2 DEF WorkSound
<1>10. RecipeSound'
  <2> SUFFICES ASSUME NEW u \in Calls
               PROVE  /\ fut'[u] = "none" => returned[u] = None
                      /\ fut'[u] # "none" => skill[u] \in Skills
                      /\ fut'[u] \in {"none", "queued"} => parts[u] = <<>>
                      /\ fut'[u] = "running" => Primitive(u) # None
                      /\ fut'[u] = "done" => Primitive(u) = None
                      /\ Shape(skill[u], parts[u])
    BY <1>1 DEF RecipeSound, Primitive
  <2>1. CASE u = h
    <3>1. skill[u] \in Skills /\ parts[u] = <<>>
      BY <1>2, <2>1 DEF IInv, RecipeSound
    <3>2. Primitive(u) # None
      BY <3>1, RecipeStarts DEF Primitive
    <3>. QED
      BY <1>6, <2>1, <3>1, <3>2, RecipeStarts
  <2>2. CASE u # h
    BY <1>6, <2>2 DEF IInv, RecipeSound
  <2>. QED
    BY <2>1, <2>2
<1>11. ReturnSound'
  <2>1. \A u \in Calls : fut[u] = "done" => fut'[u] = "done"
    BY <1>2, <1>6
  <2>. QED
    BY <1>1, <2>1 DEF IInv, ReturnSound
<1>. QED
  BY <1>7, <1>8, <1>9, <1>10, <1>11 DEF IInv

(* A primitive of a running call has its result. *)
LEMMA PrimitiveReturnsInv ==
  ASSUME IInv, NEW k \in Calls, NEW r \in Parts, fut[k] = "running",
         PrimitiveReturns(k, r), UNCHANGED <<calls, waiting, work, skill, returned>>
  PROVE  IInv'
<1>. DEFINE p == Append(parts[k], r)
<1>1. /\ parts[k] \in Seq(Parts) /\ parts \in [Calls -> Seq(Parts)]
      /\ fut \in [Calls -> {"none", "queued", "running", "done"}]
      /\ asked \in [Calls -> 0..Len(Backends)] /\ 0 \in 0..Len(Backends)
  BY DEF IInv, TypeOK, Backends
<1>2. p \in Seq(Parts)
  BY <1>1
<1>3. skill[k] \in Skills /\ Shape(skill[k], p)
  <2>1. skill[k] \in Skills /\ Shape(skill[k], parts[k]) /\ Primitive(k) # None
    BY DEF IInv, RecipeSound
  <2>. QED
    BY <1>1, <2>1, RecipeGoesOn DEF Primitive
<1>4. parts' = [parts EXCEPT ![k] = p] /\ asked' = [asked EXCEPT ![k] = 0]
  BY DEF PrimitiveReturns
<1>5. /\ NextPrimitive(skill[k], p) = None => fut' = [fut EXCEPT ![k] = "done"]
      /\ NextPrimitive(skill[k], p) # None => fut' = fut
  BY DEF PrimitiveReturns
<1>. HIDE DEF p
<1>6. /\ parts'[k] = p /\ \A u \in Calls : u # k => parts'[u] = parts[u]
      /\ \A u \in Calls : u # k => fut'[u] = fut[u]
      /\ fut'[k] = IF NextPrimitive(skill[k], p) = None THEN "done" ELSE "running"
  BY <1>1, <1>4, <1>5
<1>7. TypeOK'
  <2>1. fut' \in [Calls -> {"none", "queued", "running", "done"}]
    BY <1>1, <1>5
  <2>2. parts' \in [Calls -> Seq(Parts)] /\ asked' \in [Calls -> 0..Len(Backends)]
    BY <1>1, <1>2, <1>4
  <2>3. Cardinality(Running') <= PoolSize
    <3>1. Running' \in SUBSET Running
      BY <1>6 DEF Running
    <3>2. Running \in SUBSET Calls /\ Running' \in SUBSET Calls
      BY <3>1 DEF Running
    <3>3. /\ IsFiniteSet(Running) /\ Cardinality(Running) \in Nat
          /\ Cardinality(Running') \in Nat
      BY <3>2, CallsFinite
    <3>4. Cardinality(Running') <= Cardinality(Running)
      BY <3>1, <3>3, FS_Subset
    <3>. QED
      BY <3>3, <3>4 DEF IInv, TypeOK
  <2>. QED
    BY <2>1, <2>2, <2>3 DEF IInv, TypeOK
<1>8. CallSound'
  <2>1. ASSUME NEW d \in Callers, NEW i \in 1..MaxCalls
        PROVE  fut'[<<d, i>>] = "none" <=> i > calls'[d]
    <3>1. <<d, i>> \in Calls
      BY DEF Calls
    <3>2. fut[<<d, i>>] = "none" <=> i > calls[d]
      BY DEF IInv, CallSound
    <3>3. fut'[<<d, i>>] = "none" <=> fut[<<d, i>>] = "none"
      BY <1>6, <3>1
    <3>. QED
      BY <3>2, <3>3
  <2>. QED
    BY <2>1 DEF IInv, CallSound
<1>9. WorkSound'
  <2>1. ASSUME NEW i \in 1..Len(work) PROVE fut'[work[i]] = "queued"
    <3>1. work[i] \in Calls
      BY DEF IInv, TypeOK
    <3>2. fut[work[i]] = "queued"
      BY DEF IInv, WorkSound
    <3>. QED
      BY <1>6, <3>1, <3>2
  <2>. QED
    BY <2>1 DEF IInv, WorkSound
<1>10. RecipeSound'
  <2> SUFFICES ASSUME NEW u \in Calls
               PROVE  /\ fut'[u] = "none" => returned[u] = None
                      /\ fut'[u] # "none" => skill[u] \in Skills
                      /\ fut'[u] \in {"none", "queued"} => parts'[u] = <<>>
                      /\ fut'[u] = "running" => NextPrimitive(skill[u], parts'[u]) # None
                      /\ fut'[u] = "done" => NextPrimitive(skill[u], parts'[u]) = None
                      /\ Shape(skill[u], parts'[u])
    BY DEF RecipeSound, Primitive
  <2>1. CASE u = k
    BY <1>3, <1>6, <2>1
  <2>2. CASE u # k
    BY <1>6, <2>2 DEF IInv, RecipeSound, Primitive
  <2>. QED
    BY <2>1, <2>2
<1>11. ReturnSound'
  <2> SUFFICES ASSUME NEW u \in Calls
               PROVE  \/ returned[u] = None \/ returned[u] = TimedOut
                      \/ fut'[u] = "done" /\ returned[u] = SkillResult(skill[u], parts'[u])
    BY DEF ReturnSound
  <2>1. CASE u = k
    BY <2>1 DEF IInv, ReturnSound
  <2>2. CASE u # k
    BY <1>6, <2>2 DEF IInv, ReturnSound
  <2>. QED
    BY <2>1, <2>2
<1>. QED
  BY <1>7, <1>8, <1>9, <1>10, <1>11 DEF IInv

LEMMA BackendAnswersInv ==
  ASSUME IInv, NEW k \in Calls, BackendAnswers(k) PROVE IInv'
<1>1. PICK r \in AnswersOf(Backends[asked[k] + 1], Primitive(k)) : PrimitiveReturns(k, r)
  BY DEF BackendAnswers
<1>2. asked[k] \in 0..1
  BY DEF BackendAnswers, IInv, TypeOK, Backends
<1>3. r \in Parts
  BY <1>1, <1>2, AnswerType
<1>. QED
  BY <1>1, <1>3, PrimitiveReturnsInv DEF BackendAnswers

LEMMA NoBackendInv == ASSUME IInv, NEW k \in Calls, NoBackend(k) PROVE IInv'
<1>1. [error |-> TRUE, tokens |-> 0, timed_out |-> FALSE] \in Parts
  BY DEF Parts
<1>. QED
  BY <1>1, PrimitiveReturnsInv DEF NoBackend

LEMMA BackendFailsInv == ASSUME IInv, NEW k \in Calls, BackendFails(k) PROVE IInv'
<1>1. /\ asked' = [asked EXCEPT ![k] = asked[k] + 1]
      /\ UNCHANGED <<calls, waiting, work, fut, skill, parts, returned>>
  BY DEF BackendFails
<1>2. TypeOK'
  <2>1. asked' \in [Calls -> 0..Len(Backends)]
    <3>1. Len(Backends) = 2
      BY DEF Backends
    <3>2. asked \in [Calls -> 0..2] /\ asked[k] < 2
      BY <3>1 DEF BackendFails, IInv, TypeOK
    <3>3. asked[k] + 1 \in 0..2
      BY <3>2
    <3>. QED
      BY <1>1, <3>1, <3>2, <3>3
  <2>2. Running' = Running
    BY <1>1 DEF Running
  <2>. QED
    BY <1>1, <2>1, <2>2 DEF IInv, TypeOK
<1>3. CallSound' /\ WorkSound' /\ RecipeSound' /\ ReturnSound'
  BY <1>1 DEF IInv, CallSound, WorkSound, RecipeSound, ReturnSound, Primitive
<1>. QED
  BY <1>2, <1>3 DEF IInv

(* fut.result comes back with the result of the skill, or times out. *)
LEMMA AnsweredInv ==
  ASSUME IInv, NEW c \in waiting, NEW r \in Results,
         \/ r = TimedOut
         \/ /\ fut[Current(c)] = "done"
            /\ r = SkillResult(skill[Current(c)], parts[Current(c)]),
         returned' = [returned EXCEPT ![Current(c)] = r], waiting' = waiting \ {c},
         UNCHANGED <<calls, work, fut, skill, parts, asked>>
  PROVE  IInv'
<1>. DEFINE k == Current(c)
<1>1. k \in Calls /\ fut[k] # "none"
  BY WaitingFor DEF IInv
<1>2. returned' = [returned EXCEPT ![k] = r]
  OBVIOUS
<1>3. r = TimedOut \/ (fut[k] = "done" /\ r = SkillResult(skill[k], parts[k]))
  OBVIOUS
<1>. HIDE DEF k
<1>4. returned'[k] = r /\ \A u \in Calls : u # k => returned'[u] = returned[u]
  BY <1>1, <1>2 DEF IInv, TypeOK
<1>5. TypeOK'
  <2>1. returned' \in [Calls -> Results \cup {None}] /\ waiting' \subseteq Callers
    BY <1>2 DEF IInv, TypeOK
  <2>2. Running' = Running
    BY DEF Running
  <2>. QED
    BY <2>1, <2>2 DEF IInv, TypeOK
<1>6. CallSound' /\ WorkSound'
  BY DEF IInv, CallSound, WorkSound
<1>7. RecipeSound'
  <2>1. ASSUME NEW u \in Calls PROVE fut[u] = "none" => returned'[u] = None
    BY <1>1, <1>4 DEF IInv, RecipeSound
  <2>. QED
    BY <2>1 DEF IInv, RecipeSound, Primitive
<1>8. ReturnSound'
  BY <1>3, <1>4 DEF IInv, ReturnSound
<1>. QED
  BY <1>5, <1>6, <1>7, <1>8 DEF IInv

(* A recipe that is done has at least one part. *)
LEMMA DoneHasParts ==
  ASSUME IInv, NEW k \in Calls, fut[k] = "done"
  PROVE  /\ skill[k] \in Skills /\ parts[k] \in Seq(Parts) /\ parts[k] # <<>>
         /\ NextPrimitive(skill[k], parts[k]) = None /\ Shape(skill[k], parts[k])
<1>1. skill[k] \in Skills /\ parts[k] \in Seq(Parts) /\ Primitive(k) = None
  BY DEF IInv, TypeOK, RecipeSound
<1>. QED
  BY <1>1, RecipeStarts DEF Primitive, IInv, RecipeSound

LEMMA ReturnInv == ASSUME IInv, NEW c \in Callers, Return(c) PROVE IInv'
<1>1. Current(c) \in Calls
  BY WaitingFor DEF Return, IInv
<1>2. SkillResult(skill[Current(c)], parts[Current(c)]) \in Results
  BY <1>1, DoneHasParts, ResultOf DEF Return
<1>. QED
  BY <1>2, AnsweredInv DEF Return

LEMMA HardTimeoutInv == ASSUME IInv, NEW c \in Callers, HardTimeout(c) PROVE IInv'
<1>1. TimedOut \in Results
  BY DEF TimedOut, Results
<1>. QED
  BY <1>1, AnsweredInv DEF HardTimeout

(* The calls, the queue and the recipes stay consistent at every step. *)
THEOREM Invariance == Spec => []IInv
<1>1. IInv /\ [Next]_vars => IInv'
  <2> SUFFICES ASSUME IInv, [Next]_vars PROVE IInv'
    OBVIOUS
  <2>1. CASE ThreadStarts
    BY <2>1, ThreadStartsInv
  <2>2. ASSUME NEW k \in Calls, BackendAnswers(k) \/ BackendFails(k) \/ NoBackend(k)
        PROVE  IInv'
    BY <2>2, BackendAnswersInv, BackendFailsInv, NoBackendInv
  <2>3. ASSUME NEW c \in Callers, RunRoute(c) \/ Return(c) \/ HardTimeout(c)
        PROVE  IInv'
    BY <2>3, RunRouteInv, ReturnInv, HardTimeoutInv
  <2>4. CASE UNCHANGED vars
    BY <2>4 DEF vars, IInv, TypeOK, Running, CallSound, WorkSound, RecipeSound,
                ReturnSound, Primitive
  <2>. QED
    BY <2>1, <2>2, <2>3, <2>4 DEF Next, Threads
<1>. QED
  BY InitInv, <1>1, PTL DEF Spec

-------------------------------------------------------------------------------
(* TypeOK: the shape of every variable, and never more calls than the pool *)
(* has threads.                                                            *)
THEOREM TypeCorrect == Spec => []TypeOK
<1>1. IInv => TypeOK
  BY DEF IInv
<1>. QED
  BY Invariance, <1>1, PTL

(* What an answer is, but for a timeout: the result of a finished recipe.  *)
LEMMA AnswerOf ==
  ASSUME IInv, NEW k \in Calls, Answered(k)
  PROVE  fut[k] = "done" /\ returned[k] = SkillResult(skill[k], parts[k])
<1>1. returned[k] # None /\ returned[k] # TimedOut
  BY DEF Answered, TimedOut
<1>. QED
  BY <1>1 DEF IInv, ReturnSound

(* TokensReported: a call whose primitives all succeeded reports every     *)
(* token spent on it, and no call reports more than was spent.             *)
THEOREM Tokens_Reported == Spec => []TokensReported
<1>1. IInv => TokensReported
  <2> SUFFICES ASSUME IInv, NEW k \in Calls, Answered(k)
               PROVE  /\ returned[k].tokens <= Sum(parts[k])
                      /\ (\A i \in 1..Len(parts[k]) : Ok(parts[k][i])) =>
                           returned[k].tokens = Sum(parts[k])
    BY DEF TokensReported
  <2>. QED
    BY AnswerOf, DoneHasParts, ResultOf
<1>. QED
  BY Invariance, <1>1, PTL

(* ErrorMeansNoAnswer: the caller gets an error only if every primitive    *)
(* of the recipe that answers the query has failed.                        *)
THEOREM Error_MeansNoAnswer == Spec => []ErrorMeansNoAnswer
<1>1. IInv => ErrorMeansNoAnswer
  <2> SUFFICES ASSUME IInv, NEW k \in Calls, Answered(k), returned[k].error,
                      NEW i \in 1..Len(parts[k])
               PROVE  \/ ~Ok(parts[k][i])
                      \/ NextPrimitive(skill[k], SubSeq(parts[k], 1, i - 1)) \in Auxiliary
    BY DEF ErrorMeansNoAnswer
  <2>1. fut[k] = "done" /\ SkillResult(skill[k], parts[k]).error
    BY AnswerOf
  <2>2. /\ skill[k] \in Skills /\ parts[k] \in Seq(Parts) /\ parts[k] # <<>>
        /\ NextPrimitive(skill[k], parts[k]) = None /\ Shape(skill[k], parts[k])
    BY <2>1, DoneHasParts
  <2>. QED
    BY <2>1, <2>2, ErrorOf
<1>. QED
  BY Invariance, <1>1, PTL

===============================================================================
