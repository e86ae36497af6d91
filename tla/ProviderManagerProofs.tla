-------------------------- MODULE ProviderManagerProofs --------------------------
(***************************************************************************)
(* Proofs about ProviderManager, for every chain, number of models and     *)
(* retries: the type invariant, the count of the circuit breakers, and     *)
(* that the manager implements the port its caller sees.                   *)
(***************************************************************************)
EXTENDS ProviderManager, TLAPS

USE DEF port, position

-----------------------------------------------------------------------------
(* The type invariant.                                                     *)

\* The rungs of the chain are providers, each with at least one model.
LEMMA ChainOfProviders ==
  ASSUME NEW r \in 1 .. Len(Chain)
  PROVE  Chain[r] \in Providers /\ Models[Chain[r]] \in Nat \ {0}
  BY ChainAssumption, ModelsAssumption

LEMMA ChainLength == Len(Chain) \in Nat
  BY ChainAssumption

\* What the breaker is told of an attempt keeps its type.
LEMMA BreakerType ==
  ASSUME NEW b \in Breakers
  PROVE  /\ Attempted(b) \in Breakers
         /\ RecordSuccess(b) \in Breakers
         /\ RecordFailure(b) \in Breakers
<1>1. Attempted(b) \in Breakers
  BY DEF Attempted, Breakers, BreakerStates
<1>2. RecordSuccess(b) \in Breakers
  BY DEF RecordSuccess, Breakers, BreakerStates
<1>3. RecordFailure(b) \in Breakers
  BY BoundsAssumption DEF RecordFailure, Breakers, BreakerStates
<1> QED BY <1>1, <1>2, <1>3

\* A step records its outcome with the breaker of one provider.
LEMMA BreakersType ==
  ASSUME breaker \in [Providers -> Breakers], NEW p \in Providers
  PROVE  /\ [breaker EXCEPT ![p] = Attempted(@)] \in [Providers -> Breakers]
         /\ [breaker EXCEPT ![p] = RecordSuccess(@)] \in [Providers -> Breakers]
         /\ [breaker EXCEPT ![p] = RecordFailure(@)] \in [Providers -> Breakers]
<1>1. breaker[p] \in Breakers
  OBVIOUS
<1> QED BY <1>1, BreakerType

LEMMA TypeInit == Init => TypeOK
  BY ChainLength, BoundsAssumption
     DEF Init, TypeOK, Pcs, Running, Breakers, BreakerStates

LEMMA TypeNext == TypeOK /\ [Next]_vars => TypeOK'
<1> SUFFICES ASSUME TypeOK, [Next]_vars
             PROVE  TypeOK'
  OBVIOUS
<1> USE ChainLength, BoundsAssumption DEF TypeOK, Pcs, Running
<1>1. CASE Call
  BY <1>1 DEF Call
<1>2. CASE StartRung
  <2>1. rung \in 1 .. Len(Chain)
    BY <1>2 DEF StartRung
  <2>2. breaker' \in [Providers -> Breakers]
    BY <1>2, <2>1, ChainOfProviders, BreakersType DEF StartRung, Provider
  <2>3. 1 <= Models[Chain[rung]]
    BY <2>1, ChainOfProviders
  <2> QED BY <1>2, <2>1, <2>2, <2>3 DEF StartRung
<1>3. CASE SkipRung
  BY <1>3 DEF SkipRung
<1>4. CASE ChainFails
  BY <1>4 DEF ChainFails
<1>5. CASE pc = "trying" /\ (Chunk \/ Succeed \/ NextModel \/ Died \/ TryAgain \/ NextRung \/ Break)
  <2>1. rung \in 1 .. Len(Chain)
    BY <1>5
  <2>2. Provider \in Providers /\ Models[Provider] \in Nat \ {0}
    BY <2>1, ChainOfProviders DEF Provider
  <2>3. CASE Chunk
    BY <2>2, <2>3 DEF Chunk
  <2>4. CASE Succeed
    <3>1. breaker' \in [Providers -> Breakers]
      BY <2>2, <2>4, BreakersType DEF Succeed
    <3> QED BY <2>2, <2>4, <3>1 DEF Succeed
  <2>5. CASE NextModel
    BY <2>2, <2>5 DEF NextModel, Provider
  <2>6. CASE Died \/ TryAgain \/ NextRung
    <3>1. breaker' \in [Providers -> Breakers]
      BY <2>2, <2>6, BreakersType DEF Died, TryAgain, NextRung, Failing
    <3>2. CASE Died
      BY <3>1, <3>2 DEF Died
    <3>3. CASE TryAgain
      BY <1>5, <2>2, <3>1, <3>3 DEF TryAgain, Provider
    <3>4. CASE NextRung
      BY <2>1, <3>1, <3>4 DEF NextRung
    <3> QED BY <2>6, <3>2, <3>3, <3>4
  <2>7. CASE Break
    BY <2>7 DEF Break
  <2> QED BY <1>5, <2>3, <2>4, <2>5, <2>6, <2>7
<1>6. CASE \E p \in Providers : Cool(p)
  <2>1. PICK p \in Providers : Cool(p)
    BY <1>6
  <2>2. breaker' \in [Providers -> Breakers]
    BY <2>1 DEF Cool, Breakers
  <2> QED BY <2>1, <2>2 DEF Cool
<1>7. CASE UNCHANGED vars
  BY <1>7 DEF vars
<1>8. Chunk \/ Succeed \/ NextModel \/ Died \/ TryAgain \/ NextRung \/ Break => pc = "trying"
  BY DEF Chunk, Succeed, NextModel, Died, TryAgain, NextRung, Failing, Break
<1> QED BY <1>1, <1>2, <1>3, <1>4, <1>5, <1>6, <1>7, <1>8 DEF Next, Step

\* Every variable of the manager keeps its type, for any chain, number of
\* models and of retries: complete and stream stay inside their chain.
THEOREM TypeCorrect == Spec => []TypeOK
<1>1. Init => TypeOK
  BY TypeInit
<1>2. TypeOK /\ [Next]_vars => TypeOK'
  BY TypeNext
<1> QED BY <1>1, <1>2, PTL DEF Spec

-----------------------------------------------------------------------------
(* The circuit breakers.                                                   *)

Below(b) == b.state = "CLOSED" => b.failures < Threshold

LEMMA BreakerStaysBelow ==
  ASSUME NEW b \in Breakers, Below(b)
  PROVE  /\ Below(Attempted(b)) /\ Below(RecordSuccess(b)) /\ Below(RecordFailure(b))
         /\ b.state = "OPEN" => Below([b EXCEPT !.cooled = TRUE])
<1>1. Below(Attempted(b))
  BY DEF Below, Attempted, Breakers
<1>2. Below(RecordSuccess(b))
  BY BoundsAssumption DEF Below, RecordSuccess, Breakers
<1>3. Below(RecordFailure(b))
  BY BoundsAssumption DEF Below, RecordFailure, Breakers
<1>4. b.state = "OPEN" => Below([b EXCEPT !.cooled = TRUE])
  BY DEF Below, Breakers
<1> QED BY <1>1, <1>2, <1>3, <1>4

\* A step tells at most one breaker what happened.
LEMMA BreakerStep ==
  ASSUME TypeOK, [Next]_vars
  PROVE  \/ UNCHANGED breaker
         \/ \E p \in Providers :
              \/ breaker' = [breaker EXCEPT ![p] = Attempted(@)]
              \/ breaker' = [breaker EXCEPT ![p] = RecordSuccess(@)]
              \/ breaker' = [breaker EXCEPT ![p] = RecordFailure(@)]
              \/ breaker[p].state = "OPEN" /\ breaker' = [breaker EXCEPT ![p].cooled = TRUE]
<1>1. CASE Call \/ SkipRung \/ ChainFails \/ Chunk \/ NextModel \/ Break \/ UNCHANGED vars
  BY <1>1 DEF Call, SkipRung, ChainFails, Chunk, NextModel, Break, vars
<1>2. CASE StartRung
  <2>1. Provider \in Providers
    BY <1>2, ChainOfProviders, ChainLength DEF StartRung, TypeOK, Provider
  <2> QED BY <1>2, <2>1 DEF StartRung
<1>3. CASE Succeed \/ Died \/ TryAgain \/ NextRung
  <2>1. pc = "trying"
    BY <1>3 DEF Succeed, Died, TryAgain, NextRung, Failing
  <2>2. Provider \in Providers
    BY <2>1, ChainOfProviders, ChainLength DEF TypeOK, Provider
  <2>3. \/ breaker' = [breaker EXCEPT ![Provider] = RecordSuccess(@)]
        \/ breaker' = [breaker EXCEPT ![Provider] = RecordFailure(@)]
    BY <1>3 DEF Succeed, Died, TryAgain, NextRung, Failing
  <2> QED BY <2>2, <2>3
<1>4. CASE \E p \in Providers : Cool(p)
  BY <1>4 DEF Cool
<1> QED BY <1>1, <1>2, <1>3, <1>4 DEF Next, Step

LEMMA BelowNext == TypeOK /\ BreakerCounts /\ [Next]_vars => BreakerCounts'
<1> SUFFICES ASSUME TypeOK, BreakerCounts, [Next]_vars,
                    NEW q \in Providers
             PROVE  Below(breaker'[q])
  BY DEF BreakerCounts, Below
<1>1. breaker[q] \in Breakers /\ Below(breaker[q])
  BY DEF TypeOK, BreakerCounts, Below
<1>2. CASE UNCHANGED breaker
  BY <1>1, <1>2
<1>3. ASSUME NEW p \in Providers,
             \/ breaker' = [breaker EXCEPT ![p] = Attempted(@)]
             \/ breaker' = [breaker EXCEPT ![p] = RecordSuccess(@)]
             \/ breaker' = [breaker EXCEPT ![p] = RecordFailure(@)]
             \/ breaker[p].state = "OPEN" /\ breaker' = [breaker EXCEPT ![p].cooled = TRUE]
      PROVE  Below(breaker'[q])
  <2>1. CASE p # q
    <3>1. breaker'[q] = breaker[q]
      BY <1>3, <2>1 DEF TypeOK
    <3> QED BY <1>1, <3>1
  <2>2. CASE p = q
    <3>1. \/ breaker'[q] = Attempted(breaker[q])
          \/ breaker'[q] = RecordSuccess(breaker[q])
          \/ breaker'[q] = RecordFailure(breaker[q])
          \/ breaker[q].state = "OPEN" /\ breaker'[q] = [breaker[q] EXCEPT !.cooled = TRUE]
      BY <1>3, <2>2 DEF TypeOK
    <3> QED BY <1>1, <3>1, BreakerStaysBelow
  <2> QED BY <2>1, <2>2
<1> QED BY <1>2, <1>3, BreakerStep

\* A circuit breaker is closed only while it has counted fewer failures than
\* its threshold, over any number of calls, retries and recoveries.
THEOREM ClosedIsBelowThreshold == Spec => []BreakerCounts
<1>1. Init => BreakerCounts
  BY BoundsAssumption DEF Init, BreakerCounts
<1>2. TypeOK /\ BreakerCounts /\ [Next]_vars => BreakerCounts'
  BY BelowNext
<1> QED BY <1>1, <1>2, TypeCorrect, PTL DEF Spec

-----------------------------------------------------------------------------
(* The refinement of the port.                                             *)

\* Text that was handed out while the call runs is of the provider that is
\* being tried, and nothing is handed out between two attempts.
SourceInv ==
  pc \in Running =>
    IF chunks = 0 THEN source = NoProvider
                  ELSE pc = "trying" /\ source = Provider

Inv == TypeOK /\ SourceInv

LEMMA SourceNext == Inv /\ [Next]_vars => SourceInv'
<1> SUFFICES ASSUME Inv, [Next]_vars
             PROVE  SourceInv'
  OBVIOUS
<1> USE BoundsAssumption DEF Inv, TypeOK, SourceInv, Running, Provider
<1>1. CASE Call
  BY <1>1 DEF Call
<1>2. CASE StartRung \/ SkipRung
  BY <1>2 DEF StartRung, SkipRung
<1>3. CASE ChainFails \/ Succeed \/ Died \/ Break
  BY <1>3 DEF ChainFails, Succeed, Died, Break
<1>4. CASE Chunk
  BY <1>4 DEF Chunk
<1>5. CASE NextModel \/ TryAgain \/ NextRung
  BY <1>5 DEF NextModel, TryAgain, NextRung, Failing
<1>6. CASE (\E p \in Providers : Cool(p)) \/ UNCHANGED vars
  BY <1>6 DEF Cool, vars
<1> QED BY <1>1, <1>2, <1>3, <1>4, <1>5, <1>6 DEF Next, Step

\* Every step of the manager is a step of the port or changes nothing in it.
LEMMA PortNext == Inv /\ [Next]_vars => [Port!Next]_(Port!vars)
<1> SUFFICES ASSUME Inv, [Next]_vars
             PROVE  [Port!Next]_(Port!vars)
  OBVIOUS
<1> USE BoundsAssumption DEF Inv, TypeOK, Running
<1>1. CASE Call
  BY <1>1 DEF Call, Port!Next, Port!Call
<1>2. CASE StartRung \/ SkipRung
  BY <1>2 DEF StartRung, SkipRung, Port!vars
<1>3. CASE ChainFails \/ Died \/ Break
  <2>1. Port!Raise
    BY <1>3 DEF ChainFails, Died, Failing, Break, Port!Raise
  <2> QED BY <2>1 DEF Port!Next
<1>4. CASE Chunk
  <2>1. Provider \in Providers
    BY <1>4, ChainOfProviders, ChainLength DEF Chunk, Provider
  <2>2. Port!Yield(Provider)
    BY <1>4 DEF Chunk, SourceInv, Port!Yield
  <2> QED BY <2>1, <2>2 DEF Port!Next
<1>5. CASE Succeed
  <2>1. Provider \in Providers
    BY <1>5, ChainOfProviders, ChainLength DEF Succeed, Provider
  <2>2. Port!Return(Provider)
    BY <1>5 DEF Succeed, SourceInv, Port!Return
  <2> QED BY <2>1, <2>2 DEF Port!Next
<1>6. CASE NextModel \/ TryAgain \/ NextRung
  BY <1>6 DEF NextModel, TryAgain, NextRung, Failing, Port!vars
<1>7. CASE (\E p \in Providers : Cool(p)) \/ UNCHANGED vars
  BY <1>7 DEF Cool, vars, Port!vars
<1> QED BY <1>1, <1>2, <1>3, <1>4, <1>5, <1>6, <1>7 DEF Next, Step

\* The manager keeps the promise of the port its caller sees, for any chain,
\* number of models and of retries: the text of one provider only, and
\* nothing more after an exception.
THEOREM ImplementsPort == Spec => PortKept
<1>1. Init => SourceInv /\ Port!Init
  BY DEF Init, SourceInv, Running, Port!Init
<1>2. Inv /\ [Next]_vars => SourceInv'
  BY SourceNext
<1>3. Inv /\ [Next]_vars => [Port!Next]_(Port!vars)
  BY PortNext
<1>4. Inv <=> TypeOK /\ SourceInv
  BY DEF Inv
<1> QED BY <1>1, <1>2, <1>3, <1>4, TypeCorrect, PTL DEF Spec, PortKept, Port!Spec

=============================================================================
