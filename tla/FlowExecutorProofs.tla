-------------------------- MODULE FlowExecutorProofs --------------------------
(***************************************************************************)
(* Theorems about FlowExecutor, for every set of flow definitions: of any  *)
(* size, with any cycles and any failure settings; and that it implements  *)
(* the executor of RunLifecycle.                                           *)
(***************************************************************************)
EXTENDS ExecutorInRun, FlowGraphProofs, SequenceTheorems

\* A call of executeNode on the stack.
Frame == [node : Runnable(flow), left : SUBSET Runnable(flow)]

\* The flow does not change, nor does what is read of it.
LEMMA FlowStays ==
  ASSUME flow' = flow
  PROVE  /\ Frame' = Frame
         /\ \A n : Fallible(n)' = Fallible(n) /\ Routed(n)' = Routed(n)
         /\ \A n : HasErrorBranch(n)' = HasErrorBranch(n)
BY DEF Frame, Fallible, Routed, HasErrorBranch

\* The top of a stack that is not empty.
LEMMA StackTop ==
  ASSUME TypeOK, stack # <<>>
  PROVE  /\ Len(stack) \in DOMAIN stack
         /\ stack[Len(stack)] \in Frame
         /\ stack[Len(stack)].left \subseteq Runnable(flow)
         /\ \A i \in DOMAIN stack : stack[i] \in Frame
<1>1. stack \in Seq(Frame)
  BY DEF TypeOK, Frame
<1>2. Len(stack) \in DOMAIN stack /\ \A i \in DOMAIN stack : stack[i] \in Frame
  BY <1>1
<1> QED
  BY <1>2 DEF Frame

\* A target leaves the top of the stack.
LEMMA StackFollow ==
  ASSUME TypeOK, stack # <<>>, NEW n,
         stack' = [stack EXCEPT ![Len(stack)].left = @ \ {n}]
  PROVE  /\ stack' \in Seq(Frame)
         /\ DOMAIN stack' = DOMAIN stack
         /\ \A i \in DOMAIN stack : /\ stack'[i].node = stack[i].node
                                    /\ stack'[i].left \subseteq stack[i].left
                                    /\ stack[i].left \ {n} \subseteq stack'[i].left
         /\ \A m : m # n => (Pending(m)' <=> Pending(m))
<1> DEFINE top == stack[Len(stack)]
           new == [top EXCEPT !.left = @ \ {n}]
<1>1. stack \in Seq(Frame) /\ Len(stack) \in DOMAIN stack
  BY StackTop DEF TypeOK, Frame
<1>2. new \in Frame /\ new.node = top.node /\ new.left = top.left \ {n}
  BY StackTop DEF Frame
<1>3. PICK e \in Frame : /\ e.node = top.node /\ e.left = top.left \ {n}
                         /\ stack' = [stack EXCEPT ![Len(stack)] = e]
  BY <1>2
<1>4. stack' \in Seq(Frame) /\ DOMAIN stack' = DOMAIN stack
  <2>1. Len(stack) \in 1..Len(stack)
    BY <1>1
  <2>2. [stack EXCEPT ![Len(stack)] = e] \in Seq(Frame)
    BY <1>1, <2>1, ExceptSeq
  <2>3. DOMAIN stack' = DOMAIN stack
    BY <1>3
  <2> QED
    BY <1>3, <2>2, <2>3
<1>5. \A i \in DOMAIN stack : stack'[i] = IF i = Len(stack) THEN e ELSE stack[i]
  BY <1>1, <1>3
<1>6. \A i \in DOMAIN stack : /\ stack'[i].node = stack[i].node
                              /\ stack'[i].left \subseteq stack[i].left
                              /\ stack[i].left \ {n} \subseteq stack'[i].left
  BY <1>3, <1>5
<1>7. ASSUME NEW m, m # n PROVE Pending(m)' <=> Pending(m)
  BY <1>4, <1>6, <1>7 DEF Pending
<1> QED
  BY <1>4, <1>6, <1>7

\* A call returns that owes nothing.
LEMMA StackPop ==
  ASSUME TypeOK, stack # <<>>, stack[Len(stack)].left = {},
         stack' = SubSeq(stack, 1, Len(stack) - 1)
  PROVE  /\ stack' \in Seq(Frame)
         /\ DOMAIN stack' \subseteq DOMAIN stack
         /\ \A i \in DOMAIN stack' : stack'[i] = stack[i]
         /\ \A m : Pending(m)' <=> Pending(m)
<1>1. stack \in Seq(Frame) /\ Len(stack) \in DOMAIN stack
  BY StackTop DEF TypeOK, Frame
<1>2. /\ stack' \in Seq(Frame)
      /\ DOMAIN stack' = 1..(Len(stack) - 1)
      /\ \A i \in DOMAIN stack' : stack'[i] = stack[i]
  BY <1>1
<1>3. DOMAIN stack = DOMAIN stack' \cup {Len(stack)}
  <2>1. Len(stack) \in Nat \ {0} /\ DOMAIN stack = 1..Len(stack)
    BY <1>1
  <2> QED
    BY <1>2, <2>1
<1>4. \A m : Pending(m)' <=> Pending(m)
  BY <1>2, <1>3 DEF Pending
<1> QED
  BY <1>2, <1>3, <1>4

\* A node that is done adds the call that goes on from it.
LEMMA StackPush ==
  ASSUME TypeOK, NEW n \in Runnable(flow), NEW T \in SUBSET Runnable(flow),
         stack' = Append(stack, [node |-> n, left |-> T])
  PROVE  /\ stack' \in Seq(Frame)
         /\ DOMAIN stack' = DOMAIN stack \cup {Len(stack) + 1}
         /\ Len(stack) + 1 \notin DOMAIN stack
         /\ \A i \in DOMAIN stack : stack'[i] = stack[i]
         /\ stack'[Len(stack) + 1] = [node |-> n, left |-> T]
         /\ \A m : Pending(m)' <=> Pending(m) \/ m \in T
<1> DEFINE new == [node |-> n, left |-> T]
<1>1. stack \in Seq(Frame) /\ new \in Frame /\ new.left = T
  BY DEF TypeOK, Frame
<1> HIDE DEF new
<1>2. /\ stack' \in Seq(Frame)
      /\ DOMAIN stack' = DOMAIN stack \cup {Len(stack) + 1}
      /\ Len(stack) + 1 \notin DOMAIN stack
      /\ \A i \in DOMAIN stack : stack'[i] = stack[i]
      /\ stack'[Len(stack) + 1] = new
  BY <1>1 DEF new
<1>3. \A m : Pending(m)' <=> Pending(m) \/ m \in T
  BY <1>1, <1>2 DEF Pending
<1> QED
  BY <1>2, <1>3 DEF new

\* Where a node leads is runnable; it is routed only to an error trigger.
LEMMA TargetsFacts ==
  ASSUME IsFlow(flow), NEW n \in Runnable(flow), NEW o,
         o = "routed" => Routed(n)
  PROVE  Targets(flow, n, o) \subseteq Runnable(flow)
<1>1. CASE o = "routed"
  BY <1>1, FlowFacts DEF Targets, Routed
<1>2. CASE o # "routed"
  BY <1>2 DEF Targets, NextEdges, OutOf, ExecEdges
<1> QED
  BY <1>1, <1>2

\* What a call of executeNode does while no node is being executed.
LEMMA CallFacts ==
  ASSUME TypeOK, NEW n \in Runnable(flow), Idle, Call(n)
  PROVE  \/ ~Enterable(n) /\ UNCHANGED <<visited, step, phase, doing, attempt>>
         \/ /\ Enterable(n) /\ visited' = visited \cup {n}
            /\ \/ /\ step' = [step EXCEPT ![n] = "running"]
                  /\ phase' = "running" /\ doing' = n /\ attempt' = 1
               \/ /\ step' \in {step, [step EXCEPT ![n] = "running"]}
                  /\ phase' = "error" /\ doing' = NoNode /\ attempt' = attempt
BY DEF Call, Enter, Idle

\* Every runnable node is planned.
LEMMA RunnableIsPlanned == \A f : IsFlow(f) => Runnable(f) \subseteq Planned(f)
BY DEF Planned, Runnable, NodesOf, IsFlow

------------------------------------------------------------------------------
(* WalkInv is inductive, together with TypeOK.                                    *)

\* The initial state.
LEMMA InitWalk == Init => TypeOK /\ WalkInv
<1> SUFFICES ASSUME Init PROVE TypeOK /\ WalkInv
  OBVIOUS
<1>1. IsFlow(flow)
  BY FlowsAssumption DEF Init
<1>2. TypeOK
  <2>1. stack \in Seq([node : Runnable(flow), left : SUBSET Runnable(flow)])
    BY DEF Init
  <2> QED
    BY <1>1, <2>1 DEF Init, TypeOK, StepStatus, Outcomes
<1>3. PhasesAgree
  BY DEF Init, PhasesAgree
<1>4. OutcomesAreFinal
  BY DEF Init, OutcomesAreFinal, Alive
<1>5. MergeAfterInputs
  BY DEF Init, MergeAfterInputs
<1>6. ~Alive /\ StepsFollowWalk
  BY DEF Init, Alive, StepsFollowWalk
<1> QED
  BY <1>2, <1>3, <1>4, <1>5, <1>6 DEF WalkInv

\* An edge into a node is an edge between runnable nodes.
LEMMA IntoFacts ==
  ASSUME NEW n, NEW e \in Into(flow, n)
  PROVE  /\ e.from \in Runnable(flow) /\ e.to \in Runnable(flow) /\ e.to = n
         /\ e \in OutOf(flow, e.from)
BY DEF Into, OutOf, ExecEdges

\* A node that is not entered although it was called: it was, or it waits for an
\* input that was not.
LEMMA NotEnterable ==
  ASSUME TypeOK, WalkInv, NEW n \in Runnable(flow), ~Enterable(n), n \notin visited
  PROVE  /\ flow.kind[n] = "merge"
         /\ \E e \in Into(flow, n) : outcome[e.from] = "none"
<1>1. flow.kind[n] = "merge" /\ ~InputsReady(n)
  BY DEF Enterable
<1>2. PICK e \in Into(flow, n) : e.from \notin visited
  BY <1>1 DEF InputsReady
<1>3. outcome[e.from] = "none"
  BY <1>2, IntoFacts DEF WalkInv, OutcomesAreFinal
<1> QED
  BY <1>1, <1>3

\* A call of executeNode from the loop over the start nodes or over edges keeps the
\* invariant, where the node was called for a reason and is what the caller is rid of.
LEMMA CallKeeps ==
  ASSUME TypeOK, WalkInv, NEW n \in Runnable(flow), Idle, Call(n),
         UNCHANGED <<flow, skipped, outcome, dropped>>,
         starts' \subseteq starts, starts \ {n} \subseteq starts',
         stack' \in Seq(Frame), DOMAIN stack' = DOMAIN stack,
         \A i \in DOMAIN stack : /\ stack'[i].node = stack[i].node
                                 /\ stack'[i].left \subseteq stack[i].left,
         \A m : m # n => (Pending(m)' <=> Pending(m)),
         \/ n \in StartIDs(flow)
         \/ \E e \in Into(flow, n) : Followed(e)
         \/ WasRouted /\ n = ErrorTrigger(flow)
  PROVE  TypeOK' /\ WalkInv'
<1>1. phase = "running" /\ doing = NoNode /\ skipped = {} /\ Alive
  BY DEF Idle, WalkInv, PhasesAgree, Alive
<1>2. NoNode \notin Runnable(flow) /\ Runnable(flow) \subseteq Planned(flow)
  BY FlowFacts, RunnableIsPlanned, NoNodeAssumption DEF TypeOK
<1>3. /\ \A e : Followed(e)' <=> Followed(e)
      /\ WasRouted' <=> WasRouted
      /\ \A m : Fallible(m)' = Fallible(m) /\ Routed(m)' = Routed(m)
  BY FlowStays DEF Followed, WasRouted
<1> DEFINE Skips  == ~Enterable(n) /\ UNCHANGED <<visited, step, phase, doing, attempt>>
           Enters == /\ Enterable(n) /\ visited' = visited \cup {n}
                     /\ \/ /\ step' = [step EXCEPT ![n] = "running"]
                           /\ phase' = "running" /\ doing' = n /\ attempt' = 1
                        \/ /\ step' \in {step, [step EXCEPT ![n] = "running"]}
                           /\ phase' = "error" /\ doing' = NoNode /\ attempt' = attempt
<1>4. Skips \/ Enters
  BY CallFacts
<1>5. Enters => n \notin visited
  BY DEF Enterable
<1>6. Enters => /\ step' \in [Planned(flow) -> StepStatus]
                /\ \A m \in Planned(flow) \ {n} : step'[m] = step[m]
                /\ phase' = "running" => step'[n] = "running"
  <2>1. step \in [Planned(flow) -> StepStatus] /\ n \in Planned(flow)
    BY <1>2 DEF TypeOK
  <2>2. "running" \in StepStatus
    BY DEF StepStatus
  <2> QED
    BY <2>1, <2>2
<1>7. TypeOK'
  <2>1. stack' \in Seq([node : Runnable(flow), left : SUBSET Runnable(flow)])
    BY DEF Frame
  <2>2. CASE Skips
    BY <2>1, <2>2 DEF TypeOK
  <2>3. CASE Enters
    BY <1>1, <1>6, <2>1, <2>3 DEF TypeOK
  <2> QED
    BY <1>4, <2>2, <2>3
<1>8. PhasesAgree'
  <2>1. CASE Skips
    BY <1>1, <2>1 DEF WalkInv, PhasesAgree
  <2>2. CASE Enters
    <3>1. outcome[n] = "none"
      BY <1>5, <2>2 DEF WalkInv, OutcomesAreFinal
    <3> QED
      BY <1>1, <1>6, <2>2, <3>1 DEF PhasesAgree
  <2> QED
    BY <1>4, <2>1, <2>2
<1>9. OutcomesAreFinal'
  <2>1. \A m \in Runnable(flow) \ visited' : outcome[m] = "none"
    BY <1>4 DEF WalkInv, OutcomesAreFinal
  <2>2. Alive' => \A m \in visited' \ {doing'} : outcome[m] \in Passed \cup {"routed"}
    <3> SUFFICES ASSUME Alive', NEW m \in visited' \ {doing'}
                 PROVE  outcome[m] \in Passed \cup {"routed"}
      OBVIOUS
    <3>1. m \in visited
      BY <1>4 DEF Alive
    <3>2. m # NoNode
      BY <1>2, <3>1 DEF TypeOK
    <3> QED
      BY <1>1, <3>1, <3>2 DEF WalkInv, OutcomesAreFinal
  <2>3. \A m \in Runnable(flow) : outcome[m] = "routed" => Routed(m)
    BY DEF WalkInv, OutcomesAreFinal
  <2>4. \A i \in DOMAIN stack :
          /\ stack'[i].left \subseteq Targets(flow, stack[i].node, outcome[stack[i].node])
          /\ outcome[stack[i].node] \in Passed \cup {"routed"}
    BY DEF WalkInv, OutcomesAreFinal
  <2> QED
    BY <1>3, <2>1, <2>2, <2>3, <2>4 DEF OutcomesAreFinal
<1>11. MergeAfterInputs'
  <2>1. CASE Skips
    BY <2>1 DEF WalkInv, MergeAfterInputs
  <2>2. CASE Enters
    <3>1. ASSUME flow.kind[n] = "merge", NEW e \in Into(flow, n)
          PROVE  outcome[e.from] # "none"
      <4>1. e.from \in visited
        BY <2>2, <3>1 DEF Enterable, InputsReady
      <4>2. e.from # doing
        BY <1>1, <1>2, IntoFacts
      <4>3. outcome[e.from] \in Passed \cup {"routed"}
        BY <1>1, <4>1, <4>2 DEF WalkInv, OutcomesAreFinal
      <4> QED
        BY <4>3 DEF Passed
    <3> QED
      BY <2>2, <3>1 DEF WalkInv, MergeAfterInputs
  <2> QED
    BY <1>4, <2>1, <2>2
<1>12. Alive' => NothingIsForgotten'
  <2> SUFFICES ASSUME Alive' PROVE NothingIsForgotten'
    OBVIOUS
  <2>1. NothingIsForgotten
    BY <1>1 DEF WalkInv
  <2>2. n \notin visited' => /\ flow.kind[n] = "merge"
                             /\ \E e \in Into(flow, n) : ~Followed(e)
    <3>1. n \notin visited' => ~Enterable(n) /\ n \notin visited
      BY <1>4
    <3> QED
      BY <3>1, NotEnterable DEF Followed, Passed
  <2>3. visited \subseteq visited'
    BY <1>4
  <2>4. \A m \in StartIDs(flow) \ (visited' \cup starts') : flow.kind[m] = "merge"
    BY <2>1, <2>2, <2>3 DEF NothingIsForgotten
  <2>5. ASSUME NEW m \in Runnable(flow) \ visited'
        PROVE  /\ flow.kind[m] # "merge" => \A e \in Into(flow, m) : Followed(e) => Pending(m)'
               /\ Into(flow, m) # {} /\ (\A e \in Into(flow, m) : Followed(e)) => Pending(m)'
    <3>1. CASE m = n
      BY <2>2, <3>1
    <3>2. CASE m # n
      <4>1. Pending(m)' <=> Pending(m)
        BY <3>2
      <4> QED
        BY <2>1, <2>3, <2>5, <4>1 DEF NothingIsForgotten
    <3> QED
      BY <3>1, <3>2
  <2>6. WasRouted => ErrorTrigger(flow) \in visited' \/ Pending(ErrorTrigger(flow))'
    <3>1. CASE ErrorTrigger(flow) = n /\ WasRouted
      <4>1. flow.kind[n] = "errorTrigger"
        BY <3>1, FlowFacts DEF WasRouted, WalkInv, OutcomesAreFinal, Routed, TypeOK
      <4> QED
        BY <2>2, <3>1, <4>1
    <3>2. CASE ErrorTrigger(flow) # n
      <4>1. Pending(ErrorTrigger(flow))' <=> Pending(ErrorTrigger(flow))
        <5> DEFINE m == ErrorTrigger(flow)
        <5>1. m' = m
          OBVIOUS
        <5> QED
          BY <3>2
      <4> QED
        BY <2>1, <2>3, <4>1 DEF NothingIsForgotten
    <3> QED
      BY <3>1, <3>2
  <2> QED
    BY <1>3, <2>4, <2>5, <2>6 DEF NothingIsForgotten
<1>13. StepsFollowWalk'
  <2>1. CASE Skips
    BY <1>1, <1>3, <2>1 DEF WalkInv, StepsFollowWalk, Alive, Handled
  <2>2. CASE Enters
    <3>1. \A m \in Runnable(flow) \ visited' : step'[m] = "queued"
      BY <1>1, <1>2, <1>6, <2>2 DEF WalkInv, StepsFollowWalk
    <3>2. Alive' /\ ~dropped => \A m \in visited' \ {doing'} : Handled(m)'
      <4> SUFFICES ASSUME Alive', ~dropped, NEW m \in visited' \ {doing'}
                   PROVE  Handled(m)'
        OBVIOUS
      <4>1. m # n /\ m \in visited
        BY <2>2 DEF Alive
      <4>2. m \in Planned(flow) /\ m # NoNode
        BY <1>2, <4>1 DEF TypeOK
      <4>3. Handled(m)
        BY <1>1, <4>1, <4>2 DEF WalkInv, StepsFollowWalk
      <4> QED
        BY <1>3, <1>6, <2>2, <4>1, <4>2, <4>3 DEF Handled
    <3> QED
      BY <1>1, <3>1, <3>2 DEF StepsFollowWalk
  <2> QED
    BY <1>4, <2>1, <2>2
<1> QED
  BY <1>7, <1>8, <1>9, <1>11, <1>12, <1>13 DEF WalkInv

\* The loop over the start nodes.
LEMMA StartNodeKeeps == TypeOK /\ WalkInv /\ StartNode => TypeOK' /\ WalkInv'
<1> SUFFICES ASSUME TypeOK, WalkInv, StartNode PROVE TypeOK' /\ WalkInv'
  OBVIOUS
<1> DEFINE n == NextStartID(flow, starts)
<1>1. n \in starts /\ n \in StartIDs(flow) /\ n \in Runnable(flow)
  <2>1. starts # {} /\ starts \subseteq StartIDs(flow) /\ StartIDs(flow) \subseteq Runnable(flow)
    BY FlowFacts DEF StartNode, TypeOK
  <2>2. starts \subseteq Runnable(flow)
    BY <2>1
  <2>3. n \in starts
    BY <2>1, <2>2, NextStartFacts DEF TypeOK
  <2> QED
    BY <2>1, <2>3
<1>2. /\ Idle /\ Call(n) /\ starts' = starts \ {n}
      /\ UNCHANGED <<flow, skipped, stack, outcome, dropped>>
  BY DEF StartNode
<1>3. stack' \in Seq(Frame)
  BY <1>2 DEF TypeOK, Frame
<1>4. \A m : Pending(m)' <=> Pending(m)
  BY <1>2 DEF Pending
<1> HIDE DEF n
<1> QED
  BY <1>1, <1>2, <1>3, <1>4, CallKeeps

\* The loop over the edges of the call on top of the stack.
LEMMA FollowEdgeKeeps == TypeOK /\ WalkInv /\ FollowEdge => TypeOK' /\ WalkInv'
<1> SUFFICES ASSUME TypeOK, WalkInv, FollowEdge PROVE TypeOK' /\ WalkInv'
  OBVIOUS
<1> DEFINE top == stack[Len(stack)]
           n   == Least(top.left)
<1>1. /\ Idle /\ stack # <<>> /\ top.left # {} /\ Call(n)
      /\ stack' = [stack EXCEPT ![Len(stack)].left = @ \ {n}]
      /\ UNCHANGED <<flow, skipped, starts, outcome, dropped>>
  BY DEF FollowEdge
<1>2. top.left \subseteq Runnable(flow) /\ top.node \in Runnable(flow)
      /\ Len(stack) \in DOMAIN stack
  BY <1>1, StackTop DEF Frame
<1>3. n \in top.left
  <2>1. top.left \subseteq Nat
    BY <1>2, FlowFacts DEF TypeOK
  <2> QED
    BY <1>1, <2>1, LeastIsLeast
<1>4. /\ stack' \in Seq(Frame) /\ DOMAIN stack' = DOMAIN stack
      /\ \A i \in DOMAIN stack : /\ stack'[i].node = stack[i].node
                                 /\ stack'[i].left \subseteq stack[i].left
      /\ \A m : m # n => (Pending(m)' <=> Pending(m))
  BY <1>1, StackFollow
<1>5. \/ \E e \in Into(flow, n) : Followed(e)
      \/ WasRouted /\ n = ErrorTrigger(flow)
  <2>1. n \in Targets(flow, top.node, outcome[top.node])
        /\ outcome[top.node] \in Passed \cup {"routed"}
    BY <1>2, <1>3 DEF WalkInv, OutcomesAreFinal
  <2>2. CASE outcome[top.node] = "routed"
    BY <1>2, <2>1, <2>2 DEF Targets, WasRouted
  <2>3. CASE outcome[top.node] # "routed"
    <3>1. PICK e \in NextEdges(flow, top.node, outcome[top.node]) : e.to = n
      BY <2>1, <2>3 DEF Targets
    <3>2. e.from = top.node /\ e \in Into(flow, n)
      BY <3>1 DEF NextEdges, OutOf, Into
    <3> QED
      BY <2>1, <2>3, <3>1, <3>2 DEF Followed
  <2> QED
    BY <2>2, <2>3
<1> HIDE DEF top, n
<1> QED
  BY <1>1, <1>2, <1>3, <1>4, <1>5, CallKeeps

\* A call returns.
LEMMA ReturnNodeKeeps == TypeOK /\ WalkInv /\ ReturnNode => TypeOK' /\ WalkInv'
<1> SUFFICES ASSUME TypeOK, WalkInv, ReturnNode PROVE TypeOK' /\ WalkInv'
  OBVIOUS
<1>1. /\ phase = "running" /\ doing = NoNode
      /\ UNCHANGED <<flow, phase, step, visited, skipped, starts, doing, attempt,
                     outcome, dropped>>
  BY DEF ReturnNode, Idle
<1>2. /\ stack' \in Seq(Frame)
      /\ DOMAIN stack' \subseteq DOMAIN stack
      /\ \A i \in DOMAIN stack' : stack'[i] = stack[i]
      /\ \A m : Pending(m)' <=> Pending(m)
  BY StackPop DEF ReturnNode
<1>3. /\ \A e : Followed(e)' <=> Followed(e)
      /\ WasRouted' <=> WasRouted
      /\ \A m : Fallible(m)' = Fallible(m) /\ Routed(m)' = Routed(m)
  BY <1>1, FlowStays DEF Followed, WasRouted
<1>4. TypeOK'
  BY <1>1, <1>2 DEF TypeOK, Frame
<1>5. PhasesAgree' /\ StepsFollowWalk' /\ MergeAfterInputs'
  BY <1>1, <1>3 DEF WalkInv, PhasesAgree, StepsFollowWalk, MergeAfterInputs, Alive, Handled
<1>6. OutcomesAreFinal'
  BY <1>1, <1>2, <1>3 DEF WalkInv, OutcomesAreFinal, Alive
<1>8. Alive' => NothingIsForgotten'
  <2>1. Pending(ErrorTrigger(flow))' <=> Pending(ErrorTrigger(flow))
    <3> DEFINE m == ErrorTrigger(flow)
    <3>1. m' = m
      BY <1>1
    <3> QED
      BY <1>2, <3>1 DEF Pending
  <2> QED
    BY <1>1, <1>2, <1>3, <2>1 DEF WalkInv, NothingIsForgotten, Alive
<1> QED
  BY <1>4, <1>5, <1>6, <1>8 DEF WalkInv

\* The outcome of the node that ends: nobody else's changes, and what was followed
\* still is.
LEMMA OutcomeStep ==
  ASSUME TypeOK, WalkInv, NEW n \in Runnable(flow), phase = "running", doing = n,
         NEW o \in Outcomes \ {"none"}, o = "routed" => Routed(n),
         outcome' = [outcome EXCEPT ![n] = o], flow' = flow
  PROVE  /\ outcome' \in [Runnable(flow) -> Outcomes]
         /\ outcome'[n] = o /\ outcome[n] = "none" /\ n \in visited
         /\ \A m \in Runnable(flow) \ {n} : outcome'[m] = outcome[m]
         /\ \A e \in ExecEdges(flow) :
              /\ Followed(e) => Followed(e)'
              /\ e.from # n => (Followed(e)' <=> Followed(e))
         /\ WasRouted' <=> WasRouted \/ o = "routed"
         /\ \A m : Fallible(m)' = Fallible(m) /\ Routed(m)' = Routed(m)
<1>1. outcome \in [Runnable(flow) -> Outcomes] /\ NoNode \notin Runnable(flow)
  BY FlowFacts, NoNodeAssumption DEF TypeOK
<1>2. outcome[n] = "none" /\ n \in visited
  BY <1>1 DEF WalkInv, PhasesAgree
<1>3. /\ outcome' \in [Runnable(flow) -> Outcomes] /\ outcome'[n] = o
      /\ \A m \in Runnable(flow) \ {n} : outcome'[m] = outcome[m]
  BY <1>1
<1>4. ASSUME NEW e \in ExecEdges(flow)
      PROVE  /\ Followed(e) => Followed(e)'
             /\ e.from # n => (Followed(e)' <=> Followed(e))
  <2>1. e.from \in Runnable(flow)
    BY DEF ExecEdges
  <2>2. e.from = n => ~Followed(e)
    BY <1>2 DEF Followed, Passed
  <2>3. e.from # n => (Followed(e)' <=> Followed(e))
    BY <1>3, <2>1 DEF Followed
  <2> QED
    BY <2>2, <2>3
<1>5. WasRouted' <=> WasRouted \/ o = "routed"
  BY <1>2, <1>3 DEF WasRouted
<1> QED
  BY <1>2, <1>3, <1>4, <1>5, FlowStays

\* A node that is done, with its step written or the write dropped.
LEMMA GoOnKeeps ==
  ASSUME TypeOK, WalkInv, NEW n \in Runnable(flow), phase = "running", doing = n,
         NEW o \in Passed \cup {"routed"}, o = "routed" => Routed(n), GoOn(n, o),
         UNCHANGED <<flow, visited, skipped, starts, attempt>>,
         step' \in [Planned(flow) -> StepStatus],
         \A m \in Planned(flow) \ {n} : step'[m] = step[m],
         dropped' \in BOOLEAN, dropped => dropped', ~dropped' => Handled(n)'
  PROVE  TypeOK' /\ WalkInv'
<1> DEFINE T == Targets(flow, n, o)
<1>1. /\ outcome' = [outcome EXCEPT ![n] = o] /\ doing' = NoNode /\ phase' = phase
      /\ stack' = Append(stack, [node |-> n, left |-> T])
  BY DEF GoOn
<1>2. o \in Outcomes \ {"none"}
  BY DEF Passed, Outcomes
<1>3. NoNode \notin Runnable(flow) /\ Runnable(flow) \subseteq Planned(flow)
  BY FlowFacts, RunnableIsPlanned, NoNodeAssumption DEF TypeOK
<1>4. /\ outcome' \in [Runnable(flow) -> Outcomes]
      /\ outcome'[n] = o /\ outcome[n] = "none" /\ n \in visited
      /\ \A m \in Runnable(flow) \ {n} : outcome'[m] = outcome[m]
      /\ \A e \in ExecEdges(flow) :
           /\ Followed(e) => Followed(e)'
           /\ e.from # n => (Followed(e)' <=> Followed(e))
      /\ WasRouted' <=> WasRouted \/ o = "routed"
      /\ \A m : Fallible(m)' = Fallible(m) /\ Routed(m)' = Routed(m)
  BY <1>1, <1>2, OutcomeStep
<1>5. T \in SUBSET Runnable(flow)
  BY TargetsFacts DEF TypeOK
<1>6. /\ stack' \in Seq(Frame)
      /\ DOMAIN stack' = DOMAIN stack \cup {Len(stack) + 1}
      /\ \A i \in DOMAIN stack : stack'[i] = stack[i]
      /\ stack'[Len(stack) + 1] = [node |-> n, left |-> T]
      /\ \A m : Pending(m)' <=> Pending(m) \/ m \in T
  BY <1>1, <1>5, StackPush
<1>7. \A i \in DOMAIN stack : stack[i].node \in Runnable(flow) \ {n}
  <2>1. \A i \in DOMAIN stack : stack[i] \in Frame
    BY StackTop DEF TypeOK
  <2>2. \A i \in DOMAIN stack : stack[i].node \in Runnable(flow)
    BY <2>1 DEF Frame
  <2>3. \A i \in DOMAIN stack : outcome[stack[i].node] # "none"
    BY DEF WalkInv, OutcomesAreFinal, Passed
  <2> QED
    BY <1>4, <2>2, <2>3
<1> HIDE DEF T
<1>8. TypeOK'
  BY <1>1, <1>4, <1>6 DEF TypeOK, Frame
<1>9. PhasesAgree'
  BY <1>1 DEF WalkInv, PhasesAgree
<1>10. OutcomesAreFinal'
  <2>1. \A m \in Runnable(flow) \ visited : outcome'[m] = "none"
    BY <1>4 DEF WalkInv, OutcomesAreFinal
  <2>2. \A m \in visited : outcome'[m] \in Passed \cup {"routed"}
    BY <1>4 DEF WalkInv, OutcomesAreFinal, Alive, TypeOK
  <2>3. \A m \in Runnable(flow) : outcome'[m] = "routed" => Routed(m)
    BY <1>4 DEF WalkInv, OutcomesAreFinal
  <2>4. \A i \in DOMAIN stack' :
          /\ stack'[i].left \subseteq Targets(flow, stack'[i].node, outcome'[stack'[i].node])
          /\ outcome'[stack'[i].node] \in Passed \cup {"routed"}
    <3>1. \A i \in DOMAIN stack :
            /\ stack'[i].left \subseteq Targets(flow, stack'[i].node, outcome'[stack'[i].node])
            /\ outcome'[stack'[i].node] \in Passed \cup {"routed"}
      BY <1>4, <1>6, <1>7 DEF WalkInv, OutcomesAreFinal
    <3>2. /\ stack'[Len(stack) + 1].node = n /\ stack'[Len(stack) + 1].left = T
          /\ T = Targets(flow, n, outcome'[n])
      BY <1>4, <1>6 DEF T
    <3> QED
      BY <1>4, <1>6, <3>1, <3>2
  <2> QED
    BY <1>4, <2>1, <2>2, <2>3, <2>4 DEF OutcomesAreFinal
<1>12. MergeAfterInputs'
  <2>1. \A m \in Runnable(flow) : outcome[m] # "none" => outcome'[m] # "none"
    BY <1>2, <1>4
  <2> QED
    BY <2>1, IntoFacts DEF WalkInv, MergeAfterInputs
<1>13. NothingIsForgotten'
  <2>1. NothingIsForgotten
    BY DEF WalkInv, Alive
  <2>2. ASSUME NEW m \in Runnable(flow), NEW e \in Into(flow, m),
               Followed(e)', ~Followed(e)
        PROVE  m \in T
    <3>1. e.from = n /\ e.to = m
      BY <1>4, <2>2 DEF Into
    <3>2. o \in Passed /\ e \in NextEdges(flow, n, o)
      BY <1>4, <2>2, <3>1 DEF Followed
    <3> QED
      BY <3>1, <3>2 DEF T, Targets, Passed
  <2>3. ASSUME NEW m \in Runnable(flow) \ visited
        PROVE  /\ flow.kind[m] # "merge" =>
                    \A e \in Into(flow, m) : Followed(e)' => Pending(m)'
               /\ Into(flow, m) # {} /\ (\A e \in Into(flow, m) : Followed(e)')
                    => Pending(m)'
    BY <1>6, <2>1, <2>2 DEF NothingIsForgotten
  <2>4. WasRouted' => ErrorTrigger(flow) \in visited \/ Pending(ErrorTrigger(flow))'
    <3>1. o = "routed" => ErrorTrigger(flow) \in T
      BY DEF T, Targets
    <3>2. Pending(ErrorTrigger(flow))' <=> Pending(ErrorTrigger(flow)) \/ ErrorTrigger(flow) \in T
      <4> DEFINE m == ErrorTrigger(flow)
      <4>1. m' = m
        OBVIOUS
      <4> QED
        BY <1>6, <4>1 DEF Pending
    <3> QED
      BY <1>4, <2>1, <3>1, <3>2 DEF NothingIsForgotten
  <2> QED
    BY <2>1, <2>3, <2>4 DEF NothingIsForgotten
<1>14. StepsFollowWalk'
  <2>1. \A m \in Runnable(flow) \ (visited \cup skipped) : step'[m] = "queued"
    BY <1>3, <1>4 DEF WalkInv, StepsFollowWalk
  <2>2. skipped = {}
    BY DEF WalkInv, PhasesAgree
  <2>3. ~dropped' => \A m \in visited : Handled(m)'
    <3> SUFFICES ASSUME ~dropped', NEW m \in visited, m # n PROVE Handled(m)'
      OBVIOUS
    <3>1. Handled(m)
      BY DEF WalkInv, StepsFollowWalk, Alive
    <3>2. m \in Runnable(flow) /\ m \in Planned(flow)
      BY <1>3 DEF TypeOK
    <3> QED
      BY <1>4, <3>1, <3>2 DEF Handled
  <2> QED
    BY <1>1, <2>1, <2>2, <2>3 DEF StepsFollowWalk
<1> QED
  BY <1>8, <1>9, <1>10, <1>12, <1>13, <1>14 DEF WalkInv

\* A node whose error executeNode returns.
LEMMA AbortKeeps ==
  ASSUME TypeOK, WalkInv, NEW n \in Runnable(flow), phase = "running", doing = n,
         NEW o \in {"error", "timedOut"}, Abort(n, o),
         UNCHANGED <<flow, visited, skipped, starts, attempt>>,
         step' \in [Planned(flow) -> StepStatus], dropped' \in BOOLEAN
  PROVE  TypeOK' /\ WalkInv'
<1>1. /\ outcome' = [outcome EXCEPT ![n] = o] /\ doing' = NoNode /\ phase' = "error"
      /\ stack' = stack
  BY DEF Abort
<1>2. o \in Outcomes \ {"none"} /\ o # "routed"
  BY DEF Outcomes
<1>3. /\ outcome' \in [Runnable(flow) -> Outcomes]
      /\ outcome'[n] = o /\ outcome[n] = "none" /\ n \in visited
      /\ \A m \in Runnable(flow) \ {n} : outcome'[m] = outcome[m]
      /\ \A e \in ExecEdges(flow) : Followed(e) => Followed(e)'
      /\ WasRouted' <=> WasRouted
      /\ \A m : Routed(m)' = Routed(m)
  BY <1>1, <1>2, OutcomeStep
<1>4. TypeOK'
  BY <1>1, <1>3 DEF TypeOK
<1>5. PhasesAgree' /\ StepsFollowWalk' /\ ~Alive'
  BY <1>1 DEF WalkInv, PhasesAgree, StepsFollowWalk, Alive
<1>6. OutcomesAreFinal'
  <2>1. \A i \in DOMAIN stack : stack[i].node \in Runnable(flow) \ {n}
    <3>1. \A i \in DOMAIN stack : stack[i] \in Frame
      BY StackTop DEF TypeOK
    <3>2. \A i \in DOMAIN stack : stack[i].node \in Runnable(flow)
      BY <3>1 DEF Frame
    <3>3. \A i \in DOMAIN stack : outcome[stack[i].node] # "none"
      BY DEF WalkInv, OutcomesAreFinal, Passed
    <3> QED
      BY <1>3, <3>2, <3>3
  <2>2. \A m \in Runnable(flow) \ visited : outcome'[m] = "none"
    BY <1>3 DEF WalkInv, OutcomesAreFinal
  <2>3. \A m \in Runnable(flow) : outcome'[m] = "routed" => Routed(m)
    BY <1>2, <1>3 DEF WalkInv, OutcomesAreFinal
  <2>4. \A i \in DOMAIN stack :
          /\ stack[i].left \subseteq Targets(flow, stack[i].node, outcome'[stack[i].node])
          /\ outcome'[stack[i].node] \in Passed \cup {"routed"}
    BY <1>3, <2>1 DEF WalkInv, OutcomesAreFinal
  <2> QED
    BY <1>1, <1>3, <1>5, <2>2, <2>3, <2>4 DEF OutcomesAreFinal
<1>8. MergeAfterInputs'
  <2>1. \A m \in Runnable(flow) : outcome[m] # "none" => outcome'[m] # "none"
    BY <1>2, <1>3
  <2> QED
    BY <2>1, IntoFacts DEF WalkInv, MergeAfterInputs
<1> QED
  BY <1>4, <1>5, <1>6, <1>8 DEF WalkInv

\* The writes of a node's step.
LEMMA WriteFacts ==
  ASSUME TypeOK, NEW n \in Runnable(flow), NEW s \in StepStatus,
         step' \in {step, [step EXCEPT ![n] = s]}
  PROVE  /\ step' \in [Planned(flow) -> StepStatus]
         /\ \A m \in Planned(flow) \ {n} : step'[m] = step[m]
         /\ step' = [step EXCEPT ![n] = s] => step'[n] = s
<1>1. n \in Planned(flow) /\ step \in [Planned(flow) -> StepStatus]
  BY RunnableIsPlanned DEF TypeOK
<1> QED
  BY <1>1

\* The node ends well, or its last write failed.
LEMMA SucceedKeeps ==
  ASSUME TypeOK, WalkInv, NEW n \in Runnable(flow), Succeed(n)
  PROVE  TypeOK' /\ WalkInv'
<1>1. /\ phase = "running" /\ doing = n
      /\ UNCHANGED <<flow, visited, skipped, starts, attempt, dropped>>
      /\ step' \in {step, [step EXCEPT ![n] = "success"]}
  BY DEF Succeed
<1>2. /\ step' \in [Planned(flow) -> StepStatus]
      /\ \A m \in Planned(flow) \ {n} : step'[m] = step[m]
      /\ step' = [step EXCEPT ![n] = "success"] => step'[n] = "success"
  BY <1>1, WriteFacts DEF StepStatus
<1>3. dropped' \in BOOLEAN
  BY <1>1 DEF TypeOK
<1>4. CASE Abort(n, "error")
  BY <1>1, <1>2, <1>3, <1>4, AbortKeeps
<1>5. ASSUME NEW o \in {"ok", "false"}, GoOn(n, o),
             step' = [step EXCEPT ![n] = "success"]
      PROVE  TypeOK' /\ WalkInv'
  <2>1. Handled(n)'
    BY <1>2, <1>5 DEF Handled
  <2>2. o \in Passed \cup {"routed"} /\ o # "routed"
    BY DEF Passed
  <2> QED
    BY <1>1, <1>2, <1>3, <1>5, <2>1, <2>2, GoOnKeeps
<1> QED
  BY <1>4, <1>5 DEF Succeed

\* The node fails for good: by its settings it goes on, or the walk is over.
LEMMA FailKeeps ==
  ASSUME TypeOK, WalkInv, NEW n \in Runnable(flow), Fail(n)
  PROVE  TypeOK' /\ WalkInv'
<1>1. /\ phase = "running" /\ doing = n /\ Fallible(n)
      /\ UNCHANGED <<flow, visited, skipped, starts, attempt>>
  BY DEF Fail
<1>2. ASSUME NEW s \in {"success", "failed"}, WriteIgnored(n, s)
      PROVE  /\ step' \in [Planned(flow) -> StepStatus]
             /\ \A m \in Planned(flow) \ {n} : step'[m] = step[m]
             /\ dropped' \in BOOLEAN /\ (dropped => dropped')
             /\ ~dropped' => step'[n] = s
  <2>1. step' \in {step, [step EXCEPT ![n] = s]} /\ s \in StepStatus
    BY <1>2 DEF WriteIgnored, StepStatus
  <2>2. /\ step' \in [Planned(flow) -> StepStatus]
        /\ \A m \in Planned(flow) \ {n} : step'[m] = step[m]
        /\ step' = [step EXCEPT ![n] = s] => step'[n] = s
    BY <2>1, WriteFacts
  <2>3. /\ dropped' \in BOOLEAN /\ (dropped => dropped')
        /\ dropped' \/ step' = [step EXCEPT ![n] = s]
    BY <1>2 DEF WriteIgnored, TypeOK
  <2> QED
    BY <2>2, <2>3
<1>3. CASE WriteIgnored(n, "success") /\ GoOn(n, "caught")
  <2>1. ~dropped' => Handled(n)'
    BY <1>2, <1>3 DEF Handled
  <2>2. "caught" \in Passed
    BY DEF Passed
  <2> QED
    BY <1>1, <1>2, <1>3, <2>1, <2>2, GoOnKeeps
<1>4. CASE WriteIgnored(n, "failed") /\ Routed(n) /\ GoOn(n, "routed")
  <2>1. outcome'[n] = "routed"
    BY <1>4 DEF GoOn, TypeOK
  <2>2. Fallible(n)'
    BY <1>1, FlowStays
  <2>3. ~dropped' => Handled(n)'
    BY <1>2, <1>4, <2>1, <2>2 DEF Handled
  <2> QED
    BY <1>1, <1>2, <1>4, <2>3, GoOnKeeps
<1>5. CASE WriteIgnored(n, "failed") /\ n \in flow.continues /\ GoOn(n, "continued")
  <2>1. Fallible(n)'
    BY <1>1, FlowStays
  <2>2. ~dropped' => Handled(n)'
    BY <1>1, <1>2, <1>5, <2>1 DEF Handled
  <2>3. "continued" \in Passed
    BY DEF Passed
  <2> QED
    BY <1>1, <1>2, <1>5, <2>2, <2>3, GoOnKeeps
<1>6. CASE WriteIgnored(n, "failed") /\ Abort(n, "error")
  BY <1>1, <1>2, <1>6, AbortKeeps
<1> QED
  BY <1>3, <1>4, <1>5, <1>6 DEF Fail

\* The context of the activity ended, or the HTTP client gave up.
LEMMA CanceledKeeps ==
  ASSUME TypeOK, WalkInv, NEW n \in Runnable(flow), Interrupt(n) \/ TimeOut(n)
  PROVE  TypeOK' /\ WalkInv'
<1>1. PICK o \in {"error", "timedOut"} : Canceled(n, o)
  BY DEF Interrupt, TimeOut
<1>2. /\ phase = "running" /\ doing = n /\ Abort(n, o)
      /\ UNCHANGED <<flow, visited, skipped, starts, attempt>>
      /\ step' \in {step, [step EXCEPT ![n] = "canceled"]}
      /\ dropped' \in BOOLEAN
  BY <1>1 DEF Canceled, WriteIgnored, TypeOK
<1>3. step' \in [Planned(flow) -> StepStatus]
  BY <1>2, WriteFacts DEF StepStatus
<1> QED
  BY <1>2, <1>3, AbortKeeps

\* Another attempt of the node.
LEMMA RetryKeeps ==
  ASSUME TypeOK, WalkInv, NEW n \in Runnable(flow), Retry(n)
  PROVE  TypeOK' /\ WalkInv'
<1>1. /\ phase = "running" /\ doing = n /\ attempt' = attempt + 1
      /\ UNCHANGED <<flow, phase, visited, skipped, starts, doing, stack, outcome,
                     dropped>>
      /\ step' \in {step, [step EXCEPT ![n] = "running"]}
  BY DEF Retry
<1>2. /\ step' \in [Planned(flow) -> StepStatus]
      /\ \A m \in Planned(flow) \ {n} : step'[m] = step[m]
      /\ step' = [step EXCEPT ![n] = "running"] => step'[n] = "running"
  BY <1>1, WriteFacts DEF StepStatus
<1>3. step[n] = "running" /\ n \in visited /\ NoNode \notin Runnable(flow)
  BY <1>1, FlowFacts, NoNodeAssumption DEF WalkInv, PhasesAgree, TypeOK
<1>4. step'[n] = "running"
  BY <1>1, <1>2, <1>3
<1>5. /\ \A e : Followed(e)' <=> Followed(e)
      /\ WasRouted' <=> WasRouted
      /\ \A m : Fallible(m)' = Fallible(m) /\ Routed(m)' = Routed(m)
      /\ \A m : Pending(m)' <=> Pending(m)
  BY <1>1, FlowStays DEF Followed, WasRouted, Pending
<1>6. TypeOK'
  BY <1>1, <1>2 DEF TypeOK
<1>7. PhasesAgree'
  BY <1>1, <1>4 DEF WalkInv, PhasesAgree
<1>8. OutcomesAreFinal' /\ MergeAfterInputs'
  BY <1>1, <1>5 DEF WalkInv, OutcomesAreFinal, MergeAfterInputs, Alive
<1>9. NothingIsForgotten'
  <2>1. Pending(ErrorTrigger(flow))' <=> Pending(ErrorTrigger(flow))
    BY <1>1 DEF Pending
  <2>2. NothingIsForgotten
    BY <1>1 DEF WalkInv, Alive
  <2> QED
    BY <1>1, <1>5, <2>1, <2>2 DEF NothingIsForgotten
<1>10. StepsFollowWalk'
  <2>1. skipped = {} /\ Alive
    BY <1>1 DEF WalkInv, PhasesAgree, Alive
  <2>2. Runnable(flow) \subseteq Planned(flow) /\ visited \subseteq Runnable(flow)
    BY RunnableIsPlanned DEF TypeOK
  <2>3. \A m \in Runnable(flow) \ visited : step'[m] = "queued"
    BY <1>1, <1>2, <1>3, <2>1, <2>2 DEF WalkInv, StepsFollowWalk
  <2>4. ~dropped => \A m \in visited \ {n} : Handled(m)'
    BY <1>1, <1>2, <1>5, <2>1, <2>2 DEF WalkInv, StepsFollowWalk, Handled
  <2> QED
    BY <1>1, <2>1, <2>3, <2>4 DEF StepsFollowWalk
<1> QED
  BY <1>6, <1>7, <1>8, <1>9, <1>10 DEF WalkInv

\* CreateMany: the walk begins with every step queued, or not at all.
LEMMA PlanKeeps == TypeOK /\ WalkInv /\ Plan => TypeOK' /\ WalkInv'
<1> SUFFICES ASSUME TypeOK, WalkInv, Plan PROVE TypeOK' /\ WalkInv'
  OBVIOUS
<1>1. /\ phase = "planning" /\ phase' \in {"running", "error"}
      /\ UNCHANGED <<flow, visited, skipped, starts, doing, attempt, stack, outcome,
                     dropped>>
      /\ phase' = "running" => step' = [n \in Planned(flow) |-> "queued"]
      /\ step' \in {step, [n \in Planned(flow) |-> "queued"]}
  BY DEF Plan
<1>2. visited = {} /\ skipped = {} /\ doing = NoNode /\ starts = StartIDs(flow)
      /\ stack = <<>>
  BY <1>1 DEF WalkInv, PhasesAgree
<1>3. /\ \A e : Followed(e)' <=> Followed(e)
      /\ WasRouted' <=> WasRouted
      /\ \A m : Routed(m)' = Routed(m)
      /\ Runnable(flow) \subseteq Planned(flow)
  BY <1>1, FlowStays, RunnableIsPlanned DEF Followed, WasRouted, TypeOK
<1>4. TypeOK'
  <2>1. step' \in [Planned(flow) -> StepStatus]
    BY <1>1 DEF TypeOK, StepStatus
  <2> QED
    BY <1>1, <2>1 DEF TypeOK
<1>5. PhasesAgree'
  BY <1>1, <1>2 DEF PhasesAgree
<1>6. OutcomesAreFinal' /\ MergeAfterInputs'
  BY <1>1, <1>2, <1>3 DEF WalkInv, OutcomesAreFinal, MergeAfterInputs
<1>7. NothingIsForgotten'
  <2>1. \A m \in Runnable(flow) : outcome[m] = "none"
    BY <1>2 DEF WalkInv, OutcomesAreFinal
  <2>2. ~WasRouted /\ \A m : \A e \in Into(flow, m) : ~Followed(e)
    BY <2>1, IntoFacts DEF WasRouted, Followed, Passed
  <2> QED
    BY <1>1, <1>2, <1>3, <2>2 DEF NothingIsForgotten
<1>8. StepsFollowWalk'
  BY <1>1, <1>2, <1>3 DEF StepsFollowWalk
<1> QED
  BY <1>4, <1>5, <1>6, <1>7, <1>8 DEF WalkInv

\* The phases after the walk: what was not reached is skipped; or the worker dies.
LEMMA LastPhasesKeep ==
  ASSUME TypeOK, WalkInv,
         StartsDone \/ Done \/ WorkerDies \/ \E n \in Runnable(flow) : Skip(n)
  PROVE  TypeOK' /\ WalkInv'
<1>1. /\ UNCHANGED <<flow, visited, starts, attempt, stack, outcome>>
      /\ doing' = NoNode
      /\ phase' # "running" /\ phase' # "planning"
  <2>1. phase = "skipping" => doing = NoNode
    BY DEF WalkInv, PhasesAgree
  <2> QED
    BY <2>1 DEF StartsDone, Done, WorkerDies, Skip, Idle
<1>2. /\ \A e : Followed(e)' <=> Followed(e)
      /\ WasRouted' <=> WasRouted
      /\ \A m : Fallible(m)' = Fallible(m) /\ Routed(m)' = Routed(m)
      /\ \A m : Pending(m)' <=> Pending(m)
      /\ Runnable(flow) \subseteq Planned(flow) /\ NoNode \notin Runnable(flow)
  BY <1>1, FlowStays, RunnableIsPlanned, FlowFacts, NoNodeAssumption
     DEF Followed, WasRouted, Pending, TypeOK
<1>3. /\ phase' \in {"skipping", "ok", "dead"}
      /\ phase' \in {"skipping", "ok"} => /\ stack = <<>> /\ starts = {} /\ doing = NoNode
                                          /\ phase \in {"running", "skipping"}
      /\ phase' = "ok" => Runnable(flow) = visited \cup skipped /\ UNCHANGED skipped
  BY DEF StartsDone, Done, WorkerDies, Skip, Idle, WalkInv, PhasesAgree
<1>4. \/ UNCHANGED <<step, skipped, dropped>>
      \/ UNCHANGED <<step, skipped>> /\ dropped' = TRUE /\ phase' = "dead"
      \/ \E n \in Runnable(flow) \ (visited \cup skipped) :
           /\ skipped' = skipped \cup {n} /\ WriteIgnored(n, "skipped")
           /\ phase = "skipping" /\ phase' = "skipping"
  BY DEF StartsDone, Done, WorkerDies, Skip
<1>5. PhasesAgree'
  BY <1>1, <1>3 DEF PhasesAgree
<1>6. OutcomesAreFinal' /\ MergeAfterInputs'
  <2>1. Alive' => Alive /\ doing = NoNode
    BY <1>3 DEF Alive
  <2> QED
    BY <1>1, <1>2, <2>1 DEF WalkInv, OutcomesAreFinal, MergeAfterInputs
<1>7. Alive' => NothingIsForgotten'
  <2>1. Alive' => NothingIsForgotten
    BY <1>3 DEF WalkInv, Alive
  <2>2. Pending(ErrorTrigger(flow))' <=> Pending(ErrorTrigger(flow))
    BY <1>1 DEF Pending
  <2> QED
    BY <1>1, <1>2, <2>1, <2>2 DEF NothingIsForgotten
<1>8. CASE UNCHANGED <<step, skipped>>
  <2>1. TypeOK'
    BY <1>1, <1>3, <1>4, <1>8 DEF TypeOK
  <2>2. dropped \in BOOLEAN /\ (dropped => dropped')
    BY <1>4, <1>8 DEF WriteIgnored, TypeOK
  <2>3. StepsFollowWalk'
    BY <1>1, <1>2, <1>3, <1>8, <2>2 DEF WalkInv, StepsFollowWalk, Alive, Handled
  <2> QED
    BY <1>5, <1>6, <1>7, <2>1, <2>3 DEF WalkInv
<1>9. ASSUME NEW n \in Runnable(flow) \ (visited \cup skipped),
             skipped' = skipped \cup {n}, WriteIgnored(n, "skipped"),
             phase = "skipping", phase' = "skipping"
      PROVE  TypeOK' /\ WalkInv'
  <2>1. /\ step' \in [Planned(flow) -> StepStatus]
        /\ \A m \in Planned(flow) \ {n} : step'[m] = step[m]
        /\ step' = [step EXCEPT ![n] = "skipped"] => step'[n] = "skipped"
    BY <1>9, WriteFacts DEF WriteIgnored, StepStatus
  <2>2. /\ dropped' \in BOOLEAN /\ (dropped => dropped')
        /\ ~dropped' => step'[n] = "skipped"
    BY <1>9, <2>1 DEF WriteIgnored, TypeOK
  <2>3. TypeOK'
    BY <1>1, <1>9, <2>1, <2>2 DEF TypeOK
  <2>4. visited \subseteq Planned(flow) \ {n} /\ skipped \subseteq Planned(flow) \ {n}
        /\ visited \subseteq Runnable(flow)
    BY <1>2, <1>9 DEF TypeOK
  <2>5. StepsFollowWalk'
    <3>1. \A m \in Runnable(flow) \ (visited \cup skipped') : step'[m] = "queued"
      BY <1>2, <1>9, <2>1 DEF WalkInv, StepsFollowWalk
    <3>2. ~dropped' => \A m \in skipped' : step'[m] = "skipped"
      BY <1>9, <2>1, <2>2, <2>4 DEF WalkInv, StepsFollowWalk, Alive
    <3>3. ~dropped' => \A m \in visited : Handled(m)'
      <4> SUFFICES ASSUME ~dropped', NEW m \in visited PROVE Handled(m)'
        OBVIOUS
      <4>1. Handled(m)
        BY <1>2, <1>3, <1>9, <2>2, <2>4 DEF WalkInv, StepsFollowWalk, Alive
      <4> QED
        BY <1>1, <1>2, <2>1, <2>4, <4>1 DEF Handled
    <3> QED
      BY <1>1, <3>1, <3>2, <3>3 DEF StepsFollowWalk
  <2> QED
    BY <1>5, <1>6, <1>7, <2>3, <2>5 DEF WalkInv
<1> QED
  BY <1>4, <1>8, <1>9

\* Every step keeps the invariant.
LEMMA NextWalk == TypeOK /\ WalkInv /\ [Next]_vars => TypeOK' /\ WalkInv'
<1> SUFFICES ASSUME TypeOK, WalkInv, [Next]_vars PROVE TypeOK' /\ WalkInv'
  OBVIOUS
<1>1. CASE Plan
  BY <1>1, PlanKeeps
<1>2. CASE StartNode
  BY <1>2, StartNodeKeeps
<1>3. CASE FollowEdge
  BY <1>3, FollowEdgeKeeps
<1>4. CASE ReturnNode
  BY <1>4, ReturnNodeKeeps
<1>5. CASE StartsDone \/ Done \/ WorkerDies \/ \E n \in Runnable(flow) : Skip(n)
  BY <1>5, LastPhasesKeep
<1>6. ASSUME NEW n \in Runnable(flow), Node(n) \/ Retry(n)
      PROVE  TypeOK' /\ WalkInv'
  BY <1>6, SucceedKeeps, FailKeeps, CanceledKeeps, RetryKeeps DEF Node
<1>7. CASE UNCHANGED vars
  <2>1. /\ \A e : Followed(e)' <=> Followed(e)
        /\ WasRouted' <=> WasRouted
        /\ \A m : Fallible(m)' = Fallible(m) /\ Routed(m)' = Routed(m)
        /\ \A m : Pending(m)' <=> Pending(m)
    BY <1>7, FlowStays DEF vars, Followed, WasRouted, Pending
  <2>2. TypeOK'
    BY <1>7 DEF vars, TypeOK
  <2>3. PhasesAgree' /\ OutcomesAreFinal' /\ MergeAfterInputs'
    BY <1>7, <2>1 DEF vars, WalkInv, PhasesAgree, OutcomesAreFinal,
                      MergeAfterInputs, Alive
  <2>4. Alive' => NothingIsForgotten'
    <3>1. Pending(ErrorTrigger(flow))' <=> Pending(ErrorTrigger(flow))
      BY <1>7 DEF vars, Pending
    <3>2. Alive' => NothingIsForgotten
      BY <1>7 DEF vars, Alive, WalkInv
    <3> QED
      BY <1>7, <2>1, <3>1, <3>2 DEF vars, NothingIsForgotten
  <2>5. StepsFollowWalk'
    BY <1>7, <2>1 DEF vars, WalkInv, StepsFollowWalk, Alive, Handled
  <2> QED
    BY <2>2, <2>3, <2>4, <2>5 DEF WalkInv
<1> QED
  BY <1>1, <1>2, <1>3, <1>4, <1>5, <1>6, <1>7 DEF Next

\* The walk does what its stack, its outcomes and its steps say, in every state.
THEOREM WalkInvariant == Spec => [](TypeOK /\ WalkInv)
BY InitWalk, NextWalk, PTL DEF Spec

------------------------------------------------------------------------------
(* HandlerInv is inductive, where WalkInv holds.                                  *)

\* No failure waits for its call of the error trigger.
NoneWaits ==
  \A m \in Runnable(flow) : outcome[m] = "routed" => rescued = m \/ m \in tooLate

\* A failure that waits is the top of the stack while no node is executed.
LEMMA WaitsOnTop ==
  ASSUME TypeOK, HandlerInv,
         \/ doing # NoNode
         \/ stack = <<>>
         \/ stack[Len(stack)].left = {}
  PROVE  NoneWaits
<1> SUFFICES ASSUME NEW m \in Runnable(flow), outcome[m] = "routed", rescued # m,
                    m \notin tooLate
             PROVE  FALSE
  BY DEF NoneWaits
<1> DEFINE f == [node |-> m, left |-> {ErrorTrigger(flow)}]
<1>1. stack # <<>> /\ doing = NoNode /\ stack[Len(stack)] = f
  BY DEF HandlerInv, FailuresAreRouted
<1>2. f.left # {}
  OBVIOUS
<1> QED
  BY <1>1, <1>2

\* The initial state.
LEMMA InitHandler == Init => HandlerInv
BY DEF Init, HandlerInv, HandlerTypeOK, OnlyReachedNodesRun, FailuresAreRouted

\* The loop over the start nodes runs while no failure waits.
LEMMA StartNodeHandles ==
  ASSUME TypeOK, WalkInv, HandlerInv, StartNode
  PROVE  HandlerInv'
<1> DEFINE n == NextStartID(flow, starts)
<1>1. n \in StartIDs(flow)
  <2>1. starts # {} /\ starts \subseteq Runnable(flow) /\ starts \subseteq StartIDs(flow)
    BY FlowFacts DEF StartNode, TypeOK
  <2> QED
    BY <2>1, NextStartFacts DEF TypeOK
<1>2. NoneWaits
  BY WaitsOnTop DEF StartNode
<1>3. /\ UNCHANGED <<flow, stack, outcome, rescued, tooLate>>
      /\ visited' \subseteq visited \cup {n} /\ visited \subseteq visited'
  BY DEF StartNode, Call, Enter, handlerVars
<1> HIDE DEF n
<1>4. \A e : Followed(e)' <=> Followed(e)
  BY <1>3 DEF Followed
<1>5. HandlerTypeOK'
  BY <1>3 DEF HandlerInv, HandlerTypeOK
<1>6. OnlyReachedNodesRun'
  BY <1>1, <1>3, <1>4 DEF HandlerInv, OnlyReachedNodesRun, StartedHandler
<1>7. FailuresAreRouted'
  BY <1>2, <1>3 DEF HandlerInv, FailuresAreRouted, NoneWaits
<1> QED
  BY <1>5, <1>6, <1>7 DEF HandlerInv

\* A call that follows an edge, or that of the error trigger: a failure that waits
\* is the one it is made for.
LEMMA FollowEdgeHandles ==
  ASSUME TypeOK, WalkInv, HandlerInv, FollowEdge
  PROVE  HandlerInv'
<1> DEFINE top == stack[Len(stack)]
           n   == Least(top.left)
           t   == ErrorTrigger(flow)
<1>1. /\ Idle /\ stack # <<>> /\ top.left # {} /\ Call(n)
      /\ rescued' = IF outcome[top.node] = "routed" /\ Enterable(n) THEN top.node ELSE rescued
      /\ UNCHANGED <<flow, outcome, tooLate>>
  BY DEF FollowEdge
<1>2. top.left \subseteq Runnable(flow) /\ top.node \in Runnable(flow)
      /\ Len(stack) \in DOMAIN stack
  BY <1>1, StackTop DEF Frame
<1>3. n \in top.left
  <2>1. top.left \subseteq Nat
    BY <1>2, FlowFacts DEF TypeOK
  <2> QED
    BY <1>1, <2>1, LeastIsLeast
<1>4. n \in Targets(flow, top.node, outcome[top.node])
      /\ outcome[top.node] \in Passed \cup {"routed"}
  BY <1>2, <1>3 DEF WalkInv, OutcomesAreFinal
<1>5. outcome[top.node] = "routed" => n = t
  BY <1>4 DEF Targets
<1>6. visited' = IF Enterable(n) THEN visited \cup {n} ELSE visited
  BY <1>1 DEF Call, Enter
<1>7. NoNode \notin Runnable(flow)
  BY FlowFacts, NoNodeAssumption DEF TypeOK
<1>8. Enterable(n) => n \notin visited
  BY DEF Enterable
<1> HIDE DEF n
<1>9. \A e : Followed(e)' <=> Followed(e)
  BY <1>1 DEF Followed
<1>10. HandlerTypeOK'
  BY <1>1, <1>2 DEF HandlerInv, HandlerTypeOK
<1>11. OnlyReachedNodesRun'
  <2> SUFFICES ASSUME NEW m \in visited'
               PROVE  \/ flow.kind[m] # "errorTrigger" /\ m \in StartIDs(flow)
                      \/ \E e \in Into(flow, m) : Followed(e)
                      \/ rescued' # NoNode /\ outcome[rescued'] = "routed" /\ m = t
                      \/ StartedHandler(m)
    BY <1>1, <1>9 DEF OnlyReachedNodesRun, StartedHandler
  <2>1. CASE m \in visited
    <3>1. rescued # NoNode /\ outcome[rescued] = "routed" /\ m = t
            => rescued' # NoNode /\ outcome[rescued'] = "routed"
      BY <1>1, <1>2, <1>7
    <3> QED
      BY <2>1, <3>1 DEF HandlerInv, OnlyReachedNodesRun
  <2>2. CASE m \notin visited
    <3>1. m = n /\ Enterable(n)
      BY <1>6, <2>2
    <3>2. CASE outcome[top.node] = "routed"
      BY <1>1, <1>2, <1>5, <1>7, <3>1, <3>2
    <3>3. CASE outcome[top.node] # "routed"
      <4>1. PICK e \in NextEdges(flow, top.node, outcome[top.node]) : e.to = n
        BY <1>4, <3>3 DEF Targets
      <4>2. e \in OutOf(flow, top.node)
        BY <4>1 DEF NextEdges
      <4>3. e \in Into(flow, n) /\ e.from = top.node
        BY <4>1, <4>2 DEF Into, OutOf
      <4>4. Followed(e)
        BY <1>4, <3>3, <4>1, <4>3 DEF Followed
      <4> QED
        BY <3>1, <4>3, <4>4
    <3> QED
      BY <3>2, <3>3
  <2> QED
    BY <2>1, <2>2
<1>12. FailuresAreRouted'
  <2>1. rescued' # NoNode => outcome[rescued'] = "routed" /\ t \in visited'
    BY <1>1, <1>5, <1>6 DEF HandlerInv, FailuresAreRouted
  <2>2. ASSUME NEW m \in Runnable(flow), outcome[m] = "routed", m \notin tooLate
        PROVE  rescued' = m
    <3>1. CASE rescued = m
      <4>1. t \in visited
        BY <1>7, <3>1 DEF HandlerInv, FailuresAreRouted
      <4> QED
        BY <1>1, <1>5, <1>8, <3>1, <4>1
    <3>2. CASE rescued # m
      <4>1. top = [node |-> m, left |-> {t}] /\ t \notin visited
        BY <2>2, <3>2 DEF HandlerInv, FailuresAreRouted
      <4>2. top.node = m /\ top.left = {t} /\ n = t
        BY <1>3, <4>1
      <4>3. t \in Runnable(flow) /\ flow.kind[t] = "errorTrigger"
        BY <2>2, FlowFacts DEF WalkInv, OutcomesAreFinal, Routed, TypeOK
      <4>4. Enterable(n)
        BY <4>1, <4>2, <4>3 DEF Enterable
      <4> QED
        BY <1>1, <2>2, <4>2, <4>4
    <3> QED
      BY <3>1, <3>2
  <2> QED
    BY <1>1, <2>1, <2>2 DEF FailuresAreRouted
<1> QED
  BY <1>10, <1>11, <1>12 DEF HandlerInv

\* A node is done, and if its failure was routed the error trigger is called next,
\* unless it was executed before.
LEMMA OutcomeHandles ==
  ASSUME TypeOK, WalkInv, HandlerInv, NEW n \in Runnable(flow), NEW o,
         doing = n, outcome' = [outcome EXCEPT ![n] = o],
         UNCHANGED <<flow, visited, rescued>>,
         tooLate' = IF o = "routed" /\ ErrorTrigger(flow) \in visited
                    THEN tooLate \cup {n} ELSE tooLate,
         o = "routed" => /\ doing' = NoNode
                         /\ stack' # <<>>
                         /\ stack'[Len(stack')] = [node |-> n, left |-> {ErrorTrigger(flow)}]
  PROVE  HandlerInv'
<1>1. NoneWaits /\ outcome[n] = "none"
  BY WaitsOnTop, FlowFacts, NoNodeAssumption DEF TypeOK, WalkInv, PhasesAgree
<1>2. /\ outcome'[n] = o
      /\ \A m : m # n => outcome'[m] = outcome[m]
  <2>1. n \in DOMAIN outcome
    BY DEF TypeOK
  <2> QED
    BY <2>1
<1>3. \A e : Followed(e) => Followed(e)'
  BY <1>1, <1>2 DEF Followed, Passed
<1>4. HandlerTypeOK'
  BY DEF HandlerInv, HandlerTypeOK
<1>5. outcome[rescued] = "routed" => outcome'[rescued] = "routed"
  BY <1>1, <1>2
<1>6. OnlyReachedNodesRun'
  <2>1. \A m : StartedHandler(m)' <=> StartedHandler(m)
    BY DEF StartedHandler
  <2> QED
    BY <1>3, <1>5, <2>1 DEF HandlerInv, OnlyReachedNodesRun
<1>7. FailuresAreRouted'
  <2>1. rescued # NoNode => outcome'[rescued] = "routed" /\ ErrorTrigger(flow) \in visited
    BY <1>5 DEF HandlerInv, FailuresAreRouted
  <2>2. ASSUME NEW m \in Runnable(flow), outcome'[m] = "routed", rescued # m, m \notin tooLate'
        PROVE  m = n /\ o = "routed" /\ ErrorTrigger(flow) \notin visited
    BY <1>1, <1>2, <2>2 DEF NoneWaits
  <2> QED
    BY <2>1, <2>2 DEF FailuresAreRouted
<1> QED
  BY <1>4, <1>6, <1>7 DEF HandlerInv

\* A node ends.
LEMMA NodeHandles ==
  ASSUME TypeOK, WalkInv, HandlerInv, NEW n \in Runnable(flow), Node(n)
  PROVE  HandlerInv'
<1>1. CASE Fail(n)
  <2>1. PICK o : /\ outcome' = [outcome EXCEPT ![n] = o]
                 /\ o = "routed" => GoOn(n, o)
    <3>1. \E o \in {"caught", "routed", "continued"} : GoOn(n, o) \/ Abort(n, "error")
      BY <1>1 DEF Fail
    <3>2. CASE Abort(n, "error")
      <4>1. outcome' = [outcome EXCEPT ![n] = "error"]
        BY <3>2 DEF Abort
      <4>2. "error" = "routed" => GoOn(n, "error")
        OBVIOUS
      <4> QED
        BY <4>1, <4>2, Zenon
    <3>3. CASE \E o \in {"caught", "routed", "continued"} : GoOn(n, o)
      BY <3>3 DEF GoOn
    <3> QED
      BY <3>1, <3>2, <3>3
  <2>2. outcome'[n] = o
    BY <2>1 DEF TypeOK
  <2>3. stack \in Seq(Frame)
    BY DEF TypeOK, Frame
  <2>4. o = "routed" => /\ doing' = NoNode
                        /\ stack' = Append(stack, [node |-> n, left |-> {ErrorTrigger(flow)}])
    BY <2>1 DEF GoOn, Targets
  <2>5. o = "routed" =>
          /\ stack' # <<>>
          /\ stack'[Len(stack')] = [node |-> n, left |-> {ErrorTrigger(flow)}]
    BY <2>3, <2>4
  <2>6. /\ doing = n /\ UNCHANGED <<flow, visited, rescued>>
        /\ tooLate' = IF o = "routed" /\ ErrorTrigger(flow) \in visited
                      THEN tooLate \cup {n} ELSE tooLate
    BY <1>1, <2>2 DEF Fail
  <2> QED
    BY <2>1, <2>4, <2>5, <2>6, OutcomeHandles
<1>2. CASE Succeed(n) \/ Interrupt(n) \/ TimeOut(n)
  <2>1. PICK o : o # "routed" /\ outcome' = [outcome EXCEPT ![n] = o]
    BY <1>2 DEF Succeed, Interrupt, TimeOut, Canceled, GoOn, Abort
  <2>2. doing = n /\ UNCHANGED <<flow, visited, rescued, tooLate>>
    BY <1>2 DEF Succeed, Interrupt, TimeOut, Canceled, handlerVars
  <2> QED
    BY <2>1, <2>2, OutcomeHandles
<1> QED
  BY <1>1, <1>2 DEF Node

\* Every step keeps it.
LEMMA NextHandles ==
  ASSUME TypeOK, WalkInv, HandlerInv, [Next]_vars
  PROVE  HandlerInv'
<1>1. CASE StartNode
  BY <1>1, StartNodeHandles
<1>2. CASE FollowEdge
  BY <1>2, FollowEdgeHandles
<1>3. CASE \E n \in Runnable(flow) : Node(n)
  BY <1>3, NodeHandles
<1>4. CASE ReturnNode
  <2>1. NoneWaits
    BY <1>4, WaitsOnTop DEF ReturnNode
  <2>2. UNCHANGED <<flow, visited, outcome, rescued, tooLate>>
    BY <1>4 DEF ReturnNode, handlerVars
  <2> QED
    BY <2>1, <2>2 DEF HandlerInv, HandlerTypeOK, OnlyReachedNodesRun, FailuresAreRouted,
                      NoneWaits, Followed, StartedHandler
<1>5. CASE \/ Plan \/ StartsDone \/ Done \/ WorkerDies \/ UNCHANGED vars
           \/ \E n \in Runnable(flow) : Retry(n) \/ Skip(n)
  <2>1. UNCHANGED <<flow, visited, stack, outcome, rescued, tooLate>>
        /\ doing' \in {doing, NoNode}
    BY <1>5 DEF Plan, StartsDone, Done, WorkerDies, Retry, Skip, vars, handlerVars
  <2> QED
    BY <2>1 DEF HandlerInv, HandlerTypeOK, OnlyReachedNodesRun, FailuresAreRouted,
                Followed, StartedHandler
<1> QED
  BY <1>1, <1>2, <1>3, <1>4, <1>5 DEF Next

\* The walk, and who handles its failures, in every state.
THEOREM HandlerInvariant == Spec => [](TypeOK /\ WalkInv /\ HandlerInv)
BY InitWalk, NextWalk, InitHandler, NextHandles, PTL DEF Spec

------------------------------------------------------------------------------
(* What follows from them.                                                        *)

\* When the walk is over nothing is owed any more: what was not executed was not
\* reached, or is a merge that was reached in part.
LEMMA WalkSkipsForAReason == TypeOK /\ WalkInv => SkippedForAReason
<1> SUFFICES ASSUME TypeOK, WalkInv, phase = "ok", NEW n \in Runnable(flow) \ visited
             PROVE  /\ n \notin StartIDs(flow) \/ flow.kind[n] = "merge"
                    /\ \/ \A e \in Into(flow, n) : ~Followed(e)
                       \/ flow.kind[n] = "merge" /\ \E e \in Into(flow, n) : ~Followed(e)
  BY DEF SkippedForAReason
<1>1. NothingIsForgotten /\ stack = <<>> /\ starts = {}
  BY DEF WalkInv, Alive, PhasesAgree
<1>2. ~Pending(n)
  BY <1>1 DEF Pending
<1>3. n \notin StartIDs(flow) \/ flow.kind[n] = "merge"
  BY <1>1 DEF NothingIsForgotten
<1>4. CASE flow.kind[n] # "merge"
  BY <1>1, <1>2, <1>3, <1>4 DEF NothingIsForgotten
<1>5. CASE flow.kind[n] = "merge"
  BY <1>1, <1>2, <1>5 DEF NothingIsForgotten
<1> QED
  BY <1>3, <1>4, <1>5

\* What the flow reaches is executed, and nothing else (executeNode), but error
\* triggers of a flow without another trigger; for every flow: whatever branches,
\* error branches, cycles and merges it has.
THEOREM ReachedIsExecutedAlways == Spec => []ReachedIsExecuted
<1>1. TypeOK /\ WalkInv /\ HandlerInv => ReachedIsExecuted
  BY WalkSkipsForAReason DEF ReachedIsExecuted, HandlerInv
<1> QED
  BY <1>1, HandlerInvariant, PTL

\* A merge waits for all its inputs (mergeInputsReady), although the nodes before
\* it are marked visited while they are still on the stack.
THEOREM MergeAfterInputsAlways == Spec => []MergeAfterInputs
<1>1. WalkInv => MergeAfterInputs
  BY DEF WalkInv
<1> QED
  BY <1>1, WalkInvariant, PTL

\* A node whose failure was routed is the one that the error trigger was executed
\* for, and an error trigger cannot fail; or it came too late.
LEMMA WalkHandlesFailures == TypeOK /\ WalkInv /\ HandlerInv => SuccessMeansHandled
<1> SUFFICES ASSUME TypeOK, WalkInv, HandlerInv, phase = "ok", ~dropped,
                    NEW n \in Runnable(flow)
             PROVE  \/ step[n] \in {"success", "skipped"}
                    \/ /\ step[n] = "failed"
                       /\ \/ n \in flow.continues
                          \/ rescued = n /\ step[ErrorTrigger(flow)] = "success"
                          \/ n \in tooLate
  BY DEF SuccessMeansHandled
<1>1. /\ doing = NoNode /\ stack = <<>> /\ Runnable(flow) = visited \cup skipped
      /\ \A m \in skipped : step[m] = "skipped"
      /\ \A m \in visited \ {NoNode} : Handled(m)
  BY DEF WalkInv, Alive, PhasesAgree, StepsFollowWalk
<1>2. NoNode \notin Runnable(flow)
  BY FlowFacts, NoNodeAssumption DEF TypeOK
<1>3. \A m \in visited : Handled(m)
  BY <1>1, <1>2
<1>4. CASE n \in skipped
  BY <1>1, <1>4
<1>5. CASE n \in visited /\ outcome[n] # "routed"
  BY <1>3, <1>5 DEF Handled
<1>6. CASE n \in visited /\ outcome[n] = "routed"
  <2>1. rescued = n \/ n \in tooLate
    BY <1>1, <1>6, WaitsOnTop DEF NoneWaits
  <2>2. CASE rescued = n
    <3> DEFINE t == ErrorTrigger(flow)
    <3>1. Routed(n) /\ t \in visited
      BY <1>2, <1>6, <2>2 DEF WalkInv, OutcomesAreFinal, HandlerInv, FailuresAreRouted
    <3>2. flow.kind[t] = "errorTrigger"
      BY <3>1, FlowFacts DEF Routed, TypeOK
    <3>3. step[t] = "success"
      BY <1>3, <3>1, <3>2 DEF Handled, Fallible
    <3> QED
      BY <1>3, <1>6, <2>2, <3>3 DEF Handled
  <2>3. CASE n \in tooLate
    BY <1>3, <1>6, <2>3 DEF Handled
  <2> QED
    BY <2>1, <2>2, <2>3
<1> QED
  BY <1>1, <1>4, <1>5, <1>6

\* The activity returns nil only if the flow tolerated every failure: the node
\* continues, or the error trigger was executed for this very node and succeeded.
\* The one exception are failures routed to an error trigger that had been
\* executed before: those are dropped.
THEOREM SuccessMeansHandledAlways == Spec => []SuccessMeansHandled
BY WalkHandlesFailures, HandlerInvariant, PTL

\* A step is written only while it is absent, queued or running.
LEMMA OpenStepsAreWritten ==
  ASSUME TypeOK, WalkInv, [Next]_vars
  PROVE  \A n \in Planned(flow) : step[n] \in ClosedStep => step'[n] = step[n]
<1>1. ASSUME NEW m \in Runnable(flow), NEW s, step[m] \notin ClosedStep,
             step' \in {step, [step EXCEPT ![m] = s]}
      PROVE  \A n \in Planned(flow) : step[n] \in ClosedStep => step'[n] = step[n]
  BY <1>1 DEF TypeOK
<1>2. ASSUME NEW m, Idle, Call(m)
      PROVE  \A n \in Planned(flow) : step[n] \in ClosedStep => step'[n] = step[n]
  <2>1. CASE ~Enterable(m)
    BY <1>2, <2>1 DEF Call
  <2>2. CASE Enterable(m)
    <3>1. m \in Runnable(flow) \ visited /\ phase = "running" /\ skipped = {}
      BY <1>2, <2>2 DEF Enterable, Idle, WalkInv, PhasesAgree
    <3>2. step[m] \notin ClosedStep
      BY <3>1 DEF WalkInv, StepsFollowWalk, ClosedStep
    <3>3. step' \in {step, [step EXCEPT ![m] = "running"]}
      BY <1>2, <2>2 DEF Call, Enter
    <3> QED
      BY <1>1, <3>1, <3>2, <3>3
  <2> QED
    BY <2>1, <2>2
<1>3. CASE StartNode \/ FollowEdge
  BY <1>2, <1>3 DEF StartNode, FollowEdge
<1>4. CASE Plan
  <2>1. \A n \in Planned(flow) : step[n] \notin ClosedStep
    BY <1>4 DEF Plan, WalkInv, PhasesAgree, ClosedStep
  <2> QED
    BY <2>1
<1>5. ASSUME NEW m \in Runnable(flow), Node(m) \/ Retry(m)
      PROVE  \A n \in Planned(flow) : step[n] \in ClosedStep => step'[n] = step[n]
  <2>1. doing = m
    BY <1>5 DEF Node, Succeed, Fail, Interrupt, TimeOut, Canceled, Retry
  <2>2. step[m] \notin ClosedStep
    BY <2>1, FlowFacts, NoNodeAssumption DEF TypeOK, WalkInv, PhasesAgree, ClosedStep
  <2>3. \E s : step' \in {step, [step EXCEPT ![m] = s]}
    BY <1>5 DEF Node, Succeed, Fail, Interrupt, TimeOut, Canceled, Retry, WriteIgnored
  <2> QED
    BY <1>1, <2>2, <2>3
<1>6. ASSUME NEW m \in Runnable(flow), Skip(m)
      PROVE  \A n \in Planned(flow) : step[n] \in ClosedStep => step'[n] = step[n]
  <2>1. step[m] \notin ClosedStep
    BY <1>6 DEF Skip, WalkInv, StepsFollowWalk, ClosedStep
  <2>2. step' \in {step, [step EXCEPT ![m] = "skipped"]}
    BY <1>6 DEF Skip, WriteIgnored
  <2> QED
    BY <1>1, <2>1, <2>2
<1>7. CASE ReturnNode \/ StartsDone \/ Done \/ WorkerDies \/ UNCHANGED vars
  BY <1>7 DEF ReturnNode, StartsDone, Done, WorkerDies, vars
<1> QED
  BY <1>3, <1>4, <1>5, <1>6, <1>7 DEF Next

\* A closed step stays as it is: executeNode executes no node twice, and the last
\* loop passes by what was executed.
THEOREM StepsCloseOnceAlways == Spec => StepsCloseOnce
<1>1. TypeOK /\ WalkInv /\ [Next]_vars
        => [\A n \in Planned(flow) : step[n] \in ClosedStep => step'[n] = step[n]]_vars
  BY OpenStepsAreWritten
<1> QED
  BY <1>1, WalkInvariant, PTL DEF Spec, StepsCloseOnce

------------------------------------------------------------------------------
(* FlowExecutor implements the executor of RunLifecycle, for every flow.   *)

\* One run: reading and updating what it maps to.
LEMMA TheRunFacts ==
  /\ \A x : TheRun(x)["run"] = x
  /\ \A x, y : [TheRun(x) EXCEPT !["run"] = y] = TheRun(y)
  /\ \A x, s, v : [TheRun(x) EXCEPT !["run"][s] = v] = TheRun([x EXCEPT ![s] = v])
BY DEF TheRun

\* The steps of the run are the planned ones, which are the nodes and the manual
\* step; what the executor writes it writes on existing rows.
LEMMA RowsFacts ==
  ASSUME SizeFits, flow \in Flows, flow' = flow, TypeOK
  PROVE  /\ Planned(flow)' = Planned(flow) /\ Planned(flow) \subseteq 0..Size
         /\ Runnable(flow) \subseteq Planned(flow)
         /\ Life!NodeSteps("run") = Runnable(flow)
         /\ \A n \in Planned(flow) : StepRows[n] = step[n]
         /\ step' = step => StepRows' = StepRows
         /\ \A n \in Planned(flow) : \A v :
              step' = [step EXCEPT ![n] = v] => StepRows' = [StepRows EXCEPT ![n] = v]
<1>1. Planned(flow)' = Planned(flow)
  BY DEF Planned
<1>2. flow.size \in Nat /\ flow.size <= Size /\ Size \in Nat
  BY DEF SizeFits, TypeOK, IsFlow
<1>3. Planned(flow) \subseteq 0..Size /\ Runnable(flow) = Planned(flow) \ {Manual}
  BY <1>2 DEF Planned, Manual, Runnable, NodesOf
<1>4. Life!NodeSteps("run") = Runnable(flow)
  BY <1>3, TheRunFacts DEF Life!NodeSteps
<1>5. \A n \in Planned(flow) : StepRows[n] = step[n]
  BY <1>3 DEF StepRows
<1>6. step' = step => StepRows' = StepRows
  BY <1>1 DEF StepRows
<1>7. ASSUME NEW n \in Planned(flow), NEW v, step' = [step EXCEPT ![n] = v]
      PROVE  StepRows' = [StepRows EXCEPT ![n] = v]
  <2>1. step \in [Planned(flow) -> StepStatus]
    BY DEF TypeOK
  <2>2. \A m \in Planned(flow) : step'[m] = IF m = n THEN v ELSE step[m]
    BY <1>7, <2>1
  <2> QED
    BY <1>1, <1>3, <2>2 DEF StepRows
<1> QED
  BY <1>1, <1>3, <1>4, <1>5, <1>6, <1>7

\* What does not show in a run.
LEMMA Unseen ==
  ASSUME SizeFits, flow \in Flows, TypeOK,
         UNCHANGED <<flow, step, phase, visited, skipped, doing, dropped>>
  PROVE  UNCHANGED Life!vars
<1>1. StepRows' = StepRows /\ Planned(flow)' = Planned(flow)
  BY RowsFacts
<1> QED
  BY <1>1 DEF Life!vars, Life!rowVars, Life!serverVars, Life!execVars, Life!apiVars

\* A write of a step, and one whose error is ignored.
LEMMA WriteRefines ==
  ASSUME SizeFits, flow \in Flows, flow' = flow, TypeOK, NEW n \in Planned(flow),
         step[n] # "absent", NEW s
  PROVE  /\ step' = [step EXCEPT ![n] = s] => Life!UpdateState("run", n, s)
         /\ WriteIgnored(n, s) =>
              \/ Life!UpdateState("run", n, s) /\ UNCHANGED TheRun(dropped)
              \/ Life!Drop("run") /\ UNCHANGED TheRun(StepRows)
<1>1. StepRows[n] # "absent"
  BY RowsFacts
<1>2. step' = [step EXCEPT ![n] = s] => Life!UpdateState("run", n, s)
  <2> SUFFICES ASSUME step' = [step EXCEPT ![n] = s] PROVE Life!UpdateState("run", n, s)
    OBVIOUS
  <2>1. StepRows' = [StepRows EXCEPT ![n] = s]
    BY RowsFacts
  <2>2. TheRun(StepRows)' = [TheRun(StepRows) EXCEPT !["run"][n] = s]
    <3>1. TheRun([StepRows EXCEPT ![n] = s]) = [TheRun(StepRows) EXCEPT !["run"][n] = s]
      BY TheRunFacts
    <3> QED
      BY <2>1, <3>1
  <2>3. TheRun(StepRows)["run"][n] # "absent"
    BY <1>1, TheRunFacts
  <2> QED
    BY <2>2, <2>3 DEF Life!UpdateState
<1>3. step' = step => UNCHANGED TheRun(StepRows)
  BY RowsFacts
<1>4. dropped' = TRUE => Life!Drop("run")
  BY TheRunFacts DEF Life!Drop
<1> QED
  BY <1>2, <1>3, <1>4 DEF WriteIgnored

\* The initial state is the one in which the attempt was taken.
LEMMA InitRefines == Init => phase = "planning" /\ visited \cup skipped = {} /\ doing = NoNode
BY DEF Init

\* CreateMany is PlanSteps.
LEMMA PlanRefines ==
  ASSUME SizeFits, TypeOK, WalkInv, flow \in Flows, Plan
  PROVE  Life!PlanSteps("run")
<1>1. /\ phase = "planning" /\ visited = {} /\ skipped = {}
      /\ UNCHANGED <<flow, visited, skipped, doing, dropped>>
      /\ \/ /\ step' = [n \in Planned(flow) |-> "queued"]
            /\ phase' \in {"running", "error"}
         \/ phase' = "error" /\ step' = step
  BY DEF Plan, WalkInv, PhasesAgree
<1>2. Planned(flow)' = Planned(flow) /\ Planned(flow) \subseteq 0..Size
  BY <1>1, RowsFacts
<1> DEFINE queue == [s \in 0..Size |-> IF s \in Planned(flow) THEN "queued" ELSE StepRows[s]]
<1>3. step' = [n \in Planned(flow) |-> "queued"] => StepRows' = queue
  BY <1>2 DEF StepRows
<1>4. step' = step => StepRows' = StepRows
  BY <1>1, RowsFacts
<1>5. Life!HasRow("run") /\ Life!ExecOnly
  BY TheRunFacts DEF Life!HasRow, Life!InTable, Life!ExecOnly, Life!rowVars,
                     Life!serverVars, Life!apiVars
<1>6. \/ /\ TheRun(StepRows)' = [TheRun(StepRows) EXCEPT !["run"] = queue]
         /\ \E e \in {"running", "error"} : TheRun(phase)' = [TheRun(phase) EXCEPT !["run"] = e]
      \/ /\ TheRun(phase)' = [TheRun(phase) EXCEPT !["run"] = "error"]
         /\ UNCHANGED TheRun(StepRows)
  <2> HIDE DEF queue
  <2> QED
    BY <1>1, <1>3, <1>4, TheRunFacts
<1>7. /\ TheRun(visited \cup skipped)' = [TheRun(visited \cup skipped) EXCEPT !["run"] = {}]
      /\ UNCHANGED <<TheRun(Planned(flow)), TheRun(doing), TheRun(dropped)>>
  BY <1>1, <1>2, TheRunFacts
<1> QED
  BY <1>1, <1>5, <1>6, <1>7, TheRunFacts DEF Life!PlanSteps

\* A call of executeNode: the node is entered, which is StepBegins, or nothing
\* happens that the run shows.
LEMMA CallRefines ==
  ASSUME SizeFits, TypeOK, WalkInv, flow \in Flows, Idle, NEW n, Call(n),
         UNCHANGED <<flow, skipped, dropped>>
  PROVE  (\E s \in 0..Size : Life!StepBegins("run", s)) \/ UNCHANGED Life!vars
<1>1. CASE ~Enterable(n)
  BY <1>1, Unseen DEF Call
<1>2. CASE Enterable(n)
  <2>1. /\ phase = "running" /\ doing = NoNode /\ skipped = {}
        /\ n \in Runnable(flow) /\ n \notin visited \cup skipped
        /\ visited' \cup skipped' = (visited \cup skipped) \cup {n}
    BY <1>2 DEF Idle, Call, Enter, Enterable, WalkInv, PhasesAgree
  <2>2. step[n] = "queued" /\ n \in Planned(flow) /\ n \in 0..Size
    BY <2>1, RowsFacts DEF WalkInv, StepsFollowWalk
  <2>3. \/ /\ Life!UpdateState("run", n, "running")
           /\ \/ doing' = n /\ phase' = phase
              \/ doing' = doing /\ phase' = "error"
        \/ StepRows' = StepRows /\ doing' = doing /\ phase' = "error"
    BY <1>2, <2>2, WriteRefines, RowsFacts DEF Call, Enter
  <2>4. Life!ExecOnly /\ dropped' = dropped /\ Planned(flow)' = Planned(flow)
    BY RowsFacts DEF Life!ExecOnly, Life!rowVars, Life!serverVars, Life!apiVars
  <2>5. n \in Life!NodeSteps("run") \ TheRun(visited \cup skipped)["run"]
    BY <2>1, RowsFacts, TheRunFacts
  <2>6. Life!StepBegins("run", n)
    BY <2>1, <2>3, <2>4, <2>5, TheRunFacts DEF Life!StepBegins
  <2> QED
    BY <2>2, <2>6
<1> QED
  BY <1>1, <1>2

\* The step of the node that is being executed exists, and the run shows nothing
\* of the activity's other variables.
LEMMA DoingFacts ==
  ASSUME SizeFits, TypeOK, WalkInv, flow \in Flows, flow' = flow,
         NEW n \in Runnable(flow), doing = n
  PROVE  /\ n \in Planned(flow) /\ n \in 0..Size /\ step[n] = "running"
         /\ [step EXCEPT ![n] = "running"] = step
         /\ Life!ExecOnly
<1>1. n \in Planned(flow) /\ n \in 0..Size /\ step[n] = "running"
  BY RowsFacts, FlowFacts, NoNodeAssumption DEF TypeOK, WalkInv, PhasesAgree
<1>2. [step EXCEPT ![n] = "running"] = step
  BY <1>1 DEF TypeOK
<1>3. Life!ExecOnly
  BY DEF Life!ExecOnly, Life!rowVars, Life!serverVars, Life!apiVars
<1> QED
  BY <1>1, <1>2, <1>3

\* How a node ends is how its step ends.
LEMMA NodeRefines ==
  ASSUME SizeFits, TypeOK, WalkInv, flow \in Flows, NEW n \in Runnable(flow), Node(n)
  PROVE  Life!ExecuteNode("run")
<1>1. /\ phase = "running" /\ doing = n /\ doing' = NoNode
      /\ UNCHANGED <<flow, visited, skipped>>
  BY DEF Node, Succeed, Fail, Interrupt, TimeOut, Canceled, GoOn, Abort
<1>2. /\ n \in Planned(flow) /\ n \in 0..Size /\ step[n] # "absent" /\ Life!ExecOnly
      /\ Planned(flow)' = Planned(flow)
  BY <1>1, DoingFacts, RowsFacts
<1>3. \A e : phase' = e => Life!Leave("run", e)
  BY <1>1, <1>2, TheRunFacts DEF Life!Leave
<1>4. CASE Succeed(n)
  <2>1. /\ \/ step' = [step EXCEPT ![n] = "success"] /\ phase' \in {"running", "error"}
           \/ step' = step /\ phase' = "error"
        /\ dropped' = dropped
    BY <1>1, <1>4 DEF Succeed, GoOn, Abort
  <2>2. \/ Life!UpdateState("run", n, "success") /\ phase' \in {"running", "error"}
        \/ StepRows' = StepRows /\ phase' = "error"
    BY <1>1, <1>2, <2>1, WriteRefines, RowsFacts
  <2>3. Life!StepSucceeds("run", n)
    BY <1>1, <1>3, <2>1, <2>2, TheRunFacts DEF Life!StepSucceeds
  <2> QED
    BY <1>2, <2>3 DEF Life!ExecuteNode, Life!Executor
<1>5. CASE Fail(n)
  <2>1. PICK w \in {"failed", "success"} :
          /\ WriteIgnored(n, w)
          /\ phase' \in {"running", "error"}
          /\ w = "success" => phase' = "running"
    BY <1>1, <1>5 DEF Fail, GoOn, Abort
  <2>2. \/ Life!UpdateState("run", n, w) /\ UNCHANGED TheRun(dropped)
        \/ Life!Drop("run") /\ UNCHANGED TheRun(StepRows)
    BY <1>1, <1>2, <2>1, WriteRefines
  <2>3. Life!StepFails("run", n)
    BY <1>1, <1>3, <2>1, <2>2, TheRunFacts DEF Life!StepFails
  <2> QED
    BY <1>2, <2>3 DEF Life!ExecuteNode, Life!Executor
<1>6. CASE Interrupt(n) \/ TimeOut(n)
  <2>1. WriteIgnored(n, "canceled") /\ phase' = "error"
    BY <1>6 DEF Interrupt, TimeOut, Canceled, Abort
  <2>2. \/ Life!UpdateState("run", n, "canceled") /\ UNCHANGED TheRun(dropped)
        \/ Life!Drop("run") /\ UNCHANGED TheRun(StepRows)
    BY <1>1, <1>2, <2>1, WriteRefines
  <2>3. Life!StepInterrupted("run", n)
    BY <1>1, <1>3, <2>1, <2>2, TheRunFacts DEF Life!StepInterrupted
  <2> QED
    BY <1>2, <2>3 DEF Life!ExecuteNode
<1> QED
  BY <1>4, <1>5, <1>6 DEF Node

\* An attempt after the first writes the step running again, which it is.
LEMMA RetryRefines ==
  ASSUME SizeFits, TypeOK, WalkInv, flow \in Flows, NEW n \in Runnable(flow), Retry(n)
  PROVE  UNCHANGED Life!vars
<1>1. /\ doing = n /\ UNCHANGED <<flow, phase, visited, skipped, doing, dropped>>
      /\ step' \in {step, [step EXCEPT ![n] = "running"]}
  BY DEF Retry
<1>2. step' = step
  BY <1>1, DoingFacts
<1> QED
  BY <1>1, <1>2, Unseen

\* What was not reached is skipped, and the activity returns or its worker dies.
LEMMA LastPhasesRefine ==
  ASSUME SizeFits, TypeOK, WalkInv, flow \in Flows,
         StartsDone \/ Done \/ WorkerDies \/ \E n \in Runnable(flow) : Skip(n)
  PROVE  Life!ExecuteNode("run")
<1> flow' = flow
  BY DEF StartsDone, Done, WorkerDies, Skip
<1>1. Life!ExecOnly /\ Planned(flow)' = Planned(flow)
  BY RowsFacts DEF Life!ExecOnly, Life!rowVars, Life!serverVars, Life!apiVars
<1>2. step' = step => UNCHANGED TheRun(StepRows)
  BY RowsFacts
<1>3. CASE StartsDone
  <2>1. Life!StartsDone("run")
    BY <1>1, <1>2, <1>3, TheRunFacts DEF StartsDone, Idle, Life!StartsDone
  <2> QED
    BY <2>1 DEF Life!ExecuteNode, Life!Executor
<1>4. CASE Done
  <2>1. TheRun(visited \cup skipped)["run"] = Life!NodeSteps("run")
    BY <1>4, RowsFacts, TheRunFacts DEF Done
  <2>2. Life!ExecDone("run")
    BY <1>1, <1>2, <1>4, <2>1, TheRunFacts DEF Done, Life!ExecDone
  <2> QED
    BY <2>2 DEF Life!ExecuteNode, Life!Executor
<1>5. CASE WorkerDies
  <2>1. Life!WorkerDies("run")
    BY <1>1, <1>2, <1>5, TheRunFacts DEF WorkerDies, Life!WorkerDies, Life!Active, Life!Drop
  <2> QED
    BY <2>1 DEF Life!ExecuteNode
<1>6. ASSUME NEW n \in Runnable(flow), Skip(n)
      PROVE  Life!ExecuteNode("run")
  <2>1. /\ n \notin visited \cup skipped /\ step[n] = "queued"
        /\ phase = "skipping" /\ UNCHANGED <<phase, doing>>
        /\ visited' \cup skipped' = (visited \cup skipped) \cup {n}
        /\ WriteIgnored(n, "skipped")
    BY <1>6 DEF Skip, WalkInv, StepsFollowWalk
  <2>2. n \in Planned(flow) /\ n \in 0..Size
    BY RowsFacts
  <2>3. \/ Life!UpdateState("run", n, "skipped") /\ UNCHANGED TheRun(dropped)
        \/ Life!Drop("run") /\ UNCHANGED TheRun(StepRows)
    BY <2>1, <2>2, WriteRefines
  <2>4. TheRun(visited \cup skipped)'
          = [TheRun(visited \cup skipped) EXCEPT
               !["run"] = TheRun(visited \cup skipped)["run"] \cup {n}]
    BY <2>1, TheRunFacts
  <2>5. n \in Life!NodeSteps("run") \ TheRun(visited \cup skipped)["run"]
    BY <2>1, RowsFacts, TheRunFacts
  <2>6. Life!StepSkipped("run", n)
    BY <1>1, <2>1, <2>3, <2>4, <2>5, TheRunFacts DEF Life!StepSkipped
  <2> QED
    BY <2>2, <2>6 DEF Life!ExecuteNode, Life!Executor
<1> QED
  BY <1>3, <1>4, <1>5, <1>6

\* Every step of the executor is one of the abstract executor, or the run does not
\* show it.
LEMMA NextRefines ==
  ASSUME SizeFits, TypeOK, WalkInv, flow \in Flows, [Next]_vars
  PROVE  [Life!ExecuteNode("run")]_Life!vars
<1>1. CASE Plan
  BY <1>1, PlanRefines DEF Life!ExecuteNode, Life!Executor
<1>2. CASE StartNode \/ FollowEdge
  <2>1. \E n : Idle /\ Call(n) /\ UNCHANGED <<flow, skipped, dropped>>
    BY <1>2 DEF StartNode, FollowEdge
  <2> QED
    BY <2>1, CallRefines DEF Life!ExecuteNode, Life!Executor
<1>3. CASE ReturnNode \/ UNCHANGED vars
  <2>1. UNCHANGED <<flow, step, phase, visited, skipped, doing, dropped>>
    BY <1>3 DEF ReturnNode, vars
  <2> QED
    BY <2>1, Unseen
<1>4. ASSUME NEW n \in Runnable(flow), Node(n) \/ Retry(n)
      PROVE  [Life!ExecuteNode("run")]_Life!vars
  BY <1>4, NodeRefines, RetryRefines
<1>5. CASE StartsDone \/ Done \/ WorkerDies \/ \E n \in Runnable(flow) : Skip(n)
  BY <1>5, LastPhasesRefine
<1> QED
  BY <1>1, <1>2, <1>3, <1>4, <1>5 DEF Next

\* The flow that is executed is one of Flows.
LEMMA FlowIsFixed == Spec => [](flow \in Flows)
<1>1. Init => flow \in Flows
  BY DEF Init
<1>2. flow \in Flows /\ [Next]_vars => (flow \in Flows)'
  BY DEF Next, Plan, StartNode, FollowEdge, ReturnNode, StartsDone, Done, WorkerDies, Node,
         Succeed, Fail, Interrupt, TimeOut, Canceled, Retry, Skip, vars
<1> QED
  BY <1>1, <1>2, PTL DEF Spec

\* ExecuteNodeActivity does to the steps of a run what RunLifecycle says: so what
\* is proved there of steps and verdicts rests on what the walk really does.
THEOREM ExecutorImplemented ==
  ASSUME SizeFits
  PROVE  Spec => ImplementsExecutor
<1>1. TypeOK /\ WalkInv /\ flow \in Flows /\ [Next]_vars
        => [Life!ExecuteNode("run")]_Life!vars
  BY NextRefines
<1> QED
  BY <1>1, InitRefines, WalkInvariant, FlowIsFixed, PTL DEF Spec, ImplementsExecutor
==============================================================================
