-------------------------- MODULE TaskQueue_proofs --------------------------
(***************************************************************************)
(* Proofs, for any sets of clients and tasks, of the safety properties of  *)
(* TaskQueue and of the safety part of its refinement of SerialExecutor;   *)
(* then, for any number of starts, of those of ServiceRuntime.             *)
(***************************************************************************)
EXTENDS TaskQueue, ServiceRuntime, SequenceTheorems, TLAPS

-----------------------------------------------------------------------------
(* A queue that is handed on in parts is a concatenation.                  *)

LEMMA RangeOfConcat ==
    ASSUME NEW S, NEW s \in Seq(S), NEW t \in Seq(S)
    PROVE  Range(s \o t) = Range(s) \cup Range(t)
<1>1. /\ s \o t \in Seq(S)
      /\ Len(s \o t) = Len(s) + Len(t)
      /\ \A i \in 1..(Len(s) + Len(t)) :
            (s \o t)[i] = IF i <= Len(s) THEN s[i] ELSE t[i - Len(s)]
  BY ConcatProperties
<1>2. /\ Len(s) \in Nat /\ DOMAIN s = 1..Len(s)
      /\ Len(t) \in Nat /\ DOMAIN t = 1..Len(t)
      /\ DOMAIN (s \o t) = 1..(Len(s) + Len(t))
  BY <1>1, LenProperties
<1>3. ASSUME NEW x \in Range(s \o t)
      PROVE  x \in Range(s) \cup Range(t)
  <2>1. PICK i \in 1..(Len(s) + Len(t)) : x = (s \o t)[i]
    BY <1>2, <1>3 DEF Range
  <2>2. CASE i <= Len(s)
    BY <1>1, <1>2, <2>1, <2>2 DEF Range
  <2>3. CASE ~(i <= Len(s))
    <3>1. i - Len(s) \in 1..Len(t) /\ x = t[i - Len(s)]
      BY <1>1, <1>2, <2>1, <2>3
    <3>2. QED
      BY <1>2, <3>1 DEF Range
  <2>4. QED
    BY <2>2, <2>3
<1>4. ASSUME NEW x \in Range(s)
      PROVE  x \in Range(s \o t)
  <2>1. PICK i \in 1..Len(s) : x = s[i]
    BY <1>2, <1>4 DEF Range
  <2>2. i \in 1..(Len(s) + Len(t)) /\ x = (s \o t)[i]
    BY <1>1, <1>2, <2>1
  <2>3. QED
    BY <1>2, <2>2 DEF Range
<1>5. ASSUME NEW x \in Range(t)
      PROVE  x \in Range(s \o t)
  <2>1. PICK i \in 1..Len(t) : x = t[i]
    BY <1>2, <1>5 DEF Range
  <2>2. Len(s) + i \in 1..(Len(s) + Len(t)) /\ x = (s \o t)[Len(s) + i]
    BY <1>1, <1>2, <2>1
  <2>3. QED
    BY <1>2, <2>2 DEF Range
<1>6. QED
  BY <1>3, <1>4, <1>5

LEMMA RangeOfSeqIsSubset ==
    ASSUME NEW S, NEW s \in Seq(S)
    PROVE  Range(s) \subseteq S
  BY LenProperties DEF Range

LEMMA RangeOfEmptySeq == Range(<<>>) = {}
  BY DEF Range

\* Appending to the right part of a concatenation appends to the whole.
LEMMA AppendToConcat ==
    ASSUME NEW S, NEW s \in Seq(S), NEW t \in Seq(S), NEW e \in S
    PROVE  s \o Append(t, e) = Append(s \o t, e)
<1>1. <<e>> \in Seq(S) /\ s \o t \in Seq(S)
  BY ConcatProperties
<1>2. /\ Append(t, e) = t \o <<e>>
      /\ Append(s \o t, e) = (s \o t) \o <<e>>
  BY <1>1, AppendIsConcat
<1>3. QED
  BY <1>1, <1>2, ConcatAssociative

\* Moving the head of one sequence to the end of another.
LEMMA MoveHead ==
    ASSUME NEW S, NEW s \in Seq(S), NEW t \in Seq(S), t # <<>>
    PROVE  /\ Head(t) \in S
           /\ Tail(t) \in Seq(S)
           /\ Append(s, Head(t)) \o Tail(t) = s \o t
<1>1. Head(t) \in S /\ Tail(t) \in Seq(S)
  BY HeadTailProperties
<1>2. <<Head(t)>> \in Seq(S)
  BY <1>1
<1>3. t = <<Head(t)>> \o Tail(t)
  <2>1. Len(t) \in Nat \ {0}
    BY EmptySeq
  <2>2. /\ <<Head(t)>> \o Tail(t) \in Seq(S)
        /\ Len(<<Head(t)>> \o Tail(t)) = Len(t)
        /\ \A i \in 1..Len(t) : (<<Head(t)>> \o Tail(t))[i] = t[i]
    <3>1. /\ Len(Tail(t)) = Len(t) - 1
          /\ \A i \in 1..Len(Tail(t)) : Tail(t)[i] = t[i + 1]
      BY HeadTailProperties
    <3>2. Len(<<Head(t)>>) = 1 /\ <<Head(t)>>[1] = t[1]
      BY <2>1
    <3>3. /\ <<Head(t)>> \o Tail(t) \in Seq(S)
          /\ Len(<<Head(t)>> \o Tail(t)) = 1 + Len(Tail(t))
          /\ \A i \in 1..(1 + Len(Tail(t))) : (<<Head(t)>> \o Tail(t))[i] =
                IF i <= 1 THEN <<Head(t)>>[i] ELSE Tail(t)[i - 1]
      BY <1>1, <1>2, <3>2, ConcatProperties
    <3>4. QED
      BY <2>1, <3>1, <3>2, <3>3
  <2>3. QED
    BY <2>2, SeqEqual
<1>4. Append(s, Head(t)) = s \o <<Head(t)>>
  BY <1>1, AppendIsConcat
<1>5. QED
  BY <1>1, <1>2, <1>3, <1>4, ConcatAssociative

\* The head of a concatenation is that of its left part.
LEMMA HeadTailOfConcat ==
    ASSUME NEW S, NEW s \in Seq(S), NEW t \in Seq(S), s # <<>>
    PROVE  /\ Head(s \o t) = Head(s)
           /\ Tail(s \o t) = Tail(s) \o t
<1>1. /\ Len(s) \in Nat \ {0}
      /\ Len(t) \in Nat
  BY EmptySeq, LenProperties
<1>2. /\ Tail(s) \in Seq(S)
      /\ Len(Tail(s)) = Len(s) - 1
      /\ \A i \in 1..Len(Tail(s)) : Tail(s)[i] = s[i + 1]
  BY HeadTailProperties
<1>3. /\ s \o t \in Seq(S)
      /\ Len(s \o t) = Len(s) + Len(t)
      /\ \A i \in 1..(Len(s) + Len(t)) :
            (s \o t)[i] = IF i <= Len(s) THEN s[i] ELSE t[i - Len(s)]
  BY ConcatProperties
<1>4. s \o t # <<>>
  BY ConcatEqualIffEmpty
<1>5. Head(s \o t) = Head(s)
  BY <1>1, <1>3, <1>4
<1>6. /\ Tail(s \o t) \in Seq(S)
      /\ Len(Tail(s \o t)) = Len(s) + Len(t) - 1
      /\ \A i \in 1..(Len(s) + Len(t) - 1) : Tail(s \o t)[i] = (s \o t)[i + 1]
  BY <1>3, <1>4, HeadTailProperties
<1>7. /\ Tail(s) \o t \in Seq(S)
      /\ Len(Tail(s) \o t) = Len(s) + Len(t) - 1
      /\ \A i \in 1..(Len(s) + Len(t) - 1) : (Tail(s) \o t)[i] =
            IF i <= Len(s) - 1 THEN Tail(s)[i] ELSE t[i - (Len(s) - 1)]
  BY <1>1, <1>2, ConcatProperties
<1>8. \A i \in 1..(Len(s) + Len(t) - 1) : Tail(s \o t)[i] = (Tail(s) \o t)[i]
  BY <1>1, <1>2, <1>3, <1>6, <1>7
<1>9. QED
  BY <1>5, <1>6, <1>7, <1>8, SeqEqual

-----------------------------------------------------------------------------
(* The invariant.                                                          *)

\* Why DrainedAtJoin holds: the worker exits only with an empty batch and a
\* stop pending, and leaves only doomed tasks in the queue; no post can be
\* accepted from then on.
ExitInv ==
    /\ life = "ctor" => state = "stopped"
    /\ pc \in {"lock", "wait", "exited"} => batch = <<>>
    /\ pc = "exited" => is_stop_pending
    /\ life \in {"joined", "dead"} => pc = "exited"

DoomedInv ==
    /\ state = "canceling" => Range(runnables) \subseteq doomed
    /\ pc = "exited" => Range(runnables) \subseteq doomed

IInv ==
    /\ TypeOK
    /\ Conservation
    /\ ExitInv
    /\ DoomedInv
    /\ DrainedAtJoin

LEMMA InitTypeOK == Init => TypeOK
<1>1. <<>> \in Seq(Task) /\ 0 \in 0..MaxStop
  BY MaxStopAssumption, EmptySeq
<1>2. QED
  BY <1>1 DEF Init, TypeOK, QueueState

\* Type correctness: every variable of the queue keeps its type.
THEOREM TypeCorrect == Spec => []TypeOK
<1>1. Init => TypeOK
  BY InitTypeOK
<1>2. TypeOK /\ [Next]_vars => TypeOK'
  <2> SUFFICES ASSUME TypeOK, [Next]_vars
               PROVE  TypeOK'
    OBVIOUS
  <2> USE MaxStopAssumption DEF TypeOK, QueueState, queueVars, history, NotifyAll
  <2>1. CASE Construct
    BY <2>1 DEF Construct
  <2>2. ASSUME NEW t \in Thread, NEW k \in Task, Post(t, k)
        PROVE  TypeOK'
    BY <2>2, AppendProperties DEF Post
  <2>3. ASSUME NEW t \in Thread, StopRun(t)
        PROVE  TypeOK'
    BY <2>3 DEF StopRun
  <2>4. ASSUME NEW t \in Thread, StopCancel(t)
        PROVE  TypeOK'
    <3>1. Range(runnables) \subseteq Task
      BY RangeOfSeqIsSubset
    <3>2. QED
      BY <2>4, <3>1 DEF StopCancel
  <2>5. ASSUME NEW t \in Thread, Notify(t)
        PROVE  TypeOK'
    BY <2>5 DEF Notify
  <2>6. CASE WorkerStep
    <3>1. CASE TakeAll
      BY <3>1, EmptySeq DEF TakeAll
    <3>2. CASE StartTask
      BY <3>2, HeadTailProperties, AppendProperties DEF StartTask
    <3>3. CASE Wait \/ Exit \/ FinishTask \/ BatchDone
      BY <3>3 DEF Wait, Exit, FinishTask, BatchDone
    <3>4. QED
      BY <2>6, <3>1, <3>2, <3>3 DEF WorkerStep
  <2>7. CASE SpuriousWakeup
    BY <2>7 DEF SpuriousWakeup
  <2>8. CASE OwnerStep
    BY <2>8, EmptySeq DEF OwnerStep, StopAndWait, OwnerNotify, Join, Destroy
  <2>9. CASE Gone \/ UNCHANGED vars
    BY <2>9 DEF Gone, vars
  <2>10. QED
    BY <2>1, <2>2, <2>3, <2>4, <2>5, <2>6, <2>7, <2>8, <2>9 DEF Next
<1>3. QED
  BY <1>1, <1>2, PTL DEF Spec

\* What a thread does inside post, stop and notify_all keeps the invariant.
LEMMA ClientPreservesIInv ==
    ASSUME IInv, TypeOK', NEW t \in Thread,
           \/ \E k \in Task : Post(t, k)
           \/ StopRun(t) \/ StopCancel(t) \/ Notify(t)
    PROVE  IInv'
<1>1. CASE \E k \in Task : Post(t, k)
  <2> PICK k \in Task : Post(t, k)
    BY <1>1
  <2>1. /\ ran \in Seq(Task) /\ batch \in Seq(Task) /\ runnables \in Seq(Task)
        /\ life \notin {"ctor", "dead"} /\ ~is_stop_pending
        /\ runnables' = Append(runnables, k) /\ accepted' = Append(accepted, k)
        /\ UNCHANGED <<state, batch, pc, life, ran, doomed>>
    BY DEF IInv, TypeOK, Post, CanCall
  <2>2. Conservation'
    <3>1. ran \o batch \in Seq(Task)
      BY <2>1, ConcatProperties
    <3>2. (ran \o batch) \o Append(runnables, k) = Append((ran \o batch) \o runnables, k)
      BY ONLY <2>1, <3>1, AppendToConcat
    <3>3. QED
      BY <2>1, <3>2 DEF IInv, Conservation
  <2>3. pc # "exited" /\ life \notin {"joined", "dead"} /\ life # "ctor"
    BY <2>1 DEF IInv, ExitInv
  <2>4. state # "canceling" /\ ~is_stop_pending'
    BY <2>1 DEF is_stop_pending
  <2>5. ExitInv' /\ DoomedInv' /\ DrainedAtJoin'
    BY <2>1, <2>3, <2>4 DEF IInv, ExitInv, DoomedInv, DrainedAtJoin
  <2>6. QED
    BY <2>2, <2>5 DEF IInv
<1>2. CASE StopRun(t)
  BY <1>2 DEF IInv, TypeOK, StopRun, CanCall, history, is_stop_pending,
              Conservation, ExitInv, DoomedInv, DrainedAtJoin
<1>3. CASE StopCancel(t)
  BY <1>3 DEF IInv, TypeOK, StopCancel, CanCall, is_stop_pending,
              Conservation, ExitInv, DoomedInv, DrainedAtJoin
<1>4. CASE Notify(t)
  BY <1>4 DEF IInv, TypeOK, Notify, NotifyAll, history, is_stop_pending,
              Conservation, ExitInv, DoomedInv, DrainedAtJoin
<1>5. QED
  BY <1>1, <1>2, <1>3, <1>4

\* Every step of process_queue keeps the invariant.
LEMMA WorkerPreservesIInv ==
    ASSUME IInv, TypeOK', WorkerStep \/ SpuriousWakeup
    PROVE  IInv'
<1> USE DEF IInv, TypeOK, queueVars, history
<1>1. CASE Wait \/ SpuriousWakeup \/ FinishTask \/ BatchDone
  BY <1>1 DEF Wait, SpuriousWakeup, FinishTask, BatchDone, is_stop_pending,
              Conservation, ExitInv, DoomedInv, DrainedAtJoin
<1>2. CASE Exit
  <2>1. is_stop_pending /\ Range(runnables) \subseteq doomed
    BY <1>2, RangeOfEmptySeq DEF Exit, should_queue_exit, is_stop_pending, DoomedInv
  <2>2. QED
    BY <1>2, <2>1 DEF Exit, is_stop_pending,
                      Conservation, ExitInv, DoomedInv, DrainedAtJoin
<1>3. CASE TakeAll
  <2>1. batch = <<>> /\ life \notin {"joined", "dead"}
    BY <1>3 DEF TakeAll, ExitInv
  <2>2. ran \o runnables \in Seq(Task)
    BY ConcatProperties
  <2>3. (ran \o runnables) \o <<>> = (ran \o <<>>) \o runnables
    BY <2>2, ConcatEmptySeq
  <2>4. Conservation'
    BY <1>3, <2>1, <2>3 DEF TakeAll, Conservation
  <2>5. ExitInv' /\ DrainedAtJoin'
    BY <1>3, <2>1 DEF TakeAll, is_stop_pending, ExitInv, DrainedAtJoin
  <2>6. DoomedInv'
    BY <1>3, RangeOfEmptySeq DEF TakeAll, DoomedInv
  <2>7. QED
    BY <2>4, <2>5, <2>6
<1>4. CASE StartTask
  <2>1. Append(ran, Head(batch)) \o Tail(batch) = ran \o batch
    BY <1>4, MoveHead DEF StartTask
  <2>2. Conservation'
    BY <1>4, <2>1 DEF StartTask, Conservation
  <2>3. life \notin {"joined", "dead"}
    BY <1>4 DEF StartTask, ExitInv
  <2>4. ExitInv' /\ DoomedInv' /\ DrainedAtJoin'
    BY <1>4, <2>3 DEF StartTask, is_stop_pending, ExitInv, DoomedInv, DrainedAtJoin
  <2>5. QED
    BY <2>2, <2>4
<1>5. QED
  BY <1>1, <1>2, <1>3, <1>4 DEF WorkerStep

\* Every step of the owner keeps the invariant.
LEMMA OwnerPreservesIInv ==
    ASSUME IInv, TypeOK', Construct \/ OwnerStep
    PROVE  IInv'
<1> USE DEF IInv, TypeOK, queueVars, history
<1>1. CASE Construct
  BY <1>1 DEF Construct, is_stop_pending,
              Conservation, ExitInv, DoomedInv, DrainedAtJoin
<1>2. CASE StopAndWait
  BY <1>2 DEF StopAndWait, is_stop_pending,
              Conservation, ExitInv, DoomedInv, DrainedAtJoin
<1>3. CASE OwnerNotify
  BY <1>3 DEF OwnerNotify, NotifyAll, is_stop_pending,
              Conservation, ExitInv, DoomedInv, DrainedAtJoin
<1>4. CASE Join
  <2>1. accepted = (ran \o <<>>) \o runnables /\ Range(runnables) \subseteq doomed
    BY <1>4 DEF Join, Conservation, ExitInv, DoomedInv
  <2>2. Range(accepted) = Range(ran) \cup Range(runnables)
    BY <2>1, ConcatEmptySeq, RangeOfConcat
  <2>3. QED
    BY <1>4, <2>1, <2>2 DEF Join, is_stop_pending,
                            Conservation, ExitInv, DoomedInv, DrainedAtJoin
<1>5. CASE Destroy
  BY <1>5, RangeOfEmptySeq DEF Destroy, is_stop_pending,
                               Conservation, ExitInv, DoomedInv, DrainedAtJoin
<1>6. QED
  BY <1>1, <1>2, <1>3, <1>4, <1>5 DEF OwnerStep

THEOREM Invariance == Spec => []IInv
<1>1. Init => IInv
  <2>1. <<>> \o <<>> \o <<>> = <<>>
    BY EmptySeq, ConcatEmptySeq
  <2>2. QED
    BY InitTypeOK, <2>1, RangeOfEmptySeq
       DEF Init, IInv, Conservation, ExitInv, DoomedInv, DrainedAtJoin
<1>2. IInv /\ TypeOK' /\ [Next]_vars => IInv'
  <2> SUFFICES ASSUME IInv, TypeOK', [Next]_vars
               PROVE  IInv'
    OBVIOUS
  <2>1. CASE Gone \/ UNCHANGED vars
    BY <2>1 DEF Gone, vars, queueVars, history, IInv, is_stop_pending,
                Conservation, ExitInv, DoomedInv, DrainedAtJoin
  <2>2. QED
    BY <2>1, ClientPreservesIInv, WorkerPreservesIInv, OwnerPreservesIInv DEF Next
<1>3. QED
  BY <1>1, <1>2, TypeCorrect, PTL DEF Spec

\* No accepted task is lost, repeated or overtaken while the queue exists.
THEOREM ConservationHolds == Spec => []Conservation
<1>1. IInv => Conservation
  BY DEF IInv
<1>2. QED
  BY <1>1, Invariance, PTL

\* A joined queue has run everything but what a cancellation found waiting.
THEOREM DrainedAtJoinHolds == Spec => []DrainedAtJoin
<1>1. IInv => DrainedAtJoin
  BY DEF IInv
<1>2. QED
  BY <1>1, Invariance, PTL

\* A worker that waits while there is work, or while it should exit, is owed a
\* notification by a thread that has changed the queue and left the gate.
THEOREM NoLostWakeupHolds == Spec => []NoLostWakeup
<1>1. Init => NoLostWakeup
  BY DEF Init, NoLostWakeup
<1>2. IInv /\ NoLostWakeup /\ [Next]_vars => NoLostWakeup'
  <2> SUFFICES ASSUME IInv, NoLostWakeup, [Next]_vars
               PROVE  NoLostWakeup'
    OBVIOUS
  <2> USE DEF IInv, TypeOK, NoLostWakeup, should_queue_exit, queueVars, history, NotifyAll
  <2>1. CASE Construct
    BY <2>1 DEF Construct
  <2>2. ASSUME NEW t \in Thread, NEW k \in Task, Post(t, k)
        PROVE  NoLostWakeup'
    <3>1. CASE runnables = <<>>
      BY <2>2, <3>1 DEF Post
    <3>2. CASE runnables # <<>>
      <4>1. \A u \in Thread : call[u] = "notify" => call'[u] = "notify"
        BY <2>2 DEF Post, CanCall
      <4>2. QED
        BY <2>2, <3>2, <4>1 DEF Post
    <3>3. QED
      BY <3>1, <3>2
  <2>3. ASSUME NEW t \in Thread, StopRun(t) \/ StopCancel(t)
        PROVE  NoLostWakeup'
    BY <2>3 DEF StopRun, StopCancel
  <2>4. ASSUME NEW t \in Thread, Notify(t)
        PROVE  NoLostWakeup'
    BY <2>4 DEF Notify
  <2>5. CASE WorkerStep
    BY <2>5 DEF WorkerStep, Wait, Exit, TakeAll, StartTask, FinishTask, BatchDone
  <2>6. CASE SpuriousWakeup
    BY <2>6 DEF SpuriousWakeup
  <2>7. CASE OwnerStep
    BY <2>7 DEF OwnerStep, StopAndWait, OwnerNotify, Join, Destroy, ExitInv
  <2>8. CASE Gone \/ UNCHANGED vars
    BY <2>8 DEF Gone, vars
  <2>9. QED
    BY <2>1, <2>2, <2>3, <2>4, <2>5, <2>6, <2>7, <2>8 DEF Next
<1>3. QED
  BY <1>1, <1>2, Invariance, PTL DEF Spec

-----------------------------------------------------------------------------
(* Refinement.                                                             *)

\* The state in which the worker leaves tasks behind is due to a stop(cancel).
CancelInv == state = "canceling" => cancelled

LEMMA CancelInvariance == Spec => []CancelInv
<1>1. Init => CancelInv
  BY DEF Init, CancelInv
<1>2. CancelInv /\ [Next]_vars => CancelInv'
  BY DEF CancelInv, Next, vars, queueVars, history, Construct, Post, StopRun,
         StopCancel, Notify, WorkerStep, Wait, Exit, TakeAll, StartTask,
         FinishTask, BatchDone, SpuriousWakeup, OwnerStep, StopAndWait,
         OwnerNotify, Join, Destroy, Gone
<1>3. QED
  BY <1>1, <1>2, PTL DEF Spec

\* Every behaviour of the threaded queue is one of the serial executor.
THEOREM Refinement == Spec => SE!SafetySpec
<1>1. Init => SE!Init
  <2>1. <<>> \o <<>> = <<>>
    BY EmptySeq, ConcatEmptySeq
  <2>2. QED
    BY <2>1 DEF Init, SE!Init, is_stop_pending
<1>2. IInv /\ CancelInv /\ [Next]_vars => [SE!Next]_(SE!vars)
  <2> SUFFICES ASSUME IInv, CancelInv, [Next]_vars
               PROVE  [SE!Next]_(SE!vars)
    OBVIOUS
  <2> USE DEF IInv, TypeOK, ExitInv, queueVars, history, is_stop_pending
  <2>1. CASE Construct
    BY <2>1 DEF Construct, SE!vars
  <2>2. ASSUME NEW t \in Thread, NEW k \in Task, Post(t, k)
        PROVE  SE!Accept(k)
    <3>1. batch \in Seq(Task) /\ runnables \in Seq(Task)
      OBVIOUS
    <3>2. batch \o Append(runnables, k) = Append(batch \o runnables, k)
      BY ONLY <3>1, AppendToConcat
    <3>3. QED
      BY <2>2, <3>2 DEF Post, SE!Accept
  <2>3. ASSUME NEW t \in Thread, StopRun(t) \/ StopCancel(t)
        PROVE  SE!Close \/ SE!Cancel
    BY <2>3 DEF StopRun, StopCancel, SE!Close, SE!Cancel
  <2>4. ASSUME NEW t \in Thread, Notify(t)
        PROVE  UNCHANGED SE!vars
    BY <2>4 DEF Notify, NotifyAll, SE!vars
  <2>5. CASE Wait \/ Exit \/ FinishTask \/ BatchDone \/ SpuriousWakeup
    <3>1. CASE Wait \/ BatchDone \/ SpuriousWakeup
      BY <2>5, <3>1 DEF Wait, BatchDone, SpuriousWakeup, SE!vars
    <3>2. CASE FinishTask
      <4>1. SE!Finish
        BY <3>2 DEF FinishTask, SE!Finish
      <4>2. QED
        BY <4>1 DEF SE!Next, SE!WorkerStep
    <3>3. CASE Exit
      <4>1. batch \o runnables = <<>> \/ cancelled
        <5>1. CASE state = "canceling"
          BY <5>1 DEF CancelInv
        <5>2. CASE runnables = <<>>
          BY <3>3, <5>2, EmptySeq, ConcatEmptySeq DEF Exit
        <5>3. QED
          BY <3>3, <5>1, <5>2 DEF Exit, should_queue_exit
      <4>2. SE!Halt
        BY <3>3, <4>1 DEF Exit, should_queue_exit, SE!Halt
      <4>3. QED
        BY <4>2 DEF SE!Next, SE!WorkerStep
    <3>4. QED
      BY <2>5, <3>1, <3>2, <3>3
  <2>6. CASE TakeAll
    <3>1. runnables \o <<>> = <<>> \o runnables
      BY ConcatEmptySeq
    <3>2. batch \o runnables = (batch \o runnables)'
      BY <2>6, <3>1 DEF TakeAll
    <3>3. QED
      BY <2>6, <3>2 DEF TakeAll, SE!vars
  <2>7. CASE StartTask
    <3>1. batch \o runnables # <<>>
      BY <2>7, ConcatEqualIffEmpty DEF StartTask
    <3>2. /\ Head(batch \o runnables) = Head(batch)
          /\ Tail(batch \o runnables) = Tail(batch) \o runnables
      BY <2>7, HeadTailOfConcat DEF StartTask
    <3>3. SE!Start
      BY <2>7, <3>1, <3>2 DEF StartTask, SE!Start
    <3>4. QED
      BY <3>3 DEF SE!Next, SE!WorkerStep
  <2>8. CASE StopAndWait
    <3>1. SE!Close
      BY <2>8 DEF StopAndWait, SE!Close
    <3>2. QED
      BY <3>1 DEF SE!Next
  <2>9. CASE OwnerNotify \/ Join
    BY <2>9 DEF OwnerNotify, NotifyAll, Join, SE!vars
  <2>10. CASE Destroy
    <3>1. batch = <<>>
      BY <2>10 DEF Destroy
    <3>2. <<>> \o <<>> = <<>>
      BY EmptySeq, ConcatEmptySeq
    <3>3. CASE runnables = <<>>
      BY <2>10, <3>1, <3>3 DEF Destroy, SE!vars
    <3>4. CASE runnables # <<>>
      <4>1. SE!Discard
        BY <2>10, <3>1, <3>2 DEF Destroy, SE!Discard
      <4>2. QED
        BY <4>1 DEF SE!Next
    <3>5. QED
      BY <3>3, <3>4
  <2>11. CASE Gone \/ UNCHANGED vars
    BY <2>11 DEF Gone, vars, SE!vars
  <2>12. ASSUME NEW t \in Thread, NEW k \in Task, Post(t, k)
         PROVE  SE!Next
    BY <2>2, <2>12 DEF SE!Next
  <2>13. ASSUME NEW t \in Thread, StopRun(t) \/ StopCancel(t)
         PROVE  SE!Next
    BY <2>3, <2>13 DEF SE!Next
  <2>14. QED
    BY <2>1, <2>4, <2>5, <2>6, <2>7, <2>8, <2>9, <2>10, <2>11, <2>12, <2>13
       DEF Next, WorkerStep, OwnerStep
<1>3. QED
  BY <1>1, <1>2, Invariance, CancelInvariance, PTL DEF Spec, SE!SafetySpec

-----------------------------------------------------------------------------
(***************************************************************************)
(* The other thread that this process starts and stops: the event loop of  *)
(* ServiceRuntime, for every number of starts, with and without spurious   *)
(* failures of the exchange.                                               *)
(*                                                                         *)
(* NoLoopAfterDestruction says nothing before the destructor's end, and    *)
(* that a Start is blocked for ever depends on m_running, which is not in  *)
(* the statement: neither is inductive.  RuntimeInv closes the gap.        *)
(***************************************************************************)

\* A loop that is alive is that of the jthread, but for the one that waits to
\* be assigned.  That wait may last for ever, see StartBlocked.
LoopIsOwned ==
    \A r \in Runner : Alive(r) => r = m_threadMain \/ (control = "assign" /\ r = starts)

\* While Start is in progress the runtime counts as running; a created thread
\* always has its number free.
Creation ==
    /\ control \in {"spawn", "assign"} => m_running
    /\ control = "spawn" => starts < MaxStart
    /\ control = "assign" => starts > 0

RuntimeInv ==
    /\ RuntimeTypeOK
    /\ Creation
    /\ LoopIsOwned
    /\ NoLoopAfterDestruction

LEMMA RuntimeInitInv ==
  ASSUME RuntimeInit
  PROVE  RuntimeInv
<1>1. \A r \in Runner : runner[r] = "none" /\ r > 0 /\ ~Alive(r)
  BY RuntimeAssumption DEF RuntimeInit, Alive, Runner
<1>2. RuntimeTypeOK
  <2>1. runner \in [Runner -> {"none", "test", "gate", "wait", "woken", "exited"}]
    BY DEF RuntimeInit
  <2>2. \A r \in Runner : runner[r] = "none" <=> r > starts
    BY <1>1 DEF RuntimeInit
  <2>3. m_running \in BOOLEAN
    BY DEF RuntimeInit
  <2>4. m_threadMain \in 0..MaxStart /\ starts \in 0..MaxStart
    BY ONLY RuntimeAssumption, RuntimeInit DEF RuntimeInit
  <2>5. QED
    BY <2>1, <2>2, <2>3, <2>4 DEF RuntimeInit, RuntimeTypeOK
<1>3. QED
  BY <1>1, <1>2
     DEF RuntimeInit, RuntimeInv, Creation, LoopIsOwned,
         NoLoopAfterDestruction

\* A step of a runner never brings a loop to life: it only moves one that is
\* alive already.  So does a notification.
LEMMA MoveKeeps ==
  ASSUME RuntimeInv, NEW r \in Runner,
         NEW from \in {"test", "gate", "wait", "woken"},
         NEW to \in {"test", "gate", "wait", "woken", "exited"},
         Move(r, from, to)
  PROVE  /\ runner' \in [Runner -> {"none", "test", "gate", "wait", "woken", "exited"}]
         /\ \A q \in Runner : runner'[q] = "none" <=> q > starts
         /\ \A q \in Runner : Alive(q)' => Alive(q)
  BY RuntimeAssumption DEF RuntimeInv, RuntimeTypeOK, Move, Alive

LEMMA NotifyKeeps ==
  ASSUME RuntimeInv, NotifyOne
  PROVE  /\ runner' \in [Runner -> {"none", "test", "gate", "wait", "woken", "exited"}]
         /\ \A q \in Runner : runner'[q] = "none" <=> q > starts
         /\ \A q \in Runner : Alive(q)' => Alive(q)
<1>1. CASE \E r \in Runner : Move(r, "wait", "woken")
  <2>1. PICK r \in Runner : Move(r, "wait", "woken")
    BY <1>1
  <2>2. QED
    BY <2>1, MoveKeeps
<1>2. CASE UNCHANGED runner
  BY <1>2 DEF RuntimeInv, RuntimeTypeOK, Alive
<1>3. QED
  BY <1>1, <1>2 DEF NotifyOne

LEMMA RuntimeNextInv ==
  ASSUME RuntimeInv, [RuntimeNext]_runtimeVars
  PROVE  RuntimeInv'
<1> USE RuntimeAssumption
    DEF RuntimeInv, RuntimeTypeOK, Creation, LoopIsOwned,
        NoLoopAfterDestruction
<1>1. CASE Start
  BY <1>1 DEF Start, Alive
<1>2. CASE Spawn
  <2>1. starts + 1 \in Runner
    BY <1>2, RuntimeAssumption DEF Spawn, Runner
  <2>2. /\ runner' \in [Runner -> {"none", "test", "gate", "wait", "woken", "exited"}]
        /\ \A q \in Runner : q # starts + 1 => runner'[q] = runner[q]
        /\ runner'[starts + 1] = "test"
    BY <1>2, <2>1 DEF Spawn
  <2>3. \A q \in Runner : runner'[q] = "none" <=> q > starts'
    <3> SUFFICES ASSUME NEW q \in Runner PROVE runner'[q] = "none" <=> q > starts + 1
      BY <1>2 DEF Spawn
    <3>1. CASE q = starts + 1
      BY <3>1, <2>2 DEF Runner
    <3>2. CASE q # starts + 1
      BY <3>2, <2>2 DEF Runner
    <3>3. QED
      BY <3>1, <3>2
  <2>4. \A q \in Runner : Alive(q)' => q \in {m_threadMain', starts'}
    BY <1>2, <2>2 DEF Spawn, Alive
  <2>5. QED
    BY <1>2, <2>1, <2>2, <2>3, <2>4 DEF Spawn, Runner
<1>3. CASE Assign
  <2>1. \A r \in Runner : Alive(r) => r = starts
    BY <1>3 DEF Assign, Alive, Runner
  <2>2. QED
    BY <1>3, <2>1 DEF Assign, Alive
<1>4. CASE Stop
  BY <1>4 DEF Stop, Alive
<1>5. CASE StopNotify
  BY <1>5, NotifyKeeps DEF StopNotify
<1>6. CASE DestructStop
  BY <1>6 DEF DestructStop, Alive
<1>7. CASE DestructNotify
  BY <1>7, NotifyKeeps DEF DestructNotify
<1>8. CASE DestructJoin
  <2>1. \A r \in Runner : ~Alive(r)
    BY <1>8 DEF DestructJoin, Alive, Runner
  <2>2. QED
    BY <1>8, <2>1 DEF DestructJoin, Alive
<1>9. ASSUME NEW r \in Runner,
             \/ Test(r)
             \/ WaitForEvent(r)
             \/ Wake(r)
             \/ WakeSpuriously(r)
      PROVE  RuntimeInv'
  <2>1. /\ runner' \in [Runner -> {"none", "test", "gate", "wait", "woken", "exited"}]
        /\ \A q \in Runner : runner'[q] = "none" <=> q > starts
        /\ \A q \in Runner : Alive(q)' => Alive(q)
    BY <1>9, MoveKeeps DEF Test, WaitForEvent, Wake, WakeSpuriously
  <2>2. UNCHANGED <<m_running, m_threadMain, starts, control>>
    BY <1>9 DEF Test, WaitForEvent, Wake, WakeSpuriously
  <2>3. QED
    BY <2>1, <2>2
<1>10. CASE UNCHANGED runtimeVars
  BY <1>10 DEF runtimeVars, Alive
<1>11. QED
  BY <1>1, <1>2, <1>3, <1>4, <1>5, <1>6, <1>7, <1>8, <1>9, <1>10
     DEF RuntimeNext, Blocked

\* The invariant holds in every reachable state, however often the runtime is
\* started and stopped.
LEMMA RuntimeInvariance == RuntimeSpec => []RuntimeInv
<1>1. RuntimeInit => RuntimeInv
  BY RuntimeInitInv
<1>2. RuntimeInv /\ [RuntimeNext]_runtimeVars => RuntimeInv'
  BY RuntimeNextInv
<1>3. QED
  BY <1>1, <1>2, PTL DEF RuntimeSpec

\* ServiceRuntime::Start has set m_running before the loop of the thread that
\* the runtime owns has seen that it was stopped: no step of anybody then lets
\* Start return, and none ends that loop.  It is the half of StartReturns that
\* needs no fairness.
StaysBlocked ==
    control \in {"spawn", "assign"} /\ OldAlive
        => control' \in {"spawn", "assign"} /\ OldAlive'

StartBlocked == [][StaysBlocked]_runtimeVars

LEMMA StartBlockedStep ==
  ASSUME RuntimeInv, [RuntimeNext]_runtimeVars,
         control \in {"spawn", "assign"}, OldAlive
  PROVE  control' \in {"spawn", "assign"} /\ OldAlive'
<1> USE RuntimeAssumption DEF RuntimeInv, RuntimeTypeOK, Creation, OldAlive
<1>1. m_threadMain \in Runner /\ m_threadMain <= starts /\ m_running
  BY DEF Runner, Alive
<1>2. CASE Spawn
  <2>1. m_threadMain # starts + 1
    BY <1>1 DEF Runner
  <2>2. runner'[m_threadMain] = runner[m_threadMain]
    BY <1>1, <1>2, <2>1 DEF Spawn
  <2>3. QED
    BY <1>2, <2>2 DEF Spawn, Alive
<1>3. ASSUME Assign PROVE FALSE
  BY <1>3 DEF Assign, Alive
<1>4. ASSUME NEW r \in Runner, \/ Test(r)
                              \/ WaitForEvent(r)
                              \/ Wake(r)
                              \/ WakeSpuriously(r)
      PROVE  control' \in {"spawn", "assign"} /\ OldAlive'
  <2>1. UNCHANGED <<m_threadMain, control>>
    BY <1>4 DEF Test, WaitForEvent, Wake, WakeSpuriously
  <2>2. \E to \in {"gate", "wait", "woken", "test"} : runner' = [runner EXCEPT ![r] = to]
    BY <1>1, <1>4 DEF Test, WaitForEvent, Wake, WakeSpuriously, Move
  <2>3. runner'[m_threadMain] \notin {"none", "exited"}
    BY <1>1, <2>2 DEF Alive
  <2>4. QED
    BY <2>1, <2>3 DEF Alive
<1>5. CASE UNCHANGED runtimeVars
  BY <1>5 DEF runtimeVars, Alive
<1>6. QED
  BY <1>2, <1>3, <1>4, <1>5
     DEF RuntimeNext, Blocked, Start, Stop, StopNotify, DestructStop,
         DestructNotify, DestructJoin

\* Once Start is in progress while the loop of an earlier start is alive, it is
\* in progress for ever, with both loops: for any number of starts.
THEOREM StartBlockedHolds == RuntimeSpec => StartBlocked
<1>1. RuntimeInv /\ [RuntimeNext]_runtimeVars
        => StaysBlocked
  BY StartBlockedStep DEF StaysBlocked
<1>2. QED
  BY <1>1, RuntimeInvariance, PTL DEF RuntimeSpec, StartBlocked

\* ServiceRuntime's destructor returns only after every loop that captured the
\* runtime is over, a spuriously failed exchange in its Stop included.
THEOREM NoLoopAfterDestructionHolds == RuntimeSpec => []NoLoopAfterDestruction
<1>1. RuntimeInv => NoLoopAfterDestruction
  BY DEF RuntimeInv
<1>2. QED
  BY <1>1, RuntimeInvariance, PTL

=============================================================================
