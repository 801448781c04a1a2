-------------------------- MODULE CommandLine_proofs --------------------------
(***************************************************************************)
(* Whoever gets past the latch of an execution of nocli finds the line's   *)
(* operations complete, and options that nothing is said about are sent    *)
(* consistent, for any lines without a command twice, any options and any  *)
(* number of Ctrl-C presses.                                               *)
(*                                                                         *)
(* WaitedForAll is about the operations; what a thread waits for is a      *)
(* number.  LatchInv relates the two: the latch is at least the operations *)
(* that main has not completed, with the one that it is about to count     *)
(* down, less the one that the session's end has counted down.             *)
(***************************************************************************)
EXTENDS CommandLine, Integers, FiniteSetTheorems, TLAPS

-----------------------------------------------------------------------------
(* The invariant, in parts.                                                *)

MainPosition == {"parse", "run", "check", "count", "write", "monitor", "register", "save",
                 "wait", "take", "stop", "drop", "returned", "aborted"}
HandlerPosition == {"idle", "cancel", "entry", "wait", "take", "stop", "drop", "done"}
DispatchPosition == {"idle", "lost", "check", "count", "write", "reset", "done", "stuck"}

TypeOK ==
    /\ line \in Lines
    /\ options \in Options
    /\ next \in 1 .. Len(line) + 1
    /\ pc \in [Waiter \cup {"dispatch"} -> MainPosition \cup HandlerPosition \cup DispatchPosition]
    /\ pc["main"] \in MainPosition
    /\ \A h \in Handler : pc[h] \in HandlerPosition
    /\ pc["dispatch"] \in DispatchPosition
    /\ after \in [Waiter -> {"returned", "entry", "done"}]
    /\ after["main"] = "returned"
    /\ \A h \in Handler : after[h] # "returned"
    /\ context \in BOOLEAN
    /\ m_cliAppOperations \subseteq Operation
    /\ m_operationCompleteLatch \in Int
    /\ session \in {"none", "active", "ended"}

\* Whatever was set of the options was computed from all of them.
ParametersInv ==
    RangingParameters \in {None, ProcessApplicationConfigurationParameters(options)}

\* Until the line is parsed there is no context, and nothing else has happened.
ParseInv ==
    IF pc["main"] = "parse"
    THEN /\ ~context /\ session = "none"
         /\ m_cliAppOperations = {line[i] : i \in 1 .. (next - 1)} \cap Operation
    ELSE context

NoContext == ~context => /\ \A h \in Handler : pc[h] \in {"idle", "cancel"}
                         /\ pc["dispatch"] = "idle"

\* Has main taken the operation of line[next] off its list?
Completing == pc["main"] \in {"check", "count", "write"}

\* An operation stays on the list until main completes it; the start of a
\* session, which main does not complete, for ever.
Listed ==
    context => \A i \in DOMAIN line :
        /\ line[i] \in Operation
        /\ i > next \/ (i = next /\ ~Completing) \/ line[i] = "rangestart"
        => line[i] \in m_cliAppOperations

\* There is a session once the start of one has returned, and an end of it is
\* told only when it has ended.
SessionInv ==
    /\ session # "none" => \E i \in DOMAIN line :
          line[i] = "rangestart" /\ (i < next \/ (i = next /\ pc["main"] \in {"register", "save"}))
    /\ pc["main"] \in {"register", "save", "monitor"} =>
          next <= Len(line) /\ line[next] = IF pc["main"] = "monitor" THEN "monitor" ELSE "rangestart"
    /\ Completing => next <= Len(line) /\ line[next] # "rangestart"
    /\ pc["dispatch"] # "idle" => session = "ended"

One(b) == IF b THEN 1 ELSE 0

ByMain == One(pc["main"] \in {"check", "count"})
BySession == One(pc["dispatch"] \in {"write", "reset", "done", "stuck"})

LatchInv ==
    context => m_operationCompleteLatch >= Cardinality(m_cliAppOperations) + ByMain - BySession

\* A thread that waits comes from WaitForExecutionComplete, which no thread that
\* has yet to request the stop has reached.
WaitInv == \A h \in Handler :
    /\ pc[h] = "wait" => after[h] = "done"
    /\ pc[h] \in {"idle", "cancel"} => after[h] = "entry"

IInv == /\ TypeOK /\ ParametersInv /\ WaitedForAll /\ WaitInv
        /\ ~Over => ParseInv /\ NoContext /\ Listed /\ SessionInv /\ LatchInv

-----------------------------------------------------------------------------
(* What every step does.                                                   *)

Complete == /\ m_cliAppOperations \subseteq {"rangestart"}
            /\ "rangestart" \in m_cliAppOperations => session = "ended"

Past(t) == pc[t] \in {"take", "stop", "drop"} /\ after[t] # "entry"

LEMMA WaitedFor == WaitedForAll <=> \A t \in Waiter : Past(t) => Complete
  BY DEF WaitedForAll, Past, Complete

LEMMA InitIInv == Init => IInv
<1> SUFFICES ASSUME Init PROVE IInv
  OBVIOUS
<1>1. line \in Seq(Operation \cup UsesDevice)
  BY CommandLineAssumption DEF Init
<1>2. TypeOK
  <2>1. Len(line) \in Nat
    BY <1>1
  <2>2. /\ pc = [t \in Waiter \cup {"dispatch"} |-> IF t = "main" THEN "parse" ELSE "idle"]
        /\ after = [t \in Waiter |-> IF t = "main" THEN "returned" ELSE "entry"]
        /\ "main" \in Waiter /\ Handler \subseteq Waiter /\ "main" \notin Handler
    BY CommandLineAssumption DEF Init, Waiter
  <2>3. next \in 1 .. Len(line) + 1
    BY <2>1 DEF Init
  <2>4. /\ pc \in [Waiter \cup {"dispatch"} ->
                   MainPosition \cup HandlerPosition \cup DispatchPosition]
        /\ pc["main"] = "parse" /\ pc["dispatch"] = "idle"
        /\ \A h \in Handler : pc[h] = "idle"
    BY <2>2 DEF MainPosition, HandlerPosition, DispatchPosition
  <2>5. /\ after \in [Waiter -> {"returned", "entry", "done"}]
        /\ after["main"] = "returned"
        /\ \A h \in Handler : after[h] # "returned"
    BY <2>2
  <2>6. /\ line \in Lines /\ options \in Options /\ context = FALSE
        /\ m_cliAppOperations = {}
        /\ m_operationCompleteLatch = 0
        /\ session = "none"
    BY DEF Init
  <2>7. /\ pc["main"] \in MainPosition
        /\ \A h \in Handler : pc[h] \in HandlerPosition
        /\ pc["dispatch"] \in DispatchPosition
    BY <2>4 DEF MainPosition, HandlerPosition, DispatchPosition
  <2>8. context \in BOOLEAN
    BY <2>6
  <2>9. /\ m_cliAppOperations \subseteq Operation
        /\ m_operationCompleteLatch \in Int
        /\ session \in {"none", "active", "ended"}
    BY <2>6
  <2>10. QED
    BY <2>3, <2>4, <2>5, <2>6, <2>7, <2>8, <2>9 DEF TypeOK
<1>3. QED
  BY <1>2, CommandLineAssumption DEF Init, IInv, ParametersInv, WaitedForAll, WaitInv, ParseInv, NoContext,
     Listed, SessionInv, LatchInv, Completing, Waiter

\* What TypeOK says of the positions, once one of them has changed.
LEMMA Moved ==
  ASSUME TypeOK, NEW t \in Waiter \cup {"dispatch"}, NEW to, Goes(t, to),
         t = "main" => to \in MainPosition,
         t \in Handler => to \in HandlerPosition,
         t = "dispatch" => to \in DispatchPosition
  PROVE  /\ pc' \in [Waiter \cup {"dispatch"} -> MainPosition \cup HandlerPosition \cup DispatchPosition]
         /\ pc'["main"] \in MainPosition
         /\ \A h \in Handler : pc'[h] \in HandlerPosition
         /\ pc'["dispatch"] \in DispatchPosition
         /\ pc'[t] = to
         /\ \A u \in Waiter \cup {"dispatch"} : u # t => pc'[u] = pc[u]
         /\ ~Over
  BY CommandLineAssumption DEF TypeOK, Goes, Waiter

LEMMA Operations == ASSUME NEW S \in SUBSET Operation
                    PROVE  IsFiniteSet(S) /\ Cardinality(S) \in Nat
<1>1. /\ IsFiniteSet({"sessiondeinit"}) /\ IsFiniteSet({"getsessioncount"})
      /\ IsFiniteSet({"rangestart"}) /\ IsFiniteSet({"rangestop"})
      /\ IsFiniteSet({"servicestart"}) /\ IsFiniteSet({"monitor"})
  BY FS_Singleton
<1>2. IsFiniteSet((({"sessiondeinit"} \cup {"getsessioncount"}) \cup
                     ({"rangestart"} \cup {"rangestop"})) \cup
                       ({"servicestart"} \cup {"monitor"}))
  BY <1>1, FS_Union
<1>3. Operation = (({"sessiondeinit"} \cup {"getsessioncount"}) \cup
                     ({"rangestart"} \cup {"rangestop"})) \cup
                       ({"servicestart"} \cup {"monitor"})
  BY DEF Operation
<1>4. QED
  BY <1>2, <1>3, FS_Subset, FS_CardinalityType

LEMMA StaysComplete ==
  ASSUME WaitedForAll, Complete => Complete',
         \A t \in Waiter : Past(t)' => Past(t) \/ Complete
  PROVE  WaitedForAll'
  BY DEF WaitedForAll, Past, Complete

\* main ends the program.
LEMMA Ends ==
  ASSUME IInv, NEW to \in {"returned", "aborted"}, Goes("main", to),
         UNCHANGED <<inputVars, next, m_cliAppOperations, RangingParameters, context,
                     m_operationCompleteLatch, after, session>>
  PROVE  IInv'
<1>1. "main" \in Waiter /\ to \in MainPosition /\ "main" \notin Handler /\ Handler \subseteq Waiter
  BY CommandLineAssumption DEF Waiter, MainPosition
<1>2. /\ pc' \in [Waiter \cup {"dispatch"} -> MainPosition \cup HandlerPosition \cup DispatchPosition]
      /\ pc'["main"] = to
      /\ \A h \in Handler : pc'[h] = pc[h]
      /\ pc'["dispatch"] = pc["dispatch"]
  BY <1>1, Moved, CommandLineAssumption DEF IInv
<1>3. TypeOK'
  BY <1>1, <1>2 DEF IInv, TypeOK, inputVars
<1>4. WaitedForAll'
  <2>1. \A t \in Waiter : Past(t)' => Past(t)
    BY <1>2 DEF Past, Waiter
  <2>2. QED
    BY <2>1, StaysComplete DEF IInv, Complete
<1>5. ParametersInv' /\ WaitInv'
  BY <1>2 DEF IInv, ParametersInv, WaitInv, inputVars
<1>6. Over'
  BY <1>2 DEF Over
<1>7. QED
  BY <1>3, <1>4, <1>5, <1>6 DEF IInv

\* A Ctrl-C handler goes on.
LEMMA HandlerMoves ==
  ASSUME IInv, NEW h \in Handler, NEW to \in HandlerPosition, Goes(h, to),
         context \/ to = "cancel",
         \E a \in {"entry", "done"} : after' = [after EXCEPT ![h] = a],
         to = "wait" => after'[h] = "done",
         to \in {"idle", "cancel"} => after'[h] = "entry",
         Past(h)' => Past(h) \/ Complete,
         session' = session \/ (session = "active" /\ session' = "ended"),
         UNCHANGED <<inputVars, next, m_cliAppOperations, RangingParameters, context,
                     m_operationCompleteLatch>>
  PROVE  IInv'
<1>1. h \in Waiter /\ h # "main" /\ h # "dispatch" /\ Handler \subseteq Waiter /\ "main" \in Waiter
  BY CommandLineAssumption DEF Waiter
<1>2. /\ pc' \in [Waiter \cup {"dispatch"} -> MainPosition \cup HandlerPosition \cup DispatchPosition]
      /\ pc'["main"] = pc["main"] /\ pc'["dispatch"] = pc["dispatch"]
      /\ pc'[h] = to /\ \A g \in Waiter : g # h => pc'[g] = pc[g]
      /\ ~Over
  BY <1>1, Moved DEF IInv
<1>3. /\ after' \in [Waiter -> {"returned", "entry", "done"}]
      /\ after'[h] # "returned"
      /\ \A g \in Waiter : g # h => after'[g] = after[g]
  BY <1>1 DEF IInv, TypeOK
<1>4. TypeOK'
  <2>1. session' \in {"none", "active", "ended"}
    BY DEF IInv, TypeOK
  <2>2. QED
    BY <1>1, <1>2, <1>3, <2>1 DEF IInv, TypeOK, inputVars
<1>5. WaitedForAll'
  <2>1. \A t \in Waiter : Past(t)' => Past(t) \/ Complete
    BY <1>2, <1>3 DEF Past
  <2>2. QED
    BY <2>1, StaysComplete DEF IInv, Complete
<1>6. ParametersInv' /\ WaitInv'
  BY <1>1, <1>2, <1>3 DEF IInv, ParametersInv, WaitInv, inputVars
<1>7. ParseInv' /\ Listed' /\ LatchInv'
  BY <1>2 DEF IInv, ParseInv, Listed, LatchInv, Completing, ByMain, BySession, inputVars
<1>8. NoContext'
  BY <1>2, <1>1 DEF IInv, NoContext
<1>9. SessionInv'
  BY <1>2 DEF IInv, SessionInv, Completing, inputVars
<1>10. QED
  BY <1>4, <1>5, <1>6, <1>7, <1>8, <1>9 DEF IInv

\* So does the thread on which the session's end arrives.
LEMMA DispatchMoves ==
  ASSUME IInv, NEW to \in DispatchPosition, Goes("dispatch", to), session = "ended",
         m_operationCompleteLatch' \in Int,
         m_operationCompleteLatch' + One(to \in {"write", "reset", "done", "stuck"})
             >= m_operationCompleteLatch + BySession,
         UNCHANGED <<inputVars, next, m_cliAppOperations, RangingParameters, context,
                     after, session>>
  PROVE  IInv'
<1>1. "dispatch" \notin Waiter /\ Handler \subseteq Waiter /\ "main" \in Waiter
  BY CommandLineAssumption DEF Waiter
<1>2. /\ pc' \in [Waiter \cup {"dispatch"} -> MainPosition \cup HandlerPosition \cup DispatchPosition]
      /\ pc'["main"] = pc["main"] /\ pc'["dispatch"] = to
      /\ \A t \in Waiter : pc'[t] = pc[t]
      /\ ~Over
  BY <1>1, Moved DEF IInv
<1>3. TypeOK'
  BY <1>1, <1>2 DEF IInv, TypeOK, inputVars
<1>4. WaitedForAll'
  <2>1. \A t \in Waiter : Past(t)' => Past(t)
    BY <1>2 DEF Past
  <2>2. QED
    BY <2>1, StaysComplete DEF IInv, Complete
<1>5. ParametersInv' /\ WaitInv'
  BY <1>1, <1>2 DEF IInv, ParametersInv, WaitInv, inputVars
<1>6. ParseInv' /\ Listed'
  BY <1>2 DEF IInv, ParseInv, Listed, Completing, inputVars
<1>7. NoContext' /\ SessionInv'
  BY <1>1, <1>2 DEF IInv, NoContext, SessionInv, ParseInv, Completing, inputVars
<1>8. LatchInv'
  <2>1. ByMain' = ByMain /\ BySession' = One(to \in {"write", "reset", "done", "stuck"})
    BY <1>2 DEF ByMain, BySession
  <2>2. ByMain \in Int /\ BySession \in Int /\ BySession' \in Int
    BY <2>1 DEF ByMain, BySession, One
  <2>3. Cardinality(m_cliAppOperations) \in Nat /\ m_operationCompleteLatch \in Int
    BY Operations DEF IInv, TypeOK
  <2>4. QED
    BY <1>2, <2>1, <2>2, <2>3 DEF IInv, LatchInv
<1>9. QED
  BY <1>3, <1>4, <1>5, <1>6, <1>7, <1>8 DEF IInv

-----------------------------------------------------------------------------
(* The latch.                                                              *)

\* With the latch open, every operation is complete, or all but the session's
\* is and the session has ended.
LEMMA Open ==
  ASSUME IInv, ~Over, context, m_operationCompleteLatch = 0
  PROVE  Complete
<1>1. /\ Cardinality(m_cliAppOperations) \in Nat /\ IsFiniteSet(m_cliAppOperations)
      /\ ByMain \in {0, 1} /\ BySession \in {0, 1}
  BY Operations DEF IInv, TypeOK, ByMain, BySession, One
<1>2. Cardinality(m_cliAppOperations) <= BySession
  BY <1>1 DEF IInv, LatchInv
<1>3. CASE BySession = 0
  <2>1. m_cliAppOperations = {}
    BY <1>1, <1>2, <1>3, FS_EmptySet
  <2>2. QED
    BY <2>1 DEF Complete
<1>4. CASE BySession = 1
  <2>1. session = "ended"
    BY <1>4 DEF IInv, SessionInv, BySession, One
  <2>2. "rangestart" \in m_cliAppOperations
    BY <2>1 DEF IInv, SessionInv, Listed, Operation
  <2>3. /\ Cardinality(m_cliAppOperations \ {"rangestart"}) = Cardinality(m_cliAppOperations) - 1
        /\ IsFiniteSet(m_cliAppOperations \ {"rangestart"})
    BY <1>1, <2>2, FS_RemoveElement
  <2>4. Cardinality(m_cliAppOperations \ {"rangestart"}) \in Nat
    BY <2>3, FS_CardinalityType
  <2>5. Cardinality(m_cliAppOperations \ {"rangestart"}) = 0
    BY <1>1, <1>2, <1>4, <2>3, <2>4
  <2>6. m_cliAppOperations \ {"rangestart"} = {}
    BY <2>3, <2>5, FS_EmptySet
  <2>7. QED
    BY <2>1, <2>6 DEF Complete
<1>5. QED
  BY <1>1, <1>3, <1>4

-----------------------------------------------------------------------------
(* main, once the line is parsed.                                          *)

LEMMA MainAt ==
  ASSUME IInv, NEW to, Goes("main", to), to \in MainPosition
  PROVE  /\ pc' \in [Waiter \cup {"dispatch"} -> MainPosition \cup HandlerPosition \cup DispatchPosition]
         /\ pc'["main"] = to /\ pc'["dispatch"] = pc["dispatch"]
         /\ \A h \in Handler : pc'[h] = pc[h]
         /\ ~Over /\ "main" \in Waiter
         /\ pc["main"] # "parse" => context
<1>1. "main" \in Waiter /\ "main" \notin Handler /\ Handler \subseteq Waiter
      /\ "dispatch" \notin Handler
  BY CommandLineAssumption DEF Waiter
<1>2. TypeOK
  BY DEF IInv
<1>3. /\ pc' \in [Waiter \cup {"dispatch"} -> MainPosition \cup HandlerPosition \cup DispatchPosition]
      /\ pc'["main"] = to
      /\ \A u \in Waiter \cup {"dispatch"} : u # "main" => pc'[u] = pc[u]
      /\ ~Over
  BY <1>1, <1>2, Moved
<1>4. pc["main"] # "parse" => context
  BY <1>3 DEF IInv, ParseInv
<1>5. QED
  BY <1>1, <1>3, <1>4

LEMMA MainMoves ==
  ASSUME IInv, context, NEW to \in MainPosition \ {"parse"}, Goes("main", to),
         next' \in 1 .. Len(line) + 1, m_cliAppOperations' \subseteq Operation,
         m_operationCompleteLatch' \in Int, session' \in {"none", "active", "ended"},
         ~Over' => Listed' /\ SessionInv' /\ LatchInv',
         WaitedForAll',
         UNCHANGED <<inputVars, RangingParameters, context, after>>
  PROVE  IInv'
<1>1. "main" \in Waiter /\ "main" \notin Handler /\ Handler \subseteq Waiter
  BY CommandLineAssumption DEF Waiter
<1>2. /\ pc' \in [Waiter \cup {"dispatch"} -> MainPosition \cup HandlerPosition \cup DispatchPosition]
      /\ pc'["main"] = to /\ pc'["dispatch"] = pc["dispatch"]
      /\ \A h \in Handler : pc'[h] = pc[h]
  BY MainAt
<1>3. TypeOK'
  BY <1>1, <1>2 DEF IInv, TypeOK, inputVars
<1>4. ParametersInv' /\ WaitInv'
  BY <1>1, <1>2 DEF IInv, ParametersInv, WaitInv, inputVars
<1>5. ParseInv' /\ NoContext'
  BY <1>2 DEF ParseInv, NoContext
<1>6. QED
  BY <1>3, <1>4, <1>5 DEF IInv

\* The numbers that the parts of the invariant speak of.
LEMMA Numbers ==
  ASSUME IInv
  PROVE  /\ next \in Nat /\ Len(line) \in Nat /\ DOMAIN line = 1 .. Len(line)
         /\ next \in 1 .. Len(line) + 1
         /\ \A i \in DOMAIN line : line[i] \in Operation \cup UsesDevice /\ i \in Nat
         /\ \A i, j \in DOMAIN line : line[i] = line[j] => i = j
         /\ Cardinality(m_cliAppOperations) \in Nat
         /\ IsFiniteSet(m_cliAppOperations)
         /\ m_operationCompleteLatch \in Int
         /\ ByMain \in {0, 1} /\ BySession \in {0, 1}
<1>1. line \in Lines /\ next \in 1 .. Len(line) + 1
  BY DEF IInv, TypeOK
<1>2. line \in Seq(Operation \cup UsesDevice)
  BY <1>1, CommandLineAssumption
<1>3. Len(line) \in Nat /\ DOMAIN line = 1 .. Len(line)
  BY <1>2
<1>4. \A i \in DOMAIN line : line[i] \in Operation \cup UsesDevice /\ i \in Nat
  BY <1>2, <1>3
<1>5. \A i, j \in DOMAIN line : line[i] = line[j] => i = j
  BY <1>1, CommandLineAssumption
<1>6. QED
  BY <1>1, <1>3, <1>4, <1>5, Operations DEF IInv, TypeOK, ByMain, BySession, One

\* A command returns.
LEMMA GoesOnKeeps ==
  ASSUME IInv, pc["main"] \in {"run", "save", "check", "write"}, next <= Len(line), GoesOn,
         m_operationCompleteLatch' = m_operationCompleteLatch,
         UNCHANGED <<inputVars, m_cliAppOperations, RangingParameters, context, after, session>>
  PROVE  IInv'
<1>1. /\ pc'["main"] = "run" /\ pc'["dispatch"] = pc["dispatch"]
      /\ \A h \in Handler : pc'[h] = pc[h]
      /\ ~Over /\ context /\ next' = next + 1 /\ Goes("main", "run")
  BY MainAt DEF GoesOn, MainPosition
<1>2. next' \in 1 .. Len(line) + 1
  BY <1>1, Numbers
<1>3. WaitedForAll'
  <2>1. \A t \in Waiter : Past(t)' => Past(t)
    BY <1>1 DEF Past, Waiter
  <2>2. QED
    BY <2>1, StaysComplete DEF IInv, Complete
<1>4. Listed'
  BY <1>1, Numbers DEF IInv, Listed, inputVars
<1>5. SessionInv'
  <2>1. session' # "none" => \E i \in DOMAIN line' : line'[i] = "rangestart" /\ i < next'
    <3> SUFFICES ASSUME session # "none" PROVE \E i \in DOMAIN line : line[i] = "rangestart" /\ i < next + 1
      BY <1>1 DEF inputVars
    <3>1. PICK i \in DOMAIN line : line[i] = "rangestart" /\ i <= next
      BY <1>1, Numbers DEF IInv, SessionInv
    <3>2. QED
      BY <3>1, Numbers
  <2>2. QED
    BY <1>1, <2>1 DEF IInv, SessionInv, Completing
<1>6. LatchInv'
  <2>1. ByMain' = 0 /\ BySession' = BySession
    BY <1>1 DEF ByMain, BySession, One
  <2>2. QED
    BY <1>1, <2>1, Numbers DEF IInv, LatchInv
<1>7. QED
  <2>1. /\ m_cliAppOperations' \subseteq Operation /\ session' \in {"none", "active", "ended"}
        /\ m_operationCompleteLatch' \in Int
    BY DEF IInv, TypeOK
  <2>2. "run" \in MainPosition \ {"parse"}
    BY DEF MainPosition
  <2>3. QED
    BY <1>1, <1>2, <1>3, <1>4, <1>5, <1>6, <2>1, <2>2, MainMoves

\* main is elsewhere in the same command, or waits, or stops the session.
LEMMA SameCommand ==
  ASSUME IInv, pc["main"] # "parse", NEW to \in MainPosition \ {"parse"}, Goes("main", to),
         \/ to \notin {"check", "count", "write", "register", "save", "monitor"}
         \/ pc["main"] \in {"check", "count"} /\ to \in {"count", "write"}
         \/ /\ pc["main"] = "run" /\ to = "monitor"
            /\ next <= Len(line) /\ line[next] = "monitor"
         \/ pc["main"] = "register" /\ to = "save",
         pc["main"] \in {"check", "count", "write", "register", "save", "monitor"} =>
             to \in {"count", "write", "save"} \cup {"returned", "aborted"},
         m_operationCompleteLatch' \in Int,
         m_operationCompleteLatch' + ByMain >= m_operationCompleteLatch + One(to \in {"check", "count"}),
         session' = session \/ (session = "active" /\ session' = "ended"),
         Past("main")' => Past("main") \/ Complete,
         UNCHANGED <<inputVars, next, m_cliAppOperations, RangingParameters, context, after>>
  PROVE  IInv'
<1>1. /\ pc'["main"] = to /\ pc'["dispatch"] = pc["dispatch"]
      /\ \A h \in Handler : pc'[h] = pc[h]
      /\ ~Over /\ context
  BY MainAt
<1>2. WaitedForAll'
  <2>1. \A t \in Waiter : Past(t)' => Past(t) \/ Complete
    BY <1>1 DEF Past, Waiter
  <2>2. QED
    BY <2>1, StaysComplete DEF IInv, Complete
<1>3. ASSUME ~Over' PROVE Listed' /\ SessionInv' /\ LatchInv'
  <2>1. to \notin {"returned", "aborted"}
    BY <1>1, <1>3 DEF Over
  <2>2. Listed'
    BY <1>1, <2>1 DEF IInv, Listed, Completing, inputVars
  <2>3. SessionInv'
    BY <1>1, <2>1 DEF IInv, SessionInv, Completing, inputVars
  <2>4. LatchInv'
    <3>1. ByMain' = One(to \in {"check", "count"}) /\ BySession' = BySession
      BY <1>1 DEF ByMain, BySession
    <3>2. One(to \in {"check", "count"}) \in {0, 1}
      BY DEF One
    <3>3. QED
      BY <1>1, <3>1, <3>2, Numbers DEF IInv, LatchInv
  <2>5. QED
    BY <2>2, <2>3, <2>4
<1>4. QED
  <2>1. /\ m_cliAppOperations' \subseteq Operation /\ session' \in {"none", "active", "ended"}
        /\ next' \in 1 .. Len(line) + 1
    BY DEF IInv, TypeOK
  <2>2. QED
    BY <1>1, <1>2, <1>3, <2>1, MainMoves

\* A command signals its end.
LEMMA SignalsKeeps ==
  ASSUME IInv, pc["main"] \in {"run", "monitor"}, next <= Len(line),
         line[next] \in Operation \ {"rangestart"}, SignalCliAppOperationCompleted,
         session' = session \/ (session = "active" /\ session' = "ended")
  PROVE  IInv'
<1>1. Goes("main", "check") /\ "check" \in MainPosition
  BY DEF SignalCliAppOperationCompleted, MainPosition
<1>2. /\ pc'["main"] = "check" /\ pc'["dispatch"] = pc["dispatch"]
      /\ \A h \in Handler : pc'[h] = pc[h]
      /\ ~Over /\ context
      /\ m_cliAppOperations' = m_cliAppOperations \ {line[next]}
      /\ m_operationCompleteLatch' = m_operationCompleteLatch
      /\ UNCHANGED <<inputVars, next, RangingParameters, context, after>>
  BY <1>1, MainAt DEF SignalCliAppOperationCompleted, latchVars, stopVars
<1>3. WaitedForAll'
  <2>1. \A t \in Waiter : Past(t)' => Past(t)
    BY <1>2 DEF Past, Waiter
  <2>2. Complete => Complete'
    BY <1>2 DEF Complete
  <2>3. QED
    BY <2>1, <2>2, StaysComplete DEF IInv
<1>4. Listed'
  BY <1>2, Numbers DEF IInv, Listed, Completing, inputVars
<1>5. SessionInv'
  BY <1>2 DEF IInv, SessionInv, Completing, inputVars
<1>6. LatchInv'
  <2>1. line[next] \in m_cliAppOperations
    BY <1>2, Numbers DEF IInv, Listed, Completing
  <2>2. Cardinality(m_cliAppOperations') = Cardinality(m_cliAppOperations) - 1
    BY <1>2, <2>1, Numbers, FS_RemoveElement
  <2>3. ByMain = 0 /\ ByMain' = 1 /\ BySession' = BySession
    BY <1>2 DEF ByMain, BySession, One
  <2>4. m_operationCompleteLatch >= Cardinality(m_cliAppOperations) + ByMain - BySession
    BY <1>2 DEF IInv, LatchInv
  <2>5. m_operationCompleteLatch' >= Cardinality(m_cliAppOperations') + ByMain' - BySession'
    BY <1>2, <2>2, <2>3, <2>4, Numbers
  <2>6. QED
    BY <2>5 DEF LatchInv
<1>7. QED
  <2>1. /\ m_cliAppOperations' \subseteq Operation /\ session' \in {"none", "active", "ended"}
        /\ next' \in 1 .. Len(line) + 1 /\ m_operationCompleteLatch' \in Int
    BY <1>2 DEF IInv, TypeOK
  <2>2. "check" \in MainPosition \ {"parse"}
    BY DEF MainPosition
  <2>3. QED
    BY <1>1, <1>2, <1>3, <1>4, <1>5, <1>6, <2>1, <2>2, MainMoves

\* The start of a session: it is the only one of the line.
LEMMA HandleDriverStartRangingKeeps ==
  ASSUME IInv, HandleDriverStartRanging
  PROVE  IInv'
<1>1. /\ Goes("main", "register") /\ "register" \in MainPosition \ {"parse"}
      /\ pc["main"] = "run" /\ next <= Len(line) /\ line[next] = "rangestart"
      /\ session' = "active"
      /\ UNCHANGED <<inputVars, next, m_cliAppOperations, RangingParameters, context,
                     m_operationCompleteLatch, after>>
  BY DEF HandleDriverStartRanging, Runs, MainPosition, parseVars, latchVars, stopVars
<1>2. /\ pc'["main"] = "register" /\ pc'["dispatch"] = pc["dispatch"]
      /\ \A h \in Handler : pc'[h] = pc[h]
      /\ ~Over /\ context
  BY <1>1, MainAt
<1>3. next \in DOMAIN line
  BY <1>1, Numbers
<1>4. session = "none"
  <2>1. \A i \in DOMAIN line : line[i] = "rangestart" => i = next
    BY <1>1, <1>3, Numbers
  <2>2. QED
    BY <1>1, <1>2, <2>1, Numbers DEF IInv, SessionInv
<1>5. "rangestart" \in m_cliAppOperations
  BY <1>1, <1>2, <1>3 DEF IInv, Listed, Operation
<1>6. WaitedForAll'
  <2>1. ~Complete
    BY <1>4, <1>5 DEF Complete
  <2>2. \A t \in Waiter : Past(t)' => Past(t)
    BY <1>1, <1>2 DEF Past, Waiter
  <2>3. QED
    BY <2>1, <2>2, StaysComplete DEF IInv
<1>7. Listed'
  BY <1>1, <1>2 DEF IInv, Listed, Completing, inputVars
<1>8. SessionInv'
  BY <1>1, <1>2, <1>3, <1>4 DEF IInv, SessionInv, Completing, inputVars
<1>9. LatchInv'
  <2>1. ByMain' = ByMain /\ BySession' = BySession
    BY <1>1, <1>2 DEF ByMain, BySession
  <2>2. QED
    BY <1>1, <1>2, <2>1 DEF IInv, LatchInv
<1>10. QED
  <2>1. /\ m_cliAppOperations' \subseteq Operation /\ session' \in {"none", "active", "ended"}
        /\ next' \in 1 .. Len(line) + 1 /\ m_operationCompleteLatch' \in Int
    BY <1>1 DEF IInv, TypeOK
  <2>2. QED
    BY <1>1, <1>2, <1>6, <1>7, <1>8, <1>9, <2>1, MainMoves

-----------------------------------------------------------------------------
(* main, until the line is parsed.                                         *)

\* A command is registered.
LEMMA RegisterKeeps ==
  ASSUME IInv, RegisterCliAppWithOperation
  PROVE  IInv'
<1>1. CASE Goes("main", "aborted") /\ UNCHANGED parseVars
  BY <1>1, Ends DEF RegisterCliAppWithOperation, parseVars, latchVars, stopVars
<1>2. CASE /\ Goes("main", "parse") /\ next' = next + 1 /\ UNCHANGED context
           /\ m_cliAppOperations' = m_cliAppOperations \cup ({line[next]} \cap Operation)
           /\ RangingParameters' \in
                  {RangingParameters, ProcessApplicationConfigurationParameters(options)}
  <2>1. /\ pc'["main"] = "parse" /\ pc'["dispatch"] = pc["dispatch"]
        /\ \A h \in Handler : pc'[h] = pc[h]
        /\ pc' \in [Waiter \cup {"dispatch"} -> MainPosition \cup HandlerPosition \cup DispatchPosition]
        /\ ~Over
    BY <1>2, MainAt DEF MainPosition
  <2>2. /\ pc["main"] = "parse" /\ next <= Len(line)
        /\ UNCHANGED <<inputVars, m_operationCompleteLatch, after, session>>
    BY DEF RegisterCliAppWithOperation, latchVars, stopVars
  <2>3. ~context /\ session = "none"
        /\ m_cliAppOperations = {line[i] : i \in 1 .. (next - 1)} \cap Operation
    BY <2>1, <2>2 DEF IInv, ParseInv
  <2>4. next' \in 1 .. Len(line) + 1 /\ 1 .. (next' - 1) = (1 .. (next - 1)) \cup {next}
    BY <1>2, <2>2, Numbers
  <2>5. TypeOK'
    <3>1. next' \in 1 .. Len(line)' + 1 /\ m_cliAppOperations' \subseteq Operation
      BY <1>2, <2>2, <2>4 DEF IInv, TypeOK, inputVars
    <3>2. QED
      BY <1>2, <2>1, <2>2, <3>1 DEF IInv, TypeOK, inputVars, MainPosition
  <2>6. ParametersInv' /\ WaitInv'
    BY <1>2, <2>1, <2>2 DEF IInv, ParametersInv, WaitInv, inputVars
  <2>7. ParseInv'
    <3>1. m_cliAppOperations' = {line[i] : i \in 1 .. (next' - 1)} \cap Operation
      BY <1>2, <2>3, <2>4
    <3>2. QED
      BY <1>2, <2>1, <2>2, <2>3, <3>1 DEF ParseInv, inputVars
  <2>8. WaitedForAll'
    <3>1. \A t \in Waiter : ~Past(t)'
      BY <2>1, <2>2, <2>3 DEF IInv, NoContext, Past, Waiter
    <3>2. QED
      BY <3>1 DEF WaitedForAll, Past
  <2>9. NoContext' /\ Listed' /\ LatchInv'
    BY <1>2, <2>1, <2>3 DEF IInv, NoContext, Listed, LatchInv
  <2>10. SessionInv'
    BY <2>1, <2>2, <2>3 DEF IInv, NoContext, SessionInv, Completing
  <2>11. QED
    BY <2>5, <2>6, <2>7, <2>8, <2>9, <2>10 DEF IInv
<1>3. QED
  BY <1>1, <1>2 DEF RegisterCliAppWithOperation, Aborts

\* The context is made, its latch as high as there are operations.
LEMMA ParseCompleteKeeps ==
  ASSUME IInv, ParseComplete
  PROVE  IInv'
<1>1. /\ pc["main"] = "parse" /\ next > Len(line)
      /\ Goes("main", "run") /\ context' = TRUE /\ next' = 1
      /\ m_operationCompleteLatch' = Cardinality(m_cliAppOperations)
      /\ UNCHANGED <<inputVars, m_cliAppOperations, RangingParameters, after, session>>
  BY DEF ParseComplete, stopVars
<1>2. /\ pc'["main"] = "run" /\ pc'["dispatch"] = pc["dispatch"]
      /\ \A h \in Handler : pc'[h] = pc[h]
      /\ pc' \in [Waiter \cup {"dispatch"} -> MainPosition \cup HandlerPosition \cup DispatchPosition]
      /\ ~Over
  BY <1>1, MainAt DEF MainPosition
<1>3. /\ ~context /\ session = "none"
      /\ m_cliAppOperations = {line[i] : i \in 1 .. (next - 1)} \cap Operation
  BY <1>1, <1>2 DEF IInv, ParseInv
<1>4. 1 .. (next - 1) = DOMAIN line
  BY <1>1, Numbers
<1>5. TypeOK'
  <2>1. next' \in 1 .. Len(line)' + 1 /\ m_operationCompleteLatch' \in Int
    BY <1>1, Numbers DEF inputVars
  <2>2. context' \in BOOLEAN
    BY <1>1
  <2>3. QED
    BY <1>1, <1>2, <2>1, <2>2 DEF IInv, TypeOK, inputVars, MainPosition
<1>6. ParametersInv' /\ WaitInv'
  BY <1>1, <1>2 DEF IInv, ParametersInv, WaitInv, inputVars
<1>7. ParseInv' /\ NoContext'
  BY <1>1, <1>2 DEF ParseInv, NoContext
<1>8. WaitedForAll'
  <2>1. \A t \in Waiter : ~Past(t)'
    BY <1>2, <1>3 DEF IInv, NoContext, Past, Waiter
  <2>2. QED
    BY <2>1 DEF WaitedForAll, Past
<1>9. Listed'
  BY <1>1, <1>3, <1>4 DEF Listed, inputVars
<1>10. SessionInv'
  BY <1>1, <1>2, <1>3 DEF IInv, NoContext, SessionInv, Completing
<1>11. LatchInv'
  <2>1. ByMain' = 0 /\ BySession' = 0
    BY <1>2, <1>3 DEF IInv, NoContext, ByMain, BySession, One
  <2>2. QED
    BY <1>1, <2>1, Numbers DEF LatchInv
<1>12. QED
  BY <1>5, <1>6, <1>7, <1>8, <1>9, <1>10, <1>11 DEF IInv

-----------------------------------------------------------------------------
(* The steps of the threads.                                               *)

LEMMA CommandKeeps ==
  ASSUME IInv, NoDevice \/ DeviceReset \/ ServiceRangeStart \/ StartFails \/ SaveSession
  PROVE  IInv'
<1>1. /\ pc["main"] \in {"run", "save"} /\ next <= Len(line) /\ GoesOn
      /\ UNCHANGED <<inputVars, m_cliAppOperations, RangingParameters, context,
                     m_operationCompleteLatch, after, session>>
  <2>1. CASE SaveSession
    <3>1. GoesOn /\ pc["main"] = "save"
      BY <2>1 DEF SaveSession
    <3>2. ~Over
      BY <3>1 DEF GoesOn, Goes
    <3>3. QED
      BY <2>1, <3>1, <3>2 DEF SaveSession, IInv, SessionInv, latchVars, stopVars
  <2>2. CASE NoDevice \/ DeviceReset \/ ServiceRangeStart \/ StartFails
    BY <2>2 DEF NoDevice, DeviceReset, ServiceRangeStart, StartFails, Runs, latchVars, stopVars
  <2>3. QED
    BY <2>1, <2>2
<1>2. QED
  BY <1>1, GoesOnKeeps

LEMMA CompletionKeeps ==
  ASSUME IInv, SessionCommand \/ RangeStop \/ Enter
  PROVE  IInv'
<1>1. SignalCliAppOperationCompleted
  BY DEF SessionCommand, RangeStop, Enter
<1>2. ~Over
  BY <1>1 DEF SignalCliAppOperationCompleted, Goes
<1>3. /\ pc["main"] \in {"run", "monitor"} /\ next <= Len(line)
      /\ line[next] \in Operation \ {"rangestart"}
      /\ session' = session \/ (session = "active" /\ session' = "ended")
  BY <1>2 DEF SessionCommand, RangeStop, Enter, Runs, Operation, IInv, SessionInv
<1>4. QED
  BY <1>1, <1>3, SignalsKeeps

LEMMA MainKeeps ==
  ASSUME IInv, HandleMonitorMode \/ RegisterStopCallback \/ AllRun
  PROVE  IInv'
<1> USE DEF parseVars, latchVars, stopVars
<1>1. m_operationCompleteLatch \in Int /\ ByMain \in {0, 1}
  BY Numbers
<1>2. One("monitor" \in {"check", "count"}) = 0 /\ One("save" \in {"check", "count"}) = 0
      /\ One("wait" \in {"check", "count"}) = 0
  BY DEF One
<1>3. CASE HandleMonitorMode
  <2>1. /\ Goes("main", "monitor") /\ "monitor" \in MainPosition \ {"parse"}
        /\ pc["main"] = "run" /\ next <= Len(line) /\ line[next] = "monitor"
        /\ UNCHANGED <<inputVars, next, m_cliAppOperations, RangingParameters, context,
                       m_operationCompleteLatch, after, session>>
    BY <1>3 DEF HandleMonitorMode, Runs, MainPosition
  <2>2. ~Past("main")'
    BY <2>1, MainAt DEF Past
  <2>3. QED
    BY <1>1, <1>2, <2>1, <2>2, SameCommand
<1>4. CASE RegisterStopCallback
  <2>1. /\ Goes("main", "save") /\ "save" \in MainPosition \ {"parse"}
        /\ pc["main"] = "register"
        /\ UNCHANGED <<inputVars, next, m_cliAppOperations, RangingParameters, context,
                       m_operationCompleteLatch, after, session>>
    BY <1>4 DEF RegisterStopCallback, MainPosition
  <2>2. ~Past("main")'
    BY <2>1, MainAt DEF Past
  <2>3. QED
    BY <1>1, <1>2, <2>1, <2>2, SameCommand
<1>5. CASE AllRun
  <2>1. /\ pc["main"] = "run"
        /\ Goes("main", "returned") \/ Goes("main", "wait")
        /\ UNCHANGED <<inputVars, next, m_cliAppOperations, RangingParameters, context,
                       m_operationCompleteLatch, after, session>>
    BY <1>5 DEF AllRun
  <2>2. CASE Goes("main", "returned")
    BY <2>1, <2>2, Ends
  <2>3. CASE Goes("main", "wait")
    <3>1. "wait" \in MainPosition \ {"parse"}
      BY DEF MainPosition
    <3>2. ~Past("main")'
      BY <2>3, <3>1, MainAt DEF Past
    <3>3. QED
      BY <1>1, <1>2, <2>1, <2>3, <3>1, <3>2, SameCommand
  <2>4. QED
    BY <2>1, <2>2, <2>3
<1>6. QED
  BY <1>3, <1>4, <1>5

\* Both main and the dispatch thread count the latch down.
LEMMA SignalsOfMain ==
  ASSUME IInv, Signals("main")
  PROVE  IInv'
<1> USE DEF parseVars, latchVars, stopVars
<1>1. m_operationCompleteLatch \in Int /\ ByMain \in {0, 1}
  BY Numbers
<1>2. One("count" \in {"check", "count"}) = 1 /\ One("write" \in {"check", "count"}) = 0
      /\ One(pc["main"] \in {"check", "count"}) = ByMain
  BY DEF One, ByMain
<1>3. CASE /\ pc["main"] \in {"check", "write"} /\ GoesOn
           /\ UNCHANGED <<inputVars, m_cliAppOperations, RangingParameters, context,
                          m_operationCompleteLatch, after, session>>
  <2>1. next <= Len(line)
    BY <1>3 DEF GoesOn, Goes, IInv, SessionInv, Completing
  <2>2. QED
    BY <1>3, <2>1, GoesOnKeeps
<1>4. CASE /\ pc["main"] = "check" /\ Goes("main", "aborted")
           /\ UNCHANGED <<inputVars, next, m_cliAppOperations, RangingParameters, context,
                          m_operationCompleteLatch, after, session>>
  BY <1>4, Ends
<1>5. CASE /\ pc["main"] = "check" /\ Goes("main", "count")
           /\ UNCHANGED <<inputVars, next, m_cliAppOperations, RangingParameters, context,
                          m_operationCompleteLatch, after, session>>
  <2>1. "count" \in MainPosition \ {"parse"} /\ ByMain = 1
    BY <1>5 DEF MainPosition, ByMain, One
  <2>2. ~Past("main")'
    BY <1>5, <2>1, MainAt DEF Past
  <2>3. QED
    BY <1>1, <1>2, <1>5, <2>1, <2>2, SameCommand
<1>6. CASE CountDown("main")
  <2>1. /\ "write" \in MainPosition \ {"parse"} /\ ByMain = 1
        /\ pc["main"] = "count" /\ Goes("main", "write")
        /\ m_operationCompleteLatch' = m_operationCompleteLatch - 1
        /\ UNCHANGED <<inputVars, next, m_cliAppOperations, RangingParameters, context,
                       after, session>>
    BY <1>6 DEF CountDown, MainPosition, ByMain, One
  <2>2. ~Past("main")'
    BY <2>1, MainAt DEF Past
  <2>3. QED
    BY <1>1, <1>2, <2>1, <2>2, SameCommand
<1>7. CASE Check("main")
  BY <1>3, <1>4, <1>5, <1>7 DEF Check, Signaled, Aborts
<1>8. CASE WriteCount("main")
  BY <1>3, <1>8 DEF WriteCount, Signaled
<1>9. QED
  BY <1>6, <1>7, <1>8 DEF Signals

LEMMA DispatchKeeps ==
  ASSUME IInv, Dispatch
  PROVE  IInv'
<1> USE DEF parseVars, latchVars, stopVars
<1>1. m_operationCompleteLatch \in Int /\ BySession \in {0, 1}
  BY Numbers
<1>2. "dispatch" # "main"
  OBVIOUS
<1>3. ASSUME NEW to \in {"lost", "check", "count", "write", "reset", "done", "stuck"},
             Goes("dispatch", to), session = "ended",
             m_operationCompleteLatch' = m_operationCompleteLatch
                 \/ (pc["dispatch"] = "count" /\ to = "write"
                       /\ m_operationCompleteLatch' = m_operationCompleteLatch - 1),
             to \in {"lost", "check", "count"} => pc["dispatch"] \in {"idle", "check", "count"},
             UNCHANGED <<inputVars, next, m_cliAppOperations, RangingParameters, context,
                         after, session>>
      PROVE  IInv'
  <2>1. to \in DispatchPosition
    BY DEF DispatchPosition
  <2>2. BySession = One(pc["dispatch"] \in {"write", "reset", "done", "stuck"})
    BY DEF BySession
  <2>3. /\ m_operationCompleteLatch' \in Int
        /\ m_operationCompleteLatch' + One(to \in {"write", "reset", "done", "stuck"})
             >= m_operationCompleteLatch + BySession
    BY <1>1, <1>3, <2>2 DEF One
  <2>4. QED
    BY <1>3, <2>1, <2>3, DispatchMoves
<1>4. ~Over
  BY DEF Dispatch, OnSessionEnded, NotificationLost, Signals, Check, CountDown, WriteCount, Signaled,
         ResetActiveSession, Goes
<1>5. pc["dispatch"] # "idle" => session = "ended"
  BY <1>4 DEF IInv, SessionInv
<1>6. CASE OnSessionEnded
  BY <1>3, <1>6 DEF OnSessionEnded
<1>6a. CASE NotificationLost
  BY <1>3, <1>6a DEF NotificationLost
<1>7. CASE Check("dispatch")
  BY <1>3, <1>5, <1>7, <1>2 DEF Check, Signaled
<1>8. CASE CountDown("dispatch")
  BY <1>3, <1>5, <1>8 DEF CountDown
<1>9. CASE WriteCount("dispatch")
  BY <1>3, <1>5, <1>9, <1>2 DEF WriteCount, Signaled
<1>10. CASE ResetActiveSession
  BY <1>3, <1>5, <1>10 DEF ResetActiveSession
<1>11. QED
  BY <1>6, <1>6a, <1>7, <1>8, <1>9, <1>10 DEF Dispatch, Signals

LEMMA SessionEndsKeeps ==
  ASSUME IInv, SessionEnds
  PROVE  IInv'
<1>1. /\ pc' = pc /\ ~Over /\ session = "active" /\ session' = "ended"
      /\ UNCHANGED <<inputVars, next, m_cliAppOperations, RangingParameters, context,
                     m_operationCompleteLatch, after>>
  BY DEF SessionEnds, Goes, parseVars, latchVars, stopVars, IInv, TypeOK
<1>2. TypeOK'
  BY <1>1 DEF IInv, TypeOK, inputVars
<1>3. ParametersInv' /\ WaitInv'
  BY <1>1 DEF IInv, ParametersInv, WaitInv, inputVars
<1>4. WaitedForAll'
  <2>1. \A t \in Waiter : Past(t)' => Past(t)
    BY <1>1 DEF Past
  <2>2. Complete => Complete'
    BY <1>1 DEF Complete
  <2>3. QED
    BY <2>1, <2>2, StaysComplete DEF IInv
<1>5. ParseInv' /\ NoContext' /\ Listed' /\ LatchInv'
  BY <1>1 DEF IInv, ParseInv, NoContext, Listed, LatchInv, Completing, ByMain, BySession,
              inputVars
<1>6. SessionInv'
  BY <1>1 DEF IInv, SessionInv, Completing, inputVars
<1>7. QED
  BY <1>2, <1>3, <1>4, <1>5, <1>6 DEF IInv

\* main's way past the latch, and out.
LEMMA StopOfMain ==
  ASSUME IInv, OperationsWaitForComplete("main") \/ OnStop("main")
  PROVE  IInv'
<1> USE DEF parseVars, latchVars, stopVars
<1>1. PICK to \in {"take", "stop", "drop", "returned"} :
        /\ Goes("main", to)
        /\ to = "take" => pc["main"] = "wait" /\ m_operationCompleteLatch = 0
        /\ to # "take" => pc["main"] \in {"take", "stop", "drop"}
        /\ session' = session \/ (session = "active" /\ session' = "ended")
        /\ UNCHANGED <<inputVars, next, m_cliAppOperations, RangingParameters, context,
                       m_operationCompleteLatch, after>>
  <2>1. after["main"] = "returned"
    BY DEF IInv, TypeOK
  <2>2. CASE OperationsWaitForComplete("main")
    BY <2>2 DEF OperationsWaitForComplete
  <2>3. CASE Take("main")
    BY <2>1, <2>3 DEF Take
  <2>4. CASE StopCallback("main")
    BY <2>4 DEF StopCallback
  <2>5. CASE Drop("main")
    BY <2>1, <2>5 DEF Drop
  <2>6. QED
    BY <2>2, <2>3, <2>4, <2>5 DEF OnStop
<1>2. to \in MainPosition \ {"parse"} /\ One(to \in {"check", "count"}) = 0
  BY DEF MainPosition, One
<1>3. ~Over /\ context /\ pc["main"] # "parse"
  BY <1>1, <1>2, MainAt
<1>4. Past("main")' => Past("main") \/ Complete
  <2>1. CASE to = "take"
    BY <1>1, <1>3, <2>1, Open
  <2>2. CASE to # "take"
    BY <1>1, <2>2 DEF Past
  <2>3. QED
    BY <2>1, <2>2
<1>5. m_operationCompleteLatch \in Int /\ ByMain \in {0, 1}
  BY Numbers
<1>6. QED
  BY <1>1, <1>2, <1>3, <1>4, <1>5, SameCommand

LEMMA HandlerKeeps ==
  ASSUME IInv, NEW h \in Handler, CtrlHandler(h) \/ HandlerRuns(h)
  PROVE  IInv'
<1> USE DEF parseVars, latchVars, stopVars
<1>1. /\ h # "main" /\ h \in Waiter /\ after[h] \in {"entry", "done"}
      /\ after = [after EXCEPT ![h] = after[h]]
  BY CommandLineAssumption DEF IInv, TypeOK, Waiter
<1>2. CASE RequestStopExecution(h) /\ ~context
  BY <1>2, Ends DEF RequestStopExecution, Aborts
<1>3. CASE StopCallback(h) /\ UNCHANGED session
  BY <1>1, <1>3, Ends DEF StopCallback, Aborts
<1>4. ASSUME NEW to \in HandlerPosition, Goes(h, to), context \/ to = "cancel",
             \/ after' = after /\ to # "wait"
             \/ after' = after /\ after[h] = "done"
             \/ after' = [after EXCEPT ![h] = "done"] /\ to \in {"wait", "done"},
             Past(h)' => Past(h) \/ Complete,
             session' = session \/ (session = "active" /\ session' = "ended"),
             UNCHANGED <<inputVars, next, m_cliAppOperations, RangingParameters, context,
                         m_operationCompleteLatch>>,
             to \in {"idle", "cancel"} => after' = after /\ after[h] = "entry"
      PROVE  IInv'
  <2>1. \E a \in {"entry", "done"} : after' = [after EXCEPT ![h] = a]
    BY <1>1, <1>4
  <2>2. /\ to = "wait" => after'[h] = "done"
        /\ to \in {"idle", "cancel"} => after'[h] = "entry"
    BY <1>1, <1>4 DEF IInv, TypeOK
  <2>3. QED
    BY <1>4, <2>1, <2>2, HandlerMoves
<1>5. ASSUME NEW to, Goes(h, to) PROVE pc'[h] = to /\ ~Over
  BY <1>1, <1>5 DEF Goes, IInv, TypeOK
<1>6. ~Over => (pc[h] \in {"idle", "cancel"} \/ context)
  BY DEF IInv, NoContext
<1>7. CASE CtrlHandler(h)
  <2>1. Goes(h, "cancel") /\ "cancel" \in HandlerPosition
    BY <1>7 DEF CtrlHandler, HandlerPosition
  <2>2. ~Past(h)'
    BY <1>5, <2>1 DEF Past
  <2>3. after[h] = "entry"
    BY <1>7 DEF CtrlHandler, IInv, WaitInv
  <2>4. QED
    BY <1>4, <1>7, <2>1, <2>2, <2>3 DEF CtrlHandler
<1>8. CASE RequestStopExecution(h) /\ context
  <2>1. PICK to \in {"entry", "take"} : Goes(h, to)
    BY <1>8 DEF RequestStopExecution
  <2>2. to \in HandlerPosition /\ pc[h] = "cancel"
    BY <1>8 DEF RequestStopExecution, HandlerPosition
  <2>3. ~Past(h)'
    BY <1>8, <2>2 DEF Past, IInv, WaitInv, RequestStopExecution
  <2>4. QED
    BY <1>4, <1>8, <2>1, <2>2, <2>3 DEF RequestStopExecution
<1>9. CASE WaitForExecutionComplete(h)
  <2>1. PICK to \in {"done", "wait"} : Goes(h, to)
    BY <1>9 DEF WaitForExecutionComplete
  <2>2. to \in HandlerPosition
    BY DEF HandlerPosition
  <2>3. ~Past(h)' /\ context
    BY <1>5, <1>6, <1>9, <2>1 DEF Past, WaitForExecutionComplete
  <2>4. QED
    BY <1>4, <1>9, <2>1, <2>2, <2>3 DEF WaitForExecutionComplete
<1>10. CASE OperationsWaitForComplete(h)
  <2>1. Goes(h, "take") /\ "take" \in HandlerPosition /\ pc[h] = "wait"
        /\ m_operationCompleteLatch = 0
    BY <1>10 DEF OperationsWaitForComplete, HandlerPosition
  <2>2. context /\ Complete
    BY <1>5, <1>6, <2>1, Open
  <2>3. QED
    BY <1>4, <1>10, <2>1, <2>2 DEF OperationsWaitForComplete
<1>11. CASE Take(h) \/ Drop(h) \/ (StopCallback(h) /\ ~UNCHANGED session)
  <2>1. PICK to \in {"stop", "drop", "entry", "done"} : Goes(h, to)
    BY <1>1, <1>11 DEF Take, Drop, StopCallback
  <2>2. /\ to \in HandlerPosition /\ pc[h] \in {"take", "stop", "drop"} /\ after' = after
        /\ session' = session \/ (session = "active" /\ session' = "ended")
    BY <1>11 DEF HandlerPosition, Take, Drop, StopCallback
  <2>3. context
    BY <1>5, <1>6, <2>1, <2>2
  <2>4. Past(h)' => Past(h)
    BY <2>2 DEF Past
  <2>5. UNCHANGED <<inputVars, next, m_cliAppOperations, RangingParameters, context,
                    m_operationCompleteLatch>>
    BY <1>11 DEF Take, Drop, StopCallback
  <2>6. QED
    BY <1>4, <2>1, <2>2, <2>3, <2>4, <2>5
<1>12. QED
  BY <1>2, <1>3, <1>7, <1>8, <1>9, <1>10, <1>11 DEF HandlerRuns, OnStop

LEMMA NextIInv == IInv /\ [Next]_vars => IInv'
<1> SUFFICES ASSUME IInv, [Next]_vars PROVE IInv'
  OBVIOUS
<1>1. CASE UNCHANGED vars
  BY <1>1 DEF vars, inputVars, parseVars, latchVars, stopVars, IInv, TypeOK, ParametersInv,
     WaitedForAll, WaitInv, Over, ParseInv, NoContext, Listed, SessionInv, LatchInv, Completing,
     ByMain, BySession
<1>2. CASE MainRuns
  BY <1>2, RegisterKeeps, ParseCompleteKeeps, CommandKeeps, CompletionKeeps, MainKeeps,
     HandleDriverStartRangingKeeps DEF MainRuns
<1>3. CASE ParseError
  <2>1. PICK to \in {"returned", "aborted"} : Goes("main", to)
    BY <1>3 DEF ParseError, Aborts
  <2>2. QED
    BY <1>3, <2>1, Ends DEF ParseError, parseVars, latchVars, stopVars
<1>4. CASE Enter
  BY <1>4, CompletionKeeps
<1>5. CASE Signals("main")
  BY <1>5, SignalsOfMain
<1>6. CASE OperationsWaitForComplete("main") \/ OnStop("main")
  BY <1>6, StopOfMain
<1>7. CASE SessionEnds
  BY <1>7, SessionEndsKeeps
<1>8. CASE Dispatch
  BY <1>8, DispatchKeeps
<1>9. CASE \E h \in Handler : CtrlHandler(h) \/ HandlerRuns(h)
  BY <1>9, HandlerKeeps
<1>10. QED
  BY <1>1, <1>2, <1>3, <1>4, <1>5, <1>6, <1>7, <1>8, <1>9 DEF Next

\* The invariant holds in every reachable state.
THEOREM Invariance == Spec => []IInv
  BY InitIInv, NextIInv, PTL DEF Spec

\* NearObjectCliControlFlowContext's latch lets main or a Ctrl-C handler pass
\* only when the operations of the line are complete and the session it began
\* has ended, whichever of them counted down last.
THEOREM WaitedForAllHolds == Spec => []WaitedForAll
  BY Invariance, PTL DEF IInv

-----------------------------------------------------------------------------
(* What is sent of the options.                                            *)

\* What is there of a value map is what was parsed.
LEMMA ValueMap ==
  ASSUME NEW p, NEW name \in DOMAIN p
  PROVE  /\ name \in DOMAIN GetValueMap(p) <=> p[name] # None
         /\ name \in DOMAIN GetValueMap(p) => GetValueMap(p)[name] = p[name]
  BY DEF GetValueMap

\* Parsing replaces the texts, and nothing else.
LEMMA ParsedIs ==
  ASSUME NEW o \in Options
  PROVE  LET p == Parsed(o)
         IN /\ DOMAIN p = DOMAIN o
            /\ p.deviceMacAddress = FromString(o.deviceMacAddress, MacAddressType(o))
            /\ p.destinationMacAddresses =
                   MacAddressesFromString(o.destinationMacAddresses, MacAddressType(o))
            /\ \A name \in DOMAIN o \ {"deviceMacAddress", "destinationMacAddresses",
                                       "resultReportConfig"} : p[name] = o[name]
<1> {"deviceMacAddress", "destinationMacAddresses", "resultReportConfig"} \subseteq DOMAIN o
  BY OptionsAssumption
<1> QED
  BY DEF Parsed

\* Addresses that were read are those of the texts, all of one type.
LEMMA AddressesRead ==
  ASSUME NEW texts, NEW type, \A i \in DOMAIN texts : IsText(texts[i]),
         MacAddressesFromString(texts, type) # None,
         NEW a \in MacAddressesFromString(texts, type)
  PROVE  \E i \in DOMAIN texts : texts[i] = [type |-> type, address |-> a]
<1>1. /\ \A i \in DOMAIN texts : texts[i].type = type
      /\ MacAddressesFromString(texts, type) = {FromString(texts[i], type) : i \in DOMAIN texts}
  BY DEF MacAddressesFromString
<1>2. PICK i \in DOMAIN texts : a = FromString(texts[i], type)
  BY <1>1
<1>3. a = texts[i].address /\ texts[i].type = type
  BY <1>1, <1>2 DEF FromString
<1>4. QED
  BY <1>3 DEF IsText

\* Options that nothing is said about are consistent, as they are sent.
LEMMA QuietIs ==
  ASSUME NEW o \in Options, o = options, Quiet(o),
         RangingParameters = ProcessApplicationConfigurationParameters(o)
  PROVE  QuietIsConsistent
<1> DEFINE p == Parsed(o)
           m == RangingParameters
           Sent(name, default) == IF name \in DOMAIN m THEN m[name] ELSE default
<1>1. /\ o.deviceType \in {"Controller", "Controlee"} /\ o.numberOfControlees \in Nat
      /\ {"deviceType", "numberOfControlees", "deviceMacAddress",
          "destinationMacAddresses", "resultReportConfig", "rangeDataNotificationConfig",
          "rangeDataNotificationProximityNear", "rangeDataNotificationProximityFar"}
            \subseteq DOMAIN o
      /\ o.rangeDataNotificationProximityNear \in Nat \cup {None}
      /\ o.rangeDataNotificationProximityFar \in Nat \cup {None}
      /\ IsText(o.deviceMacAddress)
      /\ \A i \in DOMAIN o.destinationMacAddresses : IsText(o.destinationMacAddresses[i])
      /\ None \notin Nat /\ None \notin {"Controller", "Controlee"}
  BY OptionsAssumption
<1>2. /\ DOMAIN p = DOMAIN o
      /\ p.deviceMacAddress = FromString(o.deviceMacAddress, MacAddressType(o))
      /\ p.destinationMacAddresses =
             MacAddressesFromString(o.destinationMacAddresses, MacAddressType(o))
      /\ p.deviceType = o.deviceType /\ p.numberOfControlees = o.numberOfControlees
      /\ p.rangeDataNotificationConfig = o.rangeDataNotificationConfig
      /\ p.rangeDataNotificationProximityNear = o.rangeDataNotificationProximityNear
      /\ p.rangeDataNotificationProximityFar = o.rangeDataNotificationProximityFar
  BY <1>1, ParsedIs
<1>3. ~AddressComplaint(p) /\ ~ProximityComplaint(p)
  BY DEF Quiet
<1>4. m = GetValueMap(p)
  BY DEF ProcessApplicationConfigurationParameters
<1> HIDE DEF p, m
<1>5. \A name \in DOMAIN p : \A default :
        Sent(name, default) = IF p[name] # None THEN p[name] ELSE default
  BY <1>4, ValueMap
<1>6. /\ p.deviceMacAddress # None /\ p.destinationMacAddresses # None
      /\ Cardinality(p.destinationMacAddresses) =
             (IF p.deviceType = "Controller" THEN p.numberOfControlees ELSE 1)
  BY <1>3 DEF AddressComplaint
<1>7. /\ Sent("deviceMacAddress", None) # None
      /\ Sent("destinationMacAddresses", {}) = p.destinationMacAddresses
      /\ Sent("deviceType", None) = o.deviceType
      /\ Sent("numberOfControlees", 0) = o.numberOfControlees
      /\ Sent("rangeDataNotificationConfig", None) = o.rangeDataNotificationConfig
      /\ Sent("rangeDataNotificationProximityNear", 0) =
           IF o.rangeDataNotificationProximityNear = None THEN 0
           ELSE o.rangeDataNotificationProximityNear
      /\ Sent("rangeDataNotificationProximityFar", 20000) =
           IF o.rangeDataNotificationProximityFar = None THEN 20000
           ELSE o.rangeDataNotificationProximityFar
  <2> HIDE DEF Sent
  <2>1. {"deviceType", "numberOfControlees", "deviceMacAddress",
         "destinationMacAddresses", "rangeDataNotificationConfig",
         "rangeDataNotificationProximityNear", "rangeDataNotificationProximityFar"}
            \subseteq DOMAIN p
    BY <1>1, <1>2
  <2>2. o.deviceType # None /\ o.numberOfControlees # None
    BY <1>1
  <2>3. QED
    BY <1>2, <1>5, <1>6, <2>1, <2>2
<1>8. options.deviceMacAddress.type = MacAddressType(options)
  BY <1>2, <1>6 DEF FromString
<1>9. Cardinality(Sent("destinationMacAddresses", {})) =
        (IF Sent("deviceType", None) = "Controlee" THEN 1 ELSE Sent("numberOfControlees", 0))
  BY <1>1, <1>2, <1>6, <1>7
<1>10. \A a \in Sent("destinationMacAddresses", {}) :
         \E i \in DOMAIN options.destinationMacAddresses :
           options.destinationMacAddresses[i] = [type |-> MacAddressType(options), address |-> a]
  BY <1>1, <1>2, <1>6, <1>7, AddressesRead
<1>11. Sent("rangeDataNotificationConfig", None) = "EnableInProximityRange" =>
         Sent("rangeDataNotificationProximityNear", 0) <=
             Sent("rangeDataNotificationProximityFar", 20000)
  <2>1. SUFFICES ASSUME o.rangeDataNotificationConfig = "EnableInProximityRange"
                 PROVE  Sent("rangeDataNotificationProximityNear", 0) <=
                            Sent("rangeDataNotificationProximityFar", 20000)
    BY <1>7
  <2>2. \/ o.rangeDataNotificationProximityNear = None
        \/ ~(o.rangeDataNotificationProximityNear >
               (IF o.rangeDataNotificationProximityFar = None THEN 20000
                ELSE o.rangeDataNotificationProximityFar))
    BY <1>2, <1>3, <2>1 DEF ProximityComplaint
  <2> HIDE DEF Sent
  <2>3. QED
    BY <1>1, <1>7, <2>2
<1>12. QED
  BY <1>7, <1>8, <1>9, <1>10, <1>11 DEF QuietIsConsistent, m

\* ValidateNonEnumParameterValues of the command line tool only complains: when it
\* does not, the parameters of the driver are the consistent ones.
THEOREM QuietIsConsistentHolds == Spec => []QuietIsConsistent
<1>1. IInv => QuietIsConsistent
  <2> SUFFICES ASSUME IInv, RangingParameters # None, Quiet(options) PROVE QuietIsConsistent
    BY DEF QuietIsConsistent
  <2>1. /\ options \in Options
        /\ RangingParameters = ProcessApplicationConfigurationParameters(options)
    BY DEF IInv, TypeOK, ParametersInv
  <2>2. QED
    BY <2>1, QuietIs
<1>2. QED
  BY <1>1, Invariance, PTL

=============================================================================
