-------------------- MODULE UwbNotificationChannel_proofs --------------------
(***************************************************************************)
(* Proof, for any notifications of any sizes, that UwbNotificationChannel  *)
(* loses, repeats and reorders nothing between the push and the listener,  *)
(* and accounts for each notification that the listener got; then, for any *)
(* clients, sessions and tokens, of the properties of UwbConnector, which  *)
(* invokes the callbacks; and, for any callers, objects, addresses and     *)
(* number of sessions, of those of UwbSession, the sessions of one id.     *)
(***************************************************************************)
EXTENDS UwbNotificationChannel, UwbConnector, UwbSession, SequenceTheorems,
        FiniteSetTheorems, TLAPS

-----------------------------------------------------------------------------
(* Queues that are handed on in parts, and sequences without repetition.   *)

\* Appending to the right part of a concatenation appends to the whole.
LEMMA AppendToConcat ==
    ASSUME NEW S, NEW s \in Seq(S), NEW t \in Seq(S), NEW e \in S
    PROVE  s \o Append(t, e) = Append(s \o t, e)
<1>1. <<e>> \in Seq(S) /\ s \o t \in Seq(S)
  BY ConcatProperties
<1>2. /\ Append(t, e) = t \o <<e>>
      /\ Append(s \o t, e) = (s \o t) \o <<e>>
  BY <1>1, AppendIsConcat
<1>3. QED
  BY <1>1, <1>2, ConcatAssociative

\* Moving the head of one sequence to the end of another.
LEMMA MoveHead ==
    ASSUME NEW S, NEW s \in Seq(S), NEW t \in Seq(S), t # <<>>
    PROVE  /\ Head(t) \in S
           /\ Tail(t) \in Seq(S)
           /\ Append(s, Head(t)) \o Tail(t) = s \o t
<1>1. Head(t) \in S /\ Tail(t) \in Seq(S)
  BY HeadTailProperties
<1>2. <<Head(t)>> \in Seq(S)
  BY <1>1
<1>3. t = <<Head(t)>> \o Tail(t)
  <2>1. Len(t) \in Nat \ {0}
    BY EmptySeq
  <2>2. /\ <<Head(t)>> \o Tail(t) \in Seq(S)
        /\ Len(<<Head(t)>> \o Tail(t)) = Len(t)
        /\ \A i \in 1..Len(t) : (<<Head(t)>> \o Tail(t))[i] = t[i]
    <3>1. /\ Len(Tail(t)) = Len(t) - 1
          /\ \A i \in 1..Len(Tail(t)) : Tail(t)[i] = t[i + 1]
      BY HeadTailProperties
    <3>2. Len(<<Head(t)>>) = 1 /\ <<Head(t)>>[1] = t[1]
      BY <2>1
    <3>3. /\ <<Head(t)>> \o Tail(t) \in Seq(S)
          /\ Len(<<Head(t)>> \o Tail(t)) = 1 + Len(Tail(t))
          /\ \A i \in 1..(1 + Len(Tail(t))) : (<<Head(t)>> \o Tail(t))[i] =
                IF i <= 1 THEN <<Head(t)>>[i] ELSE Tail(t)[i - 1]
      BY <1>1, <1>2, <3>2, ConcatProperties
    <3>4. QED
      BY <2>1, <3>1, <3>2, <3>3
  <2>3. QED
    BY <2>2, SeqEqual
<1>4. Append(s, Head(t)) = s \o <<Head(t)>>
  BY <1>1, AppendIsConcat
<1>5. QED
  BY <1>1, <1>2, <1>3, <1>4, ConcatAssociative

LEMMA AppendOne ==
    ASSUME NEW S, NEW s \in Seq(S), NEW e \in S
    PROVE  /\ Append(s, e) \in Seq(S)
           /\ ToSet(Append(s, e)) = ToSet(s) \cup {e}
           /\ e \notin ToSet(s) /\ IsInjective(s) => IsInjective(Append(s, e))
<1>1. /\ Append(s, e) \in Seq(S)
      /\ Len(Append(s, e)) = Len(s) + 1
      /\ \A i \in 1..Len(s) : Append(s, e)[i] = s[i]
      /\ Append(s, e)[Len(s) + 1] = e
  BY AppendProperties
<1>2. /\ Len(s) \in Nat /\ DOMAIN s = 1..Len(s)
      /\ DOMAIN Append(s, e) = 1..(Len(s) + 1)
  BY <1>1, LenProperties
<1>3. ASSUME NEW x \in ToSet(Append(s, e))
      PROVE  x \in ToSet(s) \cup {e}
  <2>1. PICK i \in 1..(Len(s) + 1) : x = Append(s, e)[i]
    BY <1>2, <1>3 DEF ToSet
  <2>2. i \in 1..Len(s) \/ i = Len(s) + 1
    BY <1>2
  <2>3. QED
    BY <1>1, <1>2, <2>1, <2>2 DEF ToSet
<1>4. ASSUME NEW x \in ToSet(s) \cup {e}
      PROVE  x \in ToSet(Append(s, e))
  <2>1. CASE x = e
    BY <1>1, <1>2, <2>1, Len(s) + 1 \in 1..(Len(s) + 1) DEF ToSet
  <2>2. CASE x \in ToSet(s)
    <3>1. PICK i \in 1..Len(s) : x = s[i]
      BY <1>2, <2>2 DEF ToSet
    <3>2. i \in 1..(Len(s) + 1) /\ x = Append(s, e)[i]
      BY <1>1, <1>2, <3>1
    <3>3. QED
      BY <1>2, <3>2 DEF ToSet
  <2>3. QED
    BY <1>4, <2>1, <2>2
<1>5. ASSUME e \notin ToSet(s), IsInjective(s),
             NEW i \in 1..(Len(s) + 1), NEW j \in 1..(Len(s) + 1),
             Append(s, e)[i] = Append(s, e)[j]
      PROVE  i = j
  <2>1. \A k \in 1..Len(s) : s[k] # e
    BY <1>2, <1>5 DEF ToSet
  <2>2. \A k, l \in 1..Len(s) : s[k] = s[l] => k = l
    BY <1>2, <1>5 DEF IsInjective
  <2>3. /\ i \in 1..Len(s) \/ i = Len(s) + 1
        /\ j \in 1..Len(s) \/ j = Len(s) + 1
    BY <1>2
  <2>4. QED
    BY <1>1, <1>5, <2>1, <2>2, <2>3
<1>6. e \notin ToSet(s) /\ IsInjective(s) => IsInjective(Append(s, e))
  BY <1>2, <1>5 DEF IsInjective
<1>7. QED
  BY <1>1, <1>3, <1>4, <1>6

\* What follows a part of a sequence without repetition is not in that part.
LEMMA NotBefore ==
    ASSUME NEW S, NEW s \in Seq(S), NEW e \in S, NEW t \in Seq(S),
           IsInjective(Append(s, e) \o t)
    PROVE  e \notin ToSet(s)
<1> SUFFICES ASSUME e \in ToSet(s)
             PROVE  FALSE
  OBVIOUS
<1> DEFINE a == Append(s, e)
<1>1. /\ a \in Seq(S) /\ Len(a) = Len(s) + 1
      /\ \A i \in 1..Len(s) : a[i] = s[i]
      /\ a[Len(s) + 1] = e
  BY AppendProperties
<1> HIDE DEF a
<1>2. /\ a \o t \in Seq(S) /\ Len(a \o t) = Len(a) + Len(t)
      /\ \A i \in 1..(Len(a) + Len(t)) : (a \o t)[i] = IF i <= Len(a) THEN a[i] ELSE t[i - Len(a)]
  BY <1>1, ConcatProperties
<1>3. /\ Len(s) \in Nat /\ DOMAIN s = 1..Len(s) /\ Len(t) \in Nat
      /\ DOMAIN (a \o t) = 1..(Len(a) + Len(t))
  BY <1>1, <1>2, LenProperties
<1>4. PICK i \in 1..Len(s) : e = s[i]
  BY <1>3 DEF ToSet
<1>5. /\ i \in DOMAIN (a \o t) /\ Len(s) + 1 \in DOMAIN (a \o t)
      /\ (a \o t)[i] = e /\ (a \o t)[Len(s) + 1] = e
  BY <1>1, <1>2, <1>3, <1>4
<1>6. IsInjective(a \o t)
  BY DEF a
<1>7. i = Len(s) + 1
  BY <1>5, <1>6 DEF IsInjective
<1>8. QED
  BY <1>3, <1>7

-----------------------------------------------------------------------------
(* The invariant.                                                          *)

\* What the request and the thread that serves it may hold.
Held ==
    /\ retrieved = <<>> \/ \E s, n : n \in Notification /\ retrieved = <<[size |-> s, data |-> n]>>
    /\ \/ response = <<>>
       \/ response = <<[status |-> "canceled"]>>
       \/ \E st \in {"success", "overflow"}, n \in Notification :
             response = <<[status |-> st, data |-> n]>>

Types ==
    /\ m_notificationQueue \in Seq(Notification)
    /\ pushed \in Seq(Notification)
    /\ received \in Seq(Notification)
    /\ dispatched \in Seq(Notification)
    /\ tasks \subseteq Notification
    /\ Held

\* The listener has one request at most, and it is in one place: queued in the
\* driver, with the thread that has found data for it, or completed.  This is
\* why nothing that is on its way is ever overwritten.
OneRequest ==
    /\ processing = "respond" <=> retrieved # <<>>
    /\ listener # "pended" =>
          m_wdfQueue = NoRequest /\ retrieved = <<>> /\ response = <<>>
    /\ m_wdfQueue # NoRequest => retrieved = <<>> /\ response = <<>>
    /\ retrieved # <<>> => response = <<>>

IInv == Types /\ OneRequest /\ IsInjective(pushed) /\ Conservation

\* The first two parts of InTransit.
OfResponse ==
    IF response = <<>> \/ response[1].status = "canceled" THEN <<>> ELSE <<response[1].data>>
OfRetrieved == IF retrieved = <<>> THEN <<>> ELSE <<retrieved[1].data>>

LEMMA Parts == InTransit = (OfResponse \o OfRetrieved) \o m_notificationQueue
  BY DEF InTransit, OfResponse, OfRetrieved

LEMMA PartsType ==
    ASSUME Types
    PROVE  /\ OfResponse \in Seq(Notification)
           /\ OfRetrieved \in Seq(Notification)
           /\ InTransit \in Seq(Notification)
<1>1. OfResponse \in Seq(Notification)
  BY DEF Types, Held, OfResponse
<1>2. OfRetrieved \in Seq(Notification)
  BY DEF Types, Held, OfRetrieved
<1>3. QED
  BY <1>1, <1>2, Parts, ConcatProperties DEF Types

LEMMA InitIInv == Init => IInv
<1> SUFFICES ASSUME Init
             PROVE  IInv
  OBVIOUS
<1>1. Types /\ OneRequest /\ IsInjective(pushed)
  BY DEF Init, Types, Held, OneRequest, IsInjective
<1>2. InTransit = <<>> /\ ToSet(<<>>) = {}
  BY ConcatEmptySeq DEF Init, InTransit, ToSet
<1>3. Conservation
  BY <1>2, ConcatEmptySeq DEF Init, Conservation, IsInjective
<1>4. QED
  BY <1>1, <1>3 DEF IInv

-----------------------------------------------------------------------------
(* Each step preserves it.                                                 *)

\* A step that moves nothing.
LEMMA NothingMoves ==
    ASSUME IInv, UNCHANGED <<m_notificationQueue, historyVars, tasks>>,
           OfResponse' = OfResponse, OfRetrieved' = OfRetrieved
    PROVE  IsInjective(pushed)' /\ Conservation'
<1>1. InTransit' = InTransit
  BY Parts DEF InTransit, OfResponse, OfRetrieved
<1>2. QED
  BY <1>1 DEF IInv, Conservation, historyVars

LEMMA PushKeeps ==
    ASSUME IInv, NEW n \in Notification, PushNotification(n)
    PROVE  IInv'
<1>1. Types' /\ OneRequest'
  <2>1. m_notificationQueue' \in Seq(Notification) /\ pushed' \in Seq(Notification)
    BY AppendOne DEF IInv, Types, PushNotification
  <2>2. UNCHANGED <<m_wdfQueue, processing, retrieved, response, listener, tasks,
                    received, dispatched>>
    BY DEF PushNotification, listenerVars
  <2>3. Types'
    BY <2>1, <2>2 DEF IInv, Types, Held
  <2>4. QED
    BY <2>2, <2>3 DEF IInv, OneRequest
<1>2. IsInjective(pushed)'
  BY AppendOne DEF IInv, Types, PushNotification
<1>3. received \o InTransit = pushed
  BY DEF IInv, Conservation
<1>4. InTransit' = Append(InTransit, n)
  <2>1. OfResponse \o OfRetrieved \in Seq(Notification)
    BY PartsType, ConcatProperties DEF IInv
  <2>2. InTransit' = (OfResponse \o OfRetrieved) \o Append(m_notificationQueue, n)
    BY DEF PushNotification, InTransit, OfResponse, OfRetrieved
  <2>3. QED
    BY <2>1, <2>2, Parts, AppendToConcat DEF IInv, Types
<1>5. (received \o InTransit)' = pushed'
  <2>1. received \in Seq(Notification) /\ InTransit \in Seq(Notification)
    BY PartsType DEF IInv, Types
  <2>2. received \o Append(InTransit, n) = Append(received \o InTransit, n)
    BY <2>1, AppendToConcat
  <2>3. received' = received /\ pushed' = Append(pushed, n)
    BY DEF PushNotification
  <2>4. QED
    BY <1>3, <1>4, <2>2, <2>3
<1>6. QED
  BY <1>1, <1>2, <1>5 DEF IInv, Conservation, PushNotification, listenerVars

LEMMA RetrieveKeeps ==
    ASSUME IInv, Retrieve
    PROVE  IInv'
<1>1. /\ m_notificationQueue # <<>> /\ m_notificationQueue \in Seq(Notification)
      /\ Head(m_notificationQueue) \in Notification
      /\ Tail(m_notificationQueue) \in Seq(Notification)
  BY HeadTailProperties DEF IInv, Types, Retrieve
<1>2. response = <<>> /\ retrieved = <<>>
  BY DEF IInv, OneRequest, Retrieve
<1>3. /\ m_notificationQueue' = Tail(m_notificationQueue) /\ response' = <<>>
      /\ retrieved' = <<[size |-> m_wdfQueue, data |-> Head(m_notificationQueue)]>>
      /\ listener = "pended"
      /\ m_wdfQueue' = NoRequest /\ processing' = "respond"
      /\ UNCHANGED <<listenerVars, historyVars>>
  BY <1>2 DEF IInv, OneRequest, Retrieve
<1>4. Types'
  BY <1>1, <1>3 DEF IInv, Types, Held, listenerVars, historyVars
<1>5. OneRequest'
  BY <1>3 DEF OneRequest, listenerVars
<1>6. InTransit' = InTransit
  <2>1. InTransit = m_notificationQueue
    BY <1>1, <1>2, ConcatEmptySeq DEF InTransit
  <2>2. /\ InTransit' = (<<>> \o <<Head(m_notificationQueue)>>) \o Tail(m_notificationQueue)
        /\ <<Head(m_notificationQueue)>> \in Seq(Notification)
    BY <1>1, <1>3 DEF InTransit
  <2>3. InTransit' = Append(<<>>, Head(m_notificationQueue)) \o Tail(m_notificationQueue)
    BY <1>1, <2>2, ConcatEmptySeq
  <2>4. InTransit' = <<>> \o m_notificationQueue
    BY <1>1, <2>3, MoveHead
  <2>5. QED
    BY <1>1, <2>1, <2>4, ConcatEmptySeq
<1>7. QED
  BY <1>3, <1>4, <1>5, <1>6 DEF IInv, Conservation, listenerVars, historyVars

LEMMA RespondKeeps ==
    ASSUME IInv, Respond
    PROVE  IInv'
<1>1. PICK s, n : n \in Notification /\ retrieved = <<[size |-> s, data |-> n]>>
  BY DEF IInv, Types, Held, OneRequest, Respond
<1>2. PICK st \in {"success", "overflow"} : response' = <<[status |-> st, data |-> n]>>
  BY <1>1 DEF Respond
<1>3. /\ response = <<>> /\ m_wdfQueue = NoRequest /\ listener = "pended"
      /\ retrieved' = <<>> /\ processing' = "request"
      /\ UNCHANGED <<m_notificationQueue, m_wdfQueue, listenerVars, historyVars>>
  BY <1>1 DEF IInv, OneRequest, Respond
<1>4. Types' /\ OneRequest'
  BY <1>1, <1>2, <1>3 DEF IInv, Types, Held, OneRequest, listenerVars, historyVars
<1>5. InTransit' = InTransit
  <2>1. InTransit = (<<>> \o <<n>>) \o m_notificationQueue
    BY <1>1, <1>3 DEF InTransit
  <2>2. InTransit' = (<<n>> \o <<>>) \o m_notificationQueue
    BY <1>2, <1>3 DEF InTransit
  <2>3. <<n>> \o <<>> = <<>> \o <<n>>
    BY <1>1, <<n>> \in Seq(Notification), ConcatEmptySeq
  <2>4. QED
    BY <2>1, <2>2, <2>3
<1>6. QED
  BY <1>3, <1>4, <1>5 DEF IInv, Conservation, listenerVars, historyVars

\* The notification in the response is the next one, and was not received before.
LEMMA Receives ==
    ASSUME IInv, NEW st \in {"success", "overflow"}, NEW n \in Notification,
           response = <<[status |-> st, data |-> n]>>, response' = <<>>,
           UNCHANGED <<m_notificationQueue, retrieved>>,
           received' = Append(received, n), pushed' = pushed
    PROVE  /\ received' \in Seq(Notification)
           /\ (received \o InTransit)' = pushed'
           /\ ToSet(received') = ToSet(received) \cup {n}
           /\ n \notin ToSet(received)
<1> DEFINE rest == OfRetrieved \o m_notificationQueue
<1>1. rest \in Seq(Notification) /\ <<n>> \in Seq(Notification)
  BY PartsType, ConcatProperties DEF IInv, Types
<1>2. InTransit = <<n>> \o rest
  <2>1. OfResponse = <<n>>
    BY DEF OfResponse
  <2>2. QED
    BY <1>1, <2>1, Parts, PartsType, ConcatAssociative DEF IInv, Types
<1>3. InTransit' = rest
  <2>1. InTransit' = (<<>> \o OfRetrieved) \o m_notificationQueue
    BY DEF InTransit, OfRetrieved
  <2>2. QED
    BY <2>1, PartsType, ConcatEmptySeq DEF IInv
<1> HIDE DEF rest
<1>4. pushed = Append(received, n) \o rest
  <2>1. received \in Seq(Notification) /\ pushed = received \o InTransit
    BY DEF IInv, Types, Conservation
  <2>2. pushed = (received \o <<n>>) \o rest
    BY <1>1, <1>2, <2>1, ConcatAssociative
  <2>3. QED
    BY <2>1, <2>2, AppendIsConcat
<1>5. received \in Seq(Notification) /\ IsInjective(pushed)
  BY DEF IInv, Types
<1>6. QED
  BY <1>1, <1>3, <1>4, <1>5, AppendOne, NotBefore

LEMMA SucceedKeeps ==
    ASSUME IInv, Succeed
    PROVE  IInv'
<1>1. PICK n \in Notification : response = <<[status |-> "success", data |-> n]>>
  BY DEF IInv, Types, Held, Succeed, Answered
<1>2. /\ listener = "pended" /\ response' = <<>> /\ tasks' = tasks \cup {n}
      /\ received' = Append(received, n)
      /\ UNCHANGED <<m_notificationQueue, m_wdfQueue, processing, retrieved,
                     pushed, dispatched, dropped>>
  BY <1>1 DEF Succeed, Answered, driverVars
<1>3. /\ received' \in Seq(Notification) /\ (received \o InTransit)' = pushed'
      /\ ToSet(received') = ToSet(received) \cup {n} /\ n \notin ToSet(received)
  BY <1>1, <1>2, Receives
<1>4. retrieved = <<>> /\ m_wdfQueue = NoRequest
  BY <1>1 DEF IInv, OneRequest
<1>5. Types' /\ OneRequest'
  BY <1>2, <1>3, <1>4 DEF IInv, Types, Held, OneRequest
<1>6. Conservation'
  BY <1>2, <1>3 DEF IInv, Conservation
<1>7. QED
  BY <1>2, <1>5, <1>6 DEF IInv

LEMMA OverflowKeeps ==
    ASSUME IInv, Overflow
    PROVE  IInv'
<1>1. PICK n \in Notification : response = <<[status |-> "overflow", data |-> n]>>
  BY DEF IInv, Types, Held, Overflow, Answered
<1>2. /\ listener = "pended" /\ response' = <<>> /\ dropped' = dropped \cup {n}
      /\ received' = Append(received, n)
      /\ UNCHANGED <<m_notificationQueue, m_wdfQueue, processing, retrieved,
                     pushed, dispatched, tasks>>
  BY <1>1 DEF Overflow, Answered, driverVars
<1>3. /\ received' \in Seq(Notification) /\ (received \o InTransit)' = pushed'
      /\ ToSet(received') = ToSet(received) \cup {n} /\ n \notin ToSet(received)
  BY <1>1, <1>2, Receives
<1>4. retrieved = <<>> /\ m_wdfQueue = NoRequest
  BY <1>1 DEF IInv, OneRequest
<1>5. Types' /\ OneRequest'
  BY <1>2, <1>3, <1>4 DEF IInv, Types, Held, OneRequest
<1>6. Conservation'
  BY <1>2, <1>3 DEF IInv, Conservation
<1>7. QED
  BY <1>2, <1>5, <1>6 DEF IInv

LEMMA DispatchKeeps ==
    ASSUME IInv, NEW n \in Notification, Dispatch(n)
    PROVE  IInv'
<1>1. /\ n \in tasks /\ tasks' = tasks \ {n} /\ dispatched' = Append(dispatched, n)
      /\ UNCHANGED <<driverVars, response, listener, pushed, received, dropped>>
  BY DEF Dispatch
<1>2. /\ dispatched' \in Seq(Notification)
      /\ ToSet(dispatched') = ToSet(dispatched) \cup {n}
      /\ IsInjective(dispatched')
  BY <1>1, AppendOne DEF IInv, Types, Conservation
<1>3. Types' /\ OneRequest'
  BY <1>1, <1>2 DEF IInv, Types, Held, OneRequest, driverVars
<1>4. InTransit' = InTransit
  BY <1>1 DEF InTransit, driverVars
<1>5. Conservation'
  BY <1>1, <1>2, <1>4 DEF IInv, Conservation
<1>6. QED
  BY <1>1, <1>3, <1>5 DEF IInv

\* The steps that only wait, wake, look, ask or cancel.
LEMMA OthersKeep ==
    ASSUME IInv,
           \/ NotifyDataAvailable \/ WaitRequest \/ WaitData \/ RetrieveFails
           \/ SpuriousWakeup \/ Check \/ Issue \/ Fail \/ CancelIo \/ RequestStop
           \/ UNCHANGED vars
    PROVE  IInv'
<1>1. UNCHANGED <<m_notificationQueue, historyVars, tasks, retrieved>>
  BY DEF NotifyDataAvailable, WaitRequest, WaitData, RetrieveFails, SpuriousWakeup,
         Check, Issue, Fail, CancelIo, RequestStop, vars, driverVars, listenerVars
<1>2. \/ response' = response
      \/ response # <<>> /\ response[1].status = "canceled" /\ response' = <<>>
      \/ response = <<>> /\ response' = <<[status |-> "canceled"]>>
  BY DEF IInv, OneRequest, NotifyDataAvailable, WaitRequest, WaitData, RetrieveFails,
         SpuriousWakeup, Check, Issue, Fail, Answered, CancelIo, RequestStop, vars
<1>3. OfResponse' = OfResponse /\ OfRetrieved' = OfRetrieved
  BY <1>1, <1>2 DEF OfResponse, OfRetrieved
<1>4. IsInjective(pushed)' /\ Conservation'
  BY <1>1, <1>3, NothingMoves
<1>5. Types'
  BY <1>1, <1>2 DEF IInv, Types, Held, historyVars
<1>6. OneRequest'
  BY <1>1 DEF IInv, OneRequest, NotifyDataAvailable, WaitRequest, WaitData, RetrieveFails,
         SpuriousWakeup, Check, Issue, Fail, Answered, CancelIo, RequestStop, vars,
         driverVars, listenerVars
<1>7. QED
  BY <1>4, <1>5, <1>6 DEF IInv

LEMMA NextIInv == IInv /\ [Next]_vars => IInv'
<1> SUFFICES ASSUME IInv, [Next]_vars
             PROVE  IInv'
  OBVIOUS
<1>1. ASSUME NEW n \in Notification, PushNotification(n) \/ Dispatch(n)
      PROVE  IInv'
  BY <1>1, PushKeeps, DispatchKeeps
<1>2. CASE Process
  BY <1>2, RetrieveKeeps, RespondKeeps, OthersKeep DEF Process
<1>3. CASE Listen
  BY <1>3, SucceedKeeps, OverflowKeeps, OthersKeep DEF Listen
<1>4. CASE NotifyDataAvailable \/ SpuriousWakeup \/ CancelIo \/ RequestStop \/ UNCHANGED vars
  BY <1>4, OthersKeep
<1>5. QED
  BY <1>1, <1>2, <1>3, <1>4 DEF Next, Quiet

\* Between the thread that pushes and the listener, through a queue, a thread and
\* a request that may be cancelled and repeated, notifications arrive once and in
\* order, and each is dispatched once, waiting to be, or dropped.
THEOREM ConservationHolds == Spec => []Conservation
<1>1. IInv => Conservation
  BY DEF IInv
<1>2. QED
  BY <1>1, InitIInv, NextIInv, PTL DEF Spec

\* The one request that the driver accepts of a file is never doubled, and while
\* the listener does not wait for it, it is nowhere.
THEOREM OneRequestHolds == Spec => []OneRequest
<1>1. IInv => OneRequest
  BY DEF IInv
<1>2. QED
  BY <1>1, InitIInv, NextIInv, PTL DEF Spec

-----------------------------------------------------------------------------
(***************************************************************************)
(* The other side of the listener: the callbacks that UwbConnector has     *)
(* registered, for any clients, sessions and tokens.                       *)
(*                                                                         *)
(* DeviceDeregistered speaks of the callbacks that were invoked too late;  *)
(* ConnectorInv, of the tokens that could still be: a device's token whose *)
(* deregistration has returned is in no list, and nobody can put it into   *)
(* one again, as it has been registered.                                   *)
(***************************************************************************)

\* A token is in the list that it is for, or in none.
Lists ==
    /\ callbacks \in [Slot -> SUBSET Token]
    /\ \A s \in Slot, t \in Token : t \in callbacks[s] => s = SlotOf[t]

\* Only what was registered is in a list, resolved or deregistered.
OnceRegistered ==
    /\ InLists(callbacks) \subseteq registered
    /\ deregistering \in [Client -> registered \cup {NoToken}]
    /\ registered \subseteq Token
    /\ deregistered \subseteq registered

DeviceTokensGone ==
    \A t \in deregistered : SlotOf[t] \in DeviceSlot => t \notin InLists(callbacks)

ConnectorInv == Lists /\ OnceRegistered /\ DeviceTokensGone /\ DeviceDeregistered

LEMMA DisjointSlots == SessionSlot \cap DeviceSlot = {}
  BY DEF SessionSlot, DeviceSlot, SessionEvent, DeviceEvent

\* A step that only takes tokens out of the lists, and registers nothing, keeps
\* the invariant, if it answers for those that it lists as deregistered.
LEMMA FewerCallbacks ==
  ASSUME ConnectorInv,
         callbacks' \in [Slot -> SUBSET Token],
         \A s \in Slot : callbacks'[s] \subseteq callbacks[s],
         deregistering' \in [Client -> registered \cup {NoToken}],
         registered' = registered,
         deregistered' \subseteq registered,
         \A t \in deregistered' \ deregistered :
             SlotOf[t] \in DeviceSlot => t \notin InLists(callbacks)',
         \A t \in late' : SlotOf[t] \notin DeviceSlot
  PROVE  ConnectorInv'
<1>1. InLists(callbacks)' \subseteq InLists(callbacks)
  BY DEF InLists
<1>2. Lists'
  BY DEF ConnectorInv, Lists
<1>3. OnceRegistered'
  BY <1>1 DEF ConnectorInv, OnceRegistered
<1>4. DeviceTokensGone'
  BY <1>1 DEF ConnectorInv, DeviceTokensGone
<1>5. QED
  BY <1>2, <1>3, <1>4 DEF ConnectorInv, DeviceDeregistered

LEMMA ConnectorInitInv ==
  ASSUME ConnectorInit
  PROVE  ConnectorInv
  BY ConnectorAssumption
     DEF ConnectorInit, ConnectorInv, Lists, OnceRegistered, DeviceTokensGone,
         InLists, DeviceDeregistered

LEMMA RegisterKeeps ==
  ASSUME ConnectorInv, NEW R \in SUBSET Token, RegisterEventCallbacks(R)
  PROVE  ConnectorInv'
<1>1. /\ R \cap registered = {}
      /\ registered' = registered \cup R
      /\ UNCHANGED <<deregistering, deregistered, late>>
      /\ callbacks' = [s \in Slot |-> callbacks[s] \cup {t \in R : SlotOf[t] = s}]
  BY DEF RegisterEventCallbacks, Insert
<1>2. Lists'
  BY <1>1 DEF ConnectorInv, Lists
<1>3. InLists(callbacks)' \subseteq InLists(callbacks) \cup R
  BY <1>1 DEF InLists
<1>4. OnceRegistered'
  BY <1>1, <1>3 DEF ConnectorInv, OnceRegistered
<1>5. DeviceTokensGone'
  BY <1>1, <1>3 DEF ConnectorInv, OnceRegistered, DeviceTokensGone
<1>6. QED
  BY <1>1, <1>2, <1>4, <1>5 DEF ConnectorInv, DeviceDeregistered

LEMMA ResolveKeeps ==
  ASSUME ConnectorInv, NEW c \in Client, NEW t \in Token, ResolveToken(c, t)
  PROVE  ConnectorInv'
<1>1. /\ t \in registered
      /\ UNCHANGED <<callbacks, registered, late>>
  BY DEF ResolveToken
<1>2. CASE UNCHANGED deregistered /\ deregistering' = [deregistering EXCEPT ![c] = t]
  BY <1>1, <1>2, FewerCallbacks
     DEF ConnectorInv, Lists, OnceRegistered, DeviceDeregistered
<1>3. CASE /\ t \notin InLists(callbacks)
           /\ deregistered' = deregistered \cup {t} /\ UNCHANGED deregistering
  <2>1. t \notin InLists(callbacks)'
    BY <1>1, <1>3 DEF InLists
  <2>2. QED
    BY <1>1, <1>3, <2>1, FewerCallbacks
       DEF ConnectorInv, Lists, OnceRegistered, DeviceDeregistered
<1>4. QED
  BY <1>2, <1>3 DEF ResolveToken

LEMMA DeregisterKeeps ==
  ASSUME ConnectorInv, NEW c \in Client, DeregisterEventCallback(c)
  PROVE  ConnectorInv'
<1> DEFINE t == deregistering[c]
           s == SlotOf[t]
<1>1. t \in registered /\ t \in Token /\ s \in Slot
  BY ConnectorAssumption DEF ConnectorInv, OnceRegistered, DeregisterEventCallback
<1>2. /\ callbacks' = [callbacks EXCEPT ![s] =
            IF s \in SessionSlot THEN EraseSession(@, t)
            ELSE Erase(@, t)]
      /\ deregistering' = [deregistering EXCEPT ![c] = NoToken]
      /\ deregistered' = deregistered \cup {t}
      /\ UNCHANGED <<registered, late>>
  BY DEF DeregisterEventCallback
<1> HIDE DEF t, s
<1>3. PICK list \in SUBSET callbacks[s] :
         /\ callbacks' = [callbacks EXCEPT ![s] = list]
         /\ s \notin SessionSlot => t \notin list
  <2> DEFINE rest == IF s \in SessionSlot
                     THEN EraseSession(callbacks[s], t)
                     ELSE Erase(callbacks[s], t)
  <2>1. callbacks' = [callbacks EXCEPT ![s] = rest]
    BY <1>2
  <2>2. rest \in SUBSET callbacks[s] /\ (s \notin SessionSlot => t \notin rest)
    BY DEF EraseSession, Erase
  <2> HIDE DEF rest
  <2>3. QED
    BY <2>1, <2>2
<1>4. /\ callbacks' \in [Slot -> SUBSET Token]
      /\ \A r \in Slot : callbacks'[r] \subseteq callbacks[r]
  BY <1>1, <1>3 DEF ConnectorInv, Lists
<1>5. s \in DeviceSlot => t \notin InLists(callbacks)'
  <2> SUFFICES ASSUME s \in DeviceSlot, NEW r \in Slot, t \in callbacks'[r]
               PROVE  FALSE
    BY DEF InLists
  <2>1. r = s
    BY <1>1, <1>4 DEF s, ConnectorInv, Lists
  <2>2. QED
    BY <1>1, <1>3, <2>1, DisjointSlots DEF ConnectorInv, Lists
<1>6. deregistering' \in [Client -> registered \cup {NoToken}]
  BY <1>2 DEF ConnectorInv, OnceRegistered
<1>7. QED
  BY <1>1, <1>2, <1>4, <1>5, <1>6, FewerCallbacks
     DEF s, ConnectorInv, OnceRegistered, DeviceDeregistered

LEMMA DispatchCallbacksKeeps ==
  ASSUME ConnectorInv, NEW n \in NotificationData,
         DispatchCallbacks(n)
  PROVE  ConnectorInv'
<1> DEFINE lists == {n.slot} \cup (IF n.deinitialized THEN {Ended(n.slot)} ELSE {})
           targets == UNION {callbacks[s] : s \in lists} \cap owned
<1>1. /\ late' = late \cup (targets \cap deregistered)
      /\ UNCHANGED <<deregistering, registered, deregistered>>
  BY DEF DispatchCallbacks
<1>2. PICK kept \in SUBSET targets :
         callbacks' = [s \in Slot |->
             IF s \in lists THEN callbacks[s] \cap kept ELSE callbacks[s]]
  BY DEF DispatchCallbacks
<1>3. lists \subseteq Slot
  <2>1. n.slot \in Slot /\ (n.deinitialized => n.slot \in SessionSlot)
    BY DEF NotificationData, Slot
  <2>2. n.deinitialized => Ended(n.slot) \in SessionSlot
    BY <2>1 DEF SessionSlot, SessionEvent, Ended
  <2>3. QED
    BY <2>1, <2>2 DEF Slot
<1>4. targets \subseteq InLists(callbacks)
  BY <1>3 DEF InLists
<1>5. \A u \in targets \cap deregistered : SlotOf[u] \notin DeviceSlot
  BY <1>4 DEF ConnectorInv, DeviceTokensGone
<1>6. QED
  BY <1>1, <1>2, <1>5, FewerCallbacks
     DEF ConnectorInv, Lists, OnceRegistered, DeviceDeregistered

LEMMA ConnectorNextInv ==
  ASSUME ConnectorInv, [ConnectorNext]_connectorVars
  PROVE  ConnectorInv'
<1>1. CASE UNCHANGED <<callbacks, deregistering, registered, deregistered, late>>
  BY <1>1, FewerCallbacks
     DEF ConnectorInv, Lists, OnceRegistered, DeviceDeregistered
<1>2. ASSUME NEW t \in Token, ReleaseCallback(t)
      PROVE  ConnectorInv'
  BY <1>1, <1>2 DEF ReleaseCallback, tokenVars
<1>3. ASSUME NEW n \in NotificationData, Notify(n)
      PROVE  ConnectorInv'
  BY <1>1, <1>3 DEF Notify, tokenVars
<1>4. CASE ListenerBegins \/ ListenerEnds \/ UNCHANGED connectorVars
  BY <1>1, <1>4 DEF ListenerBegins, ListenerEnds, connectorVars,
                    tokenVars
<1>5. QED
  BY <1>2, <1>3, <1>4, RegisterKeeps, ResolveKeeps, DeregisterKeeps, DispatchCallbacksKeeps
     DEF ConnectorNext, ClientsDone

\* UwbConnector::DeregisterEventCallback of a device's callback holds what it says,
\* whatever dispatches, registrations and other deregistrations it races: once it
\* has returned, DispatchCallbacks does not invoke the callback.
THEOREM DeviceDeregisteredHolds == ConnectorSpec => []DeviceDeregistered
<1>1. ConnectorInit => ConnectorInv
  BY ConnectorInitInv
<1>2. ConnectorInv /\ [ConnectorNext]_connectorVars => ConnectorInv'
  BY ConnectorNextInv
<1>3. ConnectorInv => DeviceDeregistered
  BY DEF ConnectorInv
<1>4. QED
  BY <1>1, <1>2, <1>3, PTL DEF ConnectorSpec

\* The life of the listener beside the lists.  ServedWhileRegistered does not
\* say that nobody is registered before the first start, nor that only a driver
\* that may fail leaves a start pending without a thread.
ListenerInv ==
    /\ m_notificationThread \in {"none", "starting", "running", "stopping", "exited"}
    /\ m_notificationThreadStartPending \in BOOLEAN
    /\ served \subseteq registered
    /\ Refused => MayFail
    /\ m_notificationThread = "none" /\ ~Refused => InLists(callbacks) = {}
    /\ ServedWhileRegistered

LEMMA PresentInLists ==
  ASSUME NEW cbs
  PROVE  Present(cbs) <=> InLists(cbs) # {}
  BY DEF Present, InLists

LEMMA ListenerInitInv ==
  ASSUME ConnectorInit
  PROVE  ListenerInv
<1>1. InLists(callbacks) = {}
  BY DEF ConnectorInit, InLists
<1>2. QED
  BY <1>1 DEF ConnectorInit, ListenerInv, ServedWhileRegistered, Refused

\* NotificationListenerStart under its caller's condition: the lists were empty
\* and are no longer.
LEMMA RegisterServes ==
  ASSUME ConnectorInv, ListenerInv,
         NEW R \in SUBSET Token, RegisterEventCallbacks(R)
  PROVE  ListenerInv'
<1> DEFINE before == InLists(callbacks)
           now == InLists(callbacks')
<1>1. /\ R \cap registered = {}
      /\ registered' = registered \cup R
      /\ served' = IF m_notificationThread \in {"stopping", "exited"} THEN served
                   ELSE served \cup R
      /\ StartIfFirst(callbacks')
      /\ callbacks' = Insert(callbacks, R)
  BY DEF RegisterEventCallbacks
<1>2. now \subseteq before \cup R
  BY <1>1 DEF InLists, Insert
<1>3. served' \cap registered' = served' /\ served \cap R = {}
  BY <1>1 DEF ListenerInv
<1>4. (Present(callbacks) <=> before # {}) /\ (Present(callbacks') <=> now # {})
  BY PresentInLists
<1> HIDE DEF before, now
<1>5. CASE m_notificationThread \in {"stopping", "exited"}
  <2>1. UNCHANGED threadVars
    BY <1>1, <1>5 DEF StartIfFirst, NotificationListenerStart
  <2>2. served' \cap now \subseteq served \cap before
    BY <1>1, <1>2, <1>3, <1>5
  <2>3. QED
    BY <1>1, <1>3, <1>5, <2>1, <2>2
       DEF ListenerInv, ServedWhileRegistered, Refused, Lost, threadVars,
           before, now
<1>6. CASE m_notificationThread \in {"starting", "running"}
  <2>1. UNCHANGED threadVars
    BY <1>1, <1>6 DEF StartIfFirst, NotificationListenerStart
  <2>2. registered' = served'
    BY <1>1, <1>6 DEF ListenerInv, ServedWhileRegistered
  <2>3. QED
    BY <1>6, <2>1, <2>2
       DEF ListenerInv, ServedWhileRegistered, Refused, threadVars
<1>7. CASE m_notificationThread = "none"
  <2>1. registered' = served'
    BY <1>1, <1>7 DEF ListenerInv, ServedWhileRegistered
  <2>2. CASE Refused
    <3>1. UNCHANGED threadVars
      BY <1>1, <2>2 DEF StartIfFirst, NotificationListenerStart, Refused
    <3>2. QED
      BY <2>1, <2>2, <3>1
         DEF ListenerInv, ServedWhileRegistered, Refused, threadVars
  <2>3. CASE ~Refused /\ now = {}
    <3>1. UNCHANGED threadVars
      BY <1>1, <1>4, <2>3 DEF StartIfFirst
    <3>2. QED
      BY <1>7, <2>1, <2>3, <3>1
         DEF ListenerInv, ServedWhileRegistered, Refused, threadVars, now
  <2>4. CASE ~Refused /\ now # {}
    <3>1. NotificationListenerStart
      BY <1>1, <1>4, <1>7, <2>4 DEF StartIfFirst, ListenerInv, before
    <3>2. /\ m_notificationThreadStartPending' = TRUE
          /\ \/ m_notificationThread' = "starting"
             \/ MayFail /\ m_notificationThread' = "none"
      BY <1>7, <2>4, <3>1 DEF NotificationListenerStart, Refused, ListenerInv
    <3>3. QED
      BY <2>1, <3>2 DEF ListenerInv, ServedWhileRegistered, Refused
  <2>5. QED
    BY <2>2, <2>3, <2>4
<1>8. QED
  BY <1>5, <1>6, <1>7 DEF ListenerInv

\* NotificationListenerStop under its caller's condition: the lists are empty.
LEMMA DeregisterServes ==
  ASSUME ConnectorInv, ListenerInv,
         NEW c \in Client, DeregisterEventCallback(c)
  PROVE  ListenerInv'
<1> DEFINE t == deregistering[c]
           s == SlotOf[t]
           rest == IF s \in SessionSlot THEN EraseSession(callbacks[s], t)
                   ELSE Erase(callbacks[s], t)
<1>1. /\ callbacks' = [callbacks EXCEPT ![s] = rest]
      /\ StopIfLast(callbacks')
      /\ UNCHANGED <<registered, served>>
  BY DEF DeregisterEventCallback
<1>2. rest \subseteq callbacks[s]
  BY DEF EraseSession, Erase
<1> HIDE DEF rest, s, t
<1>3. InLists(callbacks') \subseteq InLists(callbacks)
  BY <1>1, <1>2 DEF ConnectorInv, Lists, InLists
<1>4. CASE UNCHANGED threadVars
  BY <1>1, <1>3, <1>4
     DEF ListenerInv, ServedWhileRegistered, Refused, Lost, threadVars
<1>5. CASE /\ InLists(callbacks') = {}
           /\ m_notificationThread \in {"starting", "running"}
           /\ m_notificationThread' = "stopping"
           /\ UNCHANGED m_notificationThreadStartPending
  BY <1>1, <1>5 DEF ListenerInv, ServedWhileRegistered, Refused
<1>6. QED
  BY <1>1, <1>4, <1>5, PresentInLists
     DEF StopIfLast, NotificationListenerStop, threadVars

LEMMA ListenerNextInv ==
  ASSUME ConnectorInv, ListenerInv, [ConnectorNext]_connectorVars
  PROVE  ListenerInv'
<1>1. ASSUME UNCHANGED <<threadVars, registered, served>>,
             InLists(callbacks') \subseteq InLists(callbacks)
      PROVE  ListenerInv'
  BY <1>1 DEF ListenerInv, ServedWhileRegistered, Refused, Lost, threadVars
<1>2. CASE ListenerBegins
  BY <1>2 DEF ListenerBegins, ListenerInv, ServedWhileRegistered, Refused,
              Lost, tokenVars
<1>3. CASE ListenerEnds
  BY <1>3 DEF ListenerEnds, ListenerInv, ServedWhileRegistered, Refused,
              Lost, tokenVars
<1>4. ASSUME NEW n \in NotificationData, DispatchCallbacks(n)
      PROVE  ListenerInv'
  <2>1. UNCHANGED <<threadVars, registered, served>>
    BY <1>4 DEF DispatchCallbacks
  <2>2. InLists(callbacks') \subseteq InLists(callbacks)
    BY <1>4 DEF DispatchCallbacks, InLists
  <2>3. QED
    BY <1>1, <2>1, <2>2
<1>5. CASE \/ \E c \in Client, t \in Token : ResolveToken(c, t)
           \/ \E t \in Token : ReleaseCallback(t)
           \/ \E n \in NotificationData : Notify(n)
           \/ UNCHANGED connectorVars
  <2>1. UNCHANGED <<callbacks, threadVars, registered, served>>
    BY <1>5 DEF ResolveToken, ReleaseCallback, Notify, connectorVars, tokenVars
  <2>2. QED
    BY <1>1, <2>1
<1>6. QED
  BY <1>2, <1>3, <1>4, <1>5, RegisterServes, DeregisterServes
     DEF ConnectorNext, ClientsDone

\* UwbConnector's listener is there for every callback that was registered before
\* it was first told to stop, until the callback is in no list any more, whatever
\* registrations, deregistrations and dispatches race; one that is registered
\* later finds it stopped for good.
THEOREM ServedWhileRegisteredHolds == ConnectorSpec => []ServedWhileRegistered
<1>1. ConnectorInit => ConnectorInv /\ ListenerInv
  BY ConnectorInitInv, ListenerInitInv
<1>2. ConnectorInv /\ ListenerInv /\ [ConnectorNext]_connectorVars
        => (ConnectorInv /\ ListenerInv)'
  BY ConnectorNextInv, ListenerNextInv
<1>3. ListenerInv => ServedWhileRegistered
  BY DEF ListenerInv
<1>4. QED
  BY <1>1, <1>2, <1>3, PTL DEF ConnectorSpec

-----------------------------------------------------------------------------
(* UwbSession.                                                             *)
(*                                                                         *)
(* SharedObject and NoneLeftDeinitialized are inductive once the variables *)
(* are typed and a call in progress carries what its stage needs.          *)
(* CommandsMatchFlag speaks of objects without a command on its way only;  *)
(* Balance counts the commands that are.  AddedKept needs that one client  *)
(* at a time is between the read and the set of a list (Gate), and where a *)
(* list is on its way to the driver (Kept).                                *)

\* A call that has resolved or created a session has an object; one that reads
\* the list of controlees has one to add to it.
CallShape == \A c \in Caller :
    /\ call[c].at \in {"resolved", "created", "start", "stop"} => call[c].obj \in Object
    /\ call[c].at = "read" => call[c].controlee \in Address

TInv == TypeOK /\ CallShape

LEMMA IdleTyped == Idle \in CallRecord
  BY SessionAssumption DEF Idle, CallRecord, Stage, AddressList, Unset

\* What a client's record becomes is all that has to be looked at.
LEMMA CallReplaced ==
  ASSUME TInv, NEW c \in Caller, NEW r \in CallRecord, call' = [call EXCEPT ![c] = r],
         r.at \in {"resolved", "created", "start", "stop"} => r.obj \in Object,
         r.at = "read" => r.controlee \in Address
  PROVE  /\ call' \in [Caller -> CallRecord]
         /\ CallShape'
  BY DEF TInv, TypeOK, CallShape, CallRecord

LEMMA CallReturns ==
  ASSUME TInv, NEW c \in Caller, Returns(c)
  PROVE  /\ call' \in [Caller -> CallRecord]
         /\ CallShape'
<1>1. Idle.at = "idle"
  BY DEF Idle
<1>2. call' = [call EXCEPT ![c] = Idle]
  BY DEF Returns
<1>3. QED
  BY ONLY <1>1, <1>2, IdleTyped, CallReplaced, TInv, c \in Caller

\* The converted list is a list of addresses again.
LEMMA ConvertedTyped ==
  ASSUME NEW xs \in AddressList, NEW ys \in Converted(xs)
  PROVE  /\ ys \in AddressList
         /\ xs # Unset => ys # Unset
<1>1. CASE xs = Unset
  <2>1. Cardinality(xs) <= Copied
    BY ONLY <1>1, FS_Singleton, SessionAssumption DEF Unset
  <2>2. QED
    BY <1>1, <2>1 DEF Converted
<1>2. CASE xs # Unset
  <2>1. xs \subseteq Address \cup Stray
    BY <1>2 DEF AddressList
  <2>2. ys \subseteq Address \cup Stray
    BY <2>1 DEF Converted, kSubset
  <2>3. QED
    BY <2>2, SessionAssumption DEF AddressList, Unset
<1>3. QED
  BY <1>1, <1>2

LEMMA InitTInv == SessionInit => TInv
<1> SUFFICES ASSUME SessionInit PROVE TInv
  OBVIOUS
<1>1. call \in [Caller -> CallRecord]
  BY IdleTyped DEF SessionInit
<1>2. CallShape
  BY DEF SessionInit, CallShape, Idle
<1>3. /\ m_rangingActive \in [Object -> BOOLEAN]
      /\ held \in [Caller -> SUBSET Object]
      /\ commands \in [Object -> Int]
  BY DEF SessionInit
<1>4. session \in 0 .. MaxSession /\ count \in 0 .. MaxSession
  BY SessionAssumption DEF SessionInit
<1>5. addresses \in AddressList /\ added \subseteq Address
  BY DEF SessionInit, AddressList
<1>6. QED
  BY <1>1, <1>2, <1>3, <1>4, <1>5 DEF SessionInit, TInv, TypeOK

-----------------------------------------------------------------------------
(* Steps.  A step that changes the call of a client only, by variables.    *)

HostTyped ==
    /\ m_sessions \in Object \cup {None}
    /\ held \in [Caller -> SUBSET Object]
    /\ m_rangingActive \in [Object -> BOOLEAN]
    /\ commands \in [Object -> Int]

DriverTyped ==
    /\ session \in 0 .. MaxSession /\ count \in 0 .. MaxSession
    /\ State \in {"Deinitialized", "Initialized", "Idle"}
    /\ deviceType \in BOOLEAN
    /\ addresses \in AddressList
    /\ added \subseteq Address

CallTyped == call \in [Caller -> CallRecord] /\ CallShape

LEMMA TInvIs ==
    /\ TInv => HostTyped /\ DriverTyped /\ CallTyped /\ replaced \in BOOLEAN
    /\ HostTyped' /\ DriverTyped' /\ CallTyped' /\ replaced' \in BOOLEAN => TInv'
  BY DEF TInv, TypeOK, HostTyped, DriverTyped, CallTyped

LEMMA HostUnchanged ==
  ASSUME HostTyped, UNCHANGED hostVars, UNCHANGED commands PROVE HostTyped'
  BY DEF HostTyped, hostVars

LEMMA DriverUnchanged ==
  ASSUME DriverTyped, UNCHANGED tableVars PROVE DriverTyped'
  BY DEF DriverTyped, tableVars

LEMMA CallUnchanged ==
  ASSUME CallTyped, UNCHANGED call PROVE CallTyped'
  BY DEF CallTyped, CallShape

\* A call begins with an object and, for the rest, an idle record.
LEMMA CallBeginsWith ==
  ASSUME TInv, NEW c \in Caller, NEW at \in Stage, NEW o \in Object, at # "read",
         call' = [call EXCEPT ![c] = [Idle EXCEPT !.at = at, !.obj = o]]
  PROVE  CallTyped'
<1> DEFINE r == [Idle EXCEPT !.at = at, !.obj = o]
<1>1. r \in CallRecord /\ r.at = at /\ r.obj = o
  BY IdleTyped DEF CallRecord
<1>2. call' = [call EXCEPT ![c] = r]
  OBVIOUS
<1> HIDE DEF r
<1>3. QED
  BY <1>1, <1>2, CallReplaced DEF CallTyped

\* A command that is issued ends the call, or has the session whose state is to
\* be written.
LEMMA CommandGoesOn ==
  ASSUME TInv, NEW c \in Caller, Command(c)
  PROVE  \E r \in CallRecord :
            /\ call' = [call EXCEPT ![c] = r]
            /\ r.at \in {"idle", "stopped"} /\ r.controlee = None
<1>1. Idle.at = "idle" /\ Idle.controlee = None
  BY DEF Idle
<1>2. CASE Returns(c)
  BY <1>1, <1>2, IdleTyped DEF Returns
<1>3. CASE ~Returns(c)
  <2> DEFINE r == [Idle EXCEPT !.at = "stopped", !.obj = call[c].obj, !.inc = session]
  <2>1. call[c].obj \in Object \cup {None} /\ session \in 0 .. MaxSession
    BY DEF TInv, TypeOK, CallRecord
  <2>2. r \in CallRecord /\ r.at = "stopped" /\ r.controlee = None
    BY <2>1, IdleTyped DEF CallRecord, Stage, Idle
  <2>3. call' = [call EXCEPT ![c] = r]
    BY <1>3 DEF Command
  <2> HIDE DEF r
  <2>4. QED
    BY <2>2, <2>3
<1>4. QED
  BY <1>2, <1>3

\* A command that is issued is one of an object.
LEMMA CommandCounted ==
  ASSUME TInv, NEW c \in Caller, call[c].at \in {"start", "stop"}, NEW n \in {1, -1},
         commands' = [commands EXCEPT ![call[c].obj] = @ + n]
  PROVE  commands' \in [Object -> Int]
  BY DEF TInv, TypeOK, CallShape

\* The steps of the driver that involve no call record.
LEMMA SetSteps ==
  ASSUME TInv, NEW c \in Caller
  PROVE  /\ ExtractParameters(call[c].controlee = None) => DriverTyped'
         /\ InsertParameters(call[c].inc, call[c].addresses, call[c].controlee)
               => DriverTyped'
         /\ SessionDestroy => DriverTyped'
<1>0. 0 \in 0 .. MaxSession
  BY SessionAssumption
<1>1. /\ DriverTyped /\ Unset \in AddressList /\ call[c].addresses \in AddressList
      /\ call[c].controlee \in Address \cup {None}
  BY DEF TInv, TypeOK, DriverTyped, CallRecord, AddressList
<1>2. ASSUME ExtractParameters(call[c].controlee = None) PROVE DriverTyped'
  BY <1>1, <1>2 DEF ExtractParameters, DriverTyped
<1>3. ASSUME InsertParameters(call[c].inc, call[c].addresses, call[c].controlee)
      PROVE  DriverTyped'
  BY <1>1, <1>3 DEF InsertParameters, DriverTyped
<1>4. ASSUME SessionDestroy PROVE DriverTyped'
  BY <1>0, <1>1, <1>4 DEF SessionDestroy, DriverTyped
<1>5. QED
  BY <1>2, <1>3, <1>4

\* The length of the list the driver has is a number.
LEMMA LengthTyped == ASSUME TInv, addresses # Unset PROVE Cardinality(addresses) \in Nat
<1>1. addresses \in SUBSET (Address \cup Stray)
  BY DEF TInv, TypeOK, AddressList
<1>2. IsFiniteSet(Address \cup Stray)
  BY FS_Union, SessionAssumption
<1>3. QED
  BY <1>1, <1>2, FS_Subset, FS_CardinalityType

LEMMA NextTInv == TInv /\ [SessionNext]_sessionVars => TInv'
<1> SUFFICES ASSUME TInv, [SessionNext]_sessionVars PROVE TInv'
  OBVIOUS
<1>0. /\ HostTyped /\ DriverTyped /\ CallTyped /\ replaced \in BOOLEAN
      /\ 0 \in 0 .. MaxSession /\ 0 \in Nat /\ Unset \in AddressList
  BY TInvIs, SessionAssumption DEF AddressList
<1>1. ASSUME NEW c \in Caller, GetSession(c) PROVE TInv'
  <2>1. CallTyped'
    <3>1. CASE UNCHANGED call
      BY <1>0, <3>1, CallUnchanged
    <3>2. CASE Goes(c, "resolve") /\ m_sessions = None
      <4>1. call' = [call EXCEPT ![c].at = "resolve"]
        BY <3>2 DEF Goes
      <4>2. QED
        BY <4>1 DEF TInv, TypeOK, CallTyped, CallShape, CallRecord, Stage
    <3>3. QED
      BY <1>1, <3>1, <3>2 DEF GetSession
  <2>2. HostTyped'
    BY <1>0, <1>1 DEF GetSession, HostTyped
  <2>3. QED
    BY <1>0, <1>1, <2>1, <2>2, TInvIs, DriverUnchanged DEF GetSession
<1>2. ASSUME NEW c \in Caller, ResolveSession(c) PROVE TInv'
  <2>1. CallTyped'
    <3>1. CASE Returns(c)
      BY <3>1, CallReturns DEF CallTyped
    <3>2. CASE \E o \in Object : Construct(c, o, "resolved")
      <4>1. PICK o \in Object : Construct(c, o, "resolved")
        BY <3>2
      <4>2. QED
        BY <4>1, CallBeginsWith DEF Construct, Stage
    <3>3. QED
      BY <1>2, <3>1, <3>2 DEF ResolveSession
  <2>2. QED
    BY <1>0, <1>2, <2>1, TInvIs, HostUnchanged, DriverUnchanged DEF ResolveSession
<1>3. ASSUME NEW c \in Caller, InsertResolved(c) PROVE TInv'
  <2>1. CallTyped'
    BY <1>3, CallReturns DEF InsertResolved, CallTyped
  <2>2. HostTyped'
    BY <1>0, <1>3 DEF InsertResolved, HostTyped, CallTyped, CallShape
  <2>3. QED
    BY <1>0, <1>3, <2>1, <2>2, TInvIs, DriverUnchanged DEF InsertResolved
<1>4. ASSUME NEW c \in Caller, CreateSession(c) PROVE TInv'
  <2>1. PICK o \in Object : Construct(c, o, "created")
    BY <1>4 DEF CreateSession
  <2>2. CallTyped'
    BY <2>1, CallBeginsWith DEF Construct, Stage
  <2>3. QED
    BY <1>0, <1>4, <2>2, TInvIs, HostUnchanged, DriverUnchanged DEF CreateSession
<1>5. ASSUME NEW c \in Caller, InsertCreated(c) PROVE TInv'
  <2>1. CallTyped'
    BY <1>5, CallReturns DEF InsertCreated, CallTyped
  <2>2. HostTyped' /\ replaced' \in BOOLEAN
    BY <1>0, <1>5 DEF InsertCreated, HostTyped, CallTyped, CallShape
  <2>3. QED
    BY <1>0, <1>5, <2>1, <2>2, TInvIs, DriverUnchanged DEF InsertCreated
<1>6. ASSUME NEW c \in Caller, SessionInitialize(c) PROVE TInv'
  <2>1. CallTyped'
    <3>1. call' = [call EXCEPT ![c].at = "set"]
      BY <1>6 DEF SessionInitialize, Goes
    <3>2. QED
      BY <3>1 DEF TInv, TypeOK, CallTyped, CallShape, CallRecord, Stage
  <2>2. DriverTyped'
    BY <1>0, <1>6 DEF SessionInitialize, SessionUpdateState, DriverTyped
  <2>3. QED
    BY <1>0, <1>6, <2>1, <2>2, TInvIs, HostUnchanged DEF SessionInitialize
<1>7. ASSUME NEW c \in Caller, SetParameters(c) PROVE TInv'
  <2>1. CASE Returns(c) /\ UNCHANGED tableVars
    <3>1. CallTyped'
      BY <2>1, CallReturns DEF CallTyped
    <3>2. QED
      BY <1>0, <1>7, <2>1, <3>1, TInvIs, HostUnchanged, DriverUnchanged DEF SetParameters
  <2>2. ASSUME NEW xs \in Converted(call[c].addresses),
               call' = [call EXCEPT ![c].at = "insert", ![c].inc = session,
                                    ![c].addresses = xs],
               ExtractParameters(call[c].controlee = None)
        PROVE  TInv'
    <3>1. xs \in AddressList
      BY ConvertedTyped DEF TInv, TypeOK, CallRecord
    <3>2. CallTyped'
      <4> DEFINE r == [call[c] EXCEPT !.at = "insert", !.inc = session, !.addresses = xs]
      <4>1. r \in CallRecord /\ r.at = "insert"
        BY <1>0, <3>1 DEF CallTyped, DriverTyped, CallRecord, Stage
      <4>2. call' = [call EXCEPT ![c] = r]
        BY <1>0, <2>2 DEF CallTyped
      <4> HIDE DEF r
      <4>3. QED
        BY <4>1, <4>2, CallReplaced DEF CallTyped
    <3>3. QED
      BY <1>0, <1>7, <2>2, <3>2, TInvIs, HostUnchanged, SetSteps DEF SetParameters
  <2>3. QED
    BY <1>7, <2>1, <2>2 DEF SetParameters
<1>8. ASSUME NEW c \in Caller, SetParametersDone(c) PROVE TInv'
  <2>1. CallTyped'
    BY <1>8, CallReturns DEF SetParametersDone, CallTyped
  <2>2. QED
    BY <1>0, <1>8, <2>1, TInvIs, HostUnchanged, SetSteps DEF SetParametersDone
<1>9. ASSUME NEW c \in Caller, Command(c) PROVE TInv'
  <2>1. CallTyped'
    BY <1>9, CommandGoesOn, CallReplaced DEF CallTyped
  <2>2. HostTyped'
    <3>1. commands' \in [Object -> Int]
      BY <1>9, CommandCounted DEF Command
    <3>2. QED
      BY <1>0, <1>9, <3>1 DEF Command, HostTyped, hostVars
  <2>3. DriverTyped'
    BY <1>0, <1>9, DriverUnchanged DEF Command
  <2>4. QED
    BY <1>0, <1>9, <2>1, <2>2, <2>3, TInvIs DEF Command
<1>9a. ASSUME NEW c \in Caller, SessionIdle(c) PROVE TInv'
  <2>1. CallTyped'
    BY <1>9a, CallReturns DEF SessionIdle, CallTyped
  <2>2. DriverTyped'
    BY <1>0, <1>9a DEF SessionIdle, SessionUpdateState, DriverTyped
  <2>3. QED
    BY <1>0, <1>9a, <2>1, <2>2, TInvIs, HostUnchanged DEF SessionIdle
<1>10. ASSUME NEW c \in Caller, ReadControlees(c) PROVE TInv'
  <2>1. CallTyped'
    <3>1. CASE Returns(c)
      BY <3>1, CallReturns DEF CallTyped
    <3>2. ASSUME NEW xs \in Converted(addresses), Readable(c),
                 call' = [call EXCEPT ![c].at = "set", ![c].size = 0,
                            ![c].addresses = xs \cup {call[c].controlee}]
          PROVE  CallTyped'
      <4>1. xs \in AddressList /\ xs # Unset
        BY <1>0, <3>2, ConvertedTyped DEF Readable, DriverTyped
      <4>2. call[c].controlee \in Address
        BY <1>0, <1>10 DEF ReadControlees, CallTyped, CallShape
      <4>3. xs \cup {call[c].controlee} \in AddressList
        BY <4>1, <4>2 DEF AddressList
      <4> DEFINE r == [call[c] EXCEPT !.at = "set", !.size = 0,
                                      !.addresses = xs \cup {call[c].controlee}]
      <4>4. r \in CallRecord /\ r.at = "set"
        BY <1>0, <4>3 DEF CallTyped, CallRecord, Stage
      <4>5. call' = [call EXCEPT ![c] = r]
        BY <1>0, <3>2 DEF CallTyped
      <4> HIDE DEF r
      <4>6. QED
        BY <4>4, <4>5, CallReplaced DEF CallTyped
    <3>3. QED
      BY <1>10, <3>1, <3>2 DEF ReadControlees
  <2>2. QED
    BY <1>0, <1>10, <2>1, TInvIs, HostUnchanged, DriverUnchanged DEF ReadControlees
<1>11. ASSUME NEW c \in Caller, SessionRemove(c) PROVE TInv'
  <2>1. CallTyped'
    BY <1>11, CallReturns DEF SessionRemove, CallTyped
  <2>2. QED
    BY <1>0, <1>11, <2>1, TInvIs, HostUnchanged, SetSteps DEF SessionRemove
<1>12. ASSUME NEW c \in Caller, IoctlFails(c) PROVE TInv'
  <2>1. CallTyped'
    BY <1>12, CallReturns DEF IoctlFails, CallTyped
  <2>2. HostTyped'
    <3>1. commands' \in [Object -> Int]
      BY <1>0, <1>12, CommandCounted DEF IoctlFails, HostTyped
    <3>2. QED
      BY <1>0, <1>12, <3>1 DEF IoctlFails, HostTyped, hostVars
  <2>3. QED
    BY <1>0, <1>12, <2>1, <2>2, TInvIs, DriverUnchanged DEF IoctlFails
<1>13. ASSUME NEW c \in Caller, NEW o \in Object, Release(c, o) PROVE TInv'
  <2>1. HostTyped'
    <3>1. held' \in [Caller -> SUBSET Object]
      BY <1>0, <1>13 DEF Release, HostTyped
    <3>2. CASE UNCHANGED <<m_sessions, m_rangingActive, commands>>
      BY <1>0, <3>1, <3>2 DEF HostTyped
    <3>3. CASE /\ m_sessions' = IF m_sessions = o THEN None ELSE m_sessions
               /\ m_rangingActive' = [m_rangingActive EXCEPT ![o] = FALSE]
               /\ commands' = [commands EXCEPT ![o] = 0]
      BY <1>0, <3>1, <3>3 DEF HostTyped
    <3>4. QED
      BY <1>13, <3>2, <3>3 DEF Release
  <2>2. QED
    BY <1>0, <1>13, <2>1, TInvIs, CallUnchanged, DriverUnchanged DEF Release
<1>14. ASSUME NEW c \in Caller, NEW o \in Object, StartRanging(c, o) \/ StopRanging(c, o)
       PROVE  TInv'
  <2>1. CallTyped'
    BY <1>14, CallBeginsWith DEF StartRanging, StopRanging, Stage
  <2>2. HostTyped'
    BY <1>0, <1>14 DEF StartRanging, StopRanging, HostTyped
  <2>3. QED
    BY <1>0, <1>14, <2>1, <2>2, TInvIs, DriverUnchanged DEF StartRanging, StopRanging
<1>15. ASSUME NEW c \in Caller, NEW o \in Object, Destroy(c, o) PROVE TInv'
  <2>1. session \in 0 .. MaxSession
    BY <1>0 DEF DriverTyped
  <2>2. CallTyped'
    <3> DEFINE r == [Idle EXCEPT !.at = "destroy", !.obj = o,
                                 !.inc = session]
    <3>1. r \in CallRecord /\ r.at = "destroy"
      BY <2>1, IdleTyped DEF CallRecord, Stage
    <3>2. call' = [call EXCEPT ![c] = r]
      BY <1>15 DEF Destroy
    <3> HIDE DEF r
    <3>3. QED
      BY <3>1, <3>2, CallReplaced DEF CallTyped
  <2>3. DriverTyped'
    BY <1>0, <1>15 DEF Destroy, SessionUpdateState, DriverTyped
  <2>4. QED
    BY <1>0, <1>15, <2>2, <2>3, TInvIs, HostUnchanged DEF Destroy
<1>16. ASSUME NEW c \in Caller, NEW o \in Object, NEW xs \in Configured, Configure(c, o, xs)
       PROVE  TInv'
  <2>1. count + 1 \in 0 .. MaxSession
    BY <1>0, <1>16, SessionAssumption DEF Configure, SessionCreate, DriverTyped
  <2>2. xs \in AddressList
    BY SessionAssumption DEF AddressList
  <2>3. CallTyped'
    <3> DEFINE r == [Idle EXCEPT !.at = "initialize", !.obj = o,
                                 !.inc = count + 1, !.addresses = xs]
    <3>1. r \in CallRecord /\ r.at = "initialize"
      BY <2>1, <2>2, IdleTyped DEF CallRecord, Stage
    <3>2. call' = [call EXCEPT ![c] = r]
      BY <1>16 DEF Configure
    <3> HIDE DEF r
    <3>3. QED
      BY <3>1, <3>2, CallReplaced DEF CallTyped
  <2>4. DriverTyped'
    BY <1>0, <1>16, <2>1 DEF Configure, SessionCreate, DriverTyped
  <2>5. QED
    BY <1>0, <1>16, <2>3, <2>4, TInvIs, HostUnchanged DEF Configure
<1>17. ASSUME NEW c \in Caller, NEW o \in Object, NEW a \in Address, TryAddControlee(c, o, a)
       PROVE  TInv'
  <2>1. Cardinality(addresses) \in Nat
    BY <1>17, LengthTyped DEF TryAddControlee, GetParametersSize
  <2>2. CallTyped'
    <3> DEFINE r == [Idle EXCEPT !.at = "read", !.obj = o,
                                 !.controlee = a, !.size = Cardinality(addresses)]
    <3>1. r \in CallRecord /\ r.at = "read" /\ r.controlee = a
      BY <2>1, IdleTyped DEF CallRecord, Stage
    <3>2. call' = [call EXCEPT ![c] = r]
      BY <1>17 DEF TryAddControlee, GetParametersSize
    <3> HIDE DEF r
    <3>3. QED
      BY <3>1, <3>2, CallReplaced DEF CallTyped
  <2>3. QED
    BY <1>0, <1>17, <2>2, TInvIs, HostUnchanged, DriverUnchanged DEF TryAddControlee
<1>18. ASSUME UNCHANGED sessionVars PROVE TInv'
  BY <1>0, <1>18, TInvIs, HostUnchanged, DriverUnchanged, CallUnchanged DEF sessionVars
<1>19. QED
  BY <1>1, <1>2, <1>3, <1>4, <1>5, <1>6, <1>7, <1>8, <1>9, <1>9a, <1>10, <1>11, <1>12,
     <1>13, <1>14, <1>15, <1>16, <1>17, <1>18 DEF SessionNext

\* Every variable keeps its type, and a call in progress has what its stage
\* needs, for any clients, objects, addresses and number of sessions.
THEOREM TypeCorrect == SessionSpec => []TypeOK
<1>1. TInv => TypeOK
  BY DEF TInv
<1>2. QED
  BY InitTInv, NextTInv, <1>1, PTL DEF SessionSpec

-----------------------------------------------------------------------------
(* SharedObject.                                                           *)

LEMMA NextShared == TInv /\ SharedObject /\ [SessionNext]_sessionVars => SharedObject'
<1> SUFFICES ASSUME TInv, SharedObject, [SessionNext]_sessionVars, ~replaced',
                    NEW d \in Caller
             PROVE  held'[d] \subseteq {m_sessions'}
  BY DEF SharedObject
<1>0. HostTyped /\ None \notin Object
  BY TInvIs, SessionAssumption
<1>1. CASE UNCHANGED <<m_sessions, held, replaced>>
  BY <1>1 DEF SharedObject
<1>2. ASSUME NEW c \in Caller, GetSession(c) PROVE held'[d] \subseteq {m_sessions'}
  BY <1>0, <1>2 DEF GetSession, SharedObject, HostTyped
<1>3. ASSUME NEW c \in Caller, InsertResolved(c) PROVE held'[d] \subseteq {m_sessions'}
  \* An entry that another caller has made is kept; otherwise nobody holds an
  \* object, since what they hold would be None.
  <2>1. ~replaced /\ held[d] \subseteq {m_sessions} /\ held[d] \subseteq Object
    BY <1>0, <1>3 DEF InsertResolved, SharedObject, HostTyped
  <2>2. m_sessions = None => held[d] = {}
    BY <1>0, <2>1
  <2>3. held'[d] \subseteq held[d] \cup {m_sessions'}
    BY <1>0, <1>3 DEF InsertResolved, HostTyped
  <2>4. m_sessions # None => m_sessions' = m_sessions
    BY <1>3 DEF InsertResolved
  <2>5. QED
    BY <2>1, <2>2, <2>3, <2>4
<1>4. ASSUME NEW c \in Caller, InsertCreated(c) PROVE held'[d] \subseteq {m_sessions'}
  <2>1. ~replaced /\ m_sessions = None
    BY <1>4 DEF InsertCreated
  <2>2. held[d] = {}
    BY <1>0, <2>1 DEF SharedObject, HostTyped
  <2>3. QED
    BY <1>0, <1>4, <2>2 DEF InsertCreated, HostTyped
<1>5. ASSUME NEW c \in Caller, NEW o \in Object, Release(c, o)
      PROVE  held'[d] \subseteq {m_sessions'}
  <2>1. ~replaced /\ held[d] \subseteq {m_sessions}
    BY <1>5 DEF Release, SharedObject
  <2>2. held'[d] = IF d = c THEN held[d] \ {o} ELSE held[d]
    BY <1>0, <1>5 DEF Release, HostTyped
  <2>3. CASE Owners(o) = {c}
    <3>1. d # c => o \notin held[d]
      BY <2>3 DEF Owners
    <3>2. m_sessions' = IF m_sessions = o THEN None ELSE m_sessions
      BY <1>5, <2>3 DEF Release
    <3>3. QED
      BY <2>1, <2>2, <3>1, <3>2
  <2>4. CASE Owners(o) # {c}
    BY <1>5, <2>1, <2>2, <2>4 DEF Release
  <2>5. QED
    BY <2>3, <2>4
<1>6. QED
  BY <1>1, <1>2, <1>3, <1>4, <1>5
  DEF SessionNext, sessionVars, hostVars, ResolveSession, CreateSession, SessionInitialize,
      SetParameters, SetParametersDone, Command, SessionIdle, ReadControlees, SessionRemove,
      IoctlFails, StartRanging, StopRanging, Destroy, Configure, TryAddControlee

\* However many clients look the session up, resolve it and drop it, they share
\* one object until CreateSession displaces it: the second look under the
\* exclusive lock is what keeps the losers of the race from entering theirs.
THEOREM SharedObjectHolds == SessionSpec => []SharedObject
<1>1. SessionInit => SharedObject
  BY DEF SessionInit, SharedObject
<1>2. QED
  BY <1>1, InitTInv, NextTInv, NextShared, PTL DEF SessionSpec

-----------------------------------------------------------------------------
(* NoneLeftDeinitialized.                                                  *)

\* A client that brings the driver's session into or out of the table.
Attends(c) == call[c].inc = session /\ call[c].at \in {"initialize", "destroy"}

\* A step of another client does not disturb it.
LEMMA StillAttends ==
  ASSUME TInv, NEW c \in Caller, NEW d \in Caller, Attends(d), c # d,
         UNCHANGED session, NEW r, call' = [call EXCEPT ![c] = r]
  PROVE  Attends(d)'
  BY DEF Attends, TInv, TypeOK

LEMMA NextNoneLeft == TInv /\ NoneLeftDeinitialized /\ [SessionNext]_sessionVars => NoneLeftDeinitialized'
<1> SUFFICES ASSUME TInv, NoneLeftDeinitialized, [SessionNext]_sessionVars,
                    session' # 0, State' = "Deinitialized"
             PROVE  \E d \in Caller : Attends(d)'
  BY DEF NoneLeftDeinitialized, Attends
<1>0. /\ call \in [Caller -> CallRecord]
      /\ session # 0 /\ State = "Deinitialized" => \E d \in Caller : Attends(d)
  BY DEF TInv, TypeOK, NoneLeftDeinitialized, Attends
\* A step that leaves the session alone, of a client that does not attend to it.
<1>1. ASSUME NEW c \in Caller, UNCHANGED <<session, State>>, ~Attends(c),
             NEW r, call' = [call EXCEPT ![c] = r]
      PROVE  \E d \in Caller : Attends(d)'
  BY <1>0, <1>1, StillAttends
<1>2. ASSUME UNCHANGED <<session, State, call>> PROVE \E d \in Caller : Attends(d)'
  BY <1>0, <1>2 DEF Attends
<1>3. ASSUME NEW c \in Caller,
             \/ InsertResolved(c) \/ InsertCreated(c) \/ SetParametersDone(c)
             \/ IoctlFails(c)
      PROVE  \E d \in Caller : Attends(d)'
  <2>1. UNCHANGED <<session, State>> /\ ~Attends(c) /\ call' = [call EXCEPT ![c] = Idle]
    BY <1>3 DEF InsertResolved, InsertCreated, SetParametersDone, InsertParameters,
                IoctlFails, Returns, Attends, tableVars
  <2>2. QED
    BY <1>1, <2>1
<1>4. ASSUME NEW c \in Caller, GetSession(c) PROVE \E d \in Caller : Attends(d)'
  BY <1>1, <1>2, <1>4 DEF GetSession, Goes, Attends, tableVars
<1>5. ASSUME NEW c \in Caller, ResolveSession(c) \/ CreateSession(c)
      PROVE  \E d \in Caller : Attends(d)'
  BY <1>1, <1>5 DEF ResolveSession, CreateSession, Construct, Returns, Attends, tableVars
<1>6. ASSUME NEW c \in Caller, SetParameters(c) PROVE \E d \in Caller : Attends(d)'
  BY <1>1, <1>6 DEF SetParameters, ExtractParameters, Returns, Attends, tableVars
<1>7. ASSUME NEW c \in Caller, ReadControlees(c) PROVE \E d \in Caller : Attends(d)'
  BY <1>1, <1>7 DEF ReadControlees, Returns, Attends, tableVars
<1>8. ASSUME NEW c \in Caller, NEW o \in Object,
             \/ StartRanging(c, o) \/ StopRanging(c, o)
             \/ \E a \in Address : TryAddControlee(c, o, a)
      PROVE  \E d \in Caller : Attends(d)'
  BY <1>1, <1>8 DEF StartRanging, StopRanging, TryAddControlee, GetParametersSize,
                    CanCall, Attends, tableVars
<1>9. ASSUME NEW c \in Caller, NEW o \in Object, Release(c, o)
      PROVE  \E d \in Caller : Attends(d)'
  BY <1>2, <1>9 DEF Release, tableVars
\* A state other than Deinitialized is set, or the session is gone.
<1>10. ASSUME NEW c \in Caller, Command(c) PROVE \E d \in Caller : Attends(d)'
  <2>1. UNCHANGED <<session, State>> /\ ~Attends(c)
    BY <1>10 DEF Command, Attends, tableVars
  <2>2. QED
    BY <1>1, <1>10, <2>1, CommandGoesOn
<1>10a. ASSUME NEW c \in Caller, SessionIdle(c) PROVE \E d \in Caller : Attends(d)'
  <2>1. call[c].inc # session /\ UNCHANGED <<session, State>> /\ ~Attends(c)
    BY <1>10a DEF SessionIdle, SessionUpdateState, Attends
  <2>2. QED
    BY <1>1, <1>10a, <2>1 DEF SessionIdle, Returns
<1>11. ASSUME NEW c \in Caller, SessionRemove(c) PROVE FALSE
  BY <1>11 DEF SessionRemove, SessionDestroy
<1>12. ASSUME NEW c \in Caller, SessionInitialize(c) PROVE \E d \in Caller : Attends(d)'
  <2>1. call[c].inc # session /\ UNCHANGED <<session, State>>
    BY <1>12 DEF SessionInitialize, SessionUpdateState
  <2>2. QED
    BY <1>1, <1>12, <2>1 DEF SessionInitialize, Goes, Attends
\* The client that creates the session, or sets its state, attends to it.
<1>13. ASSUME NEW c \in Caller, NEW o \in Object,
              Destroy(c, o) \/ \E xs \in Configured : Configure(c, o, xs)
       PROVE  \E d \in Caller : Attends(d)'
  <2>1. Attends(c)'
    BY <1>0, <1>13 DEF Destroy, Configure, SessionCreate, Attends, Idle
  <2>2. QED
    BY <2>1
<1>14. CASE UNCHANGED sessionVars
  BY <1>2, <1>14 DEF sessionVars, tableVars
<1>15. QED
  BY <1>3, <1>4, <1>5, <1>6, <1>7, <1>8, <1>9, <1>10, <1>10a, <1>11, <1>12, <1>13, <1>14
  DEF SessionNext

\* No session stays in the driver's table Deinitialized, and so unusable,
\* whichever requests of whichever clients overlap: the state is written again,
\* or the session removed, by a client that is still at it.
THEOREM NoneLeftDeinitializedHolds == SessionSpec => []NoneLeftDeinitialized
<1>1. SessionInit => NoneLeftDeinitialized
  BY DEF SessionInit, NoneLeftDeinitialized
<1>2. QED
  BY <1>1, InitTInv, NextTInv, NextNoneLeft, PTL DEF SessionSpec

-----------------------------------------------------------------------------
(* CommandsMatchFlag.                                                      *)

\* The clients that are about to issue a command of an object.
Issuing(at, o) == {c \in Caller : call[c].at = at /\ call[c].obj = o}
Pending(at, o) == Cardinality(Issuing(at, o))

\* What has been issued and what is about to be add up to the flag.
Balance == \A o \in Object :
    commands[o] + Pending("start", o) - Pending("stop", o) =
        IF m_rangingActive[o] THEN 1 ELSE 0

LEMMA IssuingFinite ==
  ASSUME NEW at, NEW o
  PROVE  IsFiniteSet(Issuing(at, o)) /\ Pending(at, o) \in Nat
  BY SessionAssumption, FS_Subset, FS_CardinalityType, Issuing(at, o) \in SUBSET Caller
  DEF Issuing, Pending

LEMMA BalanceMatches == TInv /\ Balance => CommandsMatchFlag
<1> SUFFICES ASSUME TInv, Balance, NEW o \in Object,
                    ~\E c \in Caller : call[c].obj = o /\ call[c].at \in {"start", "stop"}
             PROVE  commands[o] = IF m_rangingActive[o] THEN 1 ELSE 0
  BY DEF CommandsMatchFlag
<1>1. Issuing("start", o) = {} /\ Issuing("stop", o) = {}
  BY DEF Issuing
<1>2. Pending("start", o) = 0 /\ Pending("stop", o) = 0
  BY <1>1, FS_EmptySet DEF Pending
<1>3. QED
  BY <1>2 DEF Balance, TInv, TypeOK

LEMMA InitBalance == SessionInit => Balance
<1> SUFFICES ASSUME SessionInit, NEW o \in Object
             PROVE  /\ Pending("start", o) = 0 /\ Pending("stop", o) = 0
                    /\ commands[o] = 0 /\ ~m_rangingActive[o]
  BY DEF Balance
<1>1. Issuing("start", o) = {} /\ Issuing("stop", o) = {}
  BY DEF SessionInit, Issuing, Idle
<1>2. QED
  BY <1>1, FS_EmptySet DEF SessionInit, Pending

\* A client that begins or ends nothing but other calls does not count.
LEMMA SamePending ==
  ASSUME TInv, NEW c \in Caller, NEW r, call' = [call EXCEPT ![c] = r],
         NEW at, call[c].at # at, r.at # at, NEW o
  PROVE  Pending(at, o)' = Pending(at, o)
<1>1. Issuing(at, o)' = Issuing(at, o)
  BY DEF Issuing, TInv, TypeOK
<1>2. QED
  BY <1>1 DEF Pending

\* A client that begins a command of an object adds one to that object's.
LEMMA OneMore ==
  ASSUME NEW c \in Caller, \A d \in Caller \ {c} : call'[d] = call[d],
         NEW at, call[c].at # at, call'[c].at = at, NEW p
  PROVE  Pending(at, p)' = IF call'[c].obj = p THEN Pending(at, p) + 1 ELSE Pending(at, p)
<1>1. Issuing(at, p)' = IF call'[c].obj = p THEN Issuing(at, p) \cup {c} ELSE Issuing(at, p)
  BY DEF Issuing
<1>2. c \notin Issuing(at, p)
  BY DEF Issuing
<1>3. QED
  BY <1>1, <1>2, IssuingFinite, FS_AddElement DEF Pending

\* One that is done with it takes one away.
LEMMA OneLess ==
  ASSUME TInv, NEW c \in Caller, NEW r, call' = [call EXCEPT ![c] = r],
         NEW at, call[c].at = at, r.at # at, NEW o
  PROVE  Pending(at, o)' = IF call[c].obj = o THEN Pending(at, o) - 1 ELSE Pending(at, o)
<1>1. Issuing(at, o)' = IF call[c].obj = o THEN Issuing(at, o) \ {c} ELSE Issuing(at, o)
  BY DEF Issuing, TInv, TypeOK
<1>2. call[c].obj = o => c \in Issuing(at, o)
  BY DEF Issuing
<1>3. QED
  BY <1>1, <1>2, IssuingFinite, FS_RemoveElement DEF Pending

\* A step that has no part in commands.
LEMMA SameBalance ==
  ASSUME TInv, Balance, NEW c \in Caller, NEW r, call' = [call EXCEPT ![c] = r],
         call[c].at \notin {"start", "stop"}, r.at \notin {"start", "stop"},
         UNCHANGED <<m_rangingActive, commands>>
  PROVE  Balance'
<1>1. \A o \in Object : /\ Pending("start", o)' = Pending("start", o)
                        /\ Pending("stop", o)' = Pending("stop", o)
  BY SamePending
<1>2. QED
  BY <1>1 DEF Balance

LEMMA SameAll ==
  ASSUME Balance, UNCHANGED <<m_rangingActive, commands, call>>
  PROVE  Balance'
<1>1. \A o \in Object : /\ Pending("start", o)' = Pending("start", o)
                        /\ Pending("stop", o)' = Pending("stop", o)
  BY DEF Pending, Issuing
<1>2. QED
  BY <1>1 DEF Balance

\* The command reaches the driver, or fails on the way.
LEMMA Issued ==
  ASSUME TInv, Balance, NEW c \in Caller, UNCHANGED m_rangingActive,
         NEW r, call' = [call EXCEPT ![c] = r], r.at \notin {"start", "stop"},
         \/ call[c].at = "start" /\ commands' = [commands EXCEPT ![call[c].obj] = @ + 1]
         \/ call[c].at = "stop" /\ commands' = [commands EXCEPT ![call[c].obj] = @ - 1]
  PROVE  Balance'
<1> SUFFICES ASSUME NEW o \in Object
             PROVE  (commands[o] + Pending("start", o) - Pending("stop", o))' =
                        IF m_rangingActive[o] THEN 1 ELSE 0
  BY DEF Balance
<1>1. call' = [call EXCEPT ![c] = r] /\ r.at # "start" /\ r.at # "stop"
  OBVIOUS
<1>2. /\ commands[o] \in Int /\ Pending("start", o) \in Nat /\ Pending("stop", o) \in Nat
      /\ call[c].obj \in Object /\ commands \in [Object -> Int]
  BY IssuingFinite DEF TInv, TypeOK, CallShape
<1>3. commands[o] + Pending("start", o) - Pending("stop", o) =
         IF m_rangingActive[o] THEN 1 ELSE 0
  BY DEF Balance
<1>4. CASE call[c].at = "start"
  <2>1. commands' = [commands EXCEPT ![call[c].obj] = @ + 1]
    BY <1>4
  <2>2. Pending("start", o)' =
           IF call[c].obj = o THEN Pending("start", o) - 1 ELSE Pending("start", o)
    BY ONLY TInv, c \in Caller, <1>1, <1>4, OneLess
  <2>3. Pending("stop", o)' = Pending("stop", o)
    BY ONLY TInv, c \in Caller, <1>1, <1>4, SamePending, "start" # "stop"
  <2>4. QED
    BY <1>2, <1>3, <2>1, <2>2, <2>3
<1>5. CASE call[c].at = "stop"
  <2>1. commands' = [commands EXCEPT ![call[c].obj] = @ - 1]
    BY <1>5
  <2>2. Pending("stop", o)' =
           IF call[c].obj = o THEN Pending("stop", o) - 1 ELSE Pending("stop", o)
    BY ONLY TInv, c \in Caller, <1>1, <1>5, OneLess
  <2>3. Pending("start", o)' = Pending("start", o)
    BY ONLY TInv, c \in Caller, <1>1, <1>5, SamePending, "stop" # "start"
  <2>4. QED
    BY <1>2, <1>3, <2>1, <2>2, <2>3
<1>6. QED
  BY <1>4, <1>5

\* The flag is exchanged and the command begins.
LEMMA Exchanged ==
  ASSUME TInv, Balance, NEW c \in Caller, NEW o \in Object,
         StartRanging(c, o) \/ StopRanging(c, o)
  PROVE  Balance'
<1> SUFFICES ASSUME NEW p \in Object
             PROVE  (commands[p] + Pending("start", p) - Pending("stop", p))' =
                        (IF m_rangingActive[p] THEN 1 ELSE 0)'
  BY DEF Balance
<1>1. /\ commands[p] \in Int /\ Pending("start", p) \in Nat /\ Pending("stop", p) \in Nat
      /\ m_rangingActive \in [Object -> BOOLEAN] /\ call[c].at = "idle"
      /\ UNCHANGED commands
  BY IssuingFinite DEF TInv, TypeOK, StartRanging, StopRanging, CanCall
<1>2. commands[p] + Pending("start", p) - Pending("stop", p) =
         IF m_rangingActive[p] THEN 1 ELSE 0
  BY DEF Balance
<1>3. ASSUME NEW at \in Stage, call' = [call EXCEPT ![c] = [Idle EXCEPT !.at = at, !.obj = o]]
      PROVE  \E r : call' = [call EXCEPT ![c] = r] /\ r.at = at /\ r.obj = o
  <2>1. /\ [Idle EXCEPT !.at = at, !.obj = o].at = at
        /\ [Idle EXCEPT !.at = at, !.obj = o].obj = o
    BY DEF Idle
  <2>2. QED
    BY <1>3, <2>1
<1>4. CASE StartRanging(c, o)
  <2>1. PICK r : call' = [call EXCEPT ![c] = r] /\ r.at = "start" /\ r.obj = o
    BY <1>3, <1>4 DEF StartRanging, Stage
  <2>2. Pending("start", p)' = IF o = p THEN Pending("start", p) + 1 ELSE Pending("start", p)
    <3>1. /\ \A d \in Caller \ {c} : call'[d] = call[d]
          /\ call[c].at # "start" /\ call'[c].at = "start" /\ call'[c].obj = o
      BY <1>1, <2>1 DEF TInv, TypeOK
    <3>2. QED
      BY <3>1, OneMore
  <2>3. Pending("stop", p)' = Pending("stop", p)
    BY <1>1, <2>1, SamePending
  <2>4. m_rangingActive'[p] = (IF p = o THEN TRUE ELSE m_rangingActive[p]) /\ ~m_rangingActive[o]
    BY <1>1, <1>4 DEF StartRanging
  <2>5. QED
    BY <1>1, <1>2, <2>1, <2>2, <2>3, <2>4
<1>5. CASE StopRanging(c, o)
  <2>1. PICK r : call' = [call EXCEPT ![c] = r] /\ r.at = "stop" /\ r.obj = o
    BY <1>3, <1>5 DEF StopRanging, Stage
  <2>2. Pending("stop", p)' = IF o = p THEN Pending("stop", p) + 1 ELSE Pending("stop", p)
    <3>1. /\ \A d \in Caller \ {c} : call'[d] = call[d]
          /\ call[c].at # "stop" /\ call'[c].at = "stop" /\ call'[c].obj = o
      BY <1>1, <2>1 DEF TInv, TypeOK
    <3>2. QED
      BY <3>1, OneMore
  <2>3. Pending("start", p)' = Pending("start", p)
    BY <1>1, <2>1, SamePending
  <2>4. m_rangingActive'[p] = (IF p = o THEN FALSE ELSE m_rangingActive[p]) /\ m_rangingActive[o]
    BY <1>1, <1>5 DEF StopRanging
  <2>5. QED
    BY <1>1, <1>2, <2>1, <2>2, <2>3, <2>4
<1>6. QED
  BY <1>4, <1>5

\* The last reference is dropped when nobody is about to use the object.
LEMMA Released ==
  ASSUME TInv, Balance, NEW c \in Caller, NEW o \in Object, Release(c, o)
  PROVE  Balance'
<1>1. CASE Owners(o) = {c}
  <2>1. call[c].at = "idle" /\ UNCHANGED call
    BY DEF Release, CanCall
  <2>2. Issuing("start", o)' = {} /\ Issuing("stop", o)' = {}
    BY <1>1, <2>1 DEF Issuing, Owners
  <2>3. Pending("start", o)' = 0 /\ Pending("stop", o)' = 0
    BY <2>2, FS_EmptySet DEF Pending
  <2>4. \A p \in Object : /\ Pending("start", p)' = Pending("start", p)
                          /\ Pending("stop", p)' = Pending("stop", p)
    BY <2>1 DEF Pending, Issuing
  <2>5. /\ m_rangingActive' = [m_rangingActive EXCEPT ![o] = FALSE]
        /\ commands' = [commands EXCEPT ![o] = 0]
    BY <1>1 DEF Release
  <2>6. m_rangingActive \in [Object -> BOOLEAN] /\ commands \in [Object -> Int]
    BY DEF TInv, TypeOK
  <2>7. QED
    BY <2>3, <2>4, <2>5, <2>6 DEF Balance
<1>2. CASE Owners(o) # {c}
  BY <1>2, SameAll DEF Release
<1>3. QED
  BY <1>1, <1>2

LEMMA NextBalance == TInv /\ Balance /\ [SessionNext]_sessionVars => Balance'
<1> SUFFICES ASSUME TInv, Balance, [SessionNext]_sessionVars PROVE Balance'
  OBVIOUS
<1>0. Idle.at = "idle"
  BY DEF Idle
<1>1. ASSUME NEW c \in Caller, Command(c) \/ IoctlFails(c) PROVE Balance'
  <2>1. PICK r : call' = [call EXCEPT ![c] = r] /\ r.at \in {"idle", "stopped"}
    BY <1>0, <1>1, CommandGoesOn DEF IoctlFails, Returns
  <2>2. CASE call[c].at \in {"start", "stop"}
    BY <1>1, <2>1, <2>2, Issued DEF Command, IoctlFails, hostVars
  <2>3. CASE call[c].at \notin {"start", "stop"}
    BY <1>1, <2>1, <2>3, SameBalance DEF Command, IoctlFails, hostVars
  <2>4. QED
    BY <2>2, <2>3
<1>2. ASSUME NEW c \in Caller, GetSession(c) PROVE Balance'
  <2>1. CASE UNCHANGED call
    BY <1>2, <2>1, SameAll DEF GetSession
  <2>2. CASE Goes(c, "resolve")
    <3>1. [call[c] EXCEPT !.at = "resolve"].at = "resolve"
      BY DEF TInv, TypeOK, CallRecord
    <3>2. QED
      BY <1>2, <2>2, <3>1, SameBalance DEF GetSession, Goes
  <2>3. QED
    BY <1>2, <2>1, <2>2 DEF GetSession
<1>3. ASSUME NEW c \in Caller, ResolveSession(c) \/ CreateSession(c) PROVE Balance'
  BY <1>0, <1>3, SameBalance
  DEF ResolveSession, CreateSession, Construct, Returns, Idle, hostVars
<1>4. ASSUME NEW c \in Caller,
             \/ InsertResolved(c) \/ InsertCreated(c)
             \/ SetParametersDone(c) \/ SessionIdle(c) \/ SessionRemove(c)
      PROVE  Balance'
  BY <1>0, <1>4, SameBalance
  DEF InsertResolved, InsertCreated, SetParametersDone, SessionIdle, SessionRemove,
      Returns, hostVars
<1>5. ASSUME NEW c \in Caller, SessionInitialize(c) \/ SetParameters(c) \/ ReadControlees(c)
      PROVE  Balance'
  <2>1. call[c] \in CallRecord
    BY DEF TInv, TypeOK
  <2>2. PICK r : call' = [call EXCEPT ![c] = r] /\ r.at \in {"set", "insert", "idle"}
    BY <1>0, <1>5, <2>1
    DEF SessionInitialize, SetParameters, ReadControlees, Goes, Returns, CallRecord
  <2>3. call[c].at \notin {"start", "stop"} /\ UNCHANGED <<m_rangingActive, commands>>
    BY <1>5 DEF SessionInitialize, SetParameters, ReadControlees, hostVars
  <2>4. QED
    BY <2>2, <2>3, SameBalance
<1>6. ASSUME NEW c \in Caller, NEW o \in Object,
             \/ Destroy(c, o)
             \/ \E xs \in Configured : Configure(c, o, xs)
             \/ \E a \in Address : TryAddControlee(c, o, a)
      PROVE  Balance'
  BY <1>6, SameBalance
  DEF Destroy, Configure, TryAddControlee, GetParametersSize, CanCall, Idle, hostVars
<1>7. CASE UNCHANGED sessionVars
  BY <1>7, SameAll DEF sessionVars, hostVars
<1>8. QED
  BY <1>1, <1>2, <1>3, <1>4, <1>5, <1>6, <1>7, Exchanged, Released DEF SessionNext

\* For any number of clients that start and stop ranging at once, with any
\* commands failing, an object issues as many starts as stops, or one more
\* while its flag is set: the exchange decides who issues a command.
THEOREM CommandsMatchFlagHolds == SessionSpec => []CommandsMatchFlag
  BY InitTInv, NextTInv, InitBalance, NextBalance, BalanceMatches, PTL DEF SessionSpec

-----------------------------------------------------------------------------
(* AddedKept.                                                              *)

\* Is the client adding a controlee?
Adding(c) == call[c].controlee # None

\* A call that adds holds the gate of an object that its client refers to.
Holding == \A c \in Caller :
    Adding(c) => call[c].at \in {"read", "set", "insert"} /\ call[c].obj \in held[c]

\* While the clients share one object, its gate admits one such call.
OneAddition == ~replaced => \A c, d \in Caller : Adding(c) /\ Adding(d) => c = d

Gate == SharedObject /\ Holding /\ OneAddition

LEMMA IdleIs == Idle.at = "idle" /\ Idle.controlee = None
  BY DEF Idle

\* A call that goes on, ends, or begins without a controlee to add.
LEMMA GateKept ==
  ASSUME TInv, Holding, OneAddition, NEW c \in Caller, NEW r,
         call' = [call EXCEPT ![c] = r],
         \/ r.controlee = None
         \/ /\ r.controlee = call[c].controlee /\ r.obj = call[c].obj
            /\ r.at \in {"read", "set", "insert"},
         \A d \in Caller : held[d] \subseteq held'[d], replaced => replaced'
  PROVE  Holding' /\ OneAddition'
<1>1. /\ call'[c] = r
      /\ \A d \in Caller : d # c => call'[d] = call[d]
  BY DEF TInv, TypeOK
<1>2. \A d \in Caller : Adding(d)' => Adding(d)
  BY <1>1 DEF Adding
<1>3. OneAddition'
  BY <1>2 DEF OneAddition
<1>4. Holding'
  BY <1>1 DEF Holding, Adding
<1>5. QED
  BY <1>3, <1>4

\* A call in progress whose stage changes keeps its object and its controlee.
LEMMA GoesOn ==
  ASSUME TInv, NEW c \in Caller, NEW at, Goes(c, at)
  PROVE  \E r : /\ call' = [call EXCEPT ![c] = r]
                /\ r.controlee = call[c].controlee /\ r.obj = call[c].obj /\ r.at = at
<1> DEFINE r == [call[c] EXCEPT !.at = at]
<1>1. call' = [call EXCEPT ![c] = r] /\ call[c] \in CallRecord
  BY DEF Goes, TInv, TypeOK
<1>2. r.controlee = call[c].controlee /\ r.obj = call[c].obj /\ r.at = at
  BY <1>1 DEF CallRecord
<1> HIDE DEF r
<1>3. QED
  BY <1>1, <1>2

\* The request that sets the parameters holds the converted list from then on.
LEMMA Extracted ==
  ASSUME TInv, NEW c \in Caller, NEW xs,
         call' = [call EXCEPT ![c].at = "insert", ![c].inc = session, ![c].addresses = xs]
  PROVE  \E r : /\ call' = [call EXCEPT ![c] = r]
                /\ r.controlee = call[c].controlee /\ r.obj = call[c].obj
                /\ r.at = "insert" /\ r.inc = session /\ r.addresses = xs
<1> DEFINE r == [call[c] EXCEPT !.at = "insert", !.inc = session, !.addresses = xs]
<1>1. call' = [call EXCEPT ![c] = r] /\ call[c] \in CallRecord
  BY DEF TInv, TypeOK
<1>2. /\ r.controlee = call[c].controlee /\ r.obj = call[c].obj
      /\ r.at = "insert" /\ r.inc = session /\ r.addresses = xs
  BY <1>1 DEF CallRecord
<1> HIDE DEF r
<1>3. QED
  BY <1>1, <1>2

LEMMA ReadExtended ==
  ASSUME TInv, NEW c \in Caller, NEW xs,
         call' = [call EXCEPT ![c].at = "set", ![c].size = 0, ![c].addresses = xs]
  PROVE  \E r : /\ call' = [call EXCEPT ![c] = r]
                /\ r.controlee = call[c].controlee /\ r.obj = call[c].obj
                /\ r.at = "set" /\ r.addresses = xs
<1> DEFINE r == [call[c] EXCEPT !.at = "set", !.size = 0, !.addresses = xs]
<1>1. call' = [call EXCEPT ![c] = r] /\ call[c] \in CallRecord
  BY DEF TInv, TypeOK
<1>2. /\ r.controlee = call[c].controlee /\ r.obj = call[c].obj
      /\ r.at = "set" /\ r.addresses = xs
  BY <1>1 DEF CallRecord
<1> HIDE DEF r
<1>3. QED
  BY <1>1, <1>2

LEMMA NextGate == TInv /\ Gate /\ [SessionNext]_sessionVars => Gate'
<1> SUFFICES ASSUME TInv, Gate, [SessionNext]_sessionVars PROVE Holding' /\ OneAddition'
  BY NextShared DEF Gate
<1> USE DEF Gate
<1>0. held \in [Caller -> SUBSET Object] /\ call \in [Caller -> CallRecord]
  BY DEF TInv, TypeOK
<1>1. ASSUME NEW c \in Caller, GetSession(c) PROVE Holding' /\ OneAddition'
  <2>1. (\A d \in Caller : held[d] \subseteq held'[d]) /\ call[c].controlee = None
        /\ replaced' = replaced
    BY <1>0, <1>1 DEF GetSession, Holding, Adding
  <2>2. CASE UNCHANGED call
    BY <2>1, <2>2 DEF Holding, OneAddition, Adding
  <2>3. CASE Goes(c, "resolve")
    <3>1. PICK r : call' = [call EXCEPT ![c] = r] /\ r.controlee = call[c].controlee
      BY <2>3, GoesOn
    <3>2. QED
      BY <2>1, <3>1, GateKept
  <2>4. QED
    BY <1>1, <2>2, <2>3 DEF GetSession
<1>2. ASSUME NEW c \in Caller,
             \/ ResolveSession(c) \/ CreateSession(c)
             \/ InsertResolved(c) \/ InsertCreated(c)
             \/ SetParametersDone(c) \/ SessionRemove(c)
             \/ Command(c) \/ SessionIdle(c) \/ IoctlFails(c)
             \/ \E o \in Object :
                   \/ StartRanging(c, o) \/ StopRanging(c, o) \/ Destroy(c, o)
                   \/ \E xs \in Configured : Configure(c, o, xs)
      PROVE  Holding' /\ OneAddition'
  <2>1. PICK r : call' = [call EXCEPT ![c] = r] /\ r.controlee = None
    <3>1. CASE Returns(c)
      BY <3>1, IdleIs DEF Returns
    <3>2. CASE \E o \in Object, at \in Stage : Construct(c, o, at)
      <4>1. PICK o \in Object, at \in Stage : Construct(c, o, at)
        BY <3>2
      <4>2. [Idle EXCEPT !.at = at, !.obj = o].controlee = None
        BY DEF Idle
      <4>3. QED
        BY <4>1, <4>2 DEF Construct
    <3>3. CASE \E o \in Object :
                 \/ StartRanging(c, o) \/ StopRanging(c, o) \/ Destroy(c, o)
                 \/ \E xs \in Configured : Configure(c, o, xs)
      <4>1. PICK o \in Object :
               \/ StartRanging(c, o) \/ StopRanging(c, o) \/ Destroy(c, o)
               \/ \E xs \in Configured : Configure(c, o, xs)
        BY <3>3
      <4>2. CASE StartRanging(c, o) \/ StopRanging(c, o)
        <5>1. \A at : [Idle EXCEPT !.at = at, !.obj = o].controlee = None
          BY DEF Idle
        <5>2. QED
          BY <4>2, <5>1 DEF StartRanging, StopRanging
      <4>3. CASE Destroy(c, o)
        <5>1. [Idle EXCEPT !.at = "destroy", !.obj = o, !.inc = session].controlee = None
          BY DEF Idle
        <5>2. QED
          BY <4>3, <5>1 DEF Destroy
      <4>4. CASE \E xs \in Configured : Configure(c, o, xs)
        <5>1. PICK xs \in Configured : Configure(c, o, xs)
          BY <4>4
        <5>2. [Idle EXCEPT !.at = "initialize", !.obj = o, !.inc = count + 1,
                           !.addresses = xs].controlee = None
          BY DEF Idle
        <5>3. QED
          BY <5>1, <5>2 DEF Configure
      <4>5. QED
        BY <4>1, <4>2, <4>3, <4>4
    <3>4. CASE Command(c)
      BY <3>4, CommandGoesOn
    <3>5. QED
      BY <1>2, <3>1, <3>2, <3>3, <3>4
      DEF ResolveSession, CreateSession, InsertResolved, InsertCreated, SetParametersDone,
          SessionRemove, SessionIdle, IoctlFails, Stage
  <2>2. (\A d \in Caller : held[d] \subseteq held'[d]) /\ (replaced => replaced')
    <3>1. CASE InsertResolved(c) \/ InsertCreated(c)
      <4>1. PICK o : held' = [held EXCEPT ![c] = @ \cup {o}]
        BY <3>1 DEF InsertResolved, InsertCreated
      <4>2. replaced => replaced'
        BY <3>1 DEF InsertResolved, InsertCreated
      <4>3. QED
        BY <1>0, <4>1, <4>2
    <3>2. CASE ~(InsertResolved(c) \/ InsertCreated(c))
      <4>1. UNCHANGED <<held, replaced>>
        BY <1>2, <3>2
        DEF ResolveSession, CreateSession, SetParametersDone, SessionRemove, Command,
            SessionIdle, IoctlFails, StartRanging, StopRanging, Destroy, Configure, hostVars
      <4>2. QED
        BY <4>1
    <3>3. QED
      BY <3>1, <3>2
  <2>3. QED
    BY <2>1, <2>2, GateKept
<1>3. ASSUME NEW c \in Caller, SessionInitialize(c) \/ SetParameters(c) \/ ReadControlees(c)
      PROVE  Holding' /\ OneAddition'
  <2>1. (\A d \in Caller : held[d] \subseteq held'[d]) /\ (replaced => replaced')
    BY <1>3 DEF SessionInitialize, SetParameters, ReadControlees, hostVars
  <2>2. PICK r : /\ call' = [call EXCEPT ![c] = r]
                 /\ \/ r.controlee = None
                    \/ /\ r.controlee = call[c].controlee /\ r.obj = call[c].obj
                       /\ r.at \in {"read", "set", "insert"}
    <3>1. CASE Returns(c)
      BY <3>1, IdleIs DEF Returns
    <3>2. CASE Goes(c, "set")
      BY <3>2, GoesOn
    <3>3. CASE \E xs : call' = [call EXCEPT ![c].at = "insert", ![c].inc = session,
                                           ![c].addresses = xs]
      <4>1. PICK xs : call' = [call EXCEPT ![c].at = "insert", ![c].inc = session,
                                           ![c].addresses = xs]
        BY <3>3
      <4>2. PICK r : /\ call' = [call EXCEPT ![c] = r]
                     /\ r.controlee = call[c].controlee /\ r.obj = call[c].obj
                     /\ r.at = "insert"
        BY <4>1, Extracted
      <4>3. QED
        BY <4>2
    <3>4. CASE \E xs : call' = [call EXCEPT ![c].at = "set", ![c].size = 0,
                                           ![c].addresses = xs]
      <4>1. PICK xs : call' = [call EXCEPT ![c].at = "set", ![c].size = 0,
                                           ![c].addresses = xs]
        BY <3>4
      <4>2. \E r : /\ call' = [call EXCEPT ![c] = r]
                   /\ r.controlee = call[c].controlee /\ r.obj = call[c].obj
                   /\ r.at = "set" /\ r.addresses = xs
        BY ONLY TInv, c \in Caller, <4>1, ReadExtended
      <4>3. QED
        BY <4>2
    <3>5. QED
      BY <1>3, <3>1, <3>2, <3>3, <3>4
      DEF SessionInitialize, SetParameters, ReadControlees
  <2>3. QED
    BY <2>1, <2>2, GateKept
<1>4. ASSUME NEW c \in Caller, NEW o \in Object, Release(c, o)
      PROVE  Holding' /\ OneAddition'
  <2>1. /\ UNCHANGED <<call, replaced>> /\ call[c].at = "idle"
        /\ \A d \in Caller : d # c => held'[d] = held[d]
    BY <1>0, <1>4 DEF Release, CanCall
  <2>2. QED
    BY <2>1 DEF Holding, OneAddition, Adding
<1>5. ASSUME NEW c \in Caller, NEW o \in Object, NEW a \in Address, TryAddControlee(c, o, a)
      PROVE  Holding' /\ OneAddition'
  <2>1. /\ UNCHANGED <<held, replaced, m_sessions>> /\ o \in held[c]
        /\ ~\E d \in Caller : call[d].obj = o /\ call[d].controlee # None
    BY <1>5 DEF TryAddControlee, CanCall, hostVars
  <2>2. /\ call'[c].at = "read" /\ call'[c].obj = o
        /\ \A d \in Caller : d # c => call'[d] = call[d]
    BY <1>0, <1>5 DEF TryAddControlee, GetParametersSize, Idle
  <2>3. Holding'
    BY <2>1, <2>2 DEF Holding, Adding
  <2>4. ~replaced => \A d \in Caller : ~Adding(d)
    <3>1. SUFFICES ASSUME ~replaced, NEW d \in Caller, Adding(d) PROVE FALSE
      OBVIOUS
    <3>2. held[c] \subseteq {m_sessions} /\ held[d] \subseteq {m_sessions}
      BY <3>1 DEF SharedObject
    <3>3. call[d].obj = o
      BY <2>1, <3>1, <3>2 DEF Holding
    <3>4. QED
      BY <2>1, <3>1, <3>3 DEF Adding
  <2>5. OneAddition'
    BY <2>1, <2>2, <2>4 DEF OneAddition, Adding
  <2>6. QED
    BY <2>3, <2>5
<1>6. CASE UNCHANGED sessionVars
  BY <1>6 DEF sessionVars, hostVars, Holding, OneAddition, Adding
<1>7. QED
  BY <1>1, <1>2, <1>3, <1>4, <1>5, <1>6 DEF SessionNext

\* A list has them all, or has outgrown the conversion.
Covers(xs, ys) == ys \subseteq xs \/ Stray \cap xs # {}

\* The list that the driver has, ...
KeptThere == addresses # Unset => Covers(addresses, added)

\* ... the request that will insert one if it has none, ...
KeptBetween ==
    addresses = Unset /\ added # {} =>
        \E c \in Caller : call[c].at = "insert" /\ call[c].inc = session

\* ... and the list on its way there.
KeptAhead == \A c \in Caller :
    Adding(c) /\ call[c].at \in {"set", "insert"} =>
        call[c].addresses # Unset
            /\ Covers(call[c].addresses, added \cup {call[c].controlee})

Kept == ~replaced => KeptThere /\ KeptBetween /\ KeptAhead

LEMMA ConvertedCovers ==
  ASSUME NEW xs, NEW ys \in Converted(xs), NEW zs, Covers(xs, zs)
  PROVE  Covers(ys, zs)
<1>1. CASE Cardinality(xs) <= Copied
  BY <1>1 DEF Converted
<1>2. CASE ~(Cardinality(xs) <= Copied)
  <2>1. ys \in {S \cup G : S \in kSubset(Copied, xs), G \in (SUBSET Stray) \ {{}}}
    BY <1>2 DEF Converted
  <2>2. PICK S \in kSubset(Copied, xs), G \in (SUBSET Stray) \ {{}} : ys = S \cup G
    BY <2>1
  <2>3. QED
    BY <2>2 DEF Covers
<1>3. QED
  BY <1>1, <1>2

LEMMA KeptIsEnough == Kept => AddedKept
<1> SUFFICES ASSUME Kept, Settled, ~replaced
             PROVE  added \subseteq Controlees \/ Stray \cap Controlees # {}
  BY DEF AddedKept
<1>1. CASE addresses = Unset
  BY <1>1 DEF Kept, KeptBetween, Settled
<1>2. CASE addresses # Unset
  BY <1>2 DEF Kept, KeptThere, Covers, Controlees
<1>3. QED
  BY <1>1, <1>2

LEMMA InitKept == SessionInit => Gate /\ Kept
  BY IdleIs DEF SessionInit, Gate, SharedObject, Holding, OneAddition, Adding, Kept, KeptThere,
                KeptBetween, KeptAhead, Covers

\* A call that neither writes the list nor has one to write.
LEMMA KeptAside ==
  ASSUME TInv, Kept, ~replaced', replaced => replaced',
         UNCHANGED <<session, addresses, added>>,
         NEW c \in Caller, call[c].at # "insert",
         NEW r, call' = [call EXCEPT ![c] = r],
         \/ r.controlee = None
         \/ r.at \notin {"set", "insert"}
         \/ /\ r.addresses # Unset
            /\ Covers(r.addresses, added \cup {r.controlee})
  PROVE  Kept'
<1>0. KeptThere /\ KeptBetween /\ KeptAhead
  BY DEF Kept
<1>1. /\ call'[c] = r
      /\ \A d \in Caller : d # c => call'[d] = call[d]
  BY DEF TInv, TypeOK
<1>2. KeptThere'
  BY <1>0 DEF KeptThere
<1>3. KeptBetween'
  BY <1>0, <1>1 DEF KeptBetween
<1>4. KeptAhead'
  BY <1>0, <1>1 DEF KeptAhead, Adding
<1>5. QED
  BY <1>2, <1>3, <1>4 DEF Kept

\* The driver's list is extracted: the request will insert its own.
LEMMA KeptExtracted ==
  ASSUME TInv, Gate, Kept, NEW c \in Caller, SetParameters(c)
  PROVE  Kept'
<1>0. ~replaced' => ~replaced /\ KeptThere /\ KeptBetween /\ KeptAhead
  BY DEF SetParameters, Kept
<1> SUFFICES ASSUME ~replaced' PROVE Kept'
  BY DEF Kept
<1>1. CASE Returns(c) /\ UNCHANGED tableVars
  BY <1>0, <1>1, IdleIs, KeptAside DEF SetParameters, Returns, tableVars
<1>2. ASSUME NEW xs \in Converted(call[c].addresses),
             call' = [call EXCEPT ![c].at = "insert", ![c].inc = session,
                                  ![c].addresses = xs],
             ExtractParameters(call[c].controlee = None)
      PROVE  Kept'
  <2>1. PICK r : /\ call' = [call EXCEPT ![c] = r]
                 /\ r.controlee = call[c].controlee /\ r.obj = call[c].obj
                 /\ r.at = "insert" /\ r.inc = session /\ r.addresses = xs
    BY <1>2, Extracted
  <2>2. /\ call'[c] = r
        /\ \A d \in Caller : d # c => call'[d] = call[d]
    BY <2>1 DEF TInv, TypeOK
  <2>3. addresses' = Unset /\ session' = session /\ (added' = added \/ added' = {})
    BY <1>2 DEF ExtractParameters
  <2>4. KeptThere' /\ KeptBetween'
    BY <2>1, <2>2, <2>3 DEF KeptThere, KeptBetween
  <2>5. KeptAhead'
    <3>1. SUFFICES ASSUME NEW d \in Caller, Adding(d)', call'[d].at \in {"set", "insert"}
                   PROVE  /\ call'[d].addresses # Unset
                          /\ Covers(call'[d].addresses, added' \cup {call'[d].controlee})
      BY DEF KeptAhead
    <3>2. CASE d = c
      <4>1. /\ call[c].addresses # Unset
            /\ Covers(call[c].addresses, added \cup {call[c].controlee})
        BY <1>0, <1>2, <2>1, <2>2, <3>1, <3>2 DEF KeptAhead, Adding, SetParameters
      <4>2. xs # Unset /\ Covers(xs, added \cup {call[c].controlee})
        BY <1>2, <4>1, ConvertedTyped, ConvertedCovers DEF TInv, TypeOK, CallRecord
      <4>3. QED
        BY <2>1, <2>2, <2>3, <3>2, <4>2 DEF Covers
    <3>3. CASE d # c
      <4>1. /\ call[d].addresses # Unset
            /\ Covers(call[d].addresses, added \cup {call[d].controlee})
        BY <1>0, <2>2, <3>1, <3>3 DEF KeptAhead, Adding
      <4>2. QED
        BY <2>2, <2>3, <3>3, <4>1 DEF Covers
    <3>4. QED
      BY <3>2, <3>3
  <2>6. QED
    BY <2>4, <2>5 DEF Kept
<1>3. QED
  BY <1>1, <1>2 DEF SetParameters

\* A list is inserted, unless another was: that of the one addition there is, or
\* that of a configuration.
LEMMA KeptInserted ==
  ASSUME TInv, Gate, Kept, NEW c \in Caller, SetParametersDone(c)
  PROVE  Kept'
<1> SUFFICES ASSUME ~replaced' PROVE Kept'
  BY DEF Kept
<1>0. ~replaced /\ KeptThere /\ KeptBetween /\ KeptAhead
  BY DEF SetParametersDone, Kept
<1>1. /\ call'[c] = Idle
      /\ \A d \in Caller : d # c => call'[d] = call[d]
      /\ call[c].at = "insert" /\ session' = session
      /\ call[c].controlee \in Address \cup {None}
  BY DEF SetParametersDone, Returns, InsertParameters, TInv, TypeOK, CallRecord
<1>2. CASE call[c].inc = session /\ addresses = Unset
  <2>1. /\ addresses' = call[c].addresses
        /\ ~Adding(c) => added' = {}
        /\ Adding(c) => added' = added \cup {call[c].controlee}
    BY <1>2 DEF SetParametersDone, InsertParameters, Adding
  <2>2. CASE ~Adding(c)
    <3>1. added' = {}
      BY <2>1, <2>2
    <3>2. KeptThere' /\ KeptBetween'
      BY <3>1 DEF KeptThere, KeptBetween, Covers
    <3>3. KeptAhead'
      BY <1>0, <1>1, <3>1, IdleIs DEF KeptAhead, Adding, Covers
    <3>4. QED
      BY <3>2, <3>3 DEF Kept
  <2>3. CASE Adding(c)
    <3>1. call[c].addresses # Unset /\ Covers(call[c].addresses, added')
      BY <1>0, <1>1, <2>1, <2>3 DEF KeptAhead
    <3>2. KeptThere' /\ KeptBetween'
      BY <2>1, <3>1 DEF KeptThere, KeptBetween
    <3>3. \A d \in Caller : ~Adding(d)'
      BY <1>0, <1>1, <2>3, IdleIs DEF Gate, OneAddition, Adding
    <3>4. KeptAhead'
      BY <3>3 DEF KeptAhead
    <3>5. QED
      BY <3>2, <3>4 DEF Kept
  <2>4. QED
    BY <2>2, <2>3
<1>3. CASE ~(call[c].inc = session /\ addresses = Unset)
  <2>1. UNCHANGED <<addresses, added>>
    BY <1>3 DEF SetParametersDone, InsertParameters
  <2>2. KeptThere'
    BY <1>0, <2>1 DEF KeptThere
  <2>3. KeptBetween'
    BY <1>0, <1>1, <1>3, <2>1 DEF KeptBetween
  <2>4. KeptAhead'
    BY <1>0, <1>1, <2>1, IdleIs DEF KeptAhead, Adding
  <2>5. QED
    BY <2>2, <2>3, <2>4 DEF Kept
<1>4. QED
  BY <1>2, <1>3

\* The session begins, or ends, with no controlee.
LEMMA KeptEmptied ==
  ASSUME TInv, Kept, ~replaced', replaced => replaced',
         NEW c \in Caller, NEW r, call' = [call EXCEPT ![c] = r], r.controlee = None,
         addresses' = Unset, added' = {}
  PROVE  Kept'
<1>0. KeptAhead
  BY DEF Kept
<1>1. /\ call'[c] = r
      /\ \A d \in Caller : d # c => call'[d] = call[d]
  BY DEF TInv, TypeOK
<1>2. KeptAhead'
  BY <1>0, <1>1 DEF KeptAhead, Adding, Covers
<1>3. QED
  BY <1>2 DEF Kept, KeptThere, KeptBetween

LEMMA KeptRead ==
  ASSUME TInv, Gate, Kept, NEW c \in Caller, ReadControlees(c)
  PROVE  Kept'
<1> SUFFICES ASSUME ~replaced' PROVE Kept'
  BY DEF Kept
<1>0. ~replaced /\ KeptThere /\ call[c].at = "read"
      /\ UNCHANGED <<session, addresses, added, replaced>>
  BY DEF ReadControlees, Kept, tableVars
<1>1. CASE Returns(c)
  BY <1>0, <1>1, IdleIs, KeptAside DEF Returns
<1>2. ASSUME NEW xs \in Converted(addresses), Readable(c),
             call' = [call EXCEPT ![c].at = "set", ![c].size = 0,
                                  ![c].addresses = xs \cup {call[c].controlee}]
      PROVE  Kept'
  <2> DEFINE ys == xs \cup {call[c].controlee}
  <2>1. \E r : /\ call' = [call EXCEPT ![c] = r]
               /\ r.controlee = call[c].controlee /\ r.obj = call[c].obj
               /\ r.at = "set" /\ r.addresses = ys
    <3> HIDE DEF ys
    <3>1. call' = [call EXCEPT ![c].at = "set", ![c].size = 0, ![c].addresses = ys]
      BY <1>2 DEF ys
    <3>2. QED
      BY ONLY TInv, c \in Caller, <3>1, ReadExtended
  <2>2. Covers(addresses, added) /\ addresses # Unset
    BY <1>0, <1>2 DEF KeptThere, Readable
  <2>3. Covers(xs, added) /\ xs \subseteq Address \cup Stray
    <3>1. xs \in AddressList /\ xs # Unset
      BY <1>2, <2>2, ConvertedTyped DEF TInv, TypeOK
    <3>2. QED
      BY <1>2, <2>2, <3>1, ConvertedCovers DEF AddressList
  <2>4. Covers(ys, added \cup {call[c].controlee})
    BY <2>3 DEF Covers
  <2>5. call[c].controlee \in Address
    BY <1>0 DEF TInv, CallShape
  <2>6. ys # Unset
    BY <2>3, <2>5, SessionAssumption DEF Unset
  <2> HIDE DEF ys
  <2>7. QED
    BY <1>0, <2>1, <2>4, <2>6, KeptAside
<1>3. QED
  BY <1>1, <1>2 DEF ReadControlees

LEMMA NextKept == TInv /\ Gate /\ Kept /\ [SessionNext]_sessionVars => Kept'
<1> SUFFICES ASSUME TInv, Gate, Kept, [SessionNext]_sessionVars, ~replaced' PROVE Kept'
  BY DEF Kept
<1>1. ASSUME NEW c \in Caller,
             \/ GetSession(c) \/ ResolveSession(c) \/ InsertResolved(c) \/ CreateSession(c)
             \/ InsertCreated(c) \/ Command(c) \/ SessionIdle(c) \/ IoctlFails(c)
             \/ SessionInitialize(c)
             \/ \E o \in Object : StartRanging(c, o) \/ StopRanging(c, o) \/ Destroy(c, o)
      PROVE  Kept'
  <2>1. UNCHANGED <<session, addresses, added>> /\ (replaced => replaced')
        /\ call[c].at # "insert"
    <3>1. CASE InsertCreated(c)
      BY <3>1 DEF InsertCreated, tableVars
    <3>2. CASE GetSession(c) \/ ResolveSession(c) \/ InsertResolved(c) \/ CreateSession(c)
      BY <3>2 DEF GetSession, ResolveSession, InsertResolved, CreateSession, tableVars
    <3>3. CASE Command(c) \/ SessionIdle(c) \/ IoctlFails(c) \/ SessionInitialize(c)
      BY <3>3 DEF Command, SessionIdle, IoctlFails, SessionInitialize, tableVars
    <3>4. CASE \E o \in Object : StartRanging(c, o) \/ StopRanging(c, o) \/ Destroy(c, o)
      BY <3>4 DEF StartRanging, StopRanging, Destroy, CanCall, tableVars
    <3>5. QED
      BY <1>1, <3>1, <3>2, <3>3, <3>4
  <2>2. CASE UNCHANGED call
    BY <2>1, <2>2 DEF Kept, KeptThere, KeptBetween, KeptAhead, Adding
  <2>3. CASE Returns(c)
    BY <2>1, <2>3, IdleIs, KeptAside DEF Returns
  <2>4. CASE \E at : Goes(c, at) /\ call[c].at \in {"idle", "initialize"}
    <3>1. PICK at : Goes(c, at) /\ call[c].at \in {"idle", "initialize"}
      BY <2>4
    <3>2. PICK r : /\ call' = [call EXCEPT ![c] = r]
                   /\ r.controlee = call[c].controlee /\ r.obj = call[c].obj /\ r.at = at
      BY <3>1, GoesOn
    <3>3. r.controlee = None
      BY <3>1, <3>2 DEF Gate, Holding, Adding
    <3>4. QED
      BY <2>1, <3>2, <3>3, KeptAside
  <2>5. CASE \E o \in Object : Destroy(c, o)
    <3>1. PICK o \in Object :
             call' = [call EXCEPT ![c] = [Idle EXCEPT !.at = "destroy", !.obj = o,
                                                      !.inc = session]]
      BY <2>5 DEF Destroy
    <3>2. [Idle EXCEPT !.at = "destroy", !.obj = o, !.inc = session].controlee = None
      BY DEF Idle
    <3>3. QED
      BY <2>1, <3>1, <3>2, KeptAside
  <2>6. CASE \E o \in Object, at \in Stage :
                call' = [call EXCEPT ![c] = [Idle EXCEPT !.at = at, !.obj = o]]
    <3>1. PICK o \in Object, at \in Stage :
             call' = [call EXCEPT ![c] = [Idle EXCEPT !.at = at, !.obj = o]]
      BY <2>6
    <3>2. [Idle EXCEPT !.at = at, !.obj = o].controlee = None
      BY DEF Idle
    <3>3. QED
      BY <2>1, <3>1, <3>2, KeptAside
  <2>7. CASE Command(c)
    BY <2>1, <2>7, CommandGoesOn, KeptAside
  <2>8. QED
    BY <1>1, <2>2, <2>3, <2>4, <2>5, <2>6, <2>7
    DEF GetSession, ResolveSession, InsertResolved, CreateSession, InsertCreated,
        SessionIdle, IoctlFails, SessionInitialize, StartRanging, StopRanging, Construct, Stage
<1>2. ASSUME NEW c \in Caller, SessionRemove(c) PROVE Kept'
  BY <1>2, IdleIs, KeptEmptied DEF SessionRemove, SessionDestroy, Returns
<1>3. ASSUME NEW c \in Caller, NEW o \in Object, NEW xs \in Configured, Configure(c, o, xs)
      PROVE  Kept'
  <2>1. [Idle EXCEPT !.at = "initialize", !.obj = o, !.inc = count + 1,
                     !.addresses = xs].controlee = None
    BY DEF Idle
  <2>2. QED
    BY <1>3, <2>1, KeptEmptied DEF Configure, SessionCreate
<1>4. ASSUME NEW c \in Caller, NEW o \in Object, NEW a \in Address, TryAddControlee(c, o, a)
      PROVE  Kept'
  <2>1. [Idle EXCEPT !.at = "read", !.obj = o, !.controlee = a,
                     !.size = Cardinality(addresses)].at = "read"
    BY DEF Idle
  <2>2. QED
    BY <1>4, <2>1, KeptAside DEF TryAddControlee, GetParametersSize, CanCall, tableVars
<1>5. ASSUME NEW c \in Caller, NEW o \in Object, Release(c, o) PROVE Kept'
  BY <1>5 DEF Release, tableVars, Kept, KeptThere, KeptBetween, KeptAhead, Adding
<1>6. CASE UNCHANGED sessionVars
  BY <1>6 DEF sessionVars, tableVars, Kept, KeptThere, KeptBetween, KeptAhead, Adding
<1>7. QED
  BY <1>1, <1>2, <1>3, <1>4, <1>5, <1>6, KeptExtracted, KeptInserted, KeptRead DEF SessionNext

\* The list of controlees is read, extended and written back in four requests, and a
\* controlee that was set stays in it: the gate admits one addition, and what a
\* configuration or the end of the session takes away it takes from the set as well.
THEOREM AddedKeptHolds == SessionSpec => []AddedKept
  BY InitTInv, NextTInv, InitKept, NextGate, NextKept, KeptIsEnough, PTL DEF SessionSpec

==============================================================================
