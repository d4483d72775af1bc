--------------------------- MODULE TerminalProofs ---------------------------
(***************************************************************************)
(* Proofs about the terminal platform.  The input source and the surface   *)
(* share a loop and a key (KEY_RESIZE) but no state, so each has an        *)
(* inductive invariant of its own, which the steps of the other leave      *)
(* alone.                                                                  *)
(***************************************************************************)
EXTENDS Terminal, SequenceTheorems, TLAPS

-----------------------------------------------------------------------------
(* The loop is made of the steps of its two parts.                         *)

(* Every step of the loop is a step of the input or leaves it alone.       *)
LEMMA InputSteps ==
  [Next]_vars =>
    \/ \E k \in Keys : In!UserPresses(k)
    \/ \E k \in Keys : In!UserHolds(k)
    \/ \E k \in Keys : In!UserReleases(k)
    \/ \E c \in Sizes : In!OtherArrives(c)
    \/ In!BeginInput
    \/ In!PollKey
    \/ In!EndInput
    \/ UNCHANGED inputVars
<1> DEFINE Goal == \/ In!UserActs \/ In!BeginInput \/ In!PollKey \/ In!EndInput
                   \/ UNCHANGED inputVars
<1> SUFFICES ASSUME [Next]_vars PROVE Goal
  BY DEF In!UserActs
<1>1. CASE UserActs
  BY <1>1 DEF UserActs
<1>2. CASE StartInput
  BY <1>2 DEF StartInput
<1>3. CASE ReadKey
  BY <1>3 DEF ReadKey
<1>4. CASE EndInput
  BY <1>4 DEF EndInput
<1>5. CASE PresentFrame
  BY <1>5 DEF PresentFrame
<1>6. CASE UNCHANGED vars
  BY <1>6 DEF vars
<1> QED BY <1>1, <1>2, <1>3, <1>4, <1>5, <1>6 DEF Next

(* Every step of the loop is a step of the surface or leaves it alone.     *)
LEMMA SurfaceSteps ==
  [Next]_vars =>
    \/ \E s \in Sizes : Out!Resize(s)
    \/ \E f \in Frames : Out!Present(f)
    \/ UNCHANGED surfaceVars
<1> DEFINE Goal == \/ \E s \in Sizes : Out!Resize(s)
                   \/ \E f \in Frames : Out!Present(f)
                   \/ UNCHANGED surfaceVars
<1> SUFFICES ASSUME [Next]_vars PROVE Goal
  OBVIOUS
<1>1. CASE UserActs
  BY <1>1 DEF UserActs, surfaceVars
<1>2. CASE StartInput
  BY <1>2 DEF StartInput
<1>3. CASE ReadKey
  BY <1>3 DEF ReadKey, surfaceVars
<1>4. CASE EndInput
  BY <1>4 DEF EndInput
<1>5. CASE PresentFrame
  BY <1>5 DEF PresentFrame
<1>6. CASE UNCHANGED vars
  BY <1>6 DEF vars, surfaceVars
<1> QED BY <1>1, <1>2, <1>3, <1>4, <1>5, <1>6 DEF Next

(* The loop adds no behaviour to its parts: each of them runs in it as its *)
(* own specification says (run_loop.cpp calls pump() and present() in      *)
(* turn, and KEY_RESIZE is the only step of both).                         *)
THEOREM PartsRunAsSpecified == Spec => In!Spec /\ Out!Spec
<1>1. Init => In!Init /\ Out!Init
  BY DEF Init
<1>2. [Next]_vars => [In!Next]_(In!vars)
  <2> SUFFICES ASSUME [Next]_vars PROVE In!Next \/ UNCHANGED In!vars
    OBVIOUS
  <2> QED BY InputSteps DEF In!Next, In!UserActs, inputVars, In!vars, In!config,
          In!user, In!state, In!queue, In!history
<1>3. [Next]_vars => [Out!Next]_(Out!vars)
  BY SurfaceSteps DEF Out!Next, surfaceVars, Out!vars
<1> QED BY <1>1, <1>2, <1>3, PTL DEF Spec, In!Spec, Out!Spec

-----------------------------------------------------------------------------
(* The input: types.                                                       *)

(* The queue has room for one event at least.                              *)
LEMMA CapacityType == Capacity \in Nat \ {0}
BY TerminalAssumption DEF TerminalAssumption, In!InputAssumption

(* What a step of pump()'s loop that reads a key does, apart from the key. *)
LEMMA KeyRead ==
  In!PollKey /\ Head(pending) \in In!KeyEvents =>
    /\ In!Apply(Head(pending)) /\ In!Record(Head(pending))
    /\ arrived' = Append(arrived, Head(pending))
<1> SUFFICES ASSUME In!PollKey, Head(pending) \in In!KeyEvents
             PROVE  Head(pending) \notin Sizes
  BY DEF In!PollKey
<1> QED BY TerminalAssumption DEF TerminalAssumption, In!InputAssumption

(* What it does when it reads a key it does not know.                      *)
LEMMA OtherRead ==
  In!PollKey /\ Head(pending) \notin In!KeyEvents =>
    /\ UNCHANGED <<down, justPressed, justReleased, anyInput>>
    /\ UNCHANGED <<events, dropped, arrived, policy, downBefore>>
BY DEF In!PollKey, In!state, In!queue, In!config

(* The input's part of the type invariant is inductive.                    *)
LEMMA InputTypes ==
  In!TypeOK /\ [Next]_vars => In!TypeOK'
<1> SUFFICES ASSUME In!TypeOK, [Next]_vars PROVE In!TypeOK'
  OBVIOUS
<1> USE DEF In!config, In!user, In!state, In!queue, In!history
<1>1. ASSUME NEW k \in Keys, In!UserPresses(k) PROVE In!TypeOK'
  <2>1. [key |-> k, action |-> "Press"] \in In!KeyEvents
    BY DEF In!KeyEvents
  <2> QED BY <1>1, <2>1 DEF In!TypeOK, In!UserPresses, In!Arrives
<1>2. ASSUME NEW k \in Keys, In!UserHolds(k) PROVE In!TypeOK'
  <2>1. [key |-> k, action |-> IF source = "full" THEN "Repeat" ELSE "Press"]
          \in In!KeyEvents
    BY DEF In!KeyEvents
  <2> QED BY <1>2, <2>1 DEF In!TypeOK, In!UserHolds, In!Arrives
<1>3. ASSUME NEW k \in Keys, In!UserReleases(k) PROVE In!TypeOK'
  <2>1. [key |-> k, action |-> "Release"] \in In!KeyEvents
    BY DEF In!KeyEvents
  <2>2. held' \subseteq Keys
    BY <1>3 DEF In!TypeOK, In!UserReleases
  <2>3. pending' \in Seq(In!KeyEvents \cup Sizes)
    <3>1. CASE source = "full"
      <4>1. pending' = Append(pending, [key |-> k, action |-> "Release"])
        BY <1>3, <3>1 DEF In!UserReleases, In!Arrives
      <4> QED BY <2>1, <4>1, AppendProperties DEF In!TypeOK
    <3>2. CASE source # "full"
      BY <1>3, <3>2 DEF In!TypeOK, In!UserReleases
    <3> QED BY <3>1, <3>2
  <2> QED BY <1>3, <2>2, <2>3 DEF In!TypeOK, In!UserReleases
<1>4. ASSUME NEW c \in Sizes, In!OtherArrives(c) PROVE In!TypeOK'
  BY <1>4 DEF In!TypeOK, In!OtherArrives, In!Arrives
<1>5. CASE In!BeginInput
  <2>1. << >> \in Seq(In!KeyEvents) /\ Len(<< >>) = 0
    BY EmptySeq
  <2>2. /\ events' \in Seq(In!KeyEvents) /\ Len(events') <= Capacity
        /\ arrived' \in Seq(In!KeyEvents) /\ dropped' \in Nat
    BY <1>5, <2>1, CapacityType DEF In!BeginInput
  <2> QED BY <1>5, <2>2 DEF In!TypeOK, In!BeginInput
<1>6. CASE In!PollKey
  <2>1. pending' \in Seq(In!KeyEvents \cup Sizes)
    BY <1>6, HeadTailProperties DEF In!TypeOK, In!PollKey
  <2>2. CASE Head(pending) \notin In!KeyEvents
    BY <1>6, <2>1, <2>2, OtherRead DEF In!TypeOK, In!PollKey
  <2>3. CASE Head(pending) \in In!KeyEvents
    <3> DEFINE e == Head(pending)
    <3>1. /\ In!Apply(e) /\ In!Record(e) /\ arrived' = Append(arrived, e)
          /\ UNCHANGED <<policy, source, held, pumping, downBefore>>
      BY <1>6, <2>3, KeyRead DEF In!PollKey
    <3>2. e \in In!KeyEvents /\ e.key \in Keys
      BY <2>3 DEF In!KeyEvents
    <3> HIDE DEF e
    <3>3. /\ down' \subseteq Keys /\ justPressed' \subseteq Keys
          /\ justReleased' \subseteq Keys /\ anyInput' \in BOOLEAN
      BY <3>1, <3>2 DEF In!TypeOK, In!Apply
    <3>4. arrived' \in Seq(In!KeyEvents)
      BY <3>1, <3>2, AppendProperties DEF In!TypeOK
    <3>5. events' \in Seq(In!KeyEvents) /\ Len(events') <= Capacity /\ dropped' \in Nat
      <4>3. Len(events) \in Nat /\ Len(events) <= Capacity
        BY LenProperties DEF In!TypeOK
      <4>1. CASE Len(events) < Capacity
        <5>1. /\ Append(events, e) \in Seq(In!KeyEvents)
              /\ Len(Append(events, e)) = Len(events) + 1
          BY <3>2, AppendProperties DEF In!TypeOK
        <5>2. events' = Append(events, e) /\ dropped' = dropped
          BY <3>1, <4>1, <4>3, CapacityType DEF In!Record
        <5> QED BY <4>1, <4>3, <5>1, <5>2, CapacityType DEF In!TypeOK
      <4>2. CASE Len(events) = Capacity
        <5>1. events # << >>
          BY <4>2, CapacityType
        <5>2. Tail(events) \in Seq(In!KeyEvents) /\ Len(Tail(events)) = Len(events) - 1
          BY <5>1, HeadTailProperties DEF In!TypeOK
        <5>3. /\ Append(Tail(events), e) \in Seq(In!KeyEvents)
              /\ Len(Append(Tail(events), e)) = Len(Tail(events)) + 1
          BY <5>2, <3>2, AppendProperties
        <5>4. /\ events' \in {Append(Tail(events), e), events}
              /\ dropped' = dropped + 1
          BY <3>1, <4>2, <4>3, CapacityType DEF In!Record
        <5>5. CASE events' = events
          BY <4>3, <5>4, <5>5 DEF In!TypeOK
        <5>6. CASE events' = Append(Tail(events), e)
          <6>1. Len(events') = Capacity
            BY <4>2, <4>3, <5>2, <5>3, <5>6
          <6> QED BY <5>3, <5>4, <5>6, <6>1, CapacityType DEF In!TypeOK
        <5> QED BY <5>4, <5>5, <5>6
      <4> QED BY <4>1, <4>2, <4>3, CapacityType
    <3> QED BY <2>1, <3>1, <3>3, <3>4, <3>5 DEF In!TypeOK
  <2> QED BY <2>2, <2>3
<1>7. CASE In!EndInput
  BY <1>7 DEF In!TypeOK, In!EndInput
<1>8. CASE UNCHANGED inputVars
  BY <1>8 DEF In!TypeOK, inputVars
<1> QED BY <1>1, <1>2, <1>3, <1>4, <1>5, <1>6, <1>7, <1>8, InputSteps

-----------------------------------------------------------------------------
(* The input: the queue.                                                   *)

(* DropOldest forgets the first event the queue holds: the last C events   *)
(* of the frame stay the last C.                                           *)
LEMMA LastStayLast ==
  ASSUME NEW S, NEW s \in Seq(S), NEW e \in S, NEW C \in Nat \ {0}, Len(s) >= C
  PROVE  Append(Tail(SubSeq(s, Len(s) - C + 1, Len(s))), e)
           = SubSeq(Append(s, e), Len(s) - C + 2, Len(s) + 1)
<1> DEFINE n == Len(s)
           m == n - C + 1
           u == SubSeq(s, m, n)
           w == Append(s, e)
           l == Append(Tail(u), e)
           r == SubSeq(w, n - C + 2, n + 1)
<1>1. n \in Nat /\ m \in 1 .. n /\ m <= n
  BY LenProperties
<1>2. \A i \in 1 .. n : s[i] \in S
  BY ElementOfSeq
<1>3. /\ u \in Seq(S) /\ Len(u) = C
      /\ \A i \in 1 .. C : u[i] = s[m + i - 1]
  <2> HIDE DEF u
  <2>1. \A i \in m .. n : s[i] \in S
    BY <1>1, <1>2
  <2>2. /\ SubSeq(s, m, n) \in Seq(S)
        /\ Len(SubSeq(s, m, n)) = IF m <= n THEN n - m + 1 ELSE 0
        /\ \A i \in 1 .. n - m + 1 : SubSeq(s, m, n)[i] = s[m + i - 1]
    BY <1>1, <2>1, SubSeqProperties
  <2> QED BY <1>1, <2>2 DEF u
<1>4. /\ Tail(u) \in Seq(S) /\ Len(Tail(u)) = C - 1
      /\ \A i \in 1 .. C - 1 : Tail(u)[i] = u[i + 1]
  <2>1. u # << >>
    BY <1>3
  <2> HIDE DEF u
  <2> QED BY <1>3, <2>1, HeadTailProperties
<1>5. /\ l \in Seq(S) /\ Len(l) = C
      /\ \A i \in 1 .. C : l[i] = IF i = C THEN e ELSE u[i + 1]
  <2> HIDE DEF u
  <2> QED BY <1>3, <1>4, AppendProperties
<1>6. /\ w \in Seq(S) /\ Len(w) = n + 1
      /\ \A i \in 1 .. n + 1 : w[i] = IF i = n + 1 THEN e ELSE s[i]
  BY <1>1, AppendProperties
<1>7. /\ r \in Seq(S) /\ Len(r) = C
      /\ \A i \in 1 .. C : r[i] = w[m + i]
  <2> HIDE DEF w
  <2>1. \A i \in m + 1 .. n + 1 : w[i] \in S
    BY <1>1, <1>6, ElementOfSeq
  <2>2. /\ SubSeq(w, m + 1, n + 1) \in Seq(S)
        /\ Len(SubSeq(w, m + 1, n + 1)) = IF m + 1 <= n + 1 THEN (n + 1) - (m + 1) + 1 ELSE 0
        /\ \A i \in 1 .. (n + 1) - (m + 1) + 1 :
             SubSeq(w, m + 1, n + 1)[i] = w[(m + 1) + i - 1]
    BY <1>1, <2>1, SubSeqProperties
  <2>3. m + 1 = n - C + 2
    BY <1>1
  <2> QED BY <1>1, <2>2, <2>3
<1>8. \A i \in 1 .. C : l[i] = r[i]
  <2> SUFFICES ASSUME NEW i \in 1 .. C PROVE l[i] = r[i]
    OBVIOUS
  <2> HIDE DEF l, r, u, w
  <2>1. CASE i = C
    <3>1. r[i] = w[n + 1]
      BY <1>1, <1>7, <2>1
    <3> QED BY <1>1, <1>5, <1>6, <2>1, <3>1
  <2>2. CASE i # C
    <3>1. l[i] = s[m + i]
      BY <1>1, <1>3, <1>5, <2>2
    <3>2. r[i] = s[m + i]
      <4>1. m + i \in 1 .. n + 1 /\ m + i # n + 1
        BY <1>1, <2>2
      <4> HIDE DEF m, n
      <4> QED BY <1>6, <1>7, <4>1
    <3> QED BY <3>1, <3>2
  <2> QED BY <2>1, <2>2
<1>9. l = r
  <2> HIDE DEF l, r
  <2> QED BY <1>5, <1>7, <1>8, SeqEqual
<1> QED BY <1>9

(* An event more does not change the first C of the frame.                 *)
LEMMA FirstStayFirst ==
  ASSUME NEW S, NEW s \in Seq(S), NEW e \in S, NEW C \in Nat, Len(s) >= C
  PROVE  SubSeq(Append(s, e), 1, C) = SubSeq(s, 1, C)
<1> DEFINE w == Append(s, e)
<1>1. /\ w \in Seq(S) /\ Len(w) = Len(s) + 1
      /\ \A i \in 1 .. Len(s) : w[i] = s[i]
  BY AppendProperties, LenProperties
<1> HIDE DEF w
<1>2. \A i \in 1 .. C : s[i] \in S /\ w[i] = s[i]
  BY <1>1, ElementOfSeq, LenProperties
<1>3. /\ SubSeq(s, 1, C) \in Seq(S)
      /\ Len(SubSeq(s, 1, C)) = C
      /\ \A i \in 1 .. C : SubSeq(s, 1, C)[i] = s[i]
  <2>1. /\ SubSeq(s, 1, C) \in Seq(S)
        /\ Len(SubSeq(s, 1, C)) = IF 1 <= C THEN C - 1 + 1 ELSE 0
        /\ \A i \in 1 .. C - 1 + 1 : SubSeq(s, 1, C)[i] = s[1 + i - 1]
    BY <1>2, SubSeqProperties
  <2> QED BY <2>1
<1>4. /\ SubSeq(w, 1, C) \in Seq(S)
      /\ Len(SubSeq(w, 1, C)) = C
      /\ \A i \in 1 .. C : SubSeq(w, 1, C)[i] = w[i]
  <2>1. /\ SubSeq(w, 1, C) \in Seq(S)
        /\ Len(SubSeq(w, 1, C)) = IF 1 <= C THEN C - 1 + 1 ELSE 0
        /\ \A i \in 1 .. C - 1 + 1 : SubSeq(w, 1, C)[i] = w[1 + i - 1]
    BY <1>2, SubSeqProperties
  <2> QED BY <2>1
<1>5. SubSeq(w, 1, C) = SubSeq(s, 1, C)
  BY <1>2, <1>3, <1>4, SeqEqual
<1> QED BY <1>5 DEF w

(* The queue's order is inductive, given the types.                        *)
LEMMA QueueStep ==
  In!TypeOK /\ In!QueueKeepsOrder /\ [Next]_vars => In!QueueKeepsOrder'
<1> SUFFICES ASSUME In!TypeOK, In!QueueKeepsOrder, [Next]_vars
             PROVE  In!QueueKeepsOrder'
  OBVIOUS
<1> USE DEF In!config, In!user, In!state, In!queue, In!history
<1>1. CASE UNCHANGED <<arrived, events, dropped, policy>>
  BY <1>1 DEF In!QueueKeepsOrder
<1>2. CASE In!BeginInput
  BY <1>2, CapacityType DEF In!BeginInput, In!QueueKeepsOrder
<1>3. CASE In!PollKey
  <2> DEFINE e == Head(pending)
             n == Len(arrived)
  <2>1. CASE e \notin In!KeyEvents
    BY <1>1, <1>3, <2>1, OtherRead
  <2>2. CASE e \in In!KeyEvents
    <3>1. /\ In!Record(e) /\ arrived' = Append(arrived, e) /\ policy' = policy
      BY <1>3, <2>2, KeyRead DEF In!PollKey
    <3> HIDE DEF e
    <3>2. /\ n \in Nat /\ Len(events) \in Nat /\ Len(events) <= Capacity
          /\ Capacity \in Nat \ {0}
          /\ arrived \in Seq(In!KeyEvents) /\ events \in Seq(In!KeyEvents)
      BY LenProperties, CapacityType DEF In!TypeOK
    <3>3. Len(arrived') = n + 1
      BY <2>2, <3>1, <3>2, AppendProperties
    <3>5. CASE n < Capacity
      <4>1. events = arrived /\ Len(events) = n /\ dropped = 0
        BY <3>2, <3>5 DEF In!QueueKeepsOrder
      <4>2. events' = arrived' /\ dropped' = 0
        BY <3>1, <3>2, <3>5, <4>1 DEF In!Record
      <4> QED BY <3>2, <3>3, <3>5, <4>2 DEF In!QueueKeepsOrder
    <3>6. CASE n >= Capacity
      <4>1. Len(events) = Capacity /\ dropped = n - Capacity
        <5>1. CASE n = Capacity
          BY <3>2, <5>1 DEF In!QueueKeepsOrder
        <5>2. CASE n > Capacity
          <6>1. \A i \in 1 .. n : arrived[i] \in In!KeyEvents
            BY <3>2, ElementOfSeq
          <6>2. Len(SubSeq(arrived, n - Capacity + 1, n)) = Capacity
            <7>1. \A i \in n - Capacity + 1 .. n : arrived[i] \in In!KeyEvents
              BY <3>2, <5>2, <6>1
            <7> QED BY <3>2, <5>2, <7>1, SubSeqProperties
          <6>3. Len(SubSeq(arrived, 1, Capacity)) = Capacity
            <7>1. \A i \in 1 .. Capacity : arrived[i] \in In!KeyEvents
              BY <3>2, <5>2, <6>1
            <7> QED BY <3>2, <5>2, <7>1, SubSeqProperties
          <6> QED BY <3>2, <5>2, <6>2, <6>3 DEF In!QueueKeepsOrder
        <5> QED BY <3>2, <3>6, <5>1, <5>2
      <4>2. dropped' = dropped + 1
        BY <3>1, <4>1, <3>2 DEF In!Record
      <4>3. events' = IF policy = "DropOldest" THEN Append(Tail(events), e) ELSE events
        BY <3>1, <4>1, <3>2 DEF In!Record
      <4>4. CASE policy = "DropOldest"
        <5>1. events = SubSeq(arrived, n - Capacity + 1, n)
          <6>1. CASE n = Capacity
            <7>1. n - Capacity + 1 = 1
              BY <3>2, <6>1
            <7> QED BY <3>2, <6>1, <7>1, SubSeqFull DEF In!QueueKeepsOrder
          <6>2. CASE n > Capacity
            BY <3>2, <6>2, <4>4 DEF In!QueueKeepsOrder
          <6> QED BY <3>2, <3>6, <6>1, <6>2
        <5>2. events' = SubSeq(arrived', n - Capacity + 2, n + 1)
          BY <2>2, <3>1, <3>2, <3>6, <4>3, <4>4, <5>1, LastStayLast
        <5>3. Len(events') = Capacity
          <6>1. events # << >>
            BY <3>2, <4>1
          <6>2. Tail(events) \in Seq(In!KeyEvents) /\ Len(Tail(events)) = Len(events) - 1
            BY <6>1, <3>2, HeadTailProperties
          <6> QED BY <2>2, <3>2, <4>1, <4>3, <4>4, <6>2, AppendProperties
        <5>4. n - Capacity + 2 = (n + 1) - Capacity + 1 /\ ~(n + 1 <= Capacity)
          BY <3>2, <3>6
        <5>5. dropped' = Len(arrived') - Len(events')
          BY <3>2, <3>3, <4>1, <4>2, <5>3
        <5> QED BY <3>1, <3>3, <4>4, <5>2, <5>4, <5>5 DEF In!QueueKeepsOrder
      <4>5. CASE policy # "DropOldest"
        <5>1. events = SubSeq(arrived, 1, Capacity)
          <6>1. CASE n = Capacity
            BY <3>2, <6>1, SubSeqFull DEF In!QueueKeepsOrder
          <6>2. CASE n > Capacity
            BY <3>2, <6>2, <4>5 DEF In!QueueKeepsOrder
          <6> QED BY <3>2, <3>6, <6>1, <6>2
        <5>2. events' = SubSeq(arrived', 1, Capacity)
          BY <2>2, <3>1, <3>2, <3>6, <4>3, <4>5, <5>1, FirstStayFirst
        <5>3. dropped' = Len(arrived') - Len(events')
          BY <3>2, <3>3, <4>1, <4>2, <4>3, <4>5
        <5> QED BY <3>1, <3>2, <3>3, <3>6, <4>5, <5>2, <5>3 DEF In!QueueKeepsOrder
      <4> QED BY <4>4, <4>5
    <3> QED BY <3>2, <3>5, <3>6
  <2> QED BY <2>1, <2>2
<1>4. (\E k \in Keys : In!UserPresses(k)) => UNCHANGED <<arrived, events, dropped, policy>>
  BY DEF In!UserPresses
<1>5. (\E k \in Keys : In!UserHolds(k)) => UNCHANGED <<arrived, events, dropped, policy>>
  BY DEF In!UserHolds
<1>6. (\E k \in Keys : In!UserReleases(k)) => UNCHANGED <<arrived, events, dropped, policy>>
  BY DEF In!UserReleases
<1>7. (\E c \in Sizes : In!OtherArrives(c)) => UNCHANGED <<arrived, events, dropped, policy>>
  BY DEF In!OtherArrives
<1>8. In!EndInput => UNCHANGED <<arrived, events, dropped, policy>>
  BY DEF In!EndInput
<1>9. UNCHANGED inputVars => UNCHANGED <<arrived, events, dropped, policy>>
  BY DEF inputVars
<1> QED BY <1>1, <1>2, <1>3, <1>4, <1>5, <1>6, <1>7, <1>8, <1>9, InputSteps

-----------------------------------------------------------------------------
(* The input: the keyboard and what the source has not read.               *)

(* The keys that are down when those in D were and e is applied.           *)
After(D, e) ==
  IF e \notin In!KeyEvents THEN D
  ELSE IF e.action = "Release" THEN D \ {e.key} ELSE D \cup {e.key}

(* A keyboard presses keys that are up, and repeats or releases keys that  *)
(* are down.                                                               *)
Legal(D, e) ==
  e \in In!KeyEvents => (e.action = "Press" <=> e.key \notin D)

(* f gives the keys that are down after each of the events p, from D to H. *)
Follows(f, p, D, H) ==
  /\ f \in [0 .. Len(p) -> SUBSET Keys]
  /\ f[0] = D /\ f[Len(p)] = H
  /\ \A i \in 1 .. Len(p) : Legal(f[i - 1], p[i]) /\ f[i] = After(f[i - 1], p[i])

(* What the source has not read leads from the key state to the keyboard,  *)
(* if the source reports releases; else it holds presses only.             *)
KeyboardInv ==
  /\ source = "full" =>
       \E f \in [0 .. Len(pending) -> SUBSET Keys] : Follows(f, pending, down, held)
  /\ source = "terminal" =>
       \A i \in 1 .. Len(pending) :
         pending[i] \in In!KeyEvents => pending[i].action = "Press"

(* An event of the keyboard extends what leads to it.                      *)
LEMMA TraceExtends ==
  ASSUME NEW S, NEW p \in Seq(S), NEW D, NEW H, NEW f, Follows(f, p, D, H),
         NEW e \in S, Legal(H, e), After(H, e) \in SUBSET Keys
  PROVE  \E g : Follows(g, Append(p, e), D, After(H, e))
<1> DEFINE n == Len(p)
           q == Append(p, e)
           g == [i \in 0 .. n + 1 |-> IF i = n + 1 THEN After(H, e) ELSE f[i]]
<1>1. n \in Nat
  BY LenProperties
<1>2. Len(q) = n + 1 /\ \A i \in 1 .. n + 1 : q[i] = IF i = n + 1 THEN e ELSE p[i]
  BY <1>1, AppendProperties
<1>3. /\ f \in [0 .. n -> SUBSET Keys] /\ f[0] = D /\ f[n] = H
      /\ \A i \in 1 .. n : Legal(f[i - 1], p[i]) /\ f[i] = After(f[i - 1], p[i])
  BY DEF Follows
<1> HIDE DEF n, q
<1>4. g \in [0 .. n + 1 -> SUBSET Keys] /\ g[0] = D /\ g[n + 1] = After(H, e)
  BY <1>1, <1>3
<1>5. ASSUME NEW i \in 1 .. n + 1
      PROVE  Legal(g[i - 1], q[i]) /\ g[i] = After(g[i - 1], q[i])
  <2>1. CASE i = n + 1
    <3>1. g[i - 1] = H /\ g[i] = After(H, e) /\ q[i] = e
      BY <1>1, <1>2, <1>3, <2>1
    <3> QED BY <3>1
  <2>2. CASE i # n + 1
    <3>1. g[i - 1] = f[i - 1] /\ g[i] = f[i] /\ q[i] = p[i] /\ i \in 1 .. n
      BY <1>1, <1>2, <2>2
    <3> QED BY <1>3, <3>1
  <2> QED BY <2>1, <2>2
<1>6. Follows(g, q, D, After(H, e))
  <2> HIDE DEF g
  <2> QED BY <1>2, <1>4, <1>5 DEF Follows
<1> QED BY <1>6 DEF q

(* Reading the first event applies it.                                     *)
LEMMA TraceAdvances ==
  ASSUME NEW S, NEW p \in Seq(S), p # << >>, NEW D, NEW H, NEW f,
         Follows(f, p, D, H)
  PROVE  Legal(D, Head(p)) /\ \E g : Follows(g, Tail(p), After(D, Head(p)), H)
<1> DEFINE n == Len(p)
           g == [i \in 0 .. n - 1 |-> f[i + 1]]
<1>1. n \in Nat /\ n >= 1 /\ p[1] = Head(p)
  BY LenProperties, EmptySeq
<1>2. Len(Tail(p)) = n - 1 /\ \A i \in 1 .. n - 1 : Tail(p)[i] = p[i + 1]
  BY HeadTailProperties
<1>3. /\ f \in [0 .. n -> SUBSET Keys] /\ f[0] = D /\ f[n] = H
      /\ \A i \in 1 .. n : Legal(f[i - 1], p[i]) /\ f[i] = After(f[i - 1], p[i])
  BY DEF Follows
<1> HIDE DEF n
<1>4. Legal(D, Head(p)) /\ f[1] = After(D, Head(p))
  <2>1. 1 \in 1 .. n /\ f[1 - 1] = D
    BY <1>1, <1>3
  <2> QED BY <1>1, <1>3, <2>1
<1>5. g \in [0 .. n - 1 -> SUBSET Keys] /\ g[0] = f[1] /\ g[n - 1] = H
  BY <1>1, <1>3
<1>6. ASSUME NEW i \in 1 .. n - 1
      PROVE  /\ Legal(g[i - 1], Tail(p)[i])
             /\ g[i] = After(g[i - 1], Tail(p)[i])
  <2>1. /\ i + 1 \in 1 .. n /\ (i + 1) - 1 = i
        /\ g[i - 1] = f[i] /\ g[i] = f[i + 1] /\ Tail(p)[i] = p[i + 1]
    BY <1>1, <1>2
  <2> HIDE DEF g
  <2>2. Legal(f[(i + 1) - 1], p[i + 1]) /\ f[i + 1] = After(f[(i + 1) - 1], p[i + 1])
    BY <1>3, <2>1
  <2> QED BY <2>1, <2>2
<1>7. Follows(g, Tail(p), After(D, Head(p)), H)
  <2> HIDE DEF g
  <2> QED BY <1>2, <1>4, <1>5, <1>6 DEF Follows
<1> QED BY <1>4, <1>7

(* The keyboard's events keep it so, and pump() reads them one by one.     *)
LEMMA KeyboardStep ==
  In!TypeOK /\ KeyboardInv /\ [Next]_vars => KeyboardInv'
<1> SUFFICES ASSUME In!TypeOK, KeyboardInv, [Next]_vars PROVE KeyboardInv'
  OBVIOUS
<1> DEFINE S == In!KeyEvents \cup Sizes
<1> USE DEF In!config, In!user, In!state, In!queue, In!history
<1>1. pending \in Seq(S) /\ held \subseteq Keys /\ down \subseteq Keys
  BY DEF In!TypeOK
<1>2. ASSUME NEW e \in S, pending' = Append(pending, e), source' = source,
             down' = down,
             source = "full" => Legal(held, e) /\ held' = After(held, e),
             held' \subseteq Keys,
             source = "terminal" => (e \in In!KeyEvents => e.action = "Press")
      PROVE  KeyboardInv'
  <2>1. CASE source = "full"
    <3>1. PICK f : Follows(f, pending, down, held)
      BY <2>1 DEF KeyboardInv
    <3>2. \E g : Follows(g, Append(pending, e), down, After(held, e))
      BY <1>1, <1>2, <2>1, <3>1, TraceExtends
    <3>3. \E g : Follows(g, pending', down', held')
      BY <1>2, <2>1, <3>2
    <3>4. \E g \in [0 .. Len(pending') -> SUBSET Keys] : Follows(g, pending', down', held')
      BY <3>3 DEF Follows
    <3> QED BY <1>2, <2>1, <3>4 DEF KeyboardInv
  <2>2. CASE source = "terminal"
    <3>1. /\ Len(pending') = Len(pending) + 1 /\ Len(pending) \in Nat
          /\ \A i \in 1 .. Len(pending) + 1 :
               pending'[i] = IF i = Len(pending) + 1 THEN e ELSE pending[i]
      BY <1>1, <1>2, AppendProperties, LenProperties
    <3>2. ASSUME NEW i \in 1 .. Len(pending'), pending'[i] \in In!KeyEvents
          PROVE  pending'[i].action = "Press"
      <4>1. CASE i = Len(pending) + 1
        BY <1>2, <2>2, <3>1, <3>2, <4>1
      <4>2. CASE i # Len(pending) + 1
        <5>1. i \in 1 .. Len(pending) /\ pending'[i] = pending[i]
          BY <3>1, <4>2
        <5> QED BY <2>2, <3>2, <5>1 DEF KeyboardInv
      <4> QED BY <4>1, <4>2
    <3> QED BY <1>2, <2>2, <3>2 DEF KeyboardInv
  <2>3. CASE source \notin {"full", "terminal"}
    BY <1>2, <2>3 DEF KeyboardInv
  <2> QED BY <2>1, <2>2, <2>3
<1>3. ASSUME NEW k \in Keys, In!UserPresses(k) PROVE KeyboardInv'
  <2> DEFINE e == [key |-> k, action |-> "Press"]
  <2>1. e \in In!KeyEvents /\ e.key = k /\ e.action = "Press"
    BY DEF In!KeyEvents
  <2>2. /\ pending' = Append(pending, e) /\ source' = source /\ down' = down
        /\ held' = held \cup {k} /\ k \notin held
    BY <1>3 DEF In!UserPresses, In!Arrives
  <2> HIDE DEF e
  <2>3. Legal(held, e) /\ After(held, e) = held \cup {k}
    BY <2>1, <2>2 DEF Legal, After
  <2> QED BY <1>1, <1>2, <2>1, <2>2, <2>3
<1>4. ASSUME NEW k \in Keys, In!UserHolds(k) PROVE KeyboardInv'
  <2> DEFINE a == IF source = "full" THEN "Repeat" ELSE "Press"
             e == [key |-> k, action |-> a]
  <2>1. e \in In!KeyEvents /\ e.key = k /\ e.action = a
    BY DEF In!KeyEvents
  <2>2. /\ pending' = Append(pending, e) /\ source' = source /\ down' = down
        /\ held' = held /\ k \in held
    BY <1>4 DEF In!UserHolds, In!Arrives
  <2> HIDE DEF e
  <2>3. source = "full" => Legal(held, e) /\ After(held, e) = held
    BY <2>1, <2>2 DEF Legal, After
  <2>4. source = "terminal" => e.action = "Press"
    BY <2>1
  <2> QED BY <1>1, <1>2, <2>1, <2>2, <2>3, <2>4
<1>5. ASSUME NEW k \in Keys, In!UserReleases(k) PROVE KeyboardInv'
  <2> DEFINE e == [key |-> k, action |-> "Release"]
  <2>1. e \in In!KeyEvents /\ e.key = k /\ e.action = "Release"
    BY DEF In!KeyEvents
  <2>2. /\ source' = source /\ down' = down /\ held' = held \ {k} /\ k \in held
        /\ IF source = "full" THEN pending' = Append(pending, e) ELSE pending' = pending
    BY <1>5 DEF In!UserReleases, In!Arrives
  <2> HIDE DEF e
  <2>3. Legal(held, e) /\ After(held, e) = held \ {k}
    BY <2>1, <2>2 DEF Legal, After
  <2>4. CASE source = "full"
    <3>1. pending' = Append(pending, e) /\ held' \subseteq Keys
      BY <1>1, <2>2, <2>4
    <3> QED BY <1>2, <2>1, <2>2, <2>3, <2>4, <3>1
  <2>5. CASE source # "full"
    BY <2>2, <2>5 DEF KeyboardInv
  <2> QED BY <2>4, <2>5
<1>6. ASSUME NEW c \in Sizes, In!OtherArrives(c) PROVE KeyboardInv'
  <2>1. c \notin In!KeyEvents
    BY TerminalAssumption DEF TerminalAssumption, In!InputAssumption
  <2>2. /\ pending' = Append(pending, c) /\ source' = source /\ down' = down
        /\ held' = held
    BY <1>6 DEF In!OtherArrives, In!Arrives
  <2>3. Legal(held, c) /\ After(held, c) = held
    BY <2>1 DEF Legal, After
  <2> QED BY <1>1, <1>2, <2>1, <2>2, <2>3
<1>7. CASE In!PollKey
  <2>1. /\ pending # << >> /\ pending' = Tail(pending)
        /\ held' = held /\ source' = source
    BY <1>7 DEF In!PollKey
  <2>2. down' = After(down, Head(pending))
    <3>1. CASE Head(pending) \in In!KeyEvents
      BY <1>7, <3>1, KeyRead DEF In!Apply, After
    <3>2. CASE Head(pending) \notin In!KeyEvents
      BY <1>7, <3>2, OtherRead DEF After
    <3> QED BY <3>1, <3>2
  <2>3. CASE source = "full"
    <3>1. PICK f : Follows(f, pending, down, held)
      BY <2>3 DEF KeyboardInv
    <3>2. \E g : Follows(g, Tail(pending), After(down, Head(pending)), held)
      BY <1>1, <2>1, <3>1, TraceAdvances
    <3>3. \E g : Follows(g, pending', down', held')
      BY <2>1, <2>2, <3>2
    <3>4. \E g \in [0 .. Len(pending') -> SUBSET Keys] : Follows(g, pending', down', held')
      BY <3>3 DEF Follows
    <3> QED BY <2>1, <2>3, <3>4 DEF KeyboardInv
  <2>4. CASE source # "full"
    <3>1. /\ Len(pending') = Len(pending) - 1 /\ Len(pending) \in Nat
          /\ \A i \in 1 .. Len(pending') : pending'[i] = pending[i + 1]
      BY <1>1, <2>1, HeadTailProperties, LenProperties
    <3>2. ASSUME NEW i \in 1 .. Len(pending')
          PROVE  i + 1 \in 1 .. Len(pending) /\ pending'[i] = pending[i + 1]
      BY <3>1
    <3> QED BY <2>1, <2>4, <3>2 DEF KeyboardInv
  <2> QED BY <2>3, <2>4
<1>8. CASE UNCHANGED <<pending, held, down, source>>
  BY <1>8 DEF KeyboardInv
<1>9. In!BeginInput => UNCHANGED <<pending, held, down, source>>
  BY DEF In!BeginInput
<1>10. In!EndInput => UNCHANGED <<pending, held, down, source>>
  BY DEF In!EndInput
<1>11. UNCHANGED inputVars => UNCHANGED <<pending, held, down, source>>
  BY DEF inputVars
<1> QED BY <1>3, <1>4, <1>5, <1>6, <1>7, <1>8, <1>9, <1>10, <1>11, InputSteps

(* A repetition that is read is one of a key that is down.                 *)
LEMMA RepeatsOfKeysDown ==
  ASSUME In!TypeOK, KeyboardInv, pending # << >>, Head(pending) \in In!KeyEvents,
         Head(pending).action = "Repeat"
  PROVE  Head(pending).key \in down
<1>1. source \in {"terminal", "full"} /\ pending \in Seq(In!KeyEvents \cup Sizes)
  BY TerminalAssumption DEF TerminalAssumption, In!InputAssumption, In!TypeOK
<1>2. CASE source = "full"
  <2>1. PICK f : Follows(f, pending, down, held)
    BY <1>2 DEF KeyboardInv
  <2>2. Legal(down, Head(pending))
    BY <1>1, <2>1, TraceAdvances
  <2> QED BY <2>2 DEF Legal
<1>3. CASE source = "terminal"
  <2>1. 1 \in 1 .. Len(pending) /\ pending[1] = Head(pending)
    BY <1>1, LenProperties, EmptySeq
  <2>2. Head(pending).action = "Press"
    BY <1>3, <2>1 DEF KeyboardInv
  <2> QED BY <2>2
<1> QED BY <1>1, <1>2, <1>3

(* The edges stay right: a repetition of a key that is up would make it    *)
(* down with no edge, and the keyboard never sends one.                    *)
LEMMA EdgesStep ==
  In!TypeOK /\ KeyboardInv /\ In!EdgesTellChanges /\ [Next]_vars => In!EdgesTellChanges'
<1> SUFFICES ASSUME In!TypeOK, KeyboardInv, In!EdgesTellChanges, [Next]_vars
             PROVE  In!EdgesTellChanges'
  OBVIOUS
<1> DEFINE Same == UNCHANGED <<down, downBefore, justPressed, justReleased>>
<1> USE DEF In!config, In!user, In!state, In!queue, In!history
<1>1. CASE Same
  BY <1>1 DEF In!EdgesTellChanges
<1>2. CASE In!BeginInput
  BY <1>2 DEF In!BeginInput, In!EdgesTellChanges
<1>3. CASE In!PollKey
  <2> DEFINE e == Head(pending)
  <2>1. CASE e \notin In!KeyEvents
    BY <1>1, <1>3, <2>1, OtherRead
  <2>2. CASE e \in In!KeyEvents
    <3>1. In!Apply(e) /\ downBefore' = downBefore /\ pending # << >>
      BY <1>3, <2>2, KeyRead DEF In!PollKey
    <3>2. e.action \in {"Press", "Release", "Repeat"}
      BY <2>2 DEF In!KeyEvents
    <3>3. e.action = "Repeat" => e.key \in down
      BY <2>2, <3>1, RepeatsOfKeysDown
    <3> DEFINE k == e.key
               a == e.action
    <3> HIDE DEF e
    <3>4. CASE a = "Press"
      <4>1. /\ down' = down \cup {k} /\ justReleased' = justReleased
            /\ justPressed' = IF k \in down THEN justPressed ELSE justPressed \cup {k}
        BY <3>1, <3>4 DEF In!Apply
      <4> HIDE DEF k, a
      <4> QED BY <3>1, <4>1 DEF In!EdgesTellChanges
    <3>5. CASE a = "Repeat"
      <4>1. /\ down' = down \cup {k} /\ justReleased' = justReleased
            /\ justPressed' = justPressed
        BY <3>1, <3>5 DEF In!Apply
      <4>2. k \in down
        BY <3>3, <3>5
      <4> HIDE DEF k, a
      <4> QED BY <3>1, <4>1, <4>2 DEF In!EdgesTellChanges
    <3>6. CASE a = "Release"
      <4>1. /\ down' = down \ {k} /\ justPressed' = justPressed
            /\ justReleased' = IF k \in down THEN justReleased \cup {k} ELSE justReleased
        BY <3>1, <3>6 DEF In!Apply
      <4> HIDE DEF k, a
      <4> QED BY <3>1, <4>1 DEF In!EdgesTellChanges
    <3> QED BY <3>2, <3>4, <3>5, <3>6
  <2> QED BY <2>1, <2>2
<1>4. (\E k \in Keys : In!UserPresses(k)) => Same
  BY DEF In!UserPresses
<1>5. (\E k \in Keys : In!UserHolds(k)) => Same
  BY DEF In!UserHolds
<1>6. (\E k \in Keys : In!UserReleases(k)) => Same
  BY DEF In!UserReleases
<1>7. (\E c \in Sizes : In!OtherArrives(c)) => Same
  BY DEF In!OtherArrives
<1>8. In!EndInput => Same
  BY DEF In!EndInput
<1>9. UNCHANGED inputVars => Same
  BY DEF inputVars
<1> QED BY <1>1, <1>2, <1>3, <1>4, <1>5, <1>6, <1>7, <1>8, <1>9, InputSteps

(* The state agrees with the keyboard when nothing is left to read.        *)
LEMMA KeyboardRead ==
  KeyboardInv => In!StateFollowsKeyboard
<1> SUFFICES ASSUME KeyboardInv, source = "full", pending = << >>
             PROVE  down = held
  BY DEF In!StateFollowsKeyboard
<1>1. PICK f : Follows(f, pending, down, held)
  BY DEF KeyboardInv
<1>2. Len(pending) = 0
  BY EmptySeq
<1> QED BY <1>1, <1>2 DEF Follows

(* The inductive invariant of the input.                                   *)
InputInv ==
  In!TypeOK /\ In!QueueKeepsOrder /\ KeyboardInv /\ In!EdgesTellChanges

(* It holds in every state of the loop.                                    *)
LEMMA InputInvariant == Spec => []InputInv
<1>1. Init => InputInv
  <2> SUFFICES ASSUME Init PROVE InputInv
    OBVIOUS
  <2>1. In!Init
    BY DEF Init
  <2>2. /\ << >> \in Seq(In!KeyEvents) /\ << >> \in Seq(In!KeyEvents \cup Sizes)
        /\ Len(<< >>) = 0
    BY EmptySeq
  <2>3. In!TypeOK
    <3>1. pending \in Seq(In!KeyEvents \cup Sizes) /\ arrived \in Seq(In!KeyEvents)
      BY <2>1, <2>2 DEF In!Init
    <3>2. events \in Seq(In!KeyEvents) /\ Len(events) <= Capacity /\ dropped \in Nat
      BY <2>1, <2>2, CapacityType DEF In!Init
    <3> QED BY <2>1, <3>1, <3>2 DEF In!Init, In!TypeOK
  <2>4. In!QueueKeepsOrder
    BY <2>1, <2>2, CapacityType DEF In!Init, In!QueueKeepsOrder
  <2>5. KeyboardInv
    <3> DEFINE f == [i \in 0 .. 0 |-> {}]
    <3>1. f \in [0 .. 0 -> SUBSET Keys] /\ f[0] = {}
      OBVIOUS
    <3> HIDE DEF f
    <3>2. /\ pending = << >> /\ down = {} /\ held = {} /\ Len(pending) = 0
      BY <2>1, <2>2 DEF In!Init
    <3>3. Follows(f, pending, down, held)
      BY <3>1, <3>2 DEF Follows
    <3> QED BY <3>1, <3>2, <3>3 DEF KeyboardInv
  <2>6. In!EdgesTellChanges
    BY <2>1 DEF In!Init, In!EdgesTellChanges
  <2> QED BY <2>3, <2>4, <2>5, <2>6 DEF InputInv
<1>2. InputInv /\ [Next]_vars => InputInv'
  BY InputTypes, QueueStep, KeyboardStep, EdgesStep DEF InputInv
<1> QED BY <1>1, <1>2, PTL DEF Spec

(* In every frame the queue holds the events its overflow policy promises, *)
(* the first or the last ones in their order, and m_dropped counts the     *)
(* others (InputQueue::push).                                              *)
THEOREM QueueKeepsOrderHolds == Spec => []QueueKeepsOrder
<1>1. InputInv => QueueKeepsOrder
  BY DEF InputInv, QueueKeepsOrder
<1> QED BY <1>1, InputInvariant, PTL

(* Every change of a key within a frame shows as an edge and no other key  *)
(* has one, with either source and whatever the queue drops                *)
(* (InputState::apply).                                                    *)
THEOREM EdgesTellChangesHolds == Spec => []EdgesTellChanges
<1>1. InputInv => EdgesTellChanges
  BY DEF InputInv, EdgesTellChanges
<1> QED BY <1>1, InputInvariant, PTL

(* With a source that reports releases the keys that are down are those    *)
(* the user holds whenever all has been read, however many events the      *)
(* queue dropped (InputCollector::push).                                   *)
THEOREM StateFollowsKeyboardHolds == Spec => []StateFollowsKeyboard
<1>1. InputInv => StateFollowsKeyboard
  BY KeyboardRead DEF InputInv, StateFollowsKeyboard
<1> QED BY <1>1, InputInvariant, PTL

-----------------------------------------------------------------------------
(* The surface: the cells of a terminal and their places in m_prev.        *)

(* Rows do not overlap: a row further down begins behind this one's end.   *)
LEMMA RowsApart ==
  ASSUME NEW a \in Nat, NEW b \in Nat, NEW w \in Nat, a < b
  PROVE  a * w + w <= b * w
<1>1. PICK k \in Nat : b = (a + 1) + k
  <2>1. b - (a + 1) \in Nat /\ b = (a + 1) + (b - (a + 1))
    OBVIOUS
  <2> QED BY <2>1
<1>2. b * w = (a * w + w) + k * w
  <2>1. ((a + 1) + k) * w = (a * w + w) + k * w
    OBVIOUS
  <2> QED BY <1>1, <2>1
<1>3. k * w \in Nat /\ a * w \in Nat
  OBVIOUS
<1> QED BY <1>2, <1>3

(* A size has cells, each with an index of its own in m_prev.              *)
LEMMA IndexInRange ==
  ASSUME NEW s \in Sizes, NEW c \in Out!Area(s)
  PROVE  Out!Index(s, c) \in Out!Indexes(s)
<1>1. s.rows \in Nat /\ s.cols \in Nat
  BY TerminalAssumption DEF TerminalAssumption, Out!SurfaceAssumption
<1>2. c.y \in 0 .. s.rows - 1 /\ c.x \in 0 .. s.cols - 1
  BY DEF Out!Area
<1> DEFINE w == s.cols
           y == c.y
           x == c.x
           h == s.rows
<1> HIDE DEF w, x, y, h
<1>3. w \in Nat /\ h \in Nat /\ y \in Nat /\ x \in Nat /\ y < h /\ x < w
  BY <1>1, <1>2 DEF w, h, x, y
<1>4. y * w + w <= h * w
  BY <1>3, RowsApart
<1>5. y * w \in Nat /\ h * w \in Nat
  BY <1>3
<1>6. y * w + x \in 0 .. h * w - 1
  BY <1>3, <1>4, <1>5
<1> QED BY <1>6 DEF Out!Index, Out!Indexes, w, h, x, y

(* Two cells of a size never share an index.                               *)
LEMMA IndexIsUnique ==
  ASSUME NEW s \in Sizes, NEW c \in Out!Area(s), NEW d \in Out!Area(s),
         Out!Index(s, c) = Out!Index(s, d)
  PROVE  c = d
<1>1. s.rows \in Nat /\ s.cols \in Nat
  BY TerminalAssumption DEF TerminalAssumption, Out!SurfaceAssumption
<1>2. /\ c.y \in 0 .. s.rows - 1 /\ c.x \in 0 .. s.cols - 1
      /\ d.y \in 0 .. s.rows - 1 /\ d.x \in 0 .. s.cols - 1
  BY DEF Out!Area
<1> DEFINE w == s.cols
           y1 == c.y
           x1 == c.x
           y2 == d.y
           x2 == d.x
<1> HIDE DEF w, x1, y1, x2, y2
<1>3. /\ w \in Nat /\ y1 \in Nat /\ x1 \in Nat /\ y2 \in Nat /\ x2 \in Nat
      /\ x1 < w /\ x2 < w
  BY <1>1, <1>2 DEF w, x1, y1, x2, y2
<1>4. y1 * w \in Nat /\ y2 * w \in Nat
  BY <1>3
<1>5. y1 * w + x1 = y2 * w + x2
  BY DEF Out!Index, w, x1, y1, x2, y2
<1>6. ~(y1 < y2)
  <2> SUFFICES ASSUME y1 < y2 PROVE FALSE
    OBVIOUS
  <2>1. y1 * w + w <= y2 * w
    BY <1>3, RowsApart
  <2> QED BY <1>3, <1>4, <1>5, <2>1
<1>7. ~(y2 < y1)
  <2> SUFFICES ASSUME y2 < y1 PROVE FALSE
    OBVIOUS
  <2>1. y2 * w + w <= y1 * w
    BY <1>3, RowsApart
  <2> QED BY <1>3, <1>4, <1>5, <2>1
<1>8. y1 = y2 /\ x1 = x2
  <2>1. y1 = y2
    BY <1>3, <1>6, <1>7
  <2> QED BY <1>3, <1>4, <1>5, <2>1
<1> QED BY <1>8 DEF Out!Area, x1, y1, x2, y2

-----------------------------------------------------------------------------
(* The surface: every pixel has a colour and a character.                  *)

Hues == 0 .. 255

(* The largest and the smallest of three channels are numbers.             *)
LEMMA ExtremesAreNumbers ==
  ASSUME NEW a \in Int, NEW b \in Int, NEW c \in Int
  PROVE  Out!Max({a, b, c}) \in Int /\ Out!Min({a, b, c}) \in Int
<1>1. \E m \in {a, b, c} : \A y \in {a, b, c} : m >= y
  BY SMT
<1>2. \E m \in {a, b, c} : \A y \in {a, b, c} : m <= y
  BY SMT
<1>3. Out!Max({a, b, c}) \in {a, b, c}
  BY <1>1 DEF Out!Max
<1>4. Out!Min({a, b, c}) \in {a, b, c}
  BY <1>2 DEF Out!Min
<1> QED BY <1>3, <1>4

(* The pixels of the frames, and the value for unknown, are four bytes.    *)
LEMMA PixelsAreBytes ==
  \A p \in Pixels \cup {Out!Unknown} :
    p[1] \in Hues /\ p[2] \in Hues /\ p[3] \in Hues /\ p[4] \in Hues
<1>1. Pixels \subseteq Hues \X Hues \X Hues \X Hues
  BY TerminalAssumption DEF TerminalAssumption, Out!SurfaceAssumption, Hues
<1>2. Out!Unknown \in Hues \X Hues \X Hues \X Hues
  BY DEF Out!Unknown, Hues
<1>3. \A p \in Hues \X Hues \X Hues \X Hues :
        p[1] \in Hues /\ p[2] \in Hues /\ p[3] \in Hues /\ p[4] \in Hues
  OBVIOUS
<1> QED BY <1>1, <1>2, <1>3

(* The cases of both tables cover every pixel (quantize_to_curses_bg() and *)
(* the table of characters).                                               *)
LEMMA ShadeIsGlyph ==
  ASSUME NEW p \in Pixels \cup {Out!Unknown}, colors \in BOOLEAN
  PROVE  Out!Shade(p) \in Out!Glyphs
<1>1. p[1] \in Hues /\ p[2] \in Hues /\ p[3] \in Hues /\ p[4] \in Hues
  BY PixelsAreBytes
<1>2. Out!Luminance(p) \in Int
  <2> DEFINE n == p[1] * 30 + p[2] * 59 + p[3] * 11
  <2>1. n \in Int
    <3>1. p[1] \in Int /\ p[2] \in Int /\ p[3] \in Int
      BY <1>1 DEF Hues
    <3> QED BY <3>1
  <2>2. \A m \in Int : m \div 100 \in Int
    OBVIOUS
  <2>3. Out!Luminance(p) = n \div 100
    BY DEF Out!Luminance
  <2> HIDE DEF n
  <2> QED BY <2>1, <2>2, <2>3
<1>3. Out!Character(p) \in Out!Glyphs
  <2> DEFINE l == Out!Luminance(p)
  <2>1. \/ l > 220 \/ l \in 181 .. 220 \/ l \in 141 .. 180 \/ l \in 101 .. 140
        \/ l \in 61 .. 100 \/ l <= 60
    BY <1>2
  <2> HIDE DEF l
  <2>2. CASE l > 220
    BY <2>2, <1>2 DEF Out!Character, Out!Glyphs, l
  <2>3. CASE l \in 181 .. 220
    BY <2>3, <1>2 DEF Out!Character, Out!Glyphs, l
  <2>4. CASE l \in 141 .. 180
    BY <2>4, <1>2 DEF Out!Character, Out!Glyphs, l
  <2>5. CASE l \in 101 .. 140
    BY <2>5, <1>2 DEF Out!Character, Out!Glyphs, l
  <2>6. CASE l \in 61 .. 100
    BY <2>6, <1>2 DEF Out!Character, Out!Glyphs, l
  <2>7. CASE l <= 60
    BY <2>7, <1>2 DEF Out!Character, Out!Glyphs, l
  <2> QED BY <2>1, <2>2, <2>3, <2>4, <2>5, <2>6, <2>7
<1>4. Out!Background(p) \in Out!Glyphs
  <2> DEFINE most == Out!Max({p[1], p[2], p[3]})
             least == Out!Min({p[1], p[2], p[3]})
  <2>1. most \in Int /\ least \in Int /\ p[4] \in Nat
    <3>1. p[1] \in Int /\ p[2] \in Int /\ p[3] \in Int /\ p[4] \in Nat
      BY <1>1 DEF Hues
    <3> QED BY <3>1, ExtremesAreNumbers
  <2> HIDE DEF most, least
  <2>2. CASE p[4] = 0 \/ most < 40
    BY <2>2, <2>1 DEF Out!Background, Out!Glyphs, most, least
  <2>3. CASE p[4] > 0 /\ least > 215
    BY <2>3, <2>1 DEF Out!Background, Out!Glyphs, most, least
  <2>4. CASE p[4] > 0 /\ most >= 40 /\ least <= 215
    BY <2>4, <2>1 DEF Out!Background, Out!Glyphs, most, least
  <2> QED BY <2>1, <2>2, <2>3, <2>4
<1> QED BY <1>3, <1>4 DEF Out!Shade

-----------------------------------------------------------------------------
(* The surface: what present() does, cell by cell.                         *)

Known == IF size # drawn THEN Out!AllUnknown(size) ELSE prev
Before == IF size # drawn THEN Out!AllBlank(size) ELSE cells
Draws(f, c) == c \in DOMAIN f \cap Out!Area(size) /\ Known[Out!Index(size, c)] # f[c]

(* Two cells never meet in one entry of m_prev, so the entry of each cell  *)
(* is the pixel drawn there or stays.                                      *)
LEMMA PresentEffect ==
  ASSUME Out!TypeOK, NEW f \in Frames, Out!Present(f)
  PROVE  /\ drawn' = size /\ size' = size /\ colors' = colors /\ shown' = f
         /\ cells' = [c \in Out!Area(size) |->
                        IF Draws(f, c) THEN Out!Shade(f[c]) ELSE Before[c]]
         /\ prev' \in [Out!Indexes(size) -> Pixels \cup {Out!Unknown}]
         /\ \A c \in Out!Area(size) :
              prev'[Out!Index(size, c)] =
                IF Draws(f, c) THEN f[c] ELSE Known[Out!Index(size, c)]
         /\ lost' = IF size # drawn THEN {} ELSE {c \in lost : ~Draws(f, c)}
<1> DEFINE cell(i) == CHOOSE d \in Out!Area(size) : Out!Index(size, d) = i
           entry(i) == IF Draws(f, cell(i)) THEN f[cell(i)] ELSE Known[i]
<1>1. size \in Sizes /\ f \in [DOMAIN f -> Pixels]
  BY TerminalAssumption DEF TerminalAssumption, Out!SurfaceAssumption, Out!TypeOK
<1>2. Known \in [Out!Indexes(size) -> Pixels \cup {Out!Unknown}]
  BY DEF Known, Out!AllUnknown, Out!TypeOK
<1>3. /\ drawn' = size /\ size' = size /\ colors' = colors /\ shown' = f
      /\ cells' = [c \in Out!Area(size) |->
                     IF Draws(f, c) THEN Out!Shade(f[c]) ELSE Before[c]]
      /\ prev' = [i \in Out!Indexes(size) |-> entry(i)]
      /\ lost' = IF size # drawn THEN {} ELSE {c \in lost : ~Draws(f, c)}
  BY DEF Out!Present, Known, Before, Draws
<1>4. ASSUME NEW c \in Out!Area(size)
      PROVE  cell(Out!Index(size, c)) = c
  <2> DEFINE i == Out!Index(size, c)
  <2>1. cell(i) \in Out!Area(size) /\ Out!Index(size, cell(i)) = i
    OBVIOUS
  <2> HIDE DEF cell
  <2> QED BY <1>1, <2>1, IndexIsUnique
<1>5. ASSUME NEW i \in Out!Indexes(size)
      PROVE  entry(i) \in Pixels \cup {Out!Unknown}
  <2> HIDE DEF cell
  <2> QED BY <1>1, <1>2 DEF Draws
<1>6. prev' \in [Out!Indexes(size) -> Pixels \cup {Out!Unknown}]
  <2> HIDE DEF entry
  <2> QED BY <1>3, <1>5
<1>7. ASSUME NEW c \in Out!Area(size)
      PROVE  prev'[Out!Index(size, c)] =
               IF Draws(f, c) THEN f[c] ELSE Known[Out!Index(size, c)]
  <2>1. Out!Index(size, c) \in Out!Indexes(size)
    BY <1>1, IndexInRange
  <2>2. prev'[Out!Index(size, c)] = entry(Out!Index(size, c))
    <3> HIDE DEF entry
    <3> QED BY <1>3, <2>1
  <2> HIDE DEF cell
  <2> QED BY <1>4, <2>2
<1> QED BY <1>3, <1>6, <1>7

-----------------------------------------------------------------------------
(* The surface: types and the screen.                                      *)

(* The surface's part of the type invariant is inductive.                  *)
LEMMA SurfaceTypes ==
  Out!TypeOK /\ [Next]_vars => Out!TypeOK'
<1> SUFFICES ASSUME Out!TypeOK, [Next]_vars PROVE Out!TypeOK'
  OBVIOUS
<1>1. ASSUME NEW s \in Sizes, Out!Resize(s) PROVE Out!TypeOK'
  <2>1. cells' \in [Out!Area(size') -> Out!Glyphs]
    <3>1. Out!Blank \in Out!Glyphs
      BY DEF Out!Blank, Out!Glyphs
    <3> QED BY <1>1, <3>1 DEF Out!Resize, Out!TypeOK
  <2>2. lost' \subseteq UNION {Out!Area(t) : t \in Sizes}
    BY <1>1 DEF Out!Resize, Out!TypeOK
  <2>3. shown' \in Frames \cup {Out!NoFrame}
    BY <1>1 DEF Out!Resize, Out!TypeOK
  <2> QED BY <1>1, <2>1, <2>2, <2>3 DEF Out!Resize, Out!TypeOK
<1>2. ASSUME NEW f \in Frames, Out!Present(f) PROVE Out!TypeOK'
  <2>1. cells' \in [Out!Area(size) -> Out!Glyphs]
    <3>1. Before \in [Out!Area(size) -> Out!Glyphs]
      BY DEF Before, Out!AllBlank, Out!Blank, Out!Glyphs, Out!TypeOK
    <3>2. ASSUME NEW c \in Out!Area(size), Draws(f, c)
          PROVE  Out!Shade(f[c]) \in Out!Glyphs
      <4>1. f[c] \in Pixels
        BY <3>2, TerminalAssumption DEF TerminalAssumption, Out!SurfaceAssumption, Draws
      <4>2. colors \in BOOLEAN
        BY DEF Out!TypeOK
      <4> QED BY <4>1, <4>2, ShadeIsGlyph
    <3>3. cells' = [c \in Out!Area(size) |->
                      IF Draws(f, c) THEN Out!Shade(f[c]) ELSE Before[c]]
      BY <1>2, PresentEffect
    <3> QED BY <3>1, <3>2, <3>3
  <2>2. /\ size' = size /\ drawn' = size /\ colors' = colors /\ shown' = f
        /\ prev' \in [Out!Indexes(size) -> Pixels \cup {Out!Unknown}]
        /\ lost' = IF size # drawn THEN {} ELSE {c \in lost : ~Draws(f, c)}
    BY <1>2, PresentEffect
  <2>3. lost' \subseteq UNION {Out!Area(t) : t \in Sizes}
    BY <2>2 DEF Out!TypeOK
  <2> QED BY <2>1, <2>2, <2>3 DEF Out!TypeOK
<1>3. CASE UNCHANGED surfaceVars
  BY <1>3 DEF surfaceVars, Out!TypeOK
<1> QED BY <1>1, <1>2, <1>3, SurfaceSteps

(* What a cell shows when m_prev has p for it.                             *)
Shows(c, p) ==
  IF p = Out!Unknown THEN cells[c] \in {Out!Blank, Out!Shade(p)}
  ELSE cells[c] = Out!Shade(p)

(* m_prev is right about every cell ncurses did not take off the screen.   *)
PrevInv ==
  \A c \in Out!Area(drawn) :
    c \in lost \/ (c \in Out!Area(size) /\ Shows(c, prev[Out!Index(drawn, c)]))

(* A cell taken off the screen is blank when it is back.                   *)
LostInv == \A c \in lost \cap Out!Area(size) : cells[c] = Out!Blank

(* m_prev holds the frame presented last.                                  *)
ShownInv ==
  \A c \in Out!Area(size) \cap DOMAIN shown :
    size = drawn /\ prev[Out!Index(size, c)] = shown[c]

(* The inductive invariant of the surface.                                 *)
SurfaceInv == Out!TypeOK /\ PrevInv /\ LostInv /\ ShownInv

(* present() records in m_prev what it draws, and a change of size moves   *)
(* no cell.                                                                *)
LEMMA PrevStep ==
  Out!TypeOK /\ PrevInv /\ [Next]_vars => PrevInv'
<1> SUFFICES ASSUME Out!TypeOK, PrevInv, [Next]_vars PROVE PrevInv'
  OBVIOUS
<1>1. ASSUME NEW s \in Sizes, Out!Resize(s) PROVE PrevInv'
  <2>1. /\ size' = s /\ drawn' = drawn /\ prev' = prev /\ colors' = colors
        /\ lost' = lost \cup (Out!Area(size) \ Out!Area(s))
        /\ cells' = [c \in Out!Area(s) |->
                       IF c \in Out!Area(size) THEN cells[c] ELSE Out!Blank]
    BY <1>1 DEF Out!Resize
  <2>2. ASSUME NEW c \in Out!Area(drawn), c \notin lost'
        PROVE  c \in Out!Area(s) /\ cells'[c] = cells[c]
                 /\ Shows(c, prev[Out!Index(drawn, c)])
    BY <2>1, <2>2 DEF PrevInv
  <2> QED BY <2>1, <2>2 DEF PrevInv, Shows, Out!Shade
<1>2. ASSUME NEW f \in Frames, Out!Present(f) PROVE PrevInv'
  <2>1. /\ drawn' = size /\ size' = size /\ colors' = colors
        /\ cells' = [c \in Out!Area(size) |->
                       IF Draws(f, c) THEN Out!Shade(f[c]) ELSE Before[c]]
        /\ \A c \in Out!Area(size) :
             prev'[Out!Index(size, c)] =
               IF Draws(f, c) THEN f[c] ELSE Known[Out!Index(size, c)]
        /\ lost' = IF size # drawn THEN {} ELSE {c \in lost : ~Draws(f, c)}
    BY <1>2, PresentEffect
  <2>2. ASSUME NEW c \in Out!Area(size), c \notin lost'
        PROVE  Shows(c, prev[Out!Index(drawn, c)])'
    <3>1. size \in Sizes /\ Out!Index(size, c) \in Out!Indexes(size)
      BY IndexInRange DEF Out!TypeOK
    <3> DEFINE i == Out!Index(size, c)
    <3>2. CASE Draws(f, c)
      <4>1. prev'[i] = f[c] /\ cells'[c] = Out!Shade(f[c])
        BY <2>1, <3>2
      <4> QED BY <2>1, <4>1 DEF Shows, Out!Shade
    <3>3. CASE ~Draws(f, c) /\ size # drawn
      <4>1. prev'[i] = Out!Unknown /\ cells'[c] = Out!Blank
        BY <2>1, <3>1, <3>3 DEF Known, Before, Out!AllUnknown, Out!AllBlank
      <4> QED BY <2>1, <4>1 DEF Shows
    <3>4. CASE ~Draws(f, c) /\ size = drawn
      <4>1. prev'[i] = prev[i] /\ cells'[c] = cells[c]
        BY <2>1, <3>4 DEF Known, Before
      <4>2. c \notin lost
        BY <2>1, <2>2, <3>4
      <4>3. Shows(c, prev[i])
        BY <3>4, <4>2 DEF PrevInv
      <4> QED BY <2>1, <4>1, <4>3 DEF Shows, Out!Shade
    <3> QED BY <3>2, <3>3, <3>4
  <2> QED BY <2>1, <2>2 DEF PrevInv
<1>3. CASE UNCHANGED surfaceVars
  BY <1>3 DEF surfaceVars, PrevInv, Shows, Out!Shade
<1> QED BY <1>1, <1>2, <1>3, SurfaceSteps

(* A cell comes back blank, and is no longer lost once it is drawn.        *)
LEMMA LostStep ==
  Out!TypeOK /\ LostInv /\ [Next]_vars => LostInv'
<1> SUFFICES ASSUME Out!TypeOK, LostInv, [Next]_vars PROVE LostInv'
  OBVIOUS
<1>1. ASSUME NEW s \in Sizes, Out!Resize(s) PROVE LostInv'
  BY <1>1 DEF Out!Resize, LostInv
<1>2. ASSUME NEW f \in Frames, Out!Present(f) PROVE LostInv'
  <2>1. /\ size' = size
        /\ cells' = [c \in Out!Area(size) |->
                       IF Draws(f, c) THEN Out!Shade(f[c]) ELSE Before[c]]
        /\ lost' = IF size # drawn THEN {} ELSE {c \in lost : ~Draws(f, c)}
    BY <1>2, PresentEffect
  <2> QED BY <2>1 DEF LostInv, Before
<1>3. CASE UNCHANGED surfaceVars
  BY <1>3 DEF surfaceVars, LostInv
<1> QED BY <1>1, <1>2, <1>3, SurfaceSteps

(* present() leaves m_prev equal to the frame, until the size changes.     *)
LEMMA ShownStep ==
  Out!TypeOK /\ ShownInv /\ [Next]_vars => ShownInv'
<1> SUFFICES ASSUME Out!TypeOK, ShownInv, [Next]_vars PROVE ShownInv'
  OBVIOUS
<1>1. ASSUME NEW s \in Sizes, Out!Resize(s) PROVE ShownInv'
  <2>1. DOMAIN Out!NoFrame = {}
    BY DEF Out!NoFrame
  <2> QED BY <1>1, <2>1 DEF Out!Resize, ShownInv
<1>2. ASSUME NEW f \in Frames, Out!Present(f) PROVE ShownInv'
  <2>1. /\ drawn' = size /\ size' = size /\ shown' = f
        /\ \A c \in Out!Area(size) :
             prev'[Out!Index(size, c)] =
               IF Draws(f, c) THEN f[c] ELSE Known[Out!Index(size, c)]
    BY <1>2, PresentEffect
  <2>2. ASSUME NEW c \in Out!Area(size) \cap DOMAIN f
        PROVE  prev'[Out!Index(size, c)] = f[c]
    BY <2>1 DEF Draws
  <2> QED BY <2>1, <2>2 DEF ShownInv
<1>3. CASE UNCHANGED surfaceVars
  BY <1>3 DEF surfaceVars, ShownInv
<1> QED BY <1>1, <1>2, <1>3, SurfaceSteps

(* The surface's invariant holds in every state of the loop.               *)
LEMMA SurfaceInvariant == Spec => []SurfaceInv
<1>1. Init => SurfaceInv
  <2> SUFFICES ASSUME Init PROVE SurfaceInv
    OBVIOUS
  <2>1. /\ colors \in BOOLEAN /\ size \in Sizes /\ drawn = size
        /\ prev = Out!AllUnknown(size) /\ cells = Out!AllBlank(size)
        /\ shown = Out!NoFrame /\ lost = {}
    BY DEF Init, Out!Init
  <2>2. Out!TypeOK
    BY <2>1 DEF Out!TypeOK, Out!AllUnknown, Out!AllBlank, Out!Blank, Out!Glyphs
  <2>3. PrevInv
    <3>1. ASSUME NEW c \in Out!Area(size)
          PROVE  prev[Out!Index(size, c)] = Out!Unknown /\ cells[c] = Out!Blank
      BY <2>1, IndexInRange DEF Out!AllUnknown, Out!AllBlank
    <3> QED BY <2>1, <3>1 DEF PrevInv, Shows
  <2>4. LostInv
    BY <2>1 DEF LostInv
  <2>5. ShownInv
    <3>1. DOMAIN Out!NoFrame = {}
      BY DEF Out!NoFrame
    <3> QED BY <2>1, <3>1 DEF ShownInv
  <2> QED BY <2>2, <2>3, <2>4, <2>5 DEF SurfaceInv
<1>2. SurfaceInv /\ [Next]_vars => SurfaceInv'
  BY SurfaceTypes, PrevStep, LostStep, ShownStep DEF SurfaceInv
<1> QED BY <1>1, <1>2, PTL DEF Spec

(* After present() the terminal shows the frame wherever both have a cell, *)
(* through every change of size, with the two exceptions that the property *)
(* names: white where nothing was drawn, and cells that came back blank    *)
(* (TerminalSurface::present).                                             *)
THEOREM ScreenShowsFrameHolds == Spec => []ScreenShowsFrame
<1>1. SurfaceInv => ScreenShowsFrame
  <2> SUFFICES ASSUME SurfaceInv, NEW c \in Out!Area(size) \cap DOMAIN shown
               PROVE  \/ cells[c] = Out!Shade(shown[c])
                      \/ cells[c] = Out!Blank /\ (shown[c] = Out!Unknown \/ c \in lost)
    BY DEF ScreenShowsFrame, Out!ScreenShowsFrame
  <2>1. size = drawn /\ prev[Out!Index(size, c)] = shown[c]
    BY DEF SurfaceInv, ShownInv
  <2>2. CASE c \in lost
    BY <2>2 DEF SurfaceInv, LostInv
  <2>3. CASE c \notin lost
    <3>1. Shows(c, shown[c])
      BY <2>1, <2>3 DEF SurfaceInv, PrevInv
    <3> QED BY <3>1 DEF Shows
  <2> QED BY <2>2, <2>3
<1> QED BY <1>1, SurfaceInvariant, PTL

(* White is the only colour of which a cell is missed: frames without      *)
(* opaque white are drawn whole, as the comment on m_prev has it           *)
(* (TerminalSurface::ensure_backbuffer_).                                  *)
THEOREM OtherColorsAreDrawn ==
  ASSUME Out!Unknown \notin Pixels
  PROVE  Spec => []EveryCellDrawn
<1>1. SurfaceInv /\ ScreenShowsFrame => EveryCellDrawn
  <2> SUFFICES ASSUME SurfaceInv, ScreenShowsFrame,
                      NEW c \in (Out!Area(size) \cap DOMAIN shown) \ lost
               PROVE  cells[c] = Out!Shade(shown[c])
    BY DEF EveryCellDrawn, Out!EveryCellDrawn
  <2>1. shown[c] \in Pixels
    <3>1. shown \in Frames \cup {Out!NoFrame}
      BY DEF SurfaceInv, Out!TypeOK
    <3>2. DOMAIN Out!NoFrame = {}
      BY DEF Out!NoFrame
    <3>3. \A f \in Frames : f \in [DOMAIN f -> Pixels]
      BY TerminalAssumption DEF TerminalAssumption, Out!SurfaceAssumption
    <3> QED BY <3>1, <3>2, <3>3
  <2> QED BY <2>1 DEF ScreenShowsFrame, Out!ScreenShowsFrame
<1> QED BY <1>1, SurfaceInvariant, ScreenShowsFrameHolds, PTL

(* Every variable of the platform has its type in every reachable state.   *)
THEOREM TypeCorrect == Spec => []TypeOK
<1> DEFINE StageOK == stage \in {"input", "pump", "present"}
<1>1. Init => StageOK
  BY DEF Init
<1>2. StageOK /\ [Next]_vars => StageOK'
  <2> SUFFICES ASSUME StageOK, [Next]_vars PROVE StageOK'
    OBVIOUS
  <2> QED BY DEF Next, vars, UserActs, StartInput, ReadKey, EndInput, PresentFrame
<1>3. InputInv /\ SurfaceInv /\ StageOK => TypeOK
  BY DEF InputInv, SurfaceInv, TypeOK
<1> HIDE DEF StageOK
<1> QED BY <1>1, <1>2, <1>3, InputInvariant, SurfaceInvariant, PTL DEF Spec
=============================================================================
