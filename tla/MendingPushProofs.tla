------------------------- MODULE MendingPushProofs -------------------------
(***************************************************************************)
(* The proof that a lost push is made up for, for any number of producers  *)
(* and any capacity, on the memory that lets loads pass stores.            *)
(***************************************************************************)
EXTENDS MendingPush, RenderQueueProofs

(* A mending push sees the mark of every slot up to its own, and no        *)
(* producer works on a frontier ahead of m_published.                      *)
MendInv ==
  /\ mending \subseteq Producers
  /\ \A p \in mending :
       /\ pc[p] \in {"store", "publish", "check", "cas"}
       /\ \A i \in 0 .. myIdx[p] - 1 : seq[i] = frame
       /\ pc[p] # "store" => unflushed[p] > 0 \/ seq[myIdx[p]] = frame
  /\ \A p \in Producers : pc[p] \in {"check", "cas"} => myP[p] <= published

(* A fresh queue has no push in progress.                                  *)
LEMMA MendInit == MInit => MendInv
BY DEF MInit, Init, MendInv

(* A producer that takes a step other than the claim of a slot keeps its   *)
(* slot; marks of this frame are never taken back before the next.         *)
LEMMA MarksStay ==
  ASSUME IInv, NEW p \in Producers, Push(p) \/ Drain(p)
  PROVE  /\ frame' = frame
         /\ \A i \in Slots : seq[i] = frame => seq'[i] = frame
         /\ \A q \in Producers : q # p => pc'[q] = pc[q] /\ myIdx'[q] = myIdx[q]
         /\ \A q \in Producers : q # p => unflushed'[q] = unflushed[q] /\ myP'[q] = myP[q]
         /\ published <= published'
<1> USE DEF memory, locals
<1>0. TypeOK /\ published <= published
  BY DEF IInv, TypeOK
<1>1. ASSUME NEW size \in TextSizes, ReserveText(p, size) PROVE UNCHANGED <<frame, seq, published>>
  BY <1>1 DEF ReserveText
<1>2. CASE \E size \in TextSizes : ReserveText(p, size)
  BY <1>0, <1>2 DEF ReserveText, Goto, TypeOK
<1>3. CASE CopyText(p) \/ LoadFrame(p)
  BY <1>0, <1>3 DEF CopyText, LoadFrame, Goto, TypeOK
<1>4. CASE Claim(p) \/ Store(p)
  BY <1>0, <1>4 DEF Claim, Store, Goto, TypeOK
<1>5. CASE LoadPublished(p) \/ CheckReady(p)
  BY <1>0, <1>5 DEF LoadPublished, CheckReady, Goto, TypeOK
<1>6. CASE Cas(p)
  <2>1. published <= published'
    BY <1>0, <1>6 DEF Cas, TypeOK, Slots
  <2> QED BY <1>0, <1>6, <2>1 DEF Cas, Goto, TypeOK
<1>7. CASE Drain(p)
  <2>1. myFrame[p] = frame /\ unflushed[p] > 0
    BY <1>0, <1>7 DEF Drain, IInv, FrameInv, TypeOK
  <2>2. \/ seq' = seq
        \/ seq' = [seq EXCEPT ![myIdx[p]] = myFrame[p]]
    BY <1>7 DEF Drain
  <2>3. \A i \in Slots : seq[i] = frame => seq'[i] = frame
    BY <1>0, <2>1, <2>2 DEF TypeOK
  <2> QED BY <1>0, <1>7, <2>3 DEF Drain, TypeOK
<1> QED BY <1>2, <1>3, <1>4, <1>5, <1>6, <1>7 DEF Push

(* Every step keeps MendInv.                                               *)
LEMMA MendStep ==
  ASSUME IInv, MendInv, [MNext]_mvars PROVE MendInv'
<1> USE DEF memory, locals
<1>0. TypeOK /\ \A q \in Producers : \A i \in 0 .. myIdx[q] - 1 : i \in Slots
  BY QueueAssumption DEF IInv, TypeOK, Slots, Words
<1>1. CASE UNCHANGED mvars
  BY <1>1 DEF mvars, vars, MendInv
<1>2. CASE BeginFrame /\ MNext
  <2>1. \A q \in Producers : pc[q] = "idle" /\ pc'[q] = "idle"
    BY <1>2 DEF BeginFrame, AtRest
  <2>2. mending' = {}
    BY <1>2, <2>1 DEF MNext, ClaimsAfterAll
  <2> QED BY <2>1, <2>2 DEF MendInv
<1>3. ASSUME NEW p \in Producers, Push(p) \/ Drain(p), MNext PROVE MendInv'
  <2>1. /\ frame' = frame
        /\ \A i \in Slots : seq[i] = frame => seq'[i] = frame
        /\ \A q \in Producers : q # p => pc'[q] = pc[q] /\ myIdx'[q] = myIdx[q]
        /\ \A q \in Producers : q # p => unflushed'[q] = unflushed[q] /\ myP'[q] = myP[q]
        /\ published <= published'
    BY <1>3, MarksStay
  <2>2. \A q \in Producers : q # p /\ q \in mending' => q \in mending
    BY <1>3, <2>1 DEF MNext, ClaimsAfterAll
  <2>3. mending' \subseteq Producers
    BY <1>3 DEF MNext
  <2>4. published \in Nat /\ published' \in Nat /\ \A q \in Producers : myP[q] \in Nat
    <3>1. TypeOK'
      BY <1>0, <1>3, TypeInductive DEF MNext
    <3> QED BY <1>0, <3>1, QueueAssumption DEF TypeOK, Slots
  <2>5. ASSUME NEW q \in mending', q # p
        PROVE  /\ pc'[q] \in {"store", "publish", "check", "cas"}
               /\ \A i \in 0 .. myIdx'[q] - 1 : seq'[i] = frame'
               /\ pc'[q] # "store" => unflushed'[q] > 0 \/ seq'[myIdx'[q]] = frame'
    <3>1. q \in mending /\ q \in Producers /\ myIdx[q] \in Slots
      BY <1>0, <2>2, <2>3, <2>5 DEF TypeOK
    <3> QED BY <1>0, <2>1, <2>5, <3>1 DEF MendInv
  <2>6. \A q \in Producers : q # p /\ pc'[q] \in {"check", "cas"} => myP'[q] <= published'
    BY <2>1, <2>4 DEF MendInv
  <2>7. /\ p \in mending' =>
             /\ pc'[p] \in {"store", "publish", "check", "cas"}
             /\ \A i \in 0 .. myIdx'[p] - 1 : seq'[i] = frame'
             /\ pc'[p] # "store" => unflushed'[p] > 0 \/ seq'[myIdx'[p]] = frame'
        /\ pc'[p] \in {"check", "cas"} => myP'[p] <= published'
    <3>1. p \in mending' => ClaimsAfterAll(p) \/ (p \in mending /\ pc'[p] # "idle")
      BY <1>3 DEF MNext
    <3>2. CASE (\E size \in TextSizes : ReserveText(p, size)) \/ CopyText(p) \/ LoadFrame(p)
      <4>1. /\ pc[p] \in {"idle", "copy", "frame"}
            /\ pc'[p] \in {"idle", "copy", "frame", "claim"}
        BY <1>0, <3>2 DEF ReserveText, CopyText, LoadFrame, Goto, TypeOK
      <4> QED BY <3>1, <4>1 DEF MendInv, ClaimsAfterAll
    <3>3. CASE Claim(p)
      <4>1. pc[p] = "claim" /\ pc'[p] \in {"idle", "store"}
        BY <1>0, <3>3 DEF Claim, Goto, TypeOK
      <4>2. pc'[p] = "store" => myIdx'[p] = claimed /\ seq' = seq
        BY <1>0, <3>3 DEF Claim, Goto, TypeOK
      <4> QED BY <2>1, <3>1, <4>1, <4>2 DEF MendInv, ClaimsAfterAll
    <3>4. CASE Store(p)
      <4>1. /\ pc[p] = "store" /\ pc'[p] = "publish"
            /\ unflushed'[p] = 2 /\ myIdx'[p] = myIdx[p]
        BY <1>0, <3>4 DEF Store, Goto, TypeOK
      <4> QED BY <1>0, <2>1, <3>1, <4>1 DEF MendInv, ClaimsAfterAll
    <3>5. CASE LoadPublished(p)
      <4>1. /\ pc[p] = "publish" /\ unflushed' = unflushed /\ myIdx' = myIdx
            /\ seq' = seq /\ published' = published
            /\ pc'[p] = "idle" \/ (pc'[p] = "check" /\ myP'[p] = published)
        BY <1>0, <3>5 DEF LoadPublished, Goto, TypeOK
      <4> QED BY <2>1, <2>4, <3>1, <4>1 DEF MendInv, ClaimsAfterAll
    <3>6. CASE CheckReady(p)
      <4>1. /\ pc[p] = "check" /\ pc'[p] \in {"cas", "idle"}
            /\ UNCHANGED <<unflushed, myIdx, myP, seq, published>>
        BY <1>0, <3>6 DEF CheckReady, Goto, TypeOK
      <4> QED BY <2>1, <3>1, <4>1 DEF MendInv, ClaimsAfterAll
    <3>7. CASE Cas(p)
      <4>1. /\ pc[p] = "cas" /\ pc'[p] = "publish"
            /\ UNCHANGED <<unflushed, myIdx, seq>>
        BY <1>0, <3>7 DEF Cas, Goto, TypeOK
      <4> QED BY <2>1, <3>1, <4>1 DEF MendInv, ClaimsAfterAll
    <3>8. CASE Drain(p)
      <4>1. /\ UNCHANGED <<pc, myIdx, myP, published>>
            /\ unflushed[p] \in 1 .. 2 /\ unflushed'[p] = unflushed[p] - 1
            /\ myFrame[p] = frame /\ myIdx[p] \in Slots
        BY <1>0, <3>8 DEF Drain, IInv, FrameInv, TypeOK
      <4>2. unflushed[p] = 1 => seq'[myIdx[p]] = frame
        BY <1>0, <3>8, <4>1 DEF Drain, TypeOK
      <4>3. unflushed[p] = 2 => unflushed'[p] > 0
        BY <4>1
      <4>4. pc[p] # "store"
        BY <1>0, <4>1 DEF IInv, FrameInv
      <4>5. p \in mending' => p \in mending
        BY <3>1, <4>1 DEF ClaimsAfterAll
      <4> QED BY <1>0, <2>1, <4>1, <4>2, <4>3, <4>4, <4>5 DEF MendInv
    <3> QED BY <1>3, <3>2, <3>3, <3>4, <3>5, <3>6, <3>7, <3>8 DEF Push
  <2> QED BY <2>3, <2>5, <2>6, <2>7 DEF MendInv
<1> QED BY <1>1, <1>2, <1>3 DEF MNext, Next

(* A step of a mending push that returns leaves its slot published.        *)
LEMMA MendReturn ==
  ASSUME IInv, MendInv, [MNext]_mvars, NEW p \in mending, pc'[p] = "idle"
  PROVE  published' > myIdx[p]
<1> USE DEF memory, locals
<1>0. /\ TypeOK /\ p \in Producers
      /\ pc[p] \in {"store", "publish", "check", "cas"}
      /\ myIdx[p] \in 0 .. KMax - 1 /\ published \in Nat
      /\ myFrame[p] = frame
  BY QueueAssumption DEF IInv, FrameInv, MendInv, TypeOK, Slots
<1>1. \/ LoadPublished(p)
      \/ CheckReady(p)
  <2>1. ~UNCHANGED mvars /\ ~BeginFrame
    BY <1>0 DEF mvars, vars, BeginFrame, AtRest
  <2>2. PICK q \in Producers : Push(q) \/ Drain(q)
    BY <2>1 DEF MNext, Next
  <2>3. q = p
    BY <1>0, <2>2, MarksStay
  <2>4. ~Drain(p) /\ ~Store(p) /\ ~Cas(p)
    BY <1>0 DEF Drain, Store, Cas, Goto, TypeOK
  <2>5. ~CopyText(p) /\ ~LoadFrame(p) /\ ~Claim(p) /\ \A size \in TextSizes : ~ReserveText(p, size)
    BY <1>0 DEF CopyText, LoadFrame, Claim, ReserveText
  <2> QED BY <2>2, <2>3, <2>4, <2>5 DEF Push
<1>2. CASE LoadPublished(p)
  BY <1>0, <1>2, QueueAssumption DEF LoadPublished, Goto, TypeOK, Words
<1>3. CASE CheckReady(p)
  <2>1. pc[p] = "check" /\ SeenSeq(p, myP[p]) # frame /\ published' = published
    BY <1>0, <1>3 DEF CheckReady, Goto, TypeOK
  <2>2. myP[p] \in 0 .. KMax - 1 /\ myP[p] <= published
    BY <1>0, <2>1 DEF MendInv, TypeOK, Slots
  <2>3. myP[p] # myIdx[p]
    BY <1>0, <2>1 DEF SeenSeq, MendInv
  <2>4. myP[p] \notin 0 .. myIdx[p] - 1
    BY <1>0, <2>1, <2>3 DEF SeenSeq, MendInv
  <2> QED BY <1>0, <2>1, <2>2, <2>3, <2>4, QueueAssumption
<1> QED BY <1>1, <1>2, <1>3

(* The first push after all threads have been joined publishes its own     *)
(* command and all that were recorded before it, also those that were lost *)
(* (RenderQueue.hpp, publish_), if neither m_frame nor m_claimed wraps.    *)
THEOREM LostPushesAreMended == ASSUME NoWrap PROVE MSpec => MendsLostPushes
<1>1. MInit => Init /\ IInv /\ MendInv
  BY IInvInit, MendInit DEF MInit
<1>2. IInv /\ MendInv /\ [MNext]_mvars => IInv' /\ MendInv'
  <2>1. [MNext]_mvars => [Next]_vars
    BY DEF MNext, mvars
  <2> QED BY <2>1, IInvStep, MendStep
<1>3. IInv /\ MendInv /\ [MNext]_mvars
        => [\A p \in mending : pc'[p] = "idle" => published' > myIdx[p]]_mvars
  BY MendReturn
<1> QED BY <1>1, <1>2, <1>3, PTL DEF MSpec, MendsLostPushes
=============================================================================
