------------------------- MODULE RenderQueueProofs -------------------------
(***************************************************************************)
(* Proofs about RenderQueue, for any number of producers and any capacity. *)
(* The counters are 32 bits wide; each theorem names the ones that must    *)
(* not pass 2^32 - 1 for it to hold.                                       *)
(***************************************************************************)
EXTENDS RenderQueue, FiniteSetTheorems, SequenceTheorems, TLAPS

(* m_frame and m_claimed do not wrap around: fewer than 2^32 frames are    *)
(* begun, and fewer than 2^32 pushes within one of them.                   *)
NoWrap == LastFrame < Modulus /\ MaxClaims + Cardinality(Producers) < Modulus

(* Nor does m_text_ofs: the texts of a frame, refused ones included, ask   *)
(* for fewer than 2^32 bytes.                                              *)
NoTextWrap == MaxTextOfs < Modulus

(* p owns slot myIdx[p] and its ready mark is not in memory yet. *)
Holder(p) == pc[p] = "store" \/ unflushed[p] > 0

(* The mark of a slot is never newer than the frame; that of the current   *)
(* frame is only on slots claimed and written in it.                       *)
MarksInv ==
  /\ \A i \in Slots : seq[i] <= frame
  /\ \A i \in Slots : seq[i] = frame => slot[i] # Stale /\ i < claimed

(* A push that has read m_frame and is not finished read the current one.  *)
FrameInv ==
  \A p \in Producers :
    /\ pc[p] \in {"claim", "store", "publish", "check", "cas"} \/ unflushed[p] > 0
         => myFrame[p] = frame
    /\ pc[p] \in {"copy", "frame", "claim", "store"} => unflushed[p] = 0

(* A claimed slot has one owner until its mark is set.                     *)
HolderInv ==
  /\ \A p \in Producers :
       Holder(p) => myIdx[p] < claimed /\ seq[myIdx[p]] # frame
  /\ \A p, q \in Producers : p # q /\ Holder(p) /\ Holder(q) => myIdx[p] # myIdx[q]
  /\ \A p \in Producers : unflushed[p] = 1 => slot[myIdx[p]] # Stale

(* The frontier passed only marked slots, and a producer about to move it  *)
(* has seen the mark, in memory or in its own buffer.                      *)
FrontierInv ==
  /\ \A i \in 0 .. published - 1 : seq[i] = frame
  /\ \A p \in Producers :
       pc[p] = "cas" => \/ seq[myP[p]] = frame
                        \/ unflushed[p] > 0 /\ myIdx[p] = myP[p]

(* A push begins only while m_claimed is below its bound, so it stays      *)
(* below that plus the number of producers.                                *)
Begun == {p \in Producers : pc[p] \in {"copy", "frame", "claim"}}
ClaimBound == claimed + Cardinality(Begun) <= MaxClaims + Cardinality(Producers)

IInv == TypeOK /\ MarksInv /\ FrameInv /\ HolderInv /\ FrontierInv /\ ClaimBound

-----------------------------------------------------------------------------
(* When the loads of publish_() wait for the store buffer.                 *)

(* Every claimed slot is marked or still owned, the frontier a producer    *)
(* works on is not ahead of m_published, and as long as the next slot is   *)
(* ready somebody is in publish_() to move the frontier over it.           *)
FencedInv ==
  /\ \A p \in Producers : unflushed[p] > 0 => pc[p] = "publish"
  /\ \A p \in Producers : pc[p] \in {"check", "cas"} => myP[p] <= published
  /\ \A i \in Slots : i < claimed =>
       seq[i] = frame \/ \E p \in Producers : Holder(p) /\ myIdx[p] = i
  /\ published < KMax /\ seq[published] = frame =>
       \E p \in Producers : pc[p] \in {"publish", "check", "cas"}

FInv == IInv /\ FencedInv

-----------------------------------------------------------------------------
(* Counting modulo 2^32 stays within 32 bits, and is counting below that.  *)
LEMMA WordArithmetic ==
  /\ 0 \in Words
  /\ \A n \in Nat : n % Modulus \in Words /\ (n < Modulus => n % Modulus = n)
  /\ \A w \in Words : (w + 1) % Modulus \in Words
<1>1. /\ 0 \in Words
      /\ \A n \in Nat : n % Modulus \in Words /\ (n < Modulus => n % Modulus = n)
  BY QueueAssumption DEF Words
<1>2. ASSUME NEW w \in Words PROVE (w + 1) % Modulus \in Words
  <2>1. w + 1 \in Nat
    BY QueueAssumption DEF Words
  <2> DEFINE n == w + 1
  <2>2. n \in Nat
    BY <2>1
  <2> HIDE DEF n
  <2>3. n % Modulus \in Words
    BY <1>1, <2>2
  <2> QED BY <2>3 DEF n
<1> QED BY <1>1, <1>2

(* The ranges text() hands out are texts, and so is the absence of one.     *)
LEMMA TextTyping ==
  /\ NoText \in Texts
  /\ \A ofs, len \in Words : [ofs |-> ofs, len |-> len] \in Texts
BY WordArithmetic DEF NoText, Texts

(* What a push writes into its slot is a command.                          *)
LEMMA CmdTyping == ASSUME TypeOK, NEW p \in Producers PROVE CmdOf(p) \in Cmds
BY DEF TypeOK, CmdOf, Cmds, Texts

(* The initial values have their types, and every action leaves every       *)
(* variable in its type.                                                    *)
LEMMA TypeInductive ==
  /\ Init => TypeOK
  /\ TypeOK /\ [Next]_vars => TypeOK'
<1>1. Init => TypeOK
  <2>1. ASSUME Init PROVE TypeOK
    <3>1. 0 \in Words /\ 1 \in Words /\ 0 \in Slots /\ KMax \in Nat /\ TextArenaBytes \in Nat
      BY QueueAssumption DEF Words, Slots
    <3> QED
      BY <2>1, <3>1, TextTyping DEF Init, TypeOK, PCs
  <2> QED BY <2>1
<1>2. ASSUME TypeOK, [Next]_vars PROVE TypeOK'
  <2> USE <1>2 DEF TypeOK, memory, locals
  <2>0. ASSUME NEW p \in Producers, NEW there \in PCs, Goto(p, there)
        PROVE  pc' \in [Producers -> PCs]
    BY <2>0 DEF Goto
  <2>1. CASE BeginFrame
    <3>1. frame' \in Words /\ 0 \in Words /\ KMax \in Nat /\ TextArenaBytes \in Nat
      BY <2>1, WordArithmetic, QueueAssumption DEF BeginFrame, Words
    <3> QED BY <2>1, <3>1 DEF BeginFrame
  <2>2. ASSUME NEW p \in Producers, NEW size \in TextSizes, ReserveText(p, size)
        PROVE TypeOK'
    <3> DEFINE len == size % Modulus
    <3> DEFINE end == (textOfs + len + 1) % Modulus
    <3>1. len \in Words /\ end \in Words /\ textOfs \in Words
      <4>1. size \in Nat /\ textOfs \in Nat
        BY QueueAssumption DEF Words
      <4>2. len \in Words
        BY <4>1, WordArithmetic
      <4>3. textOfs + len + 1 \in Nat
        BY <4>1, <4>2 DEF Words
      <4> QED BY <4>2, <4>3, WordArithmetic
    <3>2. myText' \in [Producers -> Texts]
      <4>1. CASE UNCHANGED myText
        BY <4>1
      <4>2. CASE myText' = [myText EXCEPT ![p] = [ofs |-> textOfs, len |-> len]]
        <5>1. [ofs |-> textOfs, len |-> len] \in Texts
          BY <3>1, TextTyping
        <5> QED BY <4>2, <5>1
      <4> QED BY <2>2, <4>1, <4>2 DEF ReserveText
    <3>3. dropped' \in Words /\ (UNCHANGED pc \/ Goto(p, "copy"))
      <4>1. (dropped + 1) % Modulus \in Words
        BY WordArithmetic
      <4> QED BY <2>2, <4>1 DEF ReserveText
    <3>4. /\ textOfs' \in Words
          /\ UNCHANGED <<frame, claimed, published, seq, slot, arena,
                         myFrame, myIdx, myP, unflushed>>
      BY <2>2, <3>1 DEF ReserveText
    <3> HIDE DEF len, end
    <3> QED BY <2>0, <3>2, <3>3, <3>4 DEF PCs
  <2>3. ASSUME NEW p \in Producers, CopyText(p) PROVE TypeOK'
    <3>1. myText[p].ofs \in Nat /\ myText[p].len \in Nat /\ TextArenaBytes \in Nat
      BY QueueAssumption DEF Texts, Words
    <3>2. \A b \in 0 .. TextArenaBytes - 1 :
            b \in TextRange(myText[p]) => myText[p].ofs \in 0 .. TextArenaBytes
      BY <3>1 DEF TextRange
    <3>4. arena' \in [0 .. TextArenaBytes - 1 -> 0 .. TextArenaBytes]
      BY <2>3, <3>2 DEF CopyText
    <3>3. Goto(p, "frame")
      BY <2>3 DEF CopyText
    <3> QED BY <2>0, <2>3, <3>3, <3>4 DEF CopyText, PCs
  <2>4. ASSUME NEW p \in Producers, LoadFrame(p) PROVE TypeOK'
    <3>1. myText' \in [Producers -> Texts]
      <4>1. NoText \in Texts
        BY TextTyping
      <4>2. \/ myText' = myText
            \/ myText' = [myText EXCEPT ![p] = NoText]
        BY <2>4 DEF LoadFrame
      <4> QED BY <4>1, <4>2
    <3>2. Goto(p, "claim") /\ myFrame' \in [Producers -> Words]
      BY <2>4 DEF LoadFrame
    <3>3. UNCHANGED <<memory, myIdx, myP, unflushed>>
      BY <2>4 DEF LoadFrame
    <3> QED BY <2>0, <3>1, <3>2, <3>3 DEF PCs
  <2>5. ASSUME NEW p \in Producers, Claim(p) PROVE TypeOK'
    <3>0. \/ UNCHANGED myIdx
          \/ claimed \in Slots /\ myIdx' = [myIdx EXCEPT ![p] = claimed]
      BY <2>5, QueueAssumption DEF Claim, Slots, Words
    <3>1. myIdx' \in [Producers -> Slots]
      BY <3>0
    <3>2. dropped' \in Words /\ (Goto(p, "idle") \/ Goto(p, "store"))
      <4>1. (dropped + 1) % Modulus \in Words
        BY WordArithmetic
      <4> QED BY <2>5, <4>1 DEF Claim
    <3>3. /\ claimed' \in Words
          /\ UNCHANGED <<frame, published, textOfs, seq, slot, arena,
                         myFrame, myP, myText, unflushed>>
      <4>1. (claimed + 1) % Modulus \in Words
        BY WordArithmetic
      <4> QED BY <2>5, <4>1 DEF Claim
    <3> QED BY <2>0, <3>1, <3>2, <3>3 DEF PCs
  <2>6. ASSUME NEW p \in Producers, Store(p) PROVE TypeOK'
    <3>1. Goto(p, "publish")
      BY <2>6 DEF Store
    <3> QED BY <2>0, <2>6, <3>1 DEF Store, PCs
  <2>7. ASSUME NEW p \in Producers, LoadPublished(p) PROVE TypeOK'
    <3>0. \/ UNCHANGED myP
          \/ published \in Slots /\ myP' = [myP EXCEPT ![p] = published]
      BY <2>7, QueueAssumption DEF LoadPublished, Slots, Words
    <3>1. myP' \in [Producers -> Slots]
      BY <3>0
    <3>2. /\ Goto(p, "idle") \/ Goto(p, "check")
          /\ UNCHANGED <<memory, myFrame, myIdx, myText, unflushed>>
      BY <2>7 DEF LoadPublished
    <3> QED BY <2>0, <3>1, <3>2 DEF PCs
  <2>8. ASSUME NEW p \in Producers, CheckReady(p) PROVE TypeOK'
    <3>1. Goto(p, "idle") \/ Goto(p, "cas")
      BY <2>8 DEF CheckReady
    <3> QED BY <2>0, <2>8, <3>1 DEF CheckReady, PCs
  <2>9. ASSUME NEW p \in Producers, Cas(p) PROVE TypeOK'
    <3>1. published' \in 0 .. KMax
      BY <2>9, QueueAssumption DEF Cas, Slots, Words
    <3>2. Goto(p, "publish")
      BY <2>9 DEF Cas
    <3> QED BY <2>0, <2>9, <3>1, <3>2 DEF Cas, PCs
  <2>10. ASSUME NEW p \in Producers, Drain(p) PROVE TypeOK'
    <3>1. CmdOf(p) \in Cmds
      BY CmdTyping
    <3>2. unflushed' \in [Producers -> 0 .. 2]
      BY <2>10 DEF Drain
    <3>3. slot' \in [Slots -> Cmds \cup {Stale}]
      BY <2>10, <3>1 DEF Drain
    <3>4. seq' \in [Slots -> Words]
      BY <2>10 DEF Drain
    <3> QED BY <2>10, <3>2, <3>3, <3>4 DEF Drain
  <2>11. CASE UNCHANGED vars
    BY <2>11 DEF vars
  <2> QED
    BY <1>2, <2>1, <2>2, <2>3, <2>4, <2>5, <2>6, <2>7, <2>8, <2>9, <2>10, <2>11
    DEF Next, Push
<1> QED BY <1>1, <1>2

(* In every reachable state of the queue every index a producer holds is a  *)
(* slot, m_published is at most kMax, and the arena offsets are in range.   *)
THEOREM TypeCorrect == Spec => []TypeOK
<1>1. Init => TypeOK
  BY TypeInductive
<1>2. TypeOK /\ [Next]_vars => TypeOK'
  BY TypeInductive
<1> QED BY <1>1, <1>2, PTL DEF Spec

-----------------------------------------------------------------------------
(* m_claimed is below 2^32 in the steps that increase it.                   *)

(* Producers that have begun a push are finitely many producers.           *)
LEMMA BegunFinite ==
  /\ IsFiniteSet(Begun) /\ Cardinality(Begun) \in Nat
  /\ Cardinality(Begun) <= Cardinality(Producers) /\ Cardinality(Producers) \in Nat
BY QueueAssumption, FS_Subset, FS_CardinalityType DEF Begun

(* The same of the next state.                                             *)
LEMMA BegunFiniteNext ==
  /\ IsFiniteSet(Begun') /\ Cardinality(Begun') \in Nat
  /\ Cardinality(Begun') <= Cardinality(Producers) /\ Cardinality(Producers) \in Nat
BY QueueAssumption, FS_Subset, FS_CardinalityType DEF Begun

(* A claim takes its producer out of Begun, every other step of a push     *)
(* either begins one below the bound or lets nobody into Begun.            *)
LEMMA ClaimBoundStep ==
  /\ Init => ClaimBound
  /\ TypeOK /\ ClaimBound /\ [Next]_vars => ClaimBound'
<1>1. Init => ClaimBound
  BY BegunFinite, QueueAssumption DEF Init, ClaimBound
<1>2. ASSUME TypeOK, ClaimBound, [Next]_vars PROVE ClaimBound'
  <2>1. claimed \in Nat /\ MaxClaims \in Nat
    BY <1>2, QueueAssumption DEF TypeOK, Words
  <2>2. CASE claimed' = claimed /\ claimed < MaxClaims
    BY <2>1, <2>2, BegunFiniteNext DEF ClaimBound
  <2>3. CASE claimed' = claimed /\ Begun' \subseteq Begun
    <3>1. Cardinality(Begun') <= Cardinality(Begun)
      BY <2>3, BegunFinite, FS_Subset
    <3> QED BY <1>2, <2>1, <2>3, <3>1, BegunFinite, BegunFiniteNext DEF ClaimBound
  <2>4. CASE claimed' = 0
    BY <2>1, <2>4, BegunFiniteNext, QueueAssumption DEF ClaimBound
  <2>5. ASSUME NEW p \in Producers, Claim(p) PROVE ClaimBound'
    <3>1. p \in Begun /\ Begun' = Begun \ {p}
      BY <1>2, <2>5 DEF Claim, Goto, Begun, TypeOK
    <3>2. Cardinality(Begun') = Cardinality(Begun) - 1
      BY <3>1, BegunFinite, FS_RemoveElement
    <3>3. claimed' \in Nat /\ claimed' <= claimed + 1
      BY <2>1, <2>5, WordArithmetic, QueueAssumption DEF Claim, Words
    <3> QED BY <1>2, <2>1, <3>2, <3>3, BegunFinite, BegunFiniteNext DEF ClaimBound
  <2>6. ASSUME NEW p \in Producers, NEW size \in TextSizes, ReserveText(p, size) PROVE ClaimBound'
    BY <2>2, <2>6 DEF ReserveText
  <2>7. ASSUME NEW p \in Producers, LoadFrame(p) PROVE ClaimBound'
    <3>1. CASE pc[p] = "idle"
      BY <2>2, <2>7, <3>1 DEF LoadFrame, memory
    <3>2. CASE pc[p] = "frame"
      <4>1. Begun' \subseteq Begun
        BY <1>2, <2>7, <3>2 DEF LoadFrame, Goto, Begun, TypeOK
      <4> QED BY <2>3, <2>7, <4>1 DEF LoadFrame, memory
    <3> QED BY <2>7, <3>1, <3>2 DEF LoadFrame
  <2>8. ASSUME NEW p \in Producers,
               \/ CopyText(p) \/ Store(p) \/ Drain(p)
               \/ LoadPublished(p) \/ CheckReady(p) \/ Cas(p)
        PROVE  ClaimBound'
    <3>1. Begun' \subseteq Begun /\ claimed' = claimed
      BY <1>2, <2>8
      DEF CopyText, Store, Drain, LoadPublished, CheckReady, Cas, Goto, Begun, TypeOK, memory
    <3> QED BY <2>3, <3>1
  <2>9. CASE BeginFrame
    BY <2>4, <2>9 DEF BeginFrame
  <2>10. CASE UNCHANGED vars
    BY <2>3, <2>10 DEF vars, memory, locals, Begun
  <2> QED
    BY <1>2, <2>5, <2>6, <2>7, <2>8, <2>9, <2>10 DEF Next, Push
<1> QED BY <1>1, <1>2

(* Within the bound a claim takes the next number.                         *)
LEMMA ClaimCounts ==
  ASSUME NoWrap, TypeOK, ClaimBound, NEW p \in Producers, Claim(p)
  PROVE  claimed' = claimed + 1 /\ claimed \in Nat
<1>1. p \in Begun /\ claimed \in Nat /\ MaxClaims \in Nat /\ Modulus \in Nat
  BY QueueAssumption DEF Claim, Begun, TypeOK, Words
<1>2. Cardinality(Begun) > 0
  BY <1>1, BegunFinite, FS_EmptySet
<1>3. claimed + 1 < Modulus
  BY <1>1, <1>2, BegunFinite DEF NoWrap, ClaimBound
<1> QED BY <1>1, <1>3, WordArithmetic DEF Claim

-----------------------------------------------------------------------------
(* The fresh queue, frame 1 with every m_seq 0, satisfies the invariant.    *)
LEMMA IInvInit == Init => IInv
<1> SUFFICES ASSUME Init PROVE IInv
  OBVIOUS
<1>1. TypeOK
  BY TypeInductive
<1>2. MarksInv /\ FrameInv /\ HolderInv /\ FrontierInv
  BY QueueAssumption DEF Init, MarksInv, FrameInv, HolderInv, FrontierInv, Holder, Slots, Words
<1> QED BY <1>1, <1>2, ClaimBoundStep DEF IInv

(* Every atomic operation of a push, and begin_frame(), keeps the invariant *)
(* as long as m_frame does not wrap around.                                 *)
LEMMA IInvStep == ASSUME NoWrap, IInv, [Next]_vars PROVE IInv'
<1> USE DEF IInv, memory, locals, Words
<1>0. TypeOK /\ TypeOK' /\ ClaimBound'
  BY TypeInductive, ClaimBoundStep
<1>1. CASE BeginFrame
  <2>1. frame' = frame + 1 /\ frame \in Nat
    <3>1. frame \in Nat /\ frame + 1 < Modulus
      BY <1>0, <1>1, BegunFinite, QueueAssumption DEF BeginFrame, NoWrap, TypeOK
    <3> QED BY <1>1, <3>1, WordArithmetic DEF BeginFrame
  <2>2. \A p \in Producers : pc'[p] = "idle" /\ unflushed'[p] = 0
    BY <1>1 DEF BeginFrame, AtRest
  <2>3. MarksInv'
    <3>1. ASSUME NEW i \in Slots PROVE seq'[i] < frame'
      <4>1. seq[i] \in Nat /\ seq[i] <= frame /\ seq' = seq
        BY <1>0, <1>1 DEF BeginFrame, TypeOK, MarksInv
      <4> QED BY <4>1, <2>1
    <3>2. \A i \in Slots : seq'[i] \in Nat /\ frame' \in Nat
      BY <1>0 DEF TypeOK
    <3> QED BY <3>1, <3>2 DEF MarksInv
  <2>4. FrameInv' /\ HolderInv'
    BY <2>2 DEF FrameInv, HolderInv, Holder
  <2>5. FrontierInv'
    BY <1>1, <2>2 DEF FrontierInv, BeginFrame
  <2> QED BY <1>0, <2>3, <2>4, <2>5
<1>2. ASSUME NEW p \in Producers, NEW size \in TextSizes, ReserveText(p, size) PROVE IInv'
  <2>1. MarksInv'
    BY <1>0, <1>2 DEF ReserveText, Goto, MarksInv, TypeOK
  <2>2. FrameInv'
    BY <1>0, <1>2 DEF ReserveText, Goto, FrameInv, TypeOK
  <2>3. HolderInv'
    BY <1>0, <1>2 DEF ReserveText, Goto, HolderInv, Holder, FrameInv, TypeOK
  <2>4. FrontierInv'
    BY <1>0, <1>2 DEF ReserveText, Goto, FrontierInv, FrameInv, TypeOK
  <2> QED BY <1>0, <2>1, <2>2, <2>3, <2>4
<1>3. ASSUME NEW p \in Producers, CopyText(p) PROVE IInv'
  <2>1. MarksInv'
    BY <1>0, <1>3 DEF CopyText, Goto, MarksInv, TypeOK
  <2>2. FrameInv'
    BY <1>0, <1>3 DEF CopyText, Goto, FrameInv, TypeOK
  <2>3. HolderInv'
    BY <1>0, <1>3 DEF CopyText, Goto, HolderInv, Holder, FrameInv, TypeOK
  <2>4. FrontierInv'
    BY <1>0, <1>3 DEF CopyText, Goto, FrontierInv, FrameInv, TypeOK
  <2> QED BY <1>0, <2>1, <2>2, <2>3, <2>4
<1>4. ASSUME NEW p \in Producers, LoadFrame(p) PROVE IInv'
  <2>1. MarksInv'
    BY <1>0, <1>4 DEF LoadFrame, Goto, MarksInv, TypeOK
  <2>2. FrameInv'
    BY <1>0, <1>4 DEF LoadFrame, Goto, FrameInv, TypeOK
  <2>3. HolderInv'
    BY <1>0, <1>4 DEF LoadFrame, Goto, HolderInv, Holder, FrameInv, TypeOK
  <2>4. FrontierInv'
    BY <1>0, <1>4 DEF LoadFrame, Goto, FrontierInv, FrameInv, TypeOK
  <2> QED BY <1>0, <2>1, <2>2, <2>3, <2>4
<1>5. ASSUME NEW p \in Producers, Claim(p) PROVE IInv'
  <2>1. MarksInv'
    <3>1. /\ claimed' = claimed + 1 /\ claimed \in Nat
          /\ UNCHANGED <<seq, slot, frame>>
      BY <1>0, <1>5, ClaimCounts DEF Claim
    <3>2. \A i \in Slots : i \in Nat
      BY DEF Slots
    <3> QED BY <3>1, <3>2 DEF MarksInv
  <2>2. FrameInv'
    BY <1>0, <1>5 DEF Claim, Goto, FrameInv, TypeOK
  <2>3. HolderInv'
    <3>1. /\ claimed' = claimed + 1 /\ claimed \in Nat
          /\ UNCHANGED <<seq, slot, frame, unflushed>>
      BY <1>0, <1>5, ClaimCounts DEF Claim
    <3>2. \A q \in Producers : q # p => myIdx'[q] = myIdx[q] /\ (Holder(q)' <=> Holder(q))
      BY <1>0, <1>5 DEF Claim, Goto, Holder, TypeOK
    <3>3. unflushed'[p] = 0
      BY <1>0, <1>5 DEF Claim, FrameInv
    <3>4. Holder(p)' => claimed \in Slots /\ myIdx'[p] = claimed
      BY <1>0, <1>5, <3>3, QueueAssumption DEF Claim, Goto, Holder, Slots, TypeOK
    <3>5. \A q \in Producers : q # p /\ Holder(q) => myIdx[q] < claimed /\ myIdx[q] \in Nat
      BY <1>0 DEF HolderInv, TypeOK, Slots
    <3>6. ASSUME NEW q \in Producers, Holder(q)' PROVE myIdx'[q] < claimed' /\ seq'[myIdx'[q]] # frame'
      <4>1. CASE q = p
        BY <3>1, <3>4, <3>6, <4>1 DEF MarksInv
      <4>2. CASE q # p
        BY <3>1, <3>2, <3>5, <3>6, <4>2 DEF HolderInv
      <4> QED BY <4>1, <4>2
    <3>7. \A q, r \in Producers : q # r /\ Holder(q)' /\ Holder(r)' => myIdx'[q] # myIdx'[r]
      BY <3>1, <3>2, <3>4, <3>5 DEF HolderInv
    <3>8. \A q \in Producers : unflushed'[q] = 1 => slot'[myIdx'[q]] # Stale
      BY <3>1, <3>2, <3>3 DEF HolderInv
    <3> QED BY <3>6, <3>7, <3>8 DEF HolderInv
  <2>4. FrontierInv'
    BY <1>0, <1>5 DEF Claim, Goto, FrontierInv, FrameInv, TypeOK
  <2> QED BY <1>0, <2>1, <2>2, <2>3, <2>4
<1>6. ASSUME NEW p \in Producers, Store(p) PROVE IInv'
  <2>1. MarksInv'
    BY <1>0, <1>6 DEF Store, Goto, MarksInv, TypeOK
  <2>2. FrameInv'
    BY <1>0, <1>6 DEF Store, Goto, FrameInv, TypeOK
  <2>3. HolderInv'
    BY <1>0, <1>6 DEF Store, Goto, HolderInv, Holder, FrameInv, TypeOK
  <2>4. FrontierInv'
    BY <1>0, <1>6 DEF Store, Goto, FrontierInv, FrameInv, TypeOK
  <2> QED BY <1>0, <2>1, <2>2, <2>3, <2>4
<1>7. ASSUME NEW p \in Producers, LoadPublished(p) PROVE IInv'
  <2>1. MarksInv'
    BY <1>0, <1>7 DEF LoadPublished, Goto, MarksInv, TypeOK
  <2>2. FrameInv'
    BY <1>0, <1>7 DEF LoadPublished, Goto, FrameInv, TypeOK
  <2>3. HolderInv'
    <3>1. \A q \in Producers : Holder(q)' => Holder(q)
      BY <1>0, <1>7 DEF LoadPublished, Goto, Holder, TypeOK
    <3> QED BY <1>7, <3>1 DEF LoadPublished, HolderInv
  <2>4. FrontierInv'
    BY <1>0, <1>7 DEF LoadPublished, Goto, FrontierInv, FrameInv, TypeOK
  <2> QED BY <1>0, <2>1, <2>2, <2>3, <2>4
<1>8. ASSUME NEW p \in Producers, CheckReady(p) PROVE IInv'
  <2>1. MarksInv'
    BY <1>0, <1>8 DEF CheckReady, Goto, MarksInv, TypeOK
  <2>2. FrameInv'
    BY <1>0, <1>8 DEF CheckReady, Goto, FrameInv, TypeOK
  <2>3. HolderInv'
    BY <1>0, <1>8 DEF CheckReady, Goto, HolderInv, Holder, FrameInv, TypeOK
  <2>4. FrontierInv'
    <3>1. pc'[p] = "cas" => SeenSeq(p, myP[p]) = myFrame[p] /\ myFrame[p] = frame
      BY <1>0, <1>8 DEF CheckReady, Goto, FrameInv, TypeOK
    <3>2. pc'[p] = "cas" => \/ seq[myP[p]] = frame
                            \/ unflushed[p] > 0 /\ myIdx[p] = myP[p]
      BY <3>1 DEF SeenSeq
    <3> QED BY <1>0, <1>8, <3>2 DEF CheckReady, Goto, FrontierInv, TypeOK
  <2> QED BY <1>0, <2>1, <2>2, <2>3, <2>4
<1>9. ASSUME NEW p \in Producers, Cas(p) PROVE IInv'
  <2>1. MarksInv'
    BY <1>0, <1>9 DEF Cas, Goto, MarksInv, TypeOK
  <2>2. FrameInv'
    BY <1>0, <1>9 DEF Cas, Goto, FrameInv, TypeOK
  <2>3. HolderInv'
    BY <1>0, <1>9 DEF Cas, Goto, HolderInv, Holder, FrameInv, TypeOK
  <2>4. FrontierInv'
    BY <1>0, <1>9 DEF Cas, Goto, FrontierInv, FrameInv, TypeOK
  <2> QED BY <1>0, <2>1, <2>2, <2>3, <2>4
<1>10. ASSUME NEW p \in Producers, Drain(p) PROVE IInv'
  <2>1. /\ Holder(p) /\ myFrame[p] = frame
        /\ myIdx[p] \in Slots /\ myIdx[p] < claimed /\ seq[myIdx[p]] # frame
        /\ unflushed'[p] = unflushed[p] - 1 /\ unflushed[p] \in 1 .. 2
        /\ pc[p] # "store"
        /\ UNCHANGED <<frame, claimed, published, pc, myFrame, myIdx, myP>>
    BY <1>0, <1>10 DEF Drain, Holder, HolderInv, FrameInv, TypeOK
  <2>2. \A q \in Producers : q # p => unflushed'[q] = unflushed[q]
    BY <1>0, <1>10 DEF Drain, TypeOK
  <2>3. \A q \in Producers : q # p /\ Holder(q) => myIdx[q] # myIdx[p]
    BY <2>1 DEF HolderInv
  <2>4. CmdOf(p) # Stale
    BY <1>0, CmdTyping, QueueAssumption
  <2>5. CASE unflushed[p] = 2
    <3>1. /\ unflushed'[p] = 1 /\ seq' = seq
          /\ slot'[myIdx[p]] # Stale
          /\ \A i \in Slots : i # myIdx[p] => slot'[i] = slot[i]
      BY <1>0, <1>10, <2>1, <2>4, <2>5 DEF Drain, TypeOK
    <3>2. MarksInv'
      BY <2>1, <3>1 DEF MarksInv
    <3>3. FrameInv'
      BY <2>1, <2>2, <3>1, <2>5 DEF FrameInv
    <3>4. HolderInv'
      <4>1. \A q \in Producers : Holder(q)' => Holder(q)
        BY <2>1, <2>2 DEF Holder
      <4>2. \A q \in Producers : unflushed'[q] = 1 => slot'[myIdx[q]] # Stale
        BY <1>0, <2>1, <2>2, <2>3, <3>1 DEF HolderInv, Holder, TypeOK
      <4> QED BY <2>1, <3>1, <4>1, <4>2 DEF HolderInv
    <3>5. FrontierInv'
      BY <2>1, <2>2, <2>5, <3>1 DEF FrontierInv
    <3> QED BY <1>0, <3>2, <3>3, <3>4, <3>5
  <2>6. CASE unflushed[p] = 1
    <3>1. /\ unflushed'[p] = 0 /\ slot' = slot
          /\ seq'[myIdx[p]] = frame
          /\ \A i \in Slots : i # myIdx[p] => seq'[i] = seq[i]
          /\ slot[myIdx[p]] # Stale
      BY <1>0, <1>10, <2>1, <2>6 DEF Drain, HolderInv, TypeOK
    <3>2. MarksInv'
      <4>1. frame \in Nat
        BY <1>0 DEF TypeOK
      <4>2. \A i \in Slots : i = myIdx[p] \/ seq'[i] = seq[i]
        BY <3>1
      <4> QED BY <2>1, <3>1, <4>1, <4>2 DEF MarksInv
    <3>3. FrameInv'
      BY <2>1, <2>2, <3>1, <2>6 DEF FrameInv
    <3>4. HolderInv'
      <4>1. \A q \in Producers : Holder(q)' => Holder(q) /\ q # p
        BY <2>1, <2>2, <3>1 DEF Holder
      <4>2. \A q \in Producers : unflushed'[q] = 1 => unflushed[q] = 1
        BY <2>1, <2>2, <3>1
      <4> QED BY <1>0, <2>1, <2>3, <3>1, <4>1, <4>2 DEF HolderInv, TypeOK
    <3>5. FrontierInv'
      <4>1. \A i \in 0 .. published - 1 : i \in Slots
        BY <1>0, QueueAssumption DEF TypeOK, Slots
      <4>2. \A q \in Producers : myP[q] \in Slots
        BY <1>0 DEF TypeOK
      <4> QED BY <2>1, <2>2, <3>1, <4>1, <4>2 DEF FrontierInv
    <3> QED BY <1>0, <3>2, <3>3, <3>4, <3>5
  <2> QED BY <2>1, <2>5, <2>6
<1>11. CASE UNCHANGED vars
  BY <1>0, <1>11 DEF vars, MarksInv, FrameInv, HolderInv, Holder, FrontierInv
<1> QED
  BY <1>1, <1>2, <1>3, <1>4, <1>5, <1>6, <1>7, <1>8, <1>9, <1>10, <1>11 DEF Next, Push

(* IInv holds in every reachable state.                                     *)
LEMMA IInvCorrect == ASSUME NoWrap PROVE Spec => []IInv
<1>1. Init => IInv
  BY IInvInit
<1>2. IInv /\ [Next]_vars => IInv'
  BY IInvStep
<1> QED BY <1>1, <1>2, PTL DEF Spec

(* The consumer reads only commands of the current frame that their        *)
(* producers have written completely (RenderQueue.hpp, publish_ and size). *)
THEOREM PublishedCompleteHolds ==
  ASSUME NoWrap PROVE Spec => []PublishedComplete
<1>1. IInv => PublishedComplete
  <2> SUFFICES ASSUME IInv, NEW i \in 0 .. published - 1
               PROVE slot[i] # Stale /\ seq[i] = frame
    BY DEF PublishedComplete
  <2>1. i \in Slots
    BY QueueAssumption DEF IInv, TypeOK, Slots, Words
  <2> QED BY <2>1 DEF IInv, FrontierInv, MarksInv
<1> QED BY <1>1, IInvCorrect, PTL

-----------------------------------------------------------------------------
(* The published prefix implements the append-only log.                    *)

Visible == [i \in 1 .. published |-> slot[i - 1]]

(* The published prefix is a sequence of at most kMax whole commands.       *)
LEMMA VisibleTyping == 
  ASSUME IInv PROVE Visible \in Seq(Cmds) /\ Len(Visible) = published
<1>1. published \in Nat /\ \A i \in 1 .. published : i - 1 \in Slots /\ i - 1 \in 0 .. published - 1
  BY QueueAssumption DEF IInv, TypeOK, Slots, Words
<1>2. \A i \in 1 .. published : slot[i - 1] \in Cmds
  BY <1>1 DEF IInv, TypeOK, FrontierInv, MarksInv
<1> QED BY <1>1, <1>2 DEF Visible

(* A fresh queue shows the empty log.                                       *)
LEMMA LogInit == Init => Log!Init
BY DEF Init, Log!Init

(* A step of the queue appends one command to what the consumer sees,       *)
(* empties it, or leaves it as it is.                                       *)
LEMMA LogStep == ASSUME NoWrap, IInv, [Next]_vars
                 PROVE  [Log!Next]_Visible
<1> USE DEF memory, locals
<1>0. published \in 0 .. KMax
      /\ \A i \in 1 .. published : i - 1 \in Slots /\ seq[i - 1] = frame
  BY QueueAssumption DEF IInv, TypeOK, Slots, FrontierInv, Words
<1>1. CASE BeginFrame
  <2>1. Visible' = << >>
    BY <1>1 DEF BeginFrame, Visible
  <2> QED BY <2>1 DEF Log!Next, Log!NewFrame, Visible
<1>2. ASSUME NEW p \in Producers, Cas(p) PROVE [Log!Next]_Visible
  <2>1. CASE published # myP[p]
    <3>1. Visible' = Visible
      BY <1>2, <2>1 DEF Cas, Visible
    <3> QED BY <3>1
  <2>2. CASE published = myP[p]
    <3>1. published' = published + 1 /\ slot' = slot /\ published \in Slots
      BY <1>2, <2>2 DEF Cas, IInv, TypeOK
    <3>2. slot[published] \in Cmds
      BY <1>2, <2>2, <3>1 DEF Cas, IInv, TypeOK, FrontierInv, MarksInv
    <3>3. Visible \in Seq(Cmds) /\ Len(Visible) = published /\ published < KMax
      BY <3>1, VisibleTyping, QueueAssumption DEF Slots, Words
    <3>4. Visible' = Append(Visible, slot[published])
      BY <1>0, <3>1, <3>2, <3>3 DEF Visible
    <3> QED BY <3>2, <3>3, <3>4 DEF Log!Next, Log!Publish, Visible
  <2> QED BY <2>1, <2>2
<1>3. ASSUME NEW p \in Producers, Drain(p) PROVE [Log!Next]_Visible
  <2>1. seq[myIdx[p]] # frame
    BY <1>3 DEF Drain, IInv, HolderInv, Holder, TypeOK
  <2>2. published' = published /\ \A i \in Slots : i # myIdx[p] => slot'[i] = slot[i]
    BY <1>3 DEF Drain, IInv, TypeOK
  <2>3. Visible' = Visible
    BY <1>0, <2>1, <2>2 DEF Visible
  <2> QED BY <2>3
<1>4. CASE UNCHANGED <<published, slot>>
  BY <1>4 DEF Visible
<1>5. ASSUME NEW p \in Producers, NEW size \in TextSizes, ReserveText(p, size)
      PROVE  UNCHANGED <<published, slot>>
  BY <1>5 DEF ReserveText
<1>6. ASSUME NEW p \in Producers,
             \/ CopyText(p) \/ LoadFrame(p) \/ Claim(p) \/ Store(p)
             \/ LoadPublished(p) \/ CheckReady(p)
      PROVE  UNCHANGED <<published, slot>>
  BY <1>6 DEF CopyText, LoadFrame, Claim, Store, LoadPublished, CheckReady
<1>7. CASE UNCHANGED vars
  BY <1>4, <1>7 DEF vars
<1> QED BY <1>1, <1>2, <1>3, <1>4, <1>5, <1>6, <1>7 DEF Next, Push

(* Nothing published in a frame changes or moves before the next frame.    *)
THEOREM Refinement == ASSUME NoWrap PROVE Spec => AppendOnlyLog
<1>1. Init => Log!Init
  BY LogInit
<1>2. IInv /\ [Next]_vars => [Log!Next]_Visible
  BY LogStep
<1> QED BY <1>1, <1>2, IInvCorrect, PTL DEF Spec, AppendOnlyLog, Log!Spec, Visible

-----------------------------------------------------------------------------
(* No push is lost, when the loads of publish_() wait for the stores.      *)

(* A fresh queue has neither claims nor owners.                             *)
LEMMA FencedInit == Init => FencedInv
BY QueueAssumption DEF Init, FencedInv, Holder, Slots, Words

(* Steps that touch neither the slots nor the frontier keep FencedInv if   *)
(* they take nobody out of publish_() and give no slot up.                 *)
LEMMA FencedFrame ==
  ASSUME IInv, FencedInv, NEW p \in Producers,
         UNCHANGED <<frame, claimed, published, seq, unflushed, myIdx, myP>>,
         pc[p] \notin {"store", "publish", "check", "cas"},
         pc'[p] \notin {"publish", "check", "cas"},
         \A q \in Producers : q # p => pc'[q] = pc[q]
  PROVE  FencedInv'
<1>1. unflushed[p] = 0
  <2>1. unflushed[p] \in 0 .. 2
    BY DEF IInv, TypeOK
  <2>2. ~(unflushed[p] > 0)
    BY DEF FencedInv
  <2> QED BY <2>1, <2>2
<1>2. \A q \in Producers : Holder(q) => Holder(q)'
  BY <1>1 DEF Holder
<1>3. \A q \in Producers : pc[q] \in {"publish", "check", "cas"} => pc'[q] = pc[q]
  OBVIOUS
<1>4. \A q \in Producers : pc'[q] \in {"publish", "check", "cas"} => pc'[q] = pc[q]
  OBVIOUS
<1> QED BY <1>1, <1>2, <1>3, <1>4 DEF FencedInv

(* With StoreFence every step keeps FencedInv: a producer leaves publish_() *)
(* only when the next slot is not ready in memory.                          *)
LEMMA FencedStep ==
  ASSUME StoreFence, NoWrap, IInv, FencedInv, [Next]_vars PROVE FencedInv'
<1> USE DEF memory, locals
<1>0. TypeOK
  BY DEF IInv
<1>1. CASE BeginFrame
  <2>1. \A p \in Producers : pc'[p] = "idle" /\ unflushed'[p] = 0
    BY <1>1 DEF BeginFrame, AtRest
  <2>2. claimed' = 0 /\ published' = 0 /\ 0 \in Slots
    BY <1>1, QueueAssumption DEF BeginFrame, Slots, Words
  <2>3. seq'[0] # frame'
    <3>1. IInv'
      BY <1>1, IInvStep DEF Next
    <3> QED BY <2>2, <3>1 DEF IInv, MarksInv
  <2>4. \A i \in Slots : ~(i < claimed')
    BY <2>2 DEF Slots
  <2> QED BY <2>1, <2>2, <2>3, <2>4 DEF FencedInv
<1>2. ASSUME NEW p \in Producers, NEW size \in TextSizes, ReserveText(p, size)
      PROVE  FencedInv'
  BY <1>0, <1>2, FencedFrame DEF ReserveText, Goto, TypeOK
<1>3. ASSUME NEW p \in Producers, CopyText(p) PROVE FencedInv'
  BY <1>0, <1>3, FencedFrame DEF CopyText, Goto, TypeOK
<1>4. ASSUME NEW p \in Producers, LoadFrame(p) PROVE FencedInv'
  <2>1. /\ UNCHANGED <<frame, claimed, published, seq, unflushed, myIdx, myP>>
        /\ pc[p] \in {"idle", "frame"} /\ pc'[p] = "claim"
        /\ \A q \in Producers : q # p => pc'[q] = pc[q]
    BY <1>0, <1>4 DEF LoadFrame, Goto, TypeOK
  <2> QED BY <2>1, FencedFrame
<1>5. ASSUME NEW p \in Producers, Claim(p) PROVE FencedInv'
  <2>1. /\ claimed' = claimed + 1 /\ claimed \in Nat
        /\ UNCHANGED <<frame, published, seq, unflushed, myP>>
        /\ unflushed[p] = 0
    BY <1>0, <1>5, ClaimCounts DEF Claim, IInv, FrameInv
  <2>2. \A q \in Producers : q # p => pc'[q] = pc[q] /\ myIdx'[q] = myIdx[q]
    BY <1>0, <1>5 DEF Claim, Goto, TypeOK
  <2>3. pc[p] = "claim" /\ pc'[p] \in {"idle", "store"}
    BY <1>0, <1>5 DEF Claim, Goto, TypeOK
  <2>4. claimed \in Slots => Holder(p)' /\ myIdx'[p] = claimed
    <3>1. claimed \in Slots => claimed < KMax
      BY QueueAssumption DEF Slots, Words
    <3>2. claimed \in Slots =>
             /\ pc' = [pc EXCEPT ![p] = "store"]
             /\ myIdx' = [myIdx EXCEPT ![p] = claimed]
      BY <2>1, <1>5, <3>1, QueueAssumption DEF Claim, Goto, Words
    <3> QED BY <1>0, <3>2 DEF Holder, TypeOK
  <2>5. ASSUME NEW i \in Slots, i < claimed'
        PROVE  seq'[i] = frame' \/ \E q \in Producers : Holder(q)' /\ myIdx'[q] = i
    <3>1. i = claimed \/ i < claimed
      BY <2>1, <2>5 DEF Slots
    <3>2. \A q \in Producers : Holder(q) => q # p /\ Holder(q)' /\ myIdx'[q] = myIdx[q]
      BY <2>1, <2>2, <2>3 DEF Holder
    <3> QED BY <2>1, <2>4, <3>1, <3>2 DEF FencedInv
  <2> QED BY <2>1, <2>2, <2>3, <2>5 DEF FencedInv
<1>6. ASSUME NEW p \in Producers, Store(p) PROVE FencedInv'
  <2>1. /\ UNCHANGED <<frame, claimed, published, seq, myIdx, myP>>
        /\ pc[p] = "store" /\ pc'[p] = "publish" /\ unflushed'[p] = 2
        /\ \A q \in Producers : q # p => pc'[q] = pc[q] /\ unflushed'[q] = unflushed[q]
    BY <1>0, <1>6 DEF Store, Goto, TypeOK
  <2>2. \A q \in Producers : Holder(q) => Holder(q)'
    BY <2>1 DEF Holder
  <2> QED BY <2>1, <2>2 DEF FencedInv
<1>7. ASSUME NEW p \in Producers, LoadPublished(p) PROVE FencedInv'
  <2>1. /\ UNCHANGED <<frame, claimed, published, seq, myIdx, unflushed>>
        /\ pc[p] = "publish" /\ unflushed[p] = 0
        /\ \A q \in Producers : q # p => pc'[q] = pc[q] /\ myP'[q] = myP[q]
    BY <1>0, <1>7 DEF LoadPublished, Goto, TypeOK
  <2>2. \/ pc'[p] = "idle" /\ ~(published < KMax)
        \/ pc'[p] = "check" /\ myP'[p] = published
    BY <1>0, <1>7, QueueAssumption DEF LoadPublished, Goto, TypeOK, Words
  <2>3. \A q \in Producers : Holder(q) => Holder(q)'
    BY <2>1 DEF Holder
  <2>4. published <= published /\ published \in Nat
    BY <1>0 DEF TypeOK
  <2> QED BY <2>1, <2>2, <2>3, <2>4 DEF FencedInv
<1>8. ASSUME NEW p \in Producers, CheckReady(p) PROVE FencedInv'
  <2>1. /\ UNCHANGED <<frame, claimed, published, seq, myIdx, myP, unflushed>>
        /\ pc[p] = "check" /\ unflushed[p] = 0
        /\ \A q \in Producers : q # p => pc'[q] = pc[q]
    <3>1. unflushed[p] \in 0 .. 2 /\ pc[p] = "check"
      BY <1>0, <1>8 DEF CheckReady, TypeOK
    <3>2. unflushed[p] = 0
      BY <3>1 DEF FencedInv
    <3> QED BY <1>0, <1>8, <3>2 DEF CheckReady, Goto, TypeOK
  <2>2. myFrame[p] = frame
    BY <2>1 DEF IInv, FrameInv
  <2>3. pc'[p] = IF seq[myP[p]] = frame THEN "cas" ELSE "idle"
    BY <1>0, <1>8, <2>1, <2>2 DEF CheckReady, SeenSeq, Goto, TypeOK
  <2>4. published < KMax /\ seq[published] = frame => seq[myP[p]] = frame
    <3>1. myP[p] \in Nat /\ published \in Nat /\ myP[p] <= published
      BY <1>0, <2>1 DEF FencedInv, TypeOK, Slots
    <3>2. myP[p] = published \/ myP[p] \in 0 .. published - 1
      BY <3>1
    <3> QED BY <3>2 DEF IInv, FrontierInv
  <2>5. \A q \in Producers : Holder(q) => Holder(q)'
    BY <2>1 DEF Holder
  <2> QED BY <2>1, <2>3, <2>4, <2>5 DEF FencedInv
<1>9. ASSUME NEW p \in Producers, Cas(p) PROVE FencedInv'
  <2>1. /\ UNCHANGED <<frame, claimed, seq, myIdx, myP, unflushed>>
        /\ pc[p] = "cas" /\ unflushed[p] = 0 /\ pc'[p] = "publish"
        /\ \A q \in Producers : q # p => pc'[q] = pc[q]
    BY <1>0, <1>9 DEF Cas, Goto, TypeOK
  <2>2. /\ published \in Nat /\ published' \in Nat /\ published <= published'
        /\ \A q \in Producers : myP[q] \in Nat
    BY <1>0, <1>9 DEF Cas, TypeOK, Slots
  <2>3. \A q \in Producers : Holder(q) => Holder(q)'
    BY <2>1 DEF Holder
  <2>4. \A q \in Producers : pc'[q] \in {"check", "cas"} => myP'[q] <= published'
    BY <2>1, <2>2 DEF FencedInv
  <2> QED BY <2>1, <2>3, <2>4 DEF FencedInv
<1>10. ASSUME NEW p \in Producers, Drain(p) PROVE FencedInv'
  <2>1. /\ UNCHANGED <<frame, claimed, published, pc, myIdx, myP>>
        /\ unflushed[p] \in 1 .. 2 /\ pc[p] = "publish"
        /\ unflushed'[p] = unflushed[p] - 1
        /\ \A q \in Producers : q # p => unflushed'[q] = unflushed[q]
    BY <1>0, <1>10 DEF Drain, FencedInv, TypeOK
  <2>2. ASSUME NEW i \in Slots, i < claimed
        PROVE  seq'[i] = frame \/ \E q \in Producers : Holder(q)' /\ myIdx[q] = i
    <3>1. CASE i = myIdx[p]
      <4>1. CASE unflushed[p] = 2
        BY <2>1, <3>1, <4>1 DEF Holder
      <4>2. CASE unflushed[p] = 1
        <5>1. seq'[i] = myFrame[p]
          BY <1>0, <1>10, <3>1, <4>2 DEF Drain, TypeOK
        <5> QED BY <2>1, <5>1 DEF IInv, FrameInv
      <4> QED BY <2>1, <4>1, <4>2
    <3>2. CASE i # myIdx[p]
      <4>1. seq'[i] = seq[i]
        BY <1>0, <1>10, <3>2 DEF Drain, TypeOK
      <4>2. \A q \in Producers : Holder(q) /\ q # p => Holder(q)'
        BY <2>1 DEF Holder
      <4> QED BY <2>2, <3>2, <4>1, <4>2 DEF FencedInv
    <3> QED BY <3>1, <3>2
  <2>3. \A q \in Producers : unflushed'[q] > 0 => unflushed[q] > 0
    <3>1. \A q \in Producers : unflushed[q] \in 0 .. 2
      BY <1>0 DEF TypeOK
    <3> QED BY <2>1, <3>1
  <2> QED BY <2>1, <2>2, <2>3 DEF FencedInv
<1>11. CASE UNCHANGED vars
  BY <1>11 DEF vars, FencedInv, Holder
<1> QED
  BY <1>1, <1>2, <1>3, <1>4, <1>5, <1>6, <1>7, <1>8, <1>9, <1>10, <1>11 DEF Next, Push

(* With a store fence (or a seq_cst store of m_seq) no push is lost: when  *)
(* every push has returned, size() is the number of claims, up to kMax.    *)
THEOREM NoLostPush ==
  ASSUME NoWrap, StoreFence PROVE Spec => []AllPublishedAtRest
<1>1. IInv /\ FencedInv => AllPublishedAtRest
  <2> SUFFICES ASSUME IInv, FencedInv, AtRest
               PROVE  published = IF claimed < KMax THEN claimed ELSE KMax
    BY DEF AllPublishedAtRest
  <2>1. published \in 0 .. KMax /\ claimed \in Nat /\ KMax \in Nat
    BY QueueAssumption DEF IInv, TypeOK, Words
  <2>2. \A p \in Producers : ~Holder(p) /\ pc[p] = "idle"
    <3> SUFFICES ASSUME NEW p \in Producers PROVE ~Holder(p) /\ pc[p] = "idle"
      OBVIOUS
    <3>1. pc[p] = "idle" /\ unflushed[p] = 0
      BY DEF AtRest
    <3> QED BY <3>1 DEF Holder
  <2>3. \A i \in Slots : i < claimed => seq[i] = frame
    BY <2>2 DEF FencedInv
  <2>4. published < KMax => published >= claimed
    BY <2>1, <2>2, <2>3 DEF FencedInv, Slots
  <2>5. published > 0 => published - 1 < claimed
    <3>1. published > 0 => published - 1 \in Slots /\ published - 1 \in 0 .. published - 1
      BY <2>1 DEF Slots
    <3> QED BY <3>1 DEF IInv, FrontierInv, MarksInv
  <2> QED BY <2>1, <2>4, <2>5
<1>2. Init => FencedInv
  BY FencedInit
<1>3. IInv /\ FencedInv /\ [Next]_vars => FencedInv'
  BY FencedStep
<1> QED BY <1>1, <1>2, <1>3, IInvCorrect, PTL DEF Spec


-----------------------------------------------------------------------------
(* The text arena.                                                         *)

(* p was given a range by text() and no slot names it yet.                 *)
Holding(p) == pc[p] \in {"copy", "frame", "claim", "store"} \/ unflushed[p] = 2

(* What a text, or a slot that names one, can be. *)
Reserved(t) == t.len > 0 => t.ofs + t.len < textOfs /\ t.ofs + t.len < TextArenaBytes
Written(t) == t.len > 0 => \A b \in TextRange(t) : b \in DOMAIN arena /\ arena[b] = t.ofs
Apart(t, u) == t.len > 0 /\ u.len > 0 => t.ofs + t.len < u.ofs \/ u.ofs + u.len < t.ofs

(* All ranges in use lie below m_text_ofs and share no byte, and from the  *)
(* memcpy on they hold their text.  Only the slots below the frontier      *)
(* matter to TextIntact; the others will get there.                        *)
TextInv ==
  /\ \A p \in Producers : pc[p] \in {"copy", "frame", "claim", "store"} => unflushed[p] = 0
  /\ \A p \in Producers : pc[p] = "copy" => myText[p].len > 0
  /\ \A p \in Producers : Holding(p) => Reserved(myText[p]) /\ (pc[p] # "copy" => Written(myText[p]))
  /\ \A i \in Slots : slot[i] # Stale => Reserved(slot[i]) /\ Written(slot[i])
  /\ \A p, q \in Producers : p # q /\ Holding(p) /\ Holding(q) => Apart(myText[p], myText[q])
  /\ \A p \in Producers, i \in Slots :
       Holding(p) /\ slot[i] # Stale => Apart(myText[p], slot[i])

(* A text has an offset in the arena and a length.                         *)
LEMMA TextFields ==
  ASSUME TypeOK
  PROVE  /\ \A p \in Producers : myText[p].ofs \in Nat /\ myText[p].len \in Nat
         /\ \A i \in Slots : slot[i] # Stale => slot[i].ofs \in Nat /\ slot[i].len \in Nat
<1>1. Words \subseteq Nat
  BY QueueAssumption DEF Words
<1>2. \A t \in Texts : t.ofs \in Words /\ t.len \in Words
  BY DEF Texts
<1>3. \A c \in Cmds : c.ofs \in Words /\ c.len \in Words
  BY DEF Cmds
<1>4. \A p \in Producers : myText[p] \in Texts
  BY DEF TypeOK
<1>5. \A i \in Slots : slot[i] # Stale => slot[i] \in Cmds
  BY DEF TypeOK
<1> QED BY <1>1, <1>2, <1>3, <1>4, <1>5

(* The fresh queue has no text.                                            *)
LEMMA TextInit == Init => TextInv
BY DEF Init, TextInv, Holding

(* Steps that leave the arena and the slots alone keep TextInv if a        *)
(* producer keeps the text it holds or has an empty one.                   *)
LEMMA TextFrame ==
  ASSUME TypeOK, TextInv, UNCHANGED <<textOfs, slot, arena>>,
         \A q \in Producers : pc'[q] \in {"copy", "frame", "claim", "store"} => unflushed'[q] = 0,
         \A q \in Producers : pc'[q] = "copy" => pc[q] = "copy" /\ myText'[q] = myText[q],
         \A q \in Producers :
           Holding(q)' => \/ myText'[q].len = 0
                          \/ /\ Holding(q) /\ myText'[q] = myText[q]
                             /\ pc[q] = "copy" => pc'[q] = "copy"
  PROVE  TextInv'
<1>1. ASSUME NEW q \in Producers, Holding(q)'
      PROVE  (Reserved(myText[q]))' /\ (pc'[q] # "copy" => (Written(myText[q]))')
  BY <1>1 DEF TextInv, Reserved, Written, TextRange
<1>2. ASSUME NEW i \in Slots, slot'[i] # Stale
      PROVE  (Reserved(slot[i]))' /\ (Written(slot[i]))'
  BY <1>2 DEF TextInv, Reserved, Written, TextRange
<1>3. ASSUME NEW q \in Producers, NEW r \in Producers, q # r, Holding(q)', Holding(r)'
      PROVE  (Apart(myText[q], myText[r]))'
  BY <1>3 DEF TextInv, Apart
<1>4. ASSUME NEW q \in Producers, NEW i \in Slots, Holding(q)', slot'[i] # Stale
      PROVE  (Apart(myText[q], slot[i]))'
  BY <1>4 DEF TextInv, Apart
<1>5. \A q \in Producers : pc'[q] = "copy" => myText'[q].len > 0
  BY DEF TextInv
<1> QED BY <1>1, <1>2, <1>3, <1>4, <1>5 DEF TextInv

(* As long as m_text_ofs does not wrap around, the size fits 32 bits and so *)
(* does the sum that is stored and tested.                                  *)
LEMMA ReserveCounts ==
  ASSUME NoTextWrap, TypeOK, NEW p \in Producers, NEW size \in TextSizes, ReserveText(p, size)
  PROVE  /\ size \in Nat /\ size > 0 /\ textOfs \in Nat /\ size % Modulus = size
         /\ (textOfs + size + 1) % Modulus = textOfs + size + 1
<1>1. size \in Nat /\ size > 0 /\ textOfs \in Nat /\ MaxTextOfs \in Nat /\ Modulus \in Nat
  BY QueueAssumption DEF TypeOK, Words
<1>2. textOfs + size + 1 < Modulus /\ textOfs + size + 1 \in Nat
  BY <1>1 DEF ReserveText, NoTextWrap
<1>3. size % Modulus = size
  BY <1>1, <1>2, WordArithmetic
<1>4. (textOfs + size + 1) % Modulus = textOfs + size + 1
  <2> DEFINE end == textOfs + size + 1
  <2>1. end \in Nat /\ end < Modulus
    BY <1>2
  <2> HIDE DEF end
  <2>2. end % Modulus = end
    BY <2>1, WordArithmetic
  <2> QED BY <2>2 DEF end
<1> QED BY <1>1, <1>3, <1>4

(* A range text() hands out begins where all earlier ones have ended.      *)
LEMMA ReserveKeepsText ==
  ASSUME NoTextWrap, TypeOK, TextInv,
         NEW p \in Producers, NEW size \in TextSizes, ReserveText(p, size)
  PROVE  TextInv'
<1> DEFINE len == size
<1> DEFINE t == [ofs |-> textOfs, len |-> len]
<1>0. /\ textOfs' = textOfs + len + 1
      /\ \/ UNCHANGED <<pc, myText>>
         \/ /\ textOfs + len + 1 <= TextArenaBytes
            /\ myText' = [myText EXCEPT ![p] = t]
            /\ Goto(p, "copy")
  <2>1. size % Modulus = size /\ (textOfs + size + 1) % Modulus = textOfs + size + 1
    BY ReserveCounts
  <2>2. (textOfs + (size % Modulus) + 1) % Modulus = textOfs + size + 1
    BY <2>1
  <2> QED BY <2>1, <2>2 DEF ReserveText
<1>1. /\ len \in Nat /\ len > 0 /\ textOfs \in Nat /\ TextArenaBytes \in Nat
      /\ textOfs' = textOfs + len + 1 /\ pc[p] = "idle" /\ unflushed[p] = 0
      /\ UNCHANGED <<slot, arena, unflushed>>
  BY <1>0, ReserveCounts, QueueAssumption DEF ReserveText, Words
<1>2. \A q \in Producers : q # p => pc'[q] = pc[q] /\ myText'[q] = myText[q]
  BY DEF ReserveText, Goto, TypeOK
<1>3. \/ pc'[p] = "idle"
      \/ pc'[p] = "copy" /\ myText'[p] = t /\ textOfs + len + 1 <= TextArenaBytes
  BY <1>0, <1>1 DEF Goto, TypeOK
<1>4. ~Holding(p) /\ \A q \in Producers : q # p => (Holding(q)' <=> Holding(q))
  BY <1>1, <1>2 DEF Holding
<1>5. ASSUME Holding(p)'
      PROVE  pc'[p] = "copy" /\ myText'[p] = t /\ textOfs + len + 1 <= TextArenaBytes
  BY <1>1, <1>3, <1>5 DEF Holding
<1>6. ASSUME NEW u, u.ofs \in Nat, u.len \in Nat, Reserved(u)
      PROVE  (u.len > 0 => u.ofs + u.len < textOfs') /\ Apart(t, u) /\ Apart(u, t)
  <2>1. u.len > 0 => u.ofs + u.len < textOfs
    BY <1>6 DEF Reserved
  <2>2. t.ofs = textOfs
    OBVIOUS
  <2>3. u.ofs + u.len \in Nat
    BY <1>6
  <2>4. u.len > 0 => u.ofs + u.len < textOfs'
    BY <1>1, <2>1, <2>3
  <2>5. Apart(t, u) /\ Apart(u, t)
    BY <2>1, <2>2 DEF Apart
  <2> QED BY <2>4, <2>5
<1>7. \A q \in Producers : myText[q].ofs \in Nat /\ myText[q].len \in Nat
  BY TextFields
<1>8. \A i \in Slots : slot[i] # Stale => slot[i].ofs \in Nat /\ slot[i].len \in Nat
  BY TextFields
<1>9. \A q \in Producers : pc'[q] \in {"copy", "frame", "claim", "store"} => unflushed'[q] = 0
  BY <1>1, <1>2 DEF TextInv
<1>10. \A q \in Producers : pc'[q] = "copy" => myText'[q].len > 0
  <2>1. pc'[p] = "copy" => myText'[p].len = len
    BY <1>3
  <2> QED BY <1>1, <1>2, <2>1 DEF TextInv
<1>11. ASSUME NEW q \in Producers, Holding(q)'
       PROVE  (Reserved(myText[q]))' /\ (pc'[q] # "copy" => (Written(myText[q]))')
  <2>1. CASE q = p
    <3>1. pc'[q] = "copy" /\ myText'[q].ofs = textOfs /\ myText'[q].len = len
          /\ textOfs + len + 1 <= TextArenaBytes
      BY <1>5, <1>11, <2>1
    <3>2. textOfs + len < textOfs' /\ textOfs + len < TextArenaBytes
      BY <1>1, <3>1
    <3> QED BY <3>1, <3>2 DEF Reserved
  <2>2. CASE q # p
    <3>1. Holding(q) /\ pc'[q] = pc[q] /\ myText'[q] = myText[q]
      BY <1>2, <1>4, <1>11, <2>2
    <3>2. Reserved(myText[q]) /\ (pc[q] # "copy" => Written(myText[q]))
      BY <3>1 DEF TextInv
    <3>3. myText[q].len > 0 => myText[q].ofs + myText[q].len < textOfs'
      BY <1>6, <1>7, <3>2
    <3> QED BY <1>1, <3>1, <3>2, <3>3 DEF Reserved, Written, TextRange
  <2> QED BY <2>1, <2>2
<1>12. ASSUME NEW i \in Slots, slot'[i] # Stale
       PROVE  (Reserved(slot[i]))' /\ (Written(slot[i]))'
  <2>1. Reserved(slot[i]) /\ Written(slot[i]) /\ slot'[i] = slot[i] /\ slot[i] # Stale
    BY <1>1, <1>12 DEF TextInv
  <2>2. slot[i].len > 0 => slot[i].ofs + slot[i].len < textOfs'
    BY <1>6, <1>8, <2>1
  <2> QED BY <1>1, <2>1, <2>2 DEF Reserved, Written, TextRange
<1>13. ASSUME NEW q \in Producers, NEW r \in Producers, q # r, Holding(q)', Holding(r)'
       PROVE  (Apart(myText[q], myText[r]))'
  <2>1. CASE q # p /\ r # p
    BY <1>2, <1>4, <1>13, <2>1 DEF TextInv, Apart
  <2>2. CASE q = p
    <3>1. myText'[q] = t /\ Holding(r) /\ myText'[r] = myText[r]
      BY <1>2, <1>4, <1>5, <1>13, <2>2
    <3>2. Apart(t, myText[r])
      BY <1>6, <1>7, <3>1 DEF TextInv
    <3> QED BY <3>1, <3>2 DEF Apart
  <2>3. CASE r = p
    <3>1. myText'[r] = t /\ Holding(q) /\ myText'[q] = myText[q]
      BY <1>2, <1>4, <1>5, <1>13, <2>3
    <3>2. Apart(myText[q], t)
      BY <1>6, <1>7, <3>1 DEF TextInv
    <3> QED BY <3>1, <3>2 DEF Apart
  <2> QED BY <2>1, <2>2, <2>3
<1>14. ASSUME NEW q \in Producers, NEW i \in Slots, Holding(q)', slot'[i] # Stale
       PROVE  (Apart(myText[q], slot[i]))'
  <2>1. slot'[i] = slot[i] /\ slot[i] # Stale /\ Reserved(slot[i])
    BY <1>1, <1>14 DEF TextInv
  <2>2. CASE q = p
    <3>1. myText'[q] = t
      BY <1>5, <1>14, <2>2
    <3>2. Apart(t, slot[i])
      BY <1>6, <1>8, <2>1
    <3> QED BY <2>1, <3>1, <3>2 DEF Apart
  <2>3. CASE q # p
    <3>1. Holding(q) /\ myText'[q] = myText[q]
      BY <1>2, <1>4, <1>14, <2>3
    <3> QED BY <2>1, <3>1 DEF TextInv, Apart
  <2> QED BY <2>2, <2>3
<1> QED BY <1>9, <1>10, <1>11, <1>12, <1>13, <1>14 DEF TextInv

(* The memcpy of a text writes its own range and no byte of another.       *)
LEMMA CopyKeepsText ==
  ASSUME TypeOK, TextInv, NEW p \in Producers, CopyText(p)
  PROVE  TextInv'
<1> DEFINE t == myText[p]
<1>1. /\ pc[p] = "copy" /\ pc'[p] = "frame" /\ unflushed[p] = 0
      /\ UNCHANGED <<textOfs, slot, myText, unflushed>>
      /\ \A q \in Producers : q # p => pc'[q] = pc[q]
  BY DEF CopyText, Goto, TypeOK, TextInv
<1>2. Holding(p) /\ \A q \in Producers : Holding(q)' => Holding(q)
  BY <1>1 DEF Holding
<1>3. /\ t.ofs \in Nat /\ t.len \in Nat /\ t.len > 0 /\ TextArenaBytes \in Nat
      /\ t.ofs + t.len < TextArenaBytes
  BY <1>1, <1>2, TextFields, QueueAssumption DEF TextInv, Reserved, Words
<1>4. DOMAIN arena = 0 .. TextArenaBytes - 1 /\ DOMAIN arena' = DOMAIN arena
  BY DEF TypeOK, CopyText
<1>5. \A b \in DOMAIN arena : /\ b \in TextRange(t) => arena'[b] = t.ofs
                              /\ b \notin TextRange(t) => arena'[b] = arena[b]
  BY DEF CopyText
<1>6. (Written(myText[p]))'
  <2>1. \A b \in TextRange(t) : b \in DOMAIN arena
    BY <1>3, <1>4 DEF TextRange
  <2> QED BY <1>1, <1>4, <1>5, <2>1 DEF Written, TextRange
<1>7. ASSUME NEW u, u.ofs \in Nat, u.len \in Nat, Written(u), Apart(t, u)
      PROVE  (Written(u))'
  <2>1. CASE u.len > 0
    <3>1. ASSUME NEW b \in TextRange(u) PROVE b \in DOMAIN arena' /\ arena'[b] = u.ofs
      <4>1. b \in DOMAIN arena /\ arena[b] = u.ofs
        BY <1>7, <2>1, <3>1 DEF Written
      <4>2. b \notin TextRange(t)
        BY <1>3, <1>7, <2>1, <3>1 DEF Apart, TextRange
      <4> QED BY <1>4, <1>5, <4>1, <4>2
    <3> QED BY <3>1 DEF Written, TextRange
  <2>2. CASE ~(u.len > 0)
    BY <2>2 DEF Written
  <2> QED BY <2>1, <2>2
<1>8. \A q \in Producers : myText[q].ofs \in Nat /\ myText[q].len \in Nat
  BY TextFields
<1>9. \A i \in Slots : slot[i] # Stale => slot[i].ofs \in Nat /\ slot[i].len \in Nat
  BY TextFields
<1>10. /\ \A q \in Producers : pc'[q] \in {"copy", "frame", "claim", "store"} => unflushed'[q] = 0
       /\ \A q \in Producers : pc'[q] = "copy" => myText'[q].len > 0
  BY <1>1 DEF TextInv
<1>11. ASSUME NEW q \in Producers, Holding(q)'
       PROVE  (Reserved(myText[q]))' /\ (pc'[q] # "copy" => (Written(myText[q]))')
  <2>1. (Reserved(myText[q]))'
    BY <1>1, <1>2, <1>11 DEF TextInv, Reserved
  <2>2. CASE q = p
    BY <1>6, <2>1, <2>2
  <2>3. CASE q # p /\ pc'[q] # "copy"
    <3>1. Written(myText[q]) /\ Apart(t, myText[q])
      BY <1>1, <1>2, <1>11, <2>3 DEF TextInv
    <3>2. (Written(myText[q]))'
      <4>1. myText'[q] = myText[q]
        BY <1>1
      <4>2. \A b \in TextRange(myText[q]) :
              myText[q].len > 0 => b \in DOMAIN arena' /\ arena'[b] = myText[q].ofs
        <5>1. SUFFICES ASSUME NEW b \in TextRange(myText[q]), myText[q].len > 0
                       PROVE  b \in DOMAIN arena' /\ arena'[b] = myText[q].ofs
          OBVIOUS
        <5>2. b \in DOMAIN arena /\ arena[b] = myText[q].ofs
          BY <3>1, <5>1 DEF Written
        <5>3. b \notin TextRange(t)
          BY <1>3, <1>8, <3>1, <5>1 DEF Apart, TextRange
        <5> QED BY <1>4, <1>5, <5>2, <5>3
      <4> QED BY <4>1, <4>2 DEF Written, TextRange
    <3> QED BY <2>1, <3>2
  <2> QED BY <2>1, <2>2, <2>3
<1>12. ASSUME NEW i \in Slots, slot'[i] # Stale
       PROVE  (Reserved(slot[i]))' /\ (Written(slot[i]))'
  <2>1. /\ slot'[i] = slot[i] /\ slot[i] # Stale
        /\ Reserved(slot[i]) /\ Written(slot[i]) /\ Apart(t, slot[i])
    BY <1>1, <1>2, <1>12 DEF TextInv
  <2>2. \A b \in TextRange(slot[i]) :
          slot[i].len > 0 => b \in DOMAIN arena' /\ arena'[b] = slot[i].ofs
    <3>1. SUFFICES ASSUME NEW b \in TextRange(slot[i]), slot[i].len > 0
                   PROVE  b \in DOMAIN arena' /\ arena'[b] = slot[i].ofs
      OBVIOUS
    <3>2. b \in DOMAIN arena /\ arena[b] = slot[i].ofs
      BY <2>1, <3>1 DEF Written
    <3>3. b \notin TextRange(t)
      BY <1>3, <1>9, <2>1, <3>1 DEF Apart, TextRange
    <3> QED BY <1>4, <1>5, <3>2, <3>3
  <2> QED BY <1>1, <2>1, <2>2 DEF Reserved, Written, TextRange
<1>13. ASSUME NEW q \in Producers, NEW r \in Producers, q # r, Holding(q)', Holding(r)'
       PROVE  (Apart(myText[q], myText[r]))'
  BY <1>1, <1>2, <1>13 DEF TextInv, Apart
<1>14. ASSUME NEW q \in Producers, NEW i \in Slots, Holding(q)', slot'[i] # Stale
       PROVE  (Apart(myText[q], slot[i]))'
  BY <1>1, <1>2, <1>14 DEF TextInv, Apart
<1> QED BY <1>10, <1>11, <1>12, <1>13, <1>14 DEF TextInv

(* A slot takes the range over from the push that held it.                 *)
LEMMA DrainKeepsText ==
  ASSUME TypeOK, TextInv, NEW p \in Producers, Drain(p)
  PROVE  TextInv'
<1>1. /\ unflushed'[p] = unflushed[p] - 1 /\ unflushed[p] \in 1 .. 2
      /\ UNCHANGED <<textOfs, arena, pc, myText>>
      /\ \A q \in Producers : q # p => unflushed'[q] = unflushed[q]
      /\ pc[p] \notin {"copy", "frame", "claim", "store"}
  BY DEF Drain, TypeOK, TextInv
<1>2. ~Holding(p)' /\ \A q \in Producers : Holding(q)' => Holding(q) /\ q # p
  BY <1>1 DEF Holding
<1>3. CASE unflushed[p] = 1
  <2>1. slot' = slot
    BY <1>3 DEF Drain
  <2>2. \A q \in Producers : pc'[q] \in {"copy", "frame", "claim", "store"} => unflushed'[q] = 0
    BY <1>1 DEF TextInv
  <2> QED BY <1>1, <1>2, <2>1, <2>2, TextFrame
<1>4. CASE unflushed[p] = 2
  <2>1. slot'[myIdx[p]] = CmdOf(p) /\ \A i \in Slots : i # myIdx[p] => slot'[i] = slot[i]
    BY <1>4 DEF Drain, TypeOK
  <2>2. CmdOf(p).ofs = myText[p].ofs /\ CmdOf(p).len = myText[p].len
    BY DEF CmdOf
  <2>3. Holding(p) /\ Reserved(myText[p]) /\ Written(myText[p])
    BY <1>1, <1>4 DEF Holding, TextInv
  <2>4. /\ \A q \in Producers : pc'[q] \in {"copy", "frame", "claim", "store"} => unflushed'[q] = 0
        /\ \A q \in Producers : pc'[q] = "copy" => myText'[q].len > 0
    BY <1>1 DEF TextInv
  <2>5. ASSUME NEW q \in Producers, Holding(q)'
        PROVE  (Reserved(myText[q]))' /\ (pc'[q] # "copy" => (Written(myText[q]))')
    BY <1>1, <1>2, <2>5 DEF TextInv, Reserved, Written, TextRange
  <2>6. ASSUME NEW i \in Slots, slot'[i] # Stale
        PROVE  (Reserved(slot[i]))' /\ (Written(slot[i]))'
    <3>1. CASE i = myIdx[p]
      BY <1>1, <2>1, <2>2, <2>3, <3>1 DEF Reserved, Written, TextRange
    <3>2. CASE i # myIdx[p]
      BY <1>1, <2>1, <2>6, <3>2 DEF TextInv, Reserved, Written, TextRange
    <3> QED BY <3>1, <3>2
  <2>7. ASSUME NEW q \in Producers, NEW r \in Producers, q # r, Holding(q)', Holding(r)'
        PROVE  (Apart(myText[q], myText[r]))'
    BY <1>1, <1>2, <2>7 DEF TextInv, Apart
  <2>8. ASSUME NEW q \in Producers, NEW i \in Slots, Holding(q)', slot'[i] # Stale
        PROVE  (Apart(myText[q], slot[i]))'
    <3>1. CASE i = myIdx[p]
      <4>1. Apart(myText[q], myText[p])
        BY <1>2, <2>3, <2>8 DEF TextInv
      <4> QED BY <1>1, <2>1, <2>2, <3>1, <4>1 DEF Apart
    <3>2. CASE i # myIdx[p]
      BY <1>1, <1>2, <2>1, <2>8, <3>2 DEF TextInv, Apart
    <3> QED BY <3>1, <3>2
  <2> QED BY <2>4, <2>5, <2>6, <2>7, <2>8 DEF TextInv
<1> QED BY <1>1, <1>3, <1>4

(* Every step keeps the texts apart.                                       *)
LEMMA TextStep ==
  ASSUME NoTextWrap, TypeOK, TextInv, [Next]_vars PROVE TextInv'
<1> USE DEF memory, locals
<1>1. CASE BeginFrame
  <2>1. \A q \in Producers : pc'[q] = "idle" /\ unflushed'[q] = 0
    BY <1>1 DEF BeginFrame, AtRest
  <2>2. \A i \in Slots : slot'[i] = Stale
    BY <1>1 DEF BeginFrame
  <2>3. \A q \in Producers : ~Holding(q)'
    BY <2>1 DEF Holding
  <2> QED BY <2>1, <2>2, <2>3 DEF TextInv
<1>2. ASSUME NEW p \in Producers, LoadFrame(p) PROVE TextInv'
  <2>1. /\ pc[p] \in {"idle", "frame"} /\ pc'[p] = "claim" /\ unflushed[p] = 0
        /\ UNCHANGED <<textOfs, slot, arena, unflushed>>
        /\ \A q \in Producers : q # p => pc'[q] = pc[q] /\ myText'[q] = myText[q]
        /\ pc[p] = "idle" => myText'[p].len = 0
        /\ pc[p] = "frame" => myText'[p] = myText[p]
    BY <1>2 DEF LoadFrame, Goto, TypeOK, NoText
  <2>2. \A q \in Producers : pc'[q] \in {"copy", "frame", "claim", "store"} => unflushed'[q] = 0
    BY <2>1 DEF TextInv
  <2>3. ASSUME NEW q \in Producers, Holding(q)'
        PROVE  \/ myText'[q].len = 0
               \/ /\ Holding(q) /\ myText'[q] = myText[q]
                  /\ pc[q] = "copy" => pc'[q] = "copy"
    BY <2>1, <2>3 DEF Holding
  <2>4. \A q \in Producers : pc'[q] = "copy" => pc[q] = "copy" /\ myText'[q] = myText[q]
    BY <2>1
  <2> QED BY <2>1, <2>2, <2>3, <2>4, TextFrame
<1>3. ASSUME NEW p \in Producers,
             \/ Claim(p) \/ Store(p) \/ LoadPublished(p) \/ CheckReady(p) \/ Cas(p)
      PROVE  TextInv'
  <2>1. /\ UNCHANGED <<textOfs, slot, arena, myText>>
        /\ pc[p] \in {"claim", "store", "publish", "check", "cas"}
        /\ pc'[p] \in {"idle", "store", "publish", "check", "cas"}
        /\ pc'[p] = "store" => pc[p] = "claim"
        /\ pc[p] # "store" => unflushed'[p] = unflushed[p]
        /\ pc[p] = "store" => pc'[p] = "publish"
        /\ \A q \in Producers : q # p => pc'[q] = pc[q] /\ unflushed'[q] = unflushed[q]
    BY <1>3 DEF Claim, Store, LoadPublished, CheckReady, Cas, Goto, TypeOK
  <2>2. \A q \in Producers : pc'[q] \in {"copy", "frame", "claim", "store"} => unflushed'[q] = 0
    BY <2>1 DEF TextInv
  <2>3. ASSUME NEW q \in Producers, Holding(q)'
        PROVE  Holding(q) /\ (pc[q] = "copy" => pc'[q] = "copy")
    <3>1. CASE q = p
      BY <2>1, <2>3, <3>1 DEF Holding
    <3>2. CASE q # p
      BY <2>1, <2>3, <3>2 DEF Holding
    <3> QED BY <3>1, <3>2
  <2>4. \A q \in Producers : pc'[q] = "copy" => pc[q] = "copy" /\ myText'[q] = myText[q]
    BY <2>1
  <2> QED BY <2>1, <2>2, <2>3, <2>4, TextFrame
<1>4. CASE UNCHANGED vars
  <2>1. UNCHANGED <<textOfs, slot, arena, pc, unflushed, myText>>
    BY <1>4 DEF vars
  <2> QED BY <2>1, TextFrame DEF TextInv, Holding
<1> QED
  BY <1>1, <1>2, <1>3, <1>4, ReserveKeepsText, CopyKeepsText, DrainKeepsText DEF Next, Push

(* As long as the texts of a frame ask for fewer than 2^32 bytes, those of *)
(* refused texts included, the bytes of every published text are the ones  *)
(* its text() copied, for any arena and any producers, also when           *)
(* m_text_ofs ran past the end of the arena (RenderQueue.hpp, text).       *)
THEOREM TextIntactHolds ==
  ASSUME NoTextWrap PROVE Spec => []TextIntact
<1>1. TypeOK /\ TextInv => TextIntact
  <2>1. ASSUME TypeOK PROVE 0 .. published - 1 \subseteq Slots
    BY <2>1, QueueAssumption DEF TypeOK, Slots, Words
  <2> QED BY <2>1 DEF TextInv, Written, TextIntact
<1>2. Init => TypeOK /\ TextInv
  BY TypeInductive, TextInit
<1>3. TypeOK /\ TextInv /\ [Next]_vars => TypeOK' /\ TextInv'
  BY TypeInductive, TextStep
<1> QED BY <1>1, <1>2, <1>3, PTL DEF Spec

=============================================================================
