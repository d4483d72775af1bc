---------------------------- MODULE RenderQueue ----------------------------
(***************************************************************************)
(* The command queue of one frame (include/framedot/gfx/RenderQueue.hpp):  *)
(* many producers push, one consumer reads the published prefix.           *)
(*                                                                         *)
(* Every atomic operation of push_payload_(), publish_() and text() is one *)
(* action.  The plain and release stores of push_payload_() go through the *)
(* producer's store buffer, as they do on the x86-64 builds of the         *)
(* library (a release store is a plain mov there): the loads of publish_() *)
(* may run before those stores reach memory, a read-modify-write           *)
(* instruction (fetch_add, compare_exchange) waits until they have, and a  *)
(* producer reads its own buffered store.  StoreFence = TRUE makes the     *)
(* loads wait too: that is a sequentially consistent machine, or the same  *)
(* code with a seq_cst store of m_seq.                                     *)
(***************************************************************************)
EXTENDS Naturals, FiniteSets

CONSTANTS
  Producers,        \* the threads that push
  KMax,             \* RenderQueue::kMax
  TextArenaBytes,   \* RenderQueue::kTextArenaBytes
  TextSizes,        \* sizes of the non-empty strings passed to text()
  Modulus,          \* 2^32: every counter of the queue is 32 bits wide
  StoreFence,       \* do publish_()'s loads wait for the store buffer?
  Stale,            \* content of a slot nobody has written in this frame
  LastFrame,        \* bound: no begin_frame() once m_frame has this value
  MaxClaims,        \* bound: no push starts once m_claimed has this value
  MaxTextOfs,       \* bound: where the last text() of a frame may end
  Steady            \* the producer PushReturns is about: any of them

Slots == 0 .. KMax - 1

Words == 0 .. Modulus - 1

(* Where the arena holds a text (len = 0: no text). *)
Texts == [ofs : Words, len : Words]

(* m_cmds, m_p0 and m_p1 of one slot: who pushed it and, when its op is    *)
(* Text, the range of the arena it names (len = 0: any other op).          *)
Cmds == [by : Producers, ofs : Words, len : Words]

ASSUME QueueAssumption ==
  /\ IsFiniteSet(Producers)
  /\ Steady \in Producers
  /\ Modulus \in Nat /\ Modulus > 1
  /\ KMax \in Words \ {0}
  /\ TextArenaBytes \in Words
  /\ TextSizes \subseteq Nat \ {0}
  /\ StoreFence \in BOOLEAN
  /\ Stale \notin Cmds
  /\ LastFrame \in Nat
  /\ MaxClaims \in Nat
  /\ MaxTextOfs \in Nat

VARIABLES
  frame,      \* m_frame
  claimed,    \* m_claimed
  published,  \* m_published
  dropped,    \* m_dropped
  textOfs,    \* m_text_ofs
  seq,        \* m_seq, as memory holds it
  slot,       \* m_cmds, m_p0, m_p1 as memory holds them; Stale is an entry
              \* that was last written before this frame's begin_frame()
  arena,      \* m_text: for each byte, the offset of the text of this frame
              \* that wrote it (TextArenaBytes: none has)
  pc,         \* where each producer is in push_payload_(), publish_(), text()
  myFrame,    \* push_payload_: frame
  myIdx,      \* push_payload_: idx
  myP,        \* publish_: p
  myText,     \* text: ofs and len
  unflushed   \* stores of push_payload_() still in the store buffer:
              \* 2 = the slot and its m_seq, 1 = the m_seq only, 0 = none

memory == <<frame, claimed, published, dropped, textOfs, seq, slot, arena>>
locals == <<pc, myFrame, myIdx, myP, myText, unflushed>>
vars == <<memory, locals>>

NoText == [ofs |-> 0, len |-> 0]

PCs == {"idle", "copy", "frame", "claim", "store", "publish", "check", "cas"}

TypeOK ==
  /\ frame \in Words
  /\ claimed \in Words
  /\ published \in 0 .. KMax
  /\ dropped \in Words
  /\ textOfs \in Words
  /\ seq \in [Slots -> Words]
  /\ slot \in [Slots -> Cmds \cup {Stale}]
  /\ arena \in [0 .. TextArenaBytes - 1 -> 0 .. TextArenaBytes]
  /\ pc \in [Producers -> PCs]
  /\ myFrame \in [Producers -> Words]
  /\ myIdx \in [Producers -> Slots]
  /\ myP \in [Producers -> Slots]
  /\ myText \in [Producers -> Texts]
  /\ unflushed \in [Producers -> 0 .. 2]

Init ==
  /\ frame = 1
  /\ claimed = 0 /\ published = 0 /\ dropped = 0 /\ textOfs = 0
  /\ seq = [i \in Slots |-> 0]
  /\ slot = [i \in Slots |-> Stale]
  /\ arena = [b \in 0 .. TextArenaBytes - 1 |-> TextArenaBytes]
  /\ pc = [p \in Producers |-> "idle"]
  /\ myFrame = [p \in Producers |-> 0]
  /\ myIdx = [p \in Producers |-> 0]
  /\ myP = [p \in Producers |-> 0]
  /\ myText = [p \in Producers |-> NoText]
  /\ unflushed = [p \in Producers |-> 0]

Goto(p, there) == pc' = [pc EXCEPT ![p] = there]

-----------------------------------------------------------------------------
(* text(): reserve a range of the arena, copy, then push a Text command.   *)

MutReserveNoTerminator(p, size) ==       \* no byte for the zero
  /\ pc[p] = "idle"
  /\ unflushed[p] = 0
  /\ claimed < MaxClaims
  /\ textOfs + size <= MaxTextOfs
  /\ LET len == size % Modulus
         end == (textOfs + len) % Modulus
     IN  /\ textOfs' = end
         /\ \/ /\ end > TextArenaBytes
               /\ dropped' = (dropped + 1) % Modulus
               /\ UNCHANGED <<pc, myText>>
            \/ /\ end <= TextArenaBytes
               /\ myText' = [myText EXCEPT ![p] = [ofs |-> textOfs, len |-> len]]
               /\ Goto(p, "copy")
               /\ UNCHANGED dropped
  /\ UNCHANGED <<frame, claimed, published, seq, slot, arena,
                 myFrame, myIdx, myP, unflushed>>

(* The size is cast to 32 bits, and the sum that is stored in m_text_ofs   *)
(* and the one that is tested are sums of 32 bits.                         *)
ReserveText(p, size) ==
  /\ pc[p] = "idle"
  /\ unflushed[p] = 0                                 \* fetch_add drains
  /\ claimed < MaxClaims                              \* bound
  /\ textOfs + size + 1 <= MaxTextOfs                 \* bound
  /\ LET len == size % Modulus
         end == (textOfs + len + 1) % Modulus
     IN  /\ textOfs' = end
         /\ \/ /\ end > TextArenaBytes
               /\ dropped' = (dropped + 1) % Modulus
               /\ UNCHANGED <<pc, myText>>
            \/ /\ end <= TextArenaBytes
               /\ myText' = [myText EXCEPT ![p] = [ofs |-> textOfs, len |-> len]]
               /\ Goto(p, "copy")
               /\ UNCHANGED dropped
  /\ UNCHANGED <<frame, claimed, published, seq, slot, arena,
                 myFrame, myIdx, myP, unflushed>>

(* The bytes a text of p occupies, its terminating zero included. *)
TextRange(t) == t.ofs .. t.ofs + t.len

(* The memcpy is complete in memory before p's next action that others can *)
(* see, the fetch_add of Claim, so it is not sent through the buffer.      *)
CopyText(p) ==
  /\ pc[p] = "copy"
  /\ arena' = [b \in DOMAIN arena |->
                 IF b \in TextRange(myText[p]) THEN myText[p].ofs ELSE arena[b]]
  /\ Goto(p, "frame")
  /\ UNCHANGED <<frame, claimed, published, dropped, textOfs, seq, slot,
                 myFrame, myIdx, myP, myText, unflushed>>

-----------------------------------------------------------------------------
(* push_payload_() up to publish_().                                       *)

(* A push of any op but Text starts here; text() arrives with pc "frame".  *)
(* Between the return of a push and this load nothing p does is visible to *)
(* another thread, so p's buffer is let drain first.                       *)
LoadFrame(p) ==
  /\ pc[p] \in {"idle", "frame"}
  /\ unflushed[p] = 0
  /\ pc[p] = "idle" => claimed < MaxClaims            \* bound
  /\ myFrame' = [myFrame EXCEPT ![p] = frame]
  /\ myText' = IF pc[p] = "idle" THEN [myText EXCEPT ![p] = NoText] ELSE myText
  /\ Goto(p, "claim")
  /\ UNCHANGED <<memory, myIdx, myP, unflushed>>

(* A refused push counts itself in m_dropped and returns.  No push reads   *)
(* that counter, so that it moves with the claim makes no difference here. *)
Claim(p) ==
  /\ pc[p] = "claim"
  /\ claimed' = (claimed + 1) % Modulus
  /\ \/ /\ claimed >= KMax
        /\ dropped' = (dropped + 1) % Modulus
        /\ Goto(p, "idle")
        /\ UNCHANGED myIdx
     \/ /\ claimed < KMax
        /\ myIdx' = [myIdx EXCEPT ![p] = claimed]
        /\ Goto(p, "store")
        /\ UNCHANGED dropped
  /\ UNCHANGED <<frame, published, textOfs, seq, slot, arena,
                 myFrame, myP, myText, unflushed>>

(* m_cmds[idx], m_p0[idx], m_p1[idx], then m_seq[idx]: all enter the store *)
(* buffer in that order.                                                   *)
Store(p) ==
  /\ pc[p] = "store"
  /\ unflushed' = [unflushed EXCEPT ![p] = 2]
  /\ Goto(p, "publish")
  /\ UNCHANGED <<memory, myFrame, myIdx, myP, myText>>

CmdOf(p) == [by |-> p, ofs |-> myText[p].ofs, len |-> myText[p].len]

MutDrainSeqFirst(p) ==
  /\ \/ /\ unflushed[p] = 2
        /\ seq' = [seq EXCEPT ![myIdx[p]] = myFrame[p]]
        /\ UNCHANGED slot
     \/ /\ unflushed[p] = 1
        /\ slot' = [slot EXCEPT ![myIdx[p]] = CmdOf(p)]
        /\ UNCHANGED seq
  /\ unflushed' = [unflushed EXCEPT ![p] = @ - 1]
  /\ UNCHANGED <<frame, claimed, published, dropped, textOfs, arena,
                 pc, myFrame, myIdx, myP, myText>>

(* The memory system takes the oldest store out of p's buffer. *)
Drain(p) ==
  /\ \/ /\ unflushed[p] = 2
        /\ slot' = [slot EXCEPT ![myIdx[p]] = CmdOf(p)]
        /\ UNCHANGED seq
     \/ /\ unflushed[p] = 1
        /\ seq' = [seq EXCEPT ![myIdx[p]] = myFrame[p]]
        /\ UNCHANGED slot
  /\ unflushed' = [unflushed EXCEPT ![p] = @ - 1]
  /\ UNCHANGED <<frame, claimed, published, dropped, textOfs, arena,
                 pc, myFrame, myIdx, myP, myText>>

-----------------------------------------------------------------------------
(* publish_(): advance the frontier over every slot that is ready.         *)

(* What p reads at m_seq[i]: its own buffered store, or memory. *)
SeenSeq(p, i) == IF unflushed[p] > 0 /\ i = myIdx[p] THEN myFrame[p] ELSE seq[i]

MutLoadOneOver(p) ==         \* p > kMax: the slot after the last is looked at
  /\ pc[p] = "publish"
  /\ StoreFence => unflushed[p] = 0
  /\ myP' = [myP EXCEPT ![p] = published]
  /\ Goto(p, IF published > KMax THEN "idle" ELSE "check")
  /\ UNCHANGED <<memory, myFrame, myIdx, myText, unflushed>>

LoadPublished(p) ==
  /\ pc[p] = "publish"
  /\ StoreFence => unflushed[p] = 0
  /\ \/ /\ published >= KMax
        /\ Goto(p, "idle")
        /\ UNCHANGED myP
     \/ /\ published < KMax
        /\ myP' = [myP EXCEPT ![p] = published]
        /\ Goto(p, "check")
  /\ UNCHANGED <<memory, myFrame, myIdx, myText, unflushed>>

MutCheckWaits(p) ==         \* wait for the owner of a claimed slot
  /\ pc[p] = "check"
  /\ Goto(p, CASE SeenSeq(p, myP[p]) = myFrame[p] -> "cas"
               [] SeenSeq(p, myP[p]) # myFrame[p] /\ myP[p] < claimed -> "publish"
               [] OTHER -> "idle")
  /\ UNCHANGED <<memory, myFrame, myIdx, myP, myText, unflushed>>

CheckReady(p) ==
  /\ pc[p] = "check"
  /\ Goto(p, IF SeenSeq(p, myP[p]) = myFrame[p] THEN "cas" ELSE "idle")
  /\ UNCHANGED <<memory, myFrame, myIdx, myP, myText, unflushed>>

MutCasOnce(p) ==            \* if instead of while
  /\ pc[p] = "cas"
  /\ unflushed[p] = 0
  /\ published' = IF published = myP[p] THEN myP[p] + 1 ELSE published
  /\ Goto(p, "idle")
  /\ UNCHANGED <<frame, claimed, dropped, textOfs, seq, slot, arena,
                 myFrame, myIdx, myP, myText, unflushed>>

MutCasBlind(p) ==           \* store instead of compare_exchange
  /\ pc[p] = "cas"
  /\ unflushed[p] = 0
  /\ published' = myP[p] + 1
  /\ Goto(p, "publish")
  /\ UNCHANGED <<frame, claimed, dropped, textOfs, seq, slot, arena,
                 myFrame, myIdx, myP, myText, unflushed>>

(* compare_exchange_weak; on x86-64 it fails only when the value differs. *)
Cas(p) ==
  /\ pc[p] = "cas"
  /\ unflushed[p] = 0                                 \* the CAS drains
  /\ published' = IF published = myP[p] THEN myP[p] + 1 ELSE published
  /\ Goto(p, "publish")
  /\ UNCHANGED <<frame, claimed, dropped, textOfs, seq, slot, arena,
                 myFrame, myIdx, myP, myText, unflushed>>

-----------------------------------------------------------------------------
(* No push is in flight and every store has reached memory: the state in   *)
(* which JobSystem::wait_idle() leaves the queue (a worker's decrement of  *)
(* m_inflight is a read-modify-write, so it drains the buffer).            *)
AtRest == \A p \in Producers : pc[p] = "idle" /\ unflushed[p] = 0

(* begin_frame() is called by the main thread between two waits for idle.  *)
(* It leaves the slots alone; what they hold merely becomes stale.         *)
BeginFrame ==
  /\ AtRest
  /\ frame < LastFrame                                \* bound
  /\ frame' = (frame + 1) % Modulus
  /\ claimed' = 0 /\ published' = 0 /\ dropped' = 0 /\ textOfs' = 0
  /\ slot' = [i \in Slots |-> Stale]
  /\ arena' = [b \in DOMAIN arena |-> TextArenaBytes]
  /\ UNCHANGED <<seq, locals>>

Push(p) ==
  \/ \E size \in TextSizes : ReserveText(p, size)
  \/ CopyText(p) \/ LoadFrame(p) \/ Claim(p) \/ Store(p)
  \/ LoadPublished(p) \/ CheckReady(p) \/ Cas(p)

Next == BeginFrame \/ \E p \in Producers : Push(p) \/ Drain(p)

Spec == Init /\ [][Next]_vars

-----------------------------------------------------------------------------
(* What the consumer, SoftwareRenderer::execute(), relies on.              *)

(* Every entry below size() was written in the current frame, by a push    *)
(* whose ready mark is in memory: the consumer never reads a command of an *)
(* earlier frame or a half-written one.  The claims of several producers,  *)
(* their stores and the advance of the frontier are unordered, and the     *)
(* slots are never cleared: only the comparison of m_seq keeps this true.  *)
PublishedComplete ==
  \A i \in 0 .. published - 1 : slot[i] # Stale /\ seq[i] = frame

(* The bytes a published Text command names, its terminating zero          *)
(* included, are in the arena and still the ones its text() copied: no     *)
(* other text() of the frame was given a byte of them, also after          *)
(* m_text_ofs ran past the end.                                            *)
TextIntact ==
  \A i \in 0 .. published - 1 :
    slot[i] # Stale /\ slot[i].len > 0 =>
      \A b \in TextRange(slot[i]) : b \in DOMAIN arena /\ arena[b] = slot[i].ofs

(* No push is lost: once every thread has returned from push() and its     *)
(* stores are in memory, size() counts every claimed slot (RenderQueue.hpp *)
(* says push is safe for many producers, and every push returned true).    *)
AllPublishedAtRest ==
  AtRest => published = IF claimed < KMax THEN claimed ELSE KMax

(* The published prefix is an append-only log: a published command never   *)
(* changes before the next begin_frame(), and none is inserted before it.  *)
Log == INSTANCE FrameLog WITH
         visible <- [i \in 1 .. published |-> slot[i - 1]],
         Cmds <- Cmds, Capacity <- KMax
AppendOnlyLog == Log!Spec

InPush(p) == \/ CopyText(p) \/ (pc[p] = "frame" /\ LoadFrame(p)) \/ Claim(p)
             \/ Store(p) \/ LoadPublished(p) \/ CheckReady(p) \/ Cas(p)

(* One thread keeps running while it is inside push() or text(), and its   *)
(* store buffer drains.  Any other may stop anywhere, for ever: between    *)
(* its claim and its write, or with its mark still in its store buffer.    *)
(* No thread has to start a push, and no frame has to begin.               *)
Runs(p) == WF_vars(InPush(p)) /\ WF_vars(Drain(p))

FairSpec == Spec /\ Runs(Steady)

(* push() and text() of a thread that keeps running return, whatever the   *)
(* other producers do or leave undone: the loop of publish_() is repeated  *)
(* only after the frontier moved, and it never waits for a producer that   *)
(* was descheduled after it claimed an earlier slot.                       *)
PushReturns == (pc[Steady] # "idle") ~> (pc[Steady] = "idle")
=============================================================================
