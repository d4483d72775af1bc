-------------------------------- MODULE Input --------------------------------
(***************************************************************************)
(* The input of one frame (include/framedot/input/): a source reads what   *)
(* the user does and hands each event to InputCollector::push(), which     *)
(* updates the key state and records the event in a queue of fixed size.   *)
(* The "terminal" source (TerminalInput::pump) reports presses only, those *)
(* of the keyboard's repetition included; a "full" one also reports        *)
(* repetitions and releases as what they are.                              *)
(***************************************************************************)
EXTENDS Naturals, Sequences, FiniteSets

CONSTANTS
  Keys,        \* the keys that map_key_() knows
  Unmapped,    \* what poll_key() may return besides: Key::Unknown
  Capacity,    \* config::max_input_events
  Policies,    \* values of config::input_overflow_policy
  Sources,     \* the sources the loop may be given
  MaxEvents    \* bound: events of the user between two frames

KeyEvents == [key : Keys, action : {"Press", "Release", "Repeat"}]

InputAssumption ==
  /\ Capacity \in Nat \ {0}
  /\ Policies \subseteq {"DropNewest", "DropOldest", "CoalesceMouseMove"}
  /\ Sources \subseteq {"terminal", "full"}
  /\ Unmapped \cap KeyEvents = {}
  /\ MaxEvents \in Nat

VARIABLES
  policy,        \* config::input_overflow_policy
  source,        \* which source the loop was given
  held,          \* the keys the user holds down
  pending,       \* what the source has not read yet
  pumping,       \* is the loop inside input->pump()?
  down,          \* InputState::m_down
  justPressed,   \* InputState::m_just_pressed
  justReleased,  \* InputState::m_just_released
  anyInput,      \* InputState::m_any_input
  events,        \* InputQueue::m_events, the first m_size
  dropped,       \* InputQueue::m_dropped
  downBefore,    \* history: m_down when the frame began
  arrived        \* history: the key events of this frame

config == <<policy, source>>
user == <<held, pending>>
state == <<down, justPressed, justReleased, anyInput>>
queue == <<events, dropped>>
history == <<downBefore, arrived>>
vars == <<config, user, pumping, state, queue, history>>

TypeOK ==
  /\ policy \in Policies /\ source \in Sources
  /\ held \subseteq Keys
  /\ pending \in Seq(KeyEvents \cup Unmapped)
  /\ pumping \in BOOLEAN /\ anyInput \in BOOLEAN
  /\ down \subseteq Keys /\ downBefore \subseteq Keys
  /\ justPressed \subseteq Keys /\ justReleased \subseteq Keys
  /\ events \in Seq(KeyEvents) /\ Len(events) <= Capacity
  /\ dropped \in Nat
  /\ arrived \in Seq(KeyEvents)

Init ==
  /\ policy \in Policies /\ source \in Sources
  /\ held = {} /\ pending = << >>
  /\ pumping = FALSE
  /\ down = {} /\ justPressed = {} /\ justReleased = {} /\ anyInput = FALSE
  /\ events = << >> /\ dropped = 0
  /\ downBefore = {} /\ arrived = << >>

-----------------------------------------------------------------------------
(* What the user does reaches the source at any time, also while it reads. *)

Arrives(e) == /\ Len(pending) + Len(arrived) < MaxEvents        \* bound
              /\ pending' = Append(pending, e)

UserPresses(k) ==
  /\ k \notin held
  /\ held' = held \cup {k}
  /\ Arrives([key |-> k, action |-> "Press"])
  /\ UNCHANGED <<config, pumping, state, queue, history>>

UserHolds(k) ==
  /\ k \in held
  /\ Arrives([key |-> k, action |-> IF source = "full" THEN "Repeat" ELSE "Press"])
  /\ UNCHANGED <<config, held, pumping, state, queue, history>>

UserReleases(k) ==
  /\ k \in held
  /\ held' = held \ {k}
  /\ IF source = "full" THEN Arrives([key |-> k, action |-> "Release"])
     ELSE UNCHANGED pending
  /\ UNCHANGED <<config, pumping, state, queue, history>>

OtherArrives(c) ==
  /\ Arrives(c)
  /\ UNCHANGED <<config, held, pumping, state, queue, history>>

-----------------------------------------------------------------------------
(* InputState::apply() for a key event; no source reports any other type.  *)

Apply(e) ==
  /\ anyInput' = TRUE
  /\ down' = IF e.action = "Release" THEN down \ {e.key} ELSE down \cup {e.key}
  /\ justPressed' = IF e.action = "Press" /\ e.key \notin down
                    THEN justPressed \cup {e.key} ELSE justPressed
  /\ justReleased' = IF e.action = "Release" /\ e.key \in down
                     THEN justReleased \cup {e.key} ELSE justReleased

MutRecordOver(e) ==       \* <= instead of <
  \/ /\ Len(events) <= Capacity
     /\ events' = Append(events, e)
     /\ UNCHANGED dropped
  \/ /\ Len(events) > Capacity
     /\ events' = IF policy = "DropOldest" THEN Append(Tail(events), e) ELSE events
     /\ dropped' = dropped + 1

MutRecordShift(e) ==      \* the shift starts one too late
  \/ /\ Len(events) < Capacity
     /\ events' = Append(events, e)
     /\ UNCHANGED dropped
  \/ /\ Len(events) = Capacity
     /\ events' = IF policy = "DropOldest"
                  THEN <<Head(events)>> \o Append(Tail(Tail(events)), e) ELSE events
     /\ dropped' = dropped + 1

(* InputQueue::push().  CoalesceMouseMove is treated like DropNewest. *)
Record(e) ==
  \/ /\ Len(events) < Capacity
     /\ events' = Append(events, e)
     /\ UNCHANGED dropped
  \/ /\ Len(events) = Capacity
     /\ events' = IF policy = "DropOldest" THEN Append(Tail(events), e) ELSE events
     /\ dropped' = dropped + 1

-----------------------------------------------------------------------------
MutBeginInput ==          \* no InputState::begin_frame()
  /\ ~pumping
  /\ events' = << >> /\ dropped' = 0
  /\ downBefore' = down /\ arrived' = << >>
  /\ pumping' = TRUE
  /\ UNCHANGED <<config, user, state>>

(* Stage 1 of the loop: begin_frame(), clear(), and pump() begins. *)
BeginInput ==
  /\ ~pumping
  /\ justPressed' = {} /\ justReleased' = {} /\ anyInput' = FALSE
  /\ events' = << >> /\ dropped' = 0
  /\ downBefore' = down /\ arrived' = << >>
  /\ pumping' = TRUE
  /\ UNCHANGED <<config, user, down>>

MutPollKey ==             \* an event the queue refuses does not reach the state
  /\ pumping /\ pending # << >>
  /\ pending' = Tail(pending)
  /\ \/ /\ Head(pending) \in Unmapped
        /\ UNCHANGED <<state, queue, arrived>>
     \/ /\ Head(pending) \in KeyEvents
        /\ IF Len(events) < Capacity THEN Apply(Head(pending)) ELSE UNCHANGED state
        /\ Record(Head(pending))
        /\ arrived' = Append(arrived, Head(pending))
  /\ UNCHANGED <<config, held, pumping, downBefore>>

(* One turn of pump()'s loop: poll_key() and, for a key it knows,          *)
(* InputCollector::push(), which updates the state whatever the queue does.*)
PollKey ==
  /\ pumping /\ pending # << >>
  /\ pending' = Tail(pending)
  /\ \/ /\ Head(pending) \in Unmapped
        /\ UNCHANGED <<state, queue, arrived>>
     \/ /\ Head(pending) \in KeyEvents
        /\ Apply(Head(pending)) /\ Record(Head(pending))
        /\ arrived' = Append(arrived, Head(pending))
  /\ UNCHANGED <<config, held, pumping, downBefore>>

(* poll_key() returns -1: pump() returns. *)
EndInput ==
  /\ pumping /\ pending = << >>
  /\ pumping' = FALSE
  /\ UNCHANGED <<config, user, state, queue, history>>

UserActs ==
  \/ \E k \in Keys : UserPresses(k) \/ UserHolds(k) \/ UserReleases(k)
  \/ \E c \in Unmapped : OtherArrives(c)

Next == UserActs \/ BeginInput \/ PollKey \/ EndInput

Spec == Init /\ [][Next]_vars

-----------------------------------------------------------------------------
(* The queue holds the first events of the frame, or with DropOldest the   *)
(* last ones, in the order in which they arrived, and m_dropped says how   *)
(* many more there were.                                                   *)
QueueKeepsOrder ==
  LET n == Len(arrived) IN
  /\ dropped = n - Len(events)
  /\ events = IF n <= Capacity THEN arrived
              ELSE IF policy = "DropOldest" THEN SubSeq(arrived, n - Capacity + 1, n)
              ELSE SubSeq(arrived, 1, Capacity)

(* The edges tell every change of a key in this frame, however many events *)
(* the queue had to drop (InputState.hpp: the state is kept when the queue *)
(* overflows): a key that went down or up since the frame began, or both,  *)
(* is among the just pressed or the just released, and no other key is.    *)
EdgesTellChanges ==
  /\ down \ downBefore \subseteq justPressed
  /\ downBefore \ down \subseteq justReleased
  /\ \A k \in justPressed : k \in down \ downBefore \/ k \in justReleased
  /\ \A k \in justReleased : k \in downBefore \ down \/ k \in justPressed

(* With a source that reports releases the state follows the keyboard: when *)
(* everything has been read, the keys that are down are those held.        *)
StateFollowsKeyboard ==
  source = "full" /\ pending = << >> => down = held
=============================================================================
