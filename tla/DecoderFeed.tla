---------------------------- MODULE DecoderFeed ----------------------------
(***************************************************************************)
(* What an eye's VideoDecoder promises the codecs it starts, with no       *)
(* threads, queues or buffers.  A codec is given frames that arrived, each *)
(* frame goes to at most one codec and at most once, and a codec gets its  *)
(* frames in the order they arrived; frames may be skipped.  The exception *)
(* is a thread left over from an earlier start: it may give the codec one  *)
(* frame out of turn, and never another.                                   *)
(***************************************************************************)
EXTENDS Integers, Sequences

VARIABLES
  starts,   \* how many codecs were started; the last is the one that is fed
  arrived,  \* how many frames arrived; they are numbered from 1
  fed       \* what the codecs were given, oldest first

feedVars == <<starts, arrived, fed>>

InTurn == 0  \* who gives a frame that is in its turn; else an earlier start

Give(n, by) ==
  /\ \A k \in DOMAIN fed : fed[k].number # n
  /\ fed' = Append(fed, [number |-> n, start |-> starts, by |-> by])
  /\ UNCHANGED <<starts, arrived>>

FeedInTurn(n) ==
  /\ \A k \in DOMAIN fed : fed[k].start = starts /\ fed[k].by = InTurn => fed[k].number < n
  /\ Give(n, InTurn)

FeedLate(n, by) ==
  /\ \A k \in DOMAIN fed : fed[k].by # by
  /\ Give(n, by)

Start == starts' = starts + 1 /\ UNCHANGED <<arrived, fed>>

Arrive == arrived' = arrived + 1 /\ UNCHANGED <<starts, fed>>

Init == starts = 0 /\ arrived = 0 /\ fed = <<>>

Next ==
  \/ Start \/ Arrive
  \/ \E n \in 1 .. arrived : starts > 0 /\ FeedInTurn(n)
  \/ \E n \in 1 .. arrived, by \in 1 .. starts - 1 : FeedLate(n, by)

Spec == Init /\ [][Next]_feedVars
=============================================================================
