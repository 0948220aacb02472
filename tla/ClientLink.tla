----------------------------- MODULE ClientLink -----------------------------
(***************************************************************************)
(* The back channel: poses, keyframe requests and discovery, from the      *)
(* client to the OpenXR session.                                           *)
(*                                                                         *)
(* Client: PoseSender.send numbers poses, StreamReceiver.announce sends    *)
(* handshakes, requestKeyframe asks.  A client that restarts numbers poses *)
(* from one again.                                                         *)
(* Link: UDP.  A packet may be lost or overtaken by any other.             *)
(* Host: ClientLink::DrainSocket files packets by type; WaitFrameImpl runs *)
(* it twice a frame, in PollForClient and in PollPose (framework/src/      *)
(* ClientLink.cpp and openxr/XrRuntime.cpp).                               *)
(*                                                                         *)
(* Time passes in ticks of a little over 500 ms.  `newer', `lastHandshake' *)
(* and `misjudged' are history.                                            *)
(***************************************************************************)
EXTENDS Integers, Sequences, SequencesExt, FiniteSetsExt

CONSTANTS
  SequenceModulus,   \* 2^32: poseSequence is a uint32_t
  ConfiguredRate,    \* session.config.frameRate
  RequestedRates,    \* what a handshake may ask for; 0 asks for nothing
  MaxClients,        \* bound: how often a client is started
  MaxKeyframeRequests, \* bound: requests the session counts
  MaxInFlight,       \* bound: packets on their way
  MaxDelay,          \* bound: poses a client sends while one is on its way
  Nobody             \* no client

ASSUME ModulusAssumption == SequenceModulus \in Nat /\ SequenceModulus > 1
                              /\ SequenceModulus % 2 = 0
ASSUME RatesAssumption == ConfiguredRate \in Nat \ {0} /\ RequestedRates \subseteq Nat
ASSUME BoundsAssumption == MaxClients \in Nat \ {0} /\ MaxKeyframeRequests \in Nat
                             /\ MaxInFlight \in Nat \ {0} /\ MaxDelay \in Nat \ {0}
ASSUME WindowAssumption == MaxDelay < SequenceModulus \div 2

VARIABLES
  client,        \* which start of the client is running
  sequence,      \* PoseSender.sequence
  hostKnown,     \* the client has received video, so it knows the host's address
  inFlight,      \* packets on their way, oldest first
  havePose, latest, age,        \* m_havePose; m_latestSequence and whose it is; ticks
                                \* since m_poseReceivedAt
  pending, keyframeRequested,   \* m_pendingEndpoint, m_keyframeRequested
  at,            \* where WaitFrameImpl is
  frame,         \* session.frame: poseValid, and whose pose it holds
  destination, deliveryFrameRate, keyframeRequests,  \* of the session
  lastHandshake, misjudged

clientVars == <<client, sequence, hostKnown>>
linkVars == <<havePose, latest, age, pending, keyframeRequested>>
sessionVars == <<frame, destination, deliveryFrameRate, keyframeRequests>>
historyVars == <<lastHandshake, misjudged>>
vars == <<client, sequence, hostKnown, inFlight, havePose, latest, age, pending,
          keyframeRequested, at, frame, destination, deliveryFrameRate, keyframeRequests,
          lastHandshake, misjudged>>

Sequences32 == 0 .. SequenceModulus - 1
Clients == 1 .. MaxClients

\* 500 ms and 1000 ms, in ticks.
StaleAfter == 0
LostAfter == 1

Pose == [kind : {"pose"}, from : Clients, sequence : Sequences32, newer : BOOLEAN]
Handshake == [kind : {"handshake"}, from : Clients, rate : RequestedRates]
KeyframeRequest == [kind : {"keyframe"}]
Packet == Pose \cup Handshake \cup KeyframeRequest

\* Who is waiting to be attached, and the rate asked for.
Endpoint == [from : Clients, rate : RequestedRates]

ASSUME NobodyAssumption == Nobody \notin Clients \cup Endpoint

\* Fault: sequence numbers are compared without regard to the wrap.
DeltaUnwrapped(a, b) == a - b

\* static_cast<int32_t>(a - b)
Delta(a, b) ==
  LET d == (a - b) % SequenceModulus IN
  IF d < SequenceModulus \div 2 THEN d ELSE d - SequenceModulus

-----------------------------------------------------------------------------
(* The client and the link.                                                *)

\* A packet is lost or put on its way.
Send(p) ==
  \/ inFlight' = inFlight
  \/ Len(inFlight) < MaxInFlight /\ inFlight' = Append(inFlight, p)

\* The next pose keeps within MaxDelay of every pose on its way, and of the one the
\* host has until 500 ms are over: far below half of all numbers, as the poses of that
\* time are below 2^31.
InWindow ==
  /\ \A k \in DOMAIN inFlight :
       inFlight[k].kind = "pose" /\ inFlight[k].from = client =>
         Delta(sequence, inFlight[k].sequence) < MaxDelay
  /\ havePose /\ age <= StaleAfter /\ latest.from = client =>
       Delta(sequence, latest.sequence) < MaxDelay

\* PoseSender.send, which sends nothing before the host is known.
SendPose ==
  /\ hostKnown /\ InWindow
  /\ sequence' = (sequence + 1) % SequenceModulus
  /\ Send([kind |-> "pose", from |-> client, sequence |-> sequence', newer |-> TRUE])
  /\ UNCHANGED <<client, hostKnown, linkVars, at, sessionVars, historyVars>>

\* Time passes between two calls of WaitFrameImpl, which takes far less than a tick.
Tick ==
  /\ at = "between" /\ age <= LostAfter
  /\ age' = age + 1
  /\ UNCHANGED <<clientVars, inFlight, havePose, latest, pending, keyframeRequested, at,
                 sessionVars, historyVars>>

OnItsWay(kind) == \E k \in DOMAIN inFlight : inFlight[k].kind = kind

\* One round of announce with no video for two seconds.
Announce(rate) ==
  /\ ~OnItsWay("handshake")
  /\ Send([kind |-> "handshake", from |-> client, rate |-> rate])
  /\ UNCHANGED <<clientVars, linkVars, at, sessionVars, historyVars>>

\* StreamReceiver.requestKeyframe; a second request before the first one is
\* answered changes nothing.
RequestKeyframe ==
  /\ hostKnown /\ keyframeRequests < MaxKeyframeRequests
  /\ ~OnItsWay("keyframe") /\ ~keyframeRequested
  /\ Send([kind |-> "keyframe"])
  /\ UNCHANGED <<clientVars, linkVars, at, sessionVars, historyVars>>

\* The first packet of video reaches the client.
HearVideo ==
  /\ destination # Nobody /\ ~hostKnown
  /\ hostKnown' = TRUE
  /\ UNCHANGED <<client, sequence, inFlight, linkVars, at, sessionVars, historyVars>>

RestartClient ==
  /\ client < MaxClients
  /\ client' = client + 1
  /\ sequence' = 0 /\ hostKnown' = FALSE
  /\ UNCHANGED <<inFlight, linkVars, at, sessionVars, historyVars>>

Without(k) == RemoveAt(inFlight, k)

-----------------------------------------------------------------------------
(* DrainSocket: one packet of its loop, while one of the polls runs it.    *)

Draining == at \in {"discovering", "posing"}

\* Fault: a silent link is never taken for stale.
LinkNeverStale == FALSE

LinkStale == havePose /\ age > StaleAfter

Rejected(p) ==
  havePose /\ Delta(p.sequence, latest.sequence) <= 0 /\ ~LinkStale

\* Which of the packets left were sent after the pose just accepted.
MarkNewer(k) ==
  [j \in DOMAIN Without(k) |->
    IF Without(k)[j].kind = "pose" THEN [Without(k)[j] EXCEPT !.newer = j >= k]
    ELSE Without(k)[j]]

RejectPose(k) ==
  LET p == inFlight[k] IN
  /\ Draining /\ p.kind = "pose" /\ Rejected(p)
  /\ misjudged' = (misjudged \/ (p.from = latest.from /\ p.newer))
  /\ inFlight' = Without(k)
  /\ UNCHANGED <<clientVars, linkVars, at, sessionVars, lastHandshake>>

AcceptPose(k) ==
  LET p == inFlight[k] IN
  /\ Draining /\ p.kind = "pose" /\ ~Rejected(p)
  /\ misjudged' = (misjudged \/ (havePose /\ ~LinkStale /\ p.from = latest.from /\ ~p.newer))
  /\ latest' = [from |-> p.from, sequence |-> p.sequence]
  /\ age' = 0
  /\ havePose' = TRUE
  /\ inFlight' = MarkNewer(k)
  /\ UNCHANGED <<clientVars, pending, keyframeRequested, at, sessionVars, lastHandshake>>

ReadKeyframeRequest(k) ==
  /\ Draining /\ inFlight[k].kind = "keyframe"
  /\ keyframeRequested' = TRUE
  /\ inFlight' = Without(k)
  /\ UNCHANGED <<clientVars, havePose, latest, age, pending, at, sessionVars, historyVars>>

\* What the answer tells is left out: no client of the repository reads it.
ReadHandshake(k) ==
  LET p == inFlight[k] IN
  /\ Draining /\ p.kind = "handshake"
  /\ pending' = [from |-> p.from, rate |-> p.rate]
  /\ lastHandshake' = p.from
  /\ inFlight' = Without(k)
  /\ UNCHANGED <<clientVars, havePose, latest, age, keyframeRequested, at, sessionVars,
                 misjudged>>

-----------------------------------------------------------------------------
(* WaitFrameImpl.                                                          *)

\* Fault: a new call of WaitFrameImpl starts without the handshake of the last.
BeginWaitFrameForgetting ==
  /\ at = "between"
  /\ at' = "discovering"
  /\ pending' = Nobody
  /\ UNCHANGED <<clientVars, inFlight, havePose, latest, age, keyframeRequested, sessionVars,
                 historyVars>>

BeginWaitFrame ==
  /\ at = "between"
  /\ at' = "discovering"
  /\ UNCHANGED <<clientVars, inFlight, linkVars, sessionVars, historyVars>>

\* Fault: the client gets the rate it asks for.
EndPollForClientUnclamped ==
  /\ at = "discovering"
  /\ at' = "posing"
  /\ pending' = Nobody
  /\ IF pending # Nobody
     THEN destination' = pending.from /\ deliveryFrameRate' = pending.rate
     ELSE UNCHANGED <<destination, deliveryFrameRate>>
  /\ UNCHANGED <<clientVars, inFlight, havePose, latest, age, keyframeRequested, frame,
                 keyframeRequests, historyVars>>

\* No more packets, or recvfrom failed: PollForClient returns, and the session
\* attaches the client that was heard of.
EndPollForClient ==
  /\ at = "discovering"
  /\ at' = "posing"
  /\ pending' = Nobody
  /\ IF pending # Nobody
     THEN /\ destination' = pending.from
          /\ deliveryFrameRate' = IF pending.rate = 0 THEN deliveryFrameRate
                                  ELSE Min({pending.rate, ConfiguredRate})
     ELSE UNCHANGED <<destination, deliveryFrameRate>>
  /\ UNCHANGED <<clientVars, inFlight, havePose, latest, age, keyframeRequested, frame,
                 keyframeRequests, historyVars>>

\* What PollPose returns.
PoseToGive == havePose /\ age <= LostAfter

\* PollPose returns.  It leaves the frame alone when it has no pose to give, and
\* WaitFrameImpl ignores what it returns; then a keyframe request is consumed.
EndPollPose ==
  /\ at = "posing"
  /\ at' = "between"
  /\ frame' = IF PoseToGive THEN [poseValid |-> TRUE, from |-> latest.from] ELSE frame
  /\ keyframeRequested' = FALSE
  /\ keyframeRequests' = keyframeRequests + (IF keyframeRequested THEN 1 ELSE 0)
  /\ UNCHANGED <<clientVars, inFlight, havePose, latest, age, pending, destination,
                 deliveryFrameRate, historyVars>>

-----------------------------------------------------------------------------
Init ==
  /\ client = 1 /\ sequence = 0 /\ hostKnown = FALSE
  /\ inFlight = <<>>
  /\ havePose = FALSE /\ latest = [from |-> Nobody, sequence |-> 0] /\ age = 0
  /\ pending = Nobody /\ keyframeRequested = FALSE
  /\ at = "between"
  /\ frame = [poseValid |-> FALSE, from |-> Nobody]
  /\ destination = Nobody /\ deliveryFrameRate = ConfiguredRate /\ keyframeRequests = 0
  /\ lastHandshake = Nobody /\ misjudged = FALSE

ReadPose(k) == RejectPose(k) \/ AcceptPose(k)

DrainOne(k) == ReadPose(k) \/ ReadKeyframeRequest(k) \/ ReadHandshake(k)

WaitFrame == BeginWaitFrame \/ EndPollForClient \/ EndPollPose

ClientSide ==
  \/ SendPose \/ RequestKeyframe \/ HearVideo \/ RestartClient
  \/ \E rate \in RequestedRates : Announce(rate)

Next ==
  \/ ClientSide
  \/ \E k \in DOMAIN inFlight : DrainOne(k)
  \/ WaitFrame
  \/ Tick

Spec == Init /\ [][Next]_vars

\* The application keeps calling xrWaitFrame, time passes, a client without video
\* keeps announcing and one with video keeps sending poses, the link does not lose
\* every one of them, and DrainSocket empties the socket.
ReadOldest == inFlight # <<>> /\ DrainOne(1)
OnTheWay == inFlight' # inFlight

Fairness ==
  /\ WF_vars(WaitFrame) /\ SF_vars(Tick) /\ WF_vars(HearVideo)
  /\ SF_vars(SendPose /\ OnTheWay)
  /\ SF_vars(~hostKnown /\ (\E rate \in RequestedRates : Announce(rate)) /\ OnTheWay)
  /\ SF_vars(ReadOldest)

FairSpec == Spec /\ Fairness

-----------------------------------------------------------------------------
(* Properties.                                                             *)

TypeOK ==
  /\ client \in Clients /\ sequence \in Sequences32
  /\ hostKnown \in BOOLEAN
  /\ inFlight \in Seq(Packet)
  /\ havePose \in BOOLEAN /\ age \in 0 .. LostAfter + 1
  /\ latest \in [from : Clients \cup {Nobody}, sequence : Sequences32]
  /\ pending \in Endpoint \cup {Nobody} /\ keyframeRequested \in BOOLEAN
  /\ at \in {"between", "discovering", "posing"}
  /\ frame \in [poseValid : BOOLEAN, from : Clients \cup {Nobody}]
  /\ destination \in Clients \cup {Nobody}
  /\ deliveryFrameRate \in 1 .. ConfiguredRate
  /\ keyframeRequests \in Nat
  /\ lastHandshake \in Clients \cup {Nobody} /\ misjudged \in BOOLEAN

\* Of one client's poses only the newest survives, whatever order they arrive in
\* and also when the counter wraps: as long as the link is not stale, a pose is
\* rejected exactly when it is older than the one the host has.
NewestSurvives == ~misjudged

\* A handshake is filed by whichever of the two polls reads it: the last client
\* heard of is the one video goes to, or will be attached by the next frame.
HandshakeIsKept ==
  lastHandshake # Nobody =>
    IF pending # Nobody THEN pending.from = lastHandshake ELSE destination = lastHandshake

\* A client that restarts, and numbers its poses from one again, is followed: the
\* frames come to be rendered from its poses, and stay so.
RestartedClientIsFollowed == <>[](frame.poseValid /\ frame.from = client)

-----------------------------------------------------------------------------
(* The inductive invariant behind NewestSurvives.                          *)

IsPose(k) == inFlight[k].kind = "pose"

\* A pose on its way, or the newest of a link that is not stale, is of a client started
\* so far, and no more than MaxDelay behind the counter of the one that runs.
CloseBehind(pose) ==
  /\ pose.from \in 1 .. client
  /\ pose.from = client => Delta(sequence, pose.sequence) \in 0 .. MaxDelay

WindowInv ==
  /\ \A k \in DOMAIN inFlight : IsPose(k) => CloseBehind(inFlight[k])
  /\ havePose /\ ~LinkStale => CloseBehind(latest)

\* The poses of one client are on their way in the order of their numbers.
OrderInv ==
  \A i, j \in DOMAIN inFlight :
    i < j /\ IsPose(i) /\ IsPose(j) /\ inFlight[i].from = inFlight[j].from =>
      Delta(inFlight[j].sequence, inFlight[i].sequence) \in 1 .. MaxDelay

\* What was sent after the newest pose of a link that is not stale has a newer number.
NewerInv ==
  havePose /\ ~LinkStale =>
    \A k \in DOMAIN inFlight :
      IsPose(k) /\ inFlight[k].from = latest.from =>
        (inFlight[k].newer <=> Delta(inFlight[k].sequence, latest.sequence) > 0)

IInv == TypeOK /\ WindowInv /\ OrderInv /\ NewerInv /\ NewestSurvives

=============================================================================
