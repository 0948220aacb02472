------------------------ MODULE StreamReceiver_proof ------------------------
(***************************************************************************)
(* Proofs about StreamReceiver, for every set of eyes, frame sizes,        *)
(* payload size and bound.                                                 *)
(***************************************************************************)
EXTENDS StreamReceiver, FiniteSetTheorems, SequenceTheorems, TLAPS

-----------------------------------------------------------------------------
(* Fragmenting.                                                            *)

\* A frame the sink sends has at least one fragment, and the uint16_t holds
\* their number: all but the last are full and the last is not empty.
LEMMA FragmentCountFacts ==
  ASSUME NEW size \in Sendable
  PROVE  /\ FragmentCount(size) \in Nat \ {0}
         /\ (FragmentCount(size) - 1) * PayloadBytes < size
         /\ size <= FragmentCount(size) * PayloadBytes
<1> DEFINE q == (size + PayloadBytes - 1) \div PayloadBytes
           r == (size + PayloadBytes - 1) % PayloadBytes
<1>1. /\ size \in Nat /\ size >= 1 /\ size <= 65535 * PayloadBytes
      /\ PayloadBytes \in Nat /\ PayloadBytes > 0
  BY SizesAssumption, PayloadAssumption, FrameBytesAssumption DEF Sendable
<1>2. q \in Int /\ r \in 0 .. PayloadBytes - 1 /\ size + PayloadBytes - 1 = PayloadBytes * q + r
  BY <1>1
<1> HIDE DEF q, r
<1>3. q >= 1
  BY <1>1, <1>2
<1>4. q <= 65535
  BY <1>1, <1>2
<1>5. (q - 1) * PayloadBytes < size /\ size <= q * PayloadBytes
  BY <1>1, <1>2
<1>6. q % 65536 = q
  BY <1>2, <1>3, <1>4
<1>7. FragmentCount(size) = q
  BY <1>6 DEF FragmentCount, q
<1> QED
  BY <1>2, <1>3, <1>5, <1>7

\* Every fragment of a frame has a slot, and a frame has at least one.
LEMMA FragmentsFacts ==
  ASSUME NEW f \in Frame
  PROVE  /\ f.size \in Sendable /\ f.index \in Nat /\ f.run \in Nat
         /\ FragmentCount(f.size) \in Nat \ {0}
         /\ Fragments(f) \subseteq Slots
         /\ Fragments(f) \subseteq Nat
<1>1. f.size \in Sendable /\ f.index \in Nat /\ f.run \in Nat
  BY BoundsAssumption DEF Frame
<1>2. FragmentCount(f.size) \in Nat \ {0}
  BY <1>1, FragmentCountFacts
<1>3. Fragments(f) \subseteq Slots
  BY <1>1 DEF Fragments, Slots
<1>4. Fragments(f) \subseteq Nat
  BY <1>2 DEF Fragments
<1> QED
  BY <1>1, <1>2, <1>3, <1>4

\* The final fragment ends where the frame ends.
LEMMA FinalFragmentEndsFrame ==
  ASSUME NEW f \in Frame, NEW i \in Fragments(f), IsFinalFragment(f, i)
  PROVE  Offset(i) + PayloadOf(f, i) = f.size
<1>0. PayloadBytes \in Nat
  BY PayloadAssumption
<1>1. f.size \in Sendable /\ f.size \in Nat
  BY FragmentsFacts, SizesAssumption DEF Sendable
<1>2. i = FragmentCount(f.size) - 1 /\ i \in Nat
  BY FragmentsFacts DEF IsFinalFragment
<1>3. i * PayloadBytes < f.size /\ f.size <= (i + 1) * PayloadBytes
  BY <1>1, <1>2, FragmentCountFacts
<1>4. f.size - i * PayloadBytes <= PayloadBytes
  BY <1>0, <1>1, <1>2, <1>3
<1> QED
  BY <1>0, <1>1, <1>2, <1>3, <1>4 DEF Offset, PayloadOf

\* Counting the members of a set of fragment indices.
LEMMA CountingFragments ==
  ASSUME NEW n \in Nat, NEW R \in SUBSET (0 .. n - 1)
  PROVE  /\ Cardinality(R) \in Nat
         /\ Cardinality(R) = n <=> R = 0 .. n - 1
         /\ \A i : i \notin R => Cardinality(R \cup {i}) = Cardinality(R) + 1
<1>1. n - 1 \in Int
  OBVIOUS
<1>2. IsFiniteSet(0 .. n - 1)
  BY <1>1, FS_Interval
<1>3. Cardinality(0 .. n - 1) = IF 0 > n - 1 THEN 0 ELSE (n - 1) - 0 + 1
  BY <1>1, FS_Interval
<1>4. Cardinality(0 .. n - 1) = n
  BY <1>3
<1>5. IsFiniteSet(R) /\ (Cardinality(0 .. n - 1) = Cardinality(R) => 0 .. n - 1 = R)
  BY <1>2, FS_Subset
<1>6. Cardinality(R) \in Nat
  BY <1>5, FS_CardinalityType
<1>7. \A i : i \notin R => Cardinality(R \cup {i}) = Cardinality(R) + 1
  BY <1>5, FS_AddElement
<1> QED
  BY <1>4, <1>5, <1>6, <1>7

-----------------------------------------------------------------------------
(* The assembler.                                                          *)

\* After Begin the frame in progress is the arriving fragment's.
LEMMA BeginFacts ==
  ASSUME NEW a \in AssemblerType, NEW f \in Frame, CountInv(a),
         f.index >= a.currentFrame
  PROVE  LET b == Begin(a, f)
         IN  /\ b \in AssemblerType
             /\ CountInv(b)
             /\ b.fragmentCount > 0
             /\ b.currentFrame = f.index
             /\ b.lastDelivered = a.lastDelivered
             /\ b.lastDelivered < f.index
             /\ b.buffer = a.buffer
             /\ StartsFrame(a, f) => b.header = f /\ b.received = {} /\ b.finalSize = 0
                                       /\ b.fragmentCount = FragmentCount(f.size)
             /\ ~StartsFrame(a, f) => b = a
<1> DEFINE b == Begin(a, f)
<1>1. f.index \in Nat /\ f \in Source /\ FragmentCount(f.size) \in Nat \ {0}
  BY FragmentsFacts DEF Source
<1>2. CASE StartsFrame(a, f)
  <2>1. b = [a EXCEPT !.currentFrame = f.index,
                      !.fragmentCount = FragmentCount(f.size),
                      !.haveCount = 0, !.finalSize = 0, !.received = {}, !.header = f]
    BY <1>2 DEF Begin
  <2>2. b \in AssemblerType
    <3>1. /\ f.index \in Int /\ FragmentCount(f.size) \in Nat /\ 0 \in Nat
          /\ 0 \in Sendable \cup {0} /\ {} \in SUBSET Slots /\ f \in Source
      BY <1>1
    <3> QED
      BY <2>1, <3>1 DEF AssemblerType
  <2>3. /\ b.currentFrame = f.index /\ b.lastDelivered = a.lastDelivered
        /\ b.buffer = a.buffer /\ b.header = f /\ b.received = {} /\ b.finalSize = 0
        /\ b.haveCount = 0 /\ b.fragmentCount = FragmentCount(f.size)
    BY <2>1 DEF AssemblerType
  <2>4. a.lastDelivered < f.index
    BY <1>1 DEF CountInv, AssemblerType
  <2>5. CountInv(b)
    BY <2>2, <2>3, <2>4, <1>1, FS_EmptySet DEF CountInv, AssemblerType
  <2> QED
    BY <1>1, <1>2, <2>2, <2>3, <2>4, <2>5
<1>3. CASE ~StartsFrame(a, f)
  <2>1. b = a
    BY <1>3 DEF Begin
  <2>2. f.index = a.currentFrame /\ a.fragmentCount > 0
    BY <1>3 DEF StartsFrame, AssemblerType
  <2>3. a.lastDelivered < f.index
    BY <2>2, <1>1 DEF CountInv, AssemblerType
  <2> QED
    BY <1>3, <2>1, <2>2, <2>3
<1> QED
  BY <1>2, <1>3

\* A stored fragment is counted once.
LEMMA StoreFacts ==
  ASSUME NEW b \in AssemblerType, NEW f \in Frame, NEW i \in Fragments(f), CountInv(b),
         i < b.fragmentCount, i \notin b.received, b.currentFrame = f.index
  PROVE  LET c == Store(b, f, i)
         IN  /\ c \in AssemblerType
             /\ CountInv(c)
             /\ c.received = b.received \cup {i}
             /\ c.buffer = [b.buffer EXCEPT ![i] = f]
             /\ c.finalSize = IF i + 1 = FragmentCount(f.size) THEN f.size ELSE b.finalSize
             /\ c.fragmentCount = b.fragmentCount
             /\ c.header = b.header
             /\ c.currentFrame = b.currentFrame
             /\ c.lastDelivered = b.lastDelivered
<1> DEFINE c == Store(b, f, i)
<1>1. i \in Slots /\ i \in Nat /\ f \in Source /\ f.size \in Sendable
  BY FragmentsFacts DEF Source
<1>2. IsFinalFragment(f, i) => Offset(i) + PayloadOf(f, i) = f.size
  BY FinalFragmentEndsFrame
<1>3. c = [b EXCEPT !.buffer = [b.buffer EXCEPT ![i] = f],
                    !.received = b.received \cup {i},
                    !.haveCount = b.haveCount + 1,
                    !.finalSize = IF i + 1 = FragmentCount(f.size) THEN f.size
                                  ELSE b.finalSize]
  BY <1>2 DEF Store, IsFinalFragment, AssemblerType
<1>4. c \in AssemblerType
  <2>1. [b.buffer EXCEPT ![i] = f] \in [Slots -> Source]
    BY <1>1 DEF AssemblerType
  <2>2. b.received \cup {i} \in SUBSET Slots /\ b.haveCount + 1 \in Nat
    BY <1>1 DEF AssemblerType
  <2>3. (IF i + 1 = FragmentCount(f.size) THEN f.size ELSE b.finalSize) \in Sendable \cup {0}
    BY <1>1 DEF AssemblerType
  <2> QED
    BY <1>3, <2>1, <2>2, <2>3 DEF AssemblerType
<1>5. /\ c.received = b.received \cup {i} /\ c.buffer = [b.buffer EXCEPT ![i] = f]
      /\ c.finalSize = IF i + 1 = FragmentCount(f.size) THEN f.size ELSE b.finalSize
      /\ c.fragmentCount = b.fragmentCount /\ c.header = b.header
      /\ c.currentFrame = b.currentFrame /\ c.lastDelivered = b.lastDelivered
      /\ c.haveCount = b.haveCount + 1
  BY <1>3 DEF AssemblerType
<1>6. c.received \subseteq 0 .. c.fragmentCount - 1
  BY <1>1, <1>5 DEF CountInv, AssemblerType
<1>7. c.haveCount = Cardinality(c.received)
  <2>1. b.fragmentCount \in Nat /\ b.received \subseteq 0 .. b.fragmentCount - 1
    BY <1>1 DEF CountInv, AssemblerType
  <2>2. \A n \in Nat : \A R \in SUBSET (0 .. n - 1) :
          i \notin R => Cardinality(R \cup {i}) = Cardinality(R) + 1
    BY CountingFragments
  <2>3. Cardinality(b.received \cup {i}) = Cardinality(b.received) + 1
    BY <2>1, <2>2
  <2> QED
    BY <1>1, <1>5, <2>3 DEF CountInv, AssemblerType
<1>8. CountInv(c)
  BY <1>4, <1>5, <1>6, <1>7 DEF CountInv, AssemblerType
<1> QED
  BY <1>4, <1>5, <1>8

\* A full count means that every fragment is here.
LEMMA FullCount ==
  ASSUME NEW c \in AssemblerType, CountInv(c), c.fragmentCount > 0
  PROVE  c.haveCount = c.fragmentCount <=> c.received = 0 .. c.fragmentCount - 1
<1>1. c.fragmentCount \in Nat /\ c.received \in SUBSET (0 .. c.fragmentCount - 1)
  BY DEF CountInv, AssemblerType
<1>2. \A n \in Nat : \A R \in SUBSET (0 .. n - 1) : Cardinality(R) = n <=> R = 0 .. n - 1
  BY CountingFragments
<1>3. c.haveCount = Cardinality(c.received)
  BY DEF CountInv
<1> QED
  BY <1>1, <1>2, <1>3

-----------------------------------------------------------------------------
(* The inductive invariant.                                                *)

LEMMA InitIInv == Init => IInv
<1> SUFFICES ASSUME Init PROVE IInv
  OBVIOUS
<1>1. EmptyAssembler \in AssemblerType
  BY DEF EmptyAssembler, AssemblerType, Source
<1>2. TypeOK
  BY <1>1, BoundsAssumption DEF Init, TypeOK, Source
<1>3. SentInv
  BY DEF Init, SentInv
<1>4. \A e \in Eyes : CountInv(asm[e]) /\ OrderInv(e)
  BY DEF Init, CountInv, OrderInv, EmptyAssembler
<1>5. \A e \in Eyes : PartialInv(e) /\ HeardInv(e) /\ FramesWhole(e)
  BY DEF Init, PartialInv, HeardInv, FramesWhole, EmptyAssembler
<1> QED
  BY <1>2, <1>3, <1>4, <1>5 DEF IInv

\* A step that leaves an eye's assembler and deliveries alone keeps what is
\* known of that eye, even if the sink sends another frame.
LEMMA OtherEye ==
  ASSUME NEW d \in Eyes, TypeOK, asm'[d] = asm[d], delivered'[d] = delivered[d],
         newest'[d] = newest[d], heard'[d] = heard[d], sent[d] \subseteq sent'[d]
  PROVE  /\ CountInv(asm[d]) => CountInv(asm'[d])
         /\ OrderInv(d) => OrderInv(d)'
         /\ PartialInv(d) => PartialInv(d)'
         /\ HeardInv(d) => HeardInv(d)'
         /\ FramesWhole(d) => FramesWhole(d)'
<1>1. OrderInv(d) => OrderInv(d)'
  BY DEF OrderInv
<1>2. PartialInv(d) => PartialInv(d)'
  BY DEF PartialInv
<1>3. HeardInv(d) => HeardInv(d)'
  BY DEF HeardInv, IsDelivered
<1>4. FramesWhole(d) => FramesWhole(d)'
  BY DEF FramesWhole, Whole
<1> QED
  BY <1>1, <1>2, <1>3, <1>4

LEMMA OnEncodedFrameIInv ==
  ASSUME IInv, NEW e \in Eyes, NEW size \in Sizes, OnEncodedFrame(e, size)
  PROVE  IInv'
<1> DEFINE f == [run |-> run, index |-> nextIndex[e], size |-> size]
<1>1. UNCHANGED <<run, asm, canRequest, framesMissing, delivered, newest, heard>>
  BY DEF OnEncodedFrame, historyVars
<1>2. nextIndex[e] \in 0 .. MaxIndex /\ nextIndex' = [nextIndex EXCEPT ![e] = @ + 1]
  BY DEF OnEncodedFrame, IInv, TypeOK
<1>3. \A d \in Eyes : sent'[d] = IF d = e /\ size \in Sendable
                                 THEN sent[d] \cup {f} ELSE sent[d]
  BY DEF OnEncodedFrame, IInv, TypeOK
<1>4. size \in Sendable => f \in Frame
  BY <1>2 DEF Frame, IInv, TypeOK
<1>5. TypeOK'
  <2>1. nextIndex' \in [Eyes -> 0 .. MaxIndex + 1]
    BY <1>2, BoundsAssumption DEF IInv, TypeOK
  <2>2. sent' \in [Eyes -> SUBSET Frame]
    BY <1>3, <1>4 DEF OnEncodedFrame, IInv, TypeOK
  <2> QED
    BY <1>1, <2>1, <2>2 DEF IInv, TypeOK
<1>6. SentInv'
  <2> SUFFICES ASSUME NEW d \in Eyes
               PROVE  /\ \A g \in sent'[d] :
                           g.run <= run /\ (g.run = run => g.index < nextIndex'[d])
                      /\ \A g, h \in sent'[d] : g.run = h.run /\ g.index = h.index => g = h
    BY <1>1 DEF SentInv
  <2>1. /\ \A g \in sent[d] : g.run <= run /\ (g.run = run => g.index < nextIndex[d])
        /\ \A g, h \in sent[d] : g.run = h.run /\ g.index = h.index => g = h
    BY DEF IInv, SentInv
  <2>2. run \in Nat /\ nextIndex[d] \in Nat
    BY BoundsAssumption DEF IInv, TypeOK
  <2>3. nextIndex'[d] = IF d = e THEN nextIndex[d] + 1 ELSE nextIndex[d]
    BY <1>2 DEF IInv, TypeOK
  <2>4. \A g \in sent[d] : g.index \in Nat
    BY FragmentsFacts DEF IInv, TypeOK
  <2>5. f.run = run /\ f.index = nextIndex[e]
    OBVIOUS
  <2>6. sent'[d] \subseteq sent[d] \cup (IF d = e THEN {f} ELSE {})
    BY <1>3
  <2> HIDE DEF f
  <2> QED
    BY <2>1, <2>2, <2>3, <2>4, <2>5, <2>6
<1>7. \A d \in Eyes : CountInv(asm[d])' /\ OrderInv(d)'
  BY <1>1, <1>3, OtherEye DEF IInv
<1>8. run' = 1 => \A d \in Eyes : PartialInv(d)' /\ HeardInv(d)' /\ FramesWhole(d)'
  BY <1>1, <1>3, OtherEye DEF IInv
<1> QED
  BY <1>5, <1>6, <1>7, <1>8 DEF IInv

LEMMA RestartHostIInv == IInv /\ RestartHost => IInv'
<1> SUFFICES ASSUME IInv, RestartHost PROVE IInv'
  OBVIOUS
<1>1. /\ UNCHANGED <<sent, asm, canRequest, framesMissing, delivered, newest, heard>>
      /\ run \in 1 .. MaxRuns - 1 /\ run' = run + 1 /\ nextIndex' = [e \in Eyes |-> 0]
  BY BoundsAssumption DEF RestartHost, historyVars, IInv, TypeOK
<1>2. TypeOK'
  BY <1>1, BoundsAssumption DEF IInv, TypeOK
<1>3. SentInv'
  <2>1. \A e \in Eyes : \A f \in sent[e] : f.run \in Nat /\ f.run <= run
    BY FragmentsFacts DEF IInv, TypeOK, SentInv
  <2> QED
    BY <1>1, <2>1 DEF IInv, SentInv
<1>4. \A e \in Eyes : CountInv(asm[e])' /\ OrderInv(e)'
  BY <1>1, OtherEye DEF IInv
<1> QED
  BY <1>1, <1>2, <1>3, <1>4 DEF IInv

LEMMA RequestIntervalElapsesIInv == IInv /\ RequestIntervalElapses => IInv'
<1> SUFFICES ASSUME IInv, RequestIntervalElapses PROVE IInv'
  OBVIOUS
<1>1. UNCHANGED <<run, nextIndex, sent, asm, framesMissing, delivered, newest, heard>>
  BY DEF RequestIntervalElapses, hostVars, historyVars
<1>2. TypeOK' /\ SentInv'
  BY <1>1 DEF RequestIntervalElapses, IInv, TypeOK, SentInv
<1> QED
  BY <1>1, <1>2, OtherEye DEF IInv

LEMMA StutterIInv == IInv /\ UNCHANGED vars => IInv'
<1> SUFFICES ASSUME IInv, UNCHANGED vars PROVE IInv'
  OBVIOUS
<1>1. TypeOK' /\ SentInv'
  BY DEF vars, IInv, TypeOK, SentInv
<1> QED
  BY <1>1, OtherEye DEF vars, IInv

-----------------------------------------------------------------------------
(* handleFragment.                                                         *)

\* The types of what a fragment meets.
LEMMA Arrival ==
  ASSUME IInv, NEW e \in Eyes, NEW f \in sent[e], NEW i \in Fragments(f)
  PROVE  /\ f \in Frame /\ f # NoFrame /\ f \in Source /\ i \in Slots /\ i \in Nat
         /\ asm[e] \in AssemblerType /\ CountInv(asm[e])
<1>1. f \in Frame
  BY DEF IInv, TypeOK
<1> QED
  BY <1>1, FragmentsFacts, NoFrameAssumption DEF IInv, TypeOK, Source

\* The history of what was heard keeps its type.
LEMMA HearType ==
  ASSUME IInv, NEW e \in Eyes, NEW f \in sent[e], NEW i \in Fragments(f), Hear(e, f, i)
  PROVE  newest' \in [Eyes -> Source] /\ heard' \in [Eyes -> SUBSET Slots]
BY Arrival DEF Hear, IInv, TypeOK

\* In the first run, what the assembler holds after Begin is part of the
\* arriving fragment's frame, and that frame is the newest one.
LEMMA BeginInFirstRun ==
  ASSUME IInv, run = 1, NEW e \in Eyes, NEW f \in sent[e], NEW i \in Fragments(f),
         f.index >= asm[e].currentFrame, Hear(e, f, i)
  PROVE  LET b == Begin(asm[e], f)
         IN  /\ b.header = f
             /\ b.fragmentCount = FragmentCount(f.size)
             /\ \A s \in b.received : b.buffer[s] = f
             /\ b.finalSize = IF b.fragmentCount - 1 \in b.received THEN f.size ELSE 0
             /\ b.received # Fragments(f)
             /\ newest'[e] = f
             /\ heard'[e] \subseteq b.received \cup {i}
<1> DEFINE a == asm[e]
           b == Begin(a, f)
<1>1. f \in Frame /\ a \in AssemblerType /\ CountInv(a)
  BY Arrival
<1>2. PartialInv(e) /\ HeardInv(e)
  BY DEF IInv
<1>3. \A g \in sent[e] : g.run = 1 /\ g.index \in Nat /\ (g.index = f.index => g = f)
  <2>1. \A g \in sent[e] : g.run <= 1 /\ g.run >= 1 /\ g.run \in Nat
    BY BoundsAssumption DEF IInv, SentInv, TypeOK, Frame
  <2>2. \A g \in sent[e] : g.run = f.run /\ g.index = f.index => g = f
    BY DEF IInv, SentInv
  <2>3. \A g \in sent[e] : g.index \in Nat
    BY FragmentsFacts DEF IInv, TypeOK
  <2> QED
    BY <2>1, <2>2, <2>3
<1>4. a.fragmentCount \in Nat /\ a.currentFrame \in Int
  BY <1>1 DEF AssemblerType
<1>5. Fragments(f) # {} /\ f.index \in Nat
  BY <1>1, FragmentsFacts DEF Fragments
<1>6. newest \in [Eyes -> Source] /\ heard \in [Eyes -> SUBSET Slots]
  BY DEF IInv, TypeOK
<1>7. CASE StartsFrame(a, f)
  <2>1. /\ b.header = f /\ b.received = {} /\ b.finalSize = 0
        /\ b.fragmentCount = FragmentCount(f.size)
    BY <1>1, <1>7, BeginFacts
  <2>2. newest[e] # NoFrame => newest[e] \in sent[e] /\ newest[e].index < f.index
    BY <1>2, <1>3, <1>4, <1>5, <1>7 DEF HeardInv, PartialInv, StartsFrame
  <2>3. Newer(f, newest[e])
    BY <1>3, <2>2 DEF Newer
  <2>4. newest'[e] = f /\ heard'[e] = {i}
    BY <1>6, <2>3 DEF Hear
  <2> QED
    BY <1>5, <2>1, <2>4
<1>8. CASE ~StartsFrame(a, f)
  <2>1. b = a /\ a.fragmentCount > 0 /\ f.index = a.currentFrame
    BY <1>1, <1>4, <1>8 DEF Begin, StartsFrame
  <2>2. a.header = f
    BY <1>2, <1>3, <2>1 DEF PartialInv
  <2>3. newest[e] = f /\ heard[e] \subseteq a.received
    <3>1. newest[e] # NoFrame
      BY <1>2, <1>5, <2>1 DEF HeardInv
    <3> QED
      BY <1>2, <1>4, <2>1, <2>2, <3>1 DEF HeardInv
  <2>4. ~Newer(f, f)
    BY <1>3, <1>5, Arrival DEF Newer
  <2>5. newest'[e] = f /\ heard'[e] = heard[e] \cup {i}
    BY <1>6, <2>3, <2>4 DEF Hear
  <2> QED
    BY <1>2, <2>1, <2>2, <2>3, <2>5 DEF PartialInv
<1> QED
  BY <1>7, <1>8

LEMMA IgnoreLateIInv ==
  ASSUME IInv, NEW e \in Eyes, NEW f \in sent[e], NEW i \in Fragments(f),
         IgnoreLate(e, f, i)
  PROVE  IInv'
<1>1. /\ UNCHANGED <<run, nextIndex, sent, asm, canRequest, framesMissing, delivered>>
      /\ Hear(e, f, i) /\ f.index < asm[e].currentFrame
  BY DEF IgnoreLate, hostVars
<1>2. TypeOK' /\ SentInv'
  <2>1. newest' \in [Eyes -> Source] /\ heard' \in [Eyes -> SUBSET Slots]
    BY <1>1, HearType
  <2> QED
    BY <1>1, <2>1 DEF IInv, TypeOK, SentInv
<1>3. \A d \in Eyes : CountInv(asm[d])' /\ OrderInv(d)'
  BY <1>1 DEF IInv, OrderInv
<1>4. ASSUME run = 1, NEW d \in Eyes
      PROVE  PartialInv(d)' /\ HeardInv(d)' /\ FramesWhole(d)'
  <2>1. PartialInv(d)' /\ FramesWhole(d)'
    BY <1>1, <1>4 DEF IInv, PartialInv, FramesWhole
  <2>2. HeardInv(d) /\ PartialInv(d)
    BY <1>4 DEF IInv
  <2>3. newest \in [Eyes -> Source] /\ heard \in [Eyes -> SUBSET Slots]
    BY DEF IInv, TypeOK
  <2>4. CASE d # e
    <3>1. newest'[d] = newest[d] /\ heard'[d] = heard[d]
      BY <1>1, <2>3, <2>4 DEF Hear
    <3> QED
      BY <1>1, <2>1, <2>2, <3>1 DEF HeardInv, IsDelivered
  <2>5. CASE d = e
    <3>1. f.index \in Nat /\ f.run = 1 /\ asm[e].currentFrame \in Int
      <4>1. f.run \in Nat /\ f.run >= 1 /\ f.run <= 1 /\ f.index \in Nat
        BY <1>4, Arrival, BoundsAssumption DEF Frame, IInv, SentInv
      <4> QED
        BY <4>1, Arrival DEF AssemblerType
    <3>2. newest[e] # NoFrame /\ newest[e] \in sent[e]
      BY <1>1, <2>2, <2>5, <3>1 DEF HeardInv
    <3>3. newest[e].index \in Nat /\ newest[e].run >= 1 /\ newest[e].run \in Nat
      BY <3>2, BoundsAssumption DEF IInv, TypeOK, Frame
    <3>4. f.index <= newest[e].index
      BY <1>1, <2>2, <2>5, <3>1, <3>2, <3>3 DEF HeardInv, PartialInv
    <3>5. ~Newer(f, newest[e])
      BY <3>1, <3>2, <3>3, <3>4 DEF Newer
    <3>6. newest'[e] = newest[e]
      BY <1>1, <2>3, <3>5 DEF Hear
    <3>7. asm[e].fragmentCount > 0 /\ asm[e].header = newest[e] => f # newest[e]
      BY <1>1, <2>2, <2>5, <3>1 DEF PartialInv
    <3>8. asm[e].fragmentCount > 0 /\ asm[e].header = newest[e] => heard'[e] = heard[e]
      BY <1>1, <2>3, <3>5, <3>7 DEF Hear
    <3> QED
      BY <1>1, <2>1, <2>2, <2>5, <3>2, <3>6, <3>8 DEF HeardInv, IsDelivered
  <2> QED
    BY <2>4, <2>5
<1> QED
  BY <1>1, <1>2, <1>3, <1>4 DEF IInv

\* A fragment that is not late and does not complete its frame: the assembler
\* ends up holding x, which is the frame in progress, still incomplete.
LEMMA InProgressIInv ==
  ASSUME IInv, NEW e \in Eyes, NEW f \in sent[e], NEW i \in Fragments(f),
         NEW x \in AssemblerType, CountInv(x),
         Hear(e, f, i), RequestKeyframe(Abandons(asm[e], f)),
         asm' = [asm EXCEPT ![e] = x],
         UNCHANGED <<hostVars, framesMissing, delivered>>,
         x.lastDelivered = asm[e].lastDelivered, x.currentFrame = f.index,
         x.fragmentCount > 0,
         run = 1 => /\ newest'[e] = f /\ heard'[e] \subseteq x.received
                    /\ x.header = f
                    /\ x.fragmentCount = FragmentCount(f.size)
                    /\ \A s \in x.received : x.buffer[s] = f
                    /\ x.finalSize = IF x.fragmentCount - 1 \in x.received THEN f.size ELSE 0
                    /\ x.received # Fragments(f)
  PROVE  IInv'
<1>1. UNCHANGED <<run, nextIndex, sent, framesMissing, delivered>>
  BY DEF hostVars
<1>2. asm \in [Eyes -> AssemblerType]
  BY DEF IInv, TypeOK
<1>3. asm'[e] = x /\ \A d \in Eyes \ {e} : asm'[d] = asm[d]
  BY <1>2
<1>4. TypeOK' /\ SentInv'
  <2>1. newest' \in [Eyes -> Source] /\ heard' \in [Eyes -> SUBSET Slots]
    BY HearType
  <2>2. canRequest' \in BOOLEAN
    BY DEF RequestKeyframe, IInv, TypeOK
  <2>3. asm' \in [Eyes -> AssemblerType]
    BY <1>2
  <2> QED
    BY <1>1, <2>1, <2>2, <2>3 DEF IInv, TypeOK, SentInv
<1>5. \A d \in Eyes \ {e} : newest'[d] = newest[d] /\ heard'[d] = heard[d]
  BY DEF Hear, IInv, TypeOK
<1>6. \A d \in Eyes : CountInv(asm[d])' /\ OrderInv(d)'
  BY <1>1, <1>3 DEF IInv, OrderInv
<1>7. ASSUME run = 1, NEW d \in Eyes
      PROVE  PartialInv(d)' /\ HeardInv(d)' /\ FramesWhole(d)'
  <2>1. CASE d # e
    BY <1>1, <1>3, <1>5, <1>7, <2>1, OtherEye DEF IInv
  <2>2. CASE d = e
    <3>1. PartialInv(e)'
      BY <1>1, <1>3, <1>7 DEF PartialInv
    <3>2. HeardInv(e)'
      BY <1>1, <1>3, <1>7, Arrival DEF HeardInv
    <3>3. FramesWhole(e)'
      BY <1>1, <1>7 DEF IInv, FramesWhole
    <3> QED
      BY <2>2, <3>1, <3>2, <3>3
  <2> QED
    BY <2>1, <2>2
<1> QED
  BY <1>1, <1>4, <1>6, <1>7 DEF IInv

LEMMA IgnoreRepeatedIInv ==
  ASSUME IInv, NEW e \in Eyes, NEW f \in sent[e], NEW i \in Fragments(f),
         IgnoreRepeated(e, f, i)
  PROVE  IInv'
<1> DEFINE b == Begin(asm[e], f)
<1>1. /\ f.index >= asm[e].currentFrame
      /\ i >= b.fragmentCount \/ i \in b.received
      /\ asm' = [asm EXCEPT ![e] = b]
      /\ RequestKeyframe(Abandons(asm[e], f)) /\ Hear(e, f, i)
      /\ UNCHANGED <<hostVars, framesMissing, delivered>>
  BY DEF IgnoreRepeated
<1>2. /\ b \in AssemblerType /\ CountInv(b) /\ b.fragmentCount > 0
      /\ b.currentFrame = f.index /\ b.lastDelivered = asm[e].lastDelivered
  BY <1>1, Arrival, BeginFacts
<1>3. run = 1 =>
        /\ b.header = f
        /\ b.fragmentCount = FragmentCount(f.size)
        /\ \A s \in b.received : b.buffer[s] = f
        /\ b.finalSize = IF b.fragmentCount - 1 \in b.received THEN f.size ELSE 0
        /\ b.received # Fragments(f)
        /\ newest'[e] = f
        /\ heard'[e] \subseteq b.received \cup {i}
  BY <1>1, BeginInFirstRun
<1>4. run = 1 => i \in b.received
  <2>1. i < FragmentCount(f.size)
    BY Arrival, FragmentsFacts DEF Fragments
  <2>2. FragmentCount(f.size) \in Nat /\ i \in Nat
    BY Arrival, FragmentsFacts
  <2> QED
    BY <1>1, <1>3, <2>1, <2>2
<1>5. run = 1 => heard'[e] \subseteq b.received
  BY <1>3, <1>4
<1> HIDE DEF b
<1> QED
  BY <1>1, <1>2, <1>3, <1>5, InProgressIInv

LEMMA StoreFragmentIInv ==
  ASSUME IInv, NEW e \in Eyes, NEW f \in sent[e], NEW i \in Fragments(f),
         StoreFragment(e, f, i)
  PROVE  IInv'
<1> DEFINE b == Begin(asm[e], f)
           c == Store(b, f, i)
<1>1. /\ f.index >= asm[e].currentFrame
      /\ i < b.fragmentCount /\ i \notin b.received
      /\ ~IsComplete(c)
      /\ asm' = [asm EXCEPT ![e] = c]
      /\ RequestKeyframe(Abandons(asm[e], f)) /\ Hear(e, f, i)
      /\ UNCHANGED <<hostVars, framesMissing, delivered>>
  BY DEF StoreFragment
<1>2. /\ b \in AssemblerType /\ CountInv(b) /\ b.fragmentCount > 0
      /\ b.currentFrame = f.index /\ b.lastDelivered = asm[e].lastDelivered
  BY <1>1, Arrival, BeginFacts
<1>3. run = 1 =>
        /\ b.header = f
        /\ b.fragmentCount = FragmentCount(f.size)
        /\ \A s \in b.received : b.buffer[s] = f
        /\ b.finalSize = IF b.fragmentCount - 1 \in b.received THEN f.size ELSE 0
        /\ newest'[e] = f
        /\ heard'[e] \subseteq b.received \cup {i}
  BY <1>1, BeginInFirstRun
<1> HIDE DEF b
<1>4. /\ c \in AssemblerType /\ CountInv(c)
      /\ c.received = b.received \cup {i}
      /\ c.buffer = [b.buffer EXCEPT ![i] = f]
      /\ c.finalSize = IF i + 1 = FragmentCount(f.size) THEN f.size ELSE b.finalSize
      /\ c.fragmentCount = b.fragmentCount /\ c.header = b.header
      /\ c.currentFrame = b.currentFrame /\ c.lastDelivered = b.lastDelivered
  BY <1>1, <1>2, Arrival, StoreFacts
<1> HIDE DEF c
<1>5. FragmentCount(f.size) \in Nat \ {0} /\ i \in Nat /\ f.size \in Nat \ {0}
  BY Arrival, FragmentsFacts, SizesAssumption DEF Sendable
<1>6. b.buffer \in [Slots -> Source] /\ i \in Slots /\ b.received \subseteq Slots
  BY <1>2, Arrival DEF AssemblerType
<1>7. ASSUME run = 1
      PROVE  /\ \A s \in c.received : c.buffer[s] = f
             /\ c.finalSize = IF c.fragmentCount - 1 \in c.received THEN f.size ELSE 0
             /\ c.received # Fragments(f)
  <2>1. \A s \in c.received : c.buffer[s] = f
    BY <1>3, <1>4, <1>6, <1>7
  <2>2. c.finalSize = IF c.fragmentCount - 1 \in c.received THEN f.size ELSE 0
    BY <1>3, <1>4, <1>5, <1>7
  <2>3. c.received # Fragments(f)
    <3> SUFFICES ASSUME c.received = Fragments(f) PROVE FALSE
      OBVIOUS
    <3>1. c.fragmentCount = FragmentCount(f.size)
      BY <1>3, <1>4, <1>7
    <3>2. c.haveCount = c.fragmentCount
      BY <1>4, <1>5, <3>1, FullCount DEF Fragments
    <3>3. c.finalSize = f.size
      BY <1>5, <2>2, <3>1 DEF Fragments
    <3> QED
      BY <1>1, <1>5, <3>2, <3>3 DEF IsComplete
  <2> QED
    BY <2>1, <2>2, <2>3
<1> QED
  BY <1>1, <1>2, <1>3, <1>4, <1>7, InProgressIInv

\* What CompleteFrame hands over is typed, is newer than everything before and,
\* in the first run, is the arriving fragment's frame, whole.
LEMMA CompleteFrameFacts ==
  ASSUME IInv, NEW e \in Eyes, NEW f \in sent[e], NEW i \in Fragments(f),
         CompleteFrame(e, f, i)
  PROVE  LET c == Store(Begin(asm[e], f), f, i)
         IN  /\ c \in AssemblerType /\ CountInv(c)
             /\ c.lastDelivered = asm[e].lastDelivered /\ c.lastDelivered < f.index
             /\ Gap(c, f) \in Nat
             /\ OnFrame(c, f) \in DeliveryType
             /\ OnFrame(c, f).index = f.index
             /\ run = 1 => Whole(OnFrame(c, f)) /\ OnFrame(c, f).header = f
                             /\ newest'[e] = f
<1> DEFINE b == Begin(asm[e], f)
           c == Store(b, f, i)
<1>1. /\ f.index >= asm[e].currentFrame /\ i < b.fragmentCount /\ i \notin b.received
      /\ IsComplete(c) /\ Hear(e, f, i)
  BY DEF CompleteFrame
<1>2. /\ b \in AssemblerType /\ CountInv(b) /\ b.fragmentCount > 0
      /\ b.currentFrame = f.index /\ b.lastDelivered = asm[e].lastDelivered
      /\ b.lastDelivered < f.index
  BY <1>1, Arrival, BeginFacts
<1>3. run = 1 =>
        /\ b.header = f
        /\ b.fragmentCount = FragmentCount(f.size)
        /\ \A s \in b.received : b.buffer[s] = f
        /\ b.finalSize = IF b.fragmentCount - 1 \in b.received THEN f.size ELSE 0
        /\ newest'[e] = f
  BY <1>1, BeginInFirstRun
<1> HIDE DEF b
<1>4. /\ c \in AssemblerType /\ CountInv(c)
      /\ c.received = b.received \cup {i}
      /\ c.buffer = [b.buffer EXCEPT ![i] = f]
      /\ c.finalSize = IF i + 1 = FragmentCount(f.size) THEN f.size ELSE b.finalSize
      /\ c.fragmentCount = b.fragmentCount /\ c.header = b.header
      /\ c.lastDelivered = b.lastDelivered
  BY <1>1, <1>2, Arrival, StoreFacts
<1> HIDE DEF c
<1>5. c.haveCount = c.fragmentCount /\ c.finalSize > 0
  BY <1>1 DEF IsComplete
<1>6. c.finalSize \in Sendable /\ c.buffer \in [Slots -> Source] /\ c.header \in Source
  <2>1. /\ c.finalSize \in Sendable \cup {0} /\ c.buffer \in [Slots -> Source]
        /\ c.header \in Source
    BY <1>4 DEF AssemblerType
  <2> QED
    BY <1>5, <2>1
<1>7. Gap(c, f) \in Nat
  <2>1. c.lastDelivered \in Int /\ f.index \in Nat
    BY <1>4, Arrival, FragmentsFacts DEF AssemblerType
  <2> QED
    BY <2>1 DEF Gap
<1>8. OnFrame(c, f) \in DeliveryType
  <2>1. 0 .. FragmentCount(c.finalSize) - 1 \subseteq Slots
    BY <1>6 DEF Slots
  <2>2. [s \in 0 .. FragmentCount(c.finalSize) - 1 |-> c.buffer[s]]
          \in [0 .. FragmentCount(c.finalSize) - 1 -> Source]
    BY <1>6, <2>1
  <2>3. f.index \in 0 .. MaxIndex
    BY Arrival DEF Frame
  <2> QED
    BY <1>6, <2>2, <2>3 DEF OnFrame, DeliveryType
<1>9. OnFrame(c, f).index = f.index
  BY DEF OnFrame
<1>10. ASSUME run = 1
       PROVE  Whole(OnFrame(c, f)) /\ OnFrame(c, f).header = f /\ newest'[e] = f
  <2>1. c.received = Fragments(f)
    <3>1. c.fragmentCount = FragmentCount(f.size) /\ c.fragmentCount > 0
      BY <1>2, <1>3, <1>4, <1>10
    <3>2. c.received = 0 .. c.fragmentCount - 1
      BY <1>4, <1>5, <3>1, FullCount
    <3> QED
      BY <3>1, <3>2 DEF Fragments
  <2>2. \A s \in Fragments(f) : c.buffer[s] = f
    <3>1. b.buffer \in [Slots -> Source] /\ i \in Slots /\ b.received \subseteq Slots
      BY <1>2, Arrival DEF AssemblerType
    <3> QED
      BY <1>3, <1>4, <1>10, <2>1, <3>1
  <2>3. c.finalSize = f.size
    <3>1. FragmentCount(f.size) \in Nat \ {0}
      BY Arrival, FragmentsFacts
    <3>2. FragmentCount(f.size) - 1 \in Fragments(f)
      BY <3>1 DEF Fragments
    <3>3. i \in Int
      BY Arrival
    <3> QED
      BY <1>3, <1>4, <1>10, <2>1, <3>1, <3>2, <3>3
  <2>4. c.header = f
    BY <1>3, <1>4, <1>10
  <2>5. OnFrame(c, f) = [index |-> f.index, header |-> f, size |-> f.size,
                         data |-> [s \in Fragments(f) |-> f]]
    BY <2>2, <2>3, <2>4 DEF OnFrame, Fragments
  <2> QED
    BY <1>3, <1>10, <2>5, Arrival DEF Whole
<1> QED
  BY <1>2, <1>4, <1>7, <1>8, <1>9, <1>10 DEF b, c

LEMMA CompleteFrameIInv ==
  ASSUME IInv, NEW e \in Eyes, NEW f \in sent[e], NEW i \in Fragments(f),
         CompleteFrame(e, f, i)
  PROVE  IInv'
<1> DEFINE c == Store(Begin(asm[e], f), f, i)
           x == Finish(c, f)
           d0 == OnFrame(c, f)
<1>1. /\ UNCHANGED <<run, nextIndex, sent>>
      /\ asm' = [asm EXCEPT ![e] = x]
      /\ delivered' = [delivered EXCEPT ![e] = Append(@, d0)]
      /\ framesMissing' = framesMissing + Gap(c, f)
      /\ RequestKeyframe(Abandons(asm[e], f)) /\ Hear(e, f, i)
  BY DEF CompleteFrame, hostVars
<1>2. /\ c \in AssemblerType /\ CountInv(c)
      /\ c.lastDelivered = asm[e].lastDelivered /\ c.lastDelivered < f.index
      /\ Gap(c, f) \in Nat /\ d0 \in DeliveryType /\ d0.index = f.index
      /\ run = 1 => Whole(d0) /\ d0.header = f /\ newest'[e] = f
  BY CompleteFrameFacts
<1>3. f.index \in Nat /\ f \in sent[e] /\ f # NoFrame
  BY Arrival, FragmentsFacts
<1> HIDE DEF c, d0
<1>4. x = [c EXCEPT !.lastDelivered = f.index, !.currentFrame = f.index + 1,
                    !.fragmentCount = 0, !.haveCount = 0, !.finalSize = 0]
  BY DEF Finish
<1>5. x \in AssemblerType
  <2>1. f.index \in Int /\ f.index + 1 \in Int /\ 0 \in Nat /\ 0 \in Sendable \cup {0}
    BY <1>3
  <2> HIDE DEF x
  <2> QED
    BY <1>2, <1>4, <2>1 DEF AssemblerType
<1>6. x.lastDelivered = f.index /\ x.currentFrame = f.index + 1 /\ x.fragmentCount = 0
  BY <1>2, <1>4 DEF AssemblerType
<1> HIDE DEF x
<1>7. /\ asm \in [Eyes -> AssemblerType] /\ delivered \in [Eyes -> Seq(DeliveryType)]
      /\ framesMissing \in Nat
  BY DEF IInv, TypeOK
<1>8. /\ asm'[e] = x /\ delivered'[e] = Append(delivered[e], d0)
      /\ \A d \in Eyes \ {e} : asm'[d] = asm[d] /\ delivered'[d] = delivered[d]
  BY <1>1, <1>7
<1>9. delivered[e] \in Seq(DeliveryType)
  BY <1>7
<1>10. /\ delivered'[e] \in Seq(DeliveryType)
       /\ DOMAIN delivered'[e] = 1 .. Len(delivered[e]) + 1
       /\ DOMAIN delivered[e] = 1 .. Len(delivered[e])
       /\ Len(delivered[e]) \in Nat
       /\ \A k \in 1 .. Len(delivered[e]) : delivered'[e][k] = delivered[e][k]
       /\ delivered'[e][Len(delivered[e]) + 1] = d0
  BY <1>2, <1>8, <1>9
<1>11. TypeOK' /\ SentInv'
  <2>1. newest' \in [Eyes -> Source] /\ heard' \in [Eyes -> SUBSET Slots]
    BY <1>1, HearType
  <2>2. canRequest' \in BOOLEAN
    BY <1>1 DEF RequestKeyframe, IInv, TypeOK
  <2>3. asm' \in [Eyes -> AssemblerType]
    BY <1>1, <1>5, <1>7
  <2>4. delivered' \in [Eyes -> Seq(DeliveryType)]
    BY <1>1, <1>7, <1>8, <1>10
  <2>5. framesMissing' \in Nat
    BY <1>1, <1>2, <1>7
  <2> QED
    BY <1>1, <2>1, <2>2, <2>3, <2>4, <2>5 DEF IInv, TypeOK, SentInv
<1>12. CountInv(x)
  BY <1>3, <1>6 DEF CountInv
<1>13. OrderInv(e)'
  <2>1. \A k \in 1 .. Len(delivered[e]) : delivered[e][k].index <= asm[e].lastDelivered
    BY <1>10 DEF IInv, OrderInv
  <2>2. \A j, k \in 1 .. Len(delivered[e]) :
          j < k => delivered[e][j].index < delivered[e][k].index
    BY <1>10 DEF IInv, OrderInv
  <2>3. \A k \in 1 .. Len(delivered[e]) : delivered[e][k].index \in Int
    <3>1. \A k \in 1 .. Len(delivered[e]) : delivered[e][k] \in DeliveryType
      BY <1>9
    <3>2. \A d \in DeliveryType : d.index \in Int
      BY BoundsAssumption DEF DeliveryType
    <3> QED
      BY <3>1, <3>2
  <2>4. asm[e].lastDelivered \in Int
    BY <1>7 DEF AssemblerType
  <2>5. \A k \in 1 .. Len(delivered[e]) : delivered[e][k].index < f.index
    BY <1>2, <1>3, <2>1, <2>3, <2>4
  <2>6. /\ \A k \in 1 .. Len(delivered[e]) + 1 : delivered'[e][k].index <= x.lastDelivered
        /\ \A j, k \in 1 .. Len(delivered[e]) + 1 :
             j < k => delivered'[e][j].index < delivered'[e][k].index
    <3>1. \A k \in 1 .. Len(delivered[e]) + 1 :
            k \in 1 .. Len(delivered[e]) \/ k = Len(delivered[e]) + 1
      BY <1>10
    <3>2. \A k \in 1 .. Len(delivered[e]) : delivered'[e][k].index < f.index
      BY <1>10, <2>5
    <3>3. delivered'[e][Len(delivered[e]) + 1].index = f.index
      BY <1>2, <1>10
    <3>4. \A k \in 1 .. Len(delivered[e]) : delivered'[e][k].index \in Int
      BY <1>10, <2>3
    <3>5. \A k \in 1 .. Len(delivered[e]) + 1 : delivered'[e][k].index <= x.lastDelivered
      BY <1>3, <1>6, <3>1, <3>2, <3>3, <3>4
    <3>6. ASSUME NEW j \in 1 .. Len(delivered[e]) + 1, NEW k \in 1 .. Len(delivered[e]) + 1,
                 j < k
          PROVE  delivered'[e][j].index < delivered'[e][k].index
      <4>1. j \in 1 .. Len(delivered[e])
        BY <1>10, <3>6
      <4>2. CASE k = Len(delivered[e]) + 1
        BY <3>2, <3>3, <4>1, <4>2
      <4>3. CASE k \in 1 .. Len(delivered[e])
        BY <1>10, <2>2, <3>6, <4>1, <4>3
      <4> QED
        BY <3>1, <4>2, <4>3
    <3> QED
      BY <3>5, <3>6
  <2> QED
    BY <1>8, <1>10, <2>6 DEF OrderInv
<1>14. \A d \in Eyes : CountInv(asm[d])' /\ OrderInv(d)'
  BY <1>8, <1>12, <1>13 DEF IInv, OrderInv
<1>15. ASSUME run = 1, NEW d \in Eyes
       PROVE  PartialInv(d)' /\ HeardInv(d)' /\ FramesWhole(d)'
  <2>1. CASE d # e
    <3>1. newest'[d] = newest[d] /\ heard'[d] = heard[d]
      BY <1>1, <2>1 DEF Hear, IInv, TypeOK
    <3> QED
      BY <1>1, <1>8, <1>15, <2>1, <3>1, OtherEye DEF IInv
  <2>2. CASE d = e
    <3>1. PartialInv(e)'
      BY <1>6, <1>8 DEF PartialInv
    <3>2. IsDelivered(e, newest[e])'
      BY <1>2, <1>10, <1>15 DEF IsDelivered
    <3>3. HeardInv(e)'
      BY <1>1, <1>2, <1>3, <1>6, <1>8, <1>15, <3>2 DEF HeardInv
    <3>4. FramesWhole(e)'
      <4>1. \A k \in 1 .. Len(delivered[e]) :
              Whole(delivered[e][k]) /\ delivered[e][k].header \in sent[e]
        BY <1>10, <1>15 DEF IInv, FramesWhole
      <4>2. \A k \in 1 .. Len(delivered[e]) + 1 :
              Whole(delivered'[e][k]) /\ delivered'[e][k].header \in sent[e]
        <5>1. \A k \in 1 .. Len(delivered[e]) + 1 :
                k \in 1 .. Len(delivered[e]) \/ k = Len(delivered[e]) + 1
          BY <1>10
        <5>2. Whole(d0) /\ d0.header \in sent[e]
          BY <1>2, <1>3, <1>15
        <5> QED
          BY <1>10, <4>1, <5>1, <5>2
      <4> QED
        BY <1>1, <1>10, <4>2 DEF FramesWhole, Whole
    <3> QED
      BY <2>2, <3>1, <3>3, <3>4
  <2> QED
    BY <2>1, <2>2
<1> QED
  BY <1>1, <1>11, <1>14, <1>15 DEF IInv

-----------------------------------------------------------------------------
(* The theorems.                                                           *)

LEMMA NextIInv == IInv /\ [Next]_vars => IInv'
<1> SUFFICES ASSUME IInv, [Next]_vars PROVE IInv'
  OBVIOUS
<1>1. CASE \E e \in Eyes, size \in Sizes : OnEncodedFrame(e, size)
  BY <1>1, OnEncodedFrameIInv
<1>2. CASE RestartHost
  BY <1>2, RestartHostIInv
<1>3. CASE \E e \in Eyes : \E f \in sent[e] : \E i \in Fragments(f) : HandleFragment(e, f, i)
  <2>1. PICK e \in Eyes : \E f \in sent[e] : \E i \in Fragments(f) : HandleFragment(e, f, i)
    BY <1>3
  <2>2. PICK f \in sent[e] : \E i \in Fragments(f) : HandleFragment(e, f, i)
    BY <2>1
  <2>3. PICK i \in Fragments(f) : HandleFragment(e, f, i)
    BY <2>2
  <2> QED
    BY <2>3, IgnoreLateIInv, IgnoreRepeatedIInv, StoreFragmentIInv, CompleteFrameIInv
       DEF HandleFragment
<1>4. CASE RequestIntervalElapses
  BY <1>4, RequestIntervalElapsesIInv
<1>5. CASE UNCHANGED vars
  BY <1>5, StutterIInv
<1> QED
  BY <1>1, <1>2, <1>3, <1>4, <1>5 DEF Next

\* The inductive invariant holds in every reachable state of the video path.
THEOREM Invariance == Spec => []IInv
<1> QED
  BY InitIInv, NextIInv, PTL DEF Spec

\* handleFragment keeps its arrays, counters and deliveries within their types,
\* so it never indexes outside the arrays it allocated.
THEOREM TypeCorrect == Spec => []TypeOK
<1>1. IInv => TypeOK
  BY DEF IInv
<1> QED
  BY <1>1, Invariance, PTL

\* Each eye's decoder gets frames in strictly increasing index order, whatever
\* the link does and however often the host is restarted.
THEOREM DeliveredInOrder == Spec => []InOrder
<1>1. IInv => InOrder
  BY DEF IInv, OrderInv, InOrder
<1> QED
  BY <1>1, Invariance, PTL

\* Until the host is restarted, every frame given to onFrame is one frame the
\* sink sent, whole, under its own metadata.
THEOREM DeliveredWhole == Spec => []WholeFrames
<1>1. IInv => WholeFrames
  BY DEF IInv, WholeFrames
<1> QED
  BY <1>1, Invariance, PTL

\* Until the host is restarted, a frame all of whose fragments arrived before a
\* newer frame was heard of has been given to onFrame.
THEOREM HeardIsDelivered == Spec => []NothingDiscarded
<1>1. ASSUME IInv, run = 1, NEW e \in Eyes, newest[e] # NoFrame,
             heard[e] = Fragments(newest[e])
      PROVE  IsDelivered(e, newest[e])
  <2>1. PartialInv(e) /\ HeardInv(e) /\ CountInv(asm[e])
    BY <1>1 DEF IInv
  <2>2. SUFFICES ASSUME asm[e].fragmentCount > 0, asm[e].header = newest[e],
                        heard[e] \subseteq asm[e].received
                 PROVE  FALSE
    BY <1>1, <2>1 DEF HeardInv
  <2>3. asm[e].received \subseteq Fragments(newest[e])
    BY <2>1, <2>2 DEF PartialInv, CountInv, Fragments
  <2>4. asm[e].received # Fragments(newest[e])
    BY <2>1, <2>2 DEF PartialInv
  <2> QED
    BY <1>1, <2>2, <2>3, <2>4
<1>2. IInv => NothingDiscarded
  BY <1>1 DEF NothingDiscarded, HeardFramesDelivered
<1> QED
  BY <1>2, Invariance, PTL

\* An assembler never gives up a frame it had begun without a keyframe request
\* having gone out within the last KEYFRAME_REQUEST_INTERVAL_MS.
THEOREM AbandonedAsksForKeyframe == Spec => AbandonedIsAskedFor
<1>1. ASSUME IInv, [Next]_vars, NEW d \in Eyes, GivesUp(d)
      PROVE  ~canRequest'
  <2>1. asm'[d] # asm[d] /\ asm \in [Eyes -> AssemblerType]
    BY <1>1 DEF GivesUp, IInv, TypeOK
  <2>a. PICK e \in Eyes : \E f \in sent[e] : \E i \in Fragments(f) : HandleFragment(e, f, i)
    BY <1>1, <2>1
       DEF Next, OnEncodedFrame, RestartHost, RequestIntervalElapses, hostVars, vars
  <2>b. PICK f \in sent[e] : \E i \in Fragments(f) : HandleFragment(e, f, i)
    BY <2>a
  <2>2. PICK i \in Fragments(f) : HandleFragment(e, f, i)
    BY <2>b
  <2>3. asm[e] \in AssemblerType /\ CountInv(asm[e]) /\ f \in Frame
    BY <1>1, Arrival
  <2>4. /\ asm[d].haveCount \in 1 .. asm[d].fragmentCount - 1
        /\ asm[d].currentFrame # asm'[d].currentFrame
        /\ asm[d].currentFrame # asm'[d].lastDelivered
    BY <1>1 DEF GivesUp
  <2>5. ASSUME d = e, Abandons(asm[e], f), RequestKeyframe(Abandons(asm[e], f))
        PROVE  ~canRequest'
    BY <2>5 DEF RequestKeyframe
  <2>6. ASSUME d = e, StartsFrame(asm[e], f)
        PROVE  Abandons(asm[e], f)
    BY <2>3, <2>4, <2>6 DEF Abandons, AssemblerType
  <2>7. CASE IgnoreLate(e, f, i)
    BY <2>1, <2>7 DEF IgnoreLate
  <2>8. CASE IgnoreRepeated(e, f, i)
    <3>1. asm' = [asm EXCEPT ![e] = Begin(asm[e], f)] /\ RequestKeyframe(Abandons(asm[e], f))
      BY <2>8 DEF IgnoreRepeated
    <3>2. d = e /\ asm'[e] = Begin(asm[e], f)
      BY <2>1, <3>1
    <3>3. StartsFrame(asm[e], f)
      BY <2>1, <3>2 DEF Begin
    <3> QED
      BY <2>5, <2>6, <3>1, <3>2, <3>3
  <2>9. CASE StoreFragment(e, f, i)
    <3> DEFINE b == Begin(asm[e], f)
               c == Store(b, f, i)
    <3>1. /\ f.index >= asm[e].currentFrame /\ i < b.fragmentCount /\ i \notin b.received
          /\ asm' = [asm EXCEPT ![e] = c] /\ RequestKeyframe(Abandons(asm[e], f))
      BY <2>9 DEF StoreFragment
    <3>2. d = e /\ asm'[e] = c
      BY <2>1, <3>1
    <3>3. /\ b \in AssemblerType /\ CountInv(b) /\ b.currentFrame = f.index
          /\ ~StartsFrame(asm[e], f) => b = asm[e]
      BY <2>3, <3>1, BeginFacts
    <3>4. c.currentFrame = b.currentFrame
      BY <3>1, <3>3, <2>3, StoreFacts
    <3> HIDE DEF b, c
    <3>5. StartsFrame(asm[e], f)
      BY <2>4, <3>2, <3>3, <3>4
    <3> QED
      BY <2>5, <2>6, <3>1, <3>2, <3>5
  <2>10. CASE CompleteFrame(e, f, i)
    <3> DEFINE b == Begin(asm[e], f)
               c == Store(b, f, i)
    <3>1. /\ f.index >= asm[e].currentFrame
          /\ asm' = [asm EXCEPT ![e] = Finish(c, f)] /\ RequestKeyframe(Abandons(asm[e], f))
      BY <2>10 DEF CompleteFrame
    <3>2. d = e /\ asm'[e] = Finish(c, f)
      BY <2>1, <3>1
    <3>3. c \in AssemblerType
      BY <1>1, <2>10, CompleteFrameFacts
    <3> HIDE DEF c
    <3>4. Finish(c, f).lastDelivered = f.index
      BY <3>3 DEF Finish, AssemblerType
    <3>5. f.index # asm[e].currentFrame
      BY <2>4, <3>2, <3>4
    <3> QED
      BY <2>5, <2>6, <3>1, <3>2, <3>5 DEF StartsFrame
  <2> QED
    BY <2>2, <2>7, <2>8, <2>9, <2>10 DEF HandleFragment
<1>2. IInv /\ [Next]_vars => [\A e \in Eyes : GivesUp(e) => ~canRequest']_vars
  BY <1>1
<1> QED
  BY <1>2, Invariance, PTL DEF Spec, AbandonedIsAskedFor

-----------------------------------------------------------------------------
(* stats.framesMissing.                                                    *)

\* A step that delivers nothing changes neither the gaps nor their count.
LEMMA NoDeliveryCounted ==
  ASSUME CountedInv, UNCHANGED <<delivered, framesMissing>>,
         \A e \in Eyes : asm'[e].lastDelivered = asm[e].lastDelivered
  PROVE  CountedInv'
<1>1. MissingFrames' = MissingFrames
  BY DEF MissingFrames, IsMissing
<1>2. \A e \in Eyes : LastInv(e)'
  BY DEF CountedInv, LastInv
<1> QED
  BY <1>1, <1>2 DEF CountedInv, MissingCounted

\* A frame delivered after another of its eye makes exactly the frames between the
\* two missing, none of which was missing before.
LEMMA DeliveryOpensGap ==
  ASSUME IInv, CountedInv, NEW e \in Eyes, NEW f \in sent[e], NEW i \in Fragments(f),
         CompleteFrame(e, f, i), NEW d \in Eyes, NEW m \in 0 .. MaxIndex
  PROVE  LET last == asm[e].lastDelivered
             inGap == d = e /\ last >= 0 /\ last < m /\ m < f.index
         IN  /\ IsMissing(d, m)' <=> IsMissing(d, m) \/ inGap
             /\ ~(IsMissing(d, m) /\ inGap)
<1> DEFINE n == Len(delivered[e])
           last == asm[e].lastDelivered
           d0 == OnFrame(Store(Begin(asm[e], f), f, i), f)
           Index(k) == delivered[e][k].index
<1>1. delivered' = [delivered EXCEPT ![e] = Append(@, d0)]
  BY DEF CompleteFrame
<1>2. d0 \in DeliveryType /\ d0.index = f.index /\ last < f.index
  BY CompleteFrameFacts
<1> HIDE DEF d0
<1>3. delivered \in [Eyes -> Seq(DeliveryType)] /\ f.index \in Nat /\ last \in Int /\ m \in Int
  <2>1. f \in Frame /\ asm[e] \in AssemblerType
    BY Arrival
  <2>2. last \in Int
    BY <2>1 DEF AssemblerType
  <2> QED
    BY <2>1, <2>2, FragmentsFacts DEF IInv, TypeOK
<1>4. CASE d # e
  <2>1. delivered'[d] = delivered[d]
    BY <1>1, <1>3, <1>4
  <2> QED
    BY <1>4, <2>1 DEF IsMissing
<1>5. CASE d = e
  <2>1. delivered[e] \in Seq(DeliveryType) /\ n \in Nat /\ DOMAIN delivered[e] = 1 .. n
    BY <1>3
  <2>2. delivered'[e] = Append(delivered[e], d0)
    BY <1>1, <1>3
  <2>3. /\ DOMAIN delivered'[e] = 1 .. n + 1
        /\ \A k \in 1 .. n : delivered'[e][k].index = Index(k)
        /\ delivered'[e][n + 1].index = f.index
    BY <1>2, <2>1, <2>2
  <2>4. \A k \in 1 .. n : Index(k) \in Int
    <3>1. \A k \in 1 .. n : delivered[e][k] \in DeliveryType
      BY <2>1
    <3>2. \A x \in DeliveryType : x.index \in Int
      BY BoundsAssumption DEF DeliveryType
    <3> QED
      BY <3>1, <3>2
  <2>5. \A k \in 1 .. n : Index(k) <= last
    BY <2>1 DEF IInv, OrderInv
  <2>6. IF n = 0 THEN last = -1 ELSE last = Index(n)
    BY <2>1 DEF CountedInv, LastInv
  <2>7. IsMissing(e, m) <=>
          /\ \E j, k \in 1 .. n : Index(j) < m /\ m < Index(k)
          /\ \A k \in 1 .. n : Index(k) # m
    BY <2>1 DEF IsMissing
  <2>8. IsMissing(e, m)' <=>
          /\ \E j, k \in 1 .. n + 1 : delivered'[e][j].index < m /\ m < delivered'[e][k].index
          /\ \A k \in 1 .. n + 1 : delivered'[e][k].index # m
    BY <2>3 DEF IsMissing
  <2>9. \A k \in 1 .. n + 1 : k \in 1 .. n \/ k = n + 1
    BY <2>1
  <2>10. n \in 1 .. n \/ n = 0
    BY <2>1
  <2>11. 1 .. n \subseteq 1 .. n + 1 /\ n + 1 \in 1 .. n + 1
    BY <2>1
  <2> HIDE DEF Index, n, last
  <2>12. ASSUME IsMissing(e, m)
         PROVE  IsMissing(e, m)' /\ ~(last < m)
    <3>1. PICK j \in 1 .. n, k \in 1 .. n : Index(j) < m /\ m < Index(k)
      BY <2>7, <2>12
    <3>2. m < last
      BY <1>3, <2>4, <2>5, <3>1
    <3>3. \A l \in 1 .. n + 1 : delivered'[e][l].index # m
      BY <1>2, <1>3, <2>3, <2>7, <2>9, <2>12, <3>2
    <3>4. j \in 1 .. n + 1 /\ k \in 1 .. n + 1
      BY <2>11
    <3>5. delivered'[e][j].index < m /\ m < delivered'[e][k].index
      BY <2>3, <3>1
    <3> QED
      BY <1>3, <2>8, <3>2, <3>3, <3>4, <3>5
  <2>13. ASSUME last >= 0, last < m, m < f.index
         PROVE  IsMissing(e, m)'
    <3>1. n \in 1 .. n /\ Index(n) = last
      BY <2>6, <2>10, <2>13
    <3>2. \A k \in 1 .. n + 1 : delivered'[e][k].index # m
      BY <1>3, <2>3, <2>4, <2>5, <2>9, <2>13
    <3>3. delivered'[e][n].index < m /\ m < delivered'[e][n + 1].index
      BY <2>3, <2>13, <3>1
    <3> QED
      BY <2>8, <2>11, <3>1, <3>2, <3>3
  <2>14. ASSUME IsMissing(e, m)', ~IsMissing(e, m)
         PROVE  last >= 0 /\ last < m /\ m < f.index
    <3>1. \A k \in 1 .. n : Index(k) # m
      BY <2>3, <2>8, <2>11, <2>14
    <3>2. PICK j \in 1 .. n + 1, k \in 1 .. n + 1 :
            delivered'[e][j].index < m /\ m < delivered'[e][k].index
      BY <2>8, <2>14
    <3>3. m < f.index
      BY <1>2, <1>3, <2>3, <2>4, <2>5, <2>9, <3>2
    <3>4. j \in 1 .. n /\ Index(j) < m
      BY <1>3, <2>3, <2>9, <3>2, <3>3
    <3>5. \A l \in 1 .. n : ~(m < Index(l))
      BY <2>7, <2>14, <3>1, <3>4
    <3>6. n \in 1 .. n /\ Index(n) = last
      BY <2>1, <2>6, <2>10, <3>4
    <3>7. last < m
      BY <1>3, <3>1, <3>5, <3>6
    <3>8. last >= 0
      <4>1. \A x \in DeliveryType : x.index >= 0
        BY BoundsAssumption DEF DeliveryType
      <4>2. delivered[e][n] \in DeliveryType
        BY <2>1, <3>6
      <4> QED
        BY <3>6, <4>1, <4>2 DEF Index
    <3> QED
      BY <3>3, <3>7, <3>8
  <2> QED
    BY <1>5, <2>12, <2>13, <2>14 DEF last
<1> QED
  BY <1>4, <1>5

LEMMA CompleteFrameCounted ==
  ASSUME IInv, CountedInv, NEW e \in Eyes, NEW f \in sent[e], NEW i \in Fragments(f),
         CompleteFrame(e, f, i)
  PROVE  CountedInv'
<1> DEFINE c == Store(Begin(asm[e], f), f, i)
           last == asm[e].lastDelivered
           gap == IF last >= 0 THEN {e} \X (last + 1 .. f.index - 1) ELSE {}
<1>1. /\ asm' = [asm EXCEPT ![e] = Finish(c, f)]
      /\ delivered' = [delivered EXCEPT ![e] = Append(@, OnFrame(c, f))]
      /\ framesMissing' = framesMissing + Gap(c, f)
  BY DEF CompleteFrame
<1>2. /\ c \in AssemblerType /\ c.lastDelivered = last /\ last < f.index
      /\ OnFrame(c, f) \in DeliveryType /\ OnFrame(c, f).index = f.index
  BY CompleteFrameFacts
<1> HIDE DEF c
<1>3. /\ asm \in [Eyes -> AssemblerType] /\ delivered \in [Eyes -> Seq(DeliveryType)]
      /\ f.index \in 0 .. MaxIndex /\ MaxIndex \in Nat /\ last \in Int /\ framesMissing \in Nat
  BY Arrival, BoundsAssumption DEF IInv, TypeOK, AssemblerType, Frame
<1> HIDE DEF last
<1>4. \A d \in Eyes : LastInv(d)'
  <2>1. LastInv(e)'
    <3>1. Finish(c, f).lastDelivered = f.index
      BY <1>2 DEF Finish, AssemblerType
    <3>2. delivered[e] \in Seq(DeliveryType)
      BY <1>3
    <3>3. /\ Append(delivered[e], OnFrame(c, f)) # <<>>
          /\ Len(Append(delivered[e], OnFrame(c, f))) = Len(delivered[e]) + 1
          /\ Append(delivered[e], OnFrame(c, f))[Len(delivered[e]) + 1] = OnFrame(c, f)
      BY <1>2, <3>2, AppendProperties
    <3>4. /\ asm'[e] = Finish(c, f)
          /\ delivered'[e] = Append(delivered[e], OnFrame(c, f))
      BY <1>1, <1>3
    <3> QED
      BY <1>2, <3>1, <3>3, <3>4 DEF LastInv
  <2>2. ASSUME NEW d \in Eyes \ {e} PROVE LastInv(d)'
    <3>1. asm'[d] = asm[d] /\ delivered'[d] = delivered[d] /\ LastInv(d)
      BY <1>1, <1>3 DEF CountedInv
    <3> QED
      BY <3>1 DEF LastInv
  <2> QED
    BY <2>1, <2>2
<1>5. MissingFrames' = MissingFrames \cup gap /\ MissingFrames \cap gap = {}
  <2>1. \A d \in Eyes, m \in 0 .. MaxIndex :
          /\ IsMissing(d, m)' <=> IsMissing(d, m) \/ <<d, m>> \in gap
          /\ ~(IsMissing(d, m) /\ <<d, m>> \in gap)
    <3>1. \A d \in Eyes, m \in 0 .. MaxIndex :
            <<d, m>> \in gap <=> d = e /\ last >= 0 /\ last < m /\ m < f.index
      BY <1>3
    <3> QED
      BY <3>1, DeliveryOpensGap DEF last
  <2>2. gap \subseteq Eyes \X (0 .. MaxIndex)
    BY <1>3
  <2>3. \A x \in Eyes \X (0 .. MaxIndex) :
          x[1] \in Eyes /\ x[2] \in 0 .. MaxIndex /\ x = <<x[1], x[2]>>
    OBVIOUS
  <2>4. /\ MissingFrames = {x \in Eyes \X (0 .. MaxIndex) : IsMissing(x[1], x[2])}
        /\ MissingFrames' = {x \in Eyes \X (0 .. MaxIndex) : IsMissing(x[1], x[2])'}
    BY DEF MissingFrames
  <2>5. \A x \in Eyes \X (0 .. MaxIndex) :
          /\ IsMissing(x[1], x[2])' <=> IsMissing(x[1], x[2]) \/ x \in gap
          /\ ~(IsMissing(x[1], x[2]) /\ x \in gap)
    BY <2>1, <2>3
  <2> HIDE DEF gap
  <2> QED
    BY <2>2, <2>4, <2>5
<1>6. IsFiniteSet(gap) /\ Cardinality(gap) = Gap(c, f)
  <2>1. CASE last >= 0
    <3>1. last + 1 \in Int /\ f.index - 1 \in Int
      BY <1>3
    <3>2. /\ IsFiniteSet(last + 1 .. f.index - 1)
          /\ Cardinality(last + 1 .. f.index - 1)
               = IF last + 1 > f.index - 1 THEN 0 ELSE (f.index - 1) - (last + 1) + 1
      BY <3>1, FS_Interval
    <3>3. IsFiniteSet({e}) /\ Cardinality({e}) = 1
      BY FS_Singleton
    <3>4. /\ IsFiniteSet({e} \X (last + 1 .. f.index - 1))
          /\ Cardinality({e} \X (last + 1 .. f.index - 1))
               = 1 * Cardinality(last + 1 .. f.index - 1)
      BY <3>2, <3>3, FS_Product
    <3>5. Cardinality(last + 1 .. f.index - 1) = Gap(c, f)
      BY <1>2, <1>3, <2>1, <3>2 DEF Gap
    <3>6. Gap(c, f) \in Int
      BY <1>2, <1>3, <2>1 DEF Gap
    <3> QED
      BY <2>1, <3>4, <3>5, <3>6
  <2>2. CASE ~(last >= 0)
    BY <1>2, <2>2, FS_EmptySet DEF Gap
  <2> QED
    BY <2>1, <2>2
<1> HIDE DEF gap
<1>7. IsFiniteSet(MissingFrames) /\ framesMissing = Cardinality(MissingFrames)
  BY DEF CountedInv, MissingCounted
<1>8. /\ IsFiniteSet(MissingFrames \cup gap)
      /\ Cardinality(MissingFrames \cup gap)
           = Cardinality(MissingFrames) + Cardinality(gap) - Cardinality(MissingFrames \cap gap)
  BY <1>6, <1>7, FS_Union
<1>9. Cardinality(MissingFrames \cap gap) = 0
  BY <1>5, FS_EmptySet
<1>10. Cardinality(gap) \in Nat
  BY <1>6, FS_CardinalityType
<1>11. Cardinality(MissingFrames)' = framesMissing'
  <2>1. Cardinality(MissingFrames \cup gap) = framesMissing + Cardinality(gap)
    BY <1>3, <1>7, <1>8, <1>9, <1>10
  <2> QED
    BY <1>1, <1>5, <1>6, <2>1
<1>12. IsFiniteSet(MissingFrames)'
  BY <1>5, <1>8
<1> QED
  BY <1>4, <1>11, <1>12 DEF CountedInv, MissingCounted

LEMMA CountedStep == IInv /\ CountedInv /\ [Next]_vars => CountedInv'
<1> SUFFICES ASSUME IInv, CountedInv, [Next]_vars PROVE CountedInv'
  OBVIOUS
<1>1. CASE UNCHANGED <<asm, delivered, framesMissing>>
  BY <1>1, NoDeliveryCounted
<1>2. CASE \E e \in Eyes : \E f \in sent[e] : \E i \in Fragments(f) : HandleFragment(e, f, i)
  <2>1. PICK e \in Eyes : \E f \in sent[e] : \E i \in Fragments(f) : HandleFragment(e, f, i)
    BY <1>2
  <2>2. PICK f \in sent[e] : \E i \in Fragments(f) : HandleFragment(e, f, i)
    BY <2>1
  <2>3. PICK i \in Fragments(f) : HandleFragment(e, f, i)
    BY <2>2
  <2>4. CASE CompleteFrame(e, f, i)
    BY <2>4, CompleteFrameCounted
  <2>5. CASE IgnoreLate(e, f, i)
    BY <1>1, <2>5 DEF IgnoreLate
  <2>6. CASE IgnoreRepeated(e, f, i) \/ StoreFragment(e, f, i)
    <3> DEFINE b == Begin(asm[e], f)
               c == Store(b, f, i)
    <3>1. f.index >= asm[e].currentFrame /\ UNCHANGED <<delivered, framesMissing>>
      BY <2>6 DEF IgnoreRepeated, StoreFragment
    <3>2. /\ b \in AssemblerType /\ CountInv(b) /\ b.currentFrame = f.index
          /\ b.lastDelivered = asm[e].lastDelivered
      BY <3>1, Arrival, BeginFacts
    <3>3. StoreFragment(e, f, i) => c.lastDelivered = b.lastDelivered
      <4>1. f \in Frame
        BY Arrival
      <4>2. StoreFragment(e, f, i) => i < b.fragmentCount /\ i \notin b.received
        BY DEF StoreFragment
      <4> HIDE DEF b
      <4> QED
        BY <3>2, <4>1, <4>2, StoreFacts
    <3>4. asm \in [Eyes -> AssemblerType]
      BY DEF IInv, TypeOK
    <3>5. asm' = [asm EXCEPT ![e] = b] \/ (StoreFragment(e, f, i) /\ asm' = [asm EXCEPT ![e] = c])
      BY <2>6 DEF IgnoreRepeated, StoreFragment
    <3> HIDE DEF b, c
    <3>6. \A d \in Eyes : asm'[d].lastDelivered = asm[d].lastDelivered
      BY <3>2, <3>3, <3>4, <3>5
    <3> QED
      BY <3>1, <3>6, NoDeliveryCounted
  <2> QED
    BY <2>3, <2>4, <2>5, <2>6 DEF HandleFragment
<1> QED
  BY <1>1, <1>2 DEF Next, vars, historyVars, hostVars, OnEncodedFrame, RestartHost,
                    RequestIntervalElapses

\* stats.framesMissing is exactly the number of frames that lie between two deliveries
\* of their eye and were not delivered, whatever the link loses, repeats or reorders and
\* however often the host is restarted: no gap is counted twice, none is overlooked.
THEOREM GapsAreCounted == Spec => []MissingCounted
<1>1. Init => CountedInv
  <2> SUFFICES ASSUME Init PROVE CountedInv
    OBVIOUS
  <2>1. \A e \in Eyes : LastInv(e) /\ DOMAIN delivered[e] = {}
    BY DEF Init, LastInv, EmptyAssembler
  <2>2. MissingFrames = {}
    BY <2>1 DEF MissingFrames, IsMissing
  <2> QED
    BY <2>1, <2>2, FS_EmptySet DEF CountedInv, MissingCounted, Init
<1>2. CountedInv => MissingCounted
  BY DEF CountedInv
<1> QED
  BY <1>1, <1>2, CountedStep, Invariance, PTL DEF Spec

-----------------------------------------------------------------------------
(* The video path implements FrameDelivery.                                *)

\* A frame in progress is always one that was sent: metadata is not invented.
LEMMA HeaderSentStep == IInv /\ HeaderSent /\ [Next]_vars => HeaderSent'
<1> SUFFICES ASSUME IInv, HeaderSent, [Next]_vars, NEW d \in Eyes, asm'[d].fragmentCount > 0
             PROVE  asm'[d].header \in sent'[d]
  BY DEF HeaderSent
<1>1. asm \in [Eyes -> AssemblerType] /\ sent \in [Eyes -> SUBSET Frame]
  BY DEF IInv, TypeOK
<1>2. sent[d] \subseteq sent'[d]
  BY <1>1 DEF Next, vars, hostVars, OnEncodedFrame, RestartHost, RequestIntervalElapses,
              HandleFragment, IgnoreLate, IgnoreRepeated, StoreFragment, CompleteFrame
<1>3. CASE asm'[d] = asm[d]
  BY <1>2, <1>3 DEF HeaderSent
<1>4. CASE asm'[d] # asm[d]
  <2>1. PICK e \in Eyes : \E f \in sent[e] : \E i \in Fragments(f) : HandleFragment(e, f, i)
    BY <1>4 DEF Next, OnEncodedFrame, RestartHost, RequestIntervalElapses, hostVars, vars
  <2>2. PICK f \in sent[e] : \E i \in Fragments(f) : HandleFragment(e, f, i)
    BY <2>1
  <2>3. PICK i \in Fragments(f) : HandleFragment(e, f, i)
    BY <2>2
  <2>4. d = e /\ ~IgnoreLate(e, f, i)
    BY <1>1, <1>4, <2>3
       DEF HandleFragment, IgnoreLate, IgnoreRepeated, StoreFragment, CompleteFrame
  <2> DEFINE b == Begin(asm[e], f)
             c == Store(b, f, i)
  <2>5. f.index >= asm[e].currentFrame
    BY <2>3, <2>4 DEF HandleFragment, IgnoreRepeated, StoreFragment, CompleteFrame
  <2>6. b \in AssemblerType /\ CountInv(b) /\ b.header \in sent[e] /\ b.currentFrame = f.index
    BY <2>5, Arrival, BeginFacts DEF HeaderSent, StartsFrame, AssemblerType
  <2>7. CASE IgnoreRepeated(e, f, i)
    BY <1>1, <1>2, <2>4, <2>6, <2>7 DEF IgnoreRepeated
  <2>8. CASE StoreFragment(e, f, i)
    <3>1. i < b.fragmentCount /\ i \notin b.received /\ asm' = [asm EXCEPT ![e] = c]
      BY <2>8 DEF StoreFragment
    <3>2. c.header = b.header
      <4>1. f \in Frame
        BY Arrival
      <4> HIDE DEF b
      <4> QED
        BY <2>6, <3>1, <4>1, StoreFacts
    <3> QED
      BY <1>1, <1>2, <2>4, <2>6, <3>1, <3>2
  <2>9. CASE CompleteFrame(e, f, i)
    <3>1. c \in AssemblerType /\ asm' = [asm EXCEPT ![e] = Finish(c, f)]
      BY <2>9, CompleteFrameFacts DEF CompleteFrame
    <3> HIDE DEF c
    <3>2. Finish(c, f).fragmentCount = 0
      BY <3>1 DEF Finish, AssemblerType
    <3> QED
      BY <1>1, <2>4, <3>1, <3>2
  <2> QED
    BY <2>3, <2>4, <2>7, <2>8, <2>9 DEF HandleFragment
<1> QED
  BY <1>3, <1>4

LEMMA HeaderSentInvariance == Spec => []HeaderSent
<1>1. Init => HeaderSent
  BY DEF Init, HeaderSent, EmptyAssembler
<1> QED
  BY <1>1, HeaderSentStep, Invariance, PTL DEF Spec

\* What is shown of one delivery.
Shown(d) == [index |-> d.index, frame |-> IF Whole(d) THEN d.header ELSE Spliced]

LEMMA ShownFramesFacts ==
  ASSUME TypeOK
  PROVE  \A e \in Eyes :
           /\ ShownFrames[e] \in Seq(UNION {{Shown(d)} : d \in DeliveryType})
           /\ Len(ShownFrames[e]) = Len(delivered[e])
           /\ \A k \in 1 .. Len(delivered[e]) : ShownFrames[e][k] = Shown(delivered[e][k])
<1> SUFFICES ASSUME NEW e \in Eyes
             PROVE  /\ ShownFrames[e] \in Seq(UNION {{Shown(d)} : d \in DeliveryType})
                    /\ Len(ShownFrames[e]) = Len(delivered[e])
                    /\ \A k \in 1 .. Len(delivered[e]) :
                         ShownFrames[e][k] = Shown(delivered[e][k])
  OBVIOUS
<1>1. delivered[e] \in Seq(DeliveryType)
  BY DEF TypeOK
<1>2. DOMAIN delivered[e] = 1 .. Len(delivered[e]) /\ Len(delivered[e]) \in Nat
  BY <1>1
<1>3. ShownFrames[e] = [k \in 1 .. Len(delivered[e]) |-> Shown(delivered[e][k])]
  BY <1>2 DEF ShownFrames, Shown
<1>4. \A k \in 1 .. Len(delivered[e]) : delivered[e][k] \in DeliveryType
  BY <1>1
<1> QED
  BY <1>2, <1>3, <1>4

LEMMA DeliveryInit == Init => Delivery!Init
<1> SUFFICES ASSUME Init PROVE Delivery!Init
  OBVIOUS
<1>1. \A e \in Eyes : delivered[e] = <<>>
  BY DEF Init
<1>2. ShownFrames = [e \in Eyes |-> <<>>]
  BY <1>1 DEF ShownFrames
<1> QED
  BY <1>2 DEF Init, Delivery!Init

LEMMA DeliveryStep ==
  IInv /\ IInv' /\ HeaderSent /\ [Next]_vars => [Delivery!Next]_(Delivery!deliveryVars)
<1> SUFFICES ASSUME IInv, IInv', HeaderSent, [Next]_vars
             PROVE  Delivery!Next \/ UNCHANGED <<run, sent, ShownFrames>>
  BY DEF Delivery!deliveryVars
<1>0. sent \in [Eyes -> SUBSET Frame] /\ delivered \in [Eyes -> Seq(DeliveryType)]
  BY DEF IInv, TypeOK
<1>1. ASSUME UNCHANGED delivered PROVE UNCHANGED ShownFrames
  BY <1>1 DEF ShownFrames, Whole
<1>2. CASE \E e \in Eyes, size \in Sizes : OnEncodedFrame(e, size)
  <2>1. PICK e \in Eyes, size \in Sizes : OnEncodedFrame(e, size)
    BY <1>2
  <2>2. UNCHANGED run /\ UNCHANGED ShownFrames
    BY <1>1, <2>1 DEF OnEncodedFrame, historyVars
  <2>3. CASE size \notin Sendable
    BY <2>1, <2>2, <2>3 DEF OnEncodedFrame
  <2>4. CASE size \in Sendable
    <3> DEFINE f == [run |-> run, index |-> nextIndex[e], size |-> size]
    <3>1. sent' = [sent EXCEPT ![e] = @ \cup {f}]
      BY <2>1, <2>4 DEF OnEncodedFrame
    <3>2. f \in Frame
      BY <2>1, <2>4 DEF OnEncodedFrame, Frame, IInv, TypeOK
    <3>3. \A g \in sent[e] : g.run = run => g.index < f.index
      BY DEF IInv, SentInv
    <3>4. Delivery!Produce(e, f)
      BY <2>2, <3>1, <3>3 DEF Delivery!Produce
    <3> QED
      BY <3>2, <3>4 DEF Delivery!Next
  <2> QED
    BY <2>3, <2>4
<1>3. CASE RestartHost
  <2>1. Delivery!Restart
    BY <1>1, <1>3 DEF RestartHost, historyVars, Delivery!Restart
  <2> QED
    BY <2>1 DEF Delivery!Next
<1>4. CASE RequestIntervalElapses
  BY <1>1, <1>4 DEF RequestIntervalElapses, hostVars, historyVars
<1>5. CASE UNCHANGED vars
  BY <1>1, <1>5 DEF vars
<1>6. CASE \E e \in Eyes : \E f \in sent[e] : \E i \in Fragments(f) : HandleFragment(e, f, i)
  <2>1. PICK e \in Eyes : \E f \in sent[e] : \E i \in Fragments(f) : HandleFragment(e, f, i)
    BY <1>6
  <2>2. PICK f \in sent[e] : \E i \in Fragments(f) : HandleFragment(e, f, i)
    BY <2>1
  <2>3. PICK i \in Fragments(f) : HandleFragment(e, f, i)
    BY <2>2
  <2>4. CASE ~CompleteFrame(e, f, i)
    BY <1>1, <2>3, <2>4
       DEF HandleFragment, IgnoreLate, IgnoreRepeated, StoreFragment, hostVars
  <2>5. CASE CompleteFrame(e, f, i)
    <3> DEFINE b == Begin(asm[e], f)
               c == Store(b, f, i)
               d == OnFrame(c, f)
               n == Len(delivered[e])
    <3>1. /\ UNCHANGED <<run, sent>>
          /\ f.index >= asm[e].currentFrame /\ i < b.fragmentCount /\ i \notin b.received
          /\ delivered' = [delivered EXCEPT ![e] = Append(@, d)]
      BY <2>5 DEF CompleteFrame, hostVars
    <3>2. /\ d \in DeliveryType /\ d.index = f.index
          /\ run = 1 => Whole(d) /\ d.header = f
          /\ c.lastDelivered = asm[e].lastDelivered /\ c.lastDelivered < f.index
      BY <2>5, CompleteFrameFacts
    <3>3. d.header \in sent[e]
      <4>1. /\ b \in AssemblerType /\ CountInv(b) /\ b.currentFrame = f.index
            /\ b.header \in sent[e]
        BY <3>1, Arrival, BeginFacts DEF HeaderSent, StartsFrame, AssemblerType
      <4>2. c.header = b.header
        <5>1. f \in Frame
          BY Arrival
        <5> HIDE DEF b
        <5> QED
          BY <3>1, <4>1, <5>1, StoreFacts
      <4> QED
        BY <4>1, <4>2 DEF OnFrame
    <3> HIDE DEF c, d
    <3>4. /\ n \in Nat /\ Len(delivered'[e]) = n + 1
          /\ \A k \in 1 .. n : delivered'[e][k] = delivered[e][k]
          /\ delivered'[e][n + 1] = d
      BY <1>0, <3>1, <3>2
    <3>5. TypeOK /\ TypeOK'
      BY DEF IInv
    <3>6. ShownFrames' = [ShownFrames EXCEPT ![e] = Append(@, Shown(d))]
      <4>1. \A x \in Eyes : x # e => ShownFrames'[x] = ShownFrames[x]
        BY <1>0, <3>1 DEF ShownFrames, Whole
      <4>2. /\ Len(ShownFrames[e]) = n
            /\ ShownFrames[e] \in Seq(UNION {{Shown(x)} : x \in DeliveryType})
            /\ \A k \in 1 .. n : ShownFrames[e][k] = Shown(delivered[e][k])
        BY <3>5, ShownFramesFacts
      <4>3. ShownFrames'[e] = [k \in 1 .. n + 1 |-> Shown(delivered'[e][k])]
        <5>1. delivered'[e] \in Seq(DeliveryType)
          BY <3>5 DEF TypeOK
        <5>2. DOMAIN delivered'[e] = 1 .. n + 1
          BY <5>1, <3>4
        <5> QED
          BY <5>2 DEF ShownFrames, Shown, Whole
      <4>4. ShownFrames'[e] = Append(ShownFrames[e], Shown(d))
        <5>1. DOMAIN ShownFrames[e] = 1 .. n
          BY <4>2
        <5>2. Append(ShownFrames[e], Shown(d))
                = [k \in 1 .. n + 1 |-> IF k = n + 1 THEN Shown(d) ELSE ShownFrames[e][k]]
          BY <3>4, <4>2, <5>1
        <5>3. \A k \in 1 .. n + 1 :
                Shown(delivered'[e][k]) = IF k = n + 1 THEN Shown(d) ELSE ShownFrames[e][k]
          BY <3>4, <4>2
        <5> QED
          BY <4>3, <5>2, <5>3
      <4> QED
        BY <4>1, <4>4 DEF ShownFrames
    <3>7. Delivery!LastShown(e) < f.index
      <4>1. CASE ShownFrames[e] = <<>>
        BY <4>1, Arrival, FragmentsFacts DEF Delivery!LastShown
      <4>2. CASE ShownFrames[e] # <<>>
        <5>1. /\ Len(ShownFrames[e]) = n
              /\ ShownFrames[e] \in Seq(UNION {{Shown(x)} : x \in DeliveryType})
              /\ \A k \in 1 .. n : ShownFrames[e][k] = Shown(delivered[e][k])
          BY <3>5, ShownFramesFacts
        <5>2. n \in 1 .. n
          BY <3>4, <4>2, <5>1
        <5>3. Delivery!LastShown(e) = delivered[e][n].index
          <6>1. Delivery!LastShown(e) = ShownFrames[e][n].index
            BY <4>2, <5>1 DEF Delivery!LastShown
          <6>2. ShownFrames[e][n] = Shown(delivered[e][n])
            BY <5>1, <5>2
          <6> QED
            BY <6>1, <6>2 DEF Shown
        <5>4. n \in DOMAIN delivered'[e] /\ n + 1 \in DOMAIN delivered'[e]
          BY <3>4, <3>5, <5>2 DEF TypeOK
        <5>5. delivered'[e][n].index < delivered'[e][n + 1].index
          BY <3>4, <5>4 DEF IInv, OrderInv
        <5> QED
          BY <3>2, <3>4, <5>2, <5>3, <5>5
      <4> QED
        BY <4>1, <4>2
    <3>8. CASE Whole(d)
      <4>1. Shown(d) = [index |-> f.index, frame |-> d.header] /\ d.header.index = f.index
        BY <3>2, <3>8 DEF Shown, Whole
      <4>2. Delivery!Show(e, d.header.index, d.header)
        BY <3>1, <3>6, <3>7, <4>1 DEF Delivery!Show
      <4> QED
        BY <3>3, <4>2 DEF Delivery!Next
    <3>9. CASE ~Whole(d)
      <4>1. Shown(d) = [index |-> f.index, frame |-> Spliced]
        BY <3>2, <3>9 DEF Shown
      <4>2. Delivery!Show(e, f.index, Spliced)
        BY <3>1, <3>6, <3>7, <4>1 DEF Delivery!Show
      <4>3. run > 1
        BY <3>2, <3>9, BoundsAssumption DEF IInv, TypeOK
      <4> QED
        BY <4>2, <4>3 DEF Delivery!Next
    <3> QED
      BY <3>8, <3>9
  <2> QED
    BY <2>4, <2>5
<1> QED
  BY <1>2, <1>3, <1>4, <1>5, <1>6 DEF Next

\* Fragmenting, a link that loses, repeats and reorders, and the assembler
\* together implement whole frames shown in order and at most once; only after
\* a restart of the host may a delivery be a splice of frames of one index.
THEOREM PathImplementsDelivery == Spec => ImplementsDelivery
<1> QED
  BY DeliveryInit, DeliveryStep, Invariance, HeaderSentInvariance, PTL
     DEF Spec, ImplementsDelivery, Delivery!Spec
\* What the path does for one eye is nothing to the other.
LEMMA OneEyeStep ==
  ASSUME NEW e \in Eyes, TypeOK, TypeOK', [Delivery!Next]_(Delivery!deliveryVars)
  PROVE  [OneEye(e)!Next]_(OneEye(e)!deliveryVars)
<1> DEFINE produced == [x \in {e} |-> sent[x]]
           shown == [x \in {e} |-> ShownFrames[x]]
<1> SUFFICES OneEye(e)!Next \/ UNCHANGED <<run, produced, shown>>
  BY DEF OneEye!deliveryVars
<1>0. sent \in [Eyes -> SUBSET Frame] /\ ShownFrames = [x \in Eyes |-> ShownFrames[x]]
  BY DEF TypeOK, ShownFrames
<1>1. CASE UNCHANGED <<run, sent, ShownFrames>>
  BY <1>1
<1>2. ASSUME NEW x \in Eyes, NEW f \in Frame, Delivery!Produce(x, f)
      PROVE  OneEye(e)!Next \/ UNCHANGED <<run, produced, shown>>
  <2>1. /\ f.run = run /\ \A g \in sent[x] : g.run = run => g.index < f.index
        /\ sent' = [sent EXCEPT ![x] = @ \cup {f}] /\ UNCHANGED <<run, ShownFrames>>
    BY <1>2 DEF Delivery!Produce
  <2>2. CASE x = e
    <3>1. produced' = [produced EXCEPT ![e] = @ \cup {f}]
      BY <1>0, <2>1, <2>2
    <3>2. OneEye(e)!Produce(e, f)
      BY <2>1, <2>2, <3>1 DEF OneEye!Produce
    <3> QED
      BY <3>2 DEF OneEye!Next
  <2>3. CASE x # e
    BY <1>0, <2>1, <2>3
  <2> QED
    BY <2>2, <2>3
<1>3. ASSUME NEW x \in Eyes, NEW i, NEW f, Delivery!Show(x, i, f)
      PROVE  (x = e /\ OneEye(e)!Show(e, i, f)) \/ UNCHANGED <<run, produced, shown>>
  <2>1. /\ i > Delivery!LastShown(x) /\ UNCHANGED <<run, sent>>
        /\ ShownFrames' = [ShownFrames EXCEPT ![x] = Append(@, [index |-> i, frame |-> f])]
    BY <1>3 DEF Delivery!Show
  <2>2. CASE x = e
    <3>1. shown' = [shown EXCEPT ![e] = Append(@, [index |-> i, frame |-> f])]
      BY <1>0, <2>1, <2>2
    <3>2. OneEye(e)!LastShown(e) = Delivery!LastShown(e)
      BY DEF OneEye!LastShown, Delivery!LastShown
    <3> QED
      BY <2>1, <2>2, <3>1, <3>2 DEF OneEye!Show
  <2>3. CASE x # e
    BY <1>0, <2>1, <2>3
  <2> QED
    BY <2>2, <2>3
<1>4. CASE \E x \in Eyes : \E f \in sent[x] : Delivery!Show(x, f.index, f)
  BY <1>3, <1>4 DEF OneEye!Next
<1>5. CASE \E x \in Eyes : \E f \in sent[x] : run > 1 /\ Delivery!Show(x, f.index, Spliced)
  BY <1>3, <1>5 DEF OneEye!Next
<1>6. CASE Delivery!Restart
  BY <1>6 DEF Delivery!Restart, OneEye!Restart, OneEye!Next
<1> QED
  BY <1>1, <1>2, <1>4, <1>5, <1>6 DEF Delivery!Next, Delivery!deliveryVars

\* What sink, link and assembler do for one eye is a delivery to its decoder, whatever
\* they do for the other on the same port and with the same rate limit.
THEOREM EachEyeIsDelivered == Spec => EachEyeImplementsDelivery
<1> SUFFICES ASSUME NEW e \in Eyes
             PROVE  Spec => OneEye(e)!Spec
  BY DEF EachEyeImplementsDelivery
<1>1. Init => OneEye(e)!Init
  BY DeliveryInit DEF Delivery!Init, OneEye!Init
<1>2. IInv /\ IInv' /\ HeaderSent /\ [Next]_vars => [OneEye(e)!Next]_(OneEye(e)!deliveryVars)
  BY DeliveryStep, OneEyeStep DEF IInv
<1> QED
  BY <1>1, <1>2, Invariance, HeaderSentInvariance, PTL DEF Spec, OneEye!Spec
=============================================================================
