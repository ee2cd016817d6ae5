----------------------- MODULE ServerObjectListProofs -----------------------
(***************************************************************************)
(* Proofs about ServerObjectRemover and ServerObjectList, for any set of   *)
(* objects and any limit of the list.                                      *)
(*                                                                         *)
(* The remover releases objects in the order of the pushes, none is lost   *)
(* or released twice, and a destructor that waits for the worker and       *)
(* returns has released everything (ReleasesInOrder).                      *)
(*                                                                         *)
(* The list counts, deletes and detaches its objects as it should          *)
(* (ObjectsAreSound), uses its remover the way ServerObjectRemover expects *)
(* (UsesRemoverProperly), so that what is proved of a remover holds of the *)
(* one inside, and keeps the promise of ServerObjectRegistry               *)
(* (ImplementsRegistry).                                                   *)
(*                                                                         *)
(* These three rest on the inductive invariant IInv, which says for each   *)
(* object where it is on its way from the owner's hand through the list    *)
(* and the remover to its deletion, and how far the locks' holders got.    *)
(*                                                                         *)
(* The last part is about SyncUdpSocket, for any threads in its calls: its *)
(* packets are returned in order (NothingLostOrRepeated), nobody sleeps    *)
(* beside one (NoSleepBesidePacket), and the front of an empty queue is    *)
(* read only through an event that was skipped (EmptyFrontIsStale).  It is *)
(* an instance here; ReceiveOrder has its state and what it promises.      *)
(***************************************************************************)
EXTENDS ServerObjectList, ReceiveOrder, SequenceTheorems, TLAPS

(* The steps of a SyncUdpSocket, about the state that ReceiveOrder         *)
(* declares.                                                               *)
Udp == INSTANCE SyncUdpSocket

-----------------------------------------------------------------------------
(* The remover, for any use of it that ServerObjectRemover allows.         *)

(* The inductive invariant of a remover.                                   *)
ReleaseInv == Remover!TypeOK /\ FifoConservation /\ Remover!PhaseInv

-----------------------------------------------------------------------------
(* Two facts about sequences.                                              *)

(* Taking the head off the queue and appending it to what precedes the     *)
(* queue leaves the whole unchanged.                                       *)
LEMMA HeadMoves ==
  ASSUME NEW S, NEW s \in Seq(S), NEW t \in Seq(S), t # <<>>
  PROVE  /\ (s \o <<Head(t)>>) \o Tail(t) = s \o t
         /\ Append(s, Head(t)) \o Tail(t) = s \o t
<1>1. Head(t) \in S /\ Tail(t) \in Seq(S)
  BY HeadTailProperties
<1>2. <<Head(t)>> \in Seq(S) /\ Len(<<Head(t)>>) = 1 /\ <<Head(t)>>[1] = Head(t)
  BY <1>1
<1>3. <<Head(t)>> \o Tail(t) = t
  <2>1. Len(<<Head(t)>> \o Tail(t)) = Len(t)
    BY <1>1, <1>2, ConcatProperties, HeadTailProperties, LenProperties
  <2>2. \A i \in 1..Len(t) : (<<Head(t)>> \o Tail(t))[i] = t[i]
    BY <1>1, <1>2
  <2>3. <<Head(t)>> \o Tail(t) \in Seq(S)
    BY <1>1, <1>2, ConcatProperties
  <2>4. QED BY <2>1, <2>2, <2>3, SeqEqual
<1>4. (s \o <<Head(t)>>) \o Tail(t) = s \o (<<Head(t)>> \o Tail(t))
  BY <1>1, <1>2, ConcatAssociative
<1>5. Append(s, Head(t)) = s \o <<Head(t)>>
  BY <1>1, AppendIsConcat
<1>6. QED BY <1>3, <1>4, <1>5

(* Appending to a suffix appends to the whole. *)
LEMMA AppendMoves ==
  ASSUME NEW S, NEW s \in Seq(S), NEW t \in Seq(S), NEW e \in S
  PROVE  s \o Append(t, e) = Append(s \o t, e)
<1>1. <<e>> \in Seq(S)
  OBVIOUS
<1>2. s \o Append(t, e) = s \o (t \o <<e>>)
  BY AppendIsConcat
<1>3. Append(s \o t, e) = (s \o t) \o <<e>>
  BY ConcatProperties, AppendIsConcat
<1>4. QED BY <1>1, <1>2, <1>3, ConcatAssociative

(* The worker holds objects only. *)
LEMMA InHandType == Remover!TypeOK => InHand \in Seq(Objects)
BY DEF Remover!TypeOK, InHand

-----------------------------------------------------------------------------
(* A new remover has nothing yet. *)
LEMMA InitReleaseInv == Remover!Init => ReleaseInv
<1> SUFFICES ASSUME Remover!Init PROVE ReleaseInv
  OBVIOUS
<1>1. Remover!TypeOK /\ Remover!PhaseInv
  <2>1. <<>> \in Seq(Objects)
    BY EmptySeq
  <2>2. Remover!TypeOK
    <3>1. /\ queue = <<>> /\ pushed = <<>> /\ released = <<>>
          /\ status \in {"STARTED", "SUSPENDED", "TERMINATED"}
          /\ wpc \in Remover!WorkerPC
          /\ ppc \in {"idle", "check"} /\ spc \in Remover!StopPC
      BY DEF Remover!Init, Remover!WorkerPC, Remover!StopPC
    <3>2. waitForever \in BOOLEAN /\ stopEvent \in BOOLEAN /\ inHand \in Objects \cup {NoObj}
      BY DEF Remover!Init
    <3>3. QED BY <2>1, <3>1, <3>2, Zenon DEF Remover!TypeOK
  <2>3. Remover!PhaseInv
    BY ListAssumption DEF Remover!Init, Remover!PhaseInv, Remover!WorkerStopped
  <2>4. QED BY <2>2, <2>3
<1>2. FifoConservation
  BY ListAssumption, ConcatEmptySeq DEF Remover!Init, FifoConservation, InHand
<1>3. QED BY <1>1, <1>2 DEF ReleaseInv

(* A pop moves the head of the queue into the worker's hand. *)
LEMMA PopKeeps ==
  ASSUME Remover!TypeOK, inHand = NoObj, Remover!PopOrLoop, UNCHANGED <<pushed, released>>,
         released \o InHand \o queue = pushed
  PROVE  /\ queue' \in Seq(Objects) /\ inHand' \in Objects \cup {NoObj}
         /\ wpc' \in {"release", "top"}
         /\ inHand' # NoObj <=> wpc' = "release"
         /\ (released \o InHand \o queue = pushed)'
<1>1. released \o <<>> = released
  BY ConcatEmptySeq DEF Remover!TypeOK
<1>2. CASE queue # <<>>
  <2>1. Head(queue) \in Objects /\ Tail(queue) \in Seq(Objects)
    BY <1>2, HeadTailProperties DEF Remover!TypeOK
  <2>2. inHand' = Head(queue) /\ queue' = Tail(queue) /\ wpc' = "release"
    BY <1>2 DEF Remover!PopOrLoop
  <2>3. InHand = <<>> /\ InHand' = <<Head(queue)>>
    BY <2>1, <2>2, ListAssumption DEF InHand
  <2>4. (released \o <<Head(queue)>>) \o Tail(queue) = released \o queue
    BY <1>2, HeadMoves DEF Remover!TypeOK
  <2>5. QED BY <1>1, <2>1, <2>2, <2>3, <2>4, ListAssumption
<1>3. CASE queue = <<>>
  <2>1. inHand' = inHand /\ queue' = queue /\ wpc' = "top"
    BY <1>3 DEF Remover!PopOrLoop
  <2>2. InHand' = InHand
    BY <2>1 DEF InHand
  <2>3. QED BY <2>1, <2>2 DEF Remover!TypeOK
<1>4. QED BY <1>2, <1>3

-----------------------------------------------------------------------------
(* Each step of the remover moves at most one object to its next place.   *)
LEMMA NextReleaseInv == ReleaseInv /\ [Remover!Next]_(Remover!vars) => ReleaseInv'
<1> SUFFICES ASSUME ReleaseInv, [Remover!Next]_(Remover!vars) PROVE ReleaseInv'
  OBVIOUS
<1> USE ListAssumption
<1>0. Remover!TypeOK /\ FifoConservation /\ Remover!PhaseInv /\ InHand \in Seq(Objects)
  BY InHandType DEF ReleaseInv
<1>1. CASE Remover!PushFresh
  <2>1. spc = "idle" /\ \E o \in Objects : Remover!Push(o)
    BY <1>1 DEF Remover!PushFresh
  <2>. PICK o \in Objects : Remover!Push(o)
    BY <2>1
  <2>2. Remover!TypeOK' /\ Remover!PhaseInv' /\ InHand' = InHand
    BY <1>0, <2>1, AppendProperties DEF Remover!Push, Remover!TypeOK, Remover!PhaseInv,
      Remover!WorkerStopped, InHand
  <2>3. FifoConservation'
    <3>1. (released \o InHand) \in Seq(Objects)
      BY <1>0, ConcatProperties DEF Remover!TypeOK
    <3>2. (released \o InHand) \o Append(queue, o) = Append((released \o InHand) \o queue, o)
      BY <1>0, <3>1, AppendMoves DEF Remover!TypeOK
    <3>3. QED BY <1>0, <2>1, <2>2, <3>2 DEF FifoConservation, Remover!Push
  <2>4. QED BY <2>2, <2>3 DEF ReleaseInv
<1>2. CASE Remover!PushCheck
  BY <1>0, <1>2
  DEF Remover!PushCheck, Remover!ResumeIfSuspended, ReleaseInv, Remover!TypeOK,
    Remover!PhaseInv, Remover!WorkerStopped, FifoConservation, InHand
<1>3. CASE Remover!Worker
  <2>1. CASE Remover!WorkerStart
    BY <1>0, <2>1
    DEF Remover!WorkerStart, ReleaseInv, Remover!TypeOK, Remover!PhaseInv,
      Remover!WorkerStopped, FifoConservation, InHand, Remover!WorkerPC
  <2>2. CASE Remover!WorkerTop
    <3>1. wpc = "top" /\ inHand = NoObj /\ released \o InHand \o queue = pushed
      BY <1>0, <2>2 DEF Remover!WorkerTop, Remover!PhaseInv, FifoConservation
    <3>2. CASE stopEvent \/ queue = <<>>
      BY <1>0, <2>2, <3>1, <3>2
      DEF Remover!WorkerTop, ReleaseInv, Remover!TypeOK, Remover!PhaseInv,
        Remover!WorkerStopped, FifoConservation, InHand, Remover!WorkerPC
    <3>3. CASE ~(stopEvent \/ queue = <<>>)
      <4>1. Remover!PopOrLoop /\ UNCHANGED <<waitForever, status, stopEvent, ppc, spc, pushed, released>>
        BY <2>2, <3>3 DEF Remover!WorkerTop
      <4>2. QED
        BY <1>0, <3>1, <4>1, PopKeeps
        DEF ReleaseInv, Remover!TypeOK, Remover!PhaseInv, Remover!WorkerStopped,
          FifoConservation, Remover!WorkerPC
    <3>4. QED BY <3>2, <3>3
  <2>3. CASE Remover!WorkerSuspend
    BY <1>0, <2>3
    DEF Remover!WorkerSuspend, ReleaseInv, Remover!TypeOK, Remover!PhaseInv,
      Remover!WorkerStopped, FifoConservation, InHand, Remover!WorkerPC
  <2>4. CASE Remover!WorkerDrain
    <3>1. inHand = NoObj /\ released \o InHand \o queue = pushed /\ wpc \in {"suspended", "drain"}
      BY <1>0, <2>4 DEF Remover!WorkerDrain, Remover!PhaseInv, FifoConservation
    <3>2. Remover!PopOrLoop /\ UNCHANGED <<waitForever, status, stopEvent, ppc, spc, pushed, released>>
      BY <2>4 DEF Remover!WorkerDrain
    <3>3. QED
      BY <1>0, <3>1, <3>2, PopKeeps
      DEF ReleaseInv, Remover!TypeOK, Remover!PhaseInv, Remover!WorkerStopped,
        FifoConservation, Remover!WorkerPC
  <2>5. CASE Remover!WorkerRelease
    <3>1. inHand \in Objects /\ released \o <<inHand>> \o queue = pushed
      BY <1>0, <2>5 DEF Remover!WorkerRelease, Remover!PhaseInv, FifoConservation,
        InHand, Remover!TypeOK
    <3>2. InHand' = <<>>
      BY <2>5 DEF Remover!WorkerRelease, InHand
    <3>3. Append(released, inHand) \in Seq(Objects) /\ Append(released, inHand) = released \o <<inHand>>
      BY <1>0, <3>1, AppendIsConcat, AppendProperties DEF Remover!TypeOK
    <3>4. Append(released, inHand) \o <<>> = Append(released, inHand)
      BY <3>3, ConcatEmptySeq
    <3>5. FifoConservation'
      BY <2>5, <3>1, <3>2, <3>3, <3>4 DEF Remover!WorkerRelease, FifoConservation
    <3>6. Remover!TypeOK' /\ Remover!PhaseInv'
      BY <1>0, <2>5, <3>3 DEF Remover!WorkerRelease, Remover!TypeOK, Remover!PhaseInv,
        Remover!WorkerStopped, Remover!WorkerPC
    <3>7. QED BY <3>5, <3>6 DEF ReleaseInv
  <2>6. QED BY <1>3, <2>1, <2>2, <2>3, <2>4, <2>5 DEF Remover!Worker
<1>4. CASE Remover!Stop
  <2>1. CASE Remover!StopSignal
    BY <1>0, <2>1
    DEF Remover!StopSignal, ReleaseInv, Remover!TypeOK, Remover!PhaseInv,
      Remover!WorkerStopped, FifoConservation, InHand, Remover!StopPC
  <2>2. CASE Remover!StopResume
    BY <1>0, <2>2
    DEF Remover!StopResume, Remover!ResumeIfSuspended, ReleaseInv, Remover!TypeOK,
      Remover!PhaseInv, Remover!WorkerStopped, FifoConservation, InHand, Remover!StopPC
  <2>3. CASE Remover!StopJoin
    BY <1>0, <2>3
    DEF Remover!StopJoin, ReleaseInv, Remover!TypeOK, Remover!PhaseInv,
      Remover!WorkerStopped, FifoConservation, InHand, Remover!StopPC, Remover!WorkerPC
  <2>4. CASE Remover!StopDrain
    <3>1. CASE queue = <<>>
      BY <1>0, <2>4, <3>1
      DEF Remover!StopDrain, ReleaseInv, Remover!TypeOK, Remover!PhaseInv,
        Remover!WorkerStopped, FifoConservation, InHand, Remover!StopPC
    <3>2. CASE queue # <<>>
      <4>1. /\ released' = Append(released, Head(queue)) /\ queue' = Tail(queue)
            /\ UNCHANGED <<waitForever, spc, status, wpc, inHand, stopEvent, ppc, pushed>>
        BY <2>4, <3>2 DEF Remover!StopDrain
      <4>2. Head(queue) \in Objects /\ Tail(queue) \in Seq(Objects)
        BY <1>0, <3>2, HeadTailProperties DEF Remover!TypeOK
      <4>3. Remover!TypeOK' /\ Remover!PhaseInv'
        BY <1>0, <2>4, <4>1, <4>2, AppendProperties DEF Remover!TypeOK, Remover!PhaseInv,
          Remover!WorkerStopped, Remover!StopDrain
      <4>4. FifoConservation'
        <5>1. SUFFICES ASSUME wpc # "killed"
                       PROVE  (released \o InHand \o queue = pushed)'
          BY <4>1 DEF FifoConservation
        <5>2. InHand = <<>> /\ InHand' = <<>>
          BY <1>0, <2>4, <4>1, <5>1 DEF Remover!PhaseInv, Remover!WorkerStopped,
            Remover!StopDrain, InHand
        <5>3. released \o queue = pushed
          BY <1>0, <5>1, <5>2, ConcatEmptySeq DEF FifoConservation, Remover!TypeOK
        <5>4. Append(released, Head(queue)) \o Tail(queue) = released \o queue
          BY <1>0, <3>2, HeadMoves DEF Remover!TypeOK
        <5>5. Append(released, Head(queue)) \o <<>> = Append(released, Head(queue))
          BY <1>0, <4>2, AppendProperties, ConcatEmptySeq DEF Remover!TypeOK
        <5>6. QED BY <4>1, <5>2, <5>3, <5>4, <5>5
      <4>5. QED BY <4>3, <4>4 DEF ReleaseInv
    <3>3. QED BY <3>1, <3>2
  <2>5. QED BY <1>4, <2>1, <2>2, <2>3, <2>4 DEF Remover!Stop
<1>5. CASE UNCHANGED Remover!vars
  BY <1>0, <1>5 DEF Remover!vars, ReleaseInv, Remover!TypeOK, Remover!PhaseInv,
    Remover!WorkerStopped, FifoConservation, InHand
<1>6. QED
  BY <1>1, <1>2, <1>3, <1>4, <1>5 DEF Remover!Next, Remover!Destroyed

-----------------------------------------------------------------------------
(* The inductive invariant holds in every reachable state of the remover. *)
THEOREM RemoverKeepsReleaseInv == Remover!Spec => []ReleaseInv
BY InitReleaseInv, NextReleaseInv, PTL DEF Remover!Spec

(* The variables of the remover keep their types, whatever is pushed. *)
THEOREM RemoverTypeOK == Remover!Spec => []Remover!TypeOK
<1>1. ReleaseInv => Remover!TypeOK
  BY DEF ReleaseInv
<1>2. QED BY <1>1, RemoverKeepsReleaseInv, PTL

(* Push, execute and the destructor release every object once and in the   *)
(* order of the pushes.                                                    *)
THEOREM RemoverFifo == Remover!Spec => []FifoConservation
<1>1. ReleaseInv => FifoConservation
  BY DEF ReleaseInv
<1>2. QED BY <1>1, RemoverKeepsReleaseInv, PTL

(* A destructor with an infinite wait that returns leaves no object        *)
(* unreleased.                                                             *)
THEOREM RemoverStopReleasesAll == Remover!Spec => []StopReleasesAll
<1>1. ReleaseInv => StopReleasesAll
  <2> SUFFICES ASSUME ReleaseInv, spc = "done", waitForever PROVE released = pushed
    BY DEF StopReleasesAll
  <2>1. wpc = "ended" /\ inHand = NoObj /\ queue = <<>>
    BY DEF ReleaseInv, Remover!PhaseInv, Remover!WorkerStopped
  <2>2. InHand = <<>> /\ released \in Seq(Objects) /\ released \o InHand \o queue = pushed
    BY <2>1 DEF ReleaseInv, InHand, FifoConservation, Remover!TypeOK
  <2>3. QED BY <2>1, <2>2, ConcatEmptySeq
<1>2. QED BY <1>1, RemoverKeepsReleaseInv, PTL

(* For any objects, pushed at any time, the remover loses none and         *)
(* releases none twice, up to the end of its destructor.                   *)
THEOREM RemoverReleasesInOrder == Remover!Spec => []ReleasesInOrder
<1>1. FifoConservation /\ StopReleasesAll => ReleasesInOrder
  BY DEF ReleasesInOrder
<1>2. QED BY <1>1, RemoverFifo, RemoverStopReleasesAll, PTL

-----------------------------------------------------------------------------
(* Sequences without repetitions.                                          *)

(* Appending an element adds it to the elements. *)
LEMMA RangeOfAppend ==
  ASSUME NEW S, NEW s \in Seq(S), NEW e \in S
  PROVE  /\ Append(s, e) \in Seq(S)
         /\ Range(Append(s, e)) = Range(s) \cup {e}
         /\ Len(Append(s, e)) = Len(s) + 1
         /\ \A i \in DOMAIN s : Append(s, e)[i] = s[i]
         /\ IsInjective(s) /\ e \notin Range(s) => IsInjective(Append(s, e))
<1> DEFINE t == Append(s, e)
<1>1. /\ t \in Seq(S) /\ Len(t) = Len(s) + 1 /\ Len(s) \in Nat
      /\ DOMAIN s = 1..Len(s) /\ DOMAIN t = 1..(Len(s) + 1)
      /\ \A i \in 1..Len(s) : t[i] = s[i]
      /\ t[Len(s) + 1] = e
  OBVIOUS
<1> HIDE DEF t
<1>2. DOMAIN t = DOMAIN s \cup {Len(s) + 1} /\ Len(s) + 1 \notin DOMAIN s
  BY <1>1
<1>3. Range(t) = Range(s) \cup {e}
  BY <1>1, <1>2 DEF Range
<1>4. IsInjective(s) /\ e \notin Range(s) => IsInjective(t)
  BY <1>1, <1>2 DEF Range, IsInjective
<1>5. QED BY <1>1, <1>3, <1>4 DEF t

(* Taking the head off a sequence without repetitions. *)
LEMMA RangeOfTail ==
  ASSUME NEW S, NEW s \in Seq(S), s # <<>>, IsInjective(s)
  PROVE  /\ Head(s) \in S /\ Head(s) \in Range(s)
         /\ Tail(s) \in Seq(S)
         /\ Range(Tail(s)) = Range(s) \ {Head(s)}
         /\ IsInjective(Tail(s))
<1> DEFINE t == Tail(s)
<1>1. /\ t \in Seq(S) /\ Len(t) = Len(s) - 1 /\ Len(s) \in Nat /\ Len(s) >= 1
      /\ DOMAIN s = 1..Len(s) /\ DOMAIN t = 1..(Len(s) - 1)
      /\ \A i \in 1..(Len(s) - 1) : t[i] = s[i + 1]
      /\ Head(s) = s[1] /\ s[1] \in S
  OBVIOUS
<1> HIDE DEF t
<1>2. 1 \in DOMAIN s
  BY <1>1
<1>3. \A i \in DOMAIN t : i + 1 \in DOMAIN s /\ i + 1 # 1 /\ t[i] = s[i + 1]
  BY <1>1
<1>4. \A i \in DOMAIN s : i = 1 \/ (i - 1 \in DOMAIN t /\ t[i - 1] = s[i])
  <2> SUFFICES ASSUME NEW i \in DOMAIN s, i # 1 PROVE i - 1 \in DOMAIN t /\ t[i - 1] = s[i]
    OBVIOUS
  <2>1. i - 1 \in 1..(Len(s) - 1) /\ (i - 1) + 1 = i
    BY <1>1
  <2>2. QED BY <1>1, <2>1
<1>5. Range(t) = Range(s) \ {s[1]}
  <2>1. ASSUME NEW x \in Range(t) PROVE x \in Range(s) \ {s[1]}
    <3>1. PICK i \in DOMAIN t : x = t[i]
      BY <2>1 DEF Range
    <3>2. QED BY <1>2, <1>3, <3>1 DEF Range, IsInjective
  <2>2. ASSUME NEW x \in Range(s) \ {s[1]} PROVE x \in Range(t)
    <3>1. PICK i \in DOMAIN s : x = s[i]
      BY <2>2 DEF Range
    <3>2. QED BY <1>4, <2>2, <3>1 DEF Range
  <2>3. QED BY <2>1, <2>2
<1>6. IsInjective(t)
  <2> SUFFICES ASSUME NEW a \in DOMAIN t, NEW b \in DOMAIN t, t[a] = t[b] PROVE a = b
    BY DEF IsInjective
  <2>1. a + 1 = b + 1
    BY <1>3 DEF IsInjective
  <2>2. a \in Nat /\ b \in Nat
    BY <1>1
  <2>3. QED BY <2>1, <2>2
<1>7. QED BY <1>1, <1>2, <1>5, <1>6 DEF t, Range

(* Erase takes the only occurrence of an element out. *)
LEMMA RangeOfErase ==
  ASSUME NEW S, NEW s \in Seq(S), NEW e \in Range(s), IsInjective(s)
  PROVE  /\ Erase(s, e) \in Seq(S)
         /\ Range(Erase(s, e)) = Range(s) \ {e}
         /\ IsInjective(Erase(s, e))
<1>1. DOMAIN s = 1..Len(s) /\ Len(s) \in Nat
  OBVIOUS
<1>2. PICK k \in 1..Len(s) : s[k] = e
  BY <1>1 DEF Range
<1>3. {i \in 1..Len(s) : s[i] = e} = {k}
  BY <1>1, <1>2 DEF IsInjective
<1>4. Max({k}) = k
  BY <1>1, <1>2 DEF Max
<1>5. Erase(s, e) = SubSeq(s, 1, k - 1) \o SubSeq(s, k + 1, Len(s))
  BY <1>3, <1>4 DEF Erase, SelectLastInSeq, RemoveAt
<1> DEFINE l == SubSeq(s, 1, k - 1)
           r == SubSeq(s, k + 1, Len(s))
           t == l \o r
           Place(i) == IF i < k THEN i ELSE i + 1
<1>6. /\ l \in Seq(S) /\ Len(l) = k - 1
      /\ \A i \in 1..(k - 1) : l[i] = s[i]
      /\ r \in Seq(S) /\ Len(r) = Len(s) - k
      /\ \A i \in 1..(Len(s) - k) : r[i] = s[k + i]
  <2>1. \A i \in 1..Len(s) : s[i] \in S
    BY <1>1
  <2>2. /\ l \in Seq(S) /\ Len(l) = IF 1 <= k - 1 THEN k - 1 - 1 + 1 ELSE 0
        /\ \A i \in 1..(k - 1 - 1 + 1) : l[i] = s[1 + i - 1]
    <3>1. 1 \in Int /\ k - 1 \in Int /\ \A i \in 1..(k - 1) : s[i] \in S
      BY <1>1, <2>1
    <3>2. QED BY <3>1, SubSeqProperties
  <2>3. /\ r \in Seq(S) /\ Len(r) = IF k + 1 <= Len(s) THEN Len(s) - (k + 1) + 1 ELSE 0
        /\ \A i \in 1..(Len(s) - (k + 1) + 1) : r[i] = s[(k + 1) + i - 1]
    <3>1. k + 1 \in Int /\ Len(s) \in Int /\ \A i \in (k + 1)..Len(s) : s[i] \in S
      BY <1>1, <2>1
    <3>2. QED BY <3>1, SubSeqProperties
  <2> HIDE DEF l, r
  <2>4. Len(l) = k - 1 /\ Len(r) = Len(s) - k
    <3>1. k \in Int /\ 1 <= k /\ k <= Len(s) /\ Len(s) \in Int
      BY <1>1
    <3>2. Len(l) = IF 1 <= k - 1 THEN k - 1 - 1 + 1 ELSE 0
      BY <2>2
    <3>3. Len(r) = IF k + 1 <= Len(s) THEN Len(s) - (k + 1) + 1 ELSE 0
      BY <2>3
    <3>4. Len(l) = k - 1
      BY <3>1, <3>2
    <3>5. Len(r) = Len(s) - k
      BY <3>1, <3>3
    <3>6. QED BY <3>4, <3>5
  <2>5. ASSUME NEW i \in 1..(k - 1) PROVE l[i] = s[i]
    <3>1. i \in 1..(k - 1 - 1 + 1) /\ 1 + i - 1 = i
      BY <1>1
    <3>2. QED BY <2>2, <3>1
  <2>6. ASSUME NEW i \in 1..(Len(s) - k) PROVE r[i] = s[k + i]
    <3>1. i \in 1..(Len(s) - (k + 1) + 1) /\ (k + 1) + i - 1 = k + i
      BY <1>1
    <3>2. QED BY <2>3, <3>1
  <2>7. QED BY <2>2, <2>3, <2>4, <2>5, <2>6
<1> HIDE DEF l, r
<1>7. /\ t \in Seq(S) /\ Len(t) = Len(s) - 1
      /\ \A i \in 1..(Len(s) - 1) : t[i] = s[Place(i)]
  <2>1. /\ t \in Seq(S) /\ Len(t) = Len(l) + Len(r)
        /\ \A i \in 1..(Len(l) + Len(r)) : t[i] = IF i <= Len(l) THEN l[i] ELSE r[i - Len(l)]
    BY <1>6, ConcatProperties
  <2> HIDE DEF t
  <2>2. ASSUME NEW i \in 1..(Len(s) - 1) PROVE t[i] = s[Place(i)]
    <3>0. t[i] = IF i <= k - 1 THEN l[i] ELSE r[i - (k - 1)]
      BY <1>1, <1>6, <2>1
    <3>1. CASE i < k
      BY <1>1, <1>6, <3>0, <3>1
    <3>2. CASE ~(i < k)
      <4>1. i - (k - 1) \in 1..(Len(s) - k) /\ k + (i - (k - 1)) = i + 1
        BY <1>1, <3>2
      <4>2. t[i] = r[i - (k - 1)]
        BY <1>1, <3>0, <3>2
      <4>3. QED BY <1>6, <3>2, <4>1, <4>2
    <3>3. QED BY <3>1, <3>2
  <2>3. QED BY <1>1, <1>6, <2>1, <2>2
<1> HIDE DEF t
<1>8. DOMAIN t = 1..(Len(s) - 1)
  BY <1>7
<1>9. \A i \in DOMAIN t : Place(i) \in DOMAIN s /\ Place(i) # k /\ t[i] = s[Place(i)]
  BY <1>1, <1>2, <1>7, <1>8
<1>10. \A i, j \in DOMAIN t : Place(i) = Place(j) => i = j
  BY <1>1, <1>2, <1>8
<1>11. \A j \in DOMAIN s : j = k \/ \E i \in DOMAIN t : Place(i) = j
  <2> SUFFICES ASSUME NEW j \in DOMAIN s, j # k PROVE \E i \in DOMAIN t : Place(i) = j
    OBVIOUS
  <2>1. CASE j < k
    BY <1>1, <1>2, <1>8, <2>1
  <2>2. CASE j > k
    <3>1. j - 1 \in DOMAIN t /\ Place(j - 1) = j
      BY <1>1, <1>2, <1>8, <2>2
    <3>2. QED BY <3>1
  <2>3. QED BY <1>1, <1>2, <2>1, <2>2
<1> HIDE DEF Place
<1>12. k \in DOMAIN s
  BY <1>1
<1>13. Range(t) = Range(s) \ {e}
  <2>1. ASSUME NEW x \in Range(t) PROVE x \in Range(s) \ {e}
    <3>1. PICK i \in DOMAIN t : x = t[i]
      BY <2>1 DEF Range
    <3>2. QED BY <1>2, <1>9, <1>12, <3>1 DEF Range, IsInjective
  <2>2. ASSUME NEW x \in Range(s) \ {e} PROVE x \in Range(t)
    <3>1. PICK j \in DOMAIN s : x = s[j]
      BY <2>2 DEF Range
    <3>2. PICK i \in DOMAIN t : Place(i) = j
      BY <1>2, <1>11, <2>2, <3>1
    <3>3. QED BY <1>9, <3>1, <3>2 DEF Range
  <2>3. QED BY <2>1, <2>2
<1>14. IsInjective(t)
  BY <1>9, <1>10 DEF IsInjective
<1>15. QED BY <1>5, <1>7, <1>13, <1>14 DEF t, l, r
-----------------------------------------------------------------------------
(* The remover's worker lives as ServerObjectRemover says, and a wait that *)
(* is infinite is never followed by a kill.                                *)
RemoverInv == waitForever /\ Remover!PhaseInv

(* No object is twice in the list or twice with the remover.               *)
SeqInv ==
  /\ IsInjective(list) /\ IsInjective(queue)
  /\ inHand \notin Range(queue)
  /\ Range(queue) \cup ({inHand} \ {NoObj}) \subseteq Range(pushed)

(* Who holds m_listLock and m_containerLock, and who is between the two    *)
(* halves of the remover's Push.                                           *)
LockInv ==
  /\ \A o \in Objects :
       /\ listLock = o <=> tpc[o] \in {"search", "check", "erase"}
       /\ containerLock[o] <=> tpc[o] \in {"locked", "search", "check", "erase", "detach"}
  /\ listLock = Clearer <=> cpc \in {"loop", "push", "check"}
  /\ ppc = "check" <=> cpc = "check" \/ \E o \in Objects : tpc[o] = "check"

(* The object in the owner's hand.                                         *)
OwnerInv ==
  /\ opc \in {"push", "start", "release", "delete"} => cur \in Objects
  /\ opc = "push" => cur \notin Range(list) /\ cur \notin Range(pushed) /\ ~container[cur]
  /\ opc = "delete" => life[cur] = "dying" /\ cur \notin Range(queue) /\ inHand # cur
  /\ \A o \in Objects :
       tpc[o] = "none" <=> life[o] = "unborn" \/ (cur = o /\ opc \in {"push", "start"})

(* From its Push on an object is in the list or was given to the remover,  *)
(* both only while somebody is in the middle of Remove or Clear.           *)
StageInv ==
  \A o \in Objects :
    /\ life[o] = "unborn" => o \notin Range(list) /\ o \notin Range(pushed) /\ ~container[o]
    /\ life[o] = "unborn" \/ (cur = o /\ opc = "push") \/ o \in Range(list) \cup Range(pushed)
    /\ tpc[o] = "search" => o \in Range(list) /\ o \notin Range(pushed)
    /\ tpc[o] \in {"check", "erase"} => o \in Range(list) /\ o \in Range(pushed)
    /\ o \in Range(list) /\ o \in Range(pushed) =>
         tpc[o] \in {"check", "erase"} \/ listLock = Clearer

(* m_container is the list from Push until Clear or the object's own       *)
(* thread resets it.                                                       *)
ContainerInv ==
  \A o \in Objects :
    /\ container[o] => o \in Range(list) \/ tpc[o] = "detach"
    /\ o \in Range(list) /\ tpc[o] \in {"detach", "ended"} => ~container[o]
    /\ o \in Range(list) => container[o] \/ listLock = Clearer

(* Clear has detached and pushed the objects in front of its position.     *)
ClearInv ==
  listLock = Clearer =>
    /\ cidx \in 1..(Len(list) + 1)
    /\ cpc # "loop" => cidx <= Len(list)
    /\ \A i \in DOMAIN list :
         /\ list[i] \in Range(pushed) <=> i < cidx \/ (i = cidx /\ cpc = "check")
         /\ container[list[i]] <=> cidx < i \/ (i = cidx /\ cpc = "loop")

(* The list is destroyed empty, when its owner uses it no more.            *)
DestroyInv ==
  /\ spc # "idle" => cpc = "destroying"
  /\ cpc = "destroying" => list = <<>> /\ opc = "idle"

IInv ==
  /\ TypeOK /\ RemoverInv /\ SeqInv /\ LockInv /\ OwnerInv /\ StageInv
  /\ ContainerInv /\ ClearInv /\ DestroyInv /\ RefCountExact /\ NoUseAfterFree

(* The types of what belongs to the objects. *)
ObjectTypes ==
  /\ refCount \in [Objects -> 0..2]
  /\ life \in [Objects -> {"unborn", "alive", "dying", "dead"}]
  /\ container \in [Objects -> BOOLEAN] /\ containerLock \in [Objects -> BOOLEAN]
  /\ tpc \in [Objects -> {"none", "run", "locked", "search", "check", "erase",
                          "detach", "ended"}]

-----------------------------------------------------------------------------
(* The types, without the definitions the provers need not see. *)
LEMMA Basics ==
  IInv => ObjectTypes /\ Free # Clearer /\ Free \notin Objects /\ Clearer \notin Objects
BY ListAssumption DEF IInv, TypeOK, ObjectTypes, Free, Clearer

(* What the remover, the list and the object are like when the object is   *)
(* handed over: nobody is inside Push, the destructor of the remover did   *)
(* not begin, and the object, which is alive, is given for the first time. *)
CanPush(o) ==
  /\ ppc = "idle" /\ spc = "idle"
  /\ o \in Range(list) /\ o \notin Range(pushed) /\ o \notin Range(queue)
  /\ inHand # o /\ life[o] = "alive"

(* An object in the list that was not handed over is alive and counted. *)
LEMMA ListedCanBePushed ==
  ASSUME NEW o \in Objects, IInv, o \in Range(list), o \notin Range(pushed), ppc = "idle"
  PROVE  CanPush(o)
<1>1. o \notin Range(queue) /\ inHand # o
  BY ListAssumption DEF IInv, SeqInv
<1>2. life[o] = "alive"
  BY Basics DEF IInv, RefCountExact, ListHolds, OwnerHolds, RemoverHolds, Count, ObjectTypes
<1>3. spc = "idle"
  <2>1. list # <<>>
    BY DEF Range
  <2>2. QED BY <2>1 DEF IInv, DestroyInv
<1>4. QED BY <1>1, <1>2, <1>3 DEF CanPush

(* Remove by the thread of an object. *)
LEMMA SearchFinds ==
  ASSUME NEW o \in Objects, IInv, tpc[o] = "search"
  PROVE  CanPush(o) /\ listLock = o
<1>1. listLock = o /\ ppc = "idle" /\ o \in Range(list) /\ o \notin Range(pushed)
  BY Basics DEF IInv, LockInv, StageInv, TypeOK, Remover!TypeOK
<1>2. QED BY <1>1, ListedCanBePushed

(* Clear, at its position. *)
LEMMA ClearFinds ==
  ASSUME NEW s \in Objects, IInv, cpc = "push", s = list[cidx]
  PROVE  CanPush(s) /\ listLock = Clearer
<1>1. listLock = Clearer /\ ppc = "idle"
  BY Basics DEF IInv, LockInv, TypeOK, Remover!TypeOK
<1>2. DOMAIN list = 1..Len(list) /\ Len(list) \in Nat
  BY DEF IInv, TypeOK
<1>3. cidx \in DOMAIN list /\ s \notin Range(pushed)
  BY <1>1, <1>2 DEF IInv, ClearInv
<1>4. s \in Range(list)
  BY <1>3 DEF Range
<1>5. QED BY <1>1, <1>3, <1>4, ListedCanBePushed

-----------------------------------------------------------------------------
(* IInv is kept by the owner: create, Push, start, ReleaseObj, and its     *)
(* waiting for room.                                                       *)

LEMMA CreateIInv ==
  ASSUME NEW o \in Objects, IInv, Create(o) PROVE IInv'
<1>1. /\ opc = "idle" /\ opc' = "push" /\ cpc # "destroying" /\ cur' = o
      /\ life[o] = "unborn" /\ life' = [life EXCEPT ![o] = "alive"]
      /\ refCount' = [refCount EXCEPT ![o] = 1]
      /\ UNCHANGED <<waitForever, queue, status, wpc, inHand, stopEvent, ppc, spc, pushed,
                     released, list, listLock, sizeEvent, container, containerLock, tpc,
                     cpc, cidx>>
  BY Basics DEF IInv, Create, removerVars, objectVars, ownerVars, clearVars
<1>2. (TypeOK /\ RemoverInv /\ SeqInv /\ LockInv /\ DestroyInv)'
  BY Basics, <1>1 DEF IInv, ObjectTypes, TypeOK, Remover!TypeOK, RemoverInv,
    Remover!PhaseInv, Remover!WorkerStopped, SeqInv, LockInv, DestroyInv
<1>3. (OwnerInv /\ StageInv /\ ContainerInv /\ ClearInv /\ RefCountExact /\ NoUseAfterFree)'
  BY Basics, <1>1 DEF IInv, ObjectTypes, OwnerInv, StageInv, SeqInv, ContainerInv,
    ClearInv, RefCountExact, OwnerHolds, ListHolds, RemoverHolds, Count, NoUseAfterFree
<1>4. QED BY <1>2, <1>3 DEF IInv

LEMMA ListPushIInv ==
  ASSUME NEW s \in Objects, s = cur, IInv, ListPush PROVE IInv'
<1>1. /\ opc = "push" /\ opc' = "start" /\ listLock = Free
      /\ refCount' = [refCount EXCEPT ![s] = @ + 1]
      /\ list' = Append(list, s)
      /\ container' = [container EXCEPT ![s] = TRUE]
      /\ UNCHANGED <<waitForever, queue, status, wpc, inHand, stopEvent, ppc, spc, pushed,
                     released, listLock, sizeEvent, life, containerLock, tpc, cur, cpc,
                     cidx>>
  BY Basics DEF IInv, ListPush, removerVars, objectVars, ownerVars, clearVars
<1>2. /\ list' \in Seq(Objects) /\ Range(list') = Range(list) \cup {s}
      /\ IsInjective(list') /\ list' # <<>>
      /\ s \notin Range(list) /\ s \notin Range(pushed) /\ s \notin Range(queue)
      /\ inHand # s /\ refCount[s] = 1 /\ life[s] = "alive" /\ tpc[s] = "none"
  <2>1. s \notin Range(list) /\ s \notin Range(pushed) /\ s \notin Range(queue) /\ inHand # s
    BY <1>1, ListAssumption DEF IInv, OwnerInv, SeqInv
  <2>2. refCount[s] = 1 /\ life[s] = "alive" /\ tpc[s] = "none"
    BY <1>1, <2>1 DEF IInv, OwnerInv, RefCountExact, OwnerHolds, ListHolds, RemoverHolds,
      Count
  <2>3. list' \in Seq(Objects) /\ Range(list') = Range(list) \cup {s} /\ IsInjective(list')
    BY <1>1, <2>1, RangeOfAppend DEF IInv, TypeOK, SeqInv
  <2>4. list' # <<>>
    BY <1>1 DEF IInv, TypeOK
  <2>5. QED BY <2>1, <2>2, <2>3, <2>4
<1>3. (TypeOK /\ RemoverInv /\ SeqInv /\ LockInv /\ DestroyInv)'
  BY Basics, <1>1, <1>2 DEF IInv, ObjectTypes, TypeOK, Remover!TypeOK, RemoverInv,
    Remover!PhaseInv, Remover!WorkerStopped, SeqInv, LockInv, DestroyInv
<1>4. (OwnerInv /\ StageInv /\ ContainerInv /\ RefCountExact /\ NoUseAfterFree)'
  BY Basics, <1>1, <1>2 DEF IInv, ObjectTypes, OwnerInv, StageInv, ContainerInv,
    RefCountExact, OwnerHolds, ListHolds, RemoverHolds, Count, NoUseAfterFree
<1>5. ClearInv'
  BY <1>1, ListAssumption DEF IInv, ClearInv, Clearer, Free
<1>6. QED BY <1>3, <1>4, <1>5 DEF IInv

LEMMA StartThreadIInv ==
  ASSUME NEW s \in Objects, s = cur, IInv, StartThread PROVE IInv'
<1>1. /\ opc = "start" /\ opc' = "release"
      /\ tpc' = [tpc EXCEPT ![s] = "run"]
      /\ UNCHANGED <<waitForever, queue, status, wpc, inHand, stopEvent, ppc, spc, pushed,
                     released, list, listLock, sizeEvent, refCount, life, container,
                     containerLock, cur, cpc, cidx>>
  BY Basics DEF IInv, StartThread, removerVars, objectVars, ownerVars, clearVars
<1>2. life[s] = "alive"
  BY Basics, <1>1 DEF IInv, ObjectTypes, RefCountExact, OwnerHolds, ListHolds,
    RemoverHolds, Count
<1>3. (TypeOK /\ RemoverInv /\ SeqInv /\ LockInv /\ DestroyInv)'
  BY Basics, <1>1, <1>2 DEF IInv, ObjectTypes, TypeOK, Remover!TypeOK, RemoverInv,
    Remover!PhaseInv, Remover!WorkerStopped, SeqInv, LockInv, OwnerInv, DestroyInv
<1>4. (OwnerInv /\ StageInv /\ ContainerInv /\ ClearInv /\ RefCountExact /\ NoUseAfterFree)'
  BY Basics, <1>1, <1>2 DEF IInv, ObjectTypes, OwnerInv, StageInv, ContainerInv, ClearInv,
    RefCountExact, OwnerHolds, ListHolds, RemoverHolds, Count, NoUseAfterFree
<1>5. QED BY <1>3, <1>4 DEF IInv

LEMMA OwnerReleaseIInv ==
  ASSUME NEW s \in Objects, s = cur, IInv, OwnerRelease PROVE IInv'
<1>1. /\ opc = "release" /\ opc' = IF refCount[s] = 1 THEN "delete" ELSE "count"
      /\ refCount' = [refCount EXCEPT ![s] = @ - 1]
      /\ life' = [life EXCEPT ![s] = IF refCount[s] = 1 THEN "dying" ELSE @]
      /\ UNCHANGED <<waitForever, queue, status, wpc, inHand, stopEvent, ppc, spc, pushed,
                     released, list, listLock, sizeEvent, container, containerLock, tpc,
                     cur, cpc, cidx>>
  BY Basics DEF IInv, OwnerRelease, ReleaseRef, removerVars, objectVars, ownerVars,
    clearVars
<1>2. refCount[s] \in {1, 2} /\ life[s] = "alive" /\ (refCount[s] = 1 => ~ListHolds(s) /\ ~RemoverHolds(s))
  BY Basics, <1>1 DEF IInv, ObjectTypes, RefCountExact, OwnerHolds, Count
<1>3. (TypeOK /\ RemoverInv /\ SeqInv /\ LockInv /\ DestroyInv)'
  BY Basics, <1>1, <1>2 DEF IInv, ObjectTypes, TypeOK, Remover!TypeOK, RemoverInv,
    Remover!PhaseInv, Remover!WorkerStopped, SeqInv, LockInv, DestroyInv
<1>4. (OwnerInv /\ StageInv /\ ContainerInv /\ ClearInv /\ RefCountExact /\ NoUseAfterFree)'
  BY Basics, <1>1, <1>2 DEF IInv, ObjectTypes, OwnerInv, RemoverHolds, StageInv,
    ContainerInv, ClearInv, RefCountExact, OwnerHolds, ListHolds, Count, NoUseAfterFree
<1>5. QED BY <1>3, <1>4 DEF IInv

LEMMA OwnerDeleteIInv ==
  ASSUME NEW s \in Objects, s = cur, IInv, OwnerDelete PROVE IInv'
<1>1. /\ opc = "delete" /\ opc' = "count"
      /\ life' = [life EXCEPT ![s] = "dead"]
      /\ life[s] = "dying" /\ tpc[s] = "ended" /\ ~containerLock[s]
      /\ UNCHANGED <<waitForever, queue, status, wpc, inHand, stopEvent, ppc, spc, pushed,
                     released, list, listLock, sizeEvent, refCount, container,
                     containerLock, tpc, cur, cpc, cidx>>
  BY Basics DEF IInv, OwnerDelete, Destroyable, removerVars, objectVars, ownerVars,
    clearVars
<1>2. s \notin Range(queue) /\ inHand # s /\ (s \in Range(list) => listLock = Clearer)
  BY Basics, <1>1 DEF IInv, OwnerInv, RefCountExact, StageInv, ListHolds, Count
<1>3. (TypeOK /\ RemoverInv /\ SeqInv /\ LockInv /\ DestroyInv)'
  BY Basics, <1>1, <1>2 DEF IInv, ObjectTypes, TypeOK, Remover!TypeOK, RemoverInv,
    Remover!PhaseInv, Remover!WorkerStopped, SeqInv, LockInv, DestroyInv
<1>4. (OwnerInv /\ StageInv /\ ContainerInv /\ ClearInv /\ RefCountExact /\ NoUseAfterFree)'
  BY Basics, <1>1, <1>2 DEF IInv, ObjectTypes, OwnerInv, StageInv, ContainerInv, ClearInv,
    RefCountExact, OwnerHolds, ListHolds, RemoverHolds, Count, NoUseAfterFree
<1>5. QED BY <1>3, <1>4 DEF IInv

LEMMA OwnerCountIInv ==
  ASSUME IInv, OwnerCount PROVE IInv'
<1>1. /\ opc = "count" /\ opc' \in {"wait", "idle"}
      /\ UNCHANGED <<waitForever, queue, status, wpc, inHand, stopEvent, ppc, spc, pushed,
                     released, list, listLock, sizeEvent, refCount, life, container,
                     containerLock, tpc, cur, cpc, cidx>>
  BY Basics DEF IInv, OwnerCount, removerVars, objectVars, ownerVars, clearVars
<1>2. (TypeOK /\ RemoverInv /\ SeqInv /\ LockInv /\ DestroyInv)'
  BY Basics, <1>1 DEF IInv, ObjectTypes, TypeOK, Remover!TypeOK, RemoverInv,
    Remover!PhaseInv, Remover!WorkerStopped, SeqInv, LockInv, DestroyInv
<1>3. (OwnerInv /\ StageInv /\ ContainerInv /\ ClearInv /\ RefCountExact /\ NoUseAfterFree)'
  BY Basics, <1>1 DEF IInv, ObjectTypes, OwnerInv, StageInv, ContainerInv, ClearInv,
    RefCountExact, OwnerHolds, ListHolds, RemoverHolds, Count, NoUseAfterFree
<1>4. QED BY <1>2, <1>3 DEF IInv

LEMMA WaitForRoomIInv ==
  ASSUME IInv, WaitForListSizeDecrease PROVE IInv'
<1>1. /\ opc = "wait" /\ opc' = "count" /\ sizeEvent' = FALSE
      /\ UNCHANGED <<waitForever, queue, status, wpc, inHand, stopEvent, ppc, spc, pushed,
                     released, list, listLock, refCount, life, container, containerLock,
                     tpc, cur, cpc, cidx>>
  BY Basics DEF IInv, WaitForListSizeDecrease, removerVars, objectVars, ownerVars,
    clearVars
<1>2. (TypeOK /\ RemoverInv /\ SeqInv /\ LockInv /\ DestroyInv)'
  BY Basics, <1>1, ZenonT(30) DEF IInv, ObjectTypes, TypeOK, Remover!TypeOK, RemoverInv,
    Remover!PhaseInv, Remover!WorkerStopped, SeqInv, LockInv, DestroyInv
<1>3. (OwnerInv /\ StageInv /\ ContainerInv /\ ClearInv /\ RefCountExact /\ NoUseAfterFree)'
  BY Basics, <1>1 DEF IInv, ObjectTypes, OwnerInv, StageInv, ContainerInv, ClearInv,
    RefCountExact, OwnerHolds, ListHolds, RemoverHolds, Count, NoUseAfterFree
<1>4. QED BY <1>2, <1>3 DEF IInv

-----------------------------------------------------------------------------
(* ... by the threads of the objects: removeSelfFromContainer and, inside  *)
(* it, Remove.                                                             *)

LEMMA SelfLockContainerIInv ==
  ASSUME NEW o \in Objects, IInv, SelfLockContainer(o) PROVE IInv'
<1>1. /\ tpc[o] = "run" /\ ~containerLock[o]
      /\ containerLock' = [containerLock EXCEPT ![o] = TRUE]
      /\ tpc' = [tpc EXCEPT ![o] = "locked"]
      /\ UNCHANGED <<waitForever, queue, status, wpc, inHand, stopEvent, ppc, spc, pushed,
                     released, list, listLock, sizeEvent, refCount, life, container, opc,
                     cur, cpc, cidx>>
  BY Basics DEF IInv, SelfLockContainer, removerVars, objectVars, ownerVars, clearVars
<1>2. (TypeOK /\ RemoverInv /\ SeqInv /\ LockInv /\ DestroyInv)'
  BY Basics, <1>1 DEF IInv, ObjectTypes, TypeOK, Remover!TypeOK, RemoverInv,
    Remover!PhaseInv, Remover!WorkerStopped, SeqInv, LockInv, DestroyInv
<1>3. (OwnerInv /\ StageInv /\ ContainerInv /\ ClearInv /\ RefCountExact /\ NoUseAfterFree)'
  BY Basics, <1>1 DEF IInv, ObjectTypes, OwnerInv, StageInv, ContainerInv, ClearInv,
    RefCountExact, OwnerHolds, ListHolds, RemoverHolds, Count, NoUseAfterFree
<1>4. QED BY <1>2, <1>3 DEF IInv

LEMMA SelfEnterIInv ==
  ASSUME NEW o \in Objects, IInv, SelfEnterRemove(o), container[o] PROVE IInv'
<1>1. /\ tpc[o] = "locked" /\ container[o]
      /\ listLock = Free /\ listLock' = o
      /\ tpc' = [tpc EXCEPT ![o] = "search"]
      /\ UNCHANGED <<waitForever, queue, status, wpc, inHand, stopEvent, ppc, spc, pushed,
                     released, list, sizeEvent, refCount, life, container, containerLock,
                     opc, cur, cpc, cidx>>
  BY Basics DEF IInv, SelfEnterRemove, removerVars, objectVars, ownerVars, clearVars
<1>2. o # Free /\ o # Clearer /\ o \in Range(list) /\ o \notin Range(pushed)
  BY <1>1, ListAssumption DEF IInv, ContainerInv, StageInv, Free, Clearer
<1>3. (TypeOK /\ RemoverInv /\ SeqInv /\ LockInv /\ DestroyInv)'
  BY Basics, <1>1, <1>2 DEF IInv, ObjectTypes, TypeOK, Remover!TypeOK, RemoverInv,
    Remover!PhaseInv, Remover!WorkerStopped, SeqInv, LockInv, DestroyInv
<1>4. (OwnerInv /\ StageInv /\ ContainerInv /\ ClearInv /\ RefCountExact /\ NoUseAfterFree)'
  BY Basics, <1>1, <1>2 DEF IInv, ObjectTypes, OwnerInv, StageInv, ContainerInv, ClearInv,
    RefCountExact, OwnerHolds, ListHolds, RemoverHolds, Count, NoUseAfterFree
<1>5. QED BY <1>3, <1>4 DEF IInv

LEMMA SelfEnterNotIInv ==
  ASSUME NEW o \in Objects, IInv, SelfEnterRemove(o), ~container[o] PROVE IInv'
<1>1. /\ tpc[o] = "locked" /\ ~container[o]
      /\ tpc' = [tpc EXCEPT ![o] = "detach"]
      /\ UNCHANGED <<waitForever, queue, status, wpc, inHand, stopEvent, ppc, spc, pushed,
                     released, list, listLock, sizeEvent, refCount, life, container,
                     containerLock, opc, cur, cpc, cidx>>
  BY Basics DEF IInv, SelfEnterRemove, removerVars, objectVars, ownerVars, clearVars
<1>2. TypeOK'
  BY Basics, <1>1 DEF IInv, ObjectTypes, TypeOK, Remover!TypeOK
<1>3. (RemoverInv /\ SeqInv /\ LockInv /\ DestroyInv)'
  BY Basics, <1>1 DEF IInv, ObjectTypes, RemoverInv, Remover!PhaseInv,
    Remover!WorkerStopped, SeqInv, LockInv, DestroyInv
<1>4. (OwnerInv /\ StageInv /\ ContainerInv /\ ClearInv)'
  BY Basics, <1>1 DEF IInv, ObjectTypes, OwnerInv, StageInv, ContainerInv, ClearInv
<1>5. (RefCountExact /\ NoUseAfterFree)'
  BY Basics, <1>1 DEF IInv, ObjectTypes, RefCountExact, OwnerHolds, ListHolds,
    RemoverHolds, Count, NoUseAfterFree
<1>6. QED BY <1>2, <1>3, <1>4, <1>5 DEF IInv

LEMMA SelfRemoveIInv ==
  ASSUME NEW o \in Objects, IInv, SelfRemove(o) PROVE IInv'
<1>1. /\ tpc[o] = "search" /\ o \in Range(list)
      /\ queue' = Append(queue, o) /\ pushed' = Append(pushed, o) /\ ppc' = "check"
      /\ tpc' = [tpc EXCEPT ![o] = "check"]
      /\ UNCHANGED <<waitForever, status, wpc, inHand, stopEvent, spc, released, list,
                     listLock, sizeEvent, refCount, life, container, containerLock, opc,
                     cur, cpc, cidx>>
  BY Basics DEF IInv, SelfRemove, Remover!Push, removerVars, objectVars, ownerVars,
    clearVars
<1>2. /\ CanPush(o) /\ listLock = o
      /\ queue' \in Seq(Objects) /\ pushed' \in Seq(Objects) /\ IsInjective(queue')
      /\ Range(queue') = Range(queue) \cup {o} /\ Range(pushed') = Range(pushed) \cup {o}
  <2>1. CanPush(o) /\ listLock = o
    BY <1>1, SearchFinds
  <2>2. QED
    BY <1>1, <2>1, RangeOfAppend DEF IInv, TypeOK, Remover!TypeOK, SeqInv, CanPush
<1>3. (TypeOK /\ RemoverInv /\ SeqInv /\ LockInv /\ DestroyInv)'
  BY Basics, <1>1, <1>2 DEF IInv, ObjectTypes, TypeOK, Remover!TypeOK, RemoverInv,
    Remover!PhaseInv, Remover!WorkerStopped, SeqInv, LockInv, DestroyInv, CanPush
<1>4. (OwnerInv /\ StageInv /\ ContainerInv /\ ClearInv /\ RefCountExact /\ NoUseAfterFree)'
  BY Basics, <1>1, <1>2 DEF IInv, ObjectTypes, OwnerInv, StageInv, LockInv, CanPush,
    ContainerInv, ClearInv, RefCountExact, OwnerHolds, ListHolds, RemoverHolds, Count,
    NoUseAfterFree
<1>5. QED BY <1>3, <1>4 DEF IInv

LEMMA SelfRemoveCheckIInv ==
  ASSUME NEW o \in Objects, IInv, SelfRemoveCheck(o) PROVE IInv'
<1>1. /\ tpc[o] = "check" /\ ppc = "check" /\ ppc' = "idle"
      /\ status' = IF status = "SUSPENDED" THEN "STARTED" ELSE status
      /\ tpc' = [tpc EXCEPT ![o] = "erase"]
      /\ UNCHANGED <<waitForever, queue, wpc, inHand, stopEvent, spc, pushed, released,
                     list, listLock, sizeEvent, refCount, life, container, containerLock,
                     opc, cur, cpc, cidx>>
  BY Basics DEF IInv, SelfRemoveCheck, Remover!PushCheck, Remover!ResumeIfSuspended,
    removerVars, objectVars, ownerVars, clearVars
<1>2. /\ listLock = o /\ cpc # "check"
      /\ \A x \in Objects \ {o} : tpc[x] \notin {"search", "check", "erase"}
  BY Basics, <1>1 DEF IInv, LockInv
<1>3. (TypeOK /\ RemoverInv /\ SeqInv /\ LockInv /\ DestroyInv)'
  BY Basics, <1>1, <1>2 DEF IInv, ObjectTypes, TypeOK, Remover!TypeOK, RemoverInv,
    Remover!PhaseInv, Remover!WorkerStopped, SeqInv, LockInv, DestroyInv
<1>4. (OwnerInv /\ StageInv /\ ContainerInv /\ ClearInv /\ RefCountExact /\ NoUseAfterFree)'
  BY Basics, <1>1, <1>2 DEF IInv, ObjectTypes, OwnerInv, StageInv, ContainerInv, ClearInv,
    RefCountExact, OwnerHolds, ListHolds, RemoverHolds, Count, NoUseAfterFree
<1>5. QED BY <1>3, <1>4 DEF IInv

LEMMA SelfEraseIInv ==
  ASSUME NEW o \in Objects, IInv, SelfErase(o) PROVE IInv'
<1>1. /\ tpc[o] = "erase" /\ list' = Erase(list, o) /\ sizeEvent' = TRUE
      /\ listLock' = Free
      /\ tpc' = [tpc EXCEPT ![o] = "detach"]
      /\ UNCHANGED <<waitForever, queue, status, wpc, inHand, stopEvent, ppc, spc, pushed,
                     released, refCount, life, container, containerLock, opc, cur, cpc,
                     cidx>>
  BY Basics DEF IInv, SelfErase, removerVars, objectVars, ownerVars, clearVars
<1>2. /\ list' \in Seq(Objects) /\ Range(list') = Range(list) \ {o} /\ IsInjective(list')
      /\ o \in Range(list) /\ o \in Range(pushed) /\ listLock = o /\ o # Free /\ o # Clearer
      /\ list # <<>>
      /\ \A x \in Objects \ {o} : tpc[x] \notin {"search", "check", "erase"}
      /\ \A x \in Objects \ {o} : life[x] = "dead" => x \notin Range(list)
  <2>1. o \in Range(list) /\ o \in Range(pushed) /\ listLock = o
    BY <1>1 DEF IInv, StageInv, LockInv
  <2>2. list' \in Seq(Objects) /\ Range(list') = Range(list) \ {o} /\ IsInjective(list')
    BY <1>1, <2>1, RangeOfErase DEF IInv, TypeOK, SeqInv
  <2>3. list # <<>>
    BY <2>1 DEF Range
  <2>4. \A x \in Objects \ {o} : tpc[x] \notin {"search", "check", "erase"}
    BY <2>1 DEF IInv, LockInv
  <2>5. \A x \in Objects : x \in Range(list) /\ x \notin Range(pushed) => life[x] = "alive"
    BY Basics DEF IInv, RefCountExact, ListHolds, Count, ObjectTypes
  <2>6. \A x \in Objects \ {o} : life[x] = "dead" => x \notin Range(list)
    BY Basics, <2>1, <2>4, <2>5 DEF IInv, StageInv
  <2>7. QED BY Basics, <2>1, <2>2, <2>3, <2>4, <2>6
<1>3. (TypeOK /\ RemoverInv /\ SeqInv /\ LockInv /\ DestroyInv)'
  BY Basics, <1>1, <1>2 DEF IInv, ObjectTypes, TypeOK, Remover!TypeOK, RemoverInv,
    Remover!PhaseInv, Remover!WorkerStopped, SeqInv, LockInv, DestroyInv
<1>4. (OwnerInv /\ StageInv /\ ContainerInv /\ ClearInv /\ RefCountExact)'
  BY Basics, <1>1, <1>2 DEF IInv, ObjectTypes, OwnerInv, StageInv, ContainerInv, ClearInv,
    RefCountExact, OwnerHolds, ListHolds, RemoverHolds, Count
<1>5. NoUseAfterFree'
  <2>1. life[o] # "dead"
    BY <1>1 DEF IInv, NoUseAfterFree
  <2>2. \A x \in Objects \ {o} : tpc'[x] = tpc[x]
    BY Basics, <1>1 DEF ObjectTypes
  <2>3. QED BY <1>1, <1>2, <2>1, <2>2 DEF IInv, NoUseAfterFree, OwnerHolds
<1>6. QED BY <1>3, <1>4, <1>5 DEF IInv

LEMMA SelfDetachIInv ==
  ASSUME NEW o \in Objects, IInv, SelfDetach(o) PROVE IInv'
<1>1. /\ tpc[o] = "detach"
      /\ container' = [container EXCEPT ![o] = FALSE]
      /\ containerLock' = [containerLock EXCEPT ![o] = FALSE]
      /\ tpc' = [tpc EXCEPT ![o] = "ended"]
      /\ UNCHANGED <<waitForever, queue, status, wpc, inHand, stopEvent, ppc, spc, pushed,
                     released, list, listLock, sizeEvent, refCount, life, opc, cur, cpc,
                     cidx>>
  BY Basics DEF IInv, SelfDetach, removerVars, objectVars, ownerVars, clearVars
<1>2. ~container[o] \/ o \notin Range(list)
  BY <1>1 DEF IInv, ContainerInv
<1>3. TypeOK'
  BY Basics, <1>1, <1>2 DEF IInv, ObjectTypes, TypeOK, Remover!TypeOK
<1>4. (RemoverInv /\ SeqInv /\ LockInv /\ DestroyInv)'
  BY Basics, <1>1, <1>2 DEF IInv, ObjectTypes, RemoverInv, Remover!PhaseInv,
    Remover!WorkerStopped, SeqInv, LockInv, DestroyInv
<1>5. (OwnerInv /\ StageInv /\ ContainerInv /\ ClearInv)'
  BY Basics, <1>1, <1>2 DEF IInv, ObjectTypes, OwnerInv, StageInv, ContainerInv, ClearInv,
    TypeOK, Range
<1>6. (RefCountExact /\ NoUseAfterFree)'
  BY Basics, <1>1, <1>2 DEF IInv, ObjectTypes, RefCountExact, OwnerHolds, ListHolds,
    RemoverHolds, Count, NoUseAfterFree
<1>7. QED BY <1>3, <1>4, <1>5, <1>6 DEF IInv

-----------------------------------------------------------------------------
(* ... by Clear, which the owner or the destructor of the list calls.      *)

LEMMA ClearBeginIInv ==
  ASSUME IInv, ClearBegin PROVE IInv'
<1>1. /\ cpc = "idle" /\ cpc' = "loop" /\ cidx' = 1
      /\ listLock = Free /\ listLock' = Clearer
      /\ UNCHANGED <<waitForever, queue, status, wpc, inHand, stopEvent, ppc, spc, pushed,
                     released, list, sizeEvent, refCount, life, container, containerLock,
                     tpc, opc, cur>>
  BY Basics DEF IInv, ClearBegin, removerVars, objectVars, ownerVars, clearVars
<1>2. /\ Free # Clearer /\ Clearer \notin Objects /\ Free \notin Objects
      /\ \A o \in Objects : tpc[o] \notin {"search", "check", "erase"}
  BY <1>1, ListAssumption DEF IInv, Free, Clearer, LockInv
<1>3. (TypeOK /\ RemoverInv /\ SeqInv /\ LockInv /\ DestroyInv)'
  BY Basics, <1>1, <1>2 DEF IInv, ObjectTypes, TypeOK, Remover!TypeOK, RemoverInv,
    Remover!PhaseInv, Remover!WorkerStopped, SeqInv, LockInv, DestroyInv
<1>4. (OwnerInv /\ StageInv /\ ContainerInv /\ RefCountExact /\ NoUseAfterFree)'
  BY Basics, <1>1, <1>2 DEF IInv, ObjectTypes, OwnerInv, StageInv, ContainerInv,
    RefCountExact, OwnerHolds, ListHolds, RemoverHolds, Count, NoUseAfterFree
<1>5. ClearInv'
  <2>1. DOMAIN list = 1..Len(list) /\ Len(list) \in Nat
    BY DEF IInv, TypeOK
  <2>2. \A i \in DOMAIN list : list[i] \in Objects /\ list[i] \in Range(list)
    BY DEF IInv, TypeOK, Range
  <2>3. \A i \in DOMAIN list : list[i] \notin Range(pushed) /\ container[list[i]]
    BY <1>1, <1>2, <2>2 DEF IInv, StageInv, ContainerInv
  <2>4. QED BY <1>1, <2>1, <2>3 DEF ClearInv
<1>6. QED BY <1>3, <1>4, <1>5 DEF IInv

LEMMA ClearDetachIInv ==
  ASSUME NEW s \in Objects, s = list[cidx], IInv, ClearDetach PROVE IInv'
<1>1. /\ cpc = "loop" /\ cpc' = "push" /\ cidx <= Len(list)
      /\ ~containerLock[s] /\ container' = [container EXCEPT ![s] = FALSE]
      /\ UNCHANGED <<waitForever, queue, status, wpc, inHand, stopEvent, ppc, spc, pushed,
                     released, list, listLock, sizeEvent, refCount, life, containerLock,
                     tpc, opc, cur, cidx>>
  BY Basics DEF IInv, ClearDetach, removerVars, objectVars, ownerVars, clearVars
<1>2. /\ listLock = Clearer /\ cidx \in DOMAIN list /\ DOMAIN list = 1..Len(list) /\ Len(list) \in Nat
      /\ s \in Range(list) /\ list # <<>>
      /\ \A i \in DOMAIN list : list[i] \in Objects /\ (list[i] = s <=> i = cidx)
  <2>1. listLock = Clearer /\ DOMAIN list = 1..Len(list) /\ Len(list) \in Nat
    BY <1>1 DEF IInv, LockInv, TypeOK
  <2>2. cidx \in DOMAIN list
    BY <1>1, <2>1 DEF IInv, ClearInv
  <2>3. QED BY <2>1, <2>2 DEF IInv, TypeOK, Range, SeqInv, IsInjective
<1>3. (TypeOK /\ RemoverInv /\ SeqInv /\ LockInv /\ DestroyInv)'
  BY Basics, <1>1, <1>2 DEF IInv, ObjectTypes, TypeOK, Remover!TypeOK, RemoverInv,
    Remover!PhaseInv, Remover!WorkerStopped, SeqInv, LockInv, DestroyInv
<1>4. (OwnerInv /\ StageInv /\ ContainerInv /\ RefCountExact /\ NoUseAfterFree)'
  BY Basics, <1>1, <1>2 DEF IInv, ObjectTypes, OwnerInv, StageInv, ContainerInv,
    RefCountExact, OwnerHolds, ListHolds, RemoverHolds, Count, NoUseAfterFree
<1>5. ClearInv'
  <2>1. \A i \in DOMAIN list : container'[list[i]] <=> container[list[i]] /\ i # cidx
    BY Basics, <1>1, <1>2 DEF ObjectTypes
  <2>2. QED BY <1>1, <1>2, <2>1 DEF IInv, ClearInv
<1>6. QED BY <1>3, <1>4, <1>5 DEF IInv

LEMMA ClearPushIInv ==
  ASSUME NEW s \in Objects, s = list[cidx], IInv, ClearPush PROVE IInv'
<1>1. /\ cpc = "push" /\ cpc' = "check"
      /\ queue' = Append(queue, s) /\ pushed' = Append(pushed, s) /\ ppc' = "check"
      /\ UNCHANGED <<waitForever, status, wpc, inHand, stopEvent, spc, released, list,
                     listLock, sizeEvent, refCount, life, container, containerLock, tpc,
                     opc, cur, cidx>>
  BY Basics DEF IInv, ClearPush, Remover!Push, removerVars, objectVars, ownerVars,
    clearVars
<1>position. /\ listLock = Clearer /\ cidx \in DOMAIN list /\ DOMAIN list = 1..Len(list) /\ Len(list) \in Nat
      /\ s \in Range(list) /\ list # <<>>
      /\ \A i \in DOMAIN list : list[i] \in Objects /\ (list[i] = s <=> i = cidx)
  <2>1. listLock = Clearer /\ DOMAIN list = 1..Len(list) /\ Len(list) \in Nat
    BY <1>1 DEF IInv, LockInv, TypeOK
  <2>2. cidx \in DOMAIN list
    BY <1>1, <2>1 DEF IInv, ClearInv
  <2>3. QED BY <2>1, <2>2 DEF IInv, TypeOK, Range, SeqInv, IsInjective
<1>2. /\ CanPush(s) /\ listLock = Clearer
      /\ queue' \in Seq(Objects) /\ pushed' \in Seq(Objects) /\ IsInjective(queue')
      /\ Range(queue') = Range(queue) \cup {s} /\ Range(pushed') = Range(pushed) \cup {s}
  <2>1. CanPush(s) /\ listLock = Clearer
    BY <1>1, ClearFinds
  <2>2. QED
    BY <1>1, <2>1, RangeOfAppend DEF IInv, TypeOK, Remover!TypeOK, SeqInv, CanPush
<1>3. (TypeOK /\ RemoverInv /\ SeqInv /\ LockInv /\ DestroyInv)'
  BY Basics, <1>1, <1>2 DEF IInv, ObjectTypes, TypeOK, Remover!TypeOK, RemoverInv,
    Remover!PhaseInv, Remover!WorkerStopped, SeqInv, LockInv, CanPush, DestroyInv
<1>4. (OwnerInv /\ ContainerInv /\ RefCountExact /\ NoUseAfterFree)'
  BY Basics, <1>1, <1>2 DEF IInv, ObjectTypes, OwnerInv, ContainerInv, RefCountExact,
    OwnerHolds, ListHolds, RemoverHolds, Count, CanPush, NoUseAfterFree
<1>5. StageInv'
  BY Basics, <1>1, <1>2 DEF IInv, StageInv, LockInv, CanPush
<1>6. ClearInv'
  <2>1. \A i \in DOMAIN list : list[i] \in Range(pushed') <=> list[i] \in Range(pushed) \/ i = cidx
    BY <1>2, <1>position
  <2>2. QED BY <1>1, <1>position, <2>1 DEF IInv, ClearInv
<1>7. QED BY <1>3, <1>4, <1>5, <1>6 DEF IInv

LEMMA ClearCheckIInv ==
  ASSUME IInv, ClearCheck PROVE IInv'
<1>1. /\ cpc = "check" /\ cpc' = "loop" /\ cidx' = cidx + 1 /\ ppc = "check" /\ ppc' = "idle"
      /\ status' = IF status = "SUSPENDED" THEN "STARTED" ELSE status
      /\ UNCHANGED <<waitForever, queue, wpc, inHand, stopEvent, spc, pushed, released,
                     list, listLock, sizeEvent, refCount, life, container, containerLock,
                     tpc, opc, cur>>
  BY Basics DEF IInv, ClearCheck, Remover!PushCheck, Remover!ResumeIfSuspended,
    removerVars, objectVars, ownerVars, clearVars
<1>2. /\ listLock = Clearer /\ DOMAIN list = 1..Len(list) /\ Len(list) \in Nat /\ Clearer \notin Objects
  BY <1>1, ListAssumption DEF IInv, LockInv, TypeOK
<1>3. (TypeOK /\ RemoverInv /\ SeqInv /\ LockInv /\ DestroyInv)'
  BY Basics, <1>1, <1>2 DEF IInv, ObjectTypes, TypeOK, Remover!TypeOK, RemoverInv,
    Remover!PhaseInv, Remover!WorkerStopped, SeqInv, LockInv, DestroyInv
<1>4. (OwnerInv /\ StageInv /\ ContainerInv /\ ClearInv /\ RefCountExact /\ NoUseAfterFree)'
  BY Basics, <1>1, <1>2 DEF IInv, ObjectTypes, OwnerInv, StageInv, ContainerInv, ClearInv,
    RefCountExact, OwnerHolds, ListHolds, RemoverHolds, Count, NoUseAfterFree
<1>5. QED BY <1>3, <1>4 DEF IInv

LEMMA ClearEndIInv ==
  ASSUME IInv, ClearEnd PROVE IInv'
<1>1. /\ cpc = "loop" /\ cpc' = "idle" /\ cidx > Len(list) /\ cidx' = 1
      /\ list' = <<>> /\ sizeEvent' = TRUE /\ listLock' = Free
      /\ UNCHANGED <<waitForever, queue, status, wpc, inHand, stopEvent, ppc, spc, pushed,
                     released, refCount, life, container, containerLock, tpc, opc, cur>>
  BY Basics DEF IInv, ClearEnd, removerVars, objectVars, ownerVars, clearVars
<1>2. /\ listLock = Clearer /\ Free # Clearer /\ Clearer \notin Objects /\ Free \notin Objects
      /\ list' \in Seq(Objects) /\ Range(list') = {} /\ IsInjective(list')
      /\ \A o \in Objects : tpc[o] \notin {"search", "check", "erase"}
      /\ \A o \in Range(list) : o \in Range(pushed) /\ ~container[o]
  <2>1. listLock = Clearer /\ Free # Clearer /\ Clearer \notin Objects /\ Free \notin Objects
    BY <1>1, ListAssumption DEF IInv, LockInv, Free, Clearer
  <2>2. list' \in Seq(Objects) /\ Range(list') = {} /\ IsInjective(list')
    BY <1>1 DEF Range, IsInjective
  <2>3. \A o \in Objects : tpc[o] \notin {"search", "check", "erase"}
    BY <2>1 DEF IInv, LockInv
  <2>4. \A i \in DOMAIN list : list[i] \in Range(pushed) /\ ~container[list[i]]
    <3>1. DOMAIN list = 1..Len(list) /\ Len(list) \in Nat /\ cidx \in Nat
      BY DEF IInv, TypeOK
    <3>2. \A i \in DOMAIN list : i < cidx
      BY <1>1, <3>1
    <3>3. QED BY <2>1, <3>1, <3>2 DEF IInv, ClearInv
  <2>5. QED BY <2>1, <2>2, <2>3, <2>4 DEF Range
<1>3. (TypeOK /\ RemoverInv /\ SeqInv /\ LockInv /\ DestroyInv)'
  BY Basics, <1>1, <1>2 DEF IInv, ObjectTypes, TypeOK, Remover!TypeOK, RemoverInv,
    Remover!PhaseInv, Remover!WorkerStopped, SeqInv, LockInv, DestroyInv
<1>4. (OwnerInv /\ StageInv /\ ContainerInv /\ ClearInv /\ RefCountExact /\ NoUseAfterFree)'
  BY Basics, <1>1, <1>2 DEF IInv, ObjectTypes, OwnerInv, StageInv, ContainerInv, ClearInv,
    RefCountExact, OwnerHolds, ListHolds, RemoverHolds, Count, NoUseAfterFree
<1>5. QED BY <1>3, <1>4 DEF IInv

-----------------------------------------------------------------------------
(* ... by the destructor of the list, which ends with that of the remover. *)

LEMMA DestroyBeginIInv ==
  ASSUME IInv, DestroyBegin PROVE IInv'
<1>1. /\ cpc = "idle" /\ cpc' = "destroying" /\ opc = "idle" /\ list = <<>>
      /\ UNCHANGED <<waitForever, queue, status, wpc, inHand, stopEvent, ppc, spc, pushed,
                     released, list, listLock, sizeEvent, refCount, life, container,
                     containerLock, tpc, opc, cur, cidx>>
  BY Basics DEF IInv, DestroyBegin, removerVars, objectVars, ownerVars, clearVars
<1>2. (TypeOK /\ RemoverInv /\ SeqInv /\ LockInv /\ DestroyInv)'
  BY Basics, <1>1 DEF IInv, ObjectTypes, TypeOK, Remover!TypeOK, RemoverInv,
    Remover!PhaseInv, Remover!WorkerStopped, SeqInv, LockInv, DestroyInv
<1>3. (OwnerInv /\ StageInv /\ ContainerInv /\ ClearInv /\ RefCountExact /\ NoUseAfterFree)'
  BY Basics, <1>1 DEF IInv, ObjectTypes, OwnerInv, StageInv, ContainerInv, ClearInv,
    RefCountExact, OwnerHolds, ListHolds, RemoverHolds, Count, NoUseAfterFree
<1>4. QED BY <1>2, <1>3 DEF IInv

LEMMA StopSignalIInv ==
  ASSUME IInv, StopSignal PROVE IInv'
<1>1. /\ cpc = "destroying" /\ spc = "idle"
      /\ \/ status = "TERMINATED" /\ spc' = "drain" /\ stopEvent' = stopEvent
         \/ status # "TERMINATED" /\ spc' = "signalled" /\ stopEvent' = TRUE
      /\ UNCHANGED <<waitForever, queue, status, wpc, inHand, ppc, pushed, released, list,
                     listLock, sizeEvent, refCount, life, container, containerLock, tpc,
                     opc, cur, cpc, cidx>>
  BY Basics DEF IInv, StopSignal, Remover!StopSignal, removerVars, objectVars, ownerVars,
    clearVars
<1>2. (RemoverInv /\ SeqInv /\ LockInv /\ DestroyInv)'
  BY Basics, <1>1 DEF IInv, ObjectTypes, RemoverInv, Remover!PhaseInv,
    Remover!WorkerStopped, SeqInv, LockInv, DestroyInv
<1>3. TypeOK'
  <2>1. spc' \in Remover!StopPC /\ stopEvent' \in BOOLEAN
    BY <1>1, Zenon DEF IInv, TypeOK, Remover!TypeOK, Remover!StopPC
  <2>2. QED BY <1>1, <2>1 DEF IInv, TypeOK, Remover!TypeOK
<1>4. (OwnerInv /\ StageInv /\ ContainerInv /\ ClearInv /\ RefCountExact /\ NoUseAfterFree)'
  BY Basics, <1>1 DEF IInv, ObjectTypes, OwnerInv, StageInv, ContainerInv, ClearInv,
    RefCountExact, OwnerHolds, ListHolds, RemoverHolds, Count, NoUseAfterFree
<1>5. QED BY <1>2, <1>3, <1>4 DEF IInv

LEMMA StopResumeIInv ==
  ASSUME IInv, StopStep, Remover!StopResume PROVE IInv'
<1>1. /\ spc = "signalled" /\ spc' = "join"
      /\ status' = IF status = "SUSPENDED" THEN "STARTED" ELSE status
      /\ UNCHANGED <<waitForever, queue, wpc, inHand, stopEvent, ppc, pushed, released,
                     list, listLock, sizeEvent, refCount, life, container, containerLock,
                     tpc, opc, cur, cpc, cidx>>
  BY Basics DEF IInv, StopStep, Remover!StopResume, Remover!ResumeIfSuspended,
    removerVars, objectVars, ownerVars, clearVars
<1>2. (TypeOK /\ RemoverInv /\ SeqInv /\ LockInv /\ DestroyInv)'
  BY Basics, <1>1 DEF IInv, ObjectTypes, TypeOK, Remover!TypeOK, Remover!StopPC,
    RemoverInv, Remover!PhaseInv, Remover!WorkerStopped, SeqInv, LockInv, DestroyInv
<1>3. (OwnerInv /\ StageInv /\ ContainerInv /\ ClearInv /\ RefCountExact /\ NoUseAfterFree)'
  BY Basics, <1>1 DEF IInv, ObjectTypes, OwnerInv, StageInv, ContainerInv, ClearInv,
    RefCountExact, OwnerHolds, ListHolds, RemoverHolds, Count, NoUseAfterFree
<1>4. QED BY <1>2, <1>3 DEF IInv

LEMMA StopJoinIInv ==
  ASSUME IInv, StopStep, Remover!StopJoin PROVE IInv'
<1>1. /\ spc = "join" /\ spc' = "drain" /\ wpc = "ended"
      /\ UNCHANGED <<waitForever, queue, status, wpc, inHand, stopEvent, ppc, pushed,
                     released, list, listLock, sizeEvent, refCount, life, container,
                     containerLock, tpc, opc, cur, cpc, cidx>>
  BY Basics DEF IInv, StopStep, Remover!StopJoin, RemoverInv, removerVars, objectVars,
    ownerVars, clearVars
<1>2. (TypeOK /\ RemoverInv /\ SeqInv /\ LockInv /\ DestroyInv)'
  BY Basics, <1>1 DEF IInv, ObjectTypes, TypeOK, Remover!TypeOK, Remover!StopPC,
    RemoverInv, Remover!PhaseInv, Remover!WorkerStopped, SeqInv, LockInv, DestroyInv
<1>3. (OwnerInv /\ StageInv /\ ContainerInv /\ ClearInv /\ RefCountExact /\ NoUseAfterFree)'
  BY Basics, <1>1 DEF IInv, ObjectTypes, OwnerInv, StageInv, ContainerInv, ClearInv,
    RefCountExact, OwnerHolds, ListHolds, RemoverHolds, Count, NoUseAfterFree
<1>4. QED BY <1>2, <1>3 DEF IInv

-----------------------------------------------------------------------------
(* ... and by ReleaseObj on the remover's worker and in its destructor:    *)
(* another reference remains, it was the last one, the object is deleted.  *)

LEMMA WorkerReleaseSharedIInv ==
  ASSUME NEW o \in Objects, o = inHand, IInv, WorkerReleaseObj, refCount[o] > 1 PROVE IInv'
<1>1. /\ wpc = "release" /\ wpc' = "drain"
      /\ released' = Append(released, o) /\ inHand' = NoObj
      /\ refCount' = [refCount EXCEPT ![o] = @ - 1]
      /\ UNCHANGED <<waitForever, queue, status, stopEvent, ppc, spc, pushed, list,
                     listLock, sizeEvent, life, container, containerLock, tpc, opc, cur,
                     cpc, cidx>>
  BY Basics DEF IInv, WorkerReleaseObj, Remover!WorkerRelease, ReleaseBy, ReleaseRef,
    Destroyable, RefCountExact, ObjectTypes, removerVars, objectVars, ownerVars, clearVars
<1>2. /\ released' \in Seq(Objects)
      /\ o \notin Range(queue) /\ NoObj \notin Objects /\ NoObj \notin Range(queue)
      /\ refCount[o] = 2 /\ life[o] = "alive"
  <2>1. released' \in Seq(Objects)
    BY <1>1, RangeOfAppend DEF IInv, TypeOK, Remover!TypeOK
  <2>2. o \notin Range(queue) /\ NoObj \notin Objects /\ NoObj \notin Range(queue)
    BY ListAssumption DEF IInv, SeqInv, TypeOK, Remover!TypeOK, Range
  <2>4. refCount[o] = 2 /\ life[o] = "alive"
    BY Basics, <1>1 DEF IInv, RefCountExact, ObjectTypes
  <2>5. QED BY <2>1, <2>2, <2>4, ListAssumption
<1>3. (TypeOK /\ RemoverInv /\ SeqInv /\ LockInv /\ DestroyInv)'
  BY Basics, <1>1, <1>2 DEF IInv, ObjectTypes, TypeOK, Remover!TypeOK, Remover!WorkerPC,
    RemoverInv, Remover!PhaseInv, Remover!WorkerStopped, SeqInv, LockInv, DestroyInv
<1>4. (OwnerInv /\ StageInv /\ ContainerInv /\ ClearInv /\ RefCountExact /\ NoUseAfterFree)'
  BY Basics, <1>1, <1>2 DEF IInv, ObjectTypes, OwnerInv, StageInv, ContainerInv, ClearInv,
    RefCountExact, OwnerHolds, ListHolds, RemoverHolds, Count, NoUseAfterFree
<1>5. QED BY <1>3, <1>4 DEF IInv

LEMMA WorkerReleaseLastIInv ==
  ASSUME NEW o \in Objects, o = inHand, IInv, WorkerReleaseObj, refCount[o] = 1 PROVE IInv'
<1>held. o \in Range(pushed) /\ (o \in Range(queue) \/ inHand = o)
  BY ListAssumption, RangeOfTail DEF IInv, SeqInv, WorkerReleaseObj, StopReleaseObj,
    TypeOK, Remover!TypeOK
<1>1. /\ wpc = "release"
      /\ refCount' = [refCount EXCEPT ![o] = @ - 1]
      /\ life' = [life EXCEPT ![o] = "dying"]
      /\ UNCHANGED <<waitForever, queue, status, wpc, inHand, stopEvent, ppc, spc, pushed,
                     released, list, listLock, sizeEvent, container, containerLock, tpc,
                     opc, cur, cpc, cidx>>
  BY Basics DEF IInv, WorkerReleaseObj, ReleaseBy, ReleaseRef, Destroyable, RefCountExact,
    removerVars, objectVars, ownerVars, clearVars
<1>2. life[o] = "alive" /\ ~OwnerHolds(o) /\ ~ListHolds(o)
  BY Basics, <1>1, <1>held DEF IInv, RefCountExact, ObjectTypes, OwnerHolds, ListHolds,
    RemoverHolds, Count
<1>3. (TypeOK /\ RemoverInv /\ SeqInv /\ LockInv /\ DestroyInv)'
  BY Basics, <1>1, <1>2 DEF IInv, ObjectTypes, TypeOK, Remover!TypeOK, RemoverInv,
    Remover!PhaseInv, Remover!WorkerStopped, SeqInv, LockInv, DestroyInv
<1>4. (OwnerInv /\ StageInv /\ ContainerInv /\ ClearInv /\ RefCountExact /\ NoUseAfterFree)'
  BY Basics, <1>1, <1>2 DEF IInv, ObjectTypes, OwnerInv, StageInv, ContainerInv, ClearInv,
    RefCountExact, OwnerHolds, ListHolds, RemoverHolds, Count, NoUseAfterFree
<1>5. QED BY <1>3, <1>4 DEF IInv

LEMMA WorkerDeleteIInv ==
  ASSUME NEW o \in Objects, o = inHand, IInv, WorkerReleaseObj, refCount[o] = 0 PROVE IInv'
<1>1. /\ wpc = "release" /\ wpc' = "drain"
      /\ released' = Append(released, o) /\ inHand' = NoObj
      /\ life' = [life EXCEPT ![o] = "dead"]
      /\ life[o] = "dying" /\ tpc[o] = "ended" /\ ~containerLock[o]
      /\ UNCHANGED <<waitForever, queue, status, stopEvent, ppc, spc, pushed, list,
                     listLock, sizeEvent, refCount, container, containerLock, tpc, opc,
                     cur, cpc, cidx>>
  BY Basics DEF IInv, WorkerReleaseObj, Remover!WorkerRelease, ReleaseBy, ReleaseRef,
    Destroyable, removerVars, objectVars, ownerVars, clearVars
<1>2. /\ released' \in Seq(Objects)
      /\ o \notin Range(queue) /\ NoObj \notin Objects /\ NoObj \notin Range(queue)
      /\ ~OwnerHolds(o) /\ o \in Range(pushed) /\ (o \in Range(list) => listLock = Clearer)
  <2>1. released' \in Seq(Objects)
    BY <1>1, RangeOfAppend DEF IInv, TypeOK, Remover!TypeOK
  <2>2. o \notin Range(queue) /\ NoObj \notin Objects /\ NoObj \notin Range(queue)
    BY ListAssumption DEF IInv, SeqInv, TypeOK, Remover!TypeOK, Range
  <2>4. ~OwnerHolds(o) /\ o \in Range(pushed)
    BY Basics, <2>2, ListAssumption DEF IInv, RefCountExact, SeqInv, OwnerHolds,
      ListHolds, RemoverHolds, Count
  <2>listed. o \in Range(list) => listLock = Clearer
    BY <1>1, <2>4 DEF IInv, StageInv
  <2>5. QED BY <2>1, <2>2, <2>4, <2>listed, ListAssumption
<1>3. (TypeOK /\ RemoverInv /\ SeqInv /\ LockInv /\ DestroyInv)'
  BY Basics, <1>1, <1>2 DEF IInv, ObjectTypes, TypeOK, Remover!TypeOK, Remover!WorkerPC,
    RemoverInv, Remover!PhaseInv, Remover!WorkerStopped, SeqInv, LockInv, DestroyInv
<1>4. (OwnerInv /\ StageInv /\ ContainerInv /\ ClearInv /\ RefCountExact /\ NoUseAfterFree)'
  BY Basics, <1>1, <1>2 DEF IInv, ObjectTypes, OwnerInv, NoUseAfterFree, StageInv,
    ContainerInv, ClearInv, RefCountExact, OwnerHolds, ListHolds, RemoverHolds, Count
<1>5. QED BY <1>3, <1>4 DEF IInv

LEMMA StopReleaseSharedIInv ==
  ASSUME NEW o \in Objects, o = Head(queue), IInv, StopReleaseObj, refCount[o] > 1 PROVE IInv'
<1>1. /\ spc = "drain" /\ queue # <<>>
      /\ released' = Append(released, o) /\ queue' = Tail(queue)
      /\ refCount' = [refCount EXCEPT ![o] = @ - 1]
      /\ UNCHANGED <<waitForever, status, wpc, inHand, stopEvent, ppc, spc, pushed, list,
                     listLock, sizeEvent, life, container, containerLock, tpc, opc, cur,
                     cpc, cidx>>
  BY Basics DEF IInv, StopReleaseObj, Remover!StopDrain, ReleaseBy, ReleaseRef,
    Destroyable, RefCountExact, ObjectTypes, removerVars, objectVars, ownerVars, clearVars
<1>2. /\ released' \in Seq(Objects)
      /\ Range(queue') = Range(queue) \ {o} /\ IsInjective(queue') /\ queue' \in Seq(Objects)
      /\ o \in Range(queue) /\ inHand = NoObj /\ NoObj \notin Objects
      /\ refCount[o] = 2 /\ life[o] = "alive"
  <2>1. released' \in Seq(Objects)
    BY <1>1, RangeOfAppend DEF IInv, TypeOK, Remover!TypeOK
  <2>2. Range(queue') = Range(queue) \ {o} /\ IsInjective(queue') /\ queue' \in Seq(Objects) /\ o \in Range(queue)
    BY <1>1, RangeOfTail DEF IInv, TypeOK, Remover!TypeOK, SeqInv
  <2>3. inHand = NoObj
    BY <1>1 DEF IInv, RemoverInv, Remover!PhaseInv, Remover!WorkerStopped
  <2>4. refCount[o] = 2 /\ life[o] = "alive"
    BY Basics, <1>1 DEF IInv, RefCountExact, ObjectTypes
  <2>5. QED BY <2>1, <2>2, <2>3, <2>4, ListAssumption
<1>3. (TypeOK /\ RemoverInv /\ SeqInv /\ LockInv /\ DestroyInv)'
  BY Basics, <1>1, <1>2 DEF IInv, ObjectTypes, TypeOK, Remover!TypeOK, Remover!WorkerPC,
    RemoverInv, Remover!PhaseInv, Remover!WorkerStopped, SeqInv, LockInv, DestroyInv
<1>4. (OwnerInv /\ StageInv /\ ContainerInv /\ ClearInv /\ RefCountExact /\ NoUseAfterFree)'
  BY Basics, <1>1, <1>2 DEF IInv, ObjectTypes, OwnerInv, StageInv, ContainerInv, ClearInv,
    RefCountExact, OwnerHolds, ListHolds, RemoverHolds, Count, NoUseAfterFree
<1>5. QED BY <1>3, <1>4 DEF IInv

LEMMA StopReleaseLastIInv ==
  ASSUME NEW o \in Objects, o = Head(queue), IInv, StopReleaseObj, refCount[o] = 1 PROVE IInv'
<1>held. o \in Range(pushed) /\ (o \in Range(queue) \/ inHand = o)
  BY ListAssumption, RangeOfTail DEF IInv, SeqInv, WorkerReleaseObj, StopReleaseObj,
    TypeOK, Remover!TypeOK
<1>1. /\ spc = "drain" /\ queue # <<>>
      /\ refCount' = [refCount EXCEPT ![o] = @ - 1]
      /\ life' = [life EXCEPT ![o] = "dying"]
      /\ UNCHANGED <<waitForever, queue, status, wpc, inHand, stopEvent, ppc, spc, pushed,
                     released, list, listLock, sizeEvent, container, containerLock, tpc,
                     opc, cur, cpc, cidx>>
  BY Basics DEF IInv, StopReleaseObj, ReleaseBy, ReleaseRef, Destroyable, RefCountExact,
    removerVars, objectVars, ownerVars, clearVars
<1>2. life[o] = "alive" /\ ~OwnerHolds(o) /\ ~ListHolds(o)
  BY Basics, <1>1, <1>held DEF IInv, RefCountExact, ObjectTypes, OwnerHolds, ListHolds,
    RemoverHolds, Count
<1>3. (TypeOK /\ RemoverInv /\ SeqInv /\ LockInv /\ DestroyInv)'
  BY Basics, <1>1, <1>2 DEF IInv, ObjectTypes, TypeOK, Remover!TypeOK, RemoverInv,
    Remover!PhaseInv, Remover!WorkerStopped, SeqInv, LockInv, DestroyInv
<1>4. (OwnerInv /\ StageInv /\ ContainerInv /\ ClearInv /\ RefCountExact /\ NoUseAfterFree)'
  BY Basics, <1>1, <1>2 DEF IInv, ObjectTypes, OwnerInv, StageInv, ContainerInv, ClearInv,
    RefCountExact, OwnerHolds, ListHolds, RemoverHolds, Count, NoUseAfterFree
<1>5. QED BY <1>3, <1>4 DEF IInv

LEMMA StopDeleteIInv ==
  ASSUME NEW o \in Objects, o = Head(queue), IInv, StopReleaseObj, refCount[o] = 0 PROVE IInv'
<1>1. /\ spc = "drain" /\ queue # <<>>
      /\ released' = Append(released, o) /\ queue' = Tail(queue)
      /\ life' = [life EXCEPT ![o] = "dead"]
      /\ life[o] = "dying" /\ tpc[o] = "ended" /\ ~containerLock[o]
      /\ UNCHANGED <<waitForever, status, wpc, inHand, stopEvent, ppc, spc, pushed, list,
                     listLock, sizeEvent, refCount, container, containerLock, tpc, opc,
                     cur, cpc, cidx>>
  BY Basics DEF IInv, StopReleaseObj, Remover!StopDrain, ReleaseBy, ReleaseRef,
    Destroyable, removerVars, objectVars, ownerVars, clearVars
<1>2. /\ released' \in Seq(Objects)
      /\ Range(queue') = Range(queue) \ {o} /\ IsInjective(queue') /\ queue' \in Seq(Objects)
      /\ o \in Range(queue) /\ inHand = NoObj /\ NoObj \notin Objects
      /\ ~OwnerHolds(o) /\ o \in Range(pushed) /\ (o \in Range(list) => listLock = Clearer)
  <2>1. released' \in Seq(Objects)
    BY <1>1, RangeOfAppend DEF IInv, TypeOK, Remover!TypeOK
  <2>2. Range(queue') = Range(queue) \ {o} /\ IsInjective(queue') /\ queue' \in Seq(Objects) /\ o \in Range(queue)
    BY <1>1, RangeOfTail DEF IInv, TypeOK, Remover!TypeOK, SeqInv
  <2>3. inHand = NoObj
    BY <1>1 DEF IInv, RemoverInv, Remover!PhaseInv, Remover!WorkerStopped
  <2>4. ~OwnerHolds(o) /\ o \in Range(pushed)
    BY Basics, <2>2, ListAssumption DEF IInv, RefCountExact, SeqInv, OwnerHolds,
      ListHolds, RemoverHolds, Count
  <2>listed. o \in Range(list) => listLock = Clearer
    BY <1>1, <2>4 DEF IInv, StageInv
  <2>5. QED BY <2>1, <2>2, <2>3, <2>4, <2>listed, ListAssumption
<1>3. (TypeOK /\ RemoverInv /\ SeqInv /\ LockInv /\ DestroyInv)'
  BY Basics, <1>1, <1>2 DEF IInv, ObjectTypes, TypeOK, Remover!TypeOK, Remover!WorkerPC,
    RemoverInv, Remover!PhaseInv, Remover!WorkerStopped, SeqInv, LockInv, DestroyInv
<1>4. (OwnerInv /\ StageInv /\ ContainerInv /\ ClearInv /\ RefCountExact /\ NoUseAfterFree)'
  BY Basics, <1>1, <1>2 DEF IInv, ObjectTypes, OwnerInv, NoUseAfterFree, StageInv,
    ContainerInv, ClearInv, RefCountExact, OwnerHolds, ListHolds, RemoverHolds, Count
<1>5. QED BY <1>3, <1>4 DEF IInv

LEMMA StopEndIInv ==
  ASSUME IInv, StopEnd PROVE IInv'
<1>1. /\ spc = "drain" /\ spc' = "done" /\ queue = <<>>
      /\ UNCHANGED <<waitForever, queue, status, wpc, inHand, stopEvent, ppc, pushed,
                     released, list, listLock, sizeEvent, refCount, life, container,
                     containerLock, tpc, opc, cur, cpc, cidx>>
  BY Basics DEF IInv, StopEnd, Remover!StopDrain, removerVars, objectVars, ownerVars,
    clearVars
<1>2. (TypeOK /\ RemoverInv /\ SeqInv /\ LockInv /\ DestroyInv)'
  BY Basics, <1>1 DEF IInv, ObjectTypes, TypeOK, Remover!TypeOK, Remover!StopPC,
    RemoverInv, Remover!PhaseInv, Remover!WorkerStopped, SeqInv, LockInv, DestroyInv
<1>3. (OwnerInv /\ StageInv /\ ContainerInv /\ ClearInv /\ RefCountExact /\ NoUseAfterFree)'
  BY Basics, <1>1 DEF IInv, ObjectTypes, OwnerInv, StageInv, ContainerInv, ClearInv,
    RefCountExact, OwnerHolds, ListHolds, RemoverHolds, Count, NoUseAfterFree
<1>4. QED BY <1>2, <1>3 DEF IInv

(* The worker takes the front of the queue. *)
LEMMA PopIInv ==
  ASSUME NEW o, o = Head(queue), IInv, WorkerStep, queue' # queue PROVE IInv'
<1>1. /\ queue # <<>> /\ inHand' = o /\ queue' = Tail(queue)
      /\ wpc \in {"top", "suspended", "drain"} /\ wpc' = "release"
      /\ UNCHANGED <<waitForever, status, stopEvent, ppc, spc, pushed, released, list,
                     listLock, sizeEvent, refCount, life, container, containerLock, tpc,
                     opc, cur, cpc, cidx>>
  BY Basics DEF IInv, WorkerStep, Remover!WorkerStart, Remover!WorkerTop,
    Remover!WorkerSuspend, Remover!WorkerDrain, Remover!PopOrLoop, removerVars,
    objectVars, ownerVars, clearVars
<1>2. /\ o \in Objects /\ o \in Range(queue) /\ o \in Range(pushed)
      /\ Range(queue') = Range(queue) \ {o} /\ IsInjective(queue') /\ queue' \in Seq(Objects)
      /\ NoObj \notin Objects /\ inHand = NoObj
  BY <1>1, RangeOfTail, ListAssumption DEF IInv, TypeOK, Remover!TypeOK, SeqInv,
    RemoverInv, Remover!PhaseInv
<1>3. TypeOK'
  BY Basics, <1>1, <1>2 DEF IInv, ObjectTypes, TypeOK, Remover!TypeOK, Remover!WorkerPC
<1>4. (RemoverInv /\ SeqInv /\ LockInv /\ DestroyInv)'
  BY Basics, <1>1, <1>2 DEF IInv, ObjectTypes, RemoverInv, Remover!PhaseInv,
    Remover!WorkerStopped, SeqInv, LockInv, DestroyInv
<1>5. (OwnerInv /\ StageInv /\ ContainerInv /\ ClearInv)'
  BY Basics, <1>1, <1>2 DEF IInv, ObjectTypes, OwnerInv, StageInv, ContainerInv, ClearInv
<1>6. (RefCountExact /\ NoUseAfterFree)'
  BY Basics, <1>1, <1>2 DEF IInv, ObjectTypes, RefCountExact, OwnerHolds, ListHolds,
    RemoverHolds, Count, NoUseAfterFree
<1>7. QED BY <1>3, <1>4, <1>5, <1>6 DEF IInv

(* The other steps of the worker. *)
LEMMA WorkerOtherIInv ==
  ASSUME IInv, WorkerStep, queue' = queue PROVE IInv'
<1>1. /\ wpc \notin {"release", "ended", "killed"}
      /\ inHand = NoObj
      /\ wpc' \in {"top", "ended", "suspending", "suspended"}
      /\ status' \in {"STARTED", "SUSPENDED", "TERMINATED"} /\ stopEvent' \in BOOLEAN
      /\ status' = "TERMINATED" => wpc' = "ended"
      /\ UNCHANGED <<waitForever, queue, inHand, ppc, spc, pushed, released, list,
                     listLock, sizeEvent, refCount, life, container, containerLock, tpc,
                     opc, cur, cpc, cidx>>
  <2>1. /\ inHand = NoObj \/ wpc = "release"
        /\ wpc \notin {"ended", "killed"} => status # "TERMINATED"
        /\ status \in {"STARTED", "SUSPENDED", "TERMINATED"} /\ stopEvent \in BOOLEAN
    BY DEF IInv, RemoverInv, Remover!PhaseInv, Remover!WorkerStopped, TypeOK,
      Remover!TypeOK
  <2>2. Tail(queue) = queue => queue = <<>>
    BY DEF IInv, TypeOK, Remover!TypeOK
  <2> USE DEF WorkerStep, removerVars, objectVars, ownerVars, clearVars
  <2>3. CASE Remover!WorkerStart
    BY <2>1, <2>3 DEF Remover!WorkerStart
  <2>4. CASE Remover!WorkerTop
    BY <2>1, <2>2, <2>4 DEF Remover!WorkerTop, Remover!PopOrLoop
  <2>5. CASE Remover!WorkerSuspend
    BY <2>1, <2>5 DEF Remover!WorkerSuspend
  <2>6. CASE Remover!WorkerDrain
    BY <2>1, <2>2, <2>6 DEF Remover!WorkerDrain, Remover!PopOrLoop
  <2>7. QED BY <2>3, <2>4, <2>5, <2>6
<1>2. (TypeOK /\ RemoverInv /\ SeqInv /\ LockInv /\ DestroyInv)'
  BY Basics, <1>1 DEF IInv, ObjectTypes, TypeOK, Remover!TypeOK, Remover!WorkerPC,
    RemoverInv, Remover!PhaseInv, Remover!WorkerStopped, SeqInv, LockInv, DestroyInv
<1>3. (OwnerInv /\ StageInv /\ ContainerInv /\ ClearInv /\ RefCountExact /\ NoUseAfterFree)'
  BY Basics, <1>1 DEF IInv, ObjectTypes, OwnerInv, StageInv, ContainerInv, ClearInv,
    RefCountExact, OwnerHolds, ListHolds, RemoverHolds, Count, NoUseAfterFree
<1>4. QED BY <1>2, <1>3 DEF IInv
-----------------------------------------------------------------------------
-----------------------------------------------------------------------------
(* Every step keeps IInv.                                                  *)

LEMMA InitIInv == Init => IInv
<1> SUFFICES ASSUME Init PROVE IInv
  OBVIOUS
<1> USE DEF Init, Remover!Init
<1>1. /\ <<>> \in Seq(Objects) /\ Range(<<>>) = {} /\ IsInjective(<<>>)
  BY DEF Range, IsInjective
<1>2. TypeOK
  <2>1. Remover!TypeOK
    <3>1. wpc \in Remover!WorkerPC /\ spc \in Remover!StopPC
      BY DEF Remover!WorkerPC, Remover!StopPC
    <3>2. status \in {"STARTED", "SUSPENDED", "TERMINATED"} /\ ppc \in {"idle", "check"}
      OBVIOUS
    <3>3. waitForever \in BOOLEAN /\ inHand \in Objects \cup {NoObj} /\ stopEvent \in BOOLEAN
      OBVIOUS
    <3>4. queue \in Seq(Objects) /\ pushed \in Seq(Objects) /\ released \in Seq(Objects)
      BY <1>1
    <3> HIDE DEF Init, Remover!Init
    <3>5. QED BY <3>1, <3>2, <3>3, <3>4, Zenon DEF Remover!TypeOK
  <2>2. /\ refCount \in [Objects -> 0..2]
        /\ life \in [Objects -> {"unborn", "alive", "dying", "dead"}]
        /\ container \in [Objects -> BOOLEAN] /\ containerLock \in [Objects -> BOOLEAN]
        /\ tpc \in [Objects -> {"none", "run", "locked", "search", "check", "erase",
                                "detach", "ended"}]
    OBVIOUS
  <2>3. /\ list \in Seq(Objects) /\ listLock \in Objects \cup {Free, Clearer}
        /\ sizeEvent \in BOOLEAN /\ cur \in Objects \cup {NoObj} /\ cidx \in Nat
    BY <1>1
  <2>4. /\ opc \in {"idle", "push", "start", "release", "delete", "count", "wait"}
        /\ cpc \in {"idle", "loop", "push", "check", "destroying"}
    OBVIOUS
  <2> HIDE DEF Init
  <2>5. QED BY <2>1, <2>2, <2>3, <2>4, Zenon DEF TypeOK
<1>3. RemoverInv /\ SeqInv /\ LockInv /\ OwnerInv /\ DestroyInv
  <2>1. Free # Clearer /\ Free \notin Objects
    BY ListAssumption DEF Free, Clearer
  <2>2. QED
    BY <1>1, <2>1
    DEF RemoverInv, Remover!PhaseInv, Remover!WorkerStopped, SeqInv, LockInv, OwnerInv,
      DestroyInv
<1>4. StageInv /\ ContainerInv /\ ClearInv /\ NoUseAfterFree
  BY <1>1 DEF StageInv, ContainerInv, ClearInv, NoUseAfterFree, Free, Clearer
<1>5. RefCountExact
  <2> SUFFICES ASSUME NEW o \in Objects
               PROVE  /\ refCount[o] = Count(OwnerHolds(o)) + Count(ListHolds(o))
                                       + Count(RemoverHolds(o))
                      /\ life[o] = "alive" <=> refCount[o] > 0
    BY DEF RefCountExact
  <2>1. ~OwnerHolds(o) /\ ~ListHolds(o) /\ ~RemoverHolds(o)
    BY <1>1, ListAssumption DEF OwnerHolds, ListHolds, RemoverHolds
  <2>2. refCount[o] = 0 /\ life[o] = "unborn"
    OBVIOUS
  <2> HIDE DEF Init, Remover!Init
  <2>3. QED BY <2>1, <2>2 DEF Count
<1>6. QED BY <1>2, <1>3, <1>4, <1>5 DEF IInv

LEMMA OwnerIInv == IInv /\ OwnerStep => IInv'
<1> SUFFICES ASSUME IInv, OwnerStep PROVE IInv'
  OBVIOUS
<1>1. PICK s : s = cur
  OBVIOUS
<1>2. opc \in {"push", "start", "release", "delete"} => s \in Objects
  BY <1>1 DEF IInv, OwnerInv
<1>3. CASE ListPush
  BY <1>1, <1>2, <1>3, ListPushIInv DEF ListPush
<1>4. CASE StartThread
  BY <1>1, <1>2, <1>4, StartThreadIInv DEF StartThread
<1>5. CASE OwnerRelease
  BY <1>1, <1>2, <1>5, OwnerReleaseIInv DEF OwnerRelease
<1>6. CASE OwnerDelete
  BY <1>1, <1>2, <1>6, OwnerDeleteIInv DEF OwnerDelete
<1>7. QED BY <1>3, <1>4, <1>5, <1>6, OwnerCountIInv, WaitForRoomIInv DEF OwnerStep

LEMMA ObjectThreadIInv == ASSUME NEW o \in Objects, IInv, ObjectThread(o) PROVE IInv'
<1>1. CASE SelfEnterRemove(o)
  BY <1>1, SelfEnterIInv, SelfEnterNotIInv
<1>2. QED
  BY <1>1, SelfLockContainerIInv, SelfRemoveIInv, SelfRemoveCheckIInv, SelfEraseIInv,
     SelfDetachIInv
  DEF ObjectThread

LEMMA ClearStepIInv == IInv /\ ClearStep => IInv'
<1> SUFFICES ASSUME IInv, ClearStep PROVE IInv'
  OBVIOUS
<1>1. ASSUME cpc \in {"loop", "push"}, cidx <= Len(list)
      PROVE  list[cidx] \in Objects
  <2>1. listLock = Clearer
    BY <1>1 DEF IInv, LockInv
  <2>2. cidx \in 1..Len(list)
    BY <1>1, <2>1 DEF IInv, ClearInv, TypeOK
  <2>3. QED BY <2>2 DEF IInv, TypeOK
<1>2. PICK s : s = list[cidx]
  OBVIOUS
<1>3. CASE ClearDetach
  BY <1>1, <1>2, <1>3, ClearDetachIInv DEF ClearDetach
<1>4. CASE ClearPush
  <2>1. cpc = "push" /\ listLock = Clearer
    BY <1>4 DEF ClearPush, IInv, LockInv
  <2>2. cidx <= Len(list)
    BY <2>1 DEF IInv, ClearInv
  <2>3. QED BY <1>1, <1>2, <1>4, <2>1, <2>2, ClearPushIInv
<1>5. QED BY <1>3, <1>4, ClearCheckIInv, ClearEndIInv DEF ClearStep

LEMMA StopStepIInv == IInv /\ StopStep => IInv'
BY StopResumeIInv, StopJoinIInv DEF StopStep

(* ReleaseObj, by the worker and by the destructor of the remover. *)
LEMMA ReleaseIInv == IInv /\ (WorkerReleaseObj \/ StopReleaseObj) => IInv'
<1> SUFFICES ASSUME IInv, WorkerReleaseObj \/ StopReleaseObj PROVE IInv'
  OBVIOUS
<1>1. ASSUME NEW o \in Objects PROVE refCount[o] > 1 \/ refCount[o] = 1 \/ refCount[o] = 0
  BY DEF IInv, TypeOK
<1>2. CASE WorkerReleaseObj
  <2>1. inHand \in Objects
    BY <1>2 DEF WorkerReleaseObj, IInv, TypeOK, Remover!TypeOK, RemoverInv, Remover!PhaseInv
  <2>2. PICK o \in Objects : o = inHand
    BY <2>1
  <2>3. QED BY <1>1, <1>2, <2>2, WorkerReleaseSharedIInv, WorkerReleaseLastIInv,
      WorkerDeleteIInv
<1>3. CASE StopReleaseObj
  <2>1. Head(queue) \in Objects
    BY <1>3 DEF StopReleaseObj, IInv, TypeOK, Remover!TypeOK
  <2>2. PICK o \in Objects : o = Head(queue)
    BY <2>1
  <2>3. QED BY <1>1, <1>3, <2>2, StopReleaseSharedIInv, StopReleaseLastIInv, StopDeleteIInv
<1>4. QED BY <1>2, <1>3

LEMMA WorkerStepIInv == IInv /\ WorkerStep => IInv'
<1> SUFFICES ASSUME IInv, WorkerStep PROVE IInv'
  OBVIOUS
<1>1. PICK o : o = Head(queue)
  OBVIOUS
<1>2. QED BY <1>1, PopIInv, WorkerOtherIInv

LEMMA NextIInv == IInv /\ [Next]_vars => IInv'
<1> SUFFICES ASSUME IInv, [Next]_vars PROVE IInv'
  OBVIOUS
<1>1. CASE UNCHANGED vars
  <2>1. UNCHANGED <<waitForever, queue, status, wpc, inHand, stopEvent, ppc, spc, pushed,
                    released, list, listLock, sizeEvent, refCount, life, container,
                    containerLock, tpc, opc, cur, cpc, cidx>>
    BY <1>1 DEF vars, removerVars, objectVars, ownerVars, clearVars
  <2>2. (TypeOK /\ RemoverInv /\ SeqInv /\ LockInv /\ OwnerInv)'
    BY <2>1
    DEF IInv, TypeOK, Remover!TypeOK, RemoverInv, Remover!PhaseInv, Remover!WorkerStopped,
        SeqInv, LockInv, OwnerInv
  <2>3. (StageInv /\ ContainerInv /\ ClearInv /\ DestroyInv)'
    BY <2>1 DEF IInv, StageInv, ContainerInv, ClearInv, DestroyInv
  <2>4. (RefCountExact /\ NoUseAfterFree)'
    BY <2>1 DEF IInv, RefCountExact, OwnerHolds, ListHolds, RemoverHolds, NoUseAfterFree
  <2>5. QED BY <2>2, <2>3, <2>4 DEF IInv
<1>2. CASE Next
  BY <1>2, CreateIInv, OwnerIInv, ObjectThreadIInv, ClearBeginIInv, ClearStepIInv,
     DestroyBeginIInv, StopSignalIInv, StopStepIInv, StopEndIInv, ReleaseIInv, WorkerStepIInv
  DEF Next
<1>3. QED BY <1>1, <1>2

LEMMA SpecIInv == Spec => []IInv
BY InitIInv, NextIInv, PTL DEF Spec

-----------------------------------------------------------------------------
(* Whatever the owner, the threads of the objects, Clear, the destructor   *)
(* and the remover do in whatever order: the reference count of an object  *)
(* is the number of those who hold it, nobody goes on with a deleted       *)
(* object, and m_container says where the object is (epServerObjectList.   *)
(* cpp, epBaseServerObject.cpp, epSmartObject.h).                          *)
THEOREM ListedObjectsAreSound == Spec => []ObjectsAreSound
<1>1. IInv => ContainerAgrees
  BY Basics DEF IInv, ContainerAgrees, ContainerInv, StageInv, LockInv
<1>2. IInv => ObjectsAreSound
  BY <1>1 DEF IInv, ObjectsAreSound
<1>3. QED BY <1>2, SpecIInv, PTL

-----------------------------------------------------------------------------
(* The list keeps to what ServerObjectRemover asks of its environment.     *)
LEMMA RemoverSteps == IInv /\ [Next]_vars => [Remover!Next]_(Remover!vars)
<1> SUFFICES ASSUME IInv, Next PROVE Remover!Next \/ UNCHANGED removerVars
  BY DEF vars, removerVars, Remover!vars
<1> DEFINE Stays == UNCHANGED removerVars
<1>1. ASSUME NEW o \in Objects, CanPush(o), Remover!Push(o) PROVE Remover!Next
  BY <1>1 DEF Remover!Next, Remover!PushFresh, CanPush, Range, Remover!Range
<1>2. ASSUME NEW o \in Objects, Create(o) PROVE Stays
  BY <1>2 DEF Create
<1>3. CASE OwnerStep
  BY <1>3 DEF OwnerStep, ListPush, StartThread, OwnerRelease, OwnerDelete, OwnerCount,
              WaitForListSizeDecrease
<1>4. ASSUME NEW o \in Objects, ObjectThread(o) PROVE Remover!Next \/ Stays
  <2>1. CASE SelfRemove(o)
    BY <1>1, <2>1, SearchFinds DEF SelfRemove
  <2>2. CASE SelfRemoveCheck(o)
    BY <2>2 DEF SelfRemoveCheck, Remover!Next
  <2>3. QED
    BY <1>4, <2>1, <2>2
    DEF ObjectThread, SelfLockContainer, SelfEnterRemove, SelfErase, SelfDetach
<1>5. CASE ClearBegin \/ DestroyBegin
  BY <1>5 DEF ClearBegin, DestroyBegin
<1>6. CASE ClearStep
  <2>1. CASE ClearPush
    <3>1. cpc = "push" /\ listLock = Clearer
      BY <2>1 DEF ClearPush, IInv, LockInv
    <3>2. cidx \in 1..Len(list)
      BY <3>1 DEF IInv, ClearInv, TypeOK
    <3>3. list[cidx] \in Objects
      BY <3>2 DEF IInv, TypeOK
    <3>4. PICK s \in Objects : s = list[cidx]
      BY <3>3
    <3>5. CanPush(s) /\ Remover!Push(s)
      BY <2>1, <3>1, <3>4, ClearFinds DEF ClearPush
    <3>6. QED BY <1>1, <3>5
  <2>2. CASE ClearCheck
    BY <2>2 DEF ClearCheck, Remover!Next
  <2>3. QED BY <1>6, <2>1, <2>2 DEF ClearStep, ClearDetach, ClearEnd
<1>7. CASE StopSignal
  <2>1. ppc = "idle"
    <3>1. list = <<>> /\ cpc = "destroying"
      BY <1>7 DEF StopSignal, IInv, DestroyInv
    <3>2. Range(list) = {}
      BY <3>1 DEF Range
    <3>3. \A o \in Objects : tpc[o] # "check"
      BY <3>2 DEF IInv, StageInv
    <3>4. QED BY <3>1, <3>3 DEF IInv, LockInv, TypeOK, Remover!TypeOK
  <2>2. QED BY <1>7, <2>1 DEF StopSignal, Remover!Next, Remover!Stop
<1>8. CASE StopStep \/ StopEnd
  BY <1>8 DEF StopStep, StopEnd, Remover!Next, Remover!Stop
<1>9. CASE WorkerStep
  BY <1>9 DEF WorkerStep, Remover!Next, Remover!Worker
<1>10. CASE WorkerReleaseObj \/ StopReleaseObj
  BY <1>10
  DEF WorkerReleaseObj, StopReleaseObj, ReleaseBy, Remover!Next, Remover!Worker,
    Remover!Stop
<1>11. QED
  BY <1>2, <1>3, <1>4, <1>5, <1>6, <1>7, <1>8, <1>9, <1>10 DEF Next

(* Remove, Clear and the destructor of the list (epServerObjectList.cpp    *)
(* 98-195) use the remover as it expects: one Push at a time, every object *)
(* once, none after its destructor began; what is proved of the remover    *)
(* holds of the one in every list.                                         *)
THEOREM ListUsesRemoverProperly == Spec => UsesRemoverProperly
<1>1. Init => Remover!Init
  BY DEF Init
<1>2. QED BY <1>1, RemoverSteps, SpecIInv, PTL DEF Spec, UsesRemoverProperly, Remover!Spec

(* So every object that Remove, Clear or the destructor takes out of a     *)
(* list is released once, in that order, and at the latest when the        *)
(* destructor returns (epServerObjectRemover.cpp 100-117, 190-229).        *)
COROLLARY ListReleasesInOrder == Spec => []ReleasesInOrder
BY ListUsesRemoverProperly, RemoverReleasesInOrder, PTL DEF UsesRemoverProperly

-----------------------------------------------------------------------------
(* The refinement.                                                         *)

(* One object moves, the others are to the registry as before. *)
OthersStay(o) ==
  \A x \in Objects \ {o} : PhaseOf(x)' = PhaseOf(x) /\ UsersOf(x)' = UsersOf(x)

Moves(o) ==
  \/ PhaseOf(o) = "new" /\ PhaseOf(o)' = "held" /\ UsersOf(o)' = {"creator"}
  \/ PhaseOf(o) = "held" /\ PhaseOf(o)' = "listed" /\ UsersOf(o)' = UsersOf(o)
  \/ /\ PhaseOf(o) \in {"listed", "retired"} /\ PhaseOf(o)' = PhaseOf(o)
     /\ UsersOf(o) = {"creator"} /\ UsersOf(o)' = {"creator", "thread"}
  \/ /\ PhaseOf(o) \in {"listed", "retired"} /\ PhaseOf(o)' = PhaseOf(o)
     /\ \E u \in {"creator", "thread"} : u \in UsersOf(o) /\ UsersOf(o)' = UsersOf(o) \ {u}
  \/ PhaseOf(o) = "listed" /\ PhaseOf(o)' = "retired" /\ UsersOf(o)' = UsersOf(o)
  \/ /\ PhaseOf(o) = "retired" /\ PhaseOf(o)' = "destroyed"
     /\ UsersOf(o) = {} /\ UsersOf(o)' = {}

RegistryStep == [Registry!Next]_(Registry!vars)

LEMMA MoveIsStep ==
  ASSUME NEW o \in Objects, OthersStay(o), Moves(o) PROVE RegistryStep
<1> DEFINE phase == [x \in Objects |-> PhaseOf(x)]
           users == [x \in Objects |-> UsersOf(x)]
<1>1. /\ phase' = [phase EXCEPT ![o] = PhaseOf(o)']
      /\ users' = [users EXCEPT ![o] = UsersOf(o)']
      /\ phase[o] = PhaseOf(o) /\ users[o] = UsersOf(o)
  BY DEF OthersStay
<1>2. QED
  BY <1>1, ZenonT(30)
  DEF RegistryStep, Moves, Registry!Next, Registry!Hold, Registry!Enlist, Registry!Begin,
      Registry!Leave, Registry!Retire, Registry!Destroy

LEMMA StaysIsStep ==
  ASSUME \A x \in Objects : PhaseOf(x)' = PhaseOf(x) /\ UsersOf(x)' = UsersOf(x)
  PROVE  RegistryStep
<1>1. /\ [x \in Objects |-> PhaseOf(x)]' = [x \in Objects |-> PhaseOf(x)]
      /\ [x \in Objects |-> UsersOf(x)]' = [x \in Objects |-> UsersOf(x)]
  OBVIOUS
<1>2. QED BY <1>1 DEF RegistryStep, Registry!vars

(* What the owner does to the object in its hand. *)
LEMMA OwnerMoves ==
  ASSUME NEW s \in Objects, s = cur, IInv,
         ListPush \/ StartThread \/ OwnerRelease \/ OwnerDelete
  PROVE  RegistryStep
<1> USE DEF OthersStay, Moves, PhaseOf, UsersOf, OwnerHolds
<1>1. ASSUME opc # "delete" PROVE life[s] = "alive" /\ (opc = "push" \/ s \in Range(list) \cup Range(pushed))
  <2>1. opc \in {"push", "start", "release"}
    BY <1>1 DEF ListPush, StartThread, OwnerRelease, OwnerDelete
  <2>2. life[s] = "alive"
    BY Basics, <2>1 DEF IInv, RefCountExact, ListHolds, RemoverHolds, Count, ObjectTypes
  <2>3. QED BY <2>1, <2>2 DEF IInv, StageInv
<1>2. CASE ListPush
  <2>1. /\ opc = "push" /\ opc' = "start" /\ list' = Append(list, s)
        /\ UNCHANGED <<life, pushed, cur, tpc>>
    BY <1>2 DEF ListPush, removerVars
  <2>2. s \notin Range(list) /\ s \notin Range(pushed)
    BY <2>1 DEF IInv, OwnerInv
  <2>3. Range(list') = Range(list) \cup {s} /\ Range(pushed') = Range(pushed)
    BY <2>1, RangeOfAppend DEF IInv, TypeOK
  <2>4. OthersStay(s)
    BY <2>1, <2>3
  <2>5. Moves(s)
    BY <1>1, <2>1, <2>2, <2>3
  <2>6. QED BY <2>4, <2>5, MoveIsStep
<1>3. CASE StartThread
  <2>1. /\ opc = "start" /\ opc' = "release" /\ tpc' = [tpc EXCEPT ![s] = "run"]
        /\ UNCHANGED <<life, pushed, list, cur>>
    BY <1>3 DEF StartThread, removerVars, objectVars
  <2>2. tpc[s] = "none" /\ tpc'[s] = "run" /\ \A x \in Objects \ {s} : tpc'[x] = tpc[x]
    BY Basics, <2>1 DEF IInv, OwnerInv, ObjectTypes
  <2>3. OthersStay(s)
    BY <2>1, <2>2
  <2>4. Moves(s)
    BY <1>1, <2>1, <2>2
  <2>5. QED BY <2>3, <2>4, MoveIsStep
<1>4. CASE OwnerRelease
  <2>1. /\ opc = "release" /\ opc' \in {"delete", "count"}
        /\ life' = [life EXCEPT ![s] = IF refCount[s] = 1 THEN "dying" ELSE @]
        /\ UNCHANGED <<pushed, list, cur, tpc>>
    BY <1>4 DEF OwnerRelease, ReleaseRef, removerVars
  <2>2. /\ life'[s] \in {"alive", "dying"} /\ \A x \in Objects \ {s} : life'[x] = life[x]
    BY Basics, <1>1, <2>1 DEF ObjectTypes
  <2>3. OthersStay(s)
    BY <2>1, <2>2
  <2>4. Moves(s)
    BY <1>1, <2>1, <2>2
  <2>5. QED BY <2>3, <2>4, MoveIsStep
<1>5. CASE OwnerDelete
  <2>1. /\ opc = "delete" /\ opc' = "count" /\ life' = [life EXCEPT ![s] = "dead"]
        /\ life[s] = "dying" /\ tpc[s] = "ended"
        /\ UNCHANGED <<pushed, list, cur, tpc>>
    BY <1>5 DEF OwnerDelete, Destroyable, removerVars
  <2>2. life'[s] = "dead" /\ \A x \in Objects \ {s} : life'[x] = life[x]
    BY Basics, <2>1 DEF ObjectTypes
  <2>3. s \in Range(pushed)
    BY Basics, <2>1 DEF IInv, StageInv, RefCountExact, ListHolds, Count, ObjectTypes
  <2>4. OthersStay(s)
    BY <2>1, <2>2
  <2>5. Moves(s)
    BY <2>1, <2>2, <2>3
  <2>6. QED BY <2>4, <2>5, MoveIsStep
<1>6. QED BY <1>2, <1>3, <1>4, <1>5

(* What the registry does not see. *)
LEMMA Unseen ==
  ASSUME UNCHANGED <<life, pushed, list, tpc>>,
         \A x \in Objects : OwnerHolds(x)' = OwnerHolds(x)
  PROVE  RegistryStep
<1>1. \A x \in Objects : PhaseOf(x)' = PhaseOf(x) /\ UsersOf(x)' = UsersOf(x)
  BY DEF PhaseOf, UsersOf
<1>2. QED BY <1>1, StaysIsStep

LEMMA CreateMoves == ASSUME NEW o \in Objects, IInv, Create(o) PROVE RegistryStep
<1>1. /\ opc = "idle" /\ opc' = "push" /\ cur' = o
      /\ life[o] = "unborn" /\ life' = [life EXCEPT ![o] = "alive"]
      /\ UNCHANGED <<pushed, list, tpc>>
  BY DEF Create, removerVars
<1>2. life'[o] = "alive" /\ \A x \in Objects \ {o} : life'[x] = life[x]
  BY Basics, <1>1 DEF ObjectTypes
<1>3. o \notin Range(list) /\ o \notin Range(pushed) /\ tpc[o] = "none"
  BY <1>1 DEF IInv, StageInv, OwnerInv
<1>4. OthersStay(o)
  BY <1>1, <1>2 DEF OthersStay, PhaseOf, UsersOf, OwnerHolds
<1>5. Moves(o)
  BY <1>1, <1>2, <1>3 DEF Moves, PhaseOf, UsersOf, OwnerHolds
<1>6. QED BY <1>4, <1>5, MoveIsStep

(* An object that is handed to the remover retires. *)
LEMMA PushMoves ==
  ASSUME NEW o \in Objects, IInv, CanPush(o), pushed' = Append(pushed, o),
         UNCHANGED <<life, list, opc, cur>>,
         \A x \in Objects : tpc[x] = tpc'[x] \/ {tpc[x], tpc'[x]} \subseteq {"search", "check"}
  PROVE  RegistryStep
<1>1. Range(pushed') = Range(pushed) \cup {o}
  BY RangeOfAppend DEF IInv, TypeOK, Remover!TypeOK
<1>2. OthersStay(o)
  BY <1>1 DEF OthersStay, PhaseOf, UsersOf, OwnerHolds
<1>3. Moves(o)
  BY <1>1 DEF Moves, PhaseOf, UsersOf, OwnerHolds, CanPush
<1>4. QED BY <1>2, <1>3, MoveIsStep

LEMMA ObjectMoves == ASSUME NEW o \in Objects, IInv, ObjectThread(o) PROVE RegistryStep
<1> DEFINE Busy == {"run", "locked", "search", "check", "erase", "detach"}
<1>1. ASSUME NEW here \in Busy, NEW there \in Busy, tpc[o] = here,
             tpc' = [tpc EXCEPT ![o] = there], UNCHANGED <<life, pushed, list, opc, cur>>
      PROVE  RegistryStep
  <2>1. \A x \in Objects : tpc'[x] = tpc[x] \/ (tpc[x] = here /\ tpc'[x] = there)
    BY Basics, <1>1 DEF ObjectTypes
  <2>2. \A x \in Objects : PhaseOf(x)' = PhaseOf(x) /\ UsersOf(x)' = UsersOf(x)
    BY <1>1, <2>1 DEF PhaseOf, UsersOf, OwnerHolds
  <2>3. QED BY <2>2, StaysIsStep
<1>2. CASE SelfLockContainer(o) \/ SelfEnterRemove(o) \/ SelfRemoveCheck(o)
  BY <1>1, <1>2
  DEF SelfLockContainer, SelfEnterRemove, SelfRemoveCheck, Remover!PushCheck, removerVars,
      objectVars, ownerVars
<1>3. CASE SelfRemove(o)
  <2>1. tpc[o] = "search" /\ tpc' = [tpc EXCEPT ![o] = "check"] /\ CanPush(o)
    BY <1>3, SearchFinds DEF SelfRemove
  <2>2. \A x \in Objects : tpc[x] = tpc'[x] \/ {tpc[x], tpc'[x]} \subseteq {"search", "check"}
    BY Basics, <2>1 DEF ObjectTypes
  <2>3. QED
    BY <1>3, <2>1, <2>2, PushMoves DEF SelfRemove, Remover!Push, objectVars, ownerVars
<1>4. CASE SelfErase(o)
  <2>1. /\ tpc[o] = "erase" /\ tpc' = [tpc EXCEPT ![o] = "detach"] /\ list' = Erase(list, o)
        /\ UNCHANGED <<life, pushed, opc, cur>>
    BY <1>4 DEF SelfErase, removerVars, objectVars, ownerVars
  <2>2. o \in Range(list) /\ o \in Range(pushed)
    BY <2>1 DEF IInv, StageInv
  <2>3. Range(list') = Range(list) \ {o}
    BY <2>1, <2>2, RangeOfErase DEF IInv, TypeOK, SeqInv
  <2>4. \A x \in Objects : tpc'[x] = tpc[x] \/ (tpc[x] = "erase" /\ tpc'[x] = "detach")
    BY Basics, <2>1 DEF ObjectTypes
  <2>5. \A x \in Objects : PhaseOf(x)' = PhaseOf(x) /\ UsersOf(x)' = UsersOf(x)
    BY <2>1, <2>2, <2>3, <2>4 DEF PhaseOf, UsersOf, OwnerHolds
  <2>6. QED BY <2>5, StaysIsStep
<1>5. CASE SelfDetach(o)
  <2>1. /\ tpc[o] = "detach" /\ tpc' = [tpc EXCEPT ![o] = "ended"]
        /\ UNCHANGED <<life, pushed, list, opc, cur>>
    BY <1>5 DEF SelfDetach, removerVars, objectVars, ownerVars
  <2>2. tpc'[o] = "ended" /\ \A x \in Objects \ {o} : tpc'[x] = tpc[x]
    BY Basics, <2>1 DEF ObjectTypes
  <2>3. life[o] \notin {"unborn", "dead"} /\ o \in Range(list) \cup Range(pushed)
    BY <2>1 DEF IInv, StageInv, OwnerInv, NoUseAfterFree
  <2>4. OthersStay(o)
    BY <2>1, <2>2 DEF OthersStay, PhaseOf, UsersOf, OwnerHolds
  <2>5. Moves(o)
    BY <2>1, <2>2, <2>3 DEF Moves, PhaseOf, UsersOf, OwnerHolds
  <2>6. QED BY <2>4, <2>5, MoveIsStep
<1>6. QED BY <1>2, <1>3, <1>4, <1>5 DEF ObjectThread

LEMMA ClearMoves == IInv /\ ClearStep => RegistryStep
<1> SUFFICES ASSUME IInv, ClearStep PROVE RegistryStep
  OBVIOUS
<1>1. CASE ClearDetach \/ ClearCheck
  BY <1>1, Unseen
  DEF ClearDetach, ClearCheck, Remover!PushCheck, removerVars, objectVars, ownerVars,
    OwnerHolds
<1>2. CASE ClearPush
  <2>1. cpc = "push" /\ listLock = Clearer
    BY <1>2 DEF ClearPush, IInv, LockInv
  <2>2. cidx \in 1..Len(list)
    BY <2>1 DEF IInv, ClearInv, TypeOK
  <2>3. list[cidx] \in Objects
    BY <2>2 DEF IInv, TypeOK
  <2>4. PICK s \in Objects : s = list[cidx]
    BY <2>3
  <2>5. CanPush(s) /\ pushed' = Append(pushed, s)
    BY <1>2, <2>1, <2>4, ClearFinds DEF ClearPush, Remover!Push
  <2>6. QED BY <1>2, <2>5, PushMoves DEF ClearPush, objectVars, ownerVars
<1>3. CASE ClearEnd
  <2>1. /\ cpc = "loop" /\ cidx > Len(list) /\ list' = <<>>
        /\ UNCHANGED <<life, pushed, opc, cur, tpc>>
    BY <1>3 DEF ClearEnd, removerVars, objectVars, ownerVars
  <2>2. listLock = Clearer /\ DOMAIN list = 1..Len(list) /\ Len(list) \in Nat /\ cidx \in Nat
    BY <2>1 DEF IInv, LockInv, TypeOK
  <2>3. \A i \in DOMAIN list : i < cidx
    BY <2>1, <2>2
  <2>4. \A i \in DOMAIN list : list[i] \in Range(pushed)
    BY <2>2, <2>3 DEF IInv, ClearInv
  <2>5. Range(list) \subseteq Range(pushed) /\ Range(list') = {}
    BY <2>1, <2>4 DEF Range
  <2>6. \A x \in Objects : x \in Range(pushed) \/ (x \notin Range(list) /\ x \notin Range(list'))
    BY <2>5
  <2>7. \A x \in Objects : PhaseOf(x)' = PhaseOf(x) /\ UsersOf(x)' = UsersOf(x)
    BY <2>1, <2>6 DEF PhaseOf, UsersOf, OwnerHolds
  <2>8. QED BY <2>7, StaysIsStep
<1>4. QED BY <1>1, <1>2, <1>3 DEF ClearStep

(* ReleaseObj deletes an object only when it retired and nobody uses it. *)
LEMMA ReleaseMoves == IInv /\ (WorkerReleaseObj \/ StopReleaseObj) => RegistryStep
<1> SUFFICES ASSUME IInv, WorkerReleaseObj \/ StopReleaseObj PROVE RegistryStep
  OBVIOUS
<1>1. UNCHANGED <<pushed, list, tpc, opc, cur>>
  BY DEF WorkerReleaseObj, StopReleaseObj, ReleaseBy, Remover!WorkerRelease,
         Remover!StopDrain, removerVars, ownerVars
<1>2. PICK o : \/ o = inHand /\ WorkerReleaseObj
               \/ o = Head(queue) /\ StopReleaseObj
  OBVIOUS
<1>3. o \in Range(pushed) /\ o \in Objects /\ (o \in Range(queue) \/ inHand = o)
  <2>1. CASE o = inHand /\ WorkerReleaseObj
    BY <2>1, ListAssumption
    DEF WorkerReleaseObj, IInv, TypeOK, Remover!TypeOK, RemoverInv, Remover!PhaseInv, SeqInv
  <2>2. CASE o = Head(queue) /\ StopReleaseObj
    BY <2>2, RangeOfTail, ListAssumption DEF StopReleaseObj, IInv, TypeOK,
      Remover!TypeOK, SeqInv
  <2>3. QED BY <1>2, <2>1, <2>2
<1>4. \/ life' = [life EXCEPT ![o] = IF refCount[o] = 1 THEN "dying" ELSE @] /\ refCount[o] > 0
      \/ life' = [life EXCEPT ![o] = "dead"] /\ life[o] = "dying" /\ tpc[o] = "ended"
  <2>1. refCount[o] \in Int
    BY Basics, <1>3 DEF ObjectTypes
  <2>2. \/ refCount[o] > 1 /\ ReleaseRef(o)
        \/ refCount[o] = 1 /\ ReleaseRef(o)
        \/ Destroyable(o) /\ life' = [life EXCEPT ![o] = "dead"]
    <3>1. CASE o = inHand /\ WorkerReleaseObj
      <4>1. ReleaseBy(inHand, Remover!WorkerRelease)
        BY <3>1 DEF WorkerReleaseObj
      <4>2. ReleaseBy(o, Remover!WorkerRelease)
        BY <3>1, <4>1
      <4>3. QED BY <4>2 DEF ReleaseBy
    <3>2. CASE o = Head(queue) /\ StopReleaseObj
      <4>1. ReleaseBy(Head(queue), Remover!StopDrain)
        BY <3>2 DEF StopReleaseObj
      <4>2. ReleaseBy(o, Remover!StopDrain)
        BY <3>2, <4>1
      <4>3. QED BY <4>2 DEF ReleaseBy
    <3>3. QED BY <1>2, <3>1, <3>2
  <2>3. refCount[o] > 1 => refCount[o] > 0
    BY <2>1
  <2>4. refCount[o] = 1 => refCount[o] > 0
    OBVIOUS
  <2>5. QED BY <2>2, <2>3, <2>4 DEF ReleaseRef, Destroyable
<1>5. CASE life' = [life EXCEPT ![o] = IF refCount[o] = 1 THEN "dying" ELSE @] /\ refCount[o] > 0
  <2>1. life[o] = "alive"
    BY <1>3, <1>5 DEF IInv, RefCountExact
  <2>2. life'[o] \in {"alive", "dying"} /\ \A x \in Objects \ {o} : life'[x] = life[x]
    BY Basics, <1>3, <1>5, <2>1 DEF ObjectTypes
  <2>3. \A x \in Objects : PhaseOf(x)' = PhaseOf(x) /\ UsersOf(x)' = UsersOf(x)
    BY <1>1, <2>1, <2>2 DEF PhaseOf, UsersOf, OwnerHolds
  <2>4. QED BY <2>3, StaysIsStep
<1>6. CASE life' = [life EXCEPT ![o] = "dead"] /\ life[o] = "dying" /\ tpc[o] = "ended"
  <2>1. life'[o] = "dead" /\ \A x \in Objects \ {o} : life'[x] = life[x]
    BY Basics, <1>3, <1>6 DEF ObjectTypes
  <2>2. ~OwnerHolds(o)
    BY Basics, <1>3, <1>6 DEF IInv, RefCountExact, OwnerHolds, ListHolds, RemoverHolds,
      Count,
                              ObjectTypes
  <2>3. OthersStay(o)
    BY <1>1, <2>1 DEF OthersStay, PhaseOf, UsersOf, OwnerHolds
  <2>4. Moves(o)
    BY <1>1, <1>3, <1>6, <2>1, <2>2 DEF Moves, PhaseOf, UsersOf, OwnerHolds
  <2>5. QED BY <1>3, <2>3, <2>4, MoveIsStep
<1>7. QED BY <1>4, <1>5, <1>6

LEMMA RegistrySteps == IInv /\ [Next]_vars => RegistryStep
<1> SUFFICES ASSUME IInv, [Next]_vars PROVE RegistryStep
  OBVIOUS
<1>1. CASE OwnerStep
  <2>1. PICK s : s = cur
    OBVIOUS
  <2>2. opc \in {"push", "start", "release", "delete"} => s \in Objects
    BY <2>1 DEF IInv, OwnerInv
  <2>3. CASE ListPush \/ StartThread \/ OwnerRelease \/ OwnerDelete
    <3>1. s \in Objects
      BY <2>2, <2>3 DEF ListPush, StartThread, OwnerRelease, OwnerDelete
    <3>2. QED BY <2>1, <2>3, <3>1, OwnerMoves
  <2>4. CASE OwnerCount \/ WaitForListSizeDecrease
    BY <2>4, Unseen
    DEF OwnerCount, WaitForListSizeDecrease, removerVars, objectVars, OwnerHolds
  <2>5. QED BY <1>1, <2>3, <2>4 DEF OwnerStep
<1>2. CASE ClearBegin \/ DestroyBegin
  BY <1>2, Unseen DEF ClearBegin, DestroyBegin, removerVars, objectVars, ownerVars,
    OwnerHolds
<1>3. CASE StopSignal \/ StopStep \/ StopEnd
  BY <1>3, Unseen
  DEF StopSignal, StopStep, StopEnd, Remover!StopSignal, Remover!StopResume,
      Remover!StopJoin, Remover!StopDrain, objectVars, ownerVars, OwnerHolds
<1>4. CASE WorkerStep
  BY <1>4, Unseen
  DEF WorkerStep, Remover!WorkerStart, Remover!WorkerTop, Remover!WorkerSuspend,
      Remover!WorkerDrain, objectVars, ownerVars, OwnerHolds
<1>5. CASE UNCHANGED vars
  BY <1>5, Unseen DEF vars, removerVars, objectVars, ownerVars, OwnerHolds
<1>6. QED
  BY <1>1, <1>2, <1>3, <1>4, <1>5, CreateMoves, ObjectMoves, ClearMoves, ReleaseMoves DEF
    Next

LEMMA RegistryInit == Init => Registry!Init
<1> SUFFICES ASSUME Init PROVE Registry!Init
  OBVIOUS
<1>1. \A o \in Objects : PhaseOf(o) = "new" /\ UsersOf(o) = {}
  BY DEF Init, PhaseOf, UsersOf, OwnerHolds
<1>2. QED BY <1>1 DEF Registry!Init

(* An object is listed once and taken out once, and it is deleted only     *)
(* after that and only when neither its creator nor its own thread uses it *)
(* (Push, Remove and Clear of epServerObjectList.cpp 164-207 with the      *)
(* counts of epSmartObject.h and the remover).                             *)
THEOREM ListKeepsRegistry == Spec => ImplementsRegistry
<1>1. IInv /\ [Next]_vars => [Registry!Next]_(Registry!vars)
  BY RegistrySteps DEF RegistryStep
<1>2. QED BY <1>1, RegistryInit, SpecIInv, PTL DEF Spec, ImplementsRegistry, Registry!Spec

-----------------------------------------------------------------------------
(* The connection of a synchronous UDP server.                             *)

(* SyncUdpSocket sees its promises through an instance here; they are the  *)
(* same.                                                                   *)
LEMMA SameReceivePromises ==
  /\ Udp!NoSleepBesidePacket => NoSleepBesidePacket
  /\ Udp!NothingLostOrRepeated => NothingLostOrRepeated
  /\ Udp!EmptyFrontIsStale => EmptyFrontIsStale
BY DEF Udp!NoSleepBesidePacket, NoSleepBesidePacket, Udp!NothingLostOrRepeated,
       NothingLostOrRepeated, Udp!EmptyFrontIsStale, EmptyFrontIsStale

(* Where a thread is in a Receive, and in the end of the connection. *)
Receiving == {"look", "wait", "front", "pop"}
Ending == {"drain", "remove", "notify", "leave"}

Types ==
  /\ lpc \in {"start", "receive", "find", "add", "push", "store", "signal"}
  /\ datagram \in Nat /\ added \in Nat
  /\ packets \in Seq(Nat)
  /\ event \in BOOLEAN /\ connected \in BOOLEAN
  /\ skipped \in BOOLEAN /\ raced \in BOOLEAN /\ crashed \in BOOLEAN
  /\ upc \in [Users -> {"idle", "send"} \cup Receiving \cup Ending]

(* m_baseSocketLock is what keeps the threads apart. *)
Exclusive == \A u \in Users : upc[u] # "idle" => sockLock = u

(* The connection lives while a thread receives, and is over while one     *)
(* ends it.                                                                *)
Phase ==
  \A u \in Users : /\ upc[u] \in Receiving => connected
                   /\ upc[u] \in Ending => ~connected

(* While every Receive had to wait, and none came in the middle of a push, *)
(* each event that is set, about to be set, or that has woken a receiver   *)
(* is about a packet of its own.                                           *)
Announced == (IF event THEN 1 ELSE 0) + (IF lpc = "signal" THEN 1 ELSE 0)

Backed ==
  connected /\ ~skipped /\ ~raced =>
    /\ Len(packets) >= Announced
    /\ \A u \in Users : upc[u] \in {"front", "pop"} => Len(packets) >= Announced + 1

(* The inductive invariant of the event. *)
ReceiveIInv ==
  /\ Types /\ Exclusive /\ Phase /\ Backed
  /\ Udp!NoSleepBesidePacket /\ Udp!EmptyFrontIsStale

(* The packet that the loop is about to add is the next one, or is empty;  *)
(* and what a thread has read from the front is still there, as long as    *)
(* nobody comes in the middle of a push.                                   *)
Fresh ==
  /\ lpc = "start" => datagram = added + 1
  /\ lpc \in {"find", "add", "push", "store"} => datagram \in {0, added + 1}

FrontIsThere ==
  ~raced =>
    \A u \in Users :
      upc[u] = "pop" => packets # <<>> /\ packet[u] = Head(packets) /\ packet[u] # 0

(* The inductive invariant of the packets, on top of that one. *)
PacketInv ==
  /\ got \in Seq(Nat) /\ packet \in [Users -> Nat]
  /\ Fresh /\ FrontIsThere /\ Udp!NothingLostOrRepeated

-----------------------------------------------------------------------------
(* The initial states satisfy the invariant of the event. *)
LEMMA InitReceive == Udp!Init => ReceiveIInv
<1> SUFFICES ASSUME Udp!Init PROVE ReceiveIInv
  OBVIOUS
<1>1. Types
  <2>1. upc \in [Users -> {"idle"}] /\ packets \in Seq(Nat)
    BY DEF Udp!Init
  <2>2. lpc = "start" /\ datagram = 1 /\ added = 0 /\ ~event /\ event \in BOOLEAN
    BY DEF Udp!Init
  <2>3. connected \in BOOLEAN /\ skipped \in BOOLEAN /\ crashed \in BOOLEAN
    BY DEF Udp!Init
  <2>3a. raced \in BOOLEAN
    BY DEF Udp!Init
  <2>4. upc \in [Users -> {"idle", "send"} \cup Receiving \cup Ending]
    BY <2>1 DEF Receiving, Ending
  <2>5. QED BY <2>1, <2>2, <2>3, <2>3a, <2>4 DEF Types
<1>2. \A u \in Users : upc[u] = "idle"
  BY DEF Udp!Init
<1>3. Exclusive /\ Phase /\ Udp!NoSleepBesidePacket
  BY <1>2 DEF Exclusive, Phase, Udp!NoSleepBesidePacket, Receiving, Ending
<1>4. Backed /\ Udp!EmptyFrontIsStale
  BY <1>2 DEF Udp!Init, Backed, Announced, Udp!EmptyFrontIsStale
<1>5. QED BY <1>1, <1>3, <1>4 DEF ReceiveIInv

(* A step of the loop: only AddPushed and AddSignal touch what is announced. *)
LEMMA LoopIInv == ReceiveIInv /\ Udp!LoopStep => ReceiveIInv'
<1> SUFFICES ASSUME ReceiveIInv, Udp!LoopStep PROVE ReceiveIInv'
  OBVIOUS
<1> USE DEF ReceiveIInv, Types, Exclusive, Phase, Backed, Announced,
      Udp!NoSleepBesidePacket,
            Udp!EmptyFrontIsStale, Udp!LoopStep, Udp!listVars, Udp!history
<1>1. CASE Udp!StartThread
  BY <1>1 DEF Udp!StartThread
<1>2. CASE Udp!Datagram
  BY <1>2 DEF Udp!Datagram
<1>3. CASE Udp!Find
  BY <1>3 DEF Udp!Find
<1>4. CASE Udp!AddLock
  BY <1>4 DEF Udp!AddLock
<1>5. CASE Udp!AddPush
  BY <1>5 DEF Udp!AddPush
<1>5a. CASE Udp!AddPushed
  <2>1. packets' \in Seq(Nat) /\ (Len(packets') = Len(packets) + 1 \/ raced)
    BY <1>5a DEF Udp!AddPushed
  <2>2. QED BY <1>5a, <2>1 DEF Udp!AddPushed
<1>6. CASE Udp!AddSignal
  BY <1>6 DEF Udp!AddSignal
<1>7. QED BY <1>1, <1>2, <1>3, <1>4, <1>5, <1>5a, <1>6

(* A step of a thread: the others are outside, by Exclusive. *)
LEMMA UserIInv == ASSUME NEW u \in Users, ReceiveIInv, Udp!UserStep(u) PROVE ReceiveIInv'
<1> USE DEF ReceiveIInv, Types, Exclusive, Phase, Backed, Announced,
      Udp!NoSleepBesidePacket,
            Udp!EmptyFrontIsStale, Receiving, Ending, Udp!listVars, Udp!history, Udp!loopVars, Udp!Go
<1>0. /\ UNCHANGED <<lpc, datagram, added>>
      /\ ~crashed
      /\ Udp!Nobody \notin Users
  BY SyncUdpSocketAssumption DEF Udp!UserStep, Udp!Nobody
<1>1. CASE Udp!Receive(u)
  BY <1>0, <1>1 DEF Udp!Receive, Udp!Begin, Udp!Enter
<1>2. CASE Udp!Send(u)
  BY <1>0, <1>2 DEF Udp!Send, Udp!Begin, Udp!Enter, Udp!Leave
<1>3. CASE Udp!KillConnection(u)
  BY <1>0, <1>3 DEF Udp!KillConnection, Udp!Begin, Udp!Enter
<1>4. CASE Udp!Look(u)
  BY <1>0, <1>4 DEF Udp!Look, Udp!Use
<1>5. CASE Udp!Woken(u)
  <2>1. Types' /\ Exclusive' /\ Phase'
    BY <1>0, <1>5 DEF Udp!Woken
  <2>2. Backed'
    <3>1. SUFFICES ASSUME connected, ~skipped, ~raced
                   PROVE  Len(packets) >= (IF lpc = "signal" THEN 1 ELSE 0) + 1
      BY <1>0, <1>5 DEF Udp!Woken
    <3>2. QED BY <1>5, <3>1 DEF Udp!Woken
  <2>3. Udp!NoSleepBesidePacket' /\ Udp!EmptyFrontIsStale'
    BY <1>0, <1>5 DEF Udp!Woken
  <2>4. QED BY <2>1, <2>2, <2>3
<1>6. CASE Udp!TimeOut(u)
  BY <1>0, <1>6 DEF Udp!TimeOut, Udp!Leave
<1>7. CASE Udp!ReadFront(u)
  <2>1. /\ UNCHANGED <<packets, event, sockLock, skipped, crashed>>
        /\ raced' \in BOOLEAN /\ (raced => raced')
        /\ \/ connected' = FALSE /\ upc' = [upc EXCEPT ![u] = "drain"]
           \/ UNCHANGED connected /\ upc' = [upc EXCEPT ![u] = "pop"]
        /\ upc[u] = "front"
    BY <1>7 DEF Udp!ReadFront, Udp!Use
  <2>2a. Types'
    BY <1>0, <2>1
  <2>2b. Exclusive'
    BY <1>0, <2>1
  <2>2c. Phase'
    BY <1>0, <2>1
  <2>3. Backed'
    BY <1>0, <2>1
  <2>4. Udp!NoSleepBesidePacket' /\ Udp!EmptyFrontIsStale'
    BY <1>0, <2>1
  <2>5. QED BY <2>2a, <2>2b, <2>2c, <2>3, <2>4
<1>8. CASE Udp!FrontOfNothing(u) \/ Udp!PopOfNothing(u)
  <2>1. /\ upc[u] \in {"front", "pop"} /\ (Len(packets) = 0 \/ raced')
        /\ UNCHANGED <<packets, event, connected, skipped, sockLock, upc>>
        /\ raced' \in BOOLEAN /\ (raced => raced') /\ crashed' = TRUE
    BY <1>8 DEF Udp!FrontOfNothing, Udp!PopOfNothing, Udp!Use
  <2>2. skipped \/ raced'
    BY <2>1
  <2>3. QED BY <1>0, <2>1, <2>2
<1>9. CASE Udp!Pop(u)
  <2>0. \/ packets # <<>> /\ packets' = Tail(packets)
        \/ raced' /\ packets' = packets
    BY <1>9 DEF Udp!Pop, Udp!Use
  <2>1. packets' \in Seq(Nat) /\ (Len(packets') = Len(packets) - 1 \/ raced')
    <3>1. packets \in Seq(Nat)
      OBVIOUS
    <3>2. CASE packets # <<>> /\ packets' = Tail(packets)
      BY <3>1, <3>2
    <3>3. QED BY <2>0, <3>1, <3>2
  <2>2. /\ UNCHANGED <<event, skipped, crashed, connected>>
        /\ raced' \in BOOLEAN /\ (raced => raced')
        /\ sockLock' = Udp!Nobody
        /\ upc[u] = "pop" /\ upc' = [upc EXCEPT ![u] = "idle"]
    BY <1>9 DEF Udp!Pop, Udp!Leave, Udp!Use
  <2>3. \A w \in Users : upc'[w] = "idle"
    BY <2>2
  <2>4. Types' /\ Exclusive' /\ Phase'
    BY <1>0, <2>1, <2>2, <2>3
  <2>5. Backed'
    BY <1>0, <2>1, <2>2, <2>3
  <2>6. Udp!NoSleepBesidePacket' /\ Udp!EmptyFrontIsStale'
    BY <1>0, <2>2, <2>3
  <2>7. QED BY <2>4, <2>5, <2>6
<1>10. CASE Udp!Drain(u)
  BY <1>0, <1>10 DEF Udp!Drain, Udp!Use
<1>11. CASE Udp!LeaveContainer(u)
  BY <1>0, <1>11 DEF Udp!LeaveContainer
<1>12. CASE Udp!Notify(u)
  BY <1>0, <1>12 DEF Udp!Notify
<1>13. CASE Udp!Return(u)
  BY <1>0, <1>13 DEF Udp!Return, Udp!Leave
<1>14. QED
  BY <1>1, <1>2, <1>3, <1>4, <1>5, <1>6, <1>7, <1>8, <1>9, <1>10, <1>11, <1>12, <1>13
  DEF Udp!UserStep, Udp!CallStep

LEMMA Stutter == ReceiveIInv /\ UNCHANGED Udp!vars => ReceiveIInv'
BY DEF Udp!vars, Udp!listVars, Udp!loopVars, Udp!history, ReceiveIInv, Types, Exclusive,
   Phase, Backed,
       Announced, Udp!NoSleepBesidePacket, Udp!EmptyFrontIsStale

LEMMA ReceiveInvariance == Udp!Spec => []ReceiveIInv
<1>1. ReceiveIInv /\ [Udp!Next]_(Udp!vars) => ReceiveIInv'
  BY LoopIInv, UserIInv, Stutter DEF Udp!Next
<1>2. QED BY InitReceive, <1>1, PTL DEF Udp!Spec

-----------------------------------------------------------------------------
(* The packets.                                                            *)

(* Got, queued and added, as a predicate of their values. *)
Accounted(g, q, n) ==
  /\ Len(g) <= n
  /\ g = [i \in 1..Len(g) |-> i]
  /\ {q[i] : i \in DOMAIN q} \ {0} = (Len(g) + 1)..n
  /\ \A i, j \in DOMAIN q : i < j /\ q[j] # 0 => q[i] < q[j]

(* An empty packet that is queued changes nothing; the next one goes on    *)
(* where the others end.                                                   *)
LEMMA AddAccounted ==
  ASSUME NEW g \in Seq(Nat), NEW q \in Seq(Nat), NEW n \in Nat, NEW d \in {0, n + 1},
         Accounted(g, q, n)
  PROVE  Accounted(g, Append(q, d), IF d = 0 THEN n ELSE d)
<1> DEFINE r == Append(q, d)
           m == IF d = 0 THEN n ELSE d
<1>1. /\ r \in Seq(Nat) /\ Len(r) = Len(q) + 1 /\ DOMAIN r = 1..(Len(q) + 1)
      /\ DOMAIN q = 1..Len(q)
      /\ \A i \in 1..Len(q) : r[i] = q[i]
      /\ r[Len(q) + 1] = d
  OBVIOUS
<1>2. Len(q) \in Nat /\ Len(g) \in Nat /\ m \in Nat /\ d \in Nat /\ n <= m
  OBVIOUS
<1>3. \A i \in DOMAIN q : q[i] \in Nat /\ q[i] <= n
  <2> SUFFICES ASSUME NEW i \in DOMAIN q PROVE q[i] \in Nat /\ q[i] <= n
    OBVIOUS
  <2>1. q[i] \in Nat
    BY <1>1
  <2>2. q[i] = 0 \/ q[i] \in (Len(g) + 1)..n
    BY DEF Accounted
  <2>3. QED BY <1>2, <2>1, <2>2
<1> HIDE DEF r, m
<1>4. {r[i] : i \in DOMAIN r} \ {0} = (Len(g) + 1)..m
  <2>1. {r[i] : i \in DOMAIN r} = {q[i] : i \in DOMAIN q} \cup {d}
    BY <1>1, <1>2, SMTT(20)
  <2>2. ({r[i] : i \in DOMAIN r} \ {0}) = ({q[i] : i \in DOMAIN q} \ {0}) \cup ({d} \ {0})
    BY <2>1
  <2>3. CASE d = 0
    BY <2>2, <2>3 DEF m, Accounted
  <2>4. CASE d = n + 1
    <3>1. m = n + 1 /\ {d} \ {0} = {n + 1}
      BY <2>4 DEF m
    <3>2. (Len(g) + 1)..(n + 1) = ((Len(g) + 1)..n) \cup {n + 1}
      BY <1>2 DEF Accounted
    <3>3. QED BY <2>2, <3>1, <3>2 DEF Accounted
  <2>5. QED BY <2>3, <2>4
<1>5. ASSUME NEW i \in DOMAIN r, NEW j \in DOMAIN r, i < j, r[j] # 0 PROVE r[i] < r[j]
  <2>1. CASE j = Len(q) + 1
    <3>1. i \in DOMAIN q /\ r[i] = q[i] /\ r[j] = d /\ d = n + 1
      BY <1>1, <1>2, <1>5, <2>1
    <3>2. QED BY <1>2, <1>3, <3>1
  <2>2. CASE j # Len(q) + 1
    <3>1. i \in DOMAIN q /\ j \in DOMAIN q /\ r[i] = q[i] /\ r[j] = q[j]
      BY <1>1, <1>2, <1>5, <2>2
    <3>2. QED BY <1>5, <3>1 DEF Accounted
  <2>3. QED BY <2>1, <2>2
<1>6. Len(g) <= m /\ g = [i \in 1..Len(g) |-> i]
  BY <1>2 DEF Accounted
<1>7. Accounted(g, r, m)
  BY <1>4, <1>5, <1>6 DEF Accounted
<1>8. QED BY <1>7 DEF r, m

(* The packet at the front is the next one to get.                         *)
LEMMA PopAccounted ==
  ASSUME NEW g \in Seq(Nat), NEW q \in Seq(Nat), NEW n \in Nat,
         q # <<>>, Head(q) # 0, Accounted(g, q, n)
  PROVE  Accounted(Append(g, Head(q)), Tail(q), n)
<1> DEFINE h == Append(g, Head(q))
           r == Tail(q)
<1>1. /\ r \in Seq(Nat) /\ Len(r) = Len(q) - 1
      /\ DOMAIN q = 1..Len(q) /\ DOMAIN r = 1..(Len(q) - 1)
      /\ \A i \in 1..(Len(q) - 1) : r[i] = q[i + 1]
      /\ Head(q) = q[1] /\ Len(q) \in Nat /\ Len(q) >= 1 /\ q[1] \in Nat
  OBVIOUS
<1>2. Len(g) \in Nat /\ h \in Seq(Nat) /\ Len(h) = Len(g) + 1
  BY <1>1
<1>3. \A i \in DOMAIN q : q[i] \in Nat /\ (q[i] # 0 => q[i] \in (Len(g) + 1)..n)
  BY <1>1 DEF Accounted
<1> HIDE DEF h, r
<1>4. q[1] = Len(g) + 1 /\ Len(g) + 1 <= n
  <2>0. 1 \in DOMAIN q /\ q[1] # 0
    BY <1>1
  <2>1. q[1] >= Len(g) + 1 /\ q[1] <= n
    <3>1. q[1] \in (Len(g) + 1)..n
      BY <1>3, <2>0
    <3>2. QED BY <1>1, <1>2, <3>1
  <2>2. Len(g) + 1 \in (Len(g) + 1)..n
    BY <1>1, <1>2, <2>1
  <2>3. PICK k \in DOMAIN q : q[k] = Len(g) + 1
    BY <2>2 DEF Accounted
  <2>4. k = 1 \/ q[1] < q[k]
    <3>1. q[k] # 0 /\ (k = 1 \/ 1 < k)
      BY <1>1, <1>2, <2>3
    <3>2. QED BY <2>0, <3>1 DEF Accounted
  <2>5. QED BY <1>1, <1>2, <2>1, <2>2, <2>3, <2>4
<1>5. h = [i \in 1..Len(h) |-> i]
  <2>1. DOMAIN h = 1..(Len(g) + 1) /\ (\A i \in 1..Len(g) : h[i] = g[i]) /\ h[Len(g) + 1] = q[1]
    BY <1>1, <1>2 DEF h
  <2>2. \A i \in 1..Len(g) : g[i] = i
    BY DEF Accounted
  <2>3. \A i \in 1..Len(h) : h[i] = i
    <3>1. ASSUME NEW i \in 1..Len(h) PROVE h[i] = i
      <4>1. i \in 1..Len(g) \/ i = Len(g) + 1
        BY <1>2, <3>1
      <4>2. QED BY <1>4, <2>1, <2>2, <4>1
    <3>2. QED BY <3>1
  <2>4. DOMAIN h = 1..Len(h) /\ h = [i \in DOMAIN h |-> h[i]]
    BY <1>2, <2>1
  <2>5. QED BY <2>3, <2>4
<1>6. {r[i] : i \in DOMAIN r} \ {0} = (Len(h) + 1)..n
  <2>1. ASSUME NEW x \in {r[i] : i \in DOMAIN r} \ {0} PROVE x \in (Len(h) + 1)..n
    <3>1. PICK i \in DOMAIN r : x = r[i]
      BY <2>1
    <3>2. i + 1 \in DOMAIN q /\ x = q[i + 1] /\ 1 < i + 1 /\ 1 \in DOMAIN q /\ x # 0
      BY <1>1, <2>1, <3>1, SMTT(20)
    <3>3. q[1] < x
      BY <3>2 DEF Accounted
    <3>4. QED BY <1>2, <1>3, <1>4, <3>2, <3>3
  <2>2. ASSUME NEW x \in (Len(h) + 1)..n PROVE x \in {r[i] : i \in DOMAIN r} \ {0}
    <3>1. x \in (Len(g) + 1)..n /\ x # 0 /\ x # Len(g) + 1
      BY <1>2, <2>2
    <3>2. PICK i \in DOMAIN q : q[i] = x
      BY <3>1 DEF Accounted
    <3>3. i \in 2..Len(q)
      BY <1>1, <1>4, <3>1, <3>2
    <3>4. i - 1 \in DOMAIN r /\ r[i - 1] = x
      BY <1>1, <3>2, <3>3, SMTT(20)
    <3>5. QED BY <3>1, <3>4
  <2>3. QED BY <2>1, <2>2
<1>7. ASSUME NEW i \in DOMAIN r, NEW j \in DOMAIN r, i < j, r[j] # 0 PROVE r[i] < r[j]
  <2>0. i \in 1..(Len(q) - 1) /\ j \in 1..(Len(q) - 1)
    BY <1>1, <1>7
  <2>1. i + 1 \in DOMAIN q /\ j + 1 \in DOMAIN q /\ i + 1 < j + 1
    <3>1. Len(q) \in Nat /\ i < j
      BY <1>1, <1>7
    <3>2. i + 1 \in 1..Len(q) /\ j + 1 \in 1..Len(q) /\ i + 1 < j + 1
      BY <2>0, <3>1
    <3>3. QED BY <1>1, <3>2
  <2>2. r[i] = q[i + 1] /\ r[j] = q[j + 1]
    BY <1>1, <1>7
  <2>3. QED BY <1>7, <2>1, <2>2 DEF Accounted
<1>8. Accounted(h, r, n)
  BY <1>2, <1>4, <1>5, <1>6, <1>7 DEF Accounted
<1>9. QED BY <1>8 DEF h, r

LEMMA AccountedIs ==
  Udp!NothingLostOrRepeated <=> (connected /\ ~raced => Accounted(got, packets, added))
BY DEF Udp!NothingLostOrRepeated, Accounted

(* No packet is lost in the beginning. *)
LEMMA InitPackets == Udp!Init => PacketInv
<1> SUFFICES ASSUME Udp!Init PROVE PacketInv
  OBVIOUS
<1>1. got = <<>> /\ packets = <<>> /\ added = 0 /\ datagram = 1 /\ lpc = "start"
  BY DEF Udp!Init
<1>2. got \in Seq(Nat) /\ packet \in [Users -> Nat]
  <2>1. packet = [u \in Users |-> 0]
    BY DEF Udp!Init
  <2>2. QED BY <1>1, <2>1
<1>3. \A u \in Users : upc[u] = "idle"
  BY DEF Udp!Init
<1>4. Accounted(<<>>, <<>>, 0)
  BY DEF Accounted
<1>5. QED
  BY <1>1, <1>2, <1>3, <1>4, AccountedIs DEF PacketInv, Fresh, FrontIsThere

(* The loop adds packets in their order, *)
LEMMA LoopPackets == ReceiveIInv /\ PacketInv /\ Udp!LoopStep => PacketInv'
<1> SUFFICES ASSUME ReceiveIInv, PacketInv, Udp!LoopStep PROVE PacketInv'
  OBVIOUS
<1>0. /\ UNCHANGED <<connected, raced, upc, packet, got>>
      /\ got \in Seq(Nat) /\ packets \in Seq(Nat) /\ added \in Nat
      /\ connected /\ ~raced => Accounted(got, packets, added)
  BY AccountedIs DEF Udp!LoopStep, Udp!history, PacketInv, ReceiveIInv, Types
<1>1. CASE UNCHANGED <<packets, added>> /\ Fresh'
  BY <1>0, <1>1 DEF PacketInv, FrontIsThere, Udp!NothingLostOrRepeated
<1>2. CASE Udp!AddPushed
  <2>1. /\ lpc = "store" /\ lpc' = "signal"
        /\ packets' = Append(packets, datagram) \/ raced
        /\ added' = IF datagram = 0 THEN added ELSE datagram
        /\ datagram \in {0, added + 1}
    BY <1>2 DEF Udp!AddPushed, PacketInv, Fresh
  <2>2. Fresh'
    BY <2>1 DEF Fresh
  <2>3. FrontIsThere'
    <3>1. ~raced /\ packets # <<>> => packets' # <<>> /\ Head(packets') = Head(packets)
      BY <1>0, <2>1
    <3>2. QED BY <1>0, <3>1 DEF PacketInv, FrontIsThere
  <2>4. connected' /\ ~raced' => Accounted(got', packets', added')
    BY <1>0, <2>1, AddAccounted
  <2>5. Udp!NothingLostOrRepeated'
    BY <2>4 DEF Udp!NothingLostOrRepeated, Accounted
  <2>6. QED BY <1>0, <2>2, <2>3, <2>5 DEF PacketInv
<1>3. CASE Udp!StartThread \/ Udp!Datagram \/ Udp!Find \/ Udp!AddLock \/ Udp!AddPush \/ Udp!AddSignal
  <2>1. UNCHANGED <<packets, added>>
    BY <1>3 DEF Udp!StartThread, Udp!Datagram, Udp!Find, Udp!AddLock, Udp!AddPush,
       Udp!AddSignal,
       Udp!listVars
  <2>2. Fresh'
    BY <1>3 DEF Udp!StartThread, Udp!Datagram, Udp!Find, Udp!AddLock, Udp!AddPush,
       Udp!AddSignal,
       PacketInv, Fresh
  <2>3. QED BY <1>1, <2>1, <2>2
<1>4. QED BY <1>2, <1>3 DEF Udp!LoopStep

(* and a Receive takes the first one. *)
LEMMA UserPackets ==
  ASSUME NEW u \in Users, ReceiveIInv, PacketInv, Udp!UserStep(u) PROVE PacketInv'
<1>0. /\ UNCHANGED <<lpc, datagram, added>>
      /\ got \in Seq(Nat) /\ packet \in [Users -> Nat] /\ packets \in Seq(Nat) /\ added \in Nat
      /\ upc \in [Users -> {"idle", "send"} \cup Receiving \cup Ending]
      /\ connected /\ ~raced => Accounted(got, packets, added)
      /\ connected \in BOOLEAN /\ raced \in BOOLEAN
      /\ raced => raced'
  <2>1. raced => raced'
    BY DEF Udp!UserStep, Udp!CallStep, Udp!Receive, Udp!Send, Udp!KillConnection, Udp!Look,
       Udp!Woken, Udp!TimeOut, Udp!ReadFront, Udp!FrontOfNothing, Udp!Pop, Udp!PopOfNothing,
       Udp!Drain, Udp!LeaveContainer, Udp!Notify, Udp!Return, Udp!Use, Udp!history
  <2>2. QED
    BY <2>1, AccountedIs DEF Udp!UserStep, Udp!loopVars, PacketInv, ReceiveIInv, Types
<1>1. Fresh'
  BY <1>0 DEF Fresh, PacketInv
(* After a race only the types count. *)
<1>1a. ASSUME raced', got' \in Seq(Nat), packet' \in [Users -> Nat] PROVE PacketInv'
  BY <1>1, <1>1a DEF PacketInv, FrontIsThere, Udp!NothingLostOrRepeated
(* Every other step leaves the front to the thread that has read it. *)
<1>2. ASSUME UNCHANGED <<got, packet>>, \/ UNCHANGED packets /\ (connected' => connected)
                                       \/ ~connected',
             NEW pc, upc' = [upc EXCEPT ![u] = pc], pc # "pop", upc[u] # "pop",
             \A w \in Users \ {u} : upc[w] # "pop" \/ UNCHANGED packets
      PROVE  PacketInv'
  <2>1. FrontIsThere'
    BY <1>0, <1>2 DEF FrontIsThere, PacketInv
  <2>2. Udp!NothingLostOrRepeated'
    BY <1>0, <1>2 DEF Udp!NothingLostOrRepeated, PacketInv
  <2>3. QED BY <1>0, <1>1, <1>2, <2>1, <2>2 DEF PacketInv
<1>3. CASE Udp!Receive(u) \/ Udp!Send(u) \/ Udp!KillConnection(u)
  <2>1. UNCHANGED <<got, packet, packets>> /\ (connected' => connected)
    BY <1>3 DEF Udp!Receive, Udp!Send, Udp!KillConnection, Udp!Begin, Udp!listVars,
       Udp!history
  <2>2. upc[u] # "pop" /\ \E pc : upc' = [upc EXCEPT ![u] = pc] /\ pc # "pop"
    BY <1>3 DEF Udp!Receive, Udp!Send, Udp!KillConnection, Udp!Begin, Udp!Go, Udp!Leave
  <2>3. QED BY <1>2, <2>1, <2>2
<1>4. CASE Udp!Look(u) \/ Udp!Woken(u) \/ Udp!TimeOut(u) \/ Udp!LeaveContainer(u) \/ Udp!Notify(u) \/ Udp!Return(u)
  <2>1. UNCHANGED <<got, packet, packets>> /\ (connected' => connected)
    BY <1>4 DEF Udp!Look, Udp!Woken, Udp!TimeOut, Udp!LeaveContainer, Udp!Notify,
       Udp!Return, Udp!listVars, Udp!history
  <2>2. upc[u] # "pop" /\ \E pc : upc' = [upc EXCEPT ![u] = pc] /\ pc # "pop"
    BY <1>4 DEF Udp!Look, Udp!Woken, Udp!TimeOut, Udp!LeaveContainer, Udp!Notify,
       Udp!Return, Udp!Go, Udp!Leave
  <2>3. QED BY <1>2, <2>1, <2>2
<1>5. CASE Udp!FrontOfNothing(u) \/ Udp!PopOfNothing(u)
  BY <1>0, <1>1, <1>5
  DEF Udp!FrontOfNothing, Udp!PopOfNothing, Udp!listVars, Udp!history, PacketInv, FrontIsThere,
      Udp!NothingLostOrRepeated
<1>6. CASE Udp!Drain(u)
  <2>1. upc[u] = "drain" /\ UNCHANGED <<got, packet, connected>>
        /\ upc' = [upc EXCEPT ![u] = "remove"]
    BY <1>6 DEF Udp!Drain, Udp!Go, Udp!history
  <2>2. ~connected /\ \A w \in Users \ {u} : upc[w] = "idle"
    BY <2>1 DEF ReceiveIInv, Phase, Exclusive, Ending
  <2>3. QED BY <1>2, <2>1, <2>2
<1>7. CASE Udp!ReadFront(u)
  <2>0. packet' \in [Users -> Nat] /\ got' = got
    BY <1>0, <1>7, SyncUdpSocketAssumption DEF Udp!ReadFront
  <2> SUFFICES ASSUME ~raced' PROVE PacketInv'
    BY <1>0, <1>1a, <2>0
  <2>1. /\ upc[u] = "front" /\ packets # <<>> /\ UNCHANGED <<packets, got>>
        /\ packet' = [packet EXCEPT ![u] = Head(packets)]
        /\ \/ upc' = [upc EXCEPT ![u] = "drain"] /\ connected' = FALSE
           \/ upc' = [upc EXCEPT ![u] = "pop"] /\ UNCHANGED connected /\ Head(packets) # 0
    BY <1>7 DEF Udp!ReadFront, Udp!Go, Udp!Use
  <2>2. packet' \in [Users -> Nat]
    BY <1>0, <2>1
  <2>3. FrontIsThere'
    BY <1>0, <2>1 DEF FrontIsThere, PacketInv
  <2>4. Udp!NothingLostOrRepeated'
    BY <1>0, <2>1 DEF Udp!NothingLostOrRepeated, PacketInv
  <2>5. QED BY <1>0, <1>1, <2>1, <2>2, <2>3, <2>4 DEF PacketInv
<1>8. CASE Udp!Pop(u)
  <2>0. got' \in Seq(Nat) /\ packet' \in [Users -> Nat]
    BY <1>0, <1>8 DEF Udp!Pop
  <2> SUFFICES ASSUME ~raced' PROVE PacketInv'
    BY <1>1a, <2>0
  <2>1. /\ upc[u] = "pop" /\ packets # <<>>
        /\ got' = Append(got, packet[u]) /\ packets' = Tail(packets)
        /\ packet' = [packet EXCEPT ![u] = 0]
        /\ upc' = [upc EXCEPT ![u] = "idle"] /\ UNCHANGED connected
    BY <1>8 DEF Udp!Pop, Udp!Leave, Udp!Go, Udp!Use
  <2>2. packet[u] = Head(packets) /\ Head(packets) # 0 /\ connected
    BY <1>0, <2>1 DEF PacketInv, FrontIsThere, ReceiveIInv, Phase, Receiving
  <2>3. \A w \in Users : upc'[w] = "idle"
    BY <1>0, <2>1 DEF ReceiveIInv, Exclusive
  <2>4. FrontIsThere'
    BY <2>3 DEF FrontIsThere
  <2>5. Accounted(got', packets', added')
    BY <1>0, <2>1, <2>2, PopAccounted
  <2>6. Udp!NothingLostOrRepeated'
    BY <2>5 DEF Udp!NothingLostOrRepeated, Accounted
  <2>7. got' \in Seq(Nat) /\ packet' \in [Users -> Nat]
    BY <1>0, <2>1
  <2>8. QED BY <1>1, <2>4, <2>6, <2>7 DEF PacketInv
<1>9. QED
  BY <1>3, <1>4, <1>5, <1>6, <1>7, <1>8 DEF Udp!UserStep, Udp!CallStep

(* So the packets are always accounted for. *)
LEMMA PacketInvariance == Udp!Spec => []PacketInv
<1>1. ReceiveIInv /\ PacketInv /\ UNCHANGED Udp!vars => PacketInv'
  BY DEF Udp!vars, Udp!listVars, Udp!loopVars, Udp!history, PacketInv, Fresh, FrontIsThere,
     Udp!NothingLostOrRepeated
<1>2. ReceiveIInv /\ PacketInv /\ [Udp!Next]_(Udp!vars) => PacketInv'
  BY <1>1, LoopPackets, UserPackets DEF Udp!Next
<1>3. QED BY ReceiveInvariance, InitPackets, <1>2, PTL DEF Udp!Spec

-----------------------------------------------------------------------------
(* What Receive returned and what is queued are the packets that addPacket *)
(* queued, once and in order, until the connection ends, although the look *)
(* at the front and the pop (epSyncUdpSocket.cpp 141-151) may run without  *)
(* m_listLock: as long as they never do so in the middle of a push (106).  *)
THEOREM ReceivedInOrder == Udp!Spec => []NothingLostOrRepeated
<1>1. PacketInv => Udp!NothingLostOrRepeated
  BY DEF PacketInv
<1>2. QED BY PacketInvariance, <1>1, SameReceivePromises, PTL

(* No receiver sleeps beside a packet, whatever the order of addPacket,    *)
(* Receive, its time-out and KillConnection (epSyncUdpSocket.cpp 101-137). *)
THEOREM ReceiverIsWoken == Udp!Spec => []NoSleepBesidePacket
<1>1. ReceiveIInv => Udp!NoSleepBesidePacket
  BY DEF ReceiveIInv
<1>2. QED BY ReceiveInvariance, <1>1, SameReceivePromises, PTL

(* The front of an empty queue (line 141) is read only after some Receive  *)
(* found its packet at once, or the queue was used in the middle of a      *)
(* push.                                                                   *)
THEOREM EmptyFrontNeedsSkip == Udp!Spec => []EmptyFrontIsStale
<1>1. ReceiveIInv => Udp!EmptyFrontIsStale
  BY DEF ReceiveIInv
<1>2. QED BY ReceiveInvariance, <1>1, SameReceivePromises, PTL

(* Receive, Send and KillConnection exclude each other from their first    *)
(* step to their last, the wait for the event included.                    *)
THEOREM CallsExclude ==
  Udp!Spec => [](\A u, w \in Users : upc[u] # "idle" /\ upc[w] # "idle" => u = w)
<1>1. ReceiveIInv => \A u, w \in Users : upc[u] # "idle" /\ upc[w] # "idle" => u = w
  BY DEF ReceiveIInv, Exclusive
<1>2. QED BY ReceiveInvariance, <1>1, PTL
=============================================================================
