------------------------- MODULE EventPipelineProofs -------------------------
(***************************************************************************)
(* Proofs about EventPipeline, for rings, queues and phones of any size:   *)
(* the circular buffer is a log of the last RingMax events.                *)
(***************************************************************************)
EXTENDS EventPipeline, SequenceTheorems, TLAPS

(* Round the circle: where the head goes, where reading starts, and which    *)
(* slot is read i-th, for a ring with head h and count c.                   *)
Further(h)     == (h + 1) % RingMax
Start(h, c)    == (h + RingMax - c) % RingMax
Place(h, c, i) == (Start(h, c) + i - 1) % RingMax

RingOf(s, h, c) == [i \in 1..c |-> s[Place(h, c, i)]]

RingInv ==
  /\ slot \in [0..(RingMax - 1) -> Event \cup {0}]
  /\ head \in 0..(RingMax - 1) /\ count \in 0..RingMax
  /\ made \in 0..MaxEvents

(* The ring has room for an entry at least. *)
LEMMA RingSize == RingMax \in Nat \ {0} /\ MaxEvents \in Nat
BY EventPipelineAssumption DEF EventPipelineAssumption

-----------------------------------------------------------------------------
(* Arithmetic. *)

(* The head after a push, and the oldest entry, without the remainder. *)
LEMMA FurtherIs ==
  ASSUME NEW h \in 0..(RingMax - 1)
  PROVE  /\ Further(h) \in 0..(RingMax - 1)
         /\ Further(h) = IF h + 1 < RingMax THEN h + 1 ELSE 0
BY RingSize DEF Further

(* Reading starts on the circle, count slots before the head. *)
LEMMA StartIs ==
  ASSUME NEW h \in 0..(RingMax - 1), NEW c \in 0..RingMax
  PROVE  /\ Start(h, c) \in 0..(RingMax - 1)
         /\ Start(h, c) = IF h < c THEN h + RingMax - c ELSE h - c
BY RingSize DEF Start

(* Fewer than RingMax steps from a slot: at most once round. *)
LEMMA StepsOn ==
  ASSUME NEW x \in 0..(RingMax - 1), NEW i \in 1..RingMax
  PROVE  /\ (x + i - 1) % RingMax \in 0..(RingMax - 1)
         /\ (x + i - 1) % RingMax = IF x + i - 1 < RingMax THEN x + i - 1
                                                         ELSE x + i - 1 - RingMax
BY RingSize

(* The place of the i-th entry, without the remainder. *)
LEMMA PlaceIs ==
  ASSUME NEW h \in 0..(RingMax - 1), NEW c \in 0..RingMax, NEW i \in 1..RingMax
  PROVE  /\ Place(h, c, i) \in 0..(RingMax - 1)
         /\ Place(h, c, i) = IF Start(h, c) + i - 1 < RingMax THEN Start(h, c) + i - 1
                                           ELSE Start(h, c) + i - 1 - RingMax
<1> DEFINE x == Start(h, c)
<1>1. x \in 0..(RingMax - 1)
  BY StartIs
<1> HIDE DEF x
<1>2. /\ (x + i - 1) % RingMax \in 0..(RingMax - 1)
      /\ (x + i - 1) % RingMax = IF x + i - 1 < RingMax THEN x + i - 1
                                                      ELSE x + i - 1 - RingMax
  BY <1>1, StepsOn
<1>3. QED
  BY <1>2 DEF x, Place

(* A push into a ring that is not full leaves every place where it was, and  *)
(* the new entry comes last.                                                *)
LEMMA PlacesKept ==
  ASSUME NEW h \in 0..(RingMax - 1), NEW c \in 0..RingMax, c < RingMax
  PROVE  /\ \A i \in 1..c : Place(Further(h), c + 1, i) = Place(h, c, i) /\ Place(h, c, i) # h
         /\ Place(Further(h), c + 1, c + 1) = h
<1> DEFINE g == Further(h)
           x == Start(h, c)
<1>1. /\ g \in 0..(RingMax - 1) /\ g = IF h + 1 < RingMax THEN h + 1 ELSE 0
  BY FurtherIs
<1>2. /\ x \in 0..(RingMax - 1) /\ x = IF h < c THEN h + RingMax - c ELSE h - c
  BY StartIs
<1>3. c + 1 \in 0..RingMax
  BY RingSize
<1>4. Start(g, c + 1) = IF g < c + 1 THEN g + RingMax - (c + 1) ELSE g - (c + 1)
  BY <1>1, <1>3, StartIs
<1> HIDE DEF g, x
<1>5. Start(g, c + 1) = x
  BY <1>1, <1>2, <1>4, RingSize
<1>6. ASSUME NEW i \in 1..c
      PROVE  Place(g, c + 1, i) = Place(h, c, i) /\ Place(h, c, i) # h
  <2>1. Place(g, c + 1, i) = Place(h, c, i)
    BY <1>5 DEF Place, x
  <2>2. i \in 1..RingMax
    BY RingSize
  <2>3. Place(h, c, i) = IF x + i - 1 < RingMax THEN x + i - 1 ELSE x + i - 1 - RingMax
    BY <2>2, PlaceIs DEF x
  <2>4. (IF x + i - 1 < RingMax THEN x + i - 1 ELSE x + i - 1 - RingMax) # h
    BY <1>2, RingSize
  <2>5. QED
    BY <2>1, <2>3, <2>4
<1>7. Place(g, c + 1, c + 1) = h
  <2>1. Place(g, c + 1, c + 1) = (x + (c + 1) - 1) % RingMax
    BY <1>5 DEF Place
  <2>2. c + 1 \in 1..RingMax
    BY RingSize
  <2>3. (x + (c + 1) - 1) % RingMax = IF x + (c + 1) - 1 < RingMax THEN x + (c + 1) - 1
                                                        ELSE x + (c + 1) - 1 - RingMax
    BY <1>2, <2>2, StepsOn
  <2>4. (IF x + (c + 1) - 1 < RingMax THEN x + (c + 1) - 1 ELSE x + (c + 1) - 1 - RingMax) = h
    BY <1>2, RingSize
  <2>5. QED
    BY <2>1, <2>3, <2>4
<1>8. QED
  BY <1>6, <1>7 DEF g

(* A push into a full ring moves every place one up; the oldest is reused.   *)
LEMMA PlacesMoveUp ==
  ASSUME NEW h \in 0..(RingMax - 1)
  PROVE  /\ \A i \in 1..(RingMax - 1) :
              /\ Place(Further(h), RingMax, i) = Place(h, RingMax, i + 1)
              /\ Place(h, RingMax, i + 1) # h
         /\ Place(Further(h), RingMax, RingMax) = h
<1> DEFINE g == Further(h)
<1>1. /\ g \in 0..(RingMax - 1) /\ g = IF h + 1 < RingMax THEN h + 1 ELSE 0
  BY FurtherIs
<1> HIDE DEF g
<1>2. RingMax \in 0..RingMax
  BY RingSize
<1>3. ASSUME NEW k \in 0..(RingMax - 1) PROVE Start(k, RingMax) = k
  <2>1. Start(k, RingMax) = IF k < RingMax THEN k + RingMax - RingMax ELSE k - RingMax
    BY <1>2, StartIs
  <2>2. QED
    BY <2>1, RingSize
<1>4. ASSUME NEW k \in 0..(RingMax - 1), NEW i \in 1..RingMax
      PROVE  Place(k, RingMax, i) = IF k + i - 1 < RingMax THEN k + i - 1
                                                   ELSE k + i - 1 - RingMax
  <2>1. Place(k, RingMax, i) = (k + i - 1) % RingMax
    BY <1>3 DEF Place
  <2>2. QED
    BY <2>1, StepsOn
<1>5. ASSUME NEW i \in 1..(RingMax - 1)
      PROVE  Place(g, RingMax, i) = Place(h, RingMax, i + 1) /\ Place(h, RingMax, i + 1) # h
  <2>1. i \in 1..RingMax /\ i + 1 \in 1..RingMax
    BY RingSize
  <2>2. Place(g, RingMax, i) = IF g + i - 1 < RingMax THEN g + i - 1 ELSE g + i - 1 - RingMax
    BY <1>1, <1>4, <2>1
  <2>3. Place(h, RingMax, i + 1)
          = IF h + (i + 1) - 1 < RingMax THEN h + (i + 1) - 1 ELSE h + (i + 1) - 1 - RingMax
    BY <1>4, <2>1
  <2>4. QED
    BY <1>1, <2>2, <2>3, RingSize
<1>6. Place(g, RingMax, RingMax) = h
  <2>1. RingMax \in 1..RingMax
    BY RingSize
  <2>2. Place(g, RingMax, RingMax)
          = IF g + RingMax - 1 < RingMax THEN g + RingMax - 1 ELSE g + RingMax - 1 - RingMax
    BY <1>1, <1>4, <2>1
  <2>3. QED
    BY <1>1, <2>2, RingSize
<1>7. QED
  BY <1>5, <1>6 DEF g

-----------------------------------------------------------------------------
(* Rings as sequences. *)

(* Reading a ring gives a sequence of its slots, of the counted length. *)
LEMMA RingIsSeq ==
  ASSUME NEW X, NEW s \in [0..(RingMax - 1) -> X],
         NEW h \in 0..(RingMax - 1), NEW c \in 0..RingMax
  PROVE  /\ RingOf(s, h, c) \in Seq(X)
         /\ Len(RingOf(s, h, c)) = c
         /\ \A i \in 1..c : RingOf(s, h, c)[i] = s[Place(h, c, i)]
<1>1. ASSUME NEW i \in 1..c PROVE s[Place(h, c, i)] \in X
  <2>1. Place(h, c, i) \in 0..(RingMax - 1)
    BY PlaceIs, RingSize
  <2>2. QED
    BY <2>1
<1>2. RingOf(s, h, c) \in [1..c -> X] /\ c \in Nat
  BY <1>1, RingSize DEF RingOf
<1>3. QED
  BY <1>2 DEF RingOf

(* While the ring is not full, a push appends. *)
LEMMA PushAppends ==
  ASSUME NEW X, NEW s \in [0..(RingMax - 1) -> X], NEW e \in X,
         NEW h \in 0..(RingMax - 1), NEW c \in 0..RingMax, c < RingMax
  PROVE  RingOf([s EXCEPT ![h] = e], Further(h), c + 1) = Append(RingOf(s, h, c), e)
<1> DEFINE s2 == [s EXCEPT ![h] = e]
           old == RingOf(s, h, c)
           new == RingOf(s2, Further(h), c + 1)
<1>1. /\ s2 \in [0..(RingMax - 1) -> X] /\ Further(h) \in 0..(RingMax - 1)
      /\ s2[h] = e /\ \A k \in 0..(RingMax - 1) : k # h => s2[k] = s[k]
  BY FurtherIs
<1> HIDE DEF s2
<1>2. c + 1 \in 0..RingMax
  BY RingSize
<1>3. /\ new \in Seq(X) /\ Len(new) = c + 1
      /\ \A i \in 1..(c + 1) : new[i] = s2[Place(Further(h), c + 1, i)]
  BY <1>1, <1>2, RingIsSeq
<1>4. /\ old \in Seq(X) /\ Len(old) = c
      /\ \A i \in 1..c : old[i] = s[Place(h, c, i)]
  BY RingIsSeq
<1>5. /\ Append(old, e) \in Seq(X) /\ Len(Append(old, e)) = c + 1
      /\ \A i \in 1..c : Append(old, e)[i] = old[i]
      /\ Append(old, e)[c + 1] = e
  BY <1>4, AppendProperties
<1> HIDE DEF old, new
<1>6. ASSUME NEW i \in 1..(c + 1) PROVE new[i] = Append(old, e)[i]
  <2>1. CASE i = c + 1
    BY <2>1, <1>1, <1>3, <1>5, PlacesKept
  <2>2. CASE i \in 1..c
    <3>1. Place(Further(h), c + 1, i) = Place(h, c, i) /\ Place(h, c, i) # h
      BY <2>2, PlacesKept
    <3>2. i \in 1..RingMax
      BY <2>2, RingSize
    <3>3. Place(h, c, i) \in 0..(RingMax - 1)
      BY <3>2, PlaceIs
    <3>4. s2[Place(h, c, i)] = s[Place(h, c, i)]
      BY <3>1, <3>3, <1>1
    <3>5. QED
      BY <2>2, <3>1, <3>4, <1>3, <1>4, <1>5
  <2>3. i = c + 1 \/ i \in 1..c
    OBVIOUS
  <2>4. QED
    BY <2>1, <2>2, <2>3
<1>7. new = Append(old, e)
  BY <1>3, <1>5, <1>6, SeqEqual
<1>8. QED
  BY <1>7 DEF new, old, s2

(* When it is full, a push drives out the oldest. *)
LEMMA PushDrivesOut ==
  ASSUME NEW X, NEW s \in [0..(RingMax - 1) -> X], NEW e \in X,
         NEW h \in 0..(RingMax - 1)
  PROVE  RingOf([s EXCEPT ![h] = e], Further(h), RingMax)
           = Append(Tail(RingOf(s, h, RingMax)), e)
<1> DEFINE s2 == [s EXCEPT ![h] = e]
           old == RingOf(s, h, RingMax)
           new == RingOf(s2, Further(h), RingMax)
<1>1. /\ s2 \in [0..(RingMax - 1) -> X] /\ Further(h) \in 0..(RingMax - 1)
      /\ s2[h] = e /\ \A k \in 0..(RingMax - 1) : k # h => s2[k] = s[k]
  BY FurtherIs
<1> HIDE DEF s2
<1>2. RingMax \in 0..RingMax /\ RingMax - 1 \in Nat
  BY RingSize
<1>3. /\ new \in Seq(X) /\ Len(new) = RingMax
      /\ \A i \in 1..RingMax : new[i] = s2[Place(Further(h), RingMax, i)]
  BY <1>1, <1>2, RingIsSeq
<1>4. /\ old \in Seq(X) /\ Len(old) = RingMax
      /\ \A i \in 1..RingMax : old[i] = s[Place(h, RingMax, i)]
  BY <1>2, RingIsSeq
<1>5. /\ Tail(old) \in Seq(X) /\ Len(Tail(old)) = RingMax - 1
      /\ \A i \in 1..(RingMax - 1) : Tail(old)[i] = old[i + 1]
  <2>1. old # <<>>
    BY <1>4, EmptySeq, RingSize
  <2>2. QED
    BY <2>1, <1>4, HeadTailProperties
<1>6. /\ Append(Tail(old), e) \in Seq(X) /\ Len(Append(Tail(old), e)) = RingMax
      /\ \A i \in 1..(RingMax - 1) : Append(Tail(old), e)[i] = Tail(old)[i]
      /\ Append(Tail(old), e)[RingMax] = e
  <2>1. (RingMax - 1) + 1 = RingMax
    BY RingSize
  <2>2. QED
    BY <2>1, <1>5, AppendProperties
<1> HIDE DEF old, new
<1>7. ASSUME NEW i \in 1..RingMax PROVE new[i] = Append(Tail(old), e)[i]
  <2>1. CASE i = RingMax
    BY <2>1, <1>1, <1>3, <1>6, PlacesMoveUp
  <2>2. CASE i \in 1..(RingMax - 1)
    <3>1. /\ Place(Further(h), RingMax, i) = Place(h, RingMax, i + 1)
          /\ Place(h, RingMax, i + 1) # h
      BY <2>2, PlacesMoveUp
    <3>2. i + 1 \in 1..RingMax
      BY <2>2, RingSize
    <3>3. Place(h, RingMax, i + 1) \in 0..(RingMax - 1)
      BY <3>2, <1>2, PlaceIs
    <3>4. s2[Place(h, RingMax, i + 1)] = s[Place(h, RingMax, i + 1)]
      BY <3>1, <3>3, <1>1
    <3>5. QED
      BY <2>2, <3>1, <3>2, <3>4, <1>3, <1>4, <1>5, <1>6
  <2>3. i = RingMax \/ i \in 1..(RingMax - 1)
    BY RingSize
  <2>4. QED
    BY <2>1, <2>2, <2>3
<1>8. new = Append(Tail(old), e)
  BY <1>3, <1>6, <1>7, SeqEqual
<1>9. QED
  BY <1>8 DEF new, old, s2

-----------------------------------------------------------------------------
(* The ring's types are inductive: no step but a push or a clearing touches  *)
(* it, and both stay on the circle.                                         *)
LEMMA RingStep ==
  ASSUME RingInv, [Next]_vars
  PROVE  RingInv'
<1>1. ASSUME NEW p \in Producers, Report(p) PROVE RingInv'
  <2>1. made' \in 1..MaxEvents
    BY <1>1, RingSize DEF RingInv, Report
  <2>2. head' \in 0..(RingMax - 1)
    BY <1>1, FurtherIs DEF RingInv, Report, PushRing, Further
  <2>3. QED
    BY <1>1, <2>1, <2>2, RingSize
       DEF RingInv, Report, PushRing, CountAfterPush, Event
<1>2. ASSUME Ack \/ Restart PROVE RingInv'
  BY <1>2, RingSize DEF RingInv, Ack, Restart, ClearRing
<1>3. CASE UNCHANGED <<ring, made>>
  BY <1>3 DEF RingInv, ring
<1>4. QED
  BY <1>1, <1>2, <1>3
     DEF Next, Produce, Notify, Request, Task, Ready, Take, Arrives, PushFails, Phone,
         Connect, Disconnect, StartRead, ReadPart, history, vars

LEMMA RingTyped == Spec => []RingInv
<1>1. Init => RingInv
  BY RingSize DEF Init, RingInv
<1>2. QED
  BY <1>1, RingStep, PTL DEF Spec

(* What is read of the ring. *)
LEMMA ContentsAre ==
  ASSUME RingInv
  PROVE  /\ Contents = RingOf(slot, head, count) /\ Contents \in Seq(Event \cup {0})
         /\ Len(Contents) = count /\ DOMAIN Contents = 1..count
         /\ \A i \in 1..count : Contents[i] \in Event \cup {0}
<1>1. Contents = RingOf(slot, head, count)
  BY DEF Contents, Oldest, RingOf, Place, Start
<1>2. RingOf(slot, head, count) \in Seq(Event \cup {0}) /\ Len(RingOf(slot, head, count)) = count
  BY RingIsSeq DEF RingInv
<1>3. QED
  BY <1>1, <1>2, LenProperties, ElementOfSeq

(* A report puts its event at the end, and drives the oldest out of a full  *)
(* ring: the one that the head points at.                                   *)
LEMMA ReportPushes ==
  ASSUME RingInv, NEW p \in Producers, Report(p)
  PROVE  /\ made' \in Event
         /\ count < RingMax => count' = count + 1 /\ Contents' = Append(Contents, made')
         /\ count = RingMax => /\ count' = count /\ Contents # <<>> /\ slot[head] = Contents[1]
                               /\ Contents' = Append(Tail(Contents), made')
<1>1. /\ Contents = RingOf(slot, head, count) /\ Len(Contents) = count
      /\ Contents' = RingOf(slot', head', count')
  BY ContentsAre DEF Contents, Oldest, RingOf, Place, Start
<1>2. made' \in Event /\ made' \in Event \cup {0}
  BY RingSize DEF RingInv, Report, Event
<1>3. /\ slot' = [slot EXCEPT ![head] = made'] /\ head' = Further(head)
      /\ count' = IF count < RingMax THEN count + 1 ELSE count
  BY DEF Report, PushRing, CountAfterPush, Further
<1>4. CASE count < RingMax
  <2>1. Contents' = Append(Contents, made')
    BY <1>1, <1>2, <1>3, <1>4, PushAppends DEF RingInv
  <2>2. count' = count + 1 /\ count # RingMax
    BY <1>3, <1>4, RingSize DEF RingInv
  <2>3. QED
    BY <1>2, <2>1, <2>2
<1>5. CASE count = RingMax
  <2>1. /\ Contents = RingOf(slot, head, RingMax)
        /\ Contents' = RingOf([slot EXCEPT ![head] = made'], Further(head), RingMax)
    BY <1>1, <1>3, <1>5, RingSize
  <2>2. Contents' = Append(Tail(Contents), made')
    BY <1>2, <2>1, PushDrivesOut DEF RingInv
  <2>3. Contents # <<>>
    BY <1>1, <1>5, EmptySeq, RingSize
  <2>4. Place(head, RingMax, 1) = head
    <3>1. head \in 0..(RingMax - 1) /\ RingMax \in 0..RingMax /\ 1 \in 1..RingMax
      BY RingSize DEF RingInv
    <3>2. Start(head, RingMax) = head
      BY <3>1, StartIs, RingSize
    <3>3. QED
      BY <3>1, <3>2, PlaceIs, RingSize
  <2>5. slot[head] = Contents[1]
    BY <1>1, <1>5, <2>4, RingIsSeq, RingSize DEF RingInv
  <2>6. count' = count /\ ~(count < RingMax)
    BY <1>3, <1>5, RingSize DEF RingInv
  <2>7. QED
    BY <1>2, <1>5, <2>2, <2>3, <2>5, <2>6
<1>6. QED
  BY <1>2, <1>4, <1>5, RingSize DEF RingInv

(* Nobody else writes into the ring.                                        *)
LEMMA RingSteps ==
  ASSUME Next
  PROVE  \/ \E p \in Producers : Report(p)
         \/ (Ack \/ Restart) /\ count' = 0
         \/ UNCHANGED ring
BY DEF Next, Produce, Notify, Request, Task, Ready, Take, Arrives, PushFails, Phone,
   Connect, Disconnect, StartRead, ReadPart, Ack, Restart, ClearRing

(* The circular buffer, with its head, its count and its wrap-around, is the *)
(* log of the last RingMax events since the acknowledgement, whatever its    *)
(* size (event_buffer.c:35-66, 107-115).                                     *)
THEOREM RingImplementsLog == Spec => RingIsLog
<1>1. Init => Log!Init
  BY DEF Init, Log!Init, Contents
<1>2. RingInv /\ [Next]_vars => [Log!Next]_Contents
  <2> SUFFICES ASSUME RingInv, [Next]_vars PROVE [Log!Next]_Contents
    OBVIOUS
  <2>2. ASSUME NEW p \in Producers, Report(p) PROVE Log!Next
    <3>1. Len(Contents) = count
      BY ContentsAre
    <3>2. CASE count < RingMax
      BY <2>2, <3>1, <3>2, ReportPushes DEF Log!Next, Log!Push, Log!Logged
    <3>3. CASE count = RingMax
      BY <2>2, <3>1, <3>3, ReportPushes, RingSize DEF Log!Next, Log!Push, Log!Logged
    <3>4. QED
      BY <3>2, <3>3, RingSize DEF RingInv
  <2>3. ASSUME Ack \/ Restart PROVE Log!Next
    BY <2>3 DEF Ack, Restart, ClearRing, Contents, Log!Next, Log!Clear
  <2>4. CASE UNCHANGED ring
    BY <2>4 DEF ring, Contents, Oldest
  <2>5. QED
    BY <2>2, <2>3, <2>4
       DEF Next, Produce, Notify, Request, Task, Ready, Take, Arrives, PushFails, Phone,
           Connect, Disconnect, StartRead, ReadPart, vars
<1>3. QED
  BY <1>1, <1>2, RingTyped, PTL DEF Spec, RingIsLog, Log!Spec

-----------------------------------------------------------------------------
(* The invariants. *)

(* What a task holds on the way is one of the events made, and its own.     *)
FlightInv ==
  /\ \A p \in Producers : pc[p] # "idle" => ev[p] \in 1..made /\ maker[ev[p]] = p
  /\ task = "pushing" <=> item # 0
  /\ phone = "reading" => offset <= count

(* The ring holds events made so far, in their order, each of them once.    *)
RingOrder ==
  /\ \A i \in 1..count : Contents[i] \in 1..made
  /\ \A i, j \in 1..count : i < j => Contents[i] < Contents[j]

(* What is on its way to the cloud, the record included.                    *)
Underway == {record, item} \cup {queue[i] : i \in 1..Len(queue)}

Before(a, b) == maker[a] = maker[b] => a < b

(* Pairwise order; what a task is about to queue is the newest it made.     *)
OrderInv ==
  /\ record # 0 /\ item # 0 => Before(record, item)
  /\ \A i \in 1..Len(queue) : /\ record # 0 => Before(record, queue[i])
                              /\ item # 0 => Before(item, queue[i])
  /\ \A i, j \in 1..Len(queue) : i < j => Before(queue[i], queue[j])
  /\ \A e \in Underway : e <= made
  /\ \A p \in Producers : pc[p] # "idle" =>
       \A e \in Underway \ {0} : maker[e] = p => e < ev[p]

Known(e) == e \in seen \/ \E p \in Producers : pc[p] = "notify" /\ ev[p] = e

(* What the app has read of the ring it knows, unless the ring has moved    *)
(* under it; after a whole read that is all of it, and stays so.            *)
SeenInv ==
  ~shifted =>
    /\ phone = "reading" => \A i \in 1..offset : Known(Contents[i])
    /\ phone = "read"    => \A i \in 1..count : Known(Contents[i])

IInv == TypeOK /\ FlightInv /\ RingOrder /\ OrderInv /\ SeenInv

-----------------------------------------------------------------------------
(* Types. *)

LEMMA RingPart == TypeOK => RingInv
BY DEF TypeOK, RingInv

(* One part of a read: the entries after the offset, as many as there are    *)
(* and fit; a part that is full leaves the offset inside the ring.           *)
LEMMA PartIs ==
  ASSUME RingInv, offset \in 0..count,
         NEW last, last = (IF count < offset + Part THEN count ELSE offset + Part),
         NEW got, got = SubSeq(Contents, offset + 1, last)
  PROVE  /\ last \in offset..count
         /\ ToSet(got) = {Contents[i] : i \in (offset + 1)..last}
         /\ Len(got) = last - offset
         /\ IF Len(got) < Part THEN last = count ELSE last = offset + Part
<1>1. /\ offset \in Nat /\ count \in Nat /\ Part \in Nat \ {0} /\ offset <= count
  BY RingSize, EventPipelineAssumption DEF RingInv, EventPipelineAssumption
<1>2. last \in offset..count
  BY <1>1
<1>3. Contents \in Seq(Event \cup {0}) /\ Len(Contents) = count
  BY ContentsAre
<1>4. /\ offset + 1 \in 1..(Len(Contents) + 1) /\ last \in ((offset + 1) - 1)..Len(Contents)
  BY <1>1, <1>2, <1>3
<1>5. /\ got \in Seq(Event \cup {0}) /\ Len(got) = last - (offset + 1) + 1
      /\ \A i \in 1..(last - (offset + 1) + 1) : got[i] = Contents[(offset + 1) + i - 1]
  BY <1>3, <1>4, SubSeqProperties
<1>6. Len(got) = last - offset
  BY <1>1, <1>2, <1>5
<1>7. DOMAIN got = 1..(last - offset)
  BY <1>5, <1>6, LenProperties
<1>8. \A i \in 1..(last - offset) : got[i] = Contents[offset + i]
  <2>1. TAKE i \in 1..(last - offset)
  <2>2. i \in 1..(last - (offset + 1) + 1) /\ (offset + 1) + i - 1 = offset + i
    BY <1>1, <1>2
  <2>3. QED
    BY <2>2, <1>5
<1>9. ToSet(got) = {Contents[i] : i \in (offset + 1)..last}
  <2>1. ASSUME NEW e \in ToSet(got) PROVE e \in {Contents[i] : i \in (offset + 1)..last}
    <3>1. PICK i \in 1..(last - offset) : e = got[i]
      BY <2>1, <1>7 DEF ToSet
    <3>2. offset + i \in (offset + 1)..last /\ e = Contents[offset + i]
      BY <3>1, <1>1, <1>2, <1>8
    <3>3. QED
      BY <3>2
  <2>2. ASSUME NEW i \in (offset + 1)..last PROVE Contents[i] \in ToSet(got)
    <3>1. i - offset \in 1..(last - offset) /\ offset + (i - offset) = i
      BY <1>1, <1>2
    <3>2. Contents[i] = got[i - offset]
      BY <3>1, <1>8
    <3>3. QED
      BY <3>1, <3>2, <1>7 DEF ToSet
  <2>3. QED
    BY <2>1, <2>2
<1>10. IF Len(got) < Part THEN last = count ELSE last = offset + Part
  BY <1>1, <1>2, <1>6
<1>11. QED
  BY <1>2, <1>6, <1>9, <1>10

(* The queue, when the firebase task takes its head.                         *)
LEMMA TakeIs ==
  ASSUME TypeOK, Take
  PROVE  /\ queue \in Seq(Event) /\ Len(queue) > 0 /\ item' = queue[1] /\ item' \in Event
         /\ queue' \in Seq(Event) /\ Len(queue') = Len(queue) - 1
         /\ \A i \in 1..Len(queue') : i + 1 \in 1..Len(queue) /\ queue'[i] = queue[i + 1]
<1>1. queue \in Seq(Event) /\ queue # <<>> /\ item' = Head(queue) /\ queue' = Tail(queue)
  BY DEF TypeOK, Take, Drains
<1>2. Len(queue) \in Nat /\ Len(queue) # 0
  BY <1>1, LenProperties, EmptySeq
<1>3. /\ Tail(queue) \in Seq(Event) /\ Len(Tail(queue)) = Len(queue) - 1
      /\ \A i \in 1..Len(Tail(queue)) : Tail(queue)[i] = queue[i + 1]
      /\ Head(queue) \in Event /\ Head(queue) = queue[1]
  BY <1>1, <1>2, HeadTailProperties, ElementOfSeq
<1>4. QED
  BY <1>1, <1>2, <1>3

(* The queue, when a request finds room in it.                               *)
LEMMA RequestIs ==
  ASSUME TypeOK, NEW p \in Producers, Request(p), Len(queue) < QueueDepth, ev[p] \in Event
  PROVE  /\ queue \in Seq(Event) /\ Len(queue) \in Nat
         /\ queue' \in Seq(Event) /\ Len(queue') = Len(queue) + 1
         /\ queue'[Len(queue) + 1] = ev[p]
         /\ \A i \in 1..Len(queue) : queue'[i] = queue[i]
<1>1. queue \in Seq(Event) /\ queue' = Append(queue, ev[p])
  BY DEF TypeOK, Request, Queued
<1>2. QED
  BY <1>1, AppendProperties, LenProperties

(* Types are kept; a part that has been read tells only of real events.     *)
LEMMA TypeStep ==
  ASSUME TypeOK, FlightInv, RingOrder, [Next]_vars
  PROVE  TypeOK'
<1>1. RingInv /\ RingInv'
  BY RingPart, RingStep
<1>2. made \in Nat /\ MaxRestarts \in Nat /\ QueueDepth \in Nat /\ MaxEvents \in Nat
  BY EventPipelineAssumption DEF EventPipelineAssumption, TypeOK
<1>3. ASSUME NEW p \in Producers, Report(p) PROVE TypeOK'
  <2>1. made' \in Event /\ made' \in Event \cup {0}
    BY <1>1, <1>3, ReportPushes
  <2>2. pc' \in [Producers -> {"idle", "notify", "request"}] /\ ev' \in [Producers -> Event \cup {0}]
    BY <1>3, <2>1 DEF Report, TypeOK, AfterRing
  <2>3. maker' \in [Event -> Producers \cup {"nobody"}]
    BY <1>3, <2>1 DEF Report, TypeOK
  <2>4. shifted' \in BOOLEAN /\ seen' \subseteq Event
    BY <1>3 DEF Report, TypeOK
  <2>5. QED
    BY <1>1, <1>3, <2>2, <2>3, <2>4 DEF Report, TypeOK, RingInv, cloud
<1>4. ASSUME NEW p \in Producers, Notify(p) PROVE TypeOK'
  <2>1. ev[p] \in Event
    BY <1>2, <1>4 DEF Notify, FlightInv, TypeOK, Event
  <2>2. seen' \subseteq Event
    BY <1>4, <2>1 DEF Notify, TypeOK
  <2>3. QED
    BY <1>4, <2>2 DEF Notify, TypeOK, ring, cloud, history
<1>5. ASSUME NEW p \in Producers, Request(p) PROVE TypeOK'
  <2>1. ev[p] \in Event
    BY <1>2, <1>5 DEF Request, FlightInv, TypeOK, Event
  <2>2. queue' \in Seq(Event) /\ Len(queue') <= QueueDepth
    <3>1. CASE Len(queue) < QueueDepth
      BY <1>2, <1>5, <2>1, <3>1, RequestIs
    <3>2. CASE ~(Len(queue) < QueueDepth)
      BY <1>5, <3>2 DEF Request, TypeOK
    <3>3. QED
      BY <3>1, <3>2
  <2>3. lastQueued' \in Event \cup {0} /\ lost' \in BOOLEAN
    BY <1>5, <2>1 DEF Request, TypeOK
  <2>4. QED
    BY <1>5, <2>2, <2>3 DEF Request, TypeOK, ring, app
<1>6. CASE Take
  <2>1. /\ item' \in Event \cup {0} /\ queue' \in Seq(Event) /\ Len(queue') <= QueueDepth
    <3>1. /\ item' \in Event /\ queue' \in Seq(Event) /\ Len(queue') = Len(queue) - 1
          /\ Len(queue) \in Nat /\ Len(queue) <= QueueDepth
      BY <1>6, TakeIs, LenProperties DEF TypeOK
    <3>2. QED
      BY <3>1, <1>2
  <2>2. QED
    BY <1>6, <2>1 DEF Take, TypeOK, ring, app, history
<1>7. CASE Ready \/ Arrives \/ PushFails
  BY <1>7 DEF Ready, Arrives, PushFails, TypeOK, ring, app, history
<1>8. CASE Connect \/ Disconnect \/ StartRead
  BY <1>8, <1>1, RingSize DEF Connect, Disconnect, StartRead, TypeOK, ring, cloud, history
<1>9. CASE ReadPart
  <2> DEFINE last == IF count < offset + Part THEN count ELSE offset + Part
             got  == SubSeq(Contents, offset + 1, last)
  <2>1. offset \in 0..count
    BY <1>9 DEF ReadPart, FlightInv, TypeOK
  <2>2. /\ last \in offset..count
        /\ ToSet(got) = {Contents[i] : i \in (offset + 1)..last}
        /\ IF Len(got) < Part THEN last = count ELSE last = offset + Part
    BY <1>1, <2>1, PartIs
  <2>3. /\ seen' = seen \cup ToSet(got) /\ UNCHANGED <<ring, pc, ev, cloud, history>>
        /\ phone = "reading"
        /\ IF Len(got) < Part THEN phone' = "read" /\ offset' = 0
                              ELSE offset' = offset + Part /\ UNCHANGED phone
    BY <1>9 DEF ReadPart
  <2> HIDE DEF last, got
  <2>4. {Contents[i] : i \in (offset + 1)..last} \subseteq Event
    <3>1. ASSUME NEW i \in (offset + 1)..last PROVE Contents[i] \in Event
      <4>1. i \in 1..count
        BY <2>1, <2>2, <1>1 DEF RingInv
      <4>2. Contents[i] \in 1..made
        BY <4>1 DEF RingOrder
      <4>3. QED
        BY <4>2, <1>2 DEF TypeOK, Event
    <3>2. QED
      BY <3>1
  <2>5. seen' \subseteq Event
    BY <2>2, <2>3, <2>4 DEF TypeOK
  <2>6. offset' \in 0..RingMax
    <3>1. CASE Len(got) < Part
      BY <2>3, <3>1, RingSize
    <3>2. CASE ~(Len(got) < Part)
      <4>1. offset' = last
        BY <2>2, <2>3, <3>2
      <4>2. QED
        BY <4>1, <2>1, <2>2, <1>1, RingSize DEF RingInv
    <3>3. QED
      BY <3>1, <3>2
  <2>7. phone' \in {"away", "connected", "reading", "read"}
    BY <2>3
  <2>8. QED
    BY <1>1, <2>3, <2>5, <2>6, <2>7 DEF TypeOK, RingInv, ring, cloud, history
<1>10. CASE Ack
  BY <1>1, <1>10 DEF Ack, TypeOK, RingInv, cloud, history
<1>11. CASE Restart
  <2>1. restarts' \in 0..MaxRestarts
    BY <1>11, <1>2 DEF Restart, TypeOK
  <2>2. queue' \in Seq(Event) /\ Len(queue') <= QueueDepth
    BY <1>11, <1>2, EmptySeq DEF Restart
  <2>3. QED
    BY <1>1, <1>11, <2>1, <2>2, RingSize DEF Restart, TypeOK, RingInv
<1>12. CASE UNCHANGED vars
  BY <1>12 DEF vars, TypeOK, ring, cloud, app, history
<1>13. QED
  BY <1>3, <1>4, <1>5, <1>6, <1>7, <1>8, <1>9, <1>10, <1>11, <1>12 DEF Next, Produce, Task, Phone

LEMMA FlightStep ==
  ASSUME TypeOK, FlightInv, RingOrder, [Next]_vars
  PROVE  FlightInv'
<1>1. RingInv /\ RingInv'
  BY RingPart, RingStep
<1>2. made \in Nat /\ MaxEvents \in Nat
  BY EventPipelineAssumption DEF EventPipelineAssumption, TypeOK
<1>3. ASSUME NEW p \in Producers, Report(p) PROVE FlightInv'
  <2>1. made' = made + 1 /\ made' \in Event
    BY <1>1, <1>3, ReportPushes DEF Report
  <2>2. ASSUME NEW q \in Producers, pc'[q] # "idle"
        PROVE  ev'[q] \in 1..made' /\ maker'[ev'[q]] = q
    <3>1. CASE q = p
      BY <1>2, <1>3, <2>1, <3>1 DEF Report, TypeOK
    <3>2. CASE q # p
      <4>1. ev'[q] = ev[q] /\ pc[q] # "idle"
        BY <1>3, <2>2, <3>2 DEF Report, TypeOK
      <4>2. ev[q] \in 1..made /\ maker[ev[q]] = q
        BY <4>1 DEF FlightInv
      <4>3. maker'[ev[q]] = maker[ev[q]]
        BY <1>3, <2>1, <4>2, <1>2 DEF Report, TypeOK
      <4>4. QED
        BY <4>1, <4>2, <4>3, <2>1, <1>2
    <3>3. QED
      BY <3>1, <3>2
  <2>3. task' = "pushing" <=> item' # 0
    BY <1>3 DEF Report, cloud, FlightInv
  <2>4. ASSUME phone' = "reading" PROVE offset' <= count'
    <3>1. offset' = offset /\ offset <= count
      BY <1>3, <2>4 DEF Report, FlightInv
    <3>2. count' = count \/ count' = count + 1
      BY <1>3 DEF Report, PushRing, CountAfterPush
    <3>3. QED
      BY <3>1, <3>2, <1>1 DEF RingInv, TypeOK
  <2>5. QED
    BY <2>2, <2>3, <2>4 DEF FlightInv
<1>4. ASSUME NEW p \in Producers, Notify(p) PROVE FlightInv'
  <2>1. \A q \in Producers : pc'[q] # "idle" => pc[q] # "idle"
    BY <1>4 DEF Notify, TypeOK
  <2>2. QED
    BY <1>4, <2>1 DEF Notify, FlightInv, ring, cloud, history
<1>5. ASSUME NEW p \in Producers, Request(p) PROVE FlightInv'
  <2>1. \A q \in Producers : pc'[q] # "idle" => pc[q] # "idle" /\ ev'[q] = ev[q]
    BY <1>5 DEF Request, TypeOK
  <2>2. QED
    BY <1>5, <2>1 DEF Request, FlightInv, ring, app
<1>6. CASE Take
  <2>1. item' # 0
    BY <1>6, TakeIs DEF Event
  <2>2. QED
    BY <1>6, <2>1 DEF Take, FlightInv, ring, app, history
<1>7. CASE Ready \/ Arrives \/ PushFails
  BY <1>7 DEF Ready, Arrives, PushFails, FlightInv, ring, app, history
<1>8. CASE Connect \/ Disconnect \/ StartRead
  BY <1>8, <1>1 DEF Connect, Disconnect, StartRead, FlightInv, RingInv, ring, cloud, history
<1>9. CASE ReadPart
  <2> DEFINE last == IF count < offset + Part THEN count ELSE offset + Part
             got  == SubSeq(Contents, offset + 1, last)
  <2>1. offset \in 0..count
    BY <1>9 DEF ReadPart, FlightInv, TypeOK
  <2>2. /\ last \in offset..count
        /\ IF Len(got) < Part THEN last = count ELSE last = offset + Part
    BY <1>1, <2>1, PartIs
  <2>3. /\ UNCHANGED <<ring, pc, ev, cloud, history>>
        /\ IF Len(got) < Part THEN phone' = "read" /\ offset' = 0
                              ELSE offset' = offset + Part /\ UNCHANGED phone
    BY <1>9 DEF ReadPart
  <2> HIDE DEF last, got
  <2>4. phone' = "reading" => offset' = last
    BY <2>2, <2>3
  <2>5. phone' = "reading" => offset' <= count'
    BY <2>2, <2>3, <2>4, <2>1, <1>1 DEF RingInv, ring
  <2>6. QED
    BY <2>3, <2>5 DEF FlightInv, cloud, history
<1>10. CASE Ack \/ Restart
  BY <1>10 DEF Ack, Restart, FlightInv, cloud, history
<1>11. CASE UNCHANGED vars
  BY <1>11 DEF vars, FlightInv, ring, cloud, app, history
<1>12. QED
  BY <1>3, <1>4, <1>5, <1>6, <1>7, <1>8, <1>9, <1>10, <1>11 DEF Next, Produce, Task, Phone

-----------------------------------------------------------------------------
(* The ring's order. *)

(* How many entries a push drives out. *)
Gone == IF count = RingMax THEN 1 ELSE 0

(* A report moves what it leaves in the ring up by what it drives out, and   *)
(* puts its own event last.                                                 *)
LEMMA ReportMoves ==
  ASSUME RingInv, NEW p \in Producers, Report(p)
  PROVE  /\ made' = made + 1 /\ made' \in Event
         /\ count' = count + 1 - Gone /\ count' \in 1..RingMax
         /\ Contents'[count'] = made'
         /\ \A i \in 1..(count' - 1) : i + Gone \in 1..count /\ Contents'[i] = Contents[i + Gone]
<1>1. /\ Contents \in Seq(Event \cup {0}) /\ Len(Contents) = count
      /\ count \in 0..RingMax /\ RingMax \in Nat \ {0}
  BY ContentsAre, RingSize DEF RingInv
<1>2. made' = made + 1 /\ made' \in Event /\ made' \in Event \cup {0}
  BY ReportPushes DEF Report
<1>3. CASE count < RingMax
  <2>1. count' = count + 1 /\ Contents' = Append(Contents, made') /\ Gone = 0
    BY <1>1, <1>3, ReportPushes DEF Gone
  <2>2. Append(Contents, made')[count + 1] = made'
    BY <1>1, <1>2, AppendProperties
  <2>3. \A i \in 1..count : Append(Contents, made')[i] = Contents[i]
    BY <1>1, <1>2, AppendProperties
  <2>4. count' \in 1..RingMax /\ count' - 1 = count
    BY <1>1, <1>3, <2>1
  <2>5. \A i \in 1..count : i + Gone = i
    BY <2>1
  <2>6. QED
    BY <1>1, <1>2, <2>1, <2>2, <2>3, <2>4, <2>5
<1>4. CASE count = RingMax
  <2>1. /\ count' = count /\ Contents' = Append(Tail(Contents), made') /\ Contents # <<>>
        /\ Gone = 1
    BY <1>4, ReportPushes DEF Gone
  <2>2. /\ Tail(Contents) \in Seq(Event \cup {0}) /\ Len(Tail(Contents)) = count - 1
        /\ \A i \in 1..(count - 1) : Tail(Contents)[i] = Contents[i + 1]
    BY <1>1, <2>1, HeadTailProperties
  <2>3. (count - 1) + 1 = count
    BY <1>1
  <2>4. Append(Tail(Contents), made')[count] = made'
    BY <1>2, <2>2, <2>3, AppendProperties
  <2>5. \A i \in 1..(count - 1) : Append(Tail(Contents), made')[i] = Contents[i + 1]
    BY <1>2, <2>2, AppendProperties
  <2>6. count' \in 1..RingMax /\ \A i \in 1..(count - 1) : i + 1 \in 1..count
    BY <1>1, <1>4, <2>1
  <2>7. count' = count + 1 - Gone
    BY <1>1, <2>1
  <2>8. QED
    BY <1>2, <2>1, <2>4, <2>5, <2>6, <2>7
<1>5. QED
  BY <1>1, <1>3, <1>4

(* The ring never changes while nobody reports, acknowledges or restarts.   *)
LEMMA RingOrderStep ==
  ASSUME RingInv, RingOrder, [Next]_vars
  PROVE  RingOrder'
<1>1. made \in Nat /\ count \in Nat
  BY RingSize DEF RingInv
<1>2. ASSUME NEW p \in Producers, Report(p) PROVE RingOrder'
  <2>1. /\ made' = made + 1 /\ count' \in Nat /\ Gone \in {0, 1}
        /\ Contents'[count'] = made'
        /\ \A i \in 1..(count' - 1) : i + Gone \in 1..count /\ Contents'[i] = Contents[i + Gone]
    BY <1>2, ReportMoves, RingSize DEF Gone
  <2> DEFINE n == count'
             d == Gone
  <2>2. n \in Nat /\ d \in Nat
    BY <2>1
  <2>3. /\ Contents'[n] = made'
        /\ \A i \in 1..(n - 1) : i + d \in 1..count /\ Contents'[i] = Contents[i + d]
    BY <2>1
  <2> HIDE DEF n, d
  <2>4. ASSUME NEW i \in 1..(n - 1) PROVE Contents'[i] \in 1..made
    BY <2>3 DEF RingOrder
  <2>5. ASSUME NEW i \in 1..n PROVE Contents'[i] \in 1..made'
    <3>1. CASE i = n
      BY <2>1, <2>3, <1>1, <3>1
    <3>2. CASE i # n
      <4>1. i \in 1..(n - 1)
        BY <2>2, <3>2
      <4>2. Contents'[i] \in 1..made
        BY <4>1, <2>4
      <4>3. QED
        BY <4>2, <2>1, <1>1
    <3>3. QED
      BY <3>1, <3>2
  <2>6. ASSUME NEW i \in 1..n, NEW j \in 1..n, i < j PROVE Contents'[i] < Contents'[j]
    <3>1. i \in 1..(n - 1)
      BY <2>2, <2>6
    <3>2. CASE j = n
      <4>1. Contents'[i] \in 1..made /\ Contents'[j] = made + 1
        BY <2>1, <2>3, <2>4, <3>1, <3>2
      <4>2. QED
        BY <4>1, <1>1
    <3>3. CASE j # n
      <4>1. j \in 1..(n - 1)
        BY <2>2, <3>3
      <4>2. /\ i + d \in 1..count /\ j + d \in 1..count
            /\ Contents'[i] = Contents[i + d] /\ Contents'[j] = Contents[j + d]
        BY <2>3, <3>1, <4>1
      <4>3. i + d < j + d
        BY <2>2, <2>6
      <4>4. QED
        BY <4>2, <4>3 DEF RingOrder
    <3>4. QED
      BY <3>2, <3>3
  <2>7. QED
    BY <2>5, <2>6 DEF RingOrder, n
<1>3. ASSUME Ack \/ Restart PROVE RingOrder'
  BY <1>3 DEF Ack, Restart, ClearRing, RingOrder
<1>4. CASE UNCHANGED <<ring, made>>
  BY <1>4 DEF ring, RingOrder, Contents, Oldest
<1>5. QED
  BY <1>2, <1>3, <1>4
     DEF Next, Produce, Notify, Request, Task, Ready, Take, Arrives, PushFails, Phone,
         Connect, Disconnect, StartRead, ReadPart, history, vars

-----------------------------------------------------------------------------
(* The order on the way to the cloud. *)

(* What is under way, typed.                                                *)
LEMMA UnderwayIs ==
  ASSUME TypeOK
  PROVE  /\ Underway \subseteq Event \cup {0} /\ Len(queue) \in Nat
         /\ \A i \in 1..Len(queue) : queue[i] \in Event /\ queue[i] \in Underway \ {0}
<1>1. queue \in Seq(Event) /\ Len(queue) \in Nat
  BY LenProperties DEF TypeOK
<1>2. ASSUME NEW i \in 1..Len(queue) PROVE queue[i] \in Event
  BY <1>1, ElementOfSeq
<1>3. QED
  BY <1>1, <1>2 DEF TypeOK, Underway, Event

(* When nothing new is under way, the newest of each task stays ahead.      *)
LEMMA FewerUnderway ==
  ASSUME TypeOK, OrderInv, Underway' \subseteq Underway \cup {0}, made' = made, maker' = maker,
         \A p \in Producers : pc'[p] # "idle" => pc[p] # "idle" /\ ev'[p] = ev[p]
  PROVE  /\ \A e \in Underway' : e <= made'
         /\ \A p \in Producers : pc'[p] # "idle" =>
              \A e \in Underway' \ {0} : maker'[e] = p => e < ev'[p]
<1>1. \A e \in Underway' : e <= made'
  BY DEF OrderInv, TypeOK
<1>2. QED
  BY <1>1 DEF OrderInv

(* A report is newer than all that is under way.                            *)
LEMMA ReportOrder ==
  ASSUME TypeOK, FlightInv, OrderInv, NEW p \in Producers, Report(p)
  PROVE  OrderInv'
<1>1. made \in Nat /\ made' = made + 1 /\ made' \in Event
  BY ReportMoves, RingPart DEF TypeOK
<1>2. UNCHANGED <<queue, item, record>> /\ Underway' = Underway
  BY DEF Report, cloud, Underway
<1>3. /\ Underway \subseteq Event \cup {0} /\ \A e \in Underway : e <= made
      /\ \A i \in 1..Len(queue) : queue[i] \in Underway \ {0}
  BY UnderwayIs DEF OrderInv
<1>4. record \in Underway /\ item \in Underway
  BY DEF Underway
<1>5. ASSUME NEW e \in Underway \ {0} PROVE maker'[e] = maker[e]
  <2>1. e \in Event /\ e <= made
    BY <1>3
  <2>2. e # made'
    BY <2>1, <1>1 DEF Event
  <2>3. QED
    BY <2>1, <2>2, <1>1 DEF Report, TypeOK
<1>6. /\ record' # 0 /\ item' # 0 => Before(record, item)'
  BY <1>2, <1>4, <1>5 DEF OrderInv, Before
<1>7. ASSUME NEW i \in 1..Len(queue')
      PROVE  /\ record' # 0 => Before(record, queue[i])'
             /\ item' # 0 => Before(item, queue[i])'
  <2>1. i \in 1..Len(queue) /\ queue[i] \in Underway \ {0}
    BY <1>2, <1>3
  <2>2. /\ record # 0 => Before(record, queue[i])
        /\ item # 0 => Before(item, queue[i])
    BY <2>1 DEF OrderInv
  <2>3. QED
    BY <2>1, <2>2, <1>2, <1>4, <1>5 DEF Before
<1>8. ASSUME NEW i \in 1..Len(queue'), NEW j \in 1..Len(queue'), i < j
      PROVE  Before(queue[i], queue[j])'
  <2>1. i \in 1..Len(queue) /\ j \in 1..Len(queue)
    BY <1>2
  <2>2. Before(queue[i], queue[j])
    BY <1>8, <2>1 DEF OrderInv
  <2>3. queue[i] \in Underway \ {0} /\ queue[j] \in Underway \ {0}
    BY <2>1, <1>3
  <2>4. QED
    BY <2>2, <2>3, <1>2, <1>5 DEF Before
<1>9. \A e \in Underway' : e <= made'
  BY <1>1, <1>2, <1>3 DEF Event
<1>10. ASSUME NEW q \in Producers, pc'[q] # "idle", NEW e \in Underway' \ {0}, maker'[e] = q
       PROVE  e < ev'[q]
  <2>1. e \in Underway \ {0} /\ maker[e] = q /\ e <= made /\ e \in Event
    BY <1>2, <1>3, <1>5, <1>10
  <2>2. CASE q = p
    <3>1. ev'[q] = made + 1
      BY <2>2, <1>1 DEF Report, TypeOK
    <3>2. QED
      BY <3>1, <2>1, <1>1 DEF Event
  <2>3. CASE q # p
    <3>1. ev'[q] = ev[q] /\ pc[q] # "idle"
      BY <1>10, <2>3 DEF Report, TypeOK
    <3>2. QED
      BY <3>1, <2>1 DEF OrderInv
  <2>4. QED
    BY <2>2, <2>3
<1>11. QED
  BY <1>6, <1>7, <1>8, <1>9, <1>10 DEF OrderInv

(* A request queues what is newer than all of its task's under way.          *)
LEMMA RequestOrder ==
  ASSUME TypeOK, FlightInv, OrderInv, NEW p \in Producers, Request(p)
  PROVE  OrderInv'
<1>1. /\ UNCHANGED <<item, record, made, maker>>
      /\ pc[p] # "idle" /\ pc'[p] = "idle"
      /\ \A q \in Producers : pc'[q] # "idle" => q # p /\ pc[q] # "idle" /\ ev'[q] = ev[q]
  BY DEF Request, TypeOK
<1>2. CASE Len(queue) < QueueDepth
  <2> DEFINE n == Len(queue)
             e == ev[p]
  <2>1. e \in 1..made /\ maker[e] = p /\ e \in Event /\ e # 0
    BY <1>1 DEF FlightInv, TypeOK, Event
  <2>2. /\ n \in Nat /\ Len(queue') = n + 1 /\ queue'[n + 1] = e
        /\ \A i \in 1..n : queue'[i] = queue[i]
    BY <1>2, <2>1, RequestIs
  <2>3. \A u \in Underway \ {0} : maker[u] = p => u < e
    BY <1>1 DEF OrderInv
  <2> HIDE DEF n, e
  <2>4. record \in Underway /\ item \in Underway /\ \A i \in 1..n : queue[i] \in Underway \ {0}
    BY UnderwayIs DEF Underway, n
  <2>5. /\ record' # 0 /\ item' # 0 => Before(record, item)'
    BY <1>1 DEF OrderInv, Before
  <2>6. ASSUME NEW i \in 1..(n + 1) PROVE i = n + 1 \/ i \in 1..n
    BY <2>2
  <2>7. ASSUME NEW i \in 1..(n + 1)
        PROVE  /\ record' # 0 => Before(record, queue[i])'
               /\ item' # 0 => Before(item, queue[i])'
    <3>1. CASE i = n + 1
      BY <3>1, <1>1, <2>1, <2>2, <2>3, <2>4 DEF Before
    <3>2. CASE i \in 1..n
      BY <3>2, <1>1, <2>2 DEF Before, OrderInv, n
    <3>3. QED
      BY <3>1, <3>2, <2>6
  <2>8. ASSUME NEW i \in 1..(n + 1), NEW j \in 1..(n + 1), i < j
        PROVE  Before(queue[i], queue[j])'
    <3>1. i \in 1..n
      BY <2>2, <2>8
    <3>2. CASE j = n + 1
      BY <3>1, <3>2, <1>1, <2>1, <2>2, <2>3, <2>4 DEF Before
    <3>3. CASE j \in 1..n
      <4>1. Before(queue[i], queue[j])
        BY <2>8, <3>1, <3>3 DEF OrderInv, n
      <4>2. QED
        BY <4>1, <3>1, <3>3, <1>1, <2>2 DEF Before
    <3>4. QED
      BY <3>2, <3>3, <2>6
  <2>9. Underway' \subseteq Underway \cup {e}
    <3>1. ASSUME NEW u \in Underway' PROVE u \in Underway \cup {e}
      <4>1. CASE u = record \/ u = item
        BY <4>1, <2>4
      <4>2. CASE \E i \in 1..(n + 1) : u = queue'[i]
        BY <4>2, <2>2, <2>4, <2>6
      <4>3. QED
        BY <4>1, <4>2, <2>2, <1>1 DEF Underway
    <3>2. QED
      BY <3>1
  <2>10. \A u \in Underway' : u <= made'
    BY <1>1, <2>1, <2>9 DEF OrderInv, TypeOK
  <2>11. ASSUME NEW q \in Producers, pc'[q] # "idle", NEW u \in Underway' \ {0}, maker'[u] = q
         PROVE  u < ev'[q]
    <3>1. q # p /\ pc[q] # "idle" /\ ev'[q] = ev[q] /\ maker[u] = q
      BY <1>1, <2>11
    <3>2. u \in Underway \ {0}
      BY <3>1, <2>1, <2>9
    <3>3. QED
      BY <3>1, <3>2 DEF OrderInv
  <2>12. QED
    BY <2>2, <2>5, <2>7, <2>8, <2>10, <2>11 DEF OrderInv
<1>3. CASE ~(Len(queue) < QueueDepth)
  <2>1. UNCHANGED queue
    BY <1>3 DEF Request
  <2>2. Underway' \subseteq Underway \cup {0}
    BY <1>1, <2>1 DEF Underway
  <2>3. QED
    BY <1>1, <2>1, <2>2, FewerUnderway DEF OrderInv, Before
<1>4. QED
  BY <1>2, <1>3

(* The head of the queue goes on its way before the rest of it.             *)
LEMMA TakeOrder ==
  ASSUME TypeOK, FlightInv, OrderInv, Take
  PROVE  OrderInv'
<1>1. UNCHANGED <<pc, ev, record, made, maker>> /\ item = 0
  BY DEF Take, history, FlightInv
<1> DEFINE n == Len(queue')
<1>2. /\ Len(queue) \in Nat /\ Len(queue) > 0 /\ item' = queue[1] /\ n = Len(queue) - 1
      /\ \A i \in 1..n : i + 1 \in 1..Len(queue) /\ queue'[i] = queue[i + 1]
  BY TakeIs, UnderwayIs
<1> HIDE DEF n
<1>3. 1 \in 1..Len(queue) /\ n \in Nat
  BY <1>2
<1>4. record' # 0 /\ item' # 0 => Before(record, item)'
  BY <1>1, <1>2, <1>3 DEF OrderInv, Before
<1>5. ASSUME NEW i \in 1..n
      PROVE  /\ record' # 0 => Before(record, queue[i])'
             /\ item' # 0 => Before(item, queue[i])'
  <2>1. i + 1 \in 1..Len(queue) /\ queue'[i] = queue[i + 1] /\ 1 < i + 1
    BY <1>2, <1>3
  <2>2. /\ record # 0 => Before(record, queue[i + 1])
        /\ Before(queue[1], queue[i + 1])
    BY <2>1, <1>3 DEF OrderInv
  <2>3. QED
    BY <2>1, <2>2, <1>1, <1>2 DEF Before
<1>6. ASSUME NEW i \in 1..n, NEW j \in 1..n, i < j PROVE Before(queue[i], queue[j])'
  <2>1. /\ i + 1 \in 1..Len(queue) /\ queue'[i] = queue[i + 1]
        /\ j + 1 \in 1..Len(queue) /\ queue'[j] = queue[j + 1]
    BY <1>2
  <2>2. i + 1 < j + 1
    BY <1>6, <1>3
  <2>3. Before(queue[i + 1], queue[j + 1])
    BY <2>1, <2>2 DEF OrderInv
  <2>4. QED
    BY <2>1, <2>3, <1>1 DEF Before
<1>7. Underway' \subseteq Underway \cup {0}
  <2>1. ASSUME NEW u \in Underway' PROVE u \in Underway
    <3>1. CASE u = record \/ u = item'
      BY <3>1, <1>2, <1>3 DEF Underway
    <3>2. CASE \E i \in 1..n : u = queue'[i]
      BY <3>2, <1>2 DEF Underway
    <3>3. QED
      BY <3>1, <3>2, <1>1 DEF Underway, n
  <2>2. QED
    BY <2>1
<1>8. QED
  BY <1>1, <1>4, <1>5, <1>6, <1>7, FewerUnderway DEF OrderInv, n

(* Every step keeps the order: what arrives takes the place of an older one, *)
(* and what fails or is lost leaves the rest as it was.                     *)
LEMMA OrderStep ==
  ASSUME TypeOK, FlightInv, OrderInv, [Next]_vars
  PROVE  OrderInv'
<1>1. CASE Arrives
  <2>1. UNCHANGED <<pc, ev, queue, made, maker>> /\ record' = item /\ item' = 0
    BY <1>1 DEF Arrives, history
  <2>2. Underway' \subseteq Underway \cup {0}
    BY <2>1 DEF Underway
  <2>3. QED
    BY <2>1, <2>2, FewerUnderway DEF OrderInv, Before
<1>2. CASE PushFails
  <2>1. UNCHANGED <<pc, ev, queue, record, made, maker>> /\ item' = 0
    BY <1>2 DEF PushFails
  <2>2. Underway' \subseteq Underway \cup {0}
    BY <2>1 DEF Underway
  <2>3. QED
    BY <2>1, <2>2, FewerUnderway DEF OrderInv, Before
<1>3. CASE Restart
  <2>1. /\ UNCHANGED <<record, made, maker>> /\ item' = 0 /\ queue' = <<>> /\ Len(queue') = 0
        /\ \A p \in Producers : pc'[p] = "idle"
    BY <1>3, EmptySeq DEF Restart
  <2>2. Underway' \subseteq Underway \cup {0}
    BY <2>1 DEF Underway
  <2>3. QED
    BY <2>1, <2>2, FewerUnderway DEF OrderInv, Before
<1>4. ASSUME NEW p \in Producers, Notify(p) PROVE OrderInv'
  <2>1. UNCHANGED <<ev, queue, item, record, made, maker>>
    BY <1>4 DEF Notify, cloud, history
  <2>2. \A q \in Producers : pc'[q] # "idle" => pc[q] # "idle" /\ ev'[q] = ev[q]
    BY <1>4, <2>1 DEF Notify, TypeOK
  <2>3. Underway' \subseteq Underway \cup {0}
    BY <2>1 DEF Underway
  <2>4. QED
    BY <2>1, <2>2, <2>3, FewerUnderway DEF OrderInv, Before
<1>5. CASE UNCHANGED <<pc, ev, queue, item, record, made, maker>>
  BY <1>5 DEF OrderInv, Before, Underway
<1>6. QED
  BY <1>1, <1>2, <1>3, <1>4, <1>5, ReportOrder, RequestOrder, TakeOrder
     DEF Next, Produce, Task, Ready, Phone, Connect, Disconnect, StartRead, ReadPart, Ack,
         cloud, history, vars

-----------------------------------------------------------------------------
(* What the app knows. *)

(* A push that drives the oldest entry out makes the app forget that one     *)
(* only, and its own event is known by the notification that follows it.    *)
LEMMA ReportSeen ==
  ASSUME TypeOK, FlightInv, RingOrder, SeenInv, NEW p \in Producers, Report(p)
  PROVE  SeenInv'
<1>1. RingInv /\ count \in Nat
  BY RingPart DEF TypeOK
<1>2. /\ count' = count + 1 - Gone /\ count' \in 1..RingMax /\ Contents'[count'] = made'
      /\ \A i \in 1..(count' - 1) : i + Gone \in 1..count /\ Contents'[i] = Contents[i + Gone]
  BY <1>1, ReportMoves
<1>3. /\ UNCHANGED <<phone, offset>> /\ pc[p] = "idle"
      /\ pc'[p] = "notify" /\ ev'[p] = made'
      /\ \A q \in Producers : q # p => pc'[q] = pc[q] /\ ev'[q] = ev[q]
  BY DEF Report, AfterRing, TypeOK
<1> DEFINE KnownNext(e) == e \in seen' \/ \E q \in Producers : pc'[q] = "notify" /\ ev'[q] = e
<1>4. ASSUME NEW e, Known(e), e \in seen => e \in seen' PROVE KnownNext(e)
  BY <1>3, <1>4 DEF Known
<1>5. SUFFICES ASSUME ~shifted'
      PROVE  /\ phone' = "reading" => \A i \in 1..offset' : KnownNext(Contents'[i])
             /\ phone' = "read"    => \A i \in 1..count' : KnownNext(Contents'[i])
  BY DEF SeenInv, Known
<1>6. ~shifted /\ ~(phone = "reading" /\ count = RingMax)
  BY <1>5 DEF Report
<1>7. ASSUME phone = "reading", NEW i \in 1..offset PROVE KnownNext(Contents'[i])
  <2>1. count < RingMax /\ Gone = 0 /\ i \in 1..count
    <3>1. count # RingMax /\ offset <= count /\ offset \in Nat
      BY <1>6, <1>7 DEF FlightInv, TypeOK
    <3>2. count \in 0..RingMax
      BY <1>1 DEF RingInv
    <3>3. QED
      BY <3>1, <3>2, <1>7, RingSize DEF Gone
  <2>2. seen' = seen
    BY <2>1 DEF Report
  <2>3. i \in 1..(count' - 1) /\ i + Gone = i
    BY <1>1, <1>2, <2>1
  <2>4. Contents'[i] = Contents[i]
    BY <1>2, <2>3
  <2>5. Known(Contents[i])
    BY <1>6, <1>7 DEF SeenInv
  <2>6. QED
    BY <1>4, <2>2, <2>4, <2>5
<1>8. ASSUME phone = "read", NEW i \in 1..count' PROVE KnownNext(Contents'[i])
  <2>1. CASE i = count'
    BY <2>1, <1>2, <1>3
  <2>2. CASE i # count'
    <3>1. i \in 1..(count' - 1)
      BY <1>2, <2>2, RingSize
    <3>2. i + Gone \in 1..count /\ Contents'[i] = Contents[i + Gone]
      BY <3>1, <1>2
    <3>3. Known(Contents[i + Gone])
      BY <3>2, <1>6, <1>8 DEF SeenInv
    <3>4. Contents[i + Gone] \in seen => Contents[i + Gone] \in seen'
      <4>1. CASE count < RingMax
        BY <4>1 DEF Report
      <4>2. CASE count = RingMax
        <5>1. slot[head] = Contents[1] /\ Gone = 1
          BY <1>1, <4>2, ReportPushes DEF Gone
        <5>2. 1 \in 1..count /\ 1 < i + Gone
          BY <5>1, <3>1, <3>2, <1>1
        <5>3. Contents[1] < Contents[i + Gone] /\ Contents[1] \in 1..made
          BY <5>2, <3>2 DEF RingOrder
        <5>4. Contents[1] # Contents[i + Gone]
          BY <5>3, <3>2 DEF RingOrder
        <5>5. seen' = seen \/ seen' = seen \ {slot[head]}
          BY DEF Report
        <5>6. QED
          BY <5>1, <5>4, <5>5
      <4>3. QED
        BY <4>1, <4>2, <1>1, RingSize DEF RingInv
    <3>5. QED
      BY <1>4, <3>2, <3>3, <3>4
  <2>3. QED
    BY <2>1, <2>2
<1>9. QED
  BY <1>3, <1>7, <1>8

(* One part of a read adds what it has read to what the app knows.           *)
LEMMA ReadSeen ==
  ASSUME TypeOK, FlightInv, SeenInv, ReadPart
  PROVE  SeenInv'
<1> DEFINE last == IF count < offset + Part THEN count ELSE offset + Part
           got  == SubSeq(Contents, offset + 1, last)
<1>1. offset \in 0..count /\ count \in Nat
  BY DEF ReadPart, FlightInv, TypeOK
<1>2. /\ last \in offset..count
      /\ ToSet(got) = {Contents[i] : i \in (offset + 1)..last}
      /\ IF Len(got) < Part THEN last = count ELSE last = offset + Part
  BY <1>1, PartIs, RingPart
<1>3. /\ seen' = seen \cup ToSet(got) /\ UNCHANGED <<ring, pc, ev, shifted>> /\ phone = "reading"
      /\ IF Len(got) < Part THEN phone' = "read" /\ offset' = 0
                            ELSE offset' = offset + Part /\ UNCHANGED phone
  BY DEF ReadPart, history
<1> HIDE DEF last, got
<1>4. Contents' = Contents /\ count' = count
  BY <1>3 DEF ring, Contents, Oldest
<1>5. ASSUME ~shifted, NEW i \in 1..last PROVE Known(Contents[i])'
  <2>1. i \in 1..offset \/ i \in (offset + 1)..last
    BY <1>1, <1>2
  <2>2. CASE i \in 1..offset
    BY <2>2, <1>3, <1>4, <1>5 DEF SeenInv, Known
  <2>3. CASE i \in (offset + 1)..last
    <3>1. Contents[i] \in seen'
      BY <2>3, <1>2, <1>3
    <3>2. QED
      BY <3>1, <1>4 DEF Known
  <2>4. QED
    BY <2>1, <2>2, <2>3
<1>6. /\ phone' = "reading" => offset' = last
      /\ phone' = "read" => last = count
  BY <1>2, <1>3
<1>7. QED
  BY <1>3, <1>4, <1>5, <1>6 DEF SeenInv, Known

(* Nothing else takes away what the app knows.                              *)
LEMMA SeenStep ==
  ASSUME TypeOK, FlightInv, RingOrder, SeenInv, [Next]_vars
  PROVE  SeenInv'
<1>1. ASSUME NEW p \in Producers, Notify(p) PROVE SeenInv'
  <2>1. UNCHANGED <<ring, ev, phone, offset, shifted>> /\ Contents' = Contents
    BY <1>1 DEF Notify, history, ring, Contents, Oldest
  <2>2. /\ \A q \in Producers : q # p => pc'[q] = pc[q]
        /\ phone # "away" => seen' = seen \cup ({ev[p]} \cap ToSet(Contents))
    BY <1>1 DEF Notify, TypeOK
  <2>3. ASSUME phone # "away", NEW i \in 1..count, Known(Contents[i]) PROVE Known(Contents[i])'
    <3>1. Contents[i] \in ToSet(Contents)
      BY ContentsAre, RingPart DEF ToSet
    <3>2. QED
      BY <3>1, <2>1, <2>2, <2>3 DEF Known
  <2>4. \A i \in 1..offset : phone = "reading" => i \in 1..count
    BY DEF FlightInv, TypeOK
  <2>5. QED
    BY <2>1, <2>3, <2>4 DEF SeenInv, Known, ring
<1>2. ASSUME NEW p \in Producers, Request(p) PROVE SeenInv'
  <2>1. /\ UNCHANGED <<ring, phone, offset, seen, shifted>> /\ Contents' = Contents
        /\ pc[p] = "request"
        /\ \A q \in Producers : q # p => pc'[q] = pc[q] /\ ev'[q] = ev[q]
    BY <1>2 DEF Request, TypeOK, app, ring, Contents, Oldest
  <2>2. QED
    BY <2>1 DEF SeenInv, Known, ring
<1>3. ASSUME Connect \/ Disconnect \/ StartRead \/ Ack \/ Restart PROVE SeenInv'
  <2>1. phone' \notin {"reading", "read"} \/ (phone' = "reading" /\ offset' = 0)
    BY <1>3 DEF Connect, Disconnect, StartRead, Ack, Restart
  <2>2. QED
    BY <2>1 DEF SeenInv
<1>4. CASE UNCHANGED <<ring, pc, ev, phone, offset, seen, shifted>>
  BY <1>4 DEF SeenInv, Known, ring, Contents, Oldest
<1>5. QED
  BY <1>1, <1>2, <1>3, <1>4, ReportSeen, ReadSeen
     DEF Next, Produce, Task, Ready, Take, Arrives, PushFails, Phone, app, history, vars

-----------------------------------------------------------------------------
LEMMA Initially == Init => IInv
<1> SUFFICES ASSUME Init PROVE IInv
  OBVIOUS
<1>1. TypeOK
  <2>1. queue \in Seq(Event) /\ Len(queue) = 0
    BY EmptySeq DEF Init
  <2>2. RingInv
    BY RingSize DEF Init, RingInv
  <2>3. QueueDepth \in Nat /\ MaxRestarts \in Nat /\ RingMax \in Nat
    BY EventPipelineAssumption DEF EventPipelineAssumption
  <2>4. Len(queue) <= QueueDepth /\ offset \in 0..RingMax /\ restarts \in 0..MaxRestarts
    BY <2>1, <2>3 DEF Init
  <2>5. QED
    BY <2>1, <2>2, <2>4 DEF Init, TypeOK, RingInv
<1>2. FlightInv
  BY DEF Init, FlightInv
<1>3. RingOrder
  BY DEF Init, RingOrder
<1>4. OrderInv
  BY EmptySeq DEF Init, OrderInv, Underway
<1>5. SeenInv
  BY DEF Init, SeenInv
<1>6. QED
  BY <1>1, <1>2, <1>3, <1>4, <1>5 DEF IInv

LEMMA Inductive == IInv /\ [Next]_vars => IInv'
BY TypeStep, FlightStep, RingOrderStep, OrderStep, SeenStep, RingPart DEF IInv

LEMMA Invariance == Spec => []IInv
BY Initially, Inductive, PTL DEF Spec

(* Types: the queue never exceeds its depth, whatever the tasks report, and  *)
(* no part that is read leaves the app's offset outside the ring            *)
(* (firebase_rtdb.c:78-85, gatt_server.c:242-263).                          *)
THEOREM TypeCorrect == Spec => []TypeOK
<1>1. IInv => TypeOK
  BY DEF IInv
<1>2. QED
  BY <1>1, Invariance, PTL

LEMMA AtMostOne ==
  ASSUME NEW e \in Event \cup {0}, NEW s, s = (IF e = 0 THEN <<>> ELSE <<e>>)
  PROVE  /\ s \in Seq(Event) /\ Len(s) \in {0, 1}
         /\ Len(s) = 1 => e # 0 /\ s[1] = e
<1>1. CASE e = 0
  <2>1. s = <<>>
    BY <1>1
  <2>2. s \in Seq(Event) /\ Len(s) = 0
    BY <2>1, EmptySeq
  <2>3. QED
    BY <2>2
<1>2. CASE e # 0
  <2>1. e \in Event /\ s = <<e>>
    BY <1>2
  <2>2. s \in Seq(Event) /\ Len(s) = 1 /\ s[1] = e
    BY <2>1
  <2>3. QED
    BY <1>2, <2>2
<1>3. QED
  BY <1>1, <1>2

(* The pairwise order, read off the concatenation.                          *)
LEMMA OrderOfWay ==
  ASSUME TypeOK, OrderInv
  PROVE  CloudKeepsOrder
<1> DEFINE a == IF record = 0 THEN <<>> ELSE <<record>>
           b == IF item = 0 THEN <<>> ELSE <<item>>
           way == a \o (b \o queue)
<1>1. /\ a \in Seq(Event) /\ Len(a) \in {0, 1}
      /\ Len(a) = 1 => record # 0 /\ a[1] = record
  BY AtMostOne DEF TypeOK
<1>2. /\ b \in Seq(Event) /\ Len(b) \in {0, 1}
      /\ Len(b) = 1 => item # 0 /\ b[1] = item
  BY AtMostOne DEF TypeOK
<1>3. queue \in Seq(Event) /\ Len(queue) \in Nat
  BY UnderwayIs DEF TypeOK
<1> HIDE DEF a, b
<1> DEFINE m == Len(a)
           n == Len(b)
<1>4. /\ b \o queue \in Seq(Event) /\ Len(b \o queue) = n + Len(queue)
      /\ \A i \in 1..(n + Len(queue)) :
           (b \o queue)[i] = IF i <= n THEN b[i] ELSE queue[i - n]
  BY <1>2, <1>3, ConcatProperties
<1> DEFINE c == b \o queue
<1> HIDE DEF c
<1>5. /\ a \o c \in Seq(Event) /\ Len(a \o c) = m + Len(c)
      /\ \A i \in 1..(m + Len(c)) : (a \o c)[i] = IF i <= m THEN a[i] ELSE c[i - m]
  BY <1>1, <1>4, ConcatProperties DEF c
<1>6. DOMAIN way = 1..(m + n + Len(queue))
  BY <1>1, <1>2, <1>3, <1>4, <1>5, LenProperties DEF c
<1>7. ASSUME NEW i \in DOMAIN way
      PROVE  \/ i = 1 /\ m = 1 /\ record # 0 /\ way[i] = record
             \/ i = m + 1 /\ n = 1 /\ item # 0 /\ way[i] = item
             \/ i - (m + n) \in 1..Len(queue) /\ way[i] = queue[i - (m + n)]
  <2>1. i \in 1..(m + Len(c)) /\ Len(c) = n + Len(queue)
    BY <1>1, <1>2, <1>3, <1>4, <1>6 DEF c
  <2>2. way[i] = IF i <= m THEN a[i] ELSE c[i - m]
    BY <2>1, <1>5 DEF c
  <2>3. CASE i <= m
    BY <2>1, <2>2, <2>3, <1>1
  <2>4. CASE ~(i <= m)
    <3>1. i - m \in 1..(n + Len(queue)) /\ way[i] = c[i - m]
      BY <2>1, <2>2, <2>4, <1>1, <1>2, <1>3
    <3>2. c[i - m] = IF i - m <= n THEN b[i - m] ELSE queue[i - m - n]
      BY <3>1, <1>4 DEF c
    <3>3. CASE i - m <= n
      <4>1. i - m = 1 /\ n = 1
        BY <3>1, <3>3, <1>1, <1>2
      <4>2. i = m + 1
        BY <4>1, <2>1, <1>1
      <4>3. QED
        BY <4>1, <4>2, <3>1, <3>2, <1>2
    <3>4. CASE ~(i - m <= n)
      <4>1. i - m - n = i - (m + n) /\ i - (m + n) \in 1..Len(queue)
        BY <2>1, <3>1, <3>4, <1>1, <1>2, <1>3
      <4>2. QED
        BY <4>1, <3>1, <3>2, <3>4
    <3>5. QED
      BY <3>3, <3>4
  <2>5. QED
    BY <2>3, <2>4
<1>8. ASSUME NEW i \in DOMAIN way, NEW j \in DOMAIN way, i < j PROVE Before(way[i], way[j])
  <2>1. m \in {0, 1} /\ n \in {0, 1} /\ i \in Nat /\ j \in Nat /\ i < j
    BY <1>1, <1>2, <1>3, <1>6, <1>8
  <2> HIDE DEF way, m, n
  <2>2. CASE i = 1 /\ m = 1 /\ record # 0 /\ way[i] = record
    <3>1. \/ item # 0 /\ way[j] = item
          \/ j - (m + n) \in 1..Len(queue) /\ way[j] = queue[j - (m + n)]
      BY <1>7, <2>1, <2>2
    <3>2. QED
      BY <2>2, <3>1 DEF OrderInv
  <2>3. CASE i = m + 1 /\ n = 1 /\ item # 0 /\ way[i] = item
    <3>1. ~(j = 1 /\ m = 1) /\ j # m + 1
      BY <2>1, <2>3
    <3>2. j - (m + n) \in 1..Len(queue) /\ way[j] = queue[j - (m + n)]
      BY <3>1, <1>7
    <3>3. QED
      BY <2>3, <3>2 DEF OrderInv
  <2>4. CASE i - (m + n) \in 1..Len(queue) /\ way[i] = queue[i - (m + n)]
    <3>1. ~(j = 1 /\ m = 1) /\ ~(j = m + 1 /\ n = 1)
      BY <2>1, <2>4, <1>3
    <3>2. j - (m + n) \in 1..Len(queue) /\ way[j] = queue[j - (m + n)]
      BY <3>1, <1>7
    <3>3. i - (m + n) < j - (m + n)
      BY <2>1
    <3>4. QED
      BY <2>4, <3>2, <3>3 DEF OrderInv
  <2>5. QED
    BY <2>2, <2>3, <2>4, <1>7
<1>9. way = (IF record = 0 THEN <<>> ELSE <<record>>) \o OnItsWay
  BY DEF a, b, OnItsWay
<1> HIDE DEF way
<1>10. QED
  BY <1>8, <1>9 DEF CloudKeepsOrder, Before

(* Each task's events reach the record in the order they were reported,      *)
(* with any number of tasks, any queue, and any loss on the way: what is    *)
(* dropped, fails or goes with a restart never lets a later one be          *)
(* overtaken (firebase_rtdb.c:78-85, 570-573).                              *)
THEOREM OrderKept == Spec => []CloudKeepsOrder
<1>1. IInv => CloudKeepsOrder
  BY OrderOfWay DEF IInv
<1>2. QED
  BY <1>1, Invariance, PTL

(* The acknowledgement of a ring of any size, read in parts of any size,     *)
(* erases only what the app knows or is about to be notified of             *)
(* (gatt_server.c:242-263, 298-309, 590-599).                               *)
THEOREM AckKeeps == Spec => AckLosesNothing
<1> DEFINE Step == phone = "read" /\ phone' = "connected" /\ count' = 0 /\ ~shifted
                     => \A e \in ToSet(Contents) :
                          e \in seen \/ \E p \in Producers : pc[p] = "notify" /\ ev[p] = e
<1>1. IInv => Step
  <2> SUFFICES ASSUME IInv, phone = "read", ~shifted, NEW e \in ToSet(Contents)
               PROVE  e \in seen \/ \E p \in Producers : pc[p] = "notify" /\ ev[p] = e
    OBVIOUS
  <2>1. PICK i \in 1..count : e = Contents[i]
    BY ContentsAre, RingPart DEF IInv, ToSet
  <2>2. QED
    BY <2>1 DEF IInv, SeenInv, Known
<1> HIDE DEF Step
<1>2. IInv => [Step]_vars
  BY <1>1
<1>3. Spec => [][Step]_vars
  BY <1>2, Invariance, PTL
<1>4. QED
  BY <1>3 DEF AckLosesNothing, Step

=============================================================================
