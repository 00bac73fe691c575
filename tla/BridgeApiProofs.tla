--------------------------- MODULE BridgeApiProofs ---------------------------
(***************************************************************************)
(* The state ABI for any number of consumers, frames and words: what holds *)
(* of the two slots, the counters and the calls in progress, and the       *)
(* atomic cell they implement.                                             *)
(***************************************************************************)
EXTENDS BridgeApi, TLAPS

\* The mutex has one owner, and it is the thread inside a critical section.
MutexOwner ==
  /\ wpc # "idle" <=> holder = Producer
  /\ \A r \in Readers : rpc[r] # "idle" <=> holder = r

\* The published slot always holds one whole frame, the one it is labelled
\* with; the other slot holds what was copied of the next.
SlotsWhole ==
  /\ \A w \in Words : snapshots[publishedSlot][w] = publishedFrameIndex
  /\ wpc = "copy" => \A w \in Words \ wleft :
       snapshots[1 - publishedSlot][w] = publishedFrameIndex + 1

\* The counter that is read without the mutex lags by one while it is stored.
CounterLag ==
  /\ wpc = "index" => publishedFrameIndex = frameIndex + 1
  /\ wpc # "index" => publishedFrameIndex = frameIndex
  /\ wpc = "valid" => frameIndex > 0
  /\ wpc = "copy" => publishedFrameIndex < MaxFrames

\* Outside critical sections the flag says: published and not torn down.
FlagMeaning ==
  /\ wpc # "idle" => ~teardownLatched
  /\ holder = Closer => teardownLatched
  /\ frameValid => frameIndex > 0
  /\ frameValid /\ holder # Closer => ~teardownLatched
  /\ ~frameValid /\ wpc = "idle" /\ frameIndex > 0 => teardownLatched

\* What a reading call has copied so far is of the published frame.
CopyInProgress == \A r \in Readers :
  /\ rpc[r] # "idle" => frameValid
  /\ rpc[r] # "idle" => \A w \in Words \ rleft[r] : buffer[r][w] = publishedFrameIndex
  /\ rpc[r] = "return" => rleft[r] = {} /\ bufferIndex[r] = publishedFrameIndex
  /\ known[r] <= frameIndex

IInv == TypeOK /\ MutexOwner /\ SlotsWhole /\ CounterLag /\ FlagMeaning /\ CopyInProgress

-----------------------------------------------------------------------------
LEMMA InitIInv == Init => IInv
<1> SUFFICES ASSUME Init PROVE IInv
  OBVIOUS
<1> USE BridgeAssumption DEF BridgeAssumption, Init
<1>1. TypeOK
  <2>1. frameValid \in BOOLEAN /\ teardownLatched \in BOOLEAN OBVIOUS
  <2> QED BY <2>1 DEF TypeOK, Frames, Slots, False
<1>2. MutexOwner BY DEF MutexOwner
<1>3. SlotsWhole BY DEF SlotsWhole, Slots
<1>4. CounterLag BY DEF CounterLag
<1>5. FlagMeaning BY DEF FlagMeaning
<1>6. CopyInProgress
  <2>1. ASSUME NEW r \in Readers PROVE rpc[r] = "idle" /\ known[r] <= frameIndex
    OBVIOUS
  <2> QED BY <2>1, Zenon DEF CopyInProgress
<1> QED BY <1>1, <1>2, <1>3, <1>4, <1>5, <1>6 DEF IInv

LEMMA NextIInv == IInv /\ [Next]_vars => IInv'
<1> SUFFICES ASSUME IInv, [Next]_vars PROVE IInv'
  OBVIOUS
<1> USE BridgeAssumption DEF BridgeAssumption
<1>1. CASE PublishLock
  <2> USE <1>1 DEF PublishLock, IInv, shared, producer, readers, MayPublish, NextSlot,
        StoredIndex, MayRead
  <2>0. frameValid' \in BOOLEAN /\ teardownLatched' \in BOOLEAN BY DEF TypeOK
  <2>1. TypeOK' BY <2>0 DEF TypeOK, Frames, Slots, False, CounterLag, CopyInProgress
  <2>2. MutexOwner' BY DEF MutexOwner, TypeOK
  <2>3. SlotsWhole' BY DEF SlotsWhole, TypeOK, Slots, Frames
  <2>4. CounterLag' BY DEF CounterLag, TypeOK, Frames
  <2>5. FlagMeaning' BY DEF FlagMeaning, MutexOwner, CounterLag, CopyInProgress, TypeOK, Frames
  <2>6. CopyInProgress' BY DEF CopyInProgress, MutexOwner, SlotsWhole, CounterLag, TypeOK, Frames
  <2> QED BY <2>1, <2>2, <2>3, <2>4, <2>5, <2>6
<1>2. ASSUME NEW w \in Words, PublishWord(w) PROVE IInv'
  <2> USE <1>2 DEF PublishWord, IInv, shared, producer, readers, MayPublish, NextSlot,
        StoredIndex, MayRead
  <2>0. frameValid' \in BOOLEAN /\ teardownLatched' \in BOOLEAN BY DEF TypeOK
  <2>1. TypeOK' BY <2>0 DEF TypeOK, Frames, Slots, False, CounterLag, CopyInProgress
  <2>2. MutexOwner' BY DEF MutexOwner, TypeOK
  <2>3. SlotsWhole' BY DEF SlotsWhole, TypeOK, Slots, Frames
  <2>4. CounterLag' BY DEF CounterLag, TypeOK, Frames
  <2>5. FlagMeaning' BY DEF FlagMeaning, MutexOwner, CounterLag, CopyInProgress, TypeOK, Frames
  <2>6. CopyInProgress' BY DEF CopyInProgress, MutexOwner, SlotsWhole, CounterLag, TypeOK, Frames
  <2> QED BY <2>1, <2>2, <2>3, <2>4, <2>5, <2>6
<1>3. CASE PublishFlip
  <2> USE <1>3 DEF PublishFlip, IInv, shared, producer, readers, MayPublish, NextSlot,
        StoredIndex, MayRead
  <2>0. frameValid' \in BOOLEAN /\ teardownLatched' \in BOOLEAN BY DEF TypeOK
  <2>1. TypeOK' BY <2>0 DEF TypeOK, Frames, Slots, False, CounterLag, CopyInProgress
  <2>2. MutexOwner' BY DEF MutexOwner, TypeOK
  <2>3. SlotsWhole' BY DEF SlotsWhole, TypeOK, Slots, Frames
  <2>4. CounterLag' BY DEF CounterLag, TypeOK, Frames
  <2>5. FlagMeaning' BY DEF FlagMeaning, MutexOwner, CounterLag, CopyInProgress, TypeOK, Frames
  <2>6. CopyInProgress' BY DEF CopyInProgress, MutexOwner, SlotsWhole, CounterLag, TypeOK, Frames
  <2> QED BY <2>1, <2>2, <2>3, <2>4, <2>5, <2>6
<1>4. CASE PublishIndex
  <2> USE <1>4 DEF PublishIndex, IInv, shared, producer, readers, MayPublish, NextSlot,
        StoredIndex, MayRead
  <2>0. frameValid' \in BOOLEAN /\ teardownLatched' \in BOOLEAN BY DEF TypeOK
  <2>1. TypeOK' BY <2>0 DEF TypeOK, Frames, Slots, False, CounterLag, CopyInProgress
  <2>2. MutexOwner' BY DEF MutexOwner, TypeOK
  <2>3. SlotsWhole' BY DEF SlotsWhole, TypeOK, Slots, Frames
  <2>4. CounterLag' BY DEF CounterLag, TypeOK, Frames
  <2>5. FlagMeaning' BY DEF FlagMeaning, MutexOwner, CounterLag, CopyInProgress, TypeOK, Frames
  <2>6. CopyInProgress' BY DEF CopyInProgress, MutexOwner, SlotsWhole, CounterLag, TypeOK, Frames
  <2> QED BY <2>1, <2>2, <2>3, <2>4, <2>5, <2>6
<1>5. CASE PublishValid
  <2> USE <1>5 DEF PublishValid, IInv, shared, producer, readers, MayPublish, NextSlot,
        StoredIndex, MayRead
  <2>0. frameValid' \in BOOLEAN /\ teardownLatched' \in BOOLEAN BY DEF TypeOK
  <2>1. TypeOK' BY <2>0 DEF TypeOK, Frames, Slots, False, CounterLag, CopyInProgress
  <2>2. MutexOwner' BY DEF MutexOwner, TypeOK
  <2>3. SlotsWhole' BY DEF SlotsWhole, TypeOK, Slots, Frames
  <2>4. CounterLag' BY DEF CounterLag, TypeOK, Frames
  <2>5. FlagMeaning' BY DEF FlagMeaning, MutexOwner, CounterLag, CopyInProgress, TypeOK, Frames
  <2>6. CopyInProgress' BY DEF CopyInProgress, MutexOwner, SlotsWhole, CounterLag, TypeOK, Frames
  <2> QED BY <2>1, <2>2, <2>3, <2>4, <2>5, <2>6
<1>6. CASE TeardownLatch
  <2> USE <1>6 DEF TeardownLatch, IInv, shared, producer, readers, MayPublish, NextSlot,
        StoredIndex, MayRead
  <2>0. frameValid' \in BOOLEAN /\ teardownLatched' \in BOOLEAN BY DEF TypeOK
  <2>1. TypeOK' BY <2>0 DEF TypeOK, Frames, Slots, False, CounterLag, CopyInProgress
  <2>2. MutexOwner' BY DEF MutexOwner, TypeOK
  <2>3. SlotsWhole' BY DEF SlotsWhole, TypeOK, Slots, Frames
  <2>4. CounterLag' BY DEF CounterLag, TypeOK, Frames
  <2>5. FlagMeaning' BY DEF FlagMeaning, MutexOwner, CounterLag, CopyInProgress, TypeOK, Frames
  <2>6. CopyInProgress' BY DEF CopyInProgress, MutexOwner, SlotsWhole, CounterLag, TypeOK, Frames
  <2> QED BY <2>1, <2>2, <2>3, <2>4, <2>5, <2>6
<1>7. CASE TeardownInvalidate
  <2> USE <1>7 DEF TeardownInvalidate, IInv, shared, producer, readers, MayPublish, NextSlot,
        StoredIndex, MayRead
  <2>0. frameValid' \in BOOLEAN /\ teardownLatched' \in BOOLEAN BY DEF TypeOK
  <2>1. TypeOK' BY <2>0 DEF TypeOK, Frames, Slots, False, CounterLag, CopyInProgress
  <2>2. MutexOwner' BY DEF MutexOwner, TypeOK
  <2>3. SlotsWhole' BY DEF SlotsWhole, TypeOK, Slots, Frames
  <2>4. CounterLag' BY DEF CounterLag, TypeOK, Frames
  <2>5. FlagMeaning' BY DEF FlagMeaning, MutexOwner, CounterLag, CopyInProgress, TypeOK, Frames
  <2>6. CopyInProgress' BY DEF CopyInProgress, MutexOwner, SlotsWhole, CounterLag, TypeOK, Frames
  <2> QED BY <2>1, <2>2, <2>3, <2>4, <2>5, <2>6
<1>8. ASSUME NEW r \in Readers, ReadLock(r) PROVE IInv'
  <2> USE <1>8 DEF ReadLock, IInv, shared, producer, readers, MayPublish, NextSlot,
        StoredIndex, MayRead
  <2>0. frameValid' \in BOOLEAN /\ teardownLatched' \in BOOLEAN BY DEF TypeOK
  <2>1. TypeOK' BY <2>0 DEF TypeOK, Frames, Slots, False, CounterLag, CopyInProgress
  <2>2. MutexOwner' BY DEF MutexOwner, TypeOK
  <2>3. SlotsWhole' BY DEF SlotsWhole, TypeOK, Slots, Frames
  <2>4. CounterLag' BY DEF CounterLag, TypeOK, Frames
  <2>5. FlagMeaning' BY DEF FlagMeaning, MutexOwner, CounterLag, CopyInProgress, TypeOK, Frames
  <2>6. CopyInProgress' BY DEF CopyInProgress, MutexOwner, SlotsWhole, CounterLag, TypeOK, Frames
  <2> QED BY <2>1, <2>2, <2>3, <2>4, <2>5, <2>6
<1>9. ASSUME NEW r \in Readers, ReadRefused(r) PROVE IInv'
  <2> USE <1>9 DEF ReadRefused, IInv, shared, producer, readers, MayPublish, NextSlot,
        StoredIndex, MayRead
  <2>0. frameValid' \in BOOLEAN /\ teardownLatched' \in BOOLEAN BY DEF TypeOK
  <2>1. TypeOK' BY <2>0 DEF TypeOK, Frames, Slots, False, CounterLag, CopyInProgress
  <2>2. MutexOwner' BY DEF MutexOwner, TypeOK
  <2>3. SlotsWhole' BY DEF SlotsWhole, TypeOK, Slots, Frames
  <2>4. CounterLag' BY DEF CounterLag, TypeOK, Frames
  <2>5. FlagMeaning' BY DEF FlagMeaning, MutexOwner, CounterLag, CopyInProgress, TypeOK, Frames
  <2>6. CopyInProgress' BY DEF CopyInProgress, MutexOwner, SlotsWhole, CounterLag, TypeOK, Frames
  <2> QED BY <2>1, <2>2, <2>3, <2>4, <2>5, <2>6
<1>10. ASSUME NEW r \in Readers, NEW w \in Words, ReadWord(r, w) PROVE IInv'
  <2> USE <1>10 DEF ReadWord, IInv, shared, producer, readers, MayPublish, NextSlot,
        StoredIndex, MayRead
  <2>0. frameValid' \in BOOLEAN /\ teardownLatched' \in BOOLEAN BY DEF TypeOK
  <2>1. TypeOK' BY <2>0 DEF TypeOK, Frames, Slots, False, CounterLag, CopyInProgress
  <2>2. MutexOwner' BY DEF MutexOwner, TypeOK
  <2>3. SlotsWhole' BY DEF SlotsWhole, TypeOK, Slots, Frames
  <2>4. CounterLag' BY DEF CounterLag, TypeOK, Frames
  <2>5. FlagMeaning' BY DEF FlagMeaning, MutexOwner, CounterLag, CopyInProgress, TypeOK, Frames
  <2>6. CopyInProgress' BY DEF CopyInProgress, MutexOwner, SlotsWhole, CounterLag, TypeOK, Frames
  <2> QED BY <2>1, <2>2, <2>3, <2>4, <2>5, <2>6
<1>11. ASSUME NEW r \in Readers, ReadIndex(r) PROVE IInv'
  <2> USE <1>11 DEF ReadIndex, IInv, shared, producer, readers, MayPublish, NextSlot,
        StoredIndex, MayRead
  <2>0. frameValid' \in BOOLEAN /\ teardownLatched' \in BOOLEAN BY DEF TypeOK
  <2>1. TypeOK' BY <2>0 DEF TypeOK, Frames, Slots, False, CounterLag, CopyInProgress
  <2>2. MutexOwner' BY DEF MutexOwner, TypeOK
  <2>3. SlotsWhole' BY DEF SlotsWhole, TypeOK, Slots, Frames
  <2>4. CounterLag' BY DEF CounterLag, TypeOK, Frames
  <2>5. FlagMeaning' BY DEF FlagMeaning, MutexOwner, CounterLag, CopyInProgress, TypeOK, Frames
  <2>6. CopyInProgress' BY DEF CopyInProgress, MutexOwner, SlotsWhole, CounterLag, TypeOK, Frames
  <2> QED BY <2>1, <2>2, <2>3, <2>4, <2>5, <2>6
<1>12. ASSUME NEW r \in Readers, ReadReturn(r) PROVE IInv'
  <2> USE <1>12 DEF ReadReturn, IInv, shared, producer, readers, MayPublish, NextSlot,
        StoredIndex, MayRead
  <2>0. frameValid' \in BOOLEAN /\ teardownLatched' \in BOOLEAN BY DEF TypeOK
  <2>1. TypeOK' BY <2>0 DEF TypeOK, Frames, Slots, False, CounterLag, CopyInProgress
  <2>2. MutexOwner' BY DEF MutexOwner, TypeOK
  <2>3. SlotsWhole' BY DEF SlotsWhole, TypeOK, Slots, Frames
  <2>4. CounterLag' BY DEF CounterLag, TypeOK, Frames
  <2>5. FlagMeaning' BY DEF FlagMeaning, MutexOwner, CounterLag, CopyInProgress, TypeOK, Frames
  <2>6. CopyInProgress' BY DEF CopyInProgress, MutexOwner, SlotsWhole, CounterLag, TypeOK, Frames
  <2> QED BY <2>1, <2>2, <2>3, <2>4, <2>5, <2>6
<1>13. ASSUME NEW r \in Readers, GetFrameIndex(r) PROVE IInv'
  <2> USE <1>13 DEF GetFrameIndex, IInv, shared, producer, readers, MayPublish, NextSlot,
        StoredIndex, MayRead
  <2>0. frameValid' \in BOOLEAN /\ teardownLatched' \in BOOLEAN BY DEF TypeOK
  <2>1. TypeOK' BY <2>0 DEF TypeOK, Frames, Slots, False, CounterLag, CopyInProgress
  <2>2. MutexOwner' BY DEF MutexOwner, TypeOK
  <2>3. SlotsWhole' BY DEF SlotsWhole, TypeOK, Slots, Frames
  <2>4. CounterLag' BY DEF CounterLag, TypeOK, Frames
  <2>5. FlagMeaning' BY DEF FlagMeaning, MutexOwner, CounterLag, CopyInProgress, TypeOK, Frames
  <2>6. CopyInProgress' BY DEF CopyInProgress, MutexOwner, SlotsWhole, CounterLag, TypeOK, Frames
  <2> QED BY <2>1, <2>2, <2>3, <2>4, <2>5, <2>6
<1>14. CASE UNCHANGED vars
  BY <1>14 DEF vars, shared, producer, readers, IInv, TypeOK, MutexOwner, SlotsWhole,
     CounterLag, FlagMeaning, CopyInProgress
<1> QED
  BY <1>1, <1>2, <1>3, <1>4, <1>5, <1>6, <1>7, <1>8, <1>9, <1>10, <1>11, <1>12, <1>13, <1>14
  DEF Next, Publish, Teardown, Read

LEMMA Invariance == Spec => []IInv
  BY InitIInv, NextIInv, PTL DEF Spec

-----------------------------------------------------------------------------
(* The properties.                                                         *)

\* The fields of core/BridgeApi.cpp keep their ranges; the frame counter does
\* so because it never passes the count of published frames.
THEOREM TypeCorrect == Spec => []TypeOK
<1>1. IInv => TypeOK BY DEF IInv
<1> QED BY <1>1, Invariance, PTL

\* CopyFrameData never returns a torn block or another frame's number.
THEOREM CopiesCoherent == Spec => []CopyCoherent
<1>1. IInv => CopyCoherent
  <2> SUFFICES ASSUME IInv, NEW r \in Readers, rpc[r] = "return", NEW w \in Words
               PROVE  buffer[r][w] = bufferIndex[r]
    BY DEF CopyCoherent
  <2>1. w \in Words \ rleft[r] BY DEF IInv, CopyInProgress
  <2> QED BY <2>1 DEF IInv, CopyInProgress
<1> QED BY <1>1, Invariance, PTL

\* A consumer never copies a frame older than one it already knows of.
THEOREM CopiesNotStale == Spec => []CopyNotStale
<1>1. IInv => CopyNotStale
  <2> SUFFICES ASSUME IInv, NEW r \in Readers, rpc[r] = "return"
               PROVE  known[r] <= bufferIndex[r]
    BY DEF CopyNotStale
  <2>1. wpc = "idle"
    BY BridgeAssumption DEF BridgeAssumption, IInv, MutexOwner
  <2> QED BY <2>1 DEF IInv, CopyInProgress, CounterLag
<1> QED BY <1>1, Invariance, PTL

\* Without the mutex, a valid flag still means a published frame.
THEOREM FlagTellsPublished == Spec => []ValidMeansPublished
<1>1. IInv => ValidMeansPublished
  BY DEF ValidMeansPublished, IInv, FlagMeaning, CounterLag, TypeOK, Frames
<1> QED BY <1>1, Invariance, PTL

\* After MarkTeardown no frame becomes valid and no call returns one.
THEOREM TeardownIsFinal == Spec => TeardownFinal
<1>1. ASSUME IInv, [Next]_vars, teardownLatched, holder # Closer
      PROVE  /\ ~frameValid'
             /\ \A r \in Readers : result'[r] # result[r] => result'[r] = False
  <2>1. ~frameValid /\ wpc = "idle" /\ \A r \in Readers : rpc[r] = "idle"
    BY <1>1 DEF IInv, FlagMeaning, CopyInProgress
  <2>2. ASSUME UNCHANGED readers
        PROVE  \A r \in Readers : result'[r] = result[r]
    BY <2>2 DEF readers
  <2>3. CASE Publish
    BY <1>1, <2>1, <2>3 DEF Publish, PublishLock, PublishWord, PublishFlip,
       PublishIndex, PublishValid, MayPublish
  <2>4. CASE Teardown
    <3>1. UNCHANGED readers
      BY <2>4 DEF Teardown, TeardownLatch, TeardownInvalidate
    <3>2. ~frameValid'
      BY <2>1, <2>4 DEF Teardown, TeardownLatch, TeardownInvalidate
    <3> QED BY <2>2, <3>1, <3>2
  <2>5. CASE UNCHANGED vars
    BY <2>1, <2>2, <2>5 DEF vars, shared
  <2>6. ASSUME NEW q \in Readers, Read(q)
        PROVE  ~frameValid' /\ \A r \in Readers :
                 result'[r] # result[r] => result'[r] = False
    <3>1. ReadRefused(q) \/ GetFrameIndex(q)
      BY <2>1, <2>6 DEF Read, ReadLock, ReadWord, ReadIndex, ReadReturn
    <3>2. UNCHANGED shared
      BY <3>1 DEF ReadRefused, GetFrameIndex
    <3>3. ~frameValid'
      BY <2>1, <3>2 DEF shared
    <3>4. result \in [Readers -> Frames] BY <1>1 DEF IInv, TypeOK
    <3>5. result' \in {result, [result EXCEPT ![q] = False]}
      BY <3>1 DEF ReadRefused, GetFrameIndex
    <3>6. \A r \in Readers : result'[r] # result[r] => result'[r] = False
      BY <3>4, <3>5
    <3> QED BY <3>3, <3>6
  <2> QED BY <1>1, <2>3, <2>4, <2>5, <2>6 DEF Next
<1> QED BY <1>1, Invariance, PTL DEF Spec, TeardownFinal

\* The frame counter moves by single steps and never back.
THEOREM CounterIsMonotonic == Spec => CounterMonotonic
<1>1. IInv /\ [Next]_vars => [frameIndex' \in {frameIndex, frameIndex + 1}]_vars
  BY DEF IInv, CounterLag, Next, Publish, Teardown, Read, PublishLock, PublishWord,
     PublishFlip, PublishIndex, StoredIndex, PublishValid, TeardownLatch,
     TeardownInvalidate, ReadLock, ReadRefused, ReadWord, ReadIndex, ReadReturn,
     GetFrameIndex, vars, shared
<1> QED BY <1>1, Invariance, PTL DEF Spec, CounterMonotonic

-----------------------------------------------------------------------------
(* The atomic cell: a frame is published when the slot and its counter are  *)
(* exchanged, a read takes effect when its result is returned.              *)

LEMMA NextCell ==
  ASSUME IInv, [Next]_vars
  PROVE  Cell!Next \/ UNCHANGED <<publishedFrameIndex, teardownLatched, result>>
<1> USE DEF Cell!Next, shared, readers
<1>1. CASE PublishFlip
  BY <1>1 DEF PublishFlip, IInv, FlagMeaning, Cell!Publish
<1>2. CASE TeardownLatch
  BY <1>2 DEF TeardownLatch, Cell!Close
<1>3. ASSUME NEW r \in Readers, ReadReturn(r)
      PROVE  Cell!Read(r)
  <2>1. frameValid /\ holder = r /\ bufferIndex[r] = publishedFrameIndex
    BY <1>3 DEF ReadReturn, IInv, MutexOwner, CopyInProgress
  <2>2. ~teardownLatched
    BY <2>1, BridgeAssumption DEF BridgeAssumption, IInv, FlagMeaning
  <2> QED BY <1>3, <2>1, <2>2 DEF ReadReturn, Cell!Read
<1>4. ASSUME NEW r \in Readers, ReadRefused(r)
      PROVE  Cell!Read(r)
  <2>1. holder = NoThread /\ ~frameValid
    BY <1>4 DEF ReadRefused, MayRead
  <2>2. wpc = "idle" /\ publishedFrameIndex = frameIndex
    BY <2>1, BridgeAssumption DEF BridgeAssumption, IInv, MutexOwner, CounterLag
  <2>3. teardownLatched \/ publishedFrameIndex = 0
    BY <2>1, <2>2 DEF IInv, FlagMeaning, TypeOK, Frames
  <2> QED BY <1>4, <2>3 DEF ReadRefused, False, Cell!Read, Cell!Nothing
<1>5. CASE PublishLock \/ (\E w \in Words : PublishWord(w)) \/ PublishIndex
             \/ PublishValid \/ TeardownInvalidate
  BY <1>5 DEF PublishLock, PublishWord, PublishIndex, PublishValid, TeardownInvalidate
<1>6. ASSUME NEW r \in Readers,
             ReadLock(r) \/ (\E w \in Words : ReadWord(r, w)) \/ ReadIndex(r)
               \/ GetFrameIndex(r)
      PROVE  UNCHANGED <<publishedFrameIndex, teardownLatched, result>>
  BY <1>6 DEF ReadLock, ReadWord, ReadIndex, GetFrameIndex
<1>7. CASE UNCHANGED vars BY <1>7 DEF vars
<1> QED
  BY <1>1, <1>2, <1>3, <1>4, <1>5, <1>6, <1>7 DEF Next, Publish, Teardown, Read

\* Publishing, teardown and the reads are one atomic step each, although they
\* copy word by word: docs/BRIDGE-ABI.md's "coherent consumer path".
THEOREM ImplementsCell == Spec => CellSpec
<1>1. Init => Cell!Init BY DEF Init, Cell!Init, Cell!Nothing, False
<1>2. IInv /\ [Next]_vars
        => [Cell!Next]_<<publishedFrameIndex, teardownLatched, result>>
  BY NextCell
<1> QED BY <1>1, <1>2, Invariance, PTL DEF Spec, CellSpec, Cell!Spec

=============================================================================
