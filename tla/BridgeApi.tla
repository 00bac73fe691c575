------------------------------ MODULE BridgeApi ------------------------------
(***************************************************************************)
(* The in-process state ABI (core/BridgeApi.cpp): the frame thread         *)
(* publishes each AllData block into the slot of a pair that readers do    *)
(* not use, under a mutex; consumers on any thread copy the published slot *)
(* under the same mutex, or read the frame counter and the valid flag with *)
(* no lock at all; teardown latches.  AllData is a set of words that are   *)
(* copied one at a time, and a word holds the number of its frame.         *)
(***************************************************************************)
EXTENDS Naturals

CONSTANTS
  Readers,                     \* consumer threads
  Producer, Closer, NoThread,  \* frame thread, teardown caller, free mutex
  Words,                       \* the words of an AllData block
  MaxFrames                    \* bound: frames published

ASSUME BridgeAssumption ==
  /\ Producer \notin Readers /\ Closer \notin Readers /\ NoThread \notin Readers
  /\ Producer # Closer /\ Producer # NoThread /\ Closer # NoThread
  /\ Words # {}
  /\ MaxFrames \in Nat

Slots == {0, 1}

VARIABLES
  frameIndex, frameValid,              \* atomics that are read without the mutex
  holder,                              \* who holds g_snapshotMutex
  snapshots, publishedSlot, publishedFrameIndex, teardownLatched,
  wpc, wleft,                          \* MarkFramePublished: where, words to copy
  rpc, rleft, buffer, bufferIndex,     \* a reading call and the memory it fills
  result,                              \* what the thread's last call returned
  known                                \* newest frame a thread knows to be out

shared   == <<frameIndex, frameValid, snapshots, publishedSlot,
              publishedFrameIndex, teardownLatched>>
producer == <<wpc, wleft>>
readers  == <<rpc, rleft, buffer, bufferIndex, result, known>>
vars     == <<shared, holder, producer, readers>>

Frames == 0 .. MaxFrames
False  == 0            \* result of a call that returned false or a null pointer

TypeOK ==
  /\ frameIndex \in Frames /\ publishedFrameIndex \in Frames
  /\ frameValid \in BOOLEAN /\ teardownLatched \in BOOLEAN
  /\ holder \in Readers \cup {Producer, Closer, NoThread}
  /\ snapshots \in [Slots -> [Words -> Frames]] /\ publishedSlot \in Slots
  /\ wpc \in {"idle", "copy", "index", "valid"} /\ wleft \subseteq Words
  /\ rpc \in [Readers -> {"idle", "copy", "return"}]
  /\ rleft \in [Readers -> SUBSET Words]
  /\ buffer \in [Readers -> [Words -> Frames]]
  /\ bufferIndex \in [Readers -> Frames]
  /\ result \in [Readers -> Frames] /\ known \in [Readers -> Frames]

Init ==
  /\ frameIndex = 0 /\ frameValid = FALSE
  /\ holder = NoThread
  /\ snapshots = [s \in Slots |-> [w \in Words |-> 0]] /\ publishedSlot = 0
  /\ publishedFrameIndex = 0 /\ teardownLatched = FALSE
  /\ wpc = "idle" /\ wleft = {}
  /\ rpc = [r \in Readers |-> "idle"] /\ rleft = [r \in Readers |-> {}]
  /\ buffer = [r \in Readers |-> [w \in Words |-> 0]]
  /\ bufferIndex = [r \in Readers |-> 0]
  /\ result = [r \in Readers |-> False] /\ known = [r \in Readers |-> 0]

-----------------------------------------------------------------------------
(* The frame thread: MarkFramePublished.                                   *)

PublishAfterTeardown == TRUE
MayPublish == ~teardownLatched

NextSlot == 1 - publishedSlot

\* Takes the mutex; after teardown it returns having done nothing.
PublishLock ==
  /\ wpc = "idle" /\ holder = NoThread
  /\ publishedFrameIndex < MaxFrames
  /\ MayPublish
  /\ holder' = Producer
  /\ wpc' = "copy" /\ wleft' = Words
  /\ UNCHANGED <<shared, readers>>

PublishWord(w) ==
  /\ wpc = "copy" /\ w \in wleft
  /\ snapshots' = [snapshots EXCEPT ![NextSlot][w] = publishedFrameIndex + 1]
  /\ wleft' = wleft \ {w}
  /\ UNCHANGED <<frameIndex, frameValid, publishedSlot, publishedFrameIndex,
                 teardownLatched, holder, wpc, readers>>

\* The slots change roles, and the counter that goes with the slot advances.
PublishFlip ==
  /\ wpc = "copy" /\ wleft = {}
  /\ publishedSlot' = NextSlot
  /\ publishedFrameIndex' = publishedFrameIndex + 1
  /\ wpc' = "index"
  /\ UNCHANGED <<frameIndex, frameValid, snapshots, teardownLatched, holder,
                 wleft, readers>>

StoredIndexAhead == publishedFrameIndex + 1
StoredIndex == publishedFrameIndex

\* The two stores the lock-free calls see, in this order.
PublishIndex ==
  /\ wpc = "index"
  /\ frameIndex' = StoredIndex
  /\ wpc' = "valid"
  /\ UNCHANGED <<frameValid, snapshots, publishedSlot, publishedFrameIndex,
                 teardownLatched, holder, wleft, readers>>

PublishValid ==
  /\ wpc = "valid"
  /\ frameValid' = TRUE
  /\ holder' = NoThread
  /\ wpc' = "idle"
  /\ UNCHANGED <<frameIndex, snapshots, publishedSlot, publishedFrameIndex,
                 teardownLatched, wleft, readers>>

-----------------------------------------------------------------------------
(* MarkTeardown, from the ENB exit callback or the window procedure.       *)

TeardownLatch ==
  /\ holder = NoThread
  /\ holder' = Closer
  /\ teardownLatched' = TRUE
  /\ UNCHANGED <<frameIndex, frameValid, snapshots, publishedSlot,
                 publishedFrameIndex, producer, readers>>

TeardownInvalidate ==
  /\ holder = Closer
  /\ frameValid' = FALSE
  /\ holder' = NoThread
  /\ UNCHANGED <<frameIndex, snapshots, publishedSlot, publishedFrameIndex,
                 teardownLatched, producer, readers>>

-----------------------------------------------------------------------------
(* Consumers.  CopyFrameData and GetFrameData are one critical section,    *)
(* into the caller's buffer or into its thread's own snapshot.             *)

ReadUnlocked(r) == TRUE
MayRead(r) == holder = NoThread

ReadLock(r) ==
  /\ rpc[r] = "idle" /\ MayRead(r)
  /\ frameValid
  /\ holder' = r
  /\ rpc' = [rpc EXCEPT ![r] = "copy"] /\ rleft' = [rleft EXCEPT ![r] = Words]
  /\ UNCHANGED <<shared, producer, buffer, bufferIndex, result, known>>

ReadRefused(r) ==
  /\ rpc[r] = "idle" /\ MayRead(r)
  /\ ~frameValid
  /\ result' = [result EXCEPT ![r] = False]
  /\ UNCHANGED <<shared, holder, producer, rpc, rleft, buffer, bufferIndex, known>>

ReadWord(r, w) ==
  /\ rpc[r] = "copy" /\ w \in rleft[r]
  /\ buffer' = [buffer EXCEPT ![r][w] = snapshots[publishedSlot][w]]
  /\ rleft' = [rleft EXCEPT ![r] = @ \ {w}]
  /\ UNCHANGED <<shared, holder, producer, rpc, bufferIndex, result, known>>

ReadIndex(r) ==
  /\ rpc[r] = "copy" /\ rleft[r] = {}
  /\ bufferIndex' = [bufferIndex EXCEPT ![r] = publishedFrameIndex]
  /\ rpc' = [rpc EXCEPT ![r] = "return"]
  /\ UNCHANGED <<shared, holder, producer, rleft, buffer, result, known>>

ReadReturn(r) ==
  /\ rpc[r] = "return"
  /\ rpc' = [rpc EXCEPT ![r] = "idle"]
  /\ holder' = NoThread
  /\ result' = [result EXCEPT ![r] = bufferIndex[r]]
  /\ known' = [known EXCEPT ![r] = bufferIndex[r]]
  /\ UNCHANGED <<shared, producer, rleft, buffer, bufferIndex>>

\* GetFrameIndex, at any moment and without the mutex.
GetFrameIndex(r) ==
  /\ rpc[r] = "idle"
  /\ known' = [known EXCEPT ![r] = frameIndex]
  /\ UNCHANGED <<shared, holder, producer, rpc, rleft, buffer, bufferIndex, result>>

-----------------------------------------------------------------------------
Publish  == PublishLock \/ (\E w \in Words : PublishWord(w)) \/ PublishFlip
              \/ PublishIndex \/ PublishValid
Teardown == TeardownLatch \/ TeardownInvalidate
Read(r)  == ReadLock(r) \/ ReadRefused(r) \/ (\E w \in Words : ReadWord(r, w))
              \/ ReadIndex(r) \/ ReadReturn(r) \/ GetFrameIndex(r)

Next == Publish \/ Teardown \/ \E r \in Readers : Read(r)

Spec == Init /\ [][Next]_vars

-----------------------------------------------------------------------------
(* Properties.                                                             *)

\* CopyFrameData "copies one complete published snapshot" and returns "the frame
\* index that matches that copied snapshot" (docs/BRIDGE-ABI.md:39).
CopyCoherent == \A r \in Readers :
  rpc[r] = "return" => \A w \in Words : buffer[r][w] = bufferIndex[r]

\* A thread that knows of a frame, from the lock-free counter or an earlier
\* copy, never copies an older one.
CopyNotStale == \A r \in Readers : rpc[r] = "return" => known[r] <= bufferIndex[r]

\* IsFrameValid is false before the first frame: whoever sees it true, without
\* the mutex, finds a frame counter and a slot that were published.
ValidMeansPublished ==
  frameValid => frameIndex > 0 /\ frameIndex <= publishedFrameIndex

\* Teardown is final: once MarkTeardown has returned, no step makes the frame
\* valid again and no call that starts later returns one.
TeardownFinal ==
  [][teardownLatched /\ holder # Closer =>
       /\ ~frameValid'
       /\ \A r \in Readers : result'[r] # result[r] => result'[r] = False]_vars

\* The frame counter that consumers poll moves by single steps and never back
\* ("Monotonic, incremented once per published frame", SkyrimBridgeAPI.h).
CounterMonotonic == [][frameIndex' \in {frameIndex, frameIndex + 1}]_vars

\* The atomic cell these calls implement.  A torn or mislabelled copy would be
\* a read of a frame the cell does not hold.
Cell == INSTANCE SnapshotCell
          WITH latest <- publishedFrameIndex, closed <- teardownLatched, got <- result

CellSpec == Cell!Spec

=============================================================================
