---------------------------- MODULE CBDirtyTracker ----------------------------
(***************************************************************************)
(* The proxy's constant-buffer tracker (d3d11_proxy/CBDirtyTracker.cpp).   *)
(* The game's Map(WRITE_DISCARD) of a dynamic constant buffer is answered  *)
(* with a staging copy, and its Unmap reaches the GPU only if the staging  *)
(* copy differs from the shadow, the contents last committed.  A buffer's  *)
(* contents are a member of a small set; only the all-zero contents, which *)
(* a fresh shadow starts from, are told apart.                             *)
(***************************************************************************)
EXTENDS Naturals

CONSTANTS
  Buffers,    \* addresses of dynamic constant buffers within the size limit
  Contents,   \* what a buffer may hold
  Zero        \* all bytes zero

ASSUME ZeroAssumption == Zero \in Contents

VARIABLES
  tracked,      \* m_entries: buffers that have an entry
  shadow, staging, intercepted, mappedThisFrame,   \* the entries' fields
  gpu,          \* what the real buffer holds
  sent,         \* what it would hold if nothing were filtered
  open,         \* buffers the game is writing to, between Map and Unmap
  idle,         \* frame ends since the buffer was last mapped, up to 2
  astray        \* buffers whose real contents changed, or a write to which was
                \* lost, behind the tracker's back; until the next commit

entries == <<tracked, shadow, staging, intercepted, mappedThisFrame>>
buffers == <<entries, gpu, sent, open, idle, astray>>

BufferTypes ==
  /\ tracked \in SUBSET Buffers /\ intercepted \in SUBSET (open \cap tracked)
  /\ mappedThisFrame \in SUBSET tracked
  /\ shadow \in [Buffers -> Contents] /\ staging \in [Buffers -> Contents]
  /\ gpu \in [Buffers -> Contents] /\ sent \in [Buffers -> Contents]
  /\ open \in SUBSET Buffers /\ idle \in [Buffers -> 0 .. 2]
  /\ astray \in SUBSET Buffers

\* A buffer is created with contents of the game's choosing, or undefined ones.
BuffersInit ==
  /\ tracked = {} /\ intercepted = {} /\ mappedThisFrame = {} /\ open = {} /\ astray = {}
  /\ shadow = [b \in Buffers |-> Zero] /\ staging = [b \in Buffers |-> Zero]
  /\ gpu \in [Buffers -> Contents] /\ sent = gpu
  /\ idle = [b \in Buffers |-> 2]

\* GetOrCreateEntry: the shadow of a new entry is all zeroes.
ShadowAtMap(b) == IF b \in tracked THEN shadow[b] ELSE Zero

\* Map, and the game's writes of v through the pointer it was given: nothing
\* reads the staging copy before Unmap does.
InterceptMap(b, v) ==
  /\ b \notin open
  /\ open' = open \cup {b}
  /\ tracked' = tracked \cup {b}
  /\ shadow' = [shadow EXCEPT ![b] = ShadowAtMap(b)]
  /\ staging' = [staging EXCEPT ![b] = v]
  /\ intercepted' = intercepted \cup {b}
  /\ mappedThisFrame' = mappedThisFrame \cup {b}
  /\ idle' = [idle EXCEPT ![b] = 0]
  /\ UNCHANGED <<gpu, sent, astray>>

Close(b) ==
  /\ b \in open
  /\ open' = open \ {b}
  /\ intercepted' = intercepted \ {b}
  /\ sent' = [sent EXCEPT ![b] = staging[b]]
  /\ UNCHANGED <<tracked, staging, mappedThisFrame, idle>>

\* The comparison with what was last committed.
Unchanged(b) == staging[b] = shadow[b]

\* Unmap of a buffer whose contents the GPU is taken to hold already.
SkipUpdate(b) ==
  /\ b \in intercepted /\ Unchanged(b)
  /\ Close(b)
  /\ UNCHANGED <<shadow, gpu, astray>>

CommitUpdate(b) ==
  /\ b \in intercepted /\ ~Unchanged(b)
  /\ Close(b)
  /\ gpu' = [gpu EXCEPT ![b] = staging[b]]
  /\ shadow' = [shadow EXCEPT ![b] = staging[b]]
  /\ astray' = astray \ {b}

\* The real Map fails: the write is dropped, the game is told nothing.
CommitFails(b) ==
  /\ b \in intercepted /\ ~Unchanged(b)
  /\ Close(b)
  /\ astray' = astray \cup {b}
  /\ UNCHANGED <<shadow, gpu>>

\* Unmap after ClearState took the interception back: it goes to a buffer that
\* is not mapped, and the write stays in the staging copy.
UnmapLost(b) ==
  /\ b \notin intercepted
  /\ Close(b)
  /\ astray' = astray \cup {b}
  /\ UNCHANGED <<shadow, gpu>>

InterceptUnmap(b) == SkipUpdate(b) \/ CommitUpdate(b) \/ CommitFails(b) \/ UnmapLost(b)

\* Wrong: no entry is ever evicted.
SurvivorsAll == tracked

\* The entries that outlive a frame's end.
Survivors == mappedThisFrame

\* A frame ends between two writes, never inside one.
OnFrameEnd ==
  /\ open = {}
  /\ tracked' = Survivors
  /\ mappedThisFrame' = {}
  /\ idle' = [b \in Buffers |-> IF idle[b] < 2 THEN idle[b] + 1 ELSE 2]
  /\ UNCHANGED <<shadow, staging, intercepted, gpu, sent, open, astray>>

OnClearState ==
  /\ intercepted' = {}
  /\ UNCHANGED <<tracked, shadow, staging, mappedThisFrame, gpu, sent, open, idle, astray>>

\* The game destroys a buffer and creates one that gets the same address.  It is
\* astray unless the old one had sat out a whole frame.
Recreate(b, v) ==
  /\ b \notin open
  /\ gpu' = [gpu EXCEPT ![b] = v]
  /\ sent' = [sent EXCEPT ![b] = v]
  /\ astray' = IF idle[b] < 2 THEN astray \cup {b} ELSE astray \ {b}
  /\ UNCHANGED <<entries, open, idle>>

-----------------------------------------------------------------------------
\* A shadow that is not the all-zero one it started from is what the GPU holds,
\* so that a write dropped for being equal to it is redundant.  A buffer that
\* sat out a frame has no shadow (CBDirtyTracker.cpp: shadow, OnFrameEnd).
ShadowIsCurrent ==
  /\ \A b \in tracked \ astray : shadow[b] # Zero => shadow[b] = gpu[b]
  /\ \A b \in tracked : idle[b] < 2
  /\ \A b \in mappedThisFrame : idle[b] = 0

\* The only write the tracker ever withholds from a buffer, other than one that
\* is astray, is a write of zeroes: what the next draw reads differs from what
\* the game wrote only where the game wrote zeroes (CBDirtyTracker.cpp, the
\* comparison with the shadow).
OnlyZeroesLost ==
  \A b \in Buffers \ astray : gpu[b] # sent[b] => sent[b] = Zero

=============================================================================
