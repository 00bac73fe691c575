-------------------------------- MODULE GBuffer --------------------------------
(***************************************************************************)
(* The proxy's G-buffer.  Every pixel shader the game creates is tracked   *)
(* by the hash of its code (d3d11_proxy/ShaderManager.cpp), which stands   *)
(* for the program itself, and the shaders that light a surface are given  *)
(* a replacement that fills three more targets                             *)
(* (d3d11_proxy/MaterialPipeline.cpp).  The wrapped context binds the      *)
(* replacement and adds the targets (d3d11_proxy/WrappedContext.cpp); the  *)
(* swap chain makes, clears and publishes them                             *)
(* (d3d11_proxy/WrappedSwapChain.cpp).                                     *)
(***************************************************************************)
EXTENDS ShaderPatch

CONSTANTS
  Pointers,       \* where the device may put a pixel shader
  VertexPointers, \* and a vertex shader
  Programs,       \* the game's shaders, by name
  VertexNames,    \* those of vertices
  Sizes,          \* of the back buffer; 0 stands for one with a zero in it
  Failures,       \* sets of targets that cannot be made in a run
  MaxCreated,     \* bound: pixel shaders created
  MaxLost         \* bound: lost targets counted

Names == {"albedo", "normals", "material"}
None  == [elements |-> <<>>, names |-> <<>>, textures |-> <<>>, temps |-> 0, code |-> <<>>]
PixelNames == DOMAIN Programs \ VertexNames
Kinds == {"vertex", "pixel"}
Places(kind) == IF kind = "pixel" THEN Pointers ELSE VertexPointers
Nothing == "nothing"

ASSUME GBufferAssumption ==
  /\ Nothing \notin Pointers \cup VertexPointers \cup DOMAIN Programs
  /\ 0 \notin Sizes
  /\ MaxCreated \in Nat /\ MaxLost \in Nat
  /\ \A n \in DOMAIN Programs : IsProgram(Programs[n])

Original(program) == [program |-> program, patched |-> FALSE]
Replacement(program) == [program |-> program, patched |-> TRUE]
Patched == [n \in PixelNames |-> PatchForGBufferOutput(Programs[n], ClassifyFromDXBC(Programs[n]))]
Code(shader) ==
  IF shader.program = Nothing THEN None
  ELSE IF shader.patched THEN Patched[shader.program] ELSE Programs[shader.program]

VARIABLES
  live,           \* the game's shaders, by pointer
  toHash,         \* m_psToHash and m_vsToHash: pointer to program
  psReplacements, \* programs one has been created for
  current,        \* m_currentVS, m_currentPS: what the game set last
  bound,          \* what the device has, by kind: a program, or its replacement
  meant,          \* the program the game set, by kind
  created,
  targets,        \* of the G-buffer: "absent", "raw", "clear", "now" or "before"
  made,           \* m_width, m_height
  size,           \* of the back buffer
  failing,
  initialized,    \* m_initialized
  enabled,        \* m_enabled
  outputs,        \* bound: the game's, with the G-buffer or with one since destroyed
  published,      \* what the interface of the proxy offers
  lost,           \* textures nobody will release
  disturbed       \* switched on or resized since the last Present

tracking == <<live, toHash, psReplacements, created>>
binding  == <<current, bound, meant>>
surface  == <<targets, made, size, initialized, lost>>
gbufferVars == <<tracking, binding, surface, failing, enabled, outputs, published, disturbed>>

GBufferInit ==
  /\ live = [p \in Pointers \cup VertexPointers |-> Nothing]
  /\ toHash = [p \in {} |-> Nothing] /\ psReplacements = {}
  /\ current = [k \in Kinds |-> Nothing]
  /\ bound = [k \in Kinds |-> Original(Nothing)] /\ meant = [k \in Kinds |-> Nothing]
  /\ created = 0
  /\ targets = [t \in Names |-> "absent"] /\ made = 0
  /\ size \in Sizes /\ failing \in Failures
  /\ initialized = FALSE /\ enabled = FALSE
  /\ outputs = "game" /\ published = [t \in Names |-> "none"]
  /\ lost = 0 /\ disturbed = FALSE

-----------------------------------------------------------------------------
(* Shaders. *)

\* Wrong: a pointer the device uses again keeps its first hash.
FirstHash(p, program) == [q \in DOMAIN toHash \cup {p} |-> IF q \in DOMAIN toHash THEN toHash[q] ELSE program]

\* Never forgotten, so that the entry of a pointer is that of its last shader.
OnShaderCreated(p, program) == [q \in DOMAIN toHash \cup {p} |-> IF q = p THEN program ELSE toHash[q]]

\* Every candidate, whether the pipeline is enabled or not; the device may
\* refuse the patched program, whose checksum is zeroed.
OnPixelShaderCreated(program, accepted) ==
  IF /\ IsLightingShaderCandidate(Programs[program]) /\ Patchable(Programs[program])
     /\ accepted /\ MayBeCreated(Patched[program])
  THEN psReplacements' = psReplacements \cup {program}
  ELSE UNCHANGED psReplacements

CreatePixelShader(p, program, accepted) ==
  /\ live[p] = Nothing /\ created < MaxCreated
  /\ live' = [live EXCEPT ![p] = program]
  /\ toHash' = OnShaderCreated(p, program)
  /\ OnPixelShaderCreated(program, accepted)
  /\ created' = created + 1
  /\ UNCHANGED <<binding, surface, failing, enabled, outputs, published, disturbed>>

CreateVertexShader(p, program) ==
  /\ live[p] = Nothing
  /\ live' = [live EXCEPT ![p] = program]
  /\ toHash' = OnShaderCreated(p, program)
  /\ UNCHANGED <<psReplacements, created, binding, surface, failing, enabled, outputs, published, disturbed>>

\* The game lets go of a shader; the device may put the next one in its place,
\* unless it still has it bound.
ReleaseShader(p) ==
  /\ live[p] # Nothing
  /\ \A kind \in Kinds : current[kind] = p => bound[kind] # Original(meant[kind])
  /\ live' = [live EXCEPT ![p] = Nothing]
  /\ UNCHANGED <<toHash, psReplacements, created, binding, surface, failing, enabled, outputs,
                 published, disturbed>>

\* No vertex shader has a replacement.
HasReplacement(kind, p) ==
  kind = "pixel" /\ p \in DOMAIN toHash /\ toHash[p] \in psReplacements

SetShader(kind, p) ==
  LET program == IF p = Nothing THEN Nothing ELSE live[p]
  IN  /\ p = Nothing \/ (p \in Places(kind) /\ live[p] # Nothing)
      /\ current' = [current EXCEPT ![kind] = p]
      /\ meant' = [meant EXCEPT ![kind] = program]
      /\ bound' = [bound EXCEPT ![kind] = IF HasReplacement(kind, p) THEN Replacement(toHash[p])
                                          ELSE Original(program)]
      /\ UNCHANGED <<tracking, surface, failing, enabled, outputs, published, disturbed>>

-----------------------------------------------------------------------------
(* Targets. *)

CreateRT(t) == IF t \in failing THEN "absent" ELSE "raw"

\* A texture that is still there is overwritten.
CreateAllRTs(before, width) ==
  /\ targets' = [t \in Names |-> IF CreateRT(t) = "absent" THEN before[t] ELSE CreateRT(t)]
  /\ lost' = LET more == lost + Cardinality({t \in Names : before[t] # "absent" /\ CreateRT(t) = "raw"})
             IN  IF more > MaxLost THEN MaxLost ELSE more
  /\ made' = width

DestroyAllRTs == [t \in Names |-> "absent"]

\* Wrong: what is there is not released first.
OnResizeOnTop(width) ==
  IF width = made THEN UNCHANGED <<targets, lost, made>> ELSE CreateAllRTs(targets, width)

\* Those of "made" stay until the size changes.
OnResize(width) ==
  IF width = made THEN UNCHANGED <<targets, lost, made>>
  ELSE CreateAllRTs(DestroyAllRTs, width)

\* A size with a zero in it asks for that of the window, and is not passed on:
\* the targets stay as they are.
ResizeBuffers(asked) ==
  /\ size' \in IF asked = 0 THEN Sizes ELSE {asked}
  /\ \/ /\ asked # 0
        /\ OnResize(asked)
        /\ outputs' = IF outputs = "gbuffer" /\ asked # made THEN "destroyed" ELSE outputs
        /\ published' = [t \in Names |-> IF published[t] = "live" /\ asked # made THEN "gone" ELSE published[t]]
     \/ asked = 0 /\ UNCHANGED <<targets, lost, made, outputs, published>>
  /\ disturbed' = TRUE
  /\ UNCHANGED <<tracking, binding, initialized, failing, enabled>>

\* The same, without telling those who asked to hear of a resize.
ResizeBuffers1(asked) == ResizeBuffers(asked)

InjectGBufferRTs(views) ==
  /\ initialized /\ enabled
  /\ \A t \in Names : targets[t] # "absent"
  /\ views = 1

\* "geometry": what the phase detector says once it has seen the call.
SetTargets(views, depth, geometry) ==
  /\ outputs' = IF geometry /\ depth /\ InjectGBufferRTs(views) THEN "gbuffer" ELSE "game"
  /\ UNCHANGED <<tracking, binding, surface, failing, enabled, published, disturbed>>

OMSetRenderTargetsAndUnorderedAccessViews ==
  /\ outputs' = "game"
  /\ UNCHANGED <<tracking, binding, surface, failing, enabled, published, disturbed>>

\* A target takes what is written to it, or what the device leaves there.
Draw ==
  /\ \A kind \in Kinds : meant[kind] # Nothing
  /\ outputs = "gbuffer"
  /\ targets' = [t \in Names |-> IF targets[t] = "raw" THEN "raw" ELSE "now"]
  /\ UNCHANGED <<tracking, binding, made, size, initialized, lost, failing, enabled, outputs, published, disturbed>>

\* The targets and the shaders of the device are unbound.
ClearShaders ==
  /\ current' = [k \in Kinds |-> Nothing]
  /\ bound' = [k \in Kinds |-> Original(Nothing)] /\ meant' = [k \in Kinds |-> Nothing]
  /\ outputs' = "game"
  /\ UNCHANGED <<tracking, surface, failing, enabled, published, disturbed>>

SetEnabled(on) ==
  /\ enabled' = on
  /\ disturbed' = (disturbed \/ (on /\ ~enabled))
  /\ UNCHANGED <<tracking, binding, surface, failing, outputs, published>>

-----------------------------------------------------------------------------
(* Present. *)

Exists(content) == content # "absent"
Aged(content) == IF content = "now" THEN "before" ELSE content

\* Wrong: only the first target is cleared.
ClearedFirst(contents) ==
  [t \in Names |-> IF enabled /\ t = "albedo" /\ Exists(contents[t]) THEN "clear" ELSE Aged(contents[t])]

\* The targets as the next frame finds them; a disabled pipeline clears nothing.
OnPresent(contents) ==
  [t \in Names |-> IF enabled /\ Exists(contents[t]) THEN "clear" ELSE Aged(contents[t])]

Published(contents) == [t \in Names |-> IF Exists(contents[t]) THEN "live" ELSE "none"]

\* The first Present makes the targets; without the first of them it is as if
\* none had been made.
Initialize(contents) == [t \in Names |-> IF CreateRT(t) = "raw" THEN "raw" ELSE contents[t]]

PresentGBuffer ==
  LET made1  == IF initialized THEN targets ELSE Initialize(targets)
      ready  == initialized \/ Exists(made1["albedo"])
      after  == IF ready THEN OnPresent(made1) ELSE made1
      beyond == IF initialized THEN lost
                ELSE lost + Cardinality({t \in Names : Exists(targets[t]) /\ CreateRT(t) = "raw"})
  IN  /\ targets' = after
      /\ initialized' = ready
      /\ made' = IF initialized THEN made ELSE size
      /\ lost' = IF beyond > MaxLost THEN MaxLost ELSE beyond
      /\ published' = Published(after)
      /\ disturbed' = FALSE
      /\ UNCHANGED <<tracking, binding, size, failing, enabled, outputs>>

GBufferNext ==
  \/ \E p \in Pointers, program \in PixelNames, accepted \in BOOLEAN : CreatePixelShader(p, program, accepted)
  \/ \E p \in VertexPointers, program \in VertexNames : CreateVertexShader(p, program)
  \/ \E p \in Pointers \cup VertexPointers : ReleaseShader(p)
  \/ \E kind \in Kinds, p \in Pointers \cup VertexPointers \cup {Nothing} : SetShader(kind, p)
  \/ \E asked \in Sizes \cup {0} : ResizeBuffers(asked) \/ ResizeBuffers1(asked)
  \/ \E views \in 1 .. 2, depth, geometry \in BOOLEAN : SetTargets(views, depth, geometry)
  \/ OMSetRenderTargetsAndUnorderedAccessViews
  \/ Draw \/ ClearShaders \/ PresentGBuffer
  \/ \E on \in BOOLEAN : SetEnabled(on)

GBufferSpec == GBufferInit /\ [][GBufferNext]_gbufferVars

-----------------------------------------------------------------------------
\* Whatever is created, released, put in the same place again and replaced, the
\* game's own target gets what the game's shader would have written, on every
\* path through it (ShaderManager.h:69-85; MaterialPipeline.cpp:356-417).
GameImageKept ==
  \A kind \in Kinds : bound[kind] # Original(meant[kind]) => \A taken \in BOOLEAN :
    Written(Code(bound[kind]), taken, 0) = Written(Code(Original(meant[kind])), taken, 0)

\* The registers that the moves read, written once in a program.
WrittenOnce(program, slot) ==
  LET reg == SampleDest(program, slot)
  IN  reg >= 0 /\ Cardinality(Positions(program, LAMBDA insn : insn.writes = Temp(reg))) = 1

\* A program that returns, unless conditionally, only at its end, and whose
\* samples of the two textures read nothing else.
Straight(program) ==
  /\ \A k \in DOMAIN program.code : program.code[k].op = "ret" => k = Len(program.code)
  /\ \A k \in DOMAIN program.code, slot \in {0, 1} :
       IsSampleOp(program.code[k]) /\ InsnUsesResource(program.code[k], slot) =>
         program.code[k].reads = {Resource(slot)}

\* A replacement that the device takes, though the names of its signature are
\* overwritten, and that comes to its last return having written the registers
\* of the two samples once, leaves in the output register of each target what
\* the target is for: the diffuse texture, the normals, the material of its
\* class (MaterialPipeline.h:5-9 and 15-16).
TargetsHoldTheirKind ==
  LET shader  == bound["pixel"]
      program == Programs[shader.program]
  IN  shader.patched /\ (\A slot \in {0, 1} : WrittenOnce(program, slot)) =>
        /\ Written(Code(shader), FALSE, 1) = {Resource(0)}
        /\ Written(Code(shader), FALSE, 2) = {Resource(1)}
        /\ Written(Code(shader), FALSE, 3) = {<<"material", GetDefaults(ClassifyFromDXBC(program))>>}

\* While it is in use, and has been since the last Present at this size, the
\* G-buffer that is offered is the one drawn to and holds this frame or nothing
\* (WrappedSwapChain.cpp:453, "then clear for next frame").
GBufferIsThisFrames ==
  initialized /\ enabled /\ ~disturbed =>
    \A t \in Names : /\ targets[t] \in {"absent", "clear", "now"}
                     /\ published[t] = IF Exists(targets[t]) THEN "live" ELSE "none"

\* If every target can be made, at most one set of them is lost, the one a
\* resize makes before the first Present makes its own
\* (MaterialPipeline.cpp:201-239).
LeaksOnce == failing = {} => lost <= Cardinality(Names)
=============================================================================
