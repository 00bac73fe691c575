------------------------------ MODULE HiZPyramid ------------------------------
(***************************************************************************)
(* The depth pyramid (core/HiZPyramid.cpp): each frame it copies the       *)
(* game's depth into the first level of a texture, turned from standard to *)
(* reversed, and each further level from the one before.  A device g also  *)
(* has                                                                     *)
(*   hizUp      m_initialized; nothing switches the pyramid off            *)
(*   gameDepth  the texture the proxy offers as the game's depth           *)
(* The depth of frame n in the standard sense has stamp n, reversed -n.    *)
(***************************************************************************)
EXTENDS D3D11Context

CONSTANTS Width, Height   \* of the back buffer when the pyramid is made

kMaxMips == 14

ASSUME PyramidAssumption == Width \in Nat \ {0} /\ Height \in Nat \ {0}

\* One level for each power of two up to the larger side.
MipCount ==
  LET side == IF Width > Height THEN Width ELSE Height
  IN  1 + Cardinality({k \in 1 .. kMaxMips - 1 : 2 ^ k <= side})

MipNames == <<"mip0", "mip1", "mip2", "mip3", "mip4", "mip5", "mip6", "mip7", "mip8", "mip9",
              "mip10", "mip11", "mip12", "mip13">>
Mip(k)  == MipNames[k + 1]
Pyramid == {Mip(k) : k \in 0 .. MipCount - 1}

\* Everything Initialize makes, in its order.
PyramidParts == {"CopyCS", "DownsampleCS", "PyramidTexture", "PyramidViews", "HiZParams"}

InitializePyramid(g) ==
  IF \A part \in PyramidParts : Creates(g, part) THEN [g EXCEPT !.hizUp = TRUE] ELSE g

\* The depth being drawn to, if any, or else the one the proxy knows.
DepthView(g) == IF g.bound["om_dsv"] # Null THEN g.bound["om_dsv"] ELSE g.gameDepth

\* kCopyCS: near and far change places.
Reversed(stamp) == -stamp

\* kDownsampleCS: the larger of four texels, in the sense of what it reads.
Downsampled(stamp) == stamp

Bind(g, input, k) ==
  LET freed == Set(g, Nothing({"cs_u0"}))
      read  == Set(freed, [slot \in {"cs_t0"} |-> input])
  IN  Set(read, [slot \in {"cs_u0"} |-> {Mip(k)}])

CopyDepth(g) ==
  LET ready == Bind(Set(g, [slot \in {"cs"} |-> {"CopyCS"}]), DepthView(g), 0)
      given == Set(ready, [slot \in {"cs_b0"} |-> {"HiZParams"}])
  IN  Issue(given, "CopyCS", {"cs_t0"}, {"cs_u0"}, Reversed(StampAt(given, "cs_t0")))

Downsample(g, k) ==
  LET ready == Bind(g, {Mip(k - 1)}, k)
  IN  Issue(ready, "DownsampleCS", {"cs_t0"}, {"cs_u0"}, Downsampled(StampAt(ready, "cs_t0")))

\* The first level, and then each from the one before.
BuildLevels(g) ==
  LET levels[k \in 0 .. MipCount - 1] ==
        IF k = 0 THEN Set(CopyDepth(g), [slot \in {"cs"} |-> {"DownsampleCS"}])
                 ELSE Downsample(levels[k - 1], k)
  IN  levels[MipCount - 1]

BuildPyramid(g) ==
  LET saved == Get(g, {"cs", "cs_t0", "cs_u0", "cs_b0"})
      empty == Set(BuildLevels(g), Nothing({"cs_u0"}))
  IN  IF ~g.hizUp \/ DepthView(g) = Null THEN g
      ELSE SetInTurn(empty, saved, <<{"cs"}, {"cs_t0"}, {"cs_u0"}, {"cs_b0"}>>)
=============================================================================
