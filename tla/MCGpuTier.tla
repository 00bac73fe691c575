------------------------------- MODULE MCGpuTier -------------------------------
EXTENDS GpuTier

\* Three zeniths, and two azimuths at the first of them.
MCZenith(sun) == sun \div 2

\* Either renderer: with both, the compiling thread and the frames share a
\* vector without a lock.
MCConfigs == {[atmosphere |-> a, clouds |-> ~a] : a \in BOOLEAN}
MCFailures == {"nothing", "PyramidTexture", "CloudComposite", "history", "detailNoise", "scattering",
               "celestial"}
MCMapped == {<<TRUE, TRUE>>, <<FALSE, TRUE>>, <<TRUE, FALSE>>}
MCMemory == {[copy |-> TRUE, buffer |-> b] : b \in BOOLEAN} \cup {[copy |-> FALSE, buffer |-> TRUE]}
=============================================================================
