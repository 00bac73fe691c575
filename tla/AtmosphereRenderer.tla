--------------------------- MODULE AtmosphereRenderer ---------------------------
(***************************************************************************)
(* The atmosphere tables and the sky bodies (core/AtmosphereRenderer.cpp): *)
(* three tables and one picture computed again when the sun has moved far  *)
(* enough since they last were.  A device g also has                       *)
(*   atmoUp       m_initialized                                            *)
(*   lastSun      m_lastSunZenith                                          *)
(*   atmoCB, celestialCB   the sun in the two constant buffers             *)
(*   injected     the texture slots SRVInjector has a view for             *)
(* The stamp of a table is the sun it was computed for: a direction, known *)
(* by a number, as main.cpp:329-332 passes it.  ZenithOf is the half of it *)
(* passed as sunZenithCos, the y of SunDirection; the other half, the      *)
(* azimuth taken from x and z, is what suns of one zenith differ in.       *)
(* Zeniths are whole numbers of which Threshold make 0.01.  The moon and   *)
(* the stars, which the bodies are drawn with too, are left out.           *)
(***************************************************************************)
EXTENDS ComputeManager

CONSTANTS Threshold, ZenithOf(_)

ASSUME ThresholdAssumption == Threshold \in Nat \ {0}

Never == -1000 * Threshold

Tables == {"transmittance", "scattering", "aerial"}
Sky    == Tables \cup {"celestial"}

Distance(a, b) == IF a < b THEN b - a ELSE a - b

HasShaders(g, names) == names \subseteq Range(g.shaders)
ShaderId(g, name) == CHOOSE id \in DOMAIN g.shaders : g.shaders[id] = name

TableShaders == {"AtmoTransmittance", "AtmoMultiScatter", "AtmoAerial"}
TableParts   == Tables \cup {"AtmosphereCB", "LinearSampler"}

\* A step that fails ends the initialisation: what was compiled and registered
\* before it stays.
InitializeAtmosphere(g) ==
  LET first      == CompileShader(g, "AtmoTransmittance")
      compiled   == CompileShader(CompileShader(first, "AtmoMultiScatter"), "AtmoAerial")
      registered == [compiled EXCEPT !.injected = @ \cup {"ps_t23"}]
      celestial  == CompileShader(registered, "CelestialBodies")
  IN  IF ~g.computeUp THEN g
      ELSE IF ~HasShaders(compiled, TableShaders) \/ g.broken \in TableParts THEN compiled
      ELSE IF ~HasShaders(celestial, {"CelestialBodies"}) \/ g.broken \in {"celestial", "CelestialCB"}
           THEN celestial
      ELSE [celestial EXCEPT !.atmoUp = TRUE]

\* Wrong: measured from the last frame, so that a slow sun is never followed.
MovedSinceSeen(g, sun) ==
  g.lastSun = Never \/ Distance(ZenithOf(sun), ZenithOf(g.sunSeen)) >= Threshold

\* Whether the sun has moved far enough since the tables were computed; its azimuth
\* is not compared.
SunMoved(g, sun) == Distance(ZenithOf(sun), g.lastSun) >= Threshold \/ g.lastSun = Never

\* One dispatch over a whole table, which reads another one.
Table(g, shader, reads, target, buffer) ==
  LET given == CSSetCB(g, buffer)
      read  == IF reads = Null THEN given
               ELSE CSSetSampler(CSSetSRVs(given, [slot \in {"cs_t0"} |-> reads]), "LinearSampler")
      ready == CSSetUAV(read, {target})
      sun   == IF buffer = "AtmosphereCB" THEN g.atmoCB ELSE g.celestialCB
      done  == DispatchShader(ready, ShaderId(g, shader), sun)
  IN  CSClearUAVs(IF reads = Null THEN done ELSE CSClearSRVs(done, {"cs_t0"}))

RenderCelestials(g, sun, mapped) ==
  IF ~mapped THEN g
  ELSE RestoreCSState(Table([g EXCEPT !.celestialCB = sun], "CelestialBodies",
                            {"transmittance"}, "celestial", "CelestialCB"), SaveCSState(g))

\* mapped: whether the two constant buffers can be written.
UpdateLUTs(g, sun, mapped) ==
  LET buffer   == [g EXCEPT !.lastSun = ZenithOf(sun), !.atmoCB = IF mapped[1] THEN sun ELSE @]
      first    == Table(buffer, "AtmoTransmittance", Null, "transmittance", "AtmosphereCB")
      second   == Table(first, "AtmoMultiScatter", {"transmittance"}, "scattering", "AtmosphereCB")
      third    == Table(second, "AtmoAerial", {"transmittance"}, "aerial", "AtmosphereCB")
  IN  IF ~g.atmoUp \/ ~SunMoved(g, sun) THEN g
      ELSE RenderCelestials(RestoreCSState(third, SaveCSState(g)), sun, mapped[2])
=============================================================================
