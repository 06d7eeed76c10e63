--------------------------- MODULE ServicesProofs ---------------------------
(***************************************************************************)
(* The services side by side: a step of their composition is a step of one *)
(* of them and leaves the others alone, so what is proved of each component*)
(* holds of the composition that is model-checked.                         *)
(***************************************************************************)
EXTENDS MCServices, ProcessProofs, StoreProofs, RecordProofs

\* A step of the services is a step of the MCP adapter or leaves it alone.
LEMMA McpSteps == [ServicesNext]_servicesVars => [MaNext]_maVars
<1> SUFFICES ASSUME [ServicesNext]_servicesVars PROVE [MaNext]_maVars
  BY Zenon
<1>1. CASE UNCHANGED servicesVars
  BY <1>1, Zenon DEF servicesVars
<1>2. CASE ServicesNext
  BY <1>2, Zenon DEF ServicesNext, Others
<1> QED BY <1>1, <1>2, Zenon

\* The same for the browser brain.
LEMMA BrowserSteps == [ServicesNext]_servicesVars => [BbNext]_bbVars
<1> SUFFICES ASSUME [ServicesNext]_servicesVars PROVE [BbNext]_bbVars
  BY Zenon
<1>1. CASE UNCHANGED servicesVars
  BY <1>1, Zenon DEF servicesVars
<1>2. CASE ServicesNext
  BY <1>2, Zenon DEF ServicesNext, Others
<1> QED BY <1>1, <1>2, Zenon

\* The same for the vault.
LEMMA VaultSteps == [ServicesNext]_servicesVars => [VaNext]_vaVars
<1> SUFFICES ASSUME [ServicesNext]_servicesVars PROVE [VaNext]_vaVars
  BY Zenon
<1>1. CASE UNCHANGED servicesVars
  BY <1>1, Zenon DEF servicesVars
<1>2. CASE ServicesNext
  BY <1>2, Zenon DEF ServicesNext, Others
<1> QED BY <1>1, <1>2, Zenon

\* The same for telemetry, whose spans, records and metrics have steps of their own.
LEMMA TelemetrySteps == [ServicesNext]_servicesVars => [TlNext]_tlVars
<1> SUFFICES ASSUME [ServicesNext]_servicesVars PROVE [TlNext]_tlVars
  BY Zenon
<1>1. CASE UNCHANGED servicesVars
  BY <1>1, Zenon DEF servicesVars
<1>2. CASE ServicesNext
  <2>1. TlSpanNext \/ TlLogNext \/ TlMetricNext \/ UNCHANGED tlVars
    BY <1>2, Zenon DEF ServicesNext, Others
  <2> QED BY <2>1, Zenon DEF TlNext
<1> QED BY <1>1, <1>2, Zenon

\* The same for the heartbeat.
LEMMA HeartbeatSteps == [ServicesNext]_servicesVars => [HbNext]_hbVars
<1> SUFFICES ASSUME [ServicesNext]_servicesVars PROVE [HbNext]_hbVars
  BY Zenon
<1>1. CASE UNCHANGED servicesVars
  BY <1>1, Zenon DEF servicesVars
<1>2. CASE ServicesNext
  BY <1>2, Zenon DEF ServicesNext, Others
<1> QED BY <1>1, <1>2, Zenon

\* The same for the error model.
LEMMA ErrorSteps == [ServicesNext]_servicesVars => [ErNext]_erVars
<1> SUFFICES ASSUME [ServicesNext]_servicesVars PROVE [ErNext]_erVars
  BY Zenon
<1>1. CASE UNCHANGED servicesVars
  BY <1>1, Zenon DEF servicesVars
<1>2. CASE ServicesNext
  BY <1>2, Zenon DEF ServicesNext, Others
<1> QED BY <1>1, <1>2, Zenon

\* The same for the loop detector.
LEMMA DetectorSteps == [ServicesNext]_servicesVars => [LdNext]_ldVars
<1> SUFFICES ASSUME [ServicesNext]_servicesVars PROVE [LdNext]_ldVars
  BY Zenon
<1>1. CASE UNCHANGED servicesVars
  BY <1>1, Zenon DEF servicesVars
<1>2. CASE ServicesNext
  BY <1>2, Zenon DEF ServicesNext, Others
<1> QED BY <1>1, <1>2, Zenon

\* NoOrphanProcess, of the services together: whatever else runs, an MCP server
\* process belongs to an adapter that will stop it, and a browser to the brain
\* that started it or to the one kill still owed to it.
THEOREM ProcessesOwned ==
  ASSUME MaSerial
  PROVE  ServicesSpec => []NoOrphanProcess
<1>1. ServicesInit => MaInit /\ BbInit
  BY Zenon DEF ServicesInit
<1>2. ServicesSpec => MaSpec
  BY <1>1, McpSteps, PTL DEF ServicesSpec, MaSpec
<1>3. ServicesSpec => BbSpec
  BY <1>1, BrowserSteps, PTL DEF ServicesSpec, BbSpec
<1>4. MaNoOrphan /\ BbBrowserAccounted => NoOrphanProcess
  BY Zenon DEF NoOrphanProcess
<1> QED BY <1>2, <1>3, <1>4, ServersAreOwned, BrowsersAreAccounted, PTL

\* LedgersTruthful, of the services together: the vault's audit chain tells what
\* happened to its entries, and every span, record and metric is exported once.
THEOREM RecordsAreTrue == ServicesSpec => []LedgersTruthful
<1>1. ServicesInit => VaInit /\ TlInit
  BY Zenon DEF ServicesInit
<1>2. ServicesSpec => VaSpec
  BY <1>1, VaultSteps, PTL DEF ServicesSpec, VaSpec
<1>3. ServicesSpec => TlSpec
  BY <1>1, TelemetrySteps, PTL DEF ServicesSpec, TlSpec
<1>4. VaLedgerTruthful /\ TlExportedOnce => LedgersTruthful
  BY Zenon DEF LedgersTruthful
<1> QED BY <1>2, <1>3, <1>4, LedgerTruthful, ExportedOnce, PTL

\* VerdictsJustified, of the services together: the detectors that keep only
\* counters (the ping scheduler, the stale-response tracker, the error decision
\* after any hops and the loop detector) agree with the whole history.
THEOREM CountersTellTheHistory == ServicesSpec => []VerdictsJustified
<1>1. ServicesInit => HbInit /\ ErInit /\ LdInit
  BY Zenon DEF ServicesInit
<1>2. ServicesSpec => HbSpec
  BY <1>1, HeartbeatSteps, PTL DEF ServicesSpec, HbSpec
<1>3. ServicesSpec => ErSpec
  BY <1>1, ErrorSteps, PTL DEF ServicesSpec, ErSpec
<1>4. ServicesSpec => LdSpec
  BY <1>1, DetectorSteps, PTL DEF ServicesSpec, LdSpec
<1>5. HbVerdictsJustified /\ ErVerdictsSound /\ VerdictMatchesHistory => VerdictsJustified
  BY Zenon DEF VerdictsJustified
<1> QED BY <1>2, <1>3, <1>4, <1>5, HeartbeatJustified, ErrorVerdictsSound, DetectorIsExact, PTL
=============================================================================
