----------------------------- MODULE MCServices -----------------------------
(***************************************************************************)
(* The components of the host and of its sidecars that need no fairness,   *)
(* for TLC.  Each is one process, one object behind its own lock or one    *)
(* pure function; they share no state inside the model, so a behaviour     *)
(* steps one of them, named by focus, and the others stay as they began.   *)
(***************************************************************************)
EXTENDS RunFiles, FileStore, Vault, Telemetry, ErrorModel, ConfigFile,
        WireReaders, Heartbeat, MCLLMStream, MCSidecarRuntime, McpAdapter, BrowserBrain,
        ToolGuard, ChatSession, LineEditor, DiffPreview, MCLoopDetector, FakeSidecar, Cassette

VARIABLE focus

servicesVars == <<focus, vars, fsVars, vaVars, tlVars, erVars, cfVars, wrVars, hbVars, lsVars,
                  scVars, maVars, bbVars, gdVars, chVars, leVars, dfShown, ldVars, fkVars, csVars>>

\* Where another component is in focus, inputs of Init have one value.
Pinned ==
  /\ focus # "stores" => /\ fsKind = CHOOSE k \in FsKinds : TRUE
                         /\ fsTopic = CHOOSE t \in FsTopics : TRUE
  /\ focus # "guard"  => /\ gdPolicy = CHOOSE p \in GdPolicies : TRUE
                         /\ gdMode = CHOOSE m \in GdModes : TRUE
                         /\ gdTree = [p \in GdPaths |-> GdAbsent]
  /\ focus # "mcp"    => maOffer = CHOOSE l \in MaLists : TRUE
  /\ focus # "fake"   => fkScript = CHOOSE s \in FkScripts : TRUE

ServicesInit ==
  /\ focus \in {"runs", "stores", "vault", "spans", "logs", "metrics", "errors", "config",
                "wire", "heartbeat", "stream", "sidecar", "mcp", "browser", "guard", "chat",
                "editor", "diff", "detector", "fake", "cassette"}
  /\ Init /\ FsInit /\ VaInit /\ TlInit /\ ErInit /\ CfInit /\ WrInit /\ HbInit /\ LsInit
  /\ ScInit /\ MaInit /\ BbInit /\ GdInit /\ ChInit /\ LeInit /\ DfInit /\ LdInit /\ FkInit
  /\ CsInit
  /\ Pinned

Others(f) ==
  /\ UNCHANGED focus
  /\ f # "runs"      => UNCHANGED vars
  /\ f # "stores"    => UNCHANGED fsVars
  /\ f # "vault"     => UNCHANGED vaVars
  /\ f \notin {"spans", "logs", "metrics"} => UNCHANGED tlVars
  /\ f # "errors"    => UNCHANGED erVars
  /\ f # "config"    => UNCHANGED cfVars
  /\ f # "wire"      => UNCHANGED wrVars
  /\ f # "heartbeat" => UNCHANGED hbVars
  /\ f # "stream"    => UNCHANGED lsVars
  /\ f # "sidecar"   => UNCHANGED scVars
  /\ f # "mcp"       => UNCHANGED maVars
  /\ f # "browser"   => UNCHANGED bbVars
  /\ f # "guard"     => UNCHANGED gdVars
  /\ f # "chat"      => UNCHANGED chVars
  /\ f # "editor"    => UNCHANGED leVars
  /\ f # "diff"      => UNCHANGED dfShown
  /\ f # "detector"  => UNCHANGED ldVars
  /\ f # "fake"      => UNCHANGED fkVars
  /\ f # "cassette"  => UNCHANGED csVars

ServicesNext ==
  \/ focus = "runs"      /\ Next /\ Others("runs")
  \/ focus = "stores"    /\ FsNext /\ Others("stores")
  \/ focus = "vault"     /\ VaNext /\ Others("vault")
  \/ focus = "spans"     /\ TlSpanNext /\ Others("spans")
  \/ focus = "logs"      /\ TlLogNext /\ Others("logs")
  \/ focus = "metrics"   /\ TlMetricNext /\ Others("metrics")
  \/ focus = "errors"    /\ ErNext /\ Others("errors")
  \/ focus = "config"    /\ CfNext /\ Others("config")
  \/ focus = "wire"      /\ WrNext /\ Others("wire")
  \/ focus = "heartbeat" /\ HbNext /\ Others("heartbeat")
  \/ focus = "stream"    /\ LsNext /\ Others("stream")
  \/ focus = "sidecar"   /\ ScNext /\ Others("sidecar")
  \/ focus = "mcp"       /\ MaNext /\ Others("mcp")
  \/ focus = "browser"   /\ BbNext /\ Others("browser")
  \/ focus = "guard"     /\ GdNext /\ Others("guard")
  \/ focus = "chat"      /\ ChNext /\ Others("chat")
  \/ focus = "editor"    /\ LeNext /\ Others("editor")
  \/ focus = "diff"      /\ DfNext /\ Others("diff")
  \/ focus = "detector"  /\ LdNext /\ Others("detector")
  \/ focus = "fake"      /\ FkNext /\ Others("fake")
  \/ focus = "cassette"  /\ CsNext /\ Others("cassette")

ServicesSpec == ServicesInit /\ [][ServicesNext]_servicesVars

-----------------------------------------------------------------------------
(* Properties that two or more components share. *)

\* What one side wrote is what the other reads, whole and in order: the frames
\* of ReadFrame and the messages of the WebSocket reader, a streamed answer that
\* carries a stop reason, the frames of a fake sidecar's script and a recorded
\* cassette, wherever the stream is cut, delayed or interrupted.
ReadsMatchWrites ==
  WrMessagesWhole /\ LsStoppedIsComplete /\ FkScriptSeen /\ CsReplayFaithful

\* Records are neither lost nor doubled however their writers interleave: vault
\* entries, the audit chain, spans, log records and metrics.
LedgersTruthful == VaLedgerTruthful /\ TlExportedOnce

\* Detectors that judge from counters agree with the history: the ping scheduler
\* and the stale-response tracker, the error decision after any number of hops,
\* and the loop detector.
VerdictsJustified == HbVerdictsJustified /\ ErVerdictsSound /\ VerdictMatchesHistory

\* Every child process has an owner that will stop it: the server of an MCP
\* adapter and the browser of a browser request, with its profile directory.
NoOrphanProcess == MaNoOrphan /\ BbBrowserAccounted

\* The terminal tells the truth: the line editor shows the keys pressed wherever
\* their bytes are cut, and the diff preview shows the change it is asked about.
TerminalTruthful == LeChunkingInvisible /\ DfPreviewTruthful

-----------------------------------------------------------------------------
(* The instance. *)

Length(n) == WrLine("length", n)
Other == WrLine("other", 0)

\* Headers in both orders, a body that looks like a header, a frame without a
\* length and one with a malformed line.
Frames == {[lines |-> <<Length(2), Other>>, body |-> <<WrLine("blank", 0), Length(1)>>],
           [lines |-> <<Other, Length(0)>>, body |-> <<>>],
           [lines |-> <<Length(1)>>, body |-> <<Length(1)>>],
           [lines |-> <<Other>>, body |-> <<>>],
           [lines |-> <<Length(1), WrLine("malformed", 0)>>, body |-> <<Other>>]}
Fragments == {<<"a">>, <<"a", "b">>, <<"c", "d", "e">>}
ControlFrames == {<<>>, <<"ping">>, <<"pong", "ping">>}

ToolLists == {<<"s">>, <<"s", "t">>, <<"t", "s">>}

\* Rights that overlap only in part, a path that is denied although it may be
\* read, and a policy without commands.
Policy(read, create, edit, delete, deny, commands) ==
  [read |-> read, create |-> create, edit |-> edit, delete |-> delete, deny |-> deny,
   commands |-> commands]
Policies == {Policy({"a", "a/b"}, {"a/b", "c"}, {"a"}, {"a", "a/b"}, {}, TRUE),
             Policy({"a", "c"}, {"c"}, {"c", "a"}, {"c", "a/b"}, {"c"}, TRUE),
             Policy({"a"}, {}, {}, {}, {}, FALSE)}
Tree == <<"a", "a/b", "c">>
Inside == {<<"a", "a/b">>}

History == << <<"h">>, <<"a", " ", "b">> >>

Scripts == {<<"reply", "reverse", "delay", "crash", "malformed">>,
            <<"reverse", "wrong", "reply">>, <<"reply", "crash">>}

Keys == {<<"mode">>, <<"no_color">>, <<"serve_workdir_policy">>, <<"file_policy">>,
         <<"max_cost_usd">>, <<"providers", "anthropic">>, <<"providers", "anthropic", "model">>,
         <<"providers", "anthropic", "models">>, <<"providers", "anthropic", "models", "code">>,
         <<"tool_profiles", "a">>, <<"tool_profiles", "a", "include">>,
         <<"tool_profiles", "a", "exclude">>, <<"tool_profiles", "b", "exclude">>,
         <<"active_tools", "chat">>}
Inputs == [mode |-> {"solo", "typo"}, no_color |-> {"true", "false"},
           serve_workdir_policy |-> {"", "open"}, file_policy |-> {"", "policy"},
           max_cost_usd |-> {"0", "5"}, providers |-> {"", "m"},
           tool_profiles |-> {{}, {"t"}, {"t", "u"}},
           active_tools |-> {<<>>, <<"a">>, <<"a", "b">>}]
=============================================================================
