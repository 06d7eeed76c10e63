---------------------------- MODULE TraderConfig ----------------------------
(***************************************************************************)
(* Loading the trader's YAML file: the hand-written block parser, the      *)
(* typing of scalars, the decoding of every known key over the defaults    *)
(* and Validate. A line is its indentation and its shape; a word is a      *)
(* model text whose readings as a number or a duration are tables.         *)
(* Fractions are in ten-thousandths, durations in seconds.                 *)
(***************************************************************************)
EXTENDS Integers, Sequences, FiniteSets, SequencesExt

CONSTANTS TcInts, TcFloats, TcDurations, \* text -> the number it reads as
          TcPrint,          \* text of a number -> the text fmt.Sprint gives back
          TcPaths,          \* <<section, key>> or <<key>> that a file may set
          TcWritten,        \* what may be written for a key: [style, words]
          TcMaxEntries

VARIABLES tcFile,           \* path -> what is written, for the paths set
          tcNoise,          \* comment lines stand between the others
          tcLoaded,         \* the result of the last load: [ok, cfg]
          tcFresh           \* the file has not changed since

tcVars == <<tcFile, tcNoise, tcLoaded, tcFresh>>

----------------------------------------------------------------------------
(* The keys of each section with the type decodeConfig reads them at.      *)

TcData == [okx_ws_url |-> "string", ws_reconnect_delay |-> "durations",
           rest_poll_interval |-> "duration", history_candles |-> "int"]
TcStrategy == [initial_weights |-> "floats", weight_update_interval |-> "duration",
               weight_min |-> "float", weight_max |-> "float",
               weight_temperature |-> "float", signal_threshold |-> "float"]
TcVector == [dimensions |-> "int", hnsw_m |-> "int", hnsw_ef_construction |-> "int",
             hnsw_ef_search |-> "int", pattern_retention_1m |-> "duration",
             pattern_retention_5m |-> "duration"]
TcRisk == [max_position_pct |-> "float", max_leverage |-> "int", max_concurrent |-> "int",
           max_total_exposure |-> "float", max_same_direction |-> "float",
           daily_loss_pause |-> "float", daily_loss_close |-> "float",
           circuit_breaker_volatility |-> "int", circuit_breaker_btc_move |-> "float"]
TcLLM == [enabled |-> "bool", model |-> "string", trigger_concurrent |-> "int",
          trigger_position_pct |-> "float", trigger_daily_loss |-> "float",
          timeout |-> "duration"]
TcDatabase == [host |-> "string", port |-> "int", dbname |-> "string", user |-> "string",
               password |-> "string", sslmode |-> "string", schema |-> "string",
               max_conns |-> "int", min_conns |-> "int", conn_max_idle_time |-> "duration",
               conn_max_lifetime |-> "duration"]
TcExecutor == [backend |-> "string", okx_api_key |-> "string", okx_secret |-> "string",
               okx_passphrase |-> "string", paper_slippage |-> "float",
               paper_maker_fee |-> "float", paper_taker_fee |-> "float"]
TcSections == [data |-> TcData, strategy |-> TcStrategy, vector |-> TcVector, risk |-> TcRisk,
               llm |-> TcLLM, database |-> TcDatabase, executor |-> TcExecutor]
TcTop == [mode |-> "string", instruments |-> "strings"]

TcDefault ==
    [top |-> [mode |-> "paper", instruments |-> <<"btc", "eth", "sol">>],
     data |-> [okx_ws_url |-> "url", ws_reconnect_delay |-> <<1, 2, 4, 8, 16, 30>>,
               rest_poll_interval |-> 30, history_candles |-> 500],
     strategy |-> [initial_weights |-> <<3000, 2500, 2500, 2000>>,
                   weight_update_interval |-> 86400, weight_min |-> 1000, weight_max |-> 4000,
                   weight_temperature |-> 20000, signal_threshold |-> 4500],
     vector |-> [dimensions |-> 192, hnsw_m |-> 16, hnsw_ef_construction |-> 200,
                 hnsw_ef_search |-> 100, pattern_retention_1m |-> 60 * 86400,
                 pattern_retention_5m |-> 180 * 86400],
     risk |-> [max_position_pct |-> 50000, max_leverage |-> 20, max_concurrent |-> 5,
               max_total_exposure |-> 300000, max_same_direction |-> 200000,
               daily_loss_pause |-> 30000, daily_loss_close |-> 50000,
               circuit_breaker_volatility |-> 99, circuit_breaker_btc_move |-> 50000],
     llm |-> [enabled |-> TRUE, model |-> "haiku", trigger_concurrent |-> 3,
              trigger_position_pct |-> 50000, trigger_daily_loss |-> 30000, timeout |-> 10],
     database |-> [host |-> "localhost", port |-> 5432, dbname |-> "brain_trader",
                   user |-> "trader", password |-> "", sslmode |-> "disable",
                   schema |-> "trader", max_conns |-> 10, min_conns |-> 1,
                   conn_max_idle_time |-> 1800, conn_max_lifetime |-> 7200],
     executor |-> [backend |-> "paper", okx_api_key |-> "", okx_secret |-> "",
                   okx_passphrase |-> "", paper_slippage |-> 3, paper_maker_fee |-> 2,
                   paper_taker_fee |-> 5]]

----------------------------------------------------------------------------
(* Scalars and their conversions: [ok, val].                               *)

\* parseScalar: quotes make a string; then bool, integer, float, string.
TcScalar(word, quoted) ==
    [t |-> CASE quoted -> "string"
             [] ~quoted /\ word \in {"true", "false"} -> "bool"
             [] ~quoted /\ word \in DOMAIN TcInts -> "int"
             [] ~quoted /\ word \in DOMAIN TcFloats -> "float"
             [] OTHER -> "string",
     text |-> word, items |-> <<>>]

\* parseInlineList.
TcInline(words) == [t |-> "list", text |-> "",
                    items |-> [i \in DOMAIN words |-> TcScalar(words[i], FALSE)]]

TcOk(val) == [ok |-> TRUE, val |-> val]
TcBad == [ok |-> FALSE, val |-> ""]

\* stringValue prints what the scalar was typed as.
TcString(v) == TcOk(CASE v.t \in {"int", "float"} -> TcPrint[v.text]
                      [] v.t \in {"list", "map"} -> "printed"
                      [] OTHER -> v.text)

TcBool(v) == CASE v.t \in {"bool", "string"} /\ v.text \in {"true", "yes", "on"} -> TcOk(TRUE)
               [] v.t \in {"bool", "string"} /\ v.text \in {"false", "no", "off"} -> TcOk(FALSE)
               [] OTHER -> TcBad

TcInt(v) == CASE v.t \in {"int", "string"} /\ v.text \in DOMAIN TcInts -> TcOk(TcInts[v.text])
              [] v.t = "float" -> TcOk(TcFloats[v.text] \div 10000)
              [] OTHER -> TcBad

TcFloat(v) == CASE v.t \in {"int", "string"} /\ v.text \in DOMAIN TcInts
                     -> TcOk(10000 * TcInts[v.text])
                [] v.t \in {"float", "string"} /\ v.text \in DOMAIN TcFloats
                     -> TcOk(TcFloats[v.text])
                [] OTHER -> TcBad

TcDuration(v) == CASE v.t = "string" /\ v.text = "" -> TcOk(0)
                   [] v.t = "string" /\ v.text \in DOMAIN TcDurations
                        -> TcOk(TcDurations[v.text])
                   [] v.t \in {"int", "string"} /\ v.text \in DOMAIN TcInts
                        -> TcOk(TcInts[v.text])
                   [] v.t = "float" -> TcOk(TcFloats[v.text] \div 10000)
                   [] OTHER -> TcBad

\* sliceValue and the loops over its items.
TcSlice(v, Convert(_)) ==
    IF v.t # "list" \/ \E i \in DOMAIN v.items : ~Convert(v.items[i]).ok THEN TcBad
    ELSE TcOk([i \in DOMAIN v.items |-> Convert(v.items[i]).val])

TcConvert(type, v) == CASE type = "string" -> TcString(v)
                        [] type = "bool" -> TcBool(v)
                        [] type = "int" -> TcInt(v)
                        [] type = "float" -> TcFloat(v)
                        [] type = "duration" -> TcDuration(v)
                        [] type = "strings" -> TcSlice(v, TcString)
                        [] type = "floats" -> TcSlice(v, TcFloat)
                        [] type = "durations" -> TcSlice(v, TcDuration)

----------------------------------------------------------------------------
(* The block parser. A line is [indent, kind, key, value]; kind "pair" has *)
(* a value, "open" none, "item" is a dash, "comment" is dropped.           *)

TcTokenize(lines) == SelectSeq(lines, LAMBDA l : l.kind # "comment")

TcNode(node, next) == [ok |-> TRUE, node |-> node, next |-> next]
TcFail(next) == [ok |-> FALSE, node |-> TcScalar("", TRUE), next |-> next]
TcMapNode(m) == [t |-> "map", text |-> "", items |-> <<>>, m |-> m]
TcWith(m, key, v) == [k \in DOMAIN m \cup {key} |-> IF k = key THEN v ELSE m[k]]

RECURSIVE TcParseBlock(_, _, _), TcParseMap(_, _, _, _), TcParseList(_, _, _, _)

TcParseBlock(ls, i, indent) == IF ls[i].kind = "item" THEN TcParseList(ls, i, indent, <<>>)
                               ELSE TcParseMap(ls, i, indent, <<>>)

TcParseList(ls, i, indent, out) ==
    CASE i > Len(ls) \/ (i <= Len(ls) /\ ls[i].indent < indent)
           -> TcNode([t |-> "list", text |-> "", items |-> out], i)
      [] i <= Len(ls) /\ ls[i].indent > indent -> TcFail(i)
      [] i <= Len(ls) /\ ls[i].indent = indent /\ ls[i].kind # "item"
           -> TcNode([t |-> "list", text |-> "", items |-> out], i)
      [] OTHER -> TcParseList(ls, i + 1, indent, Append(out, ls[i].value))

\* Mutant: after a nested block the parser goes on with the line after its
\* key instead of the line after the block.
TcResumeInside(i, next) == i + 1
\* Where parseMap continues after the block of a key.
TcResume(i, next) == next

TcParseMap(ls, i, indent, out) ==
    CASE i > Len(ls) \/ (i <= Len(ls) /\ ls[i].indent < indent) -> TcNode(TcMapNode(out), i)
      [] i <= Len(ls) /\ ls[i].indent > indent -> TcFail(i)
      [] i <= Len(ls) /\ ls[i].indent = indent /\ ls[i].kind = "item" -> TcNode(TcMapNode(out), i)
      [] i <= Len(ls) /\ ls[i].indent = indent /\ ls[i].kind = "pair"
           -> TcParseMap(ls, i + 1, indent, TcWith(out, ls[i].key, ls[i].value))
      [] OTHER ->
           IF i + 1 > Len(ls) \/ (i + 1 <= Len(ls) /\ ls[i + 1].indent <= indent)
           THEN TcParseMap(ls, i + 1, indent, TcWith(out, ls[i].key, TcMapNode(<<>>)))
           ELSE LET child == TcParseBlock(ls, i + 1, ls[i + 1].indent)
                IN  IF ~child.ok THEN child
                    ELSE TcParseMap(ls, TcResume(i, child.next), indent,
                                    TcWith(out, ls[i].key, child.node))

\* parseYAML: all lines must be used and the top must be a mapping.
TcParse(lines) ==
    LET ls == TcTokenize(lines)
        top == IF ls = <<>> THEN TcNode(TcMapNode(<<>>), 1)
               ELSE TcParseBlock(ls, 1, 0)
    IN  IF top.ok /\ top.next = Len(ls) + 1 /\ top.node.t = "map" THEN top ELSE TcFail(top.next)

----------------------------------------------------------------------------
(* decodeConfig and Validate.                                              *)

\* One section: every known key that is present is converted and replaces
\* the default; a section that is no mapping is an error.
TcDecodeSection(schema, raw, defaults) ==
    [ok |-> raw.t = "map" /\ \A k \in DOMAIN schema \cap DOMAIN raw.m : TcConvert(schema[k], raw.m[k]).ok,
     cfg |-> IF raw.t # "map" THEN defaults
             ELSE [k \in DOMAIN schema |-> IF k \in DOMAIN raw.m
                                           THEN TcConvert(schema[k], raw.m[k]).val
                                           ELSE defaults[k]]]

TcDecode(raw) ==
    LET sec == [s \in DOMAIN TcSections |->
                   IF s \in DOMAIN raw.m
                   THEN TcDecodeSection(TcSections[s], raw.m[s], TcDefault[s])
                   ELSE [ok |-> TRUE, cfg |-> TcDefault[s]]]
        top == TcDecodeSection(TcTop, raw, TcDefault.top)
    IN  [ok |-> top.ok /\ \A s \in DOMAIN sec : sec[s].ok,
         cfg |-> [s \in DOMAIN TcDefault |-> IF s = "top" THEN top.cfg ELSE sec[s].cfg]]

TcUnique(values) == "" \notin {values[i] : i \in DOMAIN values}
                    /\ Cardinality({values[i] : i \in DOMAIN values}) = Len(values)

TcValidate(c) == /\ c.top.mode \in {"paper", "live"}
                 /\ Len(c.top.instruments) \in 1 .. 30
                 /\ TcUnique(c.top.instruments)
                 /\ c.data.okx_ws_url # "" /\ c.data.history_candles > 0
                 /\ Len(c.strategy.initial_weights) = 4
                 /\ c.vector.dimensions > 0
                 /\ "" \notin {c.database.host, c.database.dbname, c.database.user, c.database.schema}
                 /\ c.database.port > 0
                 /\ c.database.max_conns >= 0 /\ c.database.min_conns >= 0
                 /\ c.executor.backend \in {"paper", "okx_ws", "okx_rest"}
                 /\ c.llm.enabled => c.llm.model \in {"haiku", "sonnet"}

\* LoadBytes.
TcLoadBytes(lines) ==
    LET parsed == TcParse(lines)
    IN  IF ~parsed.ok THEN [ok |-> FALSE, cfg |-> TcDefault]
        ELSE LET d == TcDecode(parsed.node)
             IN  IF d.ok /\ TcValidate(d.cfg) THEN d ELSE [ok |-> FALSE, cfg |-> TcDefault]

----------------------------------------------------------------------------
(* The file as its owner writes it, in block style.                        *)

TcLine(indent, kind, key, value) == [indent |-> indent, kind |-> kind, key |-> key, value |-> value]
TcNothing == TcScalar("", TRUE)

TcEntryLines(indent, key, w) ==
    CASE w.style = "none" -> <<TcLine(indent, "open", key, TcNothing)>>
      [] w.style = "inline" -> <<TcLine(indent, "pair", key, TcInline(w.words))>>
      [] w.style = "block" -> <<TcLine(indent, "open", key, TcNothing)>>
             \o [i \in DOMAIN w.words |-> TcLine(indent + 2, "item", "", TcScalar(w.words[i], FALSE))]
      [] OTHER -> <<TcLine(indent, "pair", key, TcScalar(w.words[1], w.style = "quoted"))>>

TcSectionLines(file, s) ==
    <<TcLine(0, "open", s, TcNothing)>>
      \o FoldLeft(LAMBDA ls, p : ls \o TcEntryLines(2, p[2], file[p]), <<>>,
                  SetToSeq({p \in DOMAIN file : Len(p) = 2 /\ p[1] = s}))

TcRender(file, noise) ==
    LET lines == FoldLeft(LAMBDA ls, p : ls \o TcEntryLines(0, p[1], file[p]), <<>>,
                          SetToSeq({p \in DOMAIN file : Len(p) = 1}))
                 \o FoldLeft(LAMBDA ls, s : ls \o TcSectionLines(file, s), <<>>,
                             SetToSeq({p[1] : p \in {q \in DOMAIN file : Len(q) = 2}}))
        comment == TcLine(7, "comment", "", TcNothing)
    IN  IF noise THEN FoldLeft(LAMBDA ls, l : ls \o <<comment, l>>, <<>>, lines) ELSE lines

TcInit == /\ tcFile = <<>> /\ tcNoise \in BOOLEAN
          /\ tcLoaded = [ok |-> TRUE, cfg |-> TcDefault]
          /\ tcFresh = TRUE

TcEdit == /\ Cardinality(DOMAIN tcFile) < TcMaxEntries
          /\ \E p \in TcPaths \ DOMAIN tcFile, w \in TcWritten :
               /\ \A q \in DOMAIN tcFile : q[1] = p[1] => Len(q) = 2 /\ Len(p) = 2
               /\ tcFile' = TcWith(tcFile, p, w)
          /\ tcFresh' = FALSE
          /\ UNCHANGED <<tcNoise, tcLoaded>>

\* Load.
TcLoad == /\ ~tcFresh
          /\ tcFresh' = TRUE
          /\ tcLoaded' = TcLoadBytes(TcRender(tcFile, tcNoise))
          /\ UNCHANGED <<tcFile, tcNoise>>

TcNext == TcEdit \/ TcLoad

----------------------------------------------------------------------------
\* What is written for a path, read without any parsing.
TcMeant(w) == CASE w.style = "none" -> TcMapNode(<<>>)
                [] w.style \in {"inline", "block"} -> TcInline(w.words)
                [] OTHER -> TcScalar(w.words[1], w.style = "quoted")
TcTypeOf(p) == IF Len(p) = 1
               THEN IF p[1] \in DOMAIN TcTop THEN TcTop[p[1]]
                    ELSE IF p[1] \in DOMAIN TcSections THEN "map" ELSE "unknown"
               ELSE IF p[2] \in DOMAIN TcSections[p[1]] THEN TcSections[p[1]][p[2]] ELSE "unknown"
TcFits(p) == LET type == TcTypeOf(p)
             IN  CASE type = "unknown" -> TRUE
                   [] type = "map" -> TcMeant(tcFile[p]).t = "map"
                   [] OTHER -> TcConvert(type, TcMeant(tcFile[p])).ok

\* Wherever comments stand and however lists are laid out: a file whose values
\* fit their keys and make a valid configuration is loaded, every key that is
\* set has exactly the value written for it and every other key its default;
\* any other file is refused as a whole.
TcLoadFaithful ==
    tcFresh =>
      LET fits == \A p \in DOMAIN tcFile : TcFits(p)
          settings == {<<"top", k>> : k \in DOMAIN TcTop}
                        \cup UNION {{<<s, k>> : k \in DOMAIN TcSections[s]} : s \in DOMAIN TcSections}
          path(q) == IF q[1] = "top" THEN <<q[2]>> ELSE q
          meant == [s \in DOMAIN TcDefault |-> [k \in DOMAIN TcDefault[s] |->
                       LET p == path(<<s, k>>)
                       IN  IF p \in DOMAIN tcFile THEN TcConvert(TcTypeOf(p), TcMeant(tcFile[p])).val
                           ELSE TcDefault[s][k]]]
      IN  /\ tcLoaded.ok <=> fits /\ TcValidate(meant)
          /\ tcLoaded.ok => \A q \in settings : tcLoaded.cfg[q[1]][q[2]] = meant[q[1]][q[2]]
=============================================================================
