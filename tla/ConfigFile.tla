----------------------------- MODULE ConfigFile -----------------------------
(***************************************************************************)
(* The configuration file and the commands that change it                  *)
(* (cmd/cmd_config.go, toolpolicy/toolpolicy.go, cmd/provider_session.go). *)
(*                                                                         *)
(* Every command loads and validates the whole file, changes the nested    *)
(* structure and rewrites the file.  Commands of several processes may     *)
(* overlap only if CfOverlap; one may be killed at any moment, also        *)
(* between the truncation of the file and the write.                       *)
(*                                                                         *)
(* A key is the sequence of its segments.  A tool pattern list is the set  *)
(* of tools it matches; a profile list is a sequence of names.  A value    *)
(* "typo" fails the parser of its key.  "badglob" is a file policy that is *)
(* JSON and holds a malformed pattern.                                     *)
(***************************************************************************)
EXTENDS Integers, Sequences, FiniteSets, SequencesExt, TLC

CONSTANTS
    CfKeys,         \* the keys that commands name
    CfInputs,       \* field -> values that commands give
    CfTools, CfKinds,
    CfProcs, CfOverlap,
    CfMaxCommands, CfMaxKills

VARIABLES
    cfFile,         \* <<>> no file, <<"torn">>, or <<"ok", config>>
    cfProc,         \* process -> [pc, cfg, key, op, value]
    cfSet,          \* history: key -> value, as the acknowledged commands leave it
    cfCount, cfKills

cfVars == <<cfFile, cfProc, cfSet, cfCount, cfKills>>

CfNone == <<>>
CfEmpty == [plain |-> CfNone, providers |-> CfNone, profiles |-> CfNone, active |-> CfNone]
CfIdle == [pc |-> "idle", cfg |-> CfEmpty, op |-> "none", key |-> <<>>, value |-> ""]

CfPut(f, k, v) == [x \in DOMAIN f \cup {k} |-> IF x = k THEN v ELSE f[x]]
CfDrop(f, k) == [x \in DOMAIN f \ {k} |-> f[x]]
CfGet(f, k, default) == IF k \in DOMAIN f THEN f[k] ELSE default

-----------------------------------------------------------------------------
(* Values. *)

\* The parsers of configSet.  A file policy is only unmarshalled.
CfAccepts(field, v) ==
    /\ v # "typo"
    /\ field \in {"mode", "max_turns"} => v # ""
    /\ field = "max_turns" => v # "0"

\* What is stored for an accepted value.
CfStored(field, v) ==
    CASE field = "serve_workdir_policy" /\ v = "" -> "confined"
      [] OTHER -> v

\* The zero value of a field, which the file and the listing leave out.
CfZero(field) ==
    CASE field = "no_color" -> "false"
      [] field \in {"max_turns", "max_cost_usd"} -> "0"
      [] OTHER -> ""

CfProvider == [base_url |-> "", api_key |-> "", model |-> "", models |-> CfNone]
CfProfile == [include |-> {}, exclude |-> {}]

\* initConfig; the other defaults are plain fields like these.
CfDefaults ==
    [CfEmpty EXCEPT
       !.plain = CfPut(CfPut(CfPut(@, "mode", "solo"), "file_policy", "policy"),
                       "max_cost_usd", "5"),
       !.providers = CfPut(@, "anthropic",
                       [CfProvider EXCEPT !.model = "m", !.models = CfPut(@, "code", "m")])]

-----------------------------------------------------------------------------
(* loadConfig: what the validation of a loaded file asks. *)

CfKnown(cfg, names) == names # <<>> /\ ToSet(names) \subseteq DOMAIN cfg.profiles

CfLoads(cfg) ==
    /\ CfGet(cfg.plain, "file_policy", "") # "badglob"
    /\ \A s \in DOMAIN cfg.active : CfKnown(cfg, cfg.active[s])

\* A missing file is an empty configuration.
CfLoaded(file) == IF file = <<>> THEN CfEmpty ELSE file[2]
CfReadable(file) == file = <<>> \/ (file[1] = "ok" /\ CfLoads(file[2]))

-----------------------------------------------------------------------------
(* configSet: {} when refused, otherwise the one changed configuration. *)

CfSetPlain(cfg, field, v) ==
    IF CfAccepts(field, v)
    THEN {[cfg EXCEPT !.plain = IF CfStored(field, v) = CfZero(field) THEN CfDrop(@, field)
                                ELSE CfPut(@, field, CfStored(field, v))]}
    ELSE {}

CfSetProvider(cfg, key, v) ==
    LET p == CfGet(cfg.providers, key[2], CfProvider)
        with(q) == {[cfg EXCEPT !.providers = CfPut(@, key[2], q)]}
    IN CASE Len(key) = 3 /\ key[3] \in {"base_url", "api_key", "model"} ->
              with([p EXCEPT ![key[3]] = v])
         [] Len(key) = 4 /\ key[3] = "models" ->
              with([p EXCEPT !.models = CfPut(@, key[4], v)])
         [] OTHER -> {}

CfSetProfile(cfg, key, patterns) ==
    IF Len(key) = 3 /\ key[3] \in {"include", "exclude"} /\ patterns # {}
    THEN {[cfg EXCEPT !.profiles = CfPut(@, key[2],
              [CfGet(@, key[2], CfProfile) EXCEPT ![key[3]] = patterns])]}
    ELSE {}

CfSetActive(cfg, key, names) ==
    IF CfKnown(cfg, names) THEN {[cfg EXCEPT !.active = CfPut(@, key[2], names)]} ELSE {}

CfConfigSet(cfg, key, v) ==
    CASE key[1] = "providers" -> CfSetProvider(cfg, key, v)
      [] key[1] = "tool_profiles" -> CfSetProfile(cfg, key, v)
      [] key[1] = "active_tools" -> CfSetActive(cfg, key, v)
      [] OTHER -> CfSetPlain(cfg, key[1], v)

-----------------------------------------------------------------------------
(* configUnset: unknown keys change nothing. *)

\* A slip: the scopes keep naming a profile that is gone.
CfPruneNothing(cfg) == cfg

\* PruneMissingProfiles.
CfPrune(cfg) ==
    LET kept(s) == SelectSeq(cfg.active[s], LAMBDA n : n \in DOMAIN cfg.profiles) IN
    [cfg EXCEPT !.active = [s \in {t \in DOMAIN cfg.active : kept(t) # <<>>} |-> kept(s)]]

CfUnsetProvider(cfg, key) ==
    IF key[2] \notin DOMAIN cfg.providers THEN cfg
    ELSE LET p == cfg.providers[key[2]] IN
         CASE Len(key) = 2 -> [cfg EXCEPT !.providers = CfDrop(@, key[2])]
           [] Len(key) = 3 /\ key[3] = "models" ->
                [cfg EXCEPT !.providers[key[2]].models = CfNone]
           [] Len(key) = 3 /\ key[3] # "models" ->
                [cfg EXCEPT !.providers[key[2]] = [p EXCEPT ![key[3]] = ""]]
           [] OTHER -> [cfg EXCEPT !.providers[key[2]].models = CfDrop(@, key[4])]

\* A profile without patterns is deleted with its last list.
CfUnsetProfile(cfg, key) ==
    IF key[2] \notin DOMAIN cfg.profiles THEN cfg
    ELSE LET left == IF Len(key) = 2 THEN CfProfile
                     ELSE [cfg.profiles[key[2]] EXCEPT ![key[3]] = {}]
         IN CfPrune([cfg EXCEPT !.profiles = IF left = CfProfile THEN CfDrop(@, key[2])
                                             ELSE CfPut(@, key[2], left)])

CfConfigUnset(cfg, key) ==
    CASE key[1] = "providers" -> CfUnsetProvider(cfg, key)
      [] key[1] = "tool_profiles" -> CfUnsetProfile(cfg, key)
      [] key[1] = "active_tools" -> [cfg EXCEPT !.active = CfDrop(@, key[2])]
      [] OTHER -> [cfg EXCEPT !.plain = CfDrop(@, key[1])]

-----------------------------------------------------------------------------
(* What the settings are read for. *)

\* configToMap: key -> value for everything that is not a zero value.
CfToMap(cfg) ==
    LET provider(n) == cfg.providers[n]
        plain == {<<f>> : f \in DOMAIN cfg.plain}
        fields == {<<"providers", n, f>> : n \in DOMAIN cfg.providers,
                                           f \in {"base_url", "api_key", "model"}}
        models == UNION {{<<"providers", n, "models", k>> : k \in DOMAIN provider(n).models}
                           : n \in DOMAIN cfg.providers}
        lists == {<<"tool_profiles", n, f>> : n \in DOMAIN cfg.profiles,
                                              f \in {"include", "exclude"}}
        keys == plain \cup {k \in fields : provider(k[2])[k[3]] # ""} \cup models
                  \cup {k \in lists : cfg.profiles[k[2]][k[3]] # {}}
                  \cup {<<"active_tools", s>> : s \in DOMAIN cfg.active}
    IN [k \in keys |-> CASE k[1] = "providers" /\ Len(k) = 3 -> provider(k[2])[k[3]]
                         [] k[1] = "providers" /\ Len(k) = 4 -> provider(k[2]).models[k[4]]
                         [] k[1] = "tool_profiles" -> cfg.profiles[k[2]][k[3]]
                         [] k[1] = "active_tools" -> cfg.active[k[2]]
                         [] OTHER -> cfg.plain[k[1]]]

\* The first of a sequence of strings that is not empty.
CfFirst(vs) ==
    LET given == SelectSeq(vs, LAMBDA v : v # "") IN IF given = <<>> THEN "" ELSE given[1]

\* resolveProviderConfigWithInput: flags over the request over the provider over
\* the file's own fields.  The environment holds the key "env".
CfResolve(cfg, kind, input, flag) ==
    LET name == CfFirst(<<flag.provider, input.provider,
                          CfGet(cfg.plain, "active_provider", ""), "anthropic">>)
        p == CfGet(cfg.providers, name, CfProvider)
        plain(f) == CfGet(cfg.plain, f, "")
    IN [name |-> name,
        base_url |-> CfFirst(<<flag.base_url, input.base_url, p.base_url, plain("base_url")>>),
        api_key |-> CfFirst(<<flag.api_key, input.api_key, p.api_key, plain("api_key"), "env">>),
        model |-> CfFirst(<<flag.model, CfGet(input.models, kind, ""), input.model,
                            CfGet(p.models, kind, ""), p.model, plain("model")>>)]

\* FilterRegistry for the scopes of a chat or a run, the broadest first.
CfActiveProfiles(cfg, scopes) ==
    UNION {ToSet(CfGet(cfg.active, s, <<>>)) : s \in scopes}

CfVisible(cfg, scopes) ==
    LET names == CfActiveProfiles(cfg, scopes)
        include == UNION {cfg.profiles[n].include : n \in names}
        exclude == UNION {cfg.profiles[n].exclude : n \in names}
    IN IF names = {} THEN CfTools
       ELSE {t \in CfTools : (include # {} => t \in include) /\ t \notin exclude}

-----------------------------------------------------------------------------
(* The commands. *)

CfMay(p) ==
    /\ cfProc[p].pc = "idle"
    /\ cfCount < CfMaxCommands
    /\ CfOverlap \/ \A q \in CfProcs : cfProc[q].pc = "idle"

\* A reference for the acknowledged settings, on flat keys.
CfUnder(key, k) == Len(key) <= Len(k) /\ SubSeq(k, 1, Len(key)) = key

CfRefDrop(m, key) ==
    LET left == [k \in {x \in DOMAIN m : ~CfUnder(key, x)} |-> m[k]]
        has(n) == \E k \in DOMAIN left : CfUnder(<<"tool_profiles", n>>, k)
        names(k) == SelectSeq(left[k], has)
        gone == {k \in DOMAIN left : k[1] = "active_tools" /\ names(k) = <<>>}
    IN [k \in DOMAIN left \ gone |-> IF k[1] = "active_tools" THEN names(k) ELSE left[k]]

CfRefSet(m, key, v) ==
    LET stored == IF Len(key) = 1 THEN CfStored(key[1], v) ELSE v
        blank == \/ Len(key) = 1 /\ stored = CfZero(key[1])
                 \/ key[1] = "providers" /\ Len(key) = 3 /\ stored = ""
    IN IF blank THEN CfDrop(m, key) ELSE CfPut(m, key, stored)

\* `brain config set`: load, change; a refusal at either ends the command.
CfSet(p, key, v) ==
    /\ CfMay(p)
    /\ cfCount' = cfCount + 1
    /\ IF CfReadable(cfFile)
       THEN LET changed == CfConfigSet(CfLoaded(cfFile), key, v) IN
            IF changed = {} THEN UNCHANGED cfProc
            ELSE cfProc' = [cfProc EXCEPT ![p] = [pc |-> "truncate", op |-> "set", key |-> key,
                              value |-> v, cfg |-> CHOOSE c \in changed : TRUE]]
       ELSE UNCHANGED cfProc
    /\ UNCHANGED <<cfFile, cfSet, cfKills>>

\* `brain config unset`.
CfUnset(p, key) ==
    /\ CfMay(p)
    /\ cfCount' = cfCount + 1
    /\ IF CfReadable(cfFile)
       THEN cfProc' = [cfProc EXCEPT ![p] = [CfIdle EXCEPT !.pc = "truncate", !.op = "unset",
                         !.key = key, !.cfg = CfConfigUnset(CfLoaded(cfFile), key)]]
       ELSE UNCHANGED cfProc
    /\ UNCHANGED <<cfFile, cfSet, cfKills>>

\* `brain config init` writes the defaults only where there is no file.
CfInitFile(p) ==
    /\ CfMay(p)
    /\ cfFile = <<>>
    /\ cfCount' = cfCount + 1
    /\ cfProc' = [cfProc EXCEPT ![p] = [CfIdle EXCEPT !.pc = "truncate", !.op = "init",
                    !.cfg = CfDefaults]]
    /\ UNCHANGED <<cfFile, cfSet, cfKills>>

\* os.WriteFile opens with O_TRUNC ...
CfTruncate(p) ==
    /\ cfProc[p].pc = "truncate"
    /\ cfFile' = <<"torn">>
    /\ cfProc' = [cfProc EXCEPT ![p].pc = "write"]
    /\ UNCHANGED <<cfSet, cfCount, cfKills>>

\* ... and writes; the command says "Updated" or "Removed".
CfWrite(p) ==
    /\ cfProc[p].pc = "write"
    /\ cfFile' = <<"ok", cfProc[p].cfg>>
    /\ cfSet' = CASE cfProc[p].op = "set" -> CfRefSet(cfSet, cfProc[p].key, cfProc[p].value)
                   [] cfProc[p].op = "unset" -> CfRefDrop(cfSet, cfProc[p].key)
                   [] OTHER -> CfToMap(cfProc[p].cfg)
    /\ cfProc' = [cfProc EXCEPT ![p] = CfIdle]
    /\ UNCHANGED <<cfCount, cfKills>>

CfKill(p) ==
    /\ cfKills < CfMaxKills
    /\ cfProc[p].pc # "idle"
    /\ cfProc' = [cfProc EXCEPT ![p] = CfIdle]
    /\ cfKills' = cfKills + 1
    /\ UNCHANGED <<cfFile, cfSet, cfCount>>

CfInit ==
    /\ cfFile = <<>>
    /\ cfProc = [p \in CfProcs |-> CfIdle]
    /\ cfSet = CfNone
    /\ cfCount = 0 /\ cfKills = 0

CfNext == \E p \in CfProcs :
    \/ \E key \in CfKeys :
         \/ \E v \in CfInputs[key[1]] : CfSet(p, key, v)
         \/ CfUnset(p, key)
    \/ CfInitFile(p) \/ CfTruncate(p) \/ CfWrite(p) \/ CfKill(p)

-----------------------------------------------------------------------------
(***************************************************************************)
(* Between commands the file loads again and holds exactly what the        *)
(* acknowledged commands asked for, key by key: no setting is lost,        *)
(* resurrected or changed by a command on another key, and no scope names  *)
(* a profile that was removed.  The model a brain would use and the tools  *)
(* a scope shows follow from those settings alone.  The only way out is a  *)
(* process killed between truncation and write, which leaves a torn file.  *)
(***************************************************************************)
CfSettingsKept ==
    (\A p \in CfProcs : cfProc[p].pc = "idle") /\ cfFile # <<>> /\ cfFile # <<"torn">> =>
        LET cfg == cfFile[2]
            set(key) == CfGet(cfSet, key, "")
            name == CfFirst(<<set(<<"active_provider">>), "anthropic">>)
            model(k) == CfFirst(<<set(<<"providers", name, "models", k>>),
                                  set(<<"providers", name, "model">>), set(<<"model">>)>>)
            blank == CfProvider @@ [provider |-> ""]
            hidden(s) == {t \in CfTools : \E n \in ToSet(CfGet(cfSet, <<"active_tools", s>>, <<>>)) :
                            t \in CfGet(cfSet, <<"tool_profiles", n, "exclude">>, {})}
        IN /\ CfLoads(cfg)
           /\ CfToMap(cfg) = cfSet
           /\ \A k \in CfKinds, m \in {"", "n"} :
                CfResolve(cfg, k, [blank EXCEPT !.model = m], blank).model
                  = CfFirst(<<m, model(k)>>)
           /\ \A key \in CfKeys : key[1] = "active_tools" =>
                CfVisible(cfg, {key[2]}) \cap hidden(key[2]) = {}

=============================================================================
