-------------------------------- MODULE ConfigPoll --------------------------------
(***************************************************************************)
(* MCPTap's hot reload: configuration files that anybody may edit, the     *)
(* process environment they are loaded into, the settings built from it,   *)
(* the components that hold a configuration of their own, and the endpoint *)
(* that switches the provider by rewriting two of the files                *)
(* (mcptap/config_reloader.py, settings.py, pareto_api.py, app.py).        *)
(*                                                                         *)
(* Modification times only matter in comparison with the recorded ones, so *)
(* the state keeps the files whose time is greater (unseen).               *)
(***************************************************************************)
EXTENDS Naturals, FiniteSets

CONSTANTS
  Providers,
  Aliases,      (* model names, as far as dotenv reads them back as written *)
  None,         (* no key, no value                                        *)
  Unknown,      (* a provider name MCPTap does not know                     *)
  Normal,       (* what the settings make of a provider's model name, None  *)
                (* where they cannot be built from it: requesty cuts a tag  *)
                (* and may add a suffix                                     *)
  Doubled,      (* files in which an edit may leave a key twice             *)
  Unnoticed,    (* files that may get a time the reloader does not notice   *)
  MaxEdits      (* bound: edits and switches                                *)

ProxyEnv == "proxy.env"
InterceptYaml == "mcp-intercept.yaml"
PerModelYaml == "per-model.yaml"
HookScript == "use_tool_hook.py"

EnvFiles == Providers \cup {ProxyEnv}

ASSUME NoneAssumption ==
  /\ None \notin Providers \cup Aliases \cup {"on", "off", "invalid", "unlogged"}
  /\ Unknown \notin Providers \cup {None}
ASSUME FilesAssumption == Providers \cap {ProxyEnv, InterceptYaml, PerModelYaml, HookScript} = {}
ASSUME EditsAssumption == MaxEdits \in Nat
ASSUME AliasesAssumption == Aliases # {}
ASSUME NormalAssumption == Normal \in [Providers -> [Aliases -> Aliases \cup {None}]]

VARIABLES
  proxyEnv,     (* content of proxy.env                                     *)
  providerEnv,  (* content of each provider's file                          *)
  yaml,         (* content of the two YAML files                            *)
  absent,       (* env files that do not exist                              *)
  unseen,       (* files whose mtime is greater than the recorded one       *)
  missed,       (* history: files changed behind the reloader's back: not   *)
                (* saved again since they were deleted, replaced by an older*)
                (* one, or edited before the first times were recorded      *)
  environ,      (* os.environ                                               *)
  settings,     (* the target of the settings proxy                         *)
  perModel,     (* app["per_model_config"]                                  *)
  intercept,    (* app["mcp_intercept"]: its configuration, None if disabled*)
  hookOn,       (* hook_gateway.enabled                                     *)
  watched,      (* _active_provider of the credits checker                  *)
  pc,           (* where the startup or the poll loop is suspended          *)
  todo,         (* callbacks the poll loop has still to run after that      *)
  cut,          (* history: the last env cascade ended before the credits   *)
                (* checker was told                                         *)
  edits,        (* edits so far                                             *)
  promised      (* history: what the last switch answered, until one of its *)
                (* files changes again                                      *)

files == <<proxyEnv, providerEnv, yaml, absent>>
marks == <<unseen, missed>>
components == <<perModel, intercept, hookOn, watched>>
loop == <<pc, todo, cut>>
vars == <<files, marks, environ, settings, components, loop, edits, promised>>

(* Of proxy.env, the rest says whether the tool hook is on, or holds a      *)
(* number that does not parse or a log file that cannot be opened.  twice:  *)
(* the line of the provider (of the model) is there two times.              *)
Rests == {"on", "off", "invalid", "unlogged", None}
ProxyContent == [provider : Providers \cup {Unknown, None}, rest : Rests, twice : BOOLEAN]

(* The API key and the plan model are there, MCPTAP_MODEL.                  *)
ProviderContent == [complete : BOOLEAN, model : Aliases \cup {None}, twice : BOOLEAN]

(* Files that cannot be read or parsed are bad; what refused holds parses,  *)
(* but MCPInterceptor raises on it.                                         *)
Yamls == {InterceptYaml, PerModelYaml}
Versions == {"v1", "v2", "bad", "refused"}

(* A model name is remembered with the file it was read from.               *)
NoModel == [of |-> None, alias |-> None, complete |-> FALSE]
Models == [of : Providers \cup {None}, alias : Aliases \cup {None}, complete : BOOLEAN]

TypeOK ==
  /\ proxyEnv \in ProxyContent
  /\ providerEnv \in [Providers -> ProviderContent]
  /\ yaml \in [Yamls -> Versions] /\ yaml[PerModelYaml] # "refused"
  /\ absent \subseteq EnvFiles
  /\ unseen \subseteq EnvFiles \cup Yamls \cup {HookScript}
  /\ missed \subseteq EnvFiles \cup Yamls
  /\ environ \in [provider : Providers \cup {Unknown, None}, rest : Rests, model : Models]
  /\ settings \in [provider : Providers, hook : BOOLEAN, model : Models]
  /\ perModel \in {"v1", "v2", None}
  /\ intercept \in {"v1", "v2", None}
  /\ hookOn \in BOOLEAN
  /\ watched \in Providers
  /\ pc \in {"startup", "sleep", "stopping", "starting"}
  /\ todo \subseteq {"notify", PerModelYaml, HookScript}
  /\ cut \in BOOLEAN
  /\ promised \in [provider : Providers \cup {Unknown, None}, alias : Aliases \cup {None}]

-----------------------------------------------------------------------------
(* settings.py.                                                             *)

ReadModel(p) == [of |-> p, alias |-> providerEnv[p].model, complete |-> providerEnv[p].complete]

(* What a file does not set keeps the value it has in the environment.      *)
Override(new, old) == IF new = None THEN old ELSE new

(* Slip: the keys of the provider loaded before are not removed first. *)
LoadEnvFilesKeeping(env) ==
  LET selected == Override(proxyEnv.provider, env.provider)
  IN [provider |-> selected, rest |-> Override(proxyEnv.rest, env.rest),
      model |-> IF selected \notin Providers THEN env.model
                ELSE [of |-> IF providerEnv[selected].model = None THEN env.model.of ELSE selected,
                      alias |-> Override(providerEnv[selected].model, env.model.alias),
                      complete |-> providerEnv[selected].complete \/ env.model.complete]]

(* _load_env_files: proxy.env, then, unless the provider is unknown, the    *)
(* provider's file in place of whatever provider keys there are.            *)
LoadEnvFiles(env) ==
  LET selected == Override(proxyEnv.provider, env.provider)
  IN [provider |-> selected, rest |-> Override(proxyEnv.rest, env.rest),
      model |-> IF selected \in Providers THEN ReadModel(selected) ELSE env.model]

(* _build_settings raises without a provider, an API key and both models,   *)
(* and on values that do not parse.                                         *)
Buildable(env) ==
  /\ env.provider \in Providers
  /\ env.model.alias # None /\ Normal[env.provider][env.model.alias] # None
  /\ env.model.complete
  /\ env.rest # "invalid"

BuildSettings(env) ==
  [provider |-> env.provider, hook |-> env.rest = "on",
   model |-> [env.model EXCEPT !.alias = Normal[env.provider][env.model.alias]]]

Blank == [provider |-> None, rest |-> None, model |-> NoModel]

(* What a process started now would run with, if it starts: the import of   *)
(* settings.py and build_app end it when the settings cannot be built, the  *)
(* log file cannot be opened or MCPInterceptor raises.                      *)
Fresh == LoadEnvFiles(Blank)
FreshConfig(y) == IF yaml[y] = "bad" THEN None ELSE yaml[y]
Startable == Buildable(Fresh) /\ Fresh.rest # "unlogged" /\ yaml[InterceptYaml] # "refused"

Init ==
  /\ proxyEnv \in [provider : Providers, rest : {"on", "off"}, twice : {FALSE}]
  /\ \E m \in Aliases : providerEnv = [p \in Providers |-> [complete |-> TRUE, model |-> m, twice |-> FALSE]]
  /\ yaml = [y \in Yamls |-> "v1"]
  /\ Startable
  /\ absent = {}
  /\ unseen = {}
  /\ missed = {}
  /\ environ = Fresh
  /\ settings = BuildSettings(Fresh)
  /\ perModel = FreshConfig(PerModelYaml)
  /\ intercept = FreshConfig(InterceptYaml)
  /\ hookOn = settings.hook
  /\ watched = settings.provider
  /\ pc = "startup"
  /\ todo = {}
  /\ cut = FALSE
  /\ edits = 0
  /\ promised = [provider |-> None, alias |-> None]

-----------------------------------------------------------------------------
(* The files.                                                               *)

Kept(fs) == IF promised.provider \in fs \/ ProxyEnv \in fs
            THEN [provider |-> None, alias |-> None] ELSE promised

(* Files get new contents.  Their times are greater than the recorded ones  *)
(* (late), or the reloader will not notice.                                 *)
Written(fs, late) ==
  /\ fs \ late \subseteq Unnoticed
  /\ unseen' = (unseen \ fs) \cup late
  /\ missed' = (missed \ late) \cup (fs \ late)

(* Somebody saves or replaces a file; what is written may be incomplete, as *)
(* the first half of a save in place is.                                    *)
Edit ==
  /\ edits < MaxEdits
  /\ edits' = edits + 1
  /\ \/ \E c \in ProxyContent, late \in SUBSET {ProxyEnv} :
          /\ c # proxyEnv
          /\ c.twice => ProxyEnv \in Doubled /\ c.provider # None
          /\ proxyEnv' = c
          /\ absent' = absent \ {ProxyEnv}
          /\ Written({ProxyEnv}, late)
          /\ promised' = Kept({ProxyEnv})
          /\ UNCHANGED <<providerEnv, yaml>>
     \/ \E p \in Providers, c \in ProviderContent : \E late \in SUBSET {p} :
          /\ c # providerEnv[p]
          /\ c.twice => p \in Doubled /\ c.model # None
          /\ providerEnv' = [providerEnv EXCEPT ![p] = c]
          /\ absent' = absent \ {p}
          /\ Written({p}, late)
          /\ promised' = Kept({p})
          /\ UNCHANGED <<proxyEnv, yaml>>
     \/ \E y \in Yamls, v \in Versions : \E late \in SUBSET {y} :
          /\ v # yaml[y]
          /\ v = "refused" => y = InterceptYaml
          /\ yaml' = [yaml EXCEPT ![y] = v]
          /\ Written({y}, late)
          /\ UNCHANGED <<proxyEnv, providerEnv, absent, promised>>
     \/ /\ HookScript \notin unseen
        /\ unseen' = unseen \cup {HookScript}
        /\ UNCHANGED <<files, missed, promised>>
  /\ UNCHANGED <<environ, settings, components, loop>>

(* Somebody deletes an env file: nothing is read from it any more, and      *)
(* _detect_changes skips it.  (A YAML file that is gone is a bad one.)      *)
Delete ==
  /\ edits < MaxEdits
  /\ edits' = edits + 1
  /\ \E f \in EnvFiles \ absent :
       /\ absent' = absent \cup {f}
       /\ IF f = ProxyEnv
          THEN /\ proxyEnv' = [provider |-> None, rest |-> None, twice |-> FALSE]
               /\ UNCHANGED providerEnv
          ELSE /\ providerEnv' = [providerEnv EXCEPT ![f] = [complete |-> FALSE, model |-> None, twice |-> FALSE]]
               /\ UNCHANGED proxyEnv
       /\ unseen' = unseen \ {f}
       /\ missed' = missed \cup {f}
       /\ promised' = Kept({f})
  /\ UNCHANGED <<yaml, environ, settings, components, loop>>

(* Slip: proxy.env is rewritten, the provider's file is not. *)
SwitchProxyOnly ==
  /\ edits < MaxEdits
  /\ pc # "startup"
  /\ edits' = edits + 1
  /\ ProxyEnv \notin absent
  /\ \E p \in Providers \ absent, m \in Aliases :
       /\ proxyEnv' = [proxyEnv EXCEPT !.provider = p]
       /\ Written({ProxyEnv}, {ProxyEnv})
       /\ promised' = [provider |-> p, alias |-> m]
  /\ UNCHANGED <<providerEnv, yaml, absent, environ, settings, components, loop>>

(* _set_env_key replaces the first line of the key, or adds one; dotenv     *)
(* takes the last.                                                          *)
SetKey(content, key, value) == IF content.twice THEN content ELSE [content EXCEPT ![key] = value]

(* handle_provider_model, for a provider whose file exists, or for a file   *)
(* of the user's own that no provider stands for: the alias goes into that  *)
(* file, its name into proxy.env.  There is no await in between, so the     *)
(* reloader sees both or none, but the second write may fail, as it does    *)
(* without a proxy.env.                                                     *)
SwitchProvider ==
  /\ edits < MaxEdits
  /\ pc # "startup"
  /\ edits' = edits + 1
  /\ \E p \in (Providers \ absent) \cup {Unknown}, m \in Aliases :
       /\ providerEnv' = [q \in Providers |->
                            IF q = p THEN SetKey(providerEnv[q], "model", m) ELSE providerEnv[q]]
       /\ \/ /\ ProxyEnv \notin absent
             /\ proxyEnv' = SetKey(proxyEnv, "provider", p)
             /\ \E late \in SUBSET ({p, ProxyEnv} \cap EnvFiles) : Written({p, ProxyEnv} \cap EnvFiles, late)
             /\ promised' = [provider |-> p, alias |-> m]
          \/ /\ \E late \in SUBSET ({p} \cap EnvFiles) : Written({p} \cap EnvFiles, late)
             /\ promised' = Kept({p})
             /\ UNCHANGED proxyEnv
  /\ UNCHANGED <<yaml, absent, environ, settings, components, loop>>

-----------------------------------------------------------------------------
(* The reloader.                                                            *)

(* The startup hooks: the interceptor's start is awaited, then              *)
(* ConfigReloader.start records the times the files have by now.            *)
StartReloader ==
  /\ pc = "startup"
  /\ missed' = missed \cup (unseen \ {HookScript})
  /\ unseen' = {}
  /\ pc' = "sleep"
  /\ UNCHANGED <<files, environ, settings, components, todo, cut, edits, promised>>

(* load_per_model_config raises on a bad file: the old configuration stays. *)
LoadPerModel == perModel' = IF yaml[PerModelYaml] = "bad" THEN perModel ELSE yaml[PerModelYaml]

(* Slip: the settings are built without checking what they are built from. *)
PollEnvUnchecked ==
  /\ pc = "sleep"
  /\ unseen \cap EnvFiles # {}
  /\ unseen' = {}
  /\ environ' = LoadEnvFiles(environ)
  /\ settings' = [provider |-> environ'.provider, hook |-> environ'.rest = "on", model |-> environ'.model]
  /\ UNCHANGED <<files, missed, components, loop, edits, promised>>

(* Slip: the settings are reloaded, the components are not told. *)
PollEnvSettingsOnly ==
  /\ pc = "sleep"
  /\ unseen \cap EnvFiles # {}
  /\ unseen' = {}
  /\ environ' = LoadEnvFiles(environ)
  /\ settings' = IF Buildable(environ') THEN BuildSettings(environ') ELSE settings
  /\ hookOn' = settings'.hook
  /\ UNCHANGED <<files, missed, perModel, intercept, watched, loop, edits, promised>>

(* A poll that finds a changed env file: reload_env_and_propagate up to its *)
(* first await, in reload_intercept.  The times are recorded first; a       *)
(* reload that fails leaves the environment changed and ends the cascade,   *)
(* with new settings if it was the log file that failed.                    *)
PollEnv ==
  /\ pc = "sleep"
  /\ unseen \cap EnvFiles # {}
  /\ unseen' = {}
  /\ environ' = LoadEnvFiles(environ)
  /\ settings' = IF Buildable(environ') THEN BuildSettings(environ') ELSE settings
  /\ IF Buildable(environ') /\ environ'.rest # "unlogged"
     THEN /\ LoadPerModel
          /\ hookOn' = settings'.hook
          /\ pc' = "stopping"
          /\ todo' = {"notify"}
     ELSE UNCHANGED <<perModel, hookOn, pc, todo>>
  /\ UNCHANGED <<files, missed, intercept, watched, cut, edits, promised>>

(* The callbacks that follow, up to the end of the poll. *)
Finish(callbacks) ==
  /\ IF PerModelYaml \in callbacks THEN LoadPerModel ELSE UNCHANGED perModel
  /\ hookOn' = IF HookScript \in callbacks THEN settings.hook ELSE hookOn
  /\ watched' = IF "notify" \in callbacks THEN settings.provider ELSE watched
  /\ cut' = ((cut \/ "notify" \in todo) /\ "notify" \notin callbacks)
  /\ pc' = "sleep"
  /\ todo' = {}

(* A poll that finds other files changed only. *)
PollOther ==
  /\ pc = "sleep"
  /\ unseen # {}
  /\ unseen \cap EnvFiles = {}
  /\ unseen' = {}
  /\ IF InterceptYaml \in unseen
     THEN /\ pc' = "stopping"
          /\ todo' = unseen \cap {PerModelYaml, HookScript}
          /\ UNCHANGED <<perModel, hookOn, watched, cut>>
     ELSE Finish(unseen)
  /\ UNCHANGED <<files, missed, environ, settings, intercept, edits, promised>>

(* reload_intercept after the old instance is stopped: the file is read     *)
(* now.  If MCPInterceptor raises on it, the stopped instance stays; that   *)
(* ends an env cascade, while other callbacks run each under _safe_call.    *)
StopDone ==
  /\ pc = "stopping"
  /\ \/ /\ yaml[InterceptYaml] = "refused"
        /\ UNCHANGED intercept
        /\ Finish(todo \ {"notify"})
     \/ /\ yaml[InterceptYaml] = "bad"
        /\ intercept' = None
        /\ Finish(todo)
     \/ /\ yaml[InterceptYaml] \notin {"refused", "bad"}
        /\ intercept' = yaml[InterceptYaml]
        /\ pc' = "starting"
        /\ UNCHANGED <<perModel, hookOn, watched, todo, cut>>
  /\ UNCHANGED <<files, marks, environ, settings, edits, promised>>

(* Slip: the times are recorded when the reload is complete. *)
StartDoneRecords ==
  /\ pc = "starting"
  /\ Finish(todo)
  /\ unseen' = {}
  /\ UNCHANGED <<files, missed, environ, settings, intercept, edits, promised>>

(* The new instance has started, or failed to (InterceptReload). *)
StartDone ==
  /\ pc = "starting"
  /\ Finish(todo)
  /\ UNCHANGED <<files, marks, environ, settings, intercept, edits, promised>>

Reloader == StartReloader \/ PollEnv \/ PollOther \/ StopDone \/ StartDone

Next == Edit \/ Delete \/ SwitchProvider \/ Reloader

(* The poll loop wakes every two seconds.  That a start or stop of the      *)
(* interceptor ends is an assumption about the MCP server.                  *)
Spec == Init /\ [][Next]_vars /\ WF_vars(Reloader)

-----------------------------------------------------------------------------
(* Properties.                                                              *)

(* Files that a restart could run with, none of which changed behind the    *)
(* reloader's back, with a proxy.env that leaves no value to the            *)
(* environment.                                                             *)
InOrder == missed = {} /\ proxyEnv.rest # None /\ Startable

(* Everything that was configured from files is as a restart would make it. *)
(* There are two exceptions: with a bad per-model file the old              *)
(* configuration stays, and the credits checker was not told if             *)
(* MCPInterceptor raised in the last env cascade.                           *)
Synced ==
  /\ settings = BuildSettings(Fresh)
  /\ hookOn = settings.hook
  /\ cut \/ watched = settings.provider
  /\ yaml[PerModelYaml] # "bad" => perModel = yaml[PerModelYaml]
  /\ intercept = FreshConfig(InterceptYaml)

(* A reload is as good as a restart: when the loop sleeps and every change  *)
(* was seen, a configuration that can be loaded is the one in use, whatever *)
(* broken files, failed reloads and edits during a cascade came before.     *)
LiveEqualsRestart == pc = "sleep" /\ unseen = {} /\ InOrder => Synced

(* The settings never pair a provider with the key or the model of another  *)
(* one ("prevent values from one provider leaking into another").           *)
NoLeak == settings.model.of = settings.provider /\ settings.model.alias # None

(* What a switch answered is in use, as the provider names it, once the     *)
(* reloader has seen its files ("the ConfigReloader picks both files up     *)
(* live"), unless a key stands in one of them twice.                        *)
SwitchTakesEffect ==
  LET p == promised.provider
  IN pc = "sleep" /\ unseen = {} /\ InOrder /\ p \in Providers
     /\ ~providerEnv[p].twice /\ ~proxyEnv.twice
     => settings.provider = p /\ settings.model.alias = Normal[p][promised.alias]

(* Once the files rest, the configuration in use is theirs for good.        *)
Converges == <>[](InOrder => Synced)
=============================================================================
