----------------------------- MODULE ConfigPollProofs -----------------------------
(***************************************************************************)
(* Proofs about ConfigPoll, for any providers, any model names and what the *)
(* settings make of them, any files with a key that stands twice, any       *)
(* changes behind the reloader's back and any number of edits.              *)
(***************************************************************************)
EXTENDS ConfigPoll, TLAPS

USE NoneAssumption, AliasesAssumption

-----------------------------------------------------------------------------
(* Types                                                                    *)

Environment == [provider : Providers \cup {Unknown, None}, rest : Rests, model : Models]
SettingsType == [provider : Providers, hook : BOOLEAN, model : Models]
Promises == [provider : Providers \cup {Unknown, None}, alias : Aliases \cup {None}]

LEMMA ReadModelType ==
  ASSUME TypeOK, NEW p \in Providers
  PROVE  ReadModel(p) \in Models
<1>1. providerEnv[p] \in ProviderContent
  BY DEF TypeOK
<1> QED BY <1>1 DEF ReadModel, Models, ProviderContent

LEMMA LoadType ==
  ASSUME TypeOK
  PROVE  LoadEnvFiles(environ) \in Environment
<1>1. proxyEnv \in ProxyContent /\ environ \in Environment
  BY DEF TypeOK, Environment
<1>2. Override(proxyEnv.provider, environ.provider) \in Providers \cup {Unknown, None}
  BY <1>1 DEF Override, ProxyContent, Environment
<1>3. Override(proxyEnv.rest, environ.rest) \in Rests
  BY <1>1 DEF Override, ProxyContent, Environment
<1>4. environ.model \in Models
  BY <1>1 DEF Environment
<1> QED BY <1>2, <1>3, <1>4, ReadModelType DEF LoadEnvFiles, Environment

LEMMA BuildType ==
  ASSUME NEW env \in Environment, Buildable(env)
  PROVE  BuildSettings(env) \in SettingsType
<1>1. env.provider \in Providers /\ env.model \in Models /\ env.model.alias \in Aliases
  BY DEF Environment, Buildable, Models
<1>2. Normal[env.provider][env.model.alias] \in Aliases \cup {None}
  BY <1>1, NormalAssumption
<1>3. [env.model EXCEPT !.alias = Normal[env.provider][env.model.alias]] \in Models
  BY <1>1, <1>2 DEF Models
<1> QED BY <1>1, <1>3 DEF BuildSettings, SettingsType

LEMMA InitType == Init => TypeOK
<1> SUFFICES ASSUME Init PROVE TypeOK
  OBVIOUS
<1>1. PICK m \in Aliases :
        providerEnv = [p \in Providers |-> [complete |-> TRUE, model |-> m, twice |-> FALSE]]
  BY DEF Init
<1>2. proxyEnv \in [provider : Providers, rest : {"on", "off"}, twice : {FALSE}]
  BY DEF Init
<1>3. proxyEnv \in ProxyContent /\ providerEnv \in [Providers -> ProviderContent]
  BY <1>1, <1>2 DEF ProxyContent, ProviderContent, Rests
<1>4. Fresh \in Environment
  <2>1. Fresh = [provider |-> proxyEnv.provider, rest |-> proxyEnv.rest,
                 model |-> [of |-> proxyEnv.provider, alias |-> m, complete |-> TRUE]]
    BY <1>1, <1>2 DEF Fresh, LoadEnvFiles, Override, Blank, ReadModel
  <2>2. proxyEnv.provider \in Providers /\ proxyEnv.rest \in Rests
    BY <1>2 DEF Rests
  <2>3. [of |-> proxyEnv.provider, alias |-> m, complete |-> TRUE] \in Models
    BY <1>1, <2>2 DEF Models
  <2> QED BY <2>1, <2>2, <2>3 DEF Environment
<1>5. BuildSettings(Fresh) \in SettingsType
  BY <1>4, BuildType DEF Init, Startable
<1>6. yaml = [y \in Yamls |-> "v1"]
  BY DEF Init
<1>7. /\ yaml \in [Yamls -> Versions] /\ yaml[PerModelYaml] = "v1"
      /\ FreshConfig(PerModelYaml) = "v1" /\ FreshConfig(InterceptYaml) = "v1"
  BY <1>6 DEF Versions, Yamls, FreshConfig
<1>8. /\ environ = Fresh /\ settings = BuildSettings(Fresh)
      /\ perModel = "v1" /\ intercept = "v1"
      /\ hookOn = settings.hook /\ watched = settings.provider
      /\ absent = {} /\ unseen = {} /\ missed = {} /\ pc = "startup" /\ todo = {} /\ cut = FALSE
      /\ promised = [provider |-> None, alias |-> None]
  BY <1>7 DEF Init
<1>9. settings.hook \in BOOLEAN /\ settings.provider \in Providers
  BY <1>5, <1>8 DEF SettingsType
<1> QED BY <1>3, <1>4, <1>5, <1>7, <1>8, <1>9 DEF TypeOK, Environment, SettingsType

LEMMA WrittenType ==
  ASSUME TypeOK, NEW fs, NEW late, fs \subseteq EnvFiles \cup Yamls, late \subseteq fs, Written(fs, late)
  PROVE  /\ unseen' \subseteq EnvFiles \cup Yamls \cup {HookScript}
         /\ missed' \subseteq EnvFiles \cup Yamls
BY DEF TypeOK, Written

LEMMA KeptType ==
  ASSUME TypeOK, NEW fs
  PROVE  Kept(fs) \in Promises
BY DEF TypeOK, Kept, Promises

(* What an edit, a deletion or a switch leaves to be shown.                 *)
FilesType ==
  /\ proxyEnv \in ProxyContent
  /\ providerEnv \in [Providers -> ProviderContent]
  /\ yaml \in [Yamls -> Versions] /\ yaml[PerModelYaml] # "refused"
  /\ absent \subseteq EnvFiles
  /\ unseen \subseteq EnvFiles \cup Yamls \cup {HookScript}
  /\ missed \subseteq EnvFiles \cup Yamls
  /\ promised \in Promises

LEMMA EditType ==
  ASSUME TypeOK, Edit
  PROVE  FilesType'
<1>1. CASE \E c \in ProxyContent, late \in SUBSET {ProxyEnv} :
             /\ proxyEnv' = c
             /\ absent' = absent \ {ProxyEnv}
             /\ Written({ProxyEnv}, late)
             /\ promised' = Kept({ProxyEnv})
             /\ UNCHANGED <<providerEnv, yaml>>
  <2> PICK c \in ProxyContent, late \in SUBSET {ProxyEnv} :
             /\ proxyEnv' = c
             /\ absent' = absent \ {ProxyEnv}
             /\ Written({ProxyEnv}, late)
             /\ promised' = Kept({ProxyEnv})
             /\ UNCHANGED <<providerEnv, yaml>>
    BY <1>1
  <2>1. {ProxyEnv} \subseteq EnvFiles \cup Yamls
    BY DEF EnvFiles
  <2> QED BY <2>1, WrittenType, KeptType DEF FilesType, TypeOK
<1>2. CASE \E p \in Providers, c \in ProviderContent : \E late \in SUBSET {p} :
             /\ providerEnv' = [providerEnv EXCEPT ![p] = c]
             /\ absent' = absent \ {p}
             /\ Written({p}, late)
             /\ promised' = Kept({p})
             /\ UNCHANGED <<proxyEnv, yaml>>
  <2> PICK p \in Providers, c \in ProviderContent : \E late \in SUBSET {p} :
             /\ providerEnv' = [providerEnv EXCEPT ![p] = c]
             /\ absent' = absent \ {p}
             /\ Written({p}, late)
             /\ promised' = Kept({p})
             /\ UNCHANGED <<proxyEnv, yaml>>
    BY <1>2
  <2>1. {p} \subseteq EnvFiles \cup Yamls
    BY DEF EnvFiles
  <2>2. providerEnv' \in [Providers -> ProviderContent]
    BY DEF TypeOK
  <2> QED BY <2>1, <2>2, WrittenType, KeptType DEF FilesType, TypeOK
<1>3. CASE \E y \in Yamls, v \in Versions : \E late \in SUBSET {y} :
             /\ v = "refused" => y = InterceptYaml
             /\ yaml' = [yaml EXCEPT ![y] = v]
             /\ Written({y}, late)
             /\ UNCHANGED <<proxyEnv, providerEnv, absent, promised>>
  <2> PICK y \in Yamls, v \in Versions : \E late \in SUBSET {y} :
             /\ v = "refused" => y = InterceptYaml
             /\ yaml' = [yaml EXCEPT ![y] = v]
             /\ Written({y}, late)
             /\ UNCHANGED <<proxyEnv, providerEnv, absent, promised>>
    BY <1>3
  <2>1. yaml' \in [Yamls -> Versions]
    BY DEF TypeOK
  <2>2. yaml'[PerModelYaml] # "refused"
    BY DEF TypeOK, Yamls, InterceptYaml, PerModelYaml
  <2> QED BY <2>1, <2>2, WrittenType DEF FilesType, TypeOK, Promises
<1>4. CASE unseen' = unseen \cup {HookScript} /\ UNCHANGED <<files, missed, promised>>
  BY <1>4 DEF FilesType, TypeOK, files, Promises
<1> QED BY <1>1, <1>2, <1>3, <1>4 DEF Edit

LEMMA DeleteType ==
  ASSUME TypeOK, Delete
  PROVE  FilesType'
<1> PICK f \in EnvFiles :
       /\ absent' = absent \cup {f}
       /\ IF f = ProxyEnv
          THEN /\ proxyEnv' = [provider |-> None, rest |-> None, twice |-> FALSE]
               /\ UNCHANGED providerEnv
          ELSE /\ providerEnv' = [providerEnv EXCEPT ![f] = [complete |-> FALSE, model |-> None, twice |-> FALSE]]
               /\ UNCHANGED proxyEnv
       /\ unseen' = unseen \ {f}
       /\ missed' = missed \cup {f}
       /\ promised' = Kept({f})
       /\ yaml' = yaml
  BY DEF Delete
<1>1. [provider |-> None, rest |-> None, twice |-> FALSE] \in ProxyContent
  BY DEF ProxyContent, Rests
<1>2. [complete |-> FALSE, model |-> None, twice |-> FALSE] \in ProviderContent
  BY DEF ProviderContent
<1>3. proxyEnv' \in ProxyContent /\ providerEnv' \in [Providers -> ProviderContent]
  <2>1. CASE f = ProxyEnv
    BY <1>1, <2>1 DEF TypeOK
  <2>2. CASE f # ProxyEnv
    <3>1. f \in Providers /\ proxyEnv' = proxyEnv
      BY <2>2 DEF EnvFiles
    <3>2. providerEnv' = [providerEnv EXCEPT ![f] = [complete |-> FALSE, model |-> None, twice |-> FALSE]]
      BY <2>2
    <3> QED BY <1>2, <3>1, <3>2 DEF TypeOK
  <2> QED BY <2>1, <2>2
<1> QED BY <1>3, KeptType DEF FilesType, TypeOK

LEMMA SetKeyType ==
  /\ \A c \in ProxyContent, v \in Providers \cup {Unknown} : SetKey(c, "provider", v) \in ProxyContent
  /\ \A c \in ProviderContent, v \in Aliases : SetKey(c, "model", v) \in ProviderContent
<1>1. ASSUME NEW c \in ProxyContent, NEW v \in Providers \cup {Unknown}
      PROVE  SetKey(c, "provider", v) \in ProxyContent
  BY DEF SetKey, ProxyContent
<1>2. ASSUME NEW c \in ProviderContent, NEW v \in Aliases
      PROVE  SetKey(c, "model", v) \in ProviderContent
  BY DEF SetKey, ProviderContent
<1> QED BY <1>1, <1>2

LEMMA SwitchType ==
  ASSUME TypeOK, SwitchProvider
  PROVE  FilesType'
<1> PICK p \in Providers \cup {Unknown}, m \in Aliases :
       /\ providerEnv' = [q \in Providers |->
                            IF q = p THEN SetKey(providerEnv[q], "model", m) ELSE providerEnv[q]]
       /\ \/ /\ proxyEnv' = SetKey(proxyEnv, "provider", p)
             /\ \E late \in SUBSET ({p, ProxyEnv} \cap EnvFiles) : Written({p, ProxyEnv} \cap EnvFiles, late)
             /\ promised' = [provider |-> p, alias |-> m]
          \/ /\ \E late \in SUBSET ({p} \cap EnvFiles) : Written({p} \cap EnvFiles, late)
             /\ promised' = Kept({p})
             /\ UNCHANGED proxyEnv
  BY DEF SwitchProvider
<1>1. UNCHANGED <<yaml, absent>>
  BY DEF SwitchProvider
<1>2. providerEnv' \in [Providers -> ProviderContent]
  BY SetKeyType DEF TypeOK
<1>3. proxyEnv' \in ProxyContent
  BY SetKeyType DEF TypeOK
<1>4. promised' \in Promises
  BY KeptType DEF Promises
<1>5. /\ unseen' \subseteq EnvFiles \cup Yamls \cup {HookScript}
      /\ missed' \subseteq EnvFiles \cup Yamls
  <2>1. PICK fs, late : fs \subseteq EnvFiles /\ late \subseteq fs /\ Written(fs, late)
    OBVIOUS
  <2> QED BY <2>1, WrittenType
<1> QED BY <1>1, <1>2, <1>3, <1>4, <1>5 DEF FilesType, TypeOK

LEMMA ChangeType ==
  ASSUME TypeOK, Edit \/ Delete \/ SwitchProvider
  PROVE  TypeOK'
<1>1. UNCHANGED <<environ, settings, perModel, intercept, hookOn, watched, pc, todo, cut>>
  BY DEF Edit, Delete, SwitchProvider, components, loop
<1>2. FilesType'
  BY EditType, DeleteType, SwitchType
<1> QED BY <1>1, <1>2 DEF TypeOK, FilesType, Promises

(* The callbacks of a poll.                                                 *)
LEMMA FinishType ==
  ASSUME TypeOK, NEW callbacks, Finish(callbacks)
  PROVE  /\ perModel' \in {"v1", "v2", None}
         /\ hookOn' \in BOOLEAN
         /\ watched' \in Providers
         /\ pc' = "sleep"
         /\ todo' = {}
         /\ cut' \in BOOLEAN
<1>1. yaml[PerModelYaml] \in {"v1", "v2", "bad"}
  BY DEF TypeOK, Yamls, Versions
<1>2. settings.hook \in BOOLEAN /\ settings.provider \in Providers
  BY DEF TypeOK
<1> QED BY <1>1, <1>2 DEF TypeOK, Finish, LoadPerModel

LEMMA ReloaderType ==
  ASSUME TypeOK, Reloader
  PROVE  TypeOK'
<1>1. UNCHANGED <<proxyEnv, providerEnv, yaml, absent, promised>>
  BY DEF Reloader, StartReloader, PollEnv, PollOther, StopDone, StartDone, files
<1>2. CASE StartReloader
  BY <1>1, <1>2 DEF TypeOK, StartReloader, components
<1>3. CASE PollEnv
  <2>1. environ' \in Environment /\ unseen' = {} /\ UNCHANGED <<missed, intercept, watched, cut>>
    BY <1>3, LoadType DEF PollEnv
  <2>2. settings' \in SettingsType
    BY <1>3, <2>1, BuildType DEF PollEnv, TypeOK, SettingsType
  <2>3. perModel' \in {"v1", "v2", None}
    <3>1. yaml[PerModelYaml] \in {"v1", "v2", "bad"}
      BY DEF TypeOK, Yamls, Versions
    <3> QED BY <1>3, <3>1 DEF TypeOK, PollEnv, LoadPerModel
  <2>4. hookOn' \in BOOLEAN
    <3>1. settings'.hook \in BOOLEAN
      BY <2>2 DEF SettingsType
    <3> QED BY <1>3, <3>1 DEF PollEnv, TypeOK
  <2>5. pc' \in {"startup", "sleep", "stopping", "starting"} /\ todo' \subseteq {"notify", PerModelYaml, HookScript}
    BY <1>3 DEF PollEnv, TypeOK
  <2> QED BY <1>1, <2>1, <2>2, <2>3, <2>4, <2>5 DEF TypeOK, Environment, SettingsType
<1>4. CASE PollOther
  <2>1. UNCHANGED <<environ, settings, intercept, missed>> /\ unseen' = {}
    BY <1>4 DEF PollOther
  <2>2. CASE Finish(unseen)
    BY <1>1, <2>1, <2>2, FinishType DEF TypeOK
  <2>3. CASE /\ pc' = "stopping" /\ todo' = unseen \cap {PerModelYaml, HookScript}
             /\ UNCHANGED <<perModel, hookOn, watched, cut>>
    BY <1>1, <2>1, <2>3 DEF TypeOK
  <2> QED BY <1>4, <2>2, <2>3 DEF PollOther
<1>5. CASE StopDone
  <2>1. UNCHANGED <<environ, settings, unseen, missed>>
    BY <1>5 DEF StopDone, marks
  <2>2. intercept' \in {"v1", "v2", None}
    BY <1>5 DEF StopDone, TypeOK, Versions, Yamls
  <2>3. CASE \E callbacks : Finish(callbacks)
    BY <1>1, <2>1, <2>2, <2>3, FinishType DEF TypeOK
  <2>4. CASE pc' = "starting" /\ UNCHANGED <<perModel, hookOn, watched, todo, cut>>
    BY <1>1, <2>1, <2>2, <2>4 DEF TypeOK
  <2> QED BY <1>5, <2>3, <2>4 DEF StopDone
<1>6. CASE StartDone
  <2>1. UNCHANGED <<environ, settings, unseen, missed, intercept>> /\ Finish(todo)
    BY <1>6 DEF StartDone, marks
  <2> QED BY <1>1, <2>1, FinishType DEF TypeOK
<1> QED BY <1>2, <1>3, <1>4, <1>5, <1>6 DEF Reloader

LEMMA StutterType ==
  ASSUME TypeOK, UNCHANGED vars
  PROVE  TypeOK'
<1>1. /\ proxyEnv' = proxyEnv /\ providerEnv' = providerEnv /\ yaml' = yaml /\ absent' = absent
      /\ unseen' = unseen /\ missed' = missed /\ environ' = environ /\ settings' = settings
      /\ perModel' = perModel /\ intercept' = intercept /\ hookOn' = hookOn
      /\ watched' = watched /\ pc' = pc /\ todo' = todo /\ cut' = cut /\ promised' = promised
  BY DEF vars, files, marks, components, loop
<1>2. FilesType'
  BY <1>1 DEF TypeOK, FilesType, Promises
<1>3. environ' \in Environment /\ settings' \in SettingsType
  BY <1>1 DEF TypeOK, Environment, SettingsType
<1>4. /\ (perModel \in {"v1", "v2", None})'
      /\ (intercept \in {"v1", "v2", None})'
      /\ (hookOn \in BOOLEAN)'
      /\ (watched \in Providers)'
      /\ (pc \in {"startup", "sleep", "stopping", "starting"})'
      /\ (cut \in BOOLEAN)'
  BY <1>1 DEF TypeOK
<1>5. (todo \subseteq {"notify", PerModelYaml, HookScript})'
  BY <1>1 DEF TypeOK
<1> QED BY <1>2, <1>3, <1>4, <1>5 DEF TypeOK, FilesType, Environment, SettingsType, Promises

(* The variables have their types.                                          *)
THEOREM TypeCorrect == Spec => []TypeOK
<1>1. TypeOK /\ [Next]_vars => TypeOK'
  <2> SUFFICES ASSUME TypeOK, [Next]_vars PROVE TypeOK'
    OBVIOUS
  <2> QED BY StutterType, ChangeType, ReloaderType DEF Next
<1> QED BY <1>1, InitType, PTL DEF Spec

-----------------------------------------------------------------------------
(* Settings                                                                 *)

(* What is loaded for a provider comes from its file.                       *)
LEMMA LoadedModel ==
  ASSUME TypeOK, NEW env, env = LoadEnvFiles(environ), env.provider \in Providers
  PROVE  env.model = ReadModel(env.provider)
BY DEF LoadEnvFiles

(* Settings built from a provider's own file are of that provider.          *)
LEMMA BuiltModel ==
  ASSUME NEW env, Buildable(env), env.model = ReadModel(env.provider)
  PROVE  LET s == BuildSettings(env)
         IN s.model.of = s.provider /\ s.model.alias # None
BY DEF Buildable, BuildSettings, ReadModel

(* settings.py _load_env_files: the settings never pair a provider with the *)
(* key or the model of another one.                                         *)
THEOREM NoLeakEver == Spec => []NoLeak
<1>1. Init => NoLeak
  <2> SUFFICES ASSUME Init PROVE NoLeak
    OBVIOUS
  <2>1. Buildable(Fresh) /\ settings = BuildSettings(Fresh) /\ Fresh.provider \in Providers
    BY DEF Init, Startable, Buildable
  <2>2. Fresh.model = ReadModel(Fresh.provider)
    BY <2>1 DEF Fresh, LoadEnvFiles
  <2> QED BY <2>1, <2>2, BuiltModel DEF NoLeak
<1>2. TypeOK /\ NoLeak /\ [Next]_vars => NoLeak'
  <2> SUFFICES ASSUME TypeOK, NoLeak, [Next]_vars PROVE NoLeak'
    OBVIOUS
  <2>1. CASE settings' = settings
    BY <2>1 DEF NoLeak
  <2>2. CASE PollEnv
    <3>1. environ' = LoadEnvFiles(environ)
      BY <2>2 DEF PollEnv
    <3>2. CASE Buildable(environ') /\ settings' = BuildSettings(environ')
      <4>1. environ'.model = ReadModel(environ'.provider)
        BY <3>1, <3>2, LoadedModel DEF Buildable
      <4> DEFINE env == environ'
      <4>2. Buildable(env) /\ env.model = ReadModel(env.provider) /\ settings' = BuildSettings(env)
        BY <3>2, <4>1 DEF Buildable, BuildSettings
      <4> HIDE DEF env
      <4> QED BY <4>2, BuiltModel DEF NoLeak
    <3> QED BY <2>1, <2>2, <3>2 DEF PollEnv
  <2> QED BY <2>1, <2>2
          DEF Next, Edit, Delete, SwitchProvider, Reloader, StartReloader, PollOther, StopDone, StartDone, vars
<1> QED BY <1>1, <1>2, TypeCorrect, PTL DEF Spec

-----------------------------------------------------------------------------
(* A reload is a restart                                                    *)

(* The environment's files were all read since they changed, leave nothing  *)
(* to what was there before, and can be run with.                           *)
Settled ==
  /\ (unseen \cup missed) \cap EnvFiles = {}
  /\ proxyEnv.rest # None
  /\ Buildable(Fresh) /\ Fresh.rest # "unlogged"

PhaseInv == pc \in {"startup", "sleep"} => todo = {}

SyncInv ==
  Settled =>
    /\ settings = BuildSettings(Fresh)
    /\ hookOn = settings.hook
    /\ "notify" \in todo \/ cut \/ watched = settings.provider
    /\ PerModelYaml \notin unseen \cup missed \cup todo /\ yaml[PerModelYaml] # "bad"
         => perModel = yaml[PerModelYaml]
    /\ InterceptYaml \notin unseen \cup missed /\ pc # "stopping" /\ yaml[InterceptYaml] # "refused"
         => intercept = FreshConfig(InterceptYaml)

IInv == TypeOK /\ PhaseInv /\ SyncInv

(* Over a proxy.env that sets everything the environment forgets what was   *)
(* there before.                                                            *)
LEMMA LoadIsFresh ==
  ASSUME proxyEnv.rest # None, Buildable(Fresh)
  PROVE  LoadEnvFiles(environ) = Fresh
<1>1. Fresh.provider \in Providers
  BY DEF Buildable
<1>2. proxyEnv.provider # None /\ proxyEnv.provider = Fresh.provider
  BY <1>1 DEF Fresh, LoadEnvFiles, Override, Blank
<1> QED BY <1>1, <1>2 DEF Fresh, LoadEnvFiles, Override, Blank

LEMMA InitSync == Init => IInv
<1> SUFFICES ASSUME Init PROVE IInv
  OBVIOUS
<1>1. PhaseInv /\ SyncInv
  BY DEF Init, PhaseInv, SyncInv, FreshConfig
<1> QED BY <1>1, InitType DEF IInv

(* A file changes, noticed or not: what changed is unseen or missed.        *)
Marked ==
  \/ (unseen' \cup missed') \cap EnvFiles # {}
  \/ /\ UNCHANGED <<proxyEnv, providerEnv>>
     /\ \A y \in Yamls : y \in unseen' \cup missed' \/ yaml'[y] = yaml[y]

LEMMA WrittenMarks ==
  ASSUME NEW fs, NEW late, late \subseteq fs, Written(fs, late)
  PROVE  fs \subseteq unseen' \cup missed' /\ unseen \cup missed \subseteq unseen' \cup missed'
BY DEF Written

LEMMA ChangeMarks ==
  ASSUME TypeOK, Edit \/ Delete \/ SwitchProvider
  PROVE  Marked /\ unseen \cup missed \subseteq unseen' \cup missed'
<1>1. CASE \E f \in EnvFiles : \E late \in SUBSET {f} : Written({f}, late)
  <2> PICK f \in EnvFiles : \E late \in SUBSET {f} : Written({f}, late)
    BY <1>1
  <2>1. f \in unseen' \cup missed' /\ unseen \cup missed \subseteq unseen' \cup missed'
    BY WrittenMarks
  <2> QED BY <2>1 DEF Marked
<1>2. CASE Edit
  <2>1. CASE \E y \in Yamls, v \in Versions : \E late \in SUBSET {y} :
               /\ yaml' = [yaml EXCEPT ![y] = v]
               /\ Written({y}, late)
               /\ UNCHANGED <<proxyEnv, providerEnv, absent, promised>>
    <3> PICK y \in Yamls, v \in Versions : \E late \in SUBSET {y} :
               /\ yaml' = [yaml EXCEPT ![y] = v]
               /\ Written({y}, late)
               /\ UNCHANGED <<proxyEnv, providerEnv, absent, promised>>
      BY <2>1
    <3>1. y \in unseen' \cup missed' /\ unseen \cup missed \subseteq unseen' \cup missed'
      BY WrittenMarks
    <3>2. \A z \in Yamls : z = y \/ yaml'[z] = yaml[z]
      BY DEF TypeOK
    <3> QED BY <3>1, <3>2 DEF Marked
  <2>2. CASE unseen' = unseen \cup {HookScript} /\ UNCHANGED <<files, missed, promised>>
    BY <2>2 DEF Marked, files
  <2>3. CASE \E late \in SUBSET {ProxyEnv} : Written({ProxyEnv}, late)
    BY <1>1, <2>3 DEF EnvFiles
  <2>4. CASE \E p \in Providers : \E late \in SUBSET {p} : Written({p}, late)
    BY <1>1, <2>4 DEF EnvFiles
  <2> QED BY <1>2, <2>1, <2>2, <2>3, <2>4 DEF Edit
<1>3. CASE Delete
  <2>1. PICK f \in EnvFiles : unseen' = unseen \ {f} /\ missed' = missed \cup {f}
    BY <1>3 DEF Delete
  <2> QED BY <2>1 DEF Marked
<1>4. CASE SwitchProvider
  <2> PICK p \in Providers \cup {Unknown}, m \in Aliases :
         /\ providerEnv' = [q \in Providers |->
                              IF q = p THEN SetKey(providerEnv[q], "model", m) ELSE providerEnv[q]]
         /\ \/ \E late \in SUBSET ({p, ProxyEnv} \cap EnvFiles) : Written({p, ProxyEnv} \cap EnvFiles, late)
            \/ /\ \E late \in SUBSET ({p} \cap EnvFiles) : Written({p} \cap EnvFiles, late)
               /\ UNCHANGED proxyEnv
    BY <1>4 DEF SwitchProvider
  <2>1. yaml' = yaml
    BY <1>4 DEF SwitchProvider
  <2>2. CASE \E late \in SUBSET ({p, ProxyEnv} \cap EnvFiles) : Written({p, ProxyEnv} \cap EnvFiles, late)
    <3>1. /\ {p, ProxyEnv} \cap EnvFiles \subseteq unseen' \cup missed'
          /\ unseen \cup missed \subseteq unseen' \cup missed'
      BY <2>2, WrittenMarks
    <3>2. ProxyEnv \in {p, ProxyEnv} \cap EnvFiles
      BY DEF EnvFiles
    <3> QED BY <3>1, <3>2 DEF Marked
  <2>3. CASE /\ \E late \in SUBSET ({p} \cap EnvFiles) : Written({p} \cap EnvFiles, late)
             /\ UNCHANGED proxyEnv
    <3>1. /\ {p} \cap EnvFiles \subseteq unseen' \cup missed'
          /\ unseen \cup missed \subseteq unseen' \cup missed'
      BY <2>3, WrittenMarks
    <3>2. CASE p \in EnvFiles
      BY <3>1, <3>2 DEF Marked
    <3>3. CASE p \notin EnvFiles
      <4>1. \A q \in Providers : q # p
        BY <3>3 DEF EnvFiles
      <4>2. providerEnv' = providerEnv
        BY <4>1 DEF TypeOK
      <4> QED BY <2>1, <2>3, <3>1, <4>2 DEF Marked
    <3> QED BY <3>2, <3>3
  <2> QED BY <2>2, <2>3
<1> QED BY <1>2, <1>3, <1>4

LEMMA ChangeSync ==
  ASSUME IInv, Edit \/ Delete \/ SwitchProvider
  PROVE  PhaseInv' /\ SyncInv'
<1>1. UNCHANGED <<environ, settings, perModel, intercept, hookOn, watched, pc, todo, cut>>
  BY DEF Edit, Delete, SwitchProvider, components, loop
<1>2. PhaseInv'
  BY <1>1 DEF IInv, PhaseInv
<1>3. Marked /\ unseen \cup missed \subseteq unseen' \cup missed'
  BY ChangeMarks DEF IInv
<1>4. CASE (unseen' \cup missed') \cap EnvFiles # {}
  <2>1. ~Settled'
    BY <1>4 DEF Settled, EnvFiles
  <2> QED BY <1>2, <2>1 DEF SyncInv
<1>5. CASE /\ UNCHANGED <<proxyEnv, providerEnv>>
           /\ \A y \in Yamls : y \in unseen' \cup missed' \/ yaml'[y] = yaml[y]
  <2>1. Fresh' = Fresh
    BY <1>5 DEF Fresh, LoadEnvFiles, ReadModel
  <2>2. Settled' => Settled
    BY <1>3, <1>5, <2>1 DEF Settled, Buildable, EnvFiles
  <2>3. /\ PerModelYaml \in unseen' \cup missed' \/ yaml'[PerModelYaml] = yaml[PerModelYaml]
        /\ \/ InterceptYaml \in unseen' \cup missed'
           \/ /\ FreshConfig(InterceptYaml)' = FreshConfig(InterceptYaml)
              /\ yaml'[InterceptYaml] = yaml[InterceptYaml]
    BY <1>5 DEF Yamls, FreshConfig
  <2> SUFFICES ASSUME Settled' PROVE SyncInv'
    BY <1>2 DEF SyncInv
  <2>4. Settled
    BY <2>2
  <2>5. settings' = BuildSettings(Fresh)'
    BY <1>1, <2>1, <2>4 DEF IInv, SyncInv, BuildSettings
  <2>6. hookOn' = settings'.hook /\ ("notify" \in todo' \/ cut' \/ watched' = settings'.provider)
    BY <1>1, <2>4 DEF IInv, SyncInv
  <2>7. (PerModelYaml \notin unseen \cup missed \cup todo /\ yaml[PerModelYaml] # "bad"
           => perModel = yaml[PerModelYaml])'
    BY <1>1, <1>3, <2>3, <2>4 DEF IInv, SyncInv
  <2>8. (InterceptYaml \notin unseen \cup missed /\ pc # "stopping" /\ yaml[InterceptYaml] # "refused"
           => intercept = FreshConfig(InterceptYaml))'
    BY <1>1, <1>3, <2>3, <2>4 DEF IInv, SyncInv
  <2> QED BY <2>5, <2>6, <2>7, <2>8 DEF SyncInv
<1> QED BY <1>3, <1>4, <1>5 DEF Marked

(* At the end of a poll everything was told.                                *)
LEMMA FinishSync ==
  ASSUME IInv, NEW callbacks, Finish(callbacks),
         UNCHANGED <<proxyEnv, providerEnv, yaml, environ, settings, missed>>,
         unseen' \cap EnvFiles = {} => unseen \cap EnvFiles = {},
         PerModelYaml \in unseen \cup todo => PerModelYaml \in unseen' \cup callbacks,
         Settled' /\ InterceptYaml \notin unseen' \cup missed' /\ yaml'[InterceptYaml] # "refused"
           => intercept' = FreshConfig(InterceptYaml)'
  PROVE  PhaseInv' /\ SyncInv'
<1>1. Fresh' = Fresh
  BY DEF Fresh, LoadEnvFiles, ReadModel
<1>2. Settled' => Settled
  BY <1>1 DEF Settled, Buildable, EnvFiles
<1>3. /\ pc' = "sleep" /\ todo' = {}
      /\ hookOn' = hookOn \/ hookOn' = settings.hook
      /\ watched' = IF "notify" \in callbacks THEN settings.provider ELSE watched
      /\ cut' = ((cut \/ "notify" \in todo) /\ "notify" \notin callbacks)
      /\ perModel' = IF PerModelYaml \in callbacks /\ yaml[PerModelYaml] # "bad"
                     THEN yaml[PerModelYaml] ELSE perModel
  BY DEF Finish, LoadPerModel
<1>4. PhaseInv'
  BY <1>3 DEF PhaseInv
<1> SUFFICES ASSUME Settled' PROVE SyncInv'
  BY <1>4 DEF SyncInv
<1>5. settings' = BuildSettings(Fresh)'
  BY <1>1, <1>2 DEF IInv, SyncInv, BuildSettings
<1>6. hookOn' = settings'.hook
  BY <1>2, <1>3 DEF IInv, SyncInv
<1>7. cut' \/ watched' = settings'.provider
  BY <1>2, <1>3 DEF IInv, SyncInv
<1>8. (PerModelYaml \notin unseen \cup missed \cup todo /\ yaml[PerModelYaml] # "bad"
         => perModel = yaml[PerModelYaml])'
  BY <1>2, <1>3 DEF IInv, SyncInv
<1> QED BY <1>3, <1>5, <1>6, <1>7, <1>8 DEF SyncInv

LEMMA ReloaderSync ==
  ASSUME IInv, Reloader
  PROVE  PhaseInv' /\ SyncInv'
<1>1. UNCHANGED <<proxyEnv, providerEnv, yaml>>
  BY DEF files, Reloader, StartReloader, PollEnv, PollOther, StopDone, StartDone
<1>2. /\ Fresh' = Fresh /\ FreshConfig(InterceptYaml)' = FreshConfig(InterceptYaml)
      /\ BuildSettings(Fresh)' = BuildSettings(Fresh)
  BY <1>1 DEF Fresh, LoadEnvFiles, ReadModel, FreshConfig, BuildSettings
<1>3. CASE StartReloader
  <2>1. /\ unseen' = {} /\ missed' = missed \cup (unseen \ {HookScript}) /\ pc' = "sleep"
        /\ UNCHANGED <<settings, perModel, intercept, hookOn, watched, todo, cut>>
        /\ pc = "startup"
    BY <1>3 DEF StartReloader, components
  <2>2. HookScript \notin Yamls \cup EnvFiles
    BY FilesAssumption DEF EnvFiles, HookScript, Yamls, InterceptYaml, PerModelYaml, ProxyEnv
  <2>3. PhaseInv'
    BY <2>1 DEF IInv, PhaseInv
  <2> SUFFICES ASSUME Settled' PROVE SyncInv'
    BY <2>3 DEF SyncInv
  <2>4. Settled
    <3>1. (unseen \ {HookScript}) \cap EnvFiles = {} /\ missed \cap EnvFiles = {}
      BY <2>1 DEF Settled, EnvFiles
    <3>2. unseen \cap EnvFiles = {}
      BY <2>2, <3>1
    <3> QED BY <1>1, <1>2, <3>1, <3>2 DEF Settled, Buildable, EnvFiles
  <2>5. PerModelYaml \in Yamls /\ InterceptYaml \in Yamls
    BY DEF Yamls
  <2> QED BY <1>1, <1>2, <2>1, <2>2, <2>4, <2>5 DEF IInv, SyncInv
<1>4. CASE PollEnv
  <2>1. /\ environ' = LoadEnvFiles(environ) /\ unseen' = {} /\ todo = {} /\ UNCHANGED <<missed, intercept, watched, cut>>
        /\ pc = "sleep"
    BY <1>4 DEF PollEnv, IInv, PhaseInv
  <2>2. Settled' => environ' = Fresh /\ Buildable(environ') /\ environ'.rest # "unlogged"
    BY <1>1, <1>2, <2>1, LoadIsFresh DEF Settled, Buildable
  <2>3. CASE ~(Buildable(environ') /\ environ'.rest # "unlogged")
    <3>1. ~Settled'
      BY <2>2, <2>3
    <3>2. UNCHANGED <<pc, todo>>
      BY <1>4, <2>3 DEF PollEnv
    <3> QED BY <3>1, <3>2 DEF IInv, SyncInv, PhaseInv
  <2>4. CASE Buildable(environ') /\ environ'.rest # "unlogged"
    <3>1. /\ settings' = BuildSettings(environ') /\ LoadPerModel /\ hookOn' = settings'.hook
          /\ pc' = "stopping" /\ todo' = {"notify"}
      BY <1>4, <2>4 DEF PollEnv
    <3>2. PhaseInv'
      BY <3>1 DEF PhaseInv
    <3>3. Settled' => settings' = BuildSettings(Fresh)'
      BY <1>2, <2>2, <3>1 DEF BuildSettings
    <3>4. yaml'[PerModelYaml] # "bad" => perModel' = yaml'[PerModelYaml]
      BY <1>1, <3>1 DEF LoadPerModel
    <3> QED BY <3>1, <3>2, <3>3, <3>4 DEF SyncInv
  <2> QED BY <2>3, <2>4
<1>5. CASE PollOther
  <2>1. /\ unseen' = {} /\ UNCHANGED <<environ, settings, intercept, missed>>
        /\ unseen \cap EnvFiles = {} /\ pc = "sleep" /\ todo = {}
    BY <1>5 DEF PollOther, IInv, PhaseInv
  <2>2. Settled' => Settled
    BY <1>1, <1>2, <2>1 DEF Settled, Buildable, EnvFiles
  <2>3. CASE InterceptYaml \in unseen
    <3>1. /\ pc' = "stopping" /\ todo' = unseen \cap {PerModelYaml, HookScript}
          /\ UNCHANGED <<perModel, hookOn, watched, cut>>
      BY <1>5, <2>3 DEF PollOther
    <3>2. PhaseInv'
      BY <3>1 DEF PhaseInv
    <3>3. PerModelYaml \in unseen => PerModelYaml \in todo'
      BY <3>1
    <3> SUFFICES ASSUME Settled' PROVE SyncInv'
      BY <3>2 DEF SyncInv
    <3>4. Settled
      BY <2>2
    <3>5. settings' = BuildSettings(Fresh)' /\ hookOn' = settings'.hook
      BY <1>2, <2>1, <3>1, <3>4 DEF IInv, SyncInv
    <3>6. cut' \/ watched' = settings'.provider
      BY <2>1, <3>1, <3>4 DEF IInv, SyncInv
    <3>7. (PerModelYaml \notin unseen \cup missed \cup todo /\ yaml[PerModelYaml] # "bad"
             => perModel = yaml[PerModelYaml])'
      BY <1>1, <2>1, <3>1, <3>3, <3>4 DEF IInv, SyncInv
    <3> QED BY <3>1, <3>5, <3>6, <3>7 DEF SyncInv
  <2>4. CASE InterceptYaml \notin unseen
    <3>1. Finish(unseen)
      BY <1>5, <2>4 DEF PollOther
    <3>2. Settled' /\ InterceptYaml \notin unseen' \cup missed' /\ yaml'[InterceptYaml] # "refused"
            => intercept' = FreshConfig(InterceptYaml)'
      BY <1>1, <1>2, <2>1, <2>2, <2>4 DEF IInv, SyncInv
    <3> QED BY <1>1, <2>1, <3>1, <3>2, FinishSync
  <2> QED BY <2>3, <2>4
<1>6. CASE StopDone
  <2>1. UNCHANGED <<unseen, missed, environ, settings>>
    BY <1>6 DEF StopDone, marks
  <2>2. CASE yaml[InterceptYaml] = "refused"
    <3>1. Finish(todo \ {"notify"})
      BY <1>6, <2>2 DEF StopDone
    <3>2. PerModelYaml # "notify"
      BY DEF PerModelYaml
    <3> QED BY <1>1, <2>1, <2>2, <3>1, <3>2, FinishSync DEF EnvFiles
  <2>3. CASE yaml[InterceptYaml] = "bad"
    <3>1. Finish(todo) /\ intercept' = FreshConfig(InterceptYaml)'
      BY <1>2, <1>6, <2>3 DEF StopDone, FreshConfig
    <3> QED BY <1>1, <2>1, <3>1, FinishSync DEF EnvFiles
  <2>4. CASE yaml[InterceptYaml] \notin {"refused", "bad"}
    <3>1. /\ pc' = "starting" /\ UNCHANGED <<perModel, hookOn, watched, todo, cut>>
          /\ intercept' = FreshConfig(InterceptYaml)'
      BY <1>2, <1>6, <2>4 DEF StopDone, FreshConfig
    <3>2. Settled' => Settled
      BY <1>1, <1>2, <2>1 DEF Settled, Buildable, EnvFiles
    <3>3. PhaseInv'
      BY <3>1 DEF PhaseInv
    <3> QED BY <1>1, <1>2, <2>1, <3>1, <3>2, <3>3 DEF IInv, SyncInv
  <2> QED BY <2>2, <2>3, <2>4
<1>7. CASE StartDone
  <2>1. Finish(todo) /\ UNCHANGED <<unseen, missed, environ, settings, intercept>> /\ pc = "starting"
    BY <1>7 DEF StartDone, marks
  <2>2. Settled' => Settled
    BY <1>1, <1>2, <2>1 DEF Settled, Buildable, EnvFiles
  <2>3. Settled' /\ InterceptYaml \notin unseen' \cup missed' /\ yaml'[InterceptYaml] # "refused"
          => intercept' = FreshConfig(InterceptYaml)'
    BY <1>1, <1>2, <2>1, <2>2 DEF IInv, SyncInv
  <2> QED BY <1>1, <2>1, <2>3, FinishSync DEF EnvFiles
<1> QED BY <1>3, <1>4, <1>5, <1>6, <1>7 DEF Reloader

LEMMA Invariance == Spec => []IInv
<1>1. IInv /\ [Next]_vars => IInv'
  <2> SUFFICES ASSUME IInv, [Next]_vars PROVE IInv'
    OBVIOUS
  <2>1. TypeOK /\ (UNCHANGED vars => TypeOK')
    BY StutterType DEF IInv
  <2>2. CASE Edit \/ Delete \/ SwitchProvider
    BY <2>1, <2>2, ChangeType, ChangeSync DEF IInv
  <2>3. CASE Reloader
    BY <2>1, <2>3, ReloaderType, ReloaderSync DEF IInv
  <2>4. CASE UNCHANGED vars
    <3>1. /\ UNCHANGED <<proxyEnv, providerEnv, yaml, unseen, missed, settings>>
          /\ UNCHANGED <<perModel, intercept, hookOn, watched, pc, todo, cut>>
      BY <2>4 DEF vars, files, marks, components, loop
    <3>2. /\ Fresh' = Fresh /\ FreshConfig(InterceptYaml)' = FreshConfig(InterceptYaml)
          /\ BuildSettings(Fresh)' = BuildSettings(Fresh)
      BY <3>1 DEF Fresh, LoadEnvFiles, ReadModel, FreshConfig, BuildSettings
    <3>3. Settled' => Settled
      BY <3>1, <3>2 DEF Settled, Buildable, EnvFiles
    <3>4. PhaseInv' /\ SyncInv'
      BY <3>1, <3>2, <3>3 DEF IInv, PhaseInv, SyncInv
    <3> QED BY <2>1, <2>4, <3>4 DEF IInv
  <2> QED BY <2>2, <2>3, <2>4 DEF Next
<1> QED BY <1>1, InitSync, PTL DEF Spec

(* What the property asks of the files settles them.                        *)
LEMMA InOrderSettles ==
  ASSUME InOrder, unseen = {}
  PROVE  Settled /\ yaml[InterceptYaml] # "refused" /\ missed = {}
BY DEF InOrder, Startable, Settled

(* config_reloader.py: when no file changed behind the reloader's back and  *)
(* proxy.env sets its keys, a reload that finds a configuration a restart   *)
(* could run with is as good as a restart, but for a credits checker whose  *)
(* cascade was cut.                                                         *)
THEOREM ReloadIsRestart == Spec => []LiveEqualsRestart
<1>1. IInv => LiveEqualsRestart
  <2> SUFFICES ASSUME IInv, pc = "sleep", unseen = {}, InOrder PROVE Synced
    BY DEF LiveEqualsRestart
  <2>1. Settled /\ yaml[InterceptYaml] # "refused" /\ missed = {} /\ todo = {}
    BY InOrderSettles DEF IInv, PhaseInv
  <2> QED BY <2>1 DEF IInv, SyncInv, Synced
<1> QED BY <1>1, Invariance, PTL

-----------------------------------------------------------------------------
(* Switches                                                                 *)

(* Until one of its files changes again, a switch is what the files say,    *)
(* unless a key stands twice in one of them.                                *)
PromiseInv ==
  LET p == promised.provider
  IN p # None =>
       /\ promised.alias \in Aliases
       /\ ~proxyEnv.twice => proxyEnv.provider = p
       /\ p \in Providers /\ ~providerEnv[p].twice => providerEnv[p].model = promised.alias

LEMMA KeptPromise ==
  ASSUME NEW fs, Kept(fs).provider # None
  PROVE  Kept(fs) = promised /\ promised.provider \notin fs /\ ProxyEnv \notin fs
BY DEF Kept

(* Other files than those of the switch do not matter to it.                *)
LEMMA PromiseKept ==
  ASSUME TypeOK, PromiseInv, NEW fs, promised' = Kept(fs),
         ProxyEnv \in fs \/ UNCHANGED proxyEnv,
         \A p \in Providers : p \in fs \/ providerEnv'[p] = providerEnv[p]
  PROVE  PromiseInv'
<1> SUFFICES ASSUME promised'.provider # None PROVE PromiseInv'
  BY DEF PromiseInv
<1>1. promised' = promised /\ promised.provider \notin fs /\ ProxyEnv \notin fs
  BY KeptPromise
<1>2. promised.provider \in Providers => providerEnv'[promised.provider] = providerEnv[promised.provider]
  BY <1>1
<1>3. promised.provider # None /\ proxyEnv' = proxyEnv
  BY <1>1
<1> QED BY <1>1, <1>2, <1>3 DEF PromiseInv

LEMMA PromiseStep ==
  ASSUME TypeOK, PromiseInv, [Next]_vars
  PROVE  PromiseInv'
<1>1. CASE UNCHANGED <<proxyEnv, providerEnv, promised>>
  BY <1>1 DEF PromiseInv
<1>2. CASE promised' = Kept({ProxyEnv}) /\ UNCHANGED providerEnv
  BY <1>2, PromiseKept
<1>a. ASSUME NEW p \in Providers, NEW c, promised' = Kept({p}), UNCHANGED proxyEnv,
             providerEnv' = [providerEnv EXCEPT ![p] = c]
      PROVE  PromiseInv'
  <2>1. \A q \in Providers : q \in {p} \/ providerEnv'[q] = providerEnv[q]
    BY <1>a DEF TypeOK
  <2> QED BY <1>a, <2>1, PromiseKept
<1>3. CASE Edit
  <2>1. CASE promised' = Kept({ProxyEnv}) /\ UNCHANGED providerEnv
    BY <1>2, <2>1
  <2>2. CASE \E p \in Providers, c \in ProviderContent :
               /\ providerEnv' = [providerEnv EXCEPT ![p] = c]
               /\ promised' = Kept({p})
               /\ UNCHANGED proxyEnv
    <3> PICK p \in Providers, c \in ProviderContent :
               /\ providerEnv' = [providerEnv EXCEPT ![p] = c]
               /\ promised' = Kept({p})
               /\ UNCHANGED proxyEnv
      BY <2>2
    <3> QED BY <1>a
  <2> QED BY <1>1, <1>3, <2>1, <2>2 DEF Edit, files
<1>4. CASE Delete
  <2> PICK f \in EnvFiles :
         /\ IF f = ProxyEnv
            THEN UNCHANGED providerEnv
            ELSE /\ providerEnv' = [providerEnv EXCEPT ![f] = [complete |-> FALSE, model |-> None, twice |-> FALSE]]
                 /\ UNCHANGED proxyEnv
         /\ promised' = Kept({f})
    BY <1>4 DEF Delete
  <2>1. CASE f = ProxyEnv
    BY <1>2, <2>1
  <2>2. CASE f # ProxyEnv
    <3>1. f \in Providers
      BY <2>2 DEF EnvFiles
    <3> DEFINE nothing == [complete |-> FALSE, model |-> None, twice |-> FALSE]
    <3>2. promised' = Kept({f}) /\ UNCHANGED proxyEnv /\ providerEnv' = [providerEnv EXCEPT ![f] = nothing]
      BY <2>2
    <3> HIDE DEF nothing
    <3> QED BY <1>a, <3>1, <3>2
  <2> QED BY <2>1, <2>2
<1>5. CASE SwitchProvider
  <2> PICK p \in Providers \cup {Unknown}, m \in Aliases :
         /\ providerEnv' = [q \in Providers |->
                              IF q = p THEN SetKey(providerEnv[q], "model", m) ELSE providerEnv[q]]
         /\ \/ /\ proxyEnv' = SetKey(proxyEnv, "provider", p)
               /\ promised' = [provider |-> p, alias |-> m]
            \/ /\ promised' = Kept({p})
               /\ UNCHANGED proxyEnv
    BY <1>5 DEF SwitchProvider
  <2>1. CASE promised' = Kept({p}) /\ UNCHANGED proxyEnv
    BY <2>1, PromiseKept
  <2>2. CASE proxyEnv' = SetKey(proxyEnv, "provider", p) /\ promised' = [provider |-> p, alias |-> m]
    <3>1. proxyEnv \in ProxyContent /\ (p \in Providers => providerEnv[p] \in ProviderContent)
      BY DEF TypeOK
    <3>2. ~proxyEnv'.twice => proxyEnv'.provider = p
      BY <2>2, <3>1 DEF SetKey, ProxyContent
    <3>3. p \in Providers /\ ~providerEnv'[p].twice => providerEnv'[p].model = m
      BY <3>1 DEF SetKey, ProviderContent
    <3>4. promised'.provider = p /\ promised'.alias = m
      BY <2>2
    <3> QED BY <3>2, <3>3, <3>4 DEF PromiseInv
  <2> QED BY <2>1, <2>2
<1> QED BY <1>1, <1>3, <1>4, <1>5
        DEF Next, Reloader, StartReloader, PollEnv, PollOther, StopDone, StartDone, files, vars

(* pareto_api.py handle_provider_model: a switch whose files say what it    *)
(* wrote, and that a restart could run with, is in use as soon as the       *)
(* reloader has seen it, under the name the settings make of the model.     *)
THEOREM SwitchesTakeEffect == Spec => []SwitchTakesEffect
<1>1. Init => PromiseInv
  BY DEF Init, PromiseInv
<1>2. TypeOK /\ PromiseInv /\ [Next]_vars => PromiseInv'
  BY PromiseStep
<1>3. IInv /\ PromiseInv => SwitchTakesEffect
  <2> SUFFICES ASSUME IInv, PromiseInv, unseen = {}, InOrder, promised.provider \in Providers,
                      ~providerEnv[promised.provider].twice, ~proxyEnv.twice
               PROVE  /\ settings.provider = promised.provider
                      /\ settings.model.alias = Normal[promised.provider][promised.alias]
    BY DEF SwitchTakesEffect
  <2>1. /\ promised.provider # None
        /\ proxyEnv.provider = promised.provider
        /\ providerEnv[promised.provider].model = promised.alias
    BY DEF PromiseInv
  <2>2. Fresh.provider = promised.provider /\ Fresh.model = ReadModel(promised.provider)
    BY <2>1 DEF Fresh, LoadEnvFiles, Override
  <2>3. settings = BuildSettings(Fresh)
    BY InOrderSettles DEF IInv, SyncInv
  <2> QED BY <2>1, <2>2, <2>3 DEF BuildSettings, ReadModel
<1> QED BY <1>1, <1>2, <1>3, TypeCorrect, Invariance, PTL DEF Spec
=============================================================================
