-------------------------------- MODULE Routes --------------------------------
(***************************************************************************)
(* Where a run's requests go and what they carry: the environment file     *)
(* with its includes, its parents and its vars (config/multi_env.go), the  *)
(* credential and headers of the run (config/environment.go, headers.go,   *)
(* cmd/aat/run_shared.go), and the router that the overrides of the        *)
(* environment, of .aat-overrides.yaml, of --overlay and of --override are *)
(* registered with (engine/routing.go).                                    *)
(*                                                                         *)
(* A string of a file is a value, or a placeholder that stands for a var.  *)
(* The LLM settings, the runtime settings and the notes merge as the URL   *)
(* and the credential do, and are left out; a credential is its key.       *)
(***************************************************************************)
EXTENDS Integers, SequencesExt

CONSTANTS
  Canonical,  \* the names of headers: name -> the name without its case
  Globs,      \* the glob patterns: pattern -> the nodes it matches
  Reference,  \* the placeholders: string -> the var it names
  Nodes,      \* the nodes of the graph
  Abstract,   \* the names of environments that begin with an underscore
  GRPC,       \* the URLs of gRPC targets
  Templates   \* the headers of templates

VARIABLES
  setup,           \* what the run was started with
  phase,           \* "load", "route", "register", "flags", "ready" or "refused"
  env,             \* the environment
  auth,            \* the effective credential
  base,            \* the default route
  queue,           \* the overrides not registered yet
  routes,          \* the router's overrides, in order of registration
  valueOverrides   \* the router's values, in order

routeVars == <<setup, phase, env, auth, base, queue, routes, valueOverrides>>

None == "none"   \* a string left out
NoAuth == [type |-> "unset", header |-> None, key |-> None]
NoPartial == [extends |-> None, url |-> None, auth |-> NoAuth, headers |-> <<>>,
              overrides |-> <<>>, values |-> <<>>, vars |-> <<>>]
NoRoute == [url |-> None, headers |-> <<>>, protected |-> <<>>, overlay |-> <<>>]
NoOverlay == [environment |-> None, auth |-> NoAuth, headers |-> <<>>, overrides |-> <<>>]

-----------------------------------------------------------------------------
(* The environment file. *)

Over(under, over) == IF over = None THEN under ELSE over
OverAuth(under, over) == IF over.type = "unset" THEN under ELSE over

(* Mutant of mergePartials: the overrides of a parent come last, and win. *)
mergePartialsPrepend(under, over) ==
  [extends |-> None, url |-> Over(under.url, over.url), auth |-> OverAuth(under.auth, over.auth),
   headers |-> over.headers @@ under.headers, overrides |-> over.overrides \o under.overrides,
   values |-> over.values @@ under.values, vars |-> over.vars @@ under.vars]

mergePartials(under, over) ==
  [extends |-> None,
   url |-> Over(under.url, over.url),
   auth |-> OverAuth(under.auth, over.auth),
   headers |-> over.headers @@ under.headers,
   overrides |-> under.overrides \o over.overrides,
   values |-> over.values @@ under.values,
   vars |-> over.vars @@ under.vars]

(* A file has shared settings and environments by name, and so has each of the
   files it includes. *)
PartsOf(file) == {file} \cup Range(file.include)
PartialsOf(file) == UNION {{mef.shared} \cup Range(mef.environments) : mef \in PartsOf(file)}

parseAndMergeIncludes(file) ==
  FoldLeft(LAMBDA mef, inc :
             [shared |-> mergePartials(mef.shared, inc.shared),
              environments |->
                [n \in DOMAIN mef.environments \cup DOMAIN inc.environments |->
                   IF n \notin DOMAIN inc.environments THEN mef.environments[n]
                   ELSE IF n \notin DOMAIN mef.environments THEN inc.environments[n]
                   ELSE mergePartials(mef.environments[n], inc.environments[n])]],
           [shared |-> file.shared, environments |-> file.environments], file.include)

(* {}: a parent is missing, or the chain comes back to itself. *)
resolveInheritance(envs, environment) ==
  LET names == {environment} \cup {envs[n].extends : n \in DOMAIN envs}
      resolved[visited \in SUBSET DOMAIN envs] ==
        [name \in names |->
           IF name \in visited \/ name \notin DOMAIN envs THEN {}
           ELSE IF envs[name].extends = None THEN {envs[name]}
           ELSE {mergePartials(parent, envs[name]) :
                   parent \in resolved[visited \cup {name}][envs[name].extends]}]
  IN  resolved[{}][environment]

Placeholders(strings) == strings \cap DOMAIN Reference
OverrideReferences(ov) ==
  Placeholders({ov.url}) \cup Placeholders({ov.auth.key})
  \cup Placeholders(Range(ov.headers)) \cup Placeholders(Range(ov.values))

referencedVars(p) ==
  {Reference[s] : s \in
     Placeholders({p.url}) \cup Placeholders({p.auth.key})
     \cup Placeholders(Range(p.headers)) \cup Placeholders(Range(p.values))
     \cup UNION {OverrideReferences(p.overrides[i]) : i \in DOMAIN p.overrides}}

Substituted(s, vars) ==
  IF s \in DOMAIN Reference /\ Reference[s] \in DOMAIN vars THEN vars[Reference[s]] ELSE s
SubstitutedAll(f, vars) == [k \in DOMAIN f |-> Substituted(f[k], vars)]

SubstitutedIn(p, vars) ==
  [p EXCEPT !.url = Substituted(@, vars),
            !.auth.key = Substituted(@, vars),
            !.headers = SubstitutedAll(@, vars),
            !.values = SubstitutedAll(@, vars)]

(* substituteVars: once, so that a var's own value stays as it is. *)
substituteVars(p) ==
  [SubstitutedIn(p, p.vars) EXCEPT
     !.overrides = [i \in DOMAIN @ |-> SubstitutedIn(@[i], p.vars)]]

(* A var that the files never mention is a typo. *)
checkExternalVars(mef, vars) ==
  LET known(p) == DOMAIN p.vars \cup referencedVars(p)
  IN  DOMAIN vars \subseteq known(mef.shared)
                            \cup UNION {known(mef.environments[n]) : n \in DOMAIN mef.environments}

(* A path is a method name for a gRPC target, which can't be rewritten. *)
validateOverrides(overrides) ==
  \A i \in DOMAIN overrides : overrides[i].url \in GRPC => overrides[i].rewrite = None

(* What the named environment is, {} when it can't be had. *)
loadMultiEnv(file, name, vars) ==
  LET mef == parseAndMergeIncludes(file)
      merged == {[m EXCEPT !.vars = vars @@ @] :
                   m \in {mergePartials(mef.shared, p) :
                            p \in resolveInheritance(mef.environments, name)}}
      resolved == {substituteVars(m) : m \in merged}
  IN  IF name \in Abstract \/ ~checkExternalVars(mef, vars) THEN {}
      ELSE {p \in resolved : referencedVars(p) = {} /\ validateOverrides(p.overrides)}

loadLegacyEnv(file) ==
  {p \in {file.shared} : p.url # None /\ validateOverrides(p.overrides)}

LoadNamedEnvironmentWithVars(file, name, vars) ==
  IF file.multi THEN loadMultiEnv(file, name, vars)
  ELSE IF name # None \/ DOMAIN vars # {} THEN {} ELSE loadLegacyEnv(file)

-----------------------------------------------------------------------------
(* The name of the environment: the first that is set. *)

resolveOverlayEnvName(s) == Over(s.auto.environment, s.overlay.environment)

selectEnvName(s) ==
  IF s.envFlag # None THEN s.envFlag
  ELSE IF ~s.file.multi THEN None
  ELSE IF s.envVar # None THEN s.envVar
  ELSE IF resolveOverlayEnvName(s) # None THEN resolveOverlayEnvName(s)
  ELSE IF s.envConfig THEN None ELSE s.defaultEnv

RoutesInit ==
  /\ phase = "load" /\ env = NoPartial /\ auth = NoAuth
  /\ base = NoRoute
  /\ queue = <<>> /\ routes = <<>> /\ valueOverrides = <<>>

(* loadRunContext; an overlay file is read when the plan is run. *)
LoadEnvironment ==
  /\ phase = "load"
  /\ LET loaded == LoadNamedEnvironmentWithVars(setup.file, selectEnvName(setup), setup.vars)
     IN  IF \/ loaded = {} \/ ~validateOverrides(setup.auto.overrides)
            \/ ~validateOverrides(setup.overlay.overrides)
         THEN phase' = "refused" /\ UNCHANGED env
         ELSE phase' = "route" /\ env' \in loaded
  /\ UNCHANGED <<setup, auth, base, queue, routes, valueOverrides>>

-----------------------------------------------------------------------------
(* Headers.  A name is set whatever its case. *)

deleteHeader(headers, name) ==
  [h \in {h \in DOMAIN headers : Canonical[h] # Canonical[name]} |-> headers[h]]

(* Each name of more is set in turn, and those of more are all different. *)
withHeaders(headers, more) ==
  LET kept == {h \in DOMAIN headers : \A m \in DOMAIN more : Canonical[h] # Canonical[m]}
  IN  [h \in DOMAIN more \cup kept |-> IF h \in DOMAIN more THEN more[h] ELSE headers[h]]

(* The headers of an environment come from several files, so two may differ in
   case alone, and one of the two is set last. *)
Winners(headers) ==
  {[h \in S |-> headers[h]] : S \in
     {S \in SUBSET DOMAIN headers :
        \A h \in DOMAIN headers : \E w \in S : {x \in S : Canonical[x] = Canonical[h]} = {w}}}

addProtected(route, headers) ==
  [route EXCEPT !.headers = withHeaders(@, headers), !.protected = withHeaders(@, headers)]

AddOverlayHeaders(route, headers) ==
  addProtected([route EXCEPT !.overlay = withHeaders(@, headers)], headers)

credentialHeader(a) ==
  CASE a.type = "apikey" -> [h \in {a.header} |-> a.key]
    [] a.type = "bearer" -> [h \in {"Authorization"} |-> a.key]
    [] OTHER -> <<>>

(* The default route: the environment's headers, then the plan's, then the
   credential, then the headers of the overlays. *)
BuildAPIConfig(headers, a, s) ==
  LET plain == [url |-> env.url, headers |-> withHeaders(headers, s.planHeaders),
                protected |-> <<>>, overlay |-> <<>>]
      own == addProtected(plain, credentialHeader(a))
  IN  AddOverlayHeaders(AddOverlayHeaders(own, s.auto.headers), s.overlay.headers)

Configure ==
  /\ phase = "route"
  /\ LET a == OverAuth(OverAuth(OverAuth(env.auth, setup.auto.auth), setup.overlay.auth), setup.planAuth)
     IN  /\ auth' = a
         /\ \E headers \in Winners(env.headers) : base' = BuildAPIConfig(headers, a, setup)
  /\ queue' = env.overrides \o setup.auto.overrides \o setup.overlay.overrides
  /\ phase' = "register"
  /\ UNCHANGED <<setup, env, routes, valueOverrides>>

(* Mutant of overrideRoute: the run's credential stays beside an override's own. *)
overrideRouteKeeping(ov) ==
  LET plain == [url |-> Over(env.url, ov.url), headers |-> base.headers,
                protected |-> <<>>, overlay |-> <<>>]
      own == addProtected(addProtected(plain, ov.headers), credentialHeader(OverAuth(auth, ov.auth)))
  IN  AddOverlayHeaders(own, base.overlay)

(* The route of an override starts from the default one, without the credential
   when it declares its own. *)
overrideRoute(ov) ==
  LET mine == OverAuth(auth, ov.auth)
      bearerless == deleteHeader(base.headers, "Authorization")
      bare == IF auth.type = "apikey" THEN deleteHeader(bearerless, auth.header) ELSE bearerless
      plain == [url |-> Over(env.url, ov.url),
                headers |-> IF ov.auth.type = "unset" THEN base.headers ELSE bare,
                protected |-> <<>>, overlay |-> <<>>]
      own == addProtected(addProtected(plain, ov.headers), credentialHeader(mine))
  IN  AddOverlayHeaders(own, base.overlay)

IsRoute(ov) == ov.url # None \/ ov.auth.type # "unset" \/ ov.headers # <<>> \/ ov.rewrite # None

Entry(pattern, route, rewrite) == [pattern |-> pattern, route |-> route, rewrite |-> rewrite]

(* AddResolvedOverride, AddValueOverride. *)
RegisterOverride ==
  /\ phase = "register"
  /\ IF queue = <<>> THEN phase' = "flags" /\ queue' = setup.flags /\ UNCHANGED <<routes, valueOverrides>>
     ELSE LET ov == Head(queue)
          IN  /\ routes' = IF IsRoute(ov)
                           THEN Append(routes, Entry(ov.match, overrideRoute(ov), ov.rewrite))
                           ELSE routes
              /\ valueOverrides' = IF ov.values = <<>> THEN valueOverrides
                                   ELSE Append(valueOverrides, [pattern |-> ov.match, values |-> ov.values])
              /\ queue' = Tail(queue)
              /\ UNCHANGED phase
  /\ UNCHANGED <<setup, env, auth, base>>

-----------------------------------------------------------------------------
(* The router. *)

isGlob(pattern) == pattern \in DOMAIN Globs
MatchesGlob(pattern, node) == isGlob(pattern) /\ node \in Globs[pattern]

Default == Entry(None, base, None)

(* Mutant of Resolve: the last that matches, exactly or not. *)
ResolveLast(entries, node) ==
  LET all == {i \in DOMAIN entries : entries[i].pattern = node \/ MatchesGlob(entries[i].pattern, node)}
  IN  IF all # {} THEN entries[Max(all)] ELSE Default

Resolve(entries, node) ==
  LET exact == {i \in DOMAIN entries : entries[i].pattern = node}
      glob == {i \in DOMAIN entries : MatchesGlob(entries[i].pattern, node)}
  IN  IF exact # {} THEN entries[Max(exact)]
      ELSE IF glob # {} THEN entries[Max(glob)] ELSE Default

(* Mutant of inheritedRoute: every flag starts from the default route. *)
inheritedRouteDefault(entries, pattern) == Default

inheritedRoute(entries, pattern) ==
  LET same == {i \in DOMAIN entries : entries[i].pattern = pattern}
  IN  IF ~isGlob(pattern) THEN Resolve(entries, pattern)
      ELSE IF same # {} THEN entries[Max(same)] ELSE Default

(* AddURLOverride, for one --override flag. *)
RegisterFlag ==
  /\ phase = "flags"
  /\ IF queue = <<>> THEN phase' = "ready" /\ UNCHANGED <<queue, routes>>
     ELSE LET flag == Head(queue)
              from == inheritedRoute(routes, flag.pattern)
          IN  /\ routes' = Append(routes, Entry(flag.pattern, [from.route EXCEPT !.url = flag.url],
                                               IF flag.url \in GRPC THEN None ELSE from.rewrite))
              /\ queue' = Tail(queue)
              /\ UNCHANGED phase
  /\ UNCHANGED <<setup, env, auth, base, valueOverrides>>

BuildRoutes == LoadEnvironment \/ Configure \/ RegisterOverride \/ RegisterFlag

(* The two loops of ResolveValueOverride over the entries. *)
Turn(k) == valueOverrides[IF k <= Len(valueOverrides) THEN k ELSE k - Len(valueOverrides)]

(* Mutant of Applies: one loop, in the order they were registered. *)
AppliesInOrder(k, node) ==
  k <= Len(valueOverrides) /\ (Turn(k).pattern = node \/ MatchesGlob(Turn(k).pattern, node))

(* The first is for the node's globs, the second for its own name. *)
Applies(k, node) ==
  IF k <= Len(valueOverrides) THEN MatchesGlob(Turn(k).pattern, node)
  ELSE ~isGlob(Turn(k).pattern) /\ Turn(k).pattern = node

mergeValues(values, src) ==
  [n \in DOMAIN values \cup DOMAIN src |-> IF n \in DOMAIN src THEN src[n] ELSE values[n]]

ResolveValueOverride(node) ==
  LET merged[k \in 0..2 * Len(valueOverrides)] ==
        IF k = 0 THEN <<>>
        ELSE IF Applies(k, node) THEN mergeValues(merged[k - 1], Turn(k).values) ELSE merged[k - 1]
  IN  merged[2 * Len(valueOverrides)]

(* BuildRequest: a template's headers give way to those that are protected. *)
RequestOf(node, template) ==
  LET entry == Resolve(routes, node)
  IN  [url |-> entry.route.url, rewrite |-> entry.rewrite,
       headers |-> withHeaders(withHeaders(entry.route.headers, template), entry.route.protected)]
-----------------------------------------------------------------------------
(* The files of an environment, the most specific first: those that name it,
   the last included first, then those that name its parent, and so on, and the
   shared settings of each at last. *)
Files == Reverse(<<setup.file>> \o setup.file.include)
NamesIt(name) == SelectSeq(Files, LAMBDA f : name \in DOMAIN f.environments)
Sections(name) == [k \in DOMAIN NamesIt(name) |-> NamesIt(name)[k].environments[name]]

FirstSet(sections, Get(_)) ==
  LET at == {k \in DOMAIN sections : Get(sections[k]) # None}
  IN  IF at = {} THEN None ELSE Get(sections[Min(at)])

ParentOf(name) == FirstSet(Sections(name), LAMBDA p : p.extends)
Lineage[name \in STRING] ==
  IF name = None THEN <<[k \in DOMAIN Files |-> Files[k].shared]>>
  ELSE <<Sections(name)>> \o Lineage[ParentOf(name)]

(* An include adds to an environment that has a parent, which loses it. *)
LosesItsParent(name) ==
  /\ Len(Sections(name)) > 1
  /\ \E k \in DOMAIN Sections(name) : Sections(name)[k].extends # None

At(f, k, else) == IF k \in DOMAIN f THEN f[k] ELSE else

(* Of what the sections say, in order, each setting is the first that is said,
   and the overrides are all there are, the most specific last. *)
IsWhatTheFilesSay(e, sections) ==
  LET vars == FoldRight(LAMBDA p, under : p.vars @@ under, sections, <<>>)
      all == setup.vars @@ vars
      said(Get(_)) == Substituted(FirstSet(sections, Get), all)
      header(h) == said(LAMBDA p : At(p.headers, h, None))
      value(v) == said(LAMBDA p : At(p.values, v, None))
  IN  /\ e.url = said(LAMBDA p : p.url)
      /\ e.auth.key = said(LAMBDA p : p.auth.key)
      /\ \A h \in DOMAIN Canonical : At(e.headers, h, None) = header(h)
      /\ \A v \in UNION {DOMAIN p.values : p \in Range(sections)} : At(e.values, v, None) = value(v)
      /\ LET inOrder == FlattenSeq([k \in DOMAIN sections |-> sections[Len(sections) + 1 - k].overrides])
         IN  [k \in DOMAIN e.overrides |-> e.overrides[k].url]
               = [k \in DOMAIN inOrder |-> Substituted(inOrder[k].url, all)]

Loaded == phase \notin {"load", "refused"}
Multi == Loaded /\ setup.file.multi

(* Every setting of a run's environment is what the most specific file and
   environment say: the last include before the file, an environment before its
   parent, that before the shared settings, and a --var before all the vars
   (multi_env.go mergePartials, resolveInheritance, parseAndMergeIncludes). *)
SettingsComeFromTheNearest ==
  Multi /\ ~LosesItsParent(selectEnvName(setup)) =>
    IsWhatTheFilesSay(env, FlattenSeq(Lineage[selectEnvName(setup)]))

-----------------------------------------------------------------------------
Registered == env.overrides \o setup.auto.overrides \o setup.overlay.overrides
NoOverride == [match |-> None, url |-> None, auth |-> NoAuth, headers |-> <<>>, rewrite |-> None]

LastOrNone(at) == IF at = {} THEN NoOverride ELSE Registered[Max(at)]

Routing(pattern) == {i \in DOMAIN Registered : Registered[i].match = pattern /\ IsRoute(Registered[i])}
RoutingGlobs(node) ==
  {i \in DOMAIN Registered : MatchesGlob(Registered[i].match, node) /\ IsRoute(Registered[i])}

(* The flags that name the node, and those of its globs that it had before. *)
NamedFlags(node) == {k \in DOMAIN setup.flags : setup.flags[k].pattern = node}
GlobFlags(node) ==
  {k \in DOMAIN setup.flags : MatchesGlob(setup.flags[k].pattern, node)
                              /\ \A n \in NamedFlags(node) : k < n}
FlagGlob(node) == setup.flags[Max(GlobFlags(node))].pattern
ByFlagGlob(node) == Routing(node) = {} /\ GlobFlags(node) # {}

(* The override that a node has without a flag of its own: a glob flag has that
   of its pattern. *)
OverrideOf(node) ==
  IF Routing(node) # {} THEN LastOrNone(Routing(node))
  ELSE IF ByFlagGlob(node) THEN LastOrNone(Routing(FlagGlob(node)))
  ELSE LastOrNone(RoutingGlobs(node))

FlagsOf(node) ==
  NamedFlags(node) \cup
  {k \in GlobFlags(node) : ByFlagGlob(node) /\ setup.flags[k].pattern = FlagGlob(node)}

(* The headers of a request, the most specific first.  What an inherited
   credential is carried by is not inherited beside a credential of one's own. *)
HeaderSources(ov, template) ==
  LET credentials == {Canonical["Authorization"]}
                     \cup (IF auth.type = "apikey" THEN {Canonical[auth.header]} ELSE {})
      inherited(headers) ==
        IF ov.auth.type = "unset" THEN headers
        ELSE [h \in {h \in DOMAIN headers : Canonical[h] \notin credentials} |-> headers[h]]
  IN  <<setup.overlay.headers, setup.auto.headers, credentialHeader(OverAuth(auth, ov.auth)),
        ov.headers, template, inherited(setup.planHeaders), inherited(env.headers)>>

Single(headers) == \A h, k \in DOMAIN headers : Canonical[h] = Canonical[k] => h = k
Named(headers, c) == {h \in DOMAIN headers : Canonical[h] = c}
Header(headers, c) == {headers[h] : h \in Named(headers, c)}
MostSpecific(sources, c) ==
  LET at == {k \in DOMAIN sources : Named(sources[k], c) # {}}
  IN  IF at = {} THEN {} ELSE Header(sources[Min(at)], c)

(* A request carries each header once, as the most specific source sets it:
   an overlay, the credential of its route, its override, its template, the
   plan, the environment; it goes where the last flag, else its override, else
   the environment says; and a flag takes it elsewhere and changes nothing else
   (environment.go overrideRoute, headers.go, routing.go AddURLOverride). *)
RequestsCarryTheMostSpecific ==
  phase = "ready" =>
    \A node \in Nodes, template \in Templates :
      LET request == RequestOf(node, template)
          ov == OverrideOf(node)
          flags == FlagsOf(node)
      IN  /\ \A c \in Range(Canonical) :
               LET said == MostSpecific(HeaderSources(ov, template), c)
               IN  /\ Header(request.headers, c) \subseteq said
                   /\ said # {} => Header(request.headers, c) # {}
          /\ Single(request.headers)
          /\ request.url = IF flags # {} THEN setup.flags[Max(flags)].url ELSE Over(env.url, ov.url)
          /\ request.rewrite = IF \E k \in flags : setup.flags[k].url \in GRPC THEN None ELSE ov.rewrite

(* The last override of an input that names the node, else the last of its
   globs. *)
OverrideValue(node, input) ==
  LET sets(i) == input \in DOMAIN Registered[i].values
      named == {i \in DOMAIN Registered :
                  sets(i) /\ ~isGlob(Registered[i].match) /\ Registered[i].match = node}
      globs == {i \in DOMAIN Registered : sets(i) /\ MatchesGlob(Registered[i].match, node)}
  IN  IF named # {} THEN {Registered[Max(named)].values[input]}
      ELSE IF globs # {} THEN {Registered[Max(globs)].values[input]} ELSE {}

(* From the files to the request: a setting is the nearest file's, and a request
   carries the most specific of the settings (SettingsComeFromTheNearest,
   RequestsCarryTheMostSpecific). *)
RequestsSayWhatWasSet == SettingsComeFromTheNearest /\ RequestsCarryTheMostSpecific
=============================================================================
