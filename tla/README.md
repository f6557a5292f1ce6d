# Verification of my-sub

my-sub is a subscription service.  A *control plane* (TypeScript, a Cloudflare
Worker) keeps aliases, profiles, templates and sources in a KV namespace, answers
`GET /{alias}` and caches the answers; a *converter* (Rust, native server or wasm
worker) fetches subscriptions and rulesets and writes the configuration of a
proxy client.  The modules here model the parts of both that keep state or run
concurrently; TLC checks them on small instances and TLAPS proves the main
results for every instance.

## 1. Inventory

| Part | State | Operations | Hard behaviour |
|---|---|---|---|
| Registry (`infrastructure/kvRepository.ts`, `application/usecases.ts`, `api/admin/*`) | one KV record per alias, profile, template, source | POST/PUT/DELETE of each | handlers interleave between awaits, KV has no transactions, calls fail in the middle |
| Alias resolution (`resolveAlias`) | none | four rounds of reads | writes between the reads |
| Rendering and cache (`interface/subscriptionRender.ts`) | `cache:sub:{alias}`, pull log | pull, background refresh, timeout | no single flight, late puts, failures after success |
| Settings (`settings_struct.rs`, `api/sub.rs`) | `GLOBAL: RwLock<Arc<Settings>>` | init, current, reload on request | nested guards, a writer behind the caller's own guard |
| Conversion (`interfaces/subconverter.rs`, `parser/subparser.rs`, `utils/node_manip.rs`) | nodes, sub infos, group ids of one request | fetch sources, merge, filter, rename, add emojis | sources that fail, order of results, counters that overflow |
| Rulesets (`rulesets/ruleset.rs`, `utils/memory_cache.rs`) | process-wide memory cache | parallel and sequential refresh | results in another order than requests, a clock that is set back |
| Rules and groups (`utils/matcher.rs`, `generator/config/*`, `proxy_to_clash.rs`) | list of names that are taken | match rules, name proxies, fill and merge groups | two evaluations of one rule, names that repeat, empty groups |
| Node parsers (`parser/explodes/*`, `parser/yaml/*`) | none | read links, lines, JSON and YAML into nodes | defaults that depend on the order of items, numbers out of range, formats that look alike |
| Target generators (`generator/config/formats/*`, `generator/exports/*`, `generator/yaml/*`, `utils/ini_reader.rs`) | the text being written | eighteen targets, each writes nodes, groups and rules | values carried over from the node before, fields a format has no place for |
| Rule conversion (`generator/ruleconvert/*`) | number of rules written | convert lists, number and order the rules | a limit over several lists, rules for the servers themselves |
| Admin authentication (`interface/adminAuth.ts`) | certificate cache | check a token | stale keys |
| Worker start-up (`workers/converter/src/lib.rs`) | loaded flag | load preferences once | concurrent first requests |
| Settings formats, templates, HTTP, gist upload | none or external | data transformation and I/O | - |

`PROJECT.json` lists every part with its status and, under `hazards`, each hard
behaviour at its line with the property that would catch it going wrong.

How they interact: the admin UI calls the admin API, which writes KV; a pull
resolves its alias from KV, asks the cache record, then the converter over a
service binding; the converter reads its settings, fetches every source and
ruleset and answers; the answer goes back into KV and to the client.

What makes each part correct:

- *Registry*: a record is always whole; a delete does not break a link that stood
  all through it; handlers that do not overlap leave no dangling reference.
- *Alias resolution*: without writes it returns what one look at the registry would;
  never an entity that was disabled or missing all along; and always an answer for a
  chain that stood all along.
- *Cache*: a client gets a conversion of its own configuration, as fresh as the
  window says, an answer is logged once, and a pull ends.
- *Settings*: one request works with one version, never with the defaults of a process
  that is still starting; requests do not wait for each other for ever.
- *Rulesets*: own list, own order, nothing expired, failures reported.
- *Conversion*: nodes of every source in order with their group, honest user info,
  proxies and groups that can be told apart and used.
- *Formats*: a node that is written and read again is the node it was, or is gone;
  verification is off only where it was asked for; the rules stand in their order and
  the groups name what is there.

## 2. Modules

| Module | Models | Composition |
|---|---|---|
| `RefStore` | abstract: what a reader of the registry may rely on | implemented by `Registry`, instantiated by `AliasResolve` |
| `Registry` | the admin handlers and the KV repository | refines `RefStore` |
| `AliasResolve` | `resolveAlias` beside arbitrary `RefStore` writers | composes both |
| `PullService` | abstract: what a client of `GET /{alias}` is promised, caching aside | implemented by `SubCache` |
| `SubCache` | `renderAliasSubscription`, its cache record, refreshes, timeout, log | refines `PullService` |
| `SettingsLock` | `GLOBAL`, its guards, reload on request, worker threads; the start-up of the wasm worker | - |
| `RulesetService` | abstract: what `refresh_rulesets` answers | implemented by `RulesetRefresh` |
| `RulesetRefresh` | both builds of `refresh_rulesets`, the memory cache | refines `RulesetService` |
| `Matcher` | rules, interpreted and compiled | extended by `ClashOutput` |
| `ClashOutput` | names and groups of the Clash generator | extended by `Convert` |
| `Convert` | `subconverter()` for the Clash target | - |
| `ProxyNode` | a node and the text it is read from and written to | extended by all that follow |
| `ShareLinks` | the parsers of one link | extended by `Republish` |
| `LineConf`, `JsonConf` | the parsers of Surge and Quantumult lines; of V2Ray, SSD and Netch documents | extended by `IniText`; by `Republish` |
| `IniText` | `IniReader`, as generators use it | extended by `RuleConvert` |
| `RuleConvert` | rulesets into the rules of every target | extended by `TargetGroups` |
| `TargetGroups` | the groups of the targets other than Clash | extended by `LineTargets` |
| `LineTargets` | Surge, Surfboard, Loon, Quantumult, Quantumult X, Mellow | extended by `ClashText`, `JsonTargets` |
| `ClashText` | Clash entries, written and read | extended by `Republish` |
| `JsonTargets` | links, SSD, SIP008, sing-box | extended by `Republish` |
| `Relay` | abstract: what a chain of conversions promises | implemented by `Republish` |
| `Republish` | a subscription that is converted, served and converted again | refines `Relay`, composes the format modules |
| `ListOrder` | nothing: facts about lists that are picked from a list, in its order | extended by `RulesetRefreshProofs` |
| `RegistryProofs`, `RegistryRefinement`, `AliasResolveProofs`, `SubCacheProofs`, `SettingsLockProofs`, `RulesetRefreshProofs`, `ConvertProofs`, `RepublishProofs` | the theorems | each extends its module |

`MC*` modules give TLC the definitions a `.cfg` cannot hold.

### Registry

One variable per kind of record (`alias`, `profile`, `template`, `source`), each a
function from keys to a record or `None`, and one handler row per client (`h`).  An action
is one KV call with the synchronous code up to the next `await`; any call may throw
(`Abort`).  KV is modelled as linearizable: the code does nothing about eventual
consistency, and assumes it as well (a hazard without a property, see
`PROJECT.json`).  A scan is what `kvScan` and `scanEntities` make it: pages of keys,
then a get for each.  `StableLinkBlocksDelete` is about a link that exists from the
listing to the removal; a link made in between does dangle, and `resolveAlias` is
written for that.  `SerialIntegrity` says that this is the only way.

### AliasResolve

The four reads are actions; between them `RefStore!Next` may do anything `Registry`
can.  The history variables record what was on or off all through the resolution.

### SubCache

A pull is `Resolve`, `Lookup`, then hit, stale (with a refresh beside it) or miss:
`Headers`, `Body`, `Store`, `Log`, `ErrLog` as in the handler.  `TimedOut` is enabled
only before the headers, because the timer is cleared when `fetch` resolves.
Background refreshes are their own processes.  Time is discrete.

### SettingsLock

Tasks run on threads; a lock that is not free blocks the thread.  Guards are counted
per task, because `sub_process`, `subconverter` and `refresh_rulesets` take one each.
`WriterPreferred` is TRUE in the runs: std's RwLock lets a waiting writer block new
readers on the platforms the server is built for.

`native` chooses the build.  In the wasm worker every request begins with
`ensure_pref_loaded` (`workers/converter/src/lib.rs:33`): `Ensure` looks at the flag
and, if it is not set, loads the preferences.  `PutPrefs` is the end of the load, the
settings and then the flag in one go; when the preferences import other lists
(`Importing`) there is an `await` before it (`Imported`), where another first request
may run.  There `GLOBAL` is a `MockRwLock` that keeps nobody out: "In Wasm, we're
single-threaded, so this is safe" (`settings_struct.rs:46`) holds between two awaits
only.  So with preferences that import, a second first request may replace the
settings under one that is already running, and `NoTornRequest` says so: it holds for
the native server, and for the worker with preferences that do not import, like the
embedded ones.  `NeverDefaults` needs no such condition.

### RulesetRefresh

`native` chooses the build.  `Poll` is the first poll of the next future by `join_all`,
`LoadedOne` and `StoreOne` the completion of a load and the write to the cache,
`Join` the collection.  A load ends in a body, a failure or, in the native build, a panic:
`http_std.rs:145` unwraps a body that is not UTF-8, and the request it belongs to is
never answered (`pc = "panicked"`).  `SetBack` sets the system clock back, which stamps
use.

### Matcher, ClashOutput, Convert

A fetch yields one of `Sources` or `Failed`; a name is taken apart into prefix,
emoji, base and numbers, because names are compared and changed in exactly these
parts.  `NameNode` and `AddGroup` follow `proxy_to_clash_yaml`: the name is made
before the type is looked at, and the node keeps its own remark.  `filter_nodes`
sees group 0, since the group id is assigned after it.

### The formats

`Republish` follows one subscription through requests: `content` is the text last
answered, `nodes` what the parsers read from it, `ext` the settings of the requests,
`hops` the length of the chain.  There is one action per target (`ToClash`, `ToSurge`,
... `ToSingBox`), the `match target` of `interfaces/subconverter.rs`; each runs the
whole generator, and `ReadContent` is `explode_conf_content` with the dispatch to the
parsers.  So every parser meets the text of every generator, as well as texts other
programs write (`MCSources`), and what a format loses, or says in a way another one
takes for something else, shows after a hop or two.

Below it, each generator and each parser is an operator of the name the code gives it,
on lines that are sequences of items `<<key, value>>`.  What stays of a node are the
fields that say where it is, who may use it and how it is protected; the other options
are named in the headers of the modules.  `IniText` is the ini file a generator fills:
`SetLine` stores a line as the code does, as a key with an empty value.  A generator
answers `[lines, groups, rules, panic]`; one that panics (an `unwrap` or an index in
the code) answers nothing and the chain goes another way.

The requests of `Republish` neither filter, rename nor sort; that is `Convert`'s part.

## 3. Runs

| Run | Instance | Shows |
|---|---|---|
| `registry` | 2 clients, 2 aliases, 2 profiles, 1 template, 2 sources | types, links and serial references through every handler; refinement of `RefStore` |
| `resolve` | 1 alias, 1 profile, 2 templates, 2 sources, enabled and disabled | what a resolution may return |
| `subcache` | 2 pulls, 2 configurations, fresh 1, stale 2, clock to 3 | freshness, log, refinement of `PullService` |
| `subcache_live` | the same, clock to 1 | every pull is answered, unless the body stalls |
| `settings_lock` | 3 requests, 2 threads, 4 contents (plain, reloading, importing, edited), both builds | one version per request, no request before the preferences, answers without reload |
| `settings_reload` | the same | violation, see 6 |
| `rulesets` | 2 requests, 2 urls, an inline rule between or a repeated url, both builds | cache age, refinement of `RulesetService`, end of a refresh |
| `rulesets_order` | the same | violation, see 6 |
| `convert` | up to 3 urls, 5 yields or failure, 7 requests | order, user info, names, groups, emojis |
| `convert_groups` | the same | violation, see 6 |
| `formats` | 17 subscriptions, 6 settings, 9 groups, chains of up to 3 conversions | what arrives is what was sent; names, verification, rules and groups of every target |
| `formats_lines` | plain subscriptions, 1 conversion | violation, see 6 |

Why the bounds are enough: every property relates at most two actors (a delete and a
write, a pull and a refresh, two refreshes), so two are taken, and three requests
where a lock needs a writer, a blocked reader and a bystander.  Every loop (keys of a
page, source ids, urls, nodes, groups) runs zero, one and two or more times.  The
clock reaches past both windows, once, and an item ages past its maximum.  Names are
chosen to collide in every way the code has: equal, equal but for `=`, and ending in
the number another one gets.  `MaxU64` is 3, so two sources overflow.  Symmetry is
used in safety and refinement runs only, never with a liveness property.  `registry`
has a state constraint, `OneSide`: a behaviour either links aliases, profiles and the
template and leaves sources alone, or links one profile, the template and sources and
leaves aliases alone.  An alias write and a source write have no record, no reference
and no check in common; what they both touch, a profile, is in both sides.

The 17 subscriptions of `formats` have between them every type of node and every form
that is read; names that are equal, that end in the number another gets, or that a
client reserves; a port out of range; Clash entries in which a value that is asked for is
there and empty, one for each such value; the TLS flag set, unset and unknown; servers
that are IPv6 addresses, with brackets and without, one of them with digits a link takes
for the port; Trojan passwords with each character that a url splits at.
Three conversions are one more than it takes to see a loss: a value written in the
first and misread in the second is written again in the third.  The settings have no
limit of rules and one of eight, node lists and full texts, verification asked for and
left open, rules for the servers and none, and rulesets that are inline, fetched, from
a file, empty and gone; or one inline rule, so that the limit leaves room for all of them;
or lists of Quantumult X.

The properties of `formats`: `Relays` is the refinement of `Relay` (nothing made up,
moved, or given another's endpoint or credential); `VerificationKept` looks for every
spelling of "do not verify" in what is written; `NamesApart` is `UniqueNames` for the
other targets; `LinksReadBack` and `ClashReadBack` are about the two formats whose
writer and parser are the program's own: one node comes back for each that can be told
(`Carried` for links, `Legible` for Clash), in their order and whole, and every clause
of `Carried` and `Legible` is one some subscription breaks; `RulesInOrder`,
`DirectFirst` and `GroupsTold` are about the part of the text behind the nodes.
`DirectFirst` allows in front of a server's rule only what no ruleset wrote (the rules
of the base configuration and the fixed ones of sing-box) and other servers' rules; it
asks no rule of sing-box for a server that is an IPv6 address (`Ruled`), see 6.
`Breaks` says which nodes a link cannot tell, because their server has a `:` or their
Trojan password a character that ends a part of a url.  `LinksReadBack` does not leave
these links out of the list: one that is `Misread` stands for one node in its place, one
that is lost for none, and every other link is still read whole.  Where such a link may
end up is bounded by `Cut` in `Relay`: at what it cuts out of its own server or password,
never at another node's endpoint.
`CHECK_DEADLOCK FALSE` stands where all requests are answered in the end.

Fairness:

- `SubCache`: weak fairness of the handler's steps after a KV call and of the abort
  timer, not of the converter: nothing makes it send headers or a body.
- `SettingsLock`: every thread runs its tasks, and fetches end, since the native HTTP
  client has a timeout of 15 seconds (`src/src/utils/http_std.rs:8`).
- `RulesetRefresh`: the same; the wasm client has no timeout, so no fairness for it
  and no liveness claimed.

## 4. Proofs

Every theorem is `Spec => []P` or a refinement, for every value of the constants that
satisfies the named assumptions.

| Theorem | Result | Argument |
|---|---|---|
| `RegistryTypeCorrect` | records are whole | `TypeInv` adds what a handler holds at each step (`ShapeOK`) |
| `StableLinksBlockDeletes` | a delete removes nothing that was referred to throughout | `LinkInv` adds where a tracked link must show up: in the keys not listed, not fetched, or found (`LinksTracked`) |
| `RegistryImplementsRefStore` | refinement | `RefInv` adds that what a handler will write was checked against records that were stored (`RefsChecked`) |
| `CacheTypeCorrect`, `ServedFreshEnough`, `RepliesAreLogged` | types, freshness, log | `CacheInv` follows a body from the converter through the record to the answer |
| `CacheImplementsPullService` | refinement | the same invariant: a record is a conversion of its own signature's request |
| `NothingDanglesSerially` | handlers that did not overlap leave no dangling reference | `SerialInv`: at most one handler is in flight, nothing dangles, and what that handler has checked is still stored when it writes |
| `QuietResolvesAreAtomic`, `AnswersWereLive`, `StandingChainsResolve` | what a resolution returns | the invariant relates the history (on or off all through) to the store and to what was read so far |
| `LockTypeCorrect`, `OneVersionPerRequest`, `OnlyMainWrites` | one version per request; no reload by a request of the native server is ever carried out | `LockInv`: a request that wants to write still counts its own guard, so the lock is never free for it; `BuildInv` and `WorkerLoads` for the worker |
| `NoRequestBeforePreferences` | no request of the worker sees the defaults | the flag is set after the load, and a request that found it set cannot find the defaults |
| `CachedRulesetsAreInTime` | nothing taken from the cache is older than its timeout and what the clock was set back by | `StampsHonest`: a stamp is no later than the moment it was made in; `RefreshesOK` says which urls a refresh looks up |
| `ConvertTypeCorrect`, `ProxyNamesUnique` | typed lists; proxies have names of their own | `ConvertInv` adds that every proxy's name is noted; `FreshRemark` shows by the pigeonhole principle that the numbering ends with a name that is not in the list |
| `SourcesKeepTheirOrder` | the merged list has every kept node, in the order of the urls, with its group | `CollectedSoFar`: a list is what the sources from one url to another yield; `IncreasingOnto` (a sequence of a set's elements in order leaves none out) and `Joined` (rows of a concatenation) are the lemmas |
| `EmojisFollowRules` | whatever rules are configured, a node has the emoji of the first one that is about it, as `AsEmojiRule` reads it | `CompiledRange`: parsing a range once or on every use is the same for ranges with `!` in front only; `AsPattern` turns any other range into such a one that is parsed to the same ids |
| `GroupsComplete` | all groups are there, once, and usable | `GroupsSoFar` states it for the groups added so far; `MergedGroup` is the step |
| `NothingUnderReported` | the user info adds up what the sources say, or says it cannot | `SaturatingSum`: adding up to a maximum in any grouping is the sum of all, cut at the maximum |
| `RefreshKeepsItsPromise` | refinement of `RulesetService` | `AnswersInv` says what each refresh has collected, is loading and has left; `ListOrder` shows that two lists picked from one in its order, of the same members, are equal, so the answer is the one promised |
| `RepublishTypeCorrect` | whatever is read, in a chain of any length, is a list of nodes with a type, a flag and a port of 16 bits | one lemma per parser (`OneNode`), and one per step of a generator that the text stays a text; see below |
| `LinksArriveWhole` | a list of links is read back node by node, and a link that breaks costs no other its node | each node's link is read alone: one that does not break tells its node (`SsTold`, `VmessTold`, `TrojanTold`, together `NodeTold`), any other yields at most one node (`LinkRead`); then all of them (`FlatRead`, `FlatPaired`) |
| `ClashArrivesWhole` | so is a Clash configuration, where an entry is legible | what each item adds to the keys and values of an entry (`Keeps`, `Adds`), one lemma per type (`ShadowsocksEntry`, ... `AnyTLSEntry`), then as for links |
| `ServersStayDirect` | in Clash and sing-box every server that has a rule has it before any ruleset's | `DirectKeys`: the rule of a server is of a kind the client has, but for IPv6 in sing-box; `ServersWritten` and `ServersSpared`: while there is room each server's list adds its rule or none behind the others (`OneMore`, `NoMore`), so what is in front of a server's rule is other servers' (`ServersFirst`), and every later list only appends (`Longer`) |

Assumptions on constants are named where the constants are declared.  Those of
`Convert` say nothing of emoji rules but that they have the form of a rule (`IsRule`:
any prefix, any range, `!` anywhere), and take the base configuration to have groups of
different names.

`ResolveAssumption` takes the ids of aliases, profiles, templates and sources to be
four disjoint sets: an id stands for its KV key, and the keys of each kind have a
prefix of their own (`kvRepository.ts`).

`RequestAssumption`, `TextAssumption`, `BaseAssumption` and `GroupsAssumption` of the
format modules say that what a request is made of has its form: lists are lists, flags
are unset, true or false, default ports are ports.  `TypesAssumption` says of the rule
types of `RuleConvert` that a text begins with itself, `StartsWith` being defined on
texts the provers do not look into.  TLC evaluates all of them.

The proofs about formats need no induction over data, which the prover does not have.
A list that is built in a loop is a recursive function here, and the first index at
which it would not be a list does not exist (`Least`, `Climb`); the lists that are
concatenated piece by piece are related piece by piece (`FlatChain`).

Trying to prove `LinksReadBack` and `ClashReadBack` changed the model in some places.
In `SingleLink` and `QuanXVmess` two arms of a CASE could hold at once, which leaves the
value open: the arms are disjoint now, in the order of the code's `match`.  And
`ClashReadBack` asked less than is true: it now says which entries are read, instead of
asking for those that have every field.
`DirectFirst` named only the base's rules and the servers' own keys by their text, and
the server's rule itself was any rule for it; it now says which rule that is
(`DirectKey`).  The rulesets are read by recursive functions and `Those` where the
model had folds and `SelectSeq`, with the same results.

Only model-checked:

- `Relays`, `VerificationKept`, `NamesApart`, `GroupsTold`: they rest on
  what two strings joined or a number written out look like, and the provers know
  nothing of a string but that it is one;
- `RulesInOrder`: which texts of rules are the same once they are cut and trimmed;
- `PullsAnswered`, `AnsweredWithoutReload`, `RefreshEnds`: temporal reasoning under
  fairness has no backend.

## 5. Not modelled

- Settings formats and imports, templates: transformations of text without state.
- The part of `sub_process` that combines request, external configuration and settings:
  its results are the requests of `Convert` and `Republish`.
- Admin authentication and the pull log listing, see 7.
- HTTP, gist upload, KV itself: external; their outcomes are choices.
- Admin UI: presentation.
- Of the conversion: `remove_emoji` and rename rules are one function on names;
  managed headers, uploads and the other counters of a sub info, which are added
  like the one that is kept.
- Of the parsers: what no dispatch reaches.  `explode` answers `ssr://`
  and `vmess+` links with false, knows no `trojan-go`, and tries `explode_shadowrocket`
  after a parser that takes its links; an SSTap file is looked for where no JSON
  document can be (`explodes/common.rs:186-216`).
- Of the generators: options of a node that neither identify nor protect it (paths,
  fingerprints, udp, fast open, speeds), wording, comments, `ruleset_to_clash.rs`, a
  deprecated placeholder without a caller.
- Eventual consistency of KV between locations.
- Of a pull: the 404s for a path that is no alias, or a reserved one
  (`subscriptionRender.ts:551-558`).  They are answered before anything is read or logged,
  so `ReplyLogged` is about pulls of well-formed aliases.

## 6. Findings

- `settings_reload`: `refresh_configuration` releases "the lock before potential long
  operation" (`settings_struct.rs:508`), but only the guard it took itself: with
  `reload_conf_on_request` its caller holds another one over the load, and the write
  that follows waits for it on the same thread.
- `rulesets_order`: the native `refresh_rulesets` puts inline rules before all fetched
  ones, although it is the parallel version of the wasm one, which keeps the order.
- `convert_groups`: groups list the remarks of nodes, not the names of proxies.  A
  node `x=y` becomes the proxy `x-y`, and its groups list `x=y`.  The same happens to
  the second of two equal names, to every name under `append_proxy_type`, and to nodes
  that are not put out at all.
- `formats_lines`: a line set "under {NONAME}" is passed as the key, so it is written
  with the `=` of an empty value behind it (`ini_reader.rs:700` says otherwise).  Each
  proxy and group line of Surge, Loon, Quantumult, Quantumult X and Mellow ends in one.
  The last item of such a line may be a password, a tag or a flag; the parsers of the
  program strip some of it, and `Relays` and `VerificationKept` are stated around it.

Observed, and left without a property because no document says otherwise.  In the
conversion:

- a rule means one thing for a group and another for an emoji in two cases, which
  `EmojiByRule` names (`AsEmojiRule`): `!!INSERT=`, documented as "Like GROUPID but negates
  direction" (`utils/matcher.rs:53`), is compiled to the same matcher as `!!GROUPID=`
  (acknowledged in a test, `:1051`), so the emoji of `!!INSERT=1`, the first insert url,
  goes to the second main url; and a `!` behind the first part of a range negates it for a
  group, while `parse_range_string` (`:366-401`) looks for it in front only: a number with a
  `!` is no number then, and a range begins at the lowest one;
- `append_info_n` counts sources that were fetched, not leading urls; the second insert
  url has the group id of the first main url; a `GROUPID` rule to include or exclude
  sees group 0 for every node.

In rules and groups:

- a `quanx:` ruleset without a payload panics: `convert_ruleset.rs:131` unwraps a regex
  with a look-ahead, which the `regex` crate refuses, while `pref.example.ini:188`
  documents the type;
- `prepend_proxy_direct_ruleset` makes an inline ruleset without the `[]` that
  `ruleset_to_surge` cuts off, so Surge is given `MAIN,host,DIRECT`;
- from version 3 on Surge silently drops url lists of the types `clash-*` and `quanx`,
  because `ext.managed_config_prefix` is never set (only the prefix of the
  configuration is, `api/sub.rs:444`);
- types are tested as prefixes, so `DOMAIN-REGEX` passes as `DOMAIN`; the final rule is
  dropped once `max_allowed_rules` is reached; Clash with `script=true` gets no rules
  (`proxy_to_clash.rs:122`); without it `expand` is ignored; Clash puts the ruleset's
  group behind an inline logical rule that already has one;
- sing-box puts a whole list into one rule object, so that rules of different types
  must all match; it has no `IP-CIDR6` (`ruleset_to_sing_box.rs:175`), so with
  `prepend_proxy_direct_ruleset` a server that is an IPv6 address gets a rule in Clash
  (`subconverter.rs:1295`) and none there, and its traffic may go through a node;
- Surge and Loon groups list names from before the numbering, like Clash's
  (`convert_groups`); a Surge group of type `ssid` without members indexes an empty list;
- a node named like a built-in policy is not renamed (`singbox.rs:192`).

In the formats:

- a `break` ends Surfboard's loop at the first HTTPS node (`surge.rs:336`), and node
  lists of Quantumult and Quantumult X are blank (`quan.rs:61`, `quanx.rs:68`);
- links are written without an escape (`single.rs:120-125`, `:180-185`, `:220-226`).  An
  IPv6 server has no brackets: the Trojan link is no url any more and is lost; the
  Shadowsocks link is split at every `:` (`ss.rs:71-79`), so it is lost, or, if the second
  group of the address is decimal digits, goes to server `2001`, port 443.  A Trojan
  password is cut at a `:`, and at `/`, `?` or `#` the link ends its authority: the node is
  lost, or, if an `@` stands before, goes to what the password has behind it;
- VMess entries of Clash lose `tls` and `servername`; what a url escapes in a Trojan
  password stays escaped; SIP008, sing-box, Mellow and Quantumult X texts are not read
  back.

## 7. Plan

Done, in this order: Registry and RefStore, SubCache and PullService, AliasResolve,
SettingsLock, RulesetRefresh and RulesetService, Convert; then the formats with Relay
and Republish, the worker build of SettingsLock, and the theorems about serial
handlers, alias resolution, cached rulesets and the worker's preferences.

Left, by importance:

1. `SubRequest`: `sub_process` (`api/sub.rs:318`), where each option comes from the
   query, then the external configuration, then the settings, as the source of
   `Convert`'s and `Republish`'s requests.
2. `SettingsImport`: preferences that import each other, and what a load that fails
   half-way leaves behind.
3. `AdminAuth`: the certificate cache (a rotated key is trusted, or unknown, until its
   five minutes are over); `PullLogs`: pagination over the log.
4. The emoji, rename and filter steps of `Convert` in front of `Republish`, so that a
   chain has them too.
5. Proofs: the order and the limit of `RulesInOrder`; `NamesApart` from an assumption
   that different numbers are written differently.
