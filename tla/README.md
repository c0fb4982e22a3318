# A TLA+ model of dnsweaver

dnsweaver watches container platforms and configuration files for host names and keeps
DNS records for them at one or more DNS providers.  This directory holds TLA+ modules
that model its core, TLC configurations that check them on small instances, and proofs
that TLAPS checks for every instance.

`PROJECT.json` is the machine-readable index: components, runs, the source lines behind
every definition (`map`), hazards, findings and theorems.  Paths below are relative to the
root of the repository (`src/` in `PROJECT.json`).

## 1. Inventory

| Part | State | Operations | Model |
|---|---|---|---|
| **Reconciler** `internal/reconciler` | `knownHostnames`, `hostnameProviders`, `recoveredMetadata`; per cycle the record cache, the discovered names, the new mapping; atomics `enabled`, `dryRun` | `New`, `RecoverOwnership`, `Reconcile` (list, discover, cache, ensure, clean up, commit), `SetDryRun`, `SetEnabled`, `ReconcileHostname`, `RemoveHostname` | `Reconciler`; listing and discovery in detail in `Discovery` |
| **Provider instance** `pkg/provider/instance.go`, `mode.go` | configuration, dynamic target | create, update (native, or delete and create), delete, ownership record create/delete/recover | `Reconciler` |
| **Provider registry and manager** `pkg/provider` | instances in order, pending providers with their backoff | create, remove, match; initialise, retry loop, recovery callback | `ProviderManager`, `Service`; matching in `Reconciler`, `Hostnames` |
| **Health server** `internal/health` | checkers, shutdown state | `/ready` | `Service` |
| **Trigger guard and `run`** `cmd/dnsweaver/main.go` | `reconcileMu`, `reconcilePending`, `reconcileWg`, the context | `triggerReconcile`, ticker, start order, shutdown order | `TriggerGuard`, `Service` |
| **Watchers** `internal/watcher` (Docker), `internal/kubernetes`, `internal/incus` | connection, debounce timer | start, event, reconnect, timer callback, stop | `TriggerGuard` |
| **Platform clients** `internal/docker`, `kubernetes`, `proxmox`, `incus` | connection mode, informer caches, detected custom resources | connect with retry, list workloads, resolve a guest's address | `Platforms`, `Discovery` |
| **Sources** `pkg/source`, `sources/`, **matcher** `internal/matcher` | none between cycles | extract names and hints from labels, annotations, tags and files; validate; match patterns | `Sources`, `Hostnames`, `Discovery` |
| **File watcher** `pkg/source/watcher.go` | what was seen last | poll, compare, callback | `TriggerGuard` |
| **Dynamic targets** `internal/target` | last good address | resolve through endpoints, set the target, trigger | `Service`, `TriggerGuard` (when they trigger), `Reconciler` (the effect in a cycle) |
| **Providers** `providers/` | zone ids, sessions | list, create, update, delete against an API, a file or a firewall | one module each, composed by `Providers`; contract `RecordStore` |
| **RFC 2136** `providers/rfc2136`, `pkg/dnsupdate` | host name catalog | list, create, update, delete; load, add and remove of the catalog | `Catalog` |
| Configuration, HTTP client, SSH, metrics, test helpers, record comparison | | | not modelled, section 7 |

### How the parts interact

    watcher event -> debounce timer -+
    poller (files, targets) ---------+-> triggerReconcile -> Reconcile -> provider calls
    periodic ticker -----------------+        (guard)          |   ^           |
    start-up ------------------------+                         v   |           v
                                              process memory: known, route   DNS backends

The backends are the only durable state.  The program keeps no database: what it remembers
across a restart are *ownership markers*, TXT records named after a host name that carry
the instance id of the copy (`DNSWEAVER_INSTANCE_ID`) and, optionally, metadata of hints.
Several copies may share a backend, told apart by their instance ids.

### What is hard

- **Interleaving and stale state.**  A cycle takes a snapshot of every backend (the record
  cache) and decides on it, call by call, while operators and other copies write.
- **Partial failure.**  Data record and marker are two calls.  An update is two calls at
  providers without a native update.  A failed call may have taken effect.
- **Crash and restart** between any two calls; only markers bring back what was owned.
- **Forgetting.**  The end of a cycle replaces what the process knows, whatever became of
  the deletions.
- **Triggers.**  Watcher callbacks run in goroutines of their own, race for a `TryLock`,
  and leave a flag behind when they lose.  Connections drop events.
- **Shutdown** races with timers that have already fired.
- **Providers that are not there yet.**  A provider that fails at start is retried while
  everything else runs; ownership recovery, target refreshers and the order of declaration
  were settled without it.
- **Calls made of requests.**  Find an id, then delete it; read a set, then write it back; store a
  change, then apply it: other clients act in between, and each request may fail with or
  without effect.
- **Listing is not a snapshot.**  Platforms are asked one after another, a guest's address
  after the guest; an error of one of them can look like a disappeared name.

### What makes it correct

Deletion must be safe (never what is not ours, never in a dry run, never a large part of
everything), creation must be live (every wanted record is there in the end, whatever
failed), the two must not fight each other (cycles stop writing when nothing changes),
and cleanup must be complete (nothing is left over).  Triggers must never start two cycles
at once, never lose a change for good, and never block the shutdown.  Discovery must not take
a failed call for a missing name, nor report what nobody declares.  A provider call must touch
only what it was asked to touch and mean what it returns.  A provider that comes late must
still come, and `/ready` must not promise what has not been reached.

## 2. Modules

| Module | What it is |
|---|---|
| `Reconciler.tla` | one or more copies of the program reconciling against shared backends |
| `MCReconciler.tla` | small configurations of it for TLC |
| `ReconcilerProofs.tla` | type correctness, the loop invariant, ownership safety, genuine markers, purges of discovered names only, the circuit breaker, routing of writes, markers of other copies, dry run |
| `TriggerGuard.tla` | what starts cycles, the guard around them, start and shutdown of the process |
| `MCTriggerGuard.tla` | one watcher, one poller, up to two timer callbacks |
| `TriggerGuardProofs.tla` | types, mutual exclusion of cycles and the in-flight counter, what may run behind the shutdown |
| `RecordStore.tla` | abstract: what a DNS provider promises to the reconciler |
| `ProviderCall.tla` | what the provider modules share: rows of a backend, one call, outcomes of a request |
| `Cloudflare`, `OVH`, `Technitium`, `Webhook`, `PowerDNS`, `AdGuard`, `Pihole`, `Dnsmasq`, `PfSense`, `OPNsense` | the calls of one provider, request by request |
| `Providers.tla`, `MCProviders.tla` | their composition, and the refinement mapping to `RecordStore` |
| `ProvidersProofs.tla` | the refinement for every kind of provider, numbering of rows, operator overrides, applied changes |
| `Catalog.tla`, `MCCatalog.tla` | the RFC 2136 provider on its chunked host name catalog |
| `CatalogProofs.tla` | types and chunk limits, no stored name is dropped |
| `ProviderManager.tla` | registry, pending providers, retry loop |
| `Service.tla`, `MCService.tla` | the process around it: start order, refreshers, `/ready`, shutdown |
| `ServiceProofs.tla` | types, no provider is lost, order of the registry, honesty of `/ready` |
| `Hostnames.tla` | host names, validation, domain patterns, metadata filters |
| `Sources.tla` | what each source extracts from one workload or file |
| `Platforms.tla` | how objects of a platform become workloads |
| `Discovery.tla`, `MCDiscovery.tla` | connecting, and the first half of a cycle lister by lister, while objects change |
| `SourcesProofs.tla` | what the operators of the three modules above compute: selections and concatenations, extraction in every order of iteration, addresses, merging |
| `DiscoveryProofs.tla` | types, no name is lost, none is invented, addresses belong to their guest |

Definitions introduced by a comment that begins with "Fault:" are not part of a
specification.  Each is a plausible slip in the definition it stands next to; put in its place,
it makes TLC refute the property it belongs to, which shows that the property says something
about that code.

### Reconciler

The step is the provider call: between two calls anything may happen, within a call and the
code up to the next one nothing that the model distinguishes.  `pc[i]` says where copy `i` is:

| `pc` | code | actions |
|---|---|---|
| `down`, `recover` | `New`; `RecoverOwnership` | `Start`, `RecoverOwnership` |
| `idle` | between cycles; `Reconcile` up to discovery | `Begin` |
| `cache` | `newRecordCache`, one `List` per provider | `FillCache`, `CacheFilled` |
| `ensure` | the loop over discovered names, `ensureRecord` | `NextHost`, `Ensure` |
| `query`, `stale`, `update`, `create`, `recreate`, `own` | `ensureRecordForProvider` at each of its calls | `Query`, `DeleteStale`, `Update`, `DeleteForUpdate`, `Create`, `CreateOwnership` |
| `orphan` | `cleanupOrphans`, then the end of `Reconcile` | `BeginCleanup`, `NextOrphan`, `Orphan`, `Commit` |
| `list`, `delete`, `disown` | the four `delete...ForProvider` functions at each of their calls | `ListOrphan`, `DeleteOrphan`, `DeleteOwnership` |

`job[i]` holds the locals of `ensureRecordForProvider`, `purge[i]` those of the delete
functions, including the dry-run flag where a function reads it only once.  The environment
may crash a copy, change what its workloads ask for, edit records by hand, move a dynamic
target and flip the run-time switches at any time, each within a bound.  A crash loses everything in
memory; the new process resolves dynamic targets before its first cycle, and an instance for which
that fails goes on with the configured target (`Crash`).

Backends are external and follow the contract of `pkg/provider/provider.go`: a failed call
may or may not have taken effect (`Faults`), a name with a CNAME has nothing else, `Create` of
an existing record answers with a conflict or with success, and `Delete` removes either
exactly the record asked for or whichever record of that name and type it finds (`exact`:
the providers differ).  `native`, `txt` and `caps` are the capabilities of a provider.

What is abstracted: a record is name, type, target and SRV data, without its TTL; a
marker is name, instance id and metadata (the text of the
TXT value is left out); a domain pattern is the set of names it takes, a metadata filter the
set of labels it takes; `label`, `lower` and `file` of a hint stand for what the code tells
apart (filtered metadata, mixed case in a name, a file as origin).  SRV records in the runs carry SRV data: a listed SRV record
without data would make the log call of `actions.go:263` end the process.  A lister error ends
a cycle before it changes anything and is therefore no step.  `SetDryRun` and `SetEnabled`
have no caller outside tests; they are modelled because they are exported.

The history variables `marked`, `seen` and `purged` record what once happened and are read
by no action.

### TriggerGuard

Each goroutine that can call `triggerReconcile` (main, ticker, pollers, fired timers) has a
place `at[t]` at every synchronising statement: `TryLock`, the store to `reconcilePending`,
`reconcileWg.Add`, the cycle, the compare-and-swap, `Done`, `Unlock`.  A cycle is two steps,
listing and writing.  A source has a `version`; `covered` is the version the latest listing
saw.  An event watcher gets one event per change while its connection is up, arms its timer
and fires into a goroutine of its own; a poller compares versions and triggers from its own
goroutine.  `stage` follows `run` from the start of the sources through the signal, `Stop` of
every source, cancelling the context, joining the ticker, waiting for cycles in flight, to exit.

The file watcher compares sets of names and so notices only changes of names; `version` of a
poller counts the changes that it notices.  Other changes reach a cycle through the ticker.

### Providers

A behaviour is about one provider `kind`, chosen in `Init`.  `call` is the call of the reconciler in
progress, `pc` the request it makes next, `found` what it has looked up so far.  A request ends
well, or with an error with or without its effect (`Write`).  Between requests other clients of
the backend change rows (`Outside`), and the names of the variables that only one provider
needs say which: `once` (the zone id or time delta kept by a `sync.Once`), `session` (Pi-hole
v6), `tries` (webhook), `served` (what a DNS server answers after a reload or apply).

`RecordStore` states the contract without requests: a call changes only its own record set, `ok`
means that what was asked for held at some moment of the call, a listing omits nothing that
was there throughout and holds nothing that never was.  Changes by other clients are counted
(`outside`): a step of the call itself leaves the count alone and must stay within its record
set, so it cannot pass for one of theirs.  Four parameters (`wide`, `precise`,
`exact`, `torn`) say in which way a kind is weaker; the refinement mapping in `Providers` sets
them per kind, so the table of these values is itself a statement about the providers.
`Implements` is that every kind's specification implements the contract.

Outside the run's instance, because the contract fails there (section 4): other clients of
pfSense and dnsmasq during a call, OVH at the zone's own name, texts that are prefixes of
each other in dnsmasq, Pi-hole v6 lines shared by several names, Pi-hole v5 replies that are
no JSON, more records of a type than a Cloudflare page holds.  Each is a constant
(`Interference`, `Apex`, `Prefixes`, `SharedLines`, `OddReplies`, `PageSize`).

### Catalog

A zone that cannot be enumerated is listed through TXT records with names, the chunks.  `chunks`,
`hostnames`, `loaded` are the struct; `txt` is the zone.  Every access is a step and may fail
with or without effect, with a rollback in memory only, and the process may restart.  The
reconciler is reduced to what it does with a listing: create, update, delete.  Host
names count as one unit of `ChunkSize`, which stands for both limits of `canFitInChunk`.

`Answer` is what `Client.Query` makes of a reply.  Over UDP without EDNS0, the default, a reply has
512 bytes; a record that does not fit is left out, and the truncation flag that says so is not looked
at.  `ReplySize` is that limit in the unit of `ChunkSize`.  The premise `WholeReplies`
(`ChunkSize <= ReplySize`) is met with `USE_TCP`, or while every chunk happens to stay below 512 bytes.

### ProviderManager and Service

A retry of a pending provider is `CreateInstance`, ping, and `Remove` or the recovery callback: steps
between which cycles, `/ready` and the shutdown run.  Time is counted in ticks of the retry
loop; `wait[p]` is the time left to `NextRetryAt`.  `Service` adds `run`: providers one by one,
then `RecoverOwnership`, target refreshers and checkers in one step (`Prepare`: nothing else
runs yet), serving, stopping.  A request to `/ready` reads the shutdown state and the set of checkers,
then runs checker after checker, then asks for pending providers, each at its own time.

### Discovery

`world[i]` is object `i` as its API shows it, `informer[i]` the informer's lagging copy.  The process
connects to Docker (with the deadline of `connectWithRetry`), detects custom resources, and
then, cycle after cycle, lists platform after platform, asks each guest for its address,
extracts, reads the Traefik files, and publishes the names.  Labels are keyed by what the
parsers tell apart; where Go iterates over a map an operator returns the set of all
sequences that can come out.  `throughout` and `during` are history: what was declared all
through a cycle, and every state an object had in it.

A guest is asked for its address at the node and under the type it was listed with, an instance is
listed project by project.  An object that changes its place (`Place`) during a cycle can be missed
by it without any call failing: `Moved` holds the items to which that can happen.  Each custom resource
is detected by a request of its own that may fail (`StartWatcher`), and a Traefik file that is there
may be unreadable as well as unparsable (`ParseConfigFile`).  The states of guests and instances that
are listed are part of the configuration (`ProxmoxCfg`, `IncusCfg`).

## 3. Runs that pass

| Run | Instance | Shows |
|---|---|---|
| `Hints` | 1 copy, 2 backends (one with native update, one addressed by name only), 1 name, 5 kinds of hints; 1 failure, 1 crash, 1 edit, 1 switch, 2 workload changes | `TypeOK`; `WritesAreRouted`: a copy writes a name only to the instance the hint names or to one whose domain and filter take it |
| `Breaker` | 1 copy, 4 names that come and go, 7 workload changes | `LoopInv`; `CleanupIsBounded`: cleanup works on disappeared names only and never on more than half of what was known, unless it is one name |
| `Fleet` | 2 copies with ids of their own, managed and authoritative, on one backend; 1 failure, 1 crash, 3 workload changes | `ManagedPurgesOnlyMarked`, `OwnershipInv`, `PurgesOnlyDiscovered`, `ForeignMarkersKept` |
| `Converge` | 1 copy, 3 instances on 2 backends, two of which write the same name and type with different targets; 1 failure, crash, edit, workload change, target change | `Converges`: wanted records are there in the end and stay; `Quiesces`: writing stops |
| `Orphans` | 1 copy, 2 names, 3 workload changes, 1 target change, no failure | `OrphansGone`, `MarkersReleased` |
| `DryRun` | 1 dry-run copy with an instance for each of the managed, authoritative and target-matching ways of deleting, started on records and markers it wrote before; 1 failure, 1 crash | `DryRunWritesNothing` |
| `Triggers` | 1 watcher, 1 poller, 1 callback goroutine, 1 change per source, 1 stream error, 1 listing error | `TypeOK`, `OneReconciliation`; `OnlyStraysLate`: past the join of the ticker only a callback or poller that `Stop` did not reach can be in a cycle; `ChangesCovered`: every change is seen by a cycle unless the process stops; `ShutdownCompletes` |
| `Providers` | 12 kinds, 2 names, 4 record types, 2 values, at most 3 rows, 2 changes by others, 1 webhook retry | `TypeOK`; `Implements`: each kind keeps the contract `RecordStore`; `OperatorRowsKept`: firewall overrides without dnsweaver's description stay; `AppliedWhenOk`: what a firewall provider reports created is served |
| `Catalog` | 3 names, 2 values, chunks of 2 names that fit a reply, 1 failure or crash, 3 changes | `TypeOK`; `NamesStored`: no rewrite of a chunk drops another name; `WantedListed`: listings finally show what is wanted |
| `Service` | 2 providers, 1 dynamic, 2 outages, 1 change of address, 1 bad endpoint reply | `TypeOK`, `PendingOrReady`, `OrderKept`, `ReadyIsHonest`, `Recovers`, `TargetFollows`, `ShutdownEnds` |
| `Discovery` | 6 objects on 5 platforms in several shapes each, 3 kinds of Docker daemon, 1 change (a guest may migrate, an instance change its project), 2 failed calls, 3 failed connections | `TypeOK`; `NothingLost`: a name declared all through a cycle is found, unless its own call failed, its resource was missed at start or it moved in that cycle; `NothingInvented`, `AddressesAreLive`; `Settles`: the names are finally the declared ones |

### Bounds

`MaxFaults`, `MaxCrashes`, `MaxEdits`, `MaxWorkloadChanges`, `MaxRetargets` and `MaxToggles`
bound what the environment does; the program itself is not bounded and cycles go on for ever.
One failure or crash can hit any call of any cycle.  Two workload changes let a name appear and
disappear, three let it come back, or let two copies disagree about it.  Four names are the
smallest number at which the circuit breaker lets a set of more than one pass (two of four) and
stops another (three of four); seven changes let four appear and three go.  `Breaker` runs
without ownership tracking, since ownership does not enter its property.  Names are symmetric
in `Breaker`, callbacks in the guard's runs with two of them, and record values in `Providers`, whose
properties are all safety properties; no run with a liveness property uses symmetry.

In `Triggers`, one change per source is enough because every further one meets a guard in a
state that is already reached: an event watcher with its timer armed or not, a flag set or not.
The runs that need two triggers during one cycle (`PendingLost`, `LateCycle`) have two
callback goroutines and two changes.

`Providers` has three rows so that a call can meet its own record, another value of the same set and
a bystander; two changes by others let a record go and come back during a call.  `Catalog` has
chunks of two and three names, so that a second chunk opens, empties and leaves a gap.  In
`Service`, a backend that goes down and up twice meets every step of a retry; intervals 1 and 3 with
a factor of 2 make the cut at the maximum happen.  `Discovery` has one change and two failures at any
moment of any cycle: both custom resources can be missed at the start, and a failure can meet a
change.  With two changes the run takes longer than five minutes.  Its objects have every shape that selects a
different branch of a lister or a parser.

`CHECK_DEADLOCK FALSE` is used where the system may stop: `SetEnabled(FALSE)` leaves a copy
idle (`Hints`), and the process exits or fails to start (`Triggers`, `Service`, `Discovery`).

### Fairness

`Reconciler!FairSpec`: weak fairness of each copy's steps.  A cycle is sequential code whose
calls have timeouts, and the periodic timer (at least one second, enforced by the
configuration) starts another one for ever.  Failures, crashes and edits are not fair and
are bounded, so what is shown is recovery after the last of them.

`TriggerGuard!FairSpec`: weak fairness of every goroutine that can run, of timers and of
ticks.  Strong fairness only for the ticker goroutine seeing its cancelled context: Go's
`select` chooses at random between a tick and the cancelled context, so it does not prefer
the tick for ever.  Changes, errors and the signal are not fair.

`Service!Spec`: weak fairness of the main goroutine, of the retry loop's steps, its ticker and each
refresher; strong fairness of leaving the loop, for the same reason as above.
`Discovery!Spec`: weak fairness of the start, of the cycles (the periodic timer) and of informer
synchronisation.  `Catalog!Spec`: weak fairness of the provider's calls.  Backends, changes
and failures are never fair.  `Providers!Spec` has no fairness: its properties are safety.

## 4. Where the code disagrees with what is written about it

Each of these is a configuration whose property TLC refutes; the counterexample is a behaviour of
the code.  `EntryPoints` is a listed run; the others are run in the same way, with module
`MCReconciler`, `PendingLost` with `MCTriggerGuard`, `Truncated` with `MCCatalog`.  Where the
table says `Service`, it is `Service.cfg` with this INVARIANT in place of its own properties, and
module `MCService`.

| Configuration | Property | The code | What is written |
|---|---|---|---|
| `DryRunUntracked` | `DryRunWritesNothing` | `orphan.go:626`: `deleteCacheOnlyForProvider` deletes first and looks at the dry-run flag only after an error, so without ownership tracking a dry run deletes orphans | `reconciler.go:34`, `docs/faq.md:181` |
| `OrphanRetry` | `OrphansGone` | `reconciler.go:261`: the names of this cycle replace the known ones even when a deletion failed, so it is not tried again; managed mode also removes the marker | `docs/faq.md:159` |
| `Unmanaged` | `UnmanagedRecordsStay` | `actions.go:335`: a record of the same type with another target is updated, owned or not, adopting or not | `reconciler.go:46`, `docs/configuration/modes.md:21` |
| `FleetCleanup` | `CleanupSparesOtherCopies` | `orphan.go:396`: only the own marker is looked for; a record that another copy has marked too is deleted | `docs/configuration/multi-instance.md:138` |
| `PendingLost` | `PendingServed` | `main.go:476`: the pending flag is looked at once; a trigger during the catch-up pass stays pending | `main.go:431` |
| `EntryPoints` | `EntryPointsServed` | `reconciler.go:317`: the first extraction of a name is kept and the others dropped, whatever their entrypoint, so of two instances with one entrypoint each only one is offered the name | `docs/sources/swarm.md:199` |
| `Service` | `DeclaredOrder` | `registry.go:169`: a provider that recovers late is appended to the order | `registry.go:203` |
| `Service` | `AllRecovered` | `reconciler.go:543`: ownership is recovered once, from the providers that were ready | `main.go:422` |
| `Truncated` | `NamesStored` | `client.go:373-421`, `catalog.go:112`: a chunk that does not fit a reply (512 bytes over UDP; a chunk may have 3500) loads as absent, and the next `Add` overwrites chunk 0 with the new name alone | `catalog.go:51` (stops at NXDOMAIN), `catalog.go:22` (assumes EDNS0), `catalog.go:223` |
| `Truncated` with `ChunkSize = 1`, `MaxChanges = 2` and this PROPERTY | `ListsAllManaged` | `catalog.go:462`: an emptied chunk leaves a gap at which loading stops | `rfc2136/provider.go:135`, `catalog.go:474` |

`ChangesCovered` shows what softens `PendingLost`: the periodic timer makes up for it.  Nothing softens
`Truncated`: `Catalog.cfg` with `ReplySize = 1` refutes `WantedListed` too, since the names of such a chunk
are in no listing.

Further counterexamples, each reproduced by the configuration of that name (module
`MCReconciler`, `LateCycle` with `MCTriggerGuard`) or with the changes the table names:

| Configuration | Property | What happens |
|---|---|---|
| `OrphanRestart` | `OrphansGone` | a crash between `Create` and its marker (`actions.go:360`, `398`) leaves a record that no later life recovers (`main.go:423` describes recovery) |
| `BreakerForgets` | `OrphansGone` | the circuit breaker refuses a mass deletion (`orphan.go:36-53`), and the end of the cycle forgets the names (`reconciler.go:260-266`); `docs/faq.md:165` |
| `DualStack` | `Converges` | with an A and an AAAA instance for the same names on one backend, the record of one makes the other skip once the caches show it (`actions.go:216-233`; `docs/deployment/dual-stack.md:7`) |
| `OrphanRetry` with `Cfg <- AdditiveCfg`, `MaxRetargets = 1` | `AdditiveKeepsNames` | an update without native support deletes, and a failed create leaves the name without a record (`instance.go:272-300`; `docs/configuration/modes.md:82`) |
| `OrphanRetry` with `Cfg <- AuthoritativeCfg`, `InitialZone <- UsedZone`, `MaxFaults = 0` | `OrphansGone` | records that no life of the copy ever discovered are not cleaned up (`orphan.go:18-76`; `docs/configuration/modes.md:56`) |
| `MarkerMetadata` | `MarkersReleased` | a marker with metadata is not found again by the value without metadata that is asked to be deleted (`instance.go:417`) |
| `LateCycle` | `NoCycleAfterWait` | `Stop` does not reach a debounce callback that has already fired; its cycle may start after the wait (`main.go:460-466`, `667`, `696`) |
| `LateCycle`, with this INVARIANT | `InflightUncut` | the context is cancelled before the wait for the cycle in flight (`main.go:692`, `657-658`; `docs/configuration/environment.md:43`) |

Seen in the provider modules by setting the constant named, or by reading:

- OVH at the zone's own name (`Apex`): an empty subdomain is no filter (`ovh/client.go:240-252`), so a
  deletion or update hits the first record of that type of any name.
- pfSense (`Interference`): an override's id is its array index (`hostoverride.go:15`); after another
  client's change it names another override, the operator's included
  (`pfsense/provider.go:257-259`).  A create after a failed apply finds the record stored
  and returns without applying.
- dnsmasq (`Prefixes`): `strings.Contains` takes a longer line for the new one
  (`client.go:314`); with another writer of the file (`Interference`) an update is lost; a failed
  reload is only logged.
- Pi-hole: ownership TXT records are accepted and not stored (`pihole/provider.go:222`, `320-324`);
  a v6 line shared by several names is not found by a deletion, which reports success
  (`SharedLines`); a v5 reply that is no JSON counts as success (`OddReplies`).
- Cloudflare lists the first page only (`PageSize`); Cloudflare and OVH keep the first error of a
  `sync.Once` for the life of the process.
- OPNsense creates a second override for a record that is there, and deletes by provider id without
  looking at the owner; Technitium deletes the companion HTTPS record although other
  addresses of the name remain; the webhook client repeats requests that may have taken
  effect (`webhook/client.go:141-215`).
- RFC 2136: a failed `catalog.Add` is only logged, a failed query of a name leaves it out of the listing, a
  deletion takes the name out of the catalog although other records of it remain.
- `DynamicFollows` of `Service`: a provider with a target mode that was pending when the refreshers
  were built keeps its literal target (`target_refresh.go:34-38`).
- Sources: the dnsweaver source comes before the Kubernetes and Incus ones when it is listed, and the
  first report of a name wins, so an annotation's target or a guest's address is lost
  (`docs/sources/kubernetes.md:66`, `docs/sources/incus.md:158`); `caddy_0.<directive>` labels
  are read as host names (`caddy/parser.go:8-14`).
- Discovery, excepted by `Moved` in `NothingLost`: a Proxmox guest that migrates between the listing and the
  question for its address is asked for at its old node, gets an error and is skipped
  (`proxmox/adapter.go:99-109`, `client.go:201`, `218`), and so is one whose id is given to a guest of another
  type; an Incus instance that moves to another project between the requests for the two is listed in
  none.  For that cycle the names look like orphans.  The run `Discovery` has both moves, and without the
  exception TLC refutes `NothingLost`.  Excluded by the premise `LoopbackLocal`: a routable address on the interface `lo` is taken when a tag names that interface
  (`ResolveVMIP`), although the search without a tag passes it over.
- Configuration, not modelled: with a configuration file present, several environment variables
  (`SHUTDOWN_TIMEOUT`, `LOG_FILE`, `DOCKER_CONNECT_TIMEOUT`, `PROXMOX_*`, `INCUS_*`) are ignored
  (`loader.go:172-313`; `docs/configuration/environment.md:16` says that they win).

Accordingly `Orphans` has no failures, one kind of hint and few enough names that the breaker
matters only in passing: it shows the completeness of cleanup in the cases where the code
achieves it.

## 5. Proofs

`TypeCorrect == Spec => []TypeOK` and `LoopsOnCourse == Spec => []LoopInv`
(`ReconcilerProofs`).  The inductive invariant is `CourseInv`, the conjunction of both.  Neither
is inductive alone: that `job[i]` has a record of type `Job` depends on `host[i]` being a
discovered name when the ensure loop has providers left (otherwise `found[i][host[i]]` is
`NoSpec` and has no fields), and that depends in turn on the types.  There is one lemma
per action.  Actions that return from `ensureRecordForProvider` share `ReturnCourse`,
`ReturnMarkingCourse` and `EnsureStepCourse`; those of the delete functions share
`SetPurgeCourse` and `PurgeStepCourse`.

`OwnershipSafety == Spec => []ManagedPurgesOnlyMarked`.  The property speaks of deletions that
were made; the inductive invariant `OwnershipInv` follows ownership back from there: a managed
deletion under way was decided on a marker in the record cache, a marker in a cache was once on
the backend, a marker on a backend was once put there (`marked`), and `marked` only grows.  It
rests on `CourseInv` for the types.  It holds for any number of copies, instances,
backends and names, any configuration, and any failures, crashes and edits.

`MarkersAreGenuine == Spec => []OwnershipInv` states that invariant itself, without its use in
`OwnershipSafety`.

`OnlyDiscoveredPurged`: `PurgesOnlyDiscovered` holds if the instance ids of the copies differ
(`DistinctIds`, a premise: `docs/configuration/multi-instance.md` asks for it and nothing in
the code enforces it).  The invariant `SeenInv` relates three stages: what a copy knows, has
discovered in the running cycle it has once seen; a marker with its id on a backend stands for a
name it has seen; and what was purged was seen.  The premise is needed where
`RecoverOwnership` turns markers into known names: with equal ids they may be another copy's.

`BreakerHolds`: `CleanupIsBounded` holds if there are finitely many host names (its premise
`IsFiniteSet(Hosts)`; the property compares cardinalities).  The property is inductive on top of
`CourseInv`: cleanup begins only when `MassDeletion` is false, from then on what is left to do
only shrinks while the known names stay, and in the ensure loop what is left are discovered
names, which are never carried over into cleanup.

`GuardSafety == Spec => []OneReconciliation` (`TriggerGuardProofs`), for any number of
watchers, pollers and callbacks.  The invariant is strengthened by the domains of `at`
and `again`, the range of `mu` and by `inflight` being an integer.

`GuardTypes == Spec => []TypeOK` and `ShutdownSafety == Spec => []OnlyStraysLate` of the same
module.  `OnlyStraysLate` is not inductive: `ShutdownInv` adds that the main goroutine is
outside `triggerReconcile` from the moment it serves, that the context is cancelled only after
every source was stopped, and that the ticker goroutine, once gone, stays gone.  That the mutex
is then held by a callback or a poller follows with `OneReconciliation`.

`RoutedWrites == Spec => WritesAreRouted`, without a premise.  An action property follows from an
invariant about the state before the step: `RouteInv` says that the provider a copy is about to
write to is one that `ensureRecord` chose for the name as the *running* cycle discovered it, and that
it stays so while workloads, hints and targets change under the cycle.

`OthersMarkersKept`: `ForeignMarkersKept` under the premise that every provider that stores markers
compares values (`Cfg[p].txt => Cfg[p].exact`).  Without it the property is false, since a provider
that deletes by name and type may hit the marker of another copy.

`DryRunSafety`: `DryRunWritesNothing` under `DryConfig`: nobody throws a switch (`MaxToggles = 0`; nobody
in the program calls `SetDryRun`), and the instances of a dry-run copy are not cleaned up by
`deleteCacheOnlyForProvider`, which deletes before it looks at the flag (`DryRunUntracked`, section 4).
`DryInv` says that a dry-run copy never gets to a call of the ensure loop, and that a managed deletion
it is in has read the flag as set.

`ServiceTypes`, `NoProviderLost`, `OrderOfRegistry`, `ReadyHonesty` (`ServiceProofs`), for any list of
providers, any outages and any number of retries.  One invariant, `ServiceInv`, carries all four:
`ListInv` (the list of the registry holds every registered provider once), `QueueInv` (a pending
provider, and no other, has a backoff within its limits), `RetryInv` (which of registered, pending and
reached the provider under retry is, at each step of the retry loop), `StageInv` (a provider that `run`
has come to is registered or pending) and `OrderInv`.  `PendingOrReady` is not inductive without
`RetryInv`: the `Remove` after a failed ping must find the provider still pending, or it would be
lost.  `ReadyIsHonest` holds although `/ready` reads checkers and pending providers at different times,
because a request begins only after `run` has come to every provider, and one that is registered, not
pending and not under retry has been reached and stays so.

`CatalogTypes`, `NamesKept` (`CatalogProofs`), for any names, chunk size and reply size.  `CatalogTypes` has
no premise.  `NamesKept` assumes `WholeReplies`, without which `Truncated` (section 4) is a counterexample: the
code's default transport does not guarantee it.  `NamesStored` needs
`FreshInv`: while `Add` or `Remove` rewrites a chunk, the catalog in memory equals the zone chunk by
chunk, because both load first and no other process writes (after a failed write, when it no longer
does, the call is over).  That the sets are finite is part of the
invariant, since chunk limits are about cardinalities.

`ProviderTypes`, `OverridesKept`, `ServedWhenOk` and the refinement
`ProvidersImplement == Spec => Implements` (`ProvidersProofs`), for any set of kinds, types, values and
bounds.  The invariant `Inv` has a part common to all kinds (`RowInv`: the rows are such as the
kind stores; `IdInv`: numbers are unique, positions have no gap; `CallInv`; `HistoryInv`: what the
history of the call says of the zone now) and a part for each kind that keeps something between
its requests: the listing so far holds or still has to ask for all that was there throughout
(`CloudflareInv`, `OvhInv`, `PiholeInv`), the record set that is written back is the one that was
there (`PowerDNSInv`), the override at the position that was read is still the one of the name
(`PfSenseInv`), what was stored before an apply, refresh or reload has reached the goal of the call.
For each kind there is one lemma that a request stays within the scope of the contract and ends
honestly (`...Step`), and one that it keeps what is known of the call (`...Keeps`); `RequestImplements`
turns the former into a step of `RecordStore` (one that leaves `outside` alone, so a `Work` or `Return`),
`InvokeKeeps` and `OutsideKeeps` do the rest.

The first three theorems assume `FirewallAlone`: nobody else writes to a pfSense during a call,
since its overrides are addressed by their array index.  The refinement assumes `SoundConfig`.  Every
conjunct excludes a behaviour of the code that breaks the contract and is described in section 4: a
second writer of the dnsmasq file or of a pfSense, OVH at the zone's own name, odd replies and shared
lines of Pi-hole, prefixes in dnsmasq, more records of a type than Cloudflare's first page has.
The last conjunct, that A and AAAA are not both among the types, is about the model's values: a
value stands for one text, and pfSense looks an address up among those of both families, which
in reality never coincide.  The instance of the run `Providers` satisfies `SoundConfig`.

Trying to prove `ProvidersImplement` led to three corrections of the modules: `NewId` chooses among the
numbers up to `MaxRows`, where there is one; the decisions of `PfSense`, `Cloudflare` and
`Technitium` were `CASE`s with overlapping guards, whose meaning TLA+ leaves open although TLC takes the
first, and are now conditionals in the order of the code; and in `ProviderManager` the place that
`Registry.Remove` closes is an index (`Place`).

`DiscoveryTypes`, `NoNameInvented`, `TargetsAreLive` and `NoNameLost` (`DiscoveryProofs`), for any objects
and any platforms, any list of sources and of Incus projects, any changes and any failed calls.

`Inv` carries the first two.  It is the conjunction of `TypeOK`; `Shape`: what is empty at which
stage of a cycle and whose turn it is; `Watching`: the history of a cycle holds every object that can be
seen in it; and `Traced`: every workload comes from an object that its lister took in this cycle
(`FromListing`), or from a guest listed in one state and asked for its address in another, possibly
later, state of this cycle (`FromGuest`), and every name comes from such a workload or from a file that
parses.  `NothingInvented` speaks of the end of a cycle only and has no such trace.  `TargetsAreLive` adds
`Live`: the address of every name found so far is one that a guest of the cycle had.

`NoNameLost` needs `Safe`, which follows a name that is declared throughout the cycle from the beginning:
either a call for its item failed (`hit`), or its custom resource was missed at the start (`Blind`), or
the item was in two places in this cycle (`Moved`), or it is `Due`: its lister is still to be asked, its guest waits for its address, its file is still to be
read, or it is `Secured`, which means that it is among the names found or that a workload of the list
reports it *in every order* in which the sources may iterate over labels.  Since the property is about one
name and the steps are about workloads, most of the argument is that neither the mix of an old listing with a
new address nor the place of the name in a report matters: `AllSameNames` in `SourcesProofs` says that all
reports of a workload name the same hosts, and `MergeProps` that merging a report adds exactly its valid names.

Two premises: `StableIdentity` (a Kubernetes object that keeps a name keeps its kind, which is part of what
identifies it) and `LoopbackLocal` (the
addresses of `lo` are not routable).  Section 4 says what the code does without them.  TLC evaluates both for the
instance of the run (`PremisesHold`), where they hold.

What the sources extract is defined by selecting from sequences and concatenating them.  The library's induction
theorems cannot be used for them, since they take an operator as parameter; the proofs use induction in
the form that every non-empty set of naturals has a least element (`NatLeast`), applied to the set of the
lengths or prefixes at which the claim fails.  In this way `SourcesProofs` proves what `FlattenSeq`, `Chosen`, `Filter` and
`ExtractAll` return for every input.

Proving these theorems changed the modules in three places: `Merge` is stated by the index of the first valid
report of a name instead of a fold over the reports; the selections in `Sources` (`Dedup`, `FirstOfPair`,
`KeyedNames`) share one operator, `Chosen`; and the shapes of objects, which the instance of the run had
only by construction, are assumptions (`ObjectsAssumption`).

Assumptions: `ConfigAssumption` (the configuration has its type), `BoundAssumption`,
`NullAssumption` and `UnsetAssumption` (the null values are no ordinary values),
`NoJobAssumption`; `GuardAssumption` (goroutines and sources have different names) and
`GuardBounds`; `ManagerAssumption` (no provider is declared twice, intervals are positive and
ordered) and `ServiceAssumption`; `CatalogAssumption`; `BoundsAssumption`, `TypesAssumption` (the record
types of `pkg/provider`) and `NoCallAssumption` of the providers; `HostnamesAssumption`,
`SourcesAssumption` (the listed sources are ones that exist), `PlatformsAssumption`, `ObjectsAssumption` (labels, interfaces
and objects have the shape that the parsers read) and `DiscoveryAssumption` (finitely many objects, each in one of its
variants; the walk over the files visits each).  TLC evaluates all of them in the
runs.

Only model-checked: the liveness properties (`Converges`, `Quiesces`, `OrphansGone`,
`MarkersReleased`, `ChangesCovered`, `ShutdownCompletes`, `WantedListed`, `Recovers`,
`TargetFollows`, `ShutdownEnds`, `Settles`).  They rest on fairness, which is out of the prover's
reach.

## 6. Running it

    tlc -workers 2 -config Fleet.cfg MCReconciler
    tlc -workers 2 -config Triggers.cfg MCTriggerGuard
    tlc -workers 2 -config Providers.cfg MCProviders
    tlc -workers 2 -config Discovery.cfg MCDiscovery
    tlapm ReconcilerProofs.tla
    tlapm TriggerGuardProofs.tla
    tlapm ServiceProofs.tla
    tlapm CatalogProofs.tla
    tlapm ProvidersProofs.tla
    tlapm SourcesProofs.tla
    tlapm DiscoveryProofs.tla

Each proof module takes at most a few minutes.

## 7. Not modelled, and why

- `ReconcileHostname` and `RemoveHostname`, the record comparison, `Catalog.Compact` and `Clear`,
  `TriggerNow`: no caller outside tests.
- Configuration loading and validation: sequential, no state afterwards; nothing for a model
  checker to interleave.  What reading it against its docs showed is in section 4.
- The HTTP client (no state, no retry), SSH set-up and SFTP, TLS, request encoding and decoding,
  TSIG: I/O.  Their failures are in the steps that use them.
- Metrics, logging, the bookkeeping of `Result`, test helpers: no control depends on them.
- The text of ownership values, labels, rules and files: abstracted to what the code tells apart.
- TTLs and the `proxied` flag of records; registration of factories; closing of providers.
- A router that is null in a YAML file is a nil pointer, and reading its rule ends the process
  (`file_discovery.go:208-209`); the model's routers have a body.
- A listed SRV record without data makes the log call of `actions.go:263` end the process; the
  models have SRV records with data only.

## 8. Plan

Done, models: `Reconciler` and `TriggerGuard`; `ProviderManager` and `Service`; the providers
with their contract and its refinement; `Catalog`; sources, platforms and `Discovery`.

Left, models: the contract `RecordStore` in place of the external backend of `Reconciler`, with the parameters
of each kind; two processes on one catalog; the file watcher's sets of names; `ReconcileHostname`
and `RemoveHostname` concurrently with a cycle, should they get a caller.

Done, proofs: section 5; every safety property of the runs is a theorem.

Left, theorems: that `Reconciler` on top of `RecordStore` keeps its invariants, once it is modelled so; a smaller
`SoundConfig`, as the behaviours it excludes are repaired in the code.
