# Verification of k8s-gitops

TLA+ models of the programs in this repository that have state, concurrency
or failure handling of their own. Most of the repository is desired state,
read by Flux and Kubernetes operators; what it *computes* is in a few scripts
and modules: the node cache of the egress proxy, the image lock generator with
its archive builder and CI pipeline, the server-timing plugins with what
builds, bundles, distributes and benchmarks them, and the order in which Flux
is told to apply all of it. The models are of those. Paths below are relative
to `src/`.

## The system: inventory

| part | state it keeps | operations | hard behaviour | correct when |
|---|---|---|---|---|
| **proxy-engine node cache**: `update_sub.py` in `infra/controllers/general/base/egress/proxy-engine/sub-converter-script-config.yaml` (319-434), run as init container `fetch-nodes` by `deployment.yaml` | a shared RWX volume with `nodes-last-good.json`, `nodes.json` and a lock file; an emptyDir per Pod with `main.json`, `nodes.json` | `publish_config`, `load_last_good_if_exists`, `write_runtime_config`, `write_json`, `cache_lock`, `main` | several Pods start at once; kills between any two steps; NFS lock leases of dead clients; a 30 s lock timeout; an emptyDir that outlives containers; I/O errors | files are whole and agree; a start with subscriptions and a snapshot behind it succeeds; a fallback never undoes a peer's newer snapshot; the guard rules are for the Pod's own address |
| **proxy-engine configuration build**: the same script (36-317) | the list of nodes, the seen tags, the counters | `fetch_subscription_with_retry`, `build_nodes_config` | partial failures, name collisions, empty regions | tags unique, groups closed, the tags that `main.json` routes to exist and lead to nodes |
| **image lock generator**: `scripts/gen-image-lock.py` | the image map, `images.lock.nix`, a cache of archive hashes in `~/.cache`, temporary cache files, the commit | map images to sources, chains and targets; parse, resolve, prefetch, collect, compare, write, commit | 16 threads that share cache files; tags that move between runs; names that collide once written as file names; listings in any order; a failing job among running ones; kills between write and commit | the lock says the truth and does not depend on the order of listings; one cache file is one archive; a failed run leaves the lock alone |
| **archive builder**: `lib/mkMultiArchImageArchive.nix` | the working files of one build | inspect, copy with retries over sources and formats, repack | leftovers of failed attempts; counters reset between loops | the output is the image, whatever failed before; gives up only when all is tried |
| **image lock pipeline**: `.github/workflows/update-image-lock.yml` | the Actions cache, the run's branch and pull request, `main` | restore, generate, save, propose, merge | runs that overlap, are cancelled or run again; caches saved by failing runs | `main` never goes back to an older resolution; a green first attempt leaves nothing unmerged; the lock catches up although every run has failures |
| **benchmark harness**: `scripts/network/benchmark_server_timing.py` | `state.json`, `summary.json`, podman containers, a certificate | prepare, measure, report, stop; refuse or resume | a crash between starting a container and recording it; stages resumed in any order; edits and builds in between | samples are whole, paired and of one version; acceptance only of a complete, valid run |
| **Envoy plugin build**: `scripts/network/native/envoy/build.py` | three objects, the module, `build.json` | `--stage build` with progress, `--stage verify` | kills inside a command or a manifest write; edits between hashing and compiling; another compiler in the same directory | the manifest claims nothing the files do not hold; verification accepts only what was built from what it hashed, as far as it can tell |
| **nginx runtime bundle**: `scripts/network/native/nginx/prepare_runtime.py` | the output directory, `manifest-sources.json` | `--stage prepare`, `--stage verify` | resumed preparations, edited inputs, a list of files kept in step by hand | one directory is one set of inputs; what was verified is what was rendered from it |
| **Envoy plugin distribution**: the manifests generated by `scripts/network/native/envoy/prepare_runtime.py` | files on each node; the release of DaemonSet, templates and filter | install script; injection; mount | kills between its commands; three objects applied at three times; a release that does not match | only whole modules can be mounted; a filter finds its module; loaders and proxies get through |
| **server-timing plugins**: `scripts/network/native/envoy/{plugin.c,bridge.cc}`, `.../nginx/ngx_http_ccsn_server_timing_module.c` | fixed-size buffers and templates | init, fast and general formatting | lengths at their limits; missing times; retried upstreams | no buffer is exceeded; both ways of writing give the same field; the field is true |
| **Flux Kustomization graph**: `clusters/kubevirt-cluster-319/*.yaml` | status of 19 Kustomizations | reconcile, become ready, fail, retry | ordering and health checks spread over five files | no cycle, also through health checks; consumers after providers; from an empty cluster as well |
| **rollout of proxy-engine**: StatefulSet, PodDisruptionBudget, `restarter/cronjob.yaml` | Pods | rolling restart, eviction | starts that overlap with restarts | one replica stays in service |
| everything else: manifests, dashboards, alerts, VMs, `bootstrap/main.tf`, `scripts/validate.sh`, `query-proxy.js` | none of their own | | | not modelled |

How the parts interact: the configuration build is the first step of every
run of the node cache's script, and what it returns is what the cache
publishes. The CI pipeline runs the generator, which runs the archive builder
through Nix to learn a hash, and Nix runs the same builder again wherever the
lock is consumed, so the builder must be deterministic. The benchmark loads
the modules that the plugin build makes, the bundle carries them into the
manifests, and the loader installs them on the nodes. The rollout starts and
kills the node cache's init containers. Flux applies the manifests of all of
them, in the order that the graph declares.

## Modules

| module | models | checked by |
|---|---|---|
| `SnapshotStore` | what the node cache promises: an abstract register with starts, publications and service | refined by `NodesCache` |
| `NodesCache` | the script after the build, by every replica, on the shared volume | `MCProxyEngine` |
| `NodesCacheProofs` | its theorems | TLAPS |
| `NodesConfig` | the build: fetching, tags, groups | `MCNodesConfig`, `MCProxyEngine` |
| `NodesConfigProofs` | its theorems | TLAPS |
| `ImageArchive` | the archive builder | `MCGenerator` |
| `ImageLock` | the generator's jobs, cache, lock file and commit | `MCImageLock`, `MCGenerator` |
| `ImageMap` | the passes that say who brings and who runs each image | `MCGenerator` |
| `ImageNames` | what becomes of a reference: name, tag, sources, cache file | `MCGenerator` |
| `Generator` | the lock, the map, the names and the archive builder side by side | `MCGenerator` |
| `ImageLockProofs` | the theorems about the lock, the map, the names and the archive builder | TLAPS |
| `LockPipeline` | the workflow's runs, the shared cache, pull requests and `main` | `MCLockPipeline` |
| `LockPipelineProofs` | its theorems | TLAPS |
| `BenchmarkRun` | the benchmark's invocations on one output directory | `MCBenchmarkRun` |
| `BenchmarkRunProofs` | its theorems | TLAPS |
| `NativeBuild` | the build of the Envoy plugin | `MCNativePlugins` |
| `RuntimeBundle` | the nginx bundle | `MCNativePlugins`, `MCRuntimeBundle` |
| `EnvoyTiming`, `NginxTiming` | the fields the two plugins write | `MCNativePlugins` |
| `NativePlugins` | the four native parts side by side | `MCNativePlugins` |
| `NativePluginsProofs` | the theorems about the build, the bundle, the room for the fields and what they say | TLAPS |
| `PluginLoader` | the Envoy plugin on its way to the proxies | `MCPluginLoader` |
| `PluginLoaderProofs` | its theorem | TLAPS |
| `FluxGraph` | the Kustomizations and what they wait for | `MCFluxGraph` |
| `FluxGraphProofs` | its theorem | TLAPS |

Each module also holds a few operators marked *Mutant*: a definition changed
as a plausible bug would change it, with which the property named in
`PROJECT.json` must fail. No specification uses them.

### NodesCache and SnapshotStore

A configuration is abstracted to the number of the fetch it was built from,
`Absent` (0) for no file and `Torn` for a file of which a part is written. A
runtime `main.json` is abstracted to the Pod address in its guard rules.
Every label of `pc` is a point of the script:

| `pc` | the script is about to |
|---|---|
| `build` | return from, or raise in, `build_nodes_config` |
| `pubLock`, `fbLock` | take the lock in `publish_config`, `load_last_good_if_exists` |
| `lastGood`, `output` | write `nodes-last-good.json`, `nodes.json` (two steps: temporary file, `os.replace`) |
| `unlock`, `load` | leave the lock; read the last good file and leave the lock |
| `pubMain`, `pubNodes`, `fbMain`, `fbNodes` | write the Pod's two runtime files |
| `failed`, `noFallback`, `noUrls` | exit 1; the last at once, with empty `SUB_URLS` (36-38) |
| `running` | exit 0: sing-box runs |

The `except` branch of `main` is taken by any error of the first part,
including an error while publishing, a lock timeout and an error in writing
the runtime files; the fallback's own errors end the run. `Kill` is a kill of
the process (memory limit, node failure), after which the kernel releases the
lock at once or the NFS server only when the client's lease ends (`Dead`,
`LeaseExpires`). `Restart` is the kubelet starting a failed init container
again, or the sandbox again, with the emptyDir kept and possibly another
address; `Recreate` is a new Pod with a new emptyDir. The lock waits with
polling; its time-out is a step that may happen while another owner has it.
`urls` says whether the Secret names subscriptions, and `EditUrls` changes it at
any time; a run without them ends before it looks at the snapshot (`First`).

`SnapshotStore` has three actions, `Begin`, `Publish`, `Serve`, and no lock,
no files and no crashes. `NodesCache` implements it (`ImplementsStore`): the
register is `nodes-last-good.json`, and what a Pod serves is its runtime
`nodes.json` while it runs. The history variables `past`, `base`, `window`
are the same in both modules.

### NodesConfig

A subscription's answer is a sequence of entries: a node with a name, the
regions whose patterns match it and a rate class; an entry without server or
tag; or one that makes the loop raise. A name is a text and the suffixes it ends
in, and the tag of a node is the subscription with that name, so that a name
with a suffix can collide with an original one. The three loops are actions
that take one element each: an attempt of a subscription (`AttemptFails`,
`AttemptSucceeds`), an entry of its answer (`AddEntry`, `EntryRaises`), a region
(`AddRegion`); `StartGroups` and `Finish` are what comes before and after the
last one. `k` is the entry or the region. `ConfigIsUsable` joins what
sing-box requires of the list: unique tags, members that exist and occur once,
routes that resolve, and members in every group. It holds after every step, of
the list as far as it is built, with one exception that it states: `AllNodes` is
empty when every node is of a high rate. sing-box refuses such a group, so that
`RoutesHaveNodes` without the exception is a finding.
Left out: the patterns themselves, parsing of `NODE_SELECTIONS`, migrations,
the second, case-insensitive search of `resolve_tag`.

### ImageArchive

One action for each command of the builder's script: `Inspect`, `CopyFails`
and `CopySucceeds` (one attempt each, with what it leaves on disk), `Unpack`,
`Pack`. An image has one manifest format. That skopeo refuses to convert
under `--preserve-digests` is an assumption about skopeo. The generator runs
this build in `Prefetch` to learn a hash, where it appears as a hash or a
failure; that the hash depends on repository and digest alone, which
`ImageLock` takes for granted, is `OutputIsTheImage` here.

### ImageLock

A reference is what a manifest says (`nginx:1`, `nginx:1@sha256:..`,
`docker.io/library/nginx:1`). `RepoOf` is its canonical name and tag, which
with the digest names its cache file; `UidOf` is name and tag as written,
which keys `new_hashes`. Two references may share either: the lock of this
repository has three pairs that share a cache file
(`longhornio/longhorn-manager` with and without `docker.io/`, for example).
Every worker has its own program counter (`job`), and the temporary cache
file is modelled with who has it open, since threads of one process use one
name for one cache file: opening truncates, writing goes to the file that
was opened even when it has been moved since, and the second `replace` finds
nothing. `crane`'s four attempts are one outcome. `Truncate` and `WriteLock`
are the two halves of `write_text`. The map of images is the choice of
`images` in `Start`; how it comes about is `ImageMap`. `LockIsTrue` contains
`Committed`, which states exactly when the lock file may differ from the
commit: `Commit` has the run without `--auto-commit` (the default, and what the
workflow uses), the host without git and the commit that git refuses, and
`uncommitted` remembers them.

### ImageMap and ImageNames

`ImageMap` goes through the passes of `main` in their order: sources and
chains from the Kustomizations, targets from the rendered objects, the
annotated objects, the namespace filter, the images given by hand. The lists
of a section are sets, because `sort_and_deduplicate` makes one list of one
set; a chain is a sequence; a path is the sequence of its directories; no path
here that is above another one ends in a slash, with which the code would not
see it as a parent. flux-local's order of listing
is a choice, and `OrderIsIrrelevant` compares the map with that of every other
order. The parents of a Kustomization are those above it, each at the place that
the number of those before it gives, which is what a stable sort by the length of
the path makes.

`ImageNames` takes two references at once. A name is cut into parts at `/` and
parts into words at `_` (a port is a word), which is as much of the text as
the collisions of file names can tell apart. `OneFileOneArchive` says that two
references with one cache file have one archive; `NamesAreDockers` compares
the canonical name with Docker's rule for a registry.

### LockPipeline

The lock is one version for each image, counted by how often what the
registry and the manifests say has changed. `pc` is the step of a run:
`checkout`, `restore`, `generate`, `save`, `propose`, `merge`. The generator is
reduced to the images it resolves one by one, from the cache or from the
registry (`Resolve`), and to the two ways an image fails (`DigestFails`,
`BuildFails`); a run writes its lock only when nothing failed, and saves its
cache in either case. `Propose` is peter-evans/create-pull-request with a
branch named by the run's id; a run started again by hand has the id, the
inputs and so the branch of its first attempt. Merging is by image: a change
conflicts only with another change of the same image. These are assumptions
about GitHub, from how the workflow uses it.

### BenchmarkRun

`saved` is `state.json`, `mem` the dictionary of the running process, which
differs from it between two calls of `persist`. `pc` follows `main`:
`fixtures`, then `container` and `record` for each role, `endpoints` and
`probe` (`prepare`), `measure` and `load` (`measure`, `sample`), `report`,
`stop` (the `finally`). The containers outlive the processes: `podman` is
their state by name, and a name is the run's identity with the role, as in
the code. `conf` is which harness wrote the configuration file that a running
container has read, since a container that still runs is not restarted. A
sample is its key with the harness, the sources and the served configurations
at its time. What the numbers come to is a choice of the report, among the
outcomes that completeness and the configuration allow. The harness and the
sources are edited, and days pass, between invocations; builds begin and end
at any time; `require_idle` is asked before and under load. One path with one
connection count and TLS upstreams is measured.

### NativeBuild

The contents of a file are a version; an edit makes any other one, so that it may
bring an earlier version back. `Run`/`Ran` are the two ends of a command (the
file is torn between them, and what it read is decided when it ends),
`Save`/`Saved` and `Record`/`Recorded` those of `write_text` on `build.json`.
`Edit` may come at any point, also between hashing and compiling. `claim`,
`first` and `touched` are histories: what the last successful verification
vouched for, the first manifest of the directory, and the inputs edited since
the digests of a build still at its commands. An object is `steady` when neither
of its two inputs was among these. `ManifestIsTrue` joins three parts: types, a
manifest with four commands completed stands beside a whole module, and a
verified one has the digest of the module beside it. `IndependentVerify` speaks
of the steady units of an accepted module: the script hashes first and compiles
later, so a source that was changed in between and put back before the
verification is compiled into a module that `--stage verify` accepts.

### RuntimeBundle

The same abstraction for the nginx bundle: base files, packages and the script
are inputs with versions (an edit may bring one back), `todo` the files still to
be copied, `touched` the base files edited since the digests and `loose` the
copies made of such a file, `rendered` what
kustomize last made of the directory and from which contents. Which versions of
the base pass the image check (`PinnedImage`) and which kustomizations name
only files that are copied (`SelfContained`) are constants; version 0 is the
base of this commit.

### EnvoyTiming and NginxTiming

A text is the number of bytes used and what was put at which position, so that
two texts are equal exactly when the bytes are, and every write is compared
with the room there is. The decimal digits are the constant `Decimal`: the
model writes them digit by digit, as the fast paths do. Host names are counts
of characters by how they are escaped. In `NginxTiming` the states of a
request are those nginx's upstream code leaves: attempts with a peer, and
states without one. `EnvoyAssumption` and `NginxAssumption` (in `NativePlugins`)
say what the types of the programs say: a host name has at most 256 bytes, as
`gethostname` was given; 63 bits of nanoseconds make at most 13 digits of
milliseconds, 64 bits at most 20 digits; the time since the stream began is
always there.

### PluginLoader

The init container's script is one action for each command (`Test`, `Copy`,
`Check`, `Chmod`, `Move`, `Final`), under `sh -e`. Releases reach the
DaemonSet, the templates and the filter by separate actions (`ApplyLoader`,
`UpgradeIstiod`, `ApplyFilter`). `Inject` is a proxy created with the
template of that moment; `Mount` is the kubelet waiting for the file
(`hostPath` of type `File`). `Matching` has the releases made with
`prepare_runtime.py`; another has binaries that do not match their digests.

### FluxGraph

`DependsOn`, `Checks` (`wait` or `healthChecks`) and `Needs` (the APIs and
Secrets without which the dry run or the substitution of a Kustomization
fails) are read off the manifests. A thing is served some time after the
Kustomization with its chart or operator was applied, when what its controller
needs is served. kustomize-controller dry-runs all objects before it applies
any, so an attempt that fails changes nothing. The instance has two clusters:
one that keeps the CRDs of an earlier Longhorn, which comes up, and the fresh one
of the bootstrap, which does not (`FollowsDependencies`).

## Runs

| run | instance | what it shows |
|---|---|---|
| `proxy_engine` | 2 Pods, 2 successful fetches, 1 I/O error, 1 death, a Secret emptied and filled at any time, no symmetry; 2 subscriptions of one name or two, up to 3 entries each, 2 attempts | the volume is whole and clean, its files agree, fallbacks are there and undo nothing newer, refinement of `SnapshotStore`; every start gets into service once a snapshot exists and the Secret names subscriptions for good; the configuration is usable and no node is lost |
| `nodes_config_routes` | the configuration's part of it | finding: a list of high-rate nodes only is published with an empty `AllNodes` |
| `image_lock` | 4 references of which 3 share something, 2 digests, 2 workers, 2 runs, 1 moved tag, 1 kill; 3 Kustomizations on every choice of 4 paths; every pair of 35 names with and without tag and digest; an archive from 3 sources in 3 attempts each | lock and cache stay true; failures have the named reasons; the map is right and independent of order; names and cache files are; the archive is the image's and the builder gives up only when all is tried |
| `image_lock_message` | the lock's part of it | finding: the message that no hash changed can be false |
| `benchmark_run` | 2 roles, 2 rounds, 3 invocations, 1 kill, 1 error, 1 edit, 1 day | samples, acceptance, leftovers, resumption, finality of an invalidation |
| `benchmark_name` | the same | finding: a resumed run asks for a name that is taken |
| `native_plugins` | 2 versions of each input; up to 2 edits of the build's inputs and 2 command lines; up to 3 edits of the bundle's inputs; hosts and durations at every boundary; 3 upstream states | manifests and bundle are true; buffers suffice; fields are true |
| `runtime_bundle_render` | the bundle alone | finding: a prepared directory does not render |
| `plugin_loader` | 1 node, 2 proxies, 3 releases, the second not matching, 2 kills | only whole modules are mounted; loaders and proxies get through |
| `flux_graph` | the 19 Kustomizations on a cluster that has Longhorn's CRDs, 1 failure | providers first, the identity gate, convergence |
| `flux_fresh` | the same on a fresh cluster, no failure | finding: foundation is never applied |
| `lock_pipeline` | the schedule and 1 run by hand, 2 images, 1 change, 1 fault, 1 start or repetition | `main` never goes back; a green first attempt is merged; the lock catches up |

Several properties are conjunctions of named parts that one reader wants
together, such as `ReleasedInOrder` (types, `ProvidersFirst`, `IdentityGate`);
every part has its own comment. `MCProxyEngine`, `MCGenerator` and `NativePlugins`
put parts that share no state into one run: a part takes steps only while the
others are still as they began, so the states explored are the union, not the
product, of those of the parts.

**Why the bounds are enough.** Two Pods already give every pair of sections
that the lock separates: a publisher, a reader and a dead owner are all
reached with two because a Pod restarts; two fetches let a Pod overtake the
other, and one death may come at any point of any start. For the safety of
`NodesCache` the theorems remove the bounds, as they do for `ImageArchive`,
`NodesConfig`, `ImageLock`, `LockPipeline`, `BenchmarkRun`, `NativeBuild`,
`RuntimeBundle`, `FluxGraph` and `PluginLoader` (whose nodes do not meet anywhere
in the model, so that one suffices for liveness). In `NodesConfig` a collision of
a suffixed with an original name needs three entries. In
`ImageLock` a race for a cache file or a uid needs two references, what a
run leaves for the next one needs two runs, and a lock that says the same in
another order needs a third block between two of one uid: the references are
`nginx:1`, the same with a digest, the same with its registry, and
`nginx:1-alpine`, in at most pairs, since the workers are two. `ImageMap` needs three
Kustomizations for an order of two parents above a child. In `BenchmarkRun`
the backend stands for the roles recorded before an interruption and the proxy
for those after it; two rounds show both orders of the modes; a third
invocation may resume what the second has resumed or reported. In the timing
modules each kind of character, of missing metric and of digit count occurs,
at zero, at the usual and at the largest length, and the bounds of the buffers
are sums of these. In `NativePlugins` an edit that is put back takes two edits
(`MaxEdits`); in the bundle a third one first pins the deployment's image
(`MaxBundleEdits`), without which nothing is ever prepared. `LockPipeline` needs two runs to overlap, one change to
make a checkout old and two images for a lock that is half resolved; two runs
that both change the one image that moves, and a cache saved between them, are
among the behaviours. `FluxGraph` is the graph itself. `CHECK_DEADLOCK FALSE`
is set where the behaviours end: the Pods serve, a build is over, the last run
or invocation has ended, everything is ready.

**Fairness.**

* `NodesCache`: weak fairness of each Pod's script (a running process goes on;
  the lock is polled, so that a free lock is taken or times out), of the
  kubelet's restart of a failed init container (`restartPolicy: Always`), and
  of the lease expiry. Nothing is assumed of the subscriptions: a behaviour in
  which every fetch fails is fair. `CacheKeepsPodsStarting` has its one condition
  in its text (`<>[]urls`): the Secret names subscriptions from some time on.
  Kills and I/O errors are bounded, as nothing succeeds under errors that never
  end.
* `PluginLoader`: Flux and helm-controller reconcile for ever, the DaemonSet
  controller replaces pods, the kubelet runs and repeats the script and the
  mount. Nobody is assumed to roll a workload out.
* `FluxGraph`: kustomize-controller retries (`retryInterval`), each controller
  serves what it can, and somebody connects Crossplane to Logto by hand, as
  `bootstrap/README.md` asks.
* `LockPipeline`: the schedule comes again, its job's steps proceed, and each
  image is resolved if it could be again and again (strong fairness). Builds
  may fail without bound, in every run one or another.

The other specifications are checked for safety only.

## Findings

* `nodes_config_routes`: `AllNodes` leaves out high-rate nodes and, unlike every
  other group, is published without a check that anything is left
  (`sub-converter-script-config.yaml:298-299`). If all nodes are of a high rate
  the strict group has its node and the build succeeds, so the list becomes the
  last good one and every replica exits 0 with it; but sing-box refuses a urltest
  without outbounds, and `main.json` routes to this one (`singbox-main.yaml:21`,
  144, 150). The script's own words are "missing nodes are a hard error" (213),
  after which it would have fallen back.
* `flux_fresh`: `bootstrap/README.md:101` says that "Flux follows the declared
  dependencies automatically". The foundation (`infrastructure.yaml:61`) has
  Longhorn's `Node` objects
  (`infra/controllers/foundation/overlays/kubevirt-cluster-319/longhorn-hdd-nodes.yaml`)
  beside the release that installs their definitions. On a cluster without those
  its dry run fails for ever, and everything behind it waits.
* `image_lock_message`: `new_hashes` has one entry for each uid, that of the
  job collected last (`gen-image-lock.py:701`). With `nginx:1` and
  `nginx:1@sha256:..` in the map and a tag that has moved, the summary, the
  report and the commit message say "core image archive hashes remain
  unchanged" (762) of a lock in which one has changed.
* `benchmark_name`: the docstring calls the benchmark "Resumable"
  (`benchmark_server_timing.py:1`). A harness killed, or an interrupt taken,
  after `podman run` (263) and before `persist` (269) leaves a container that
  the state does not know, and every later invocation asks for its name.
* `runtime_bundle_render`: the README of the nginx module renders the prepared
  directory with kustomize (36), but the list of copied files
  (`prepare_runtime.py:72`) lacks `observability-http.conf`, which the
  kustomization names.

Other disagreements between text and code met while modelling, each visible
in the modules:

* `README.md:107-108` promises that a Docker v1 image is kept as `v2s1` "to
  avoid silent upgrades"; `mkMultiArchImageArchive.nix:57` falls back to
  `v2s2` and `oci` after `mirrorRetries` failures (`Candidates` in
  `ImageArchive`).
* The benchmark's certificate is made for one day and kept for as long as the
  output directory is (`benchmark_server_timing.py:375-377`), and Envoy
  validates it (349), so that a run resumed the next day fails.
* "its raw samples cannot be used for acceptance" (551) is raised where a
  report would be made, but a build seen during `--stage latency` leaves the
  acceptance that `--stage capacity` wrote (248).
* `prepare` with the committed base raises at the image check
  (`nginx/prepare_runtime.py:94`) after it has copied, where the README (29)
  describes it as the step to take.
* `scripts/network/native/envoy/README.md:20-21` says that `--stage verify`
  "checks the output independently". It compares identities that the build took
  before it compiled (`build.py:46-51`, 85, 89), so that a source hashed, edited,
  compiled and put back passes (`steady` in `NativeBuild`).

Behaviours that no document contradicts, recorded where they show:

* With empty `SUB_URLS` the script exits 1 before it looks at the last good
  snapshot (`sub-converter-script-config.yaml:36-38`): a Pod that starts then
  waits for the Secret.
* A lock that was written and not committed, because the generator was killed or
  ran without `--auto-commit`, is never committed by a later run with
  `--auto-commit` that finds the same images: it compares with the file.
* A run of the workflow that is run again updates the pull request of its first
  attempt, skips the merge and ends green (`GreenIsMerged` is of first attempts).
* Two references with one cache file can fail a run by racing for its
  temporary file (`FailsForAReason` states exactly when).
* One subscription of several may fail and the shorter list is published over
  a complete last-good one.
* The patterns of the regions are searched case-insensitively: `US` matches
  `Australia` and `Russia`.
* The benchmark reads the nginx image from the deployment on every invocation
  and hashes it nowhere; two harnesses on one output directory are not kept
  apart; the sources are hashed at the start and read when a container starts.
* A kill while `build.json` is written leaves a directory that no later build
  accepts.
* Fourteen longhornio images of the lock have a chain that begins with the
  Kustomization or release which owns the annotated object, and which is not
  among their sources (`ChainsBeginAtSources` allows exactly that).
* An empty image map makes the report's `--body-path` miss; branches stay
  after merges; a generation that takes longer than six hours is cancelled and
  saves no cache.
* In nginx's field a lone attempt beside a state without a peer is labelled
  "attempt 1", since the count includes both.

## Proofs

`NodesCacheProofs` proves, for any set of Pods and any values of the bounds,
that `TypeOK`, `VolumeIsClean`, `FilesAgree`, `NoFallbackOnlyAtFirst` and
`GuardsOwnAddress` are invariants, `OutputFollowsLastGood`, and that
`NodesCache` implements `SnapshotStore`. The assumptions are those of the
module: the bounds are natural numbers, and the two special lock owners are
distinct and not Pods.

The argument is one inductive invariant, `IInv`. The safety properties are
not inductive by themselves: that the files agree needs to know that only the
lock's owner is between the two writes (`LockInv`), and that it writes the
same thing twice (`PairInv`). That a fallback never finds the file missing
needs that the file never disappears (`RecordInv`). The refinement needs
that a configuration waiting to be published is newer than anything its run
could have read and not yet recorded (`FreshInv`, which is why two Pods'
payloads must differ), that what is loaded or published was recorded during
the run (`AdoptedInv`), and that the runtime files are those of this run
(`RuntimeInv`). `StepInvariant` has one step for each action. Each theorem then
follows from `Invariance` by temporal reasoning alone, and the two action
properties from the invariant and a case for each action.

`NodesConfigProofs` proves `ConfigIsUsable` and `NothingLost` for any
subscriptions, answers, regions, selections and number of attempts. The
assumptions are that the regions differ, that the strict ones are among them, and
the types of the inputs. Most of the proof is about lists of outbounds. `Fine`
says of a list that its tags differ and no group repeats a member, `Full` that no
group is empty, which all parts are but the one with `AllNodes`; `Join` shows that two such lists without a common tag make one,
and one lemma for each part of the configuration gives its tags and its members:
`NodesAre`, `NormalIs`, `HighIs`, `RegionIs`, `GlobalIs`. A tag begins with its
kind and a region's tags name the region, so that a region adds only tags that
none before it has (`KindsDiffer`, `ConfigOK`). That a tag is new rests on
`FreshTagIs`: of one suffix more than there are tags, one is free, by the
pigeonhole principle. For `NothingLost` the invariant counts: there are as many
nodes as usable entries that the loop has passed (`NodesOK`), and no entry that
raises has been passed (`LoopsOK`).

`NativePluginsProofs` proves `ManifestIsTrue`, `IndependentVerify` and
`OneBuild` for any number of edits, kills and repetitions and any command
lines, also when edits are put back. The heart is `Untouched`: while a build is at
its commands every input that has not been edited is as it was hashed, so that an
object compiled from such inputs is of the identities that the manifest will
name (`Steady`). `CompiledObjects` ties a recorded command to an object that is
whole and steady or marked as not, `ManifestWhileBuilding` and `CompleteManifest`
follow the manifest through a build that was killed and repeated, `Verifying`
says that a verification gets past its checks only with a manifest of what it
hashed, `FirstManifest` that the identities and commands of a directory stay
those of its first manifest.

It also proves `OneBundle` and `BundleIsTrue` of the nginx bundle, for any
trees, kills and edits. A copy that is not a package may differ from what was
hashed, because the script hashes first and copies later: the invariant says that
what was not touched since is as it was hashed (`DigestsTaken`), that each copy is
whole and, unless it is loose, that of the digests (`WholeCopy`, `CopiedSoFar`),
that a marked directory is that of its first inputs (`OwnDirectory`), and that the
same is true of what was ever rendered from it, whatever happened to the directory
since (`OfFirst`).

The same module proves `BuffersSuffice` of the timing fields, for any host names,
durations and numbers of attempts that fulfil the assumptions. For Envoy's each
turn of the loop adds at most 12 bytes, the digits and the description
(`EmitAdds`), a description has at most 520 bytes (`ShortDescription`), and six
turns of that are less than either room (`LoopFits`); the fast path changes no
length (`PokeKeeps`). For nginx's, where nothing is checked at run time, the
loop over the states is unrolled into the sequence of texts it makes
(`GeneralFits`): each state adds less than the room that was reserved for it
(`TurnAdds`), and the number in a label is bounded by the number of states.

On the same assumptions it proves `FieldsTellTheTruth`. For Envoy's, the place of
each metric is computed from those before it alone (`Ends`, `Placed`), and each
turn of the slow path puts its metric there (`EmitPlaces`), so that its result is
the described field (`SlowIs`, `DescribedIs`). The fast path starts from what the
slow path made of zeros (`TemplateIs`); the offsets that were computed apart from it
are the places of those zeros (`OffsetsPoint`), every digit replaces one and
nothing else (`PokePlaces`), and since all have one byte the places are those
that the slow path would have used (`FormatIs`). For nginx's, `Reads` says which lines a text
holds: a turn of the loop adds the lines of its attempt and no other
(`MetricTells`, `TurnTells`, `GeneralTells`). The template has nine entries at nine
different places (`FastIs`, `IsNine`), the three places that are kept are those of
its zeros, and three digits make it the three lines of the only attempt
(`PokesAre`, `FastTells`). Both invariants (`EnvoyTold`, `NginxTold`) hold because
what a field is about changes only while there is none. `NginxTiming` counts
the attempts of the truth state by state; `TruthAssumption` of `MCNativePlugins`
compares that with the attempts taken out of the states and numbered by their place.

`PluginLoaderProofs` proves `ModulesAreMountable` for any nodes, proxies,
releases and kills. A module file is only ever the result of a rename of a
file that was checked and has not been opened since (`CheckedIsWhole`), and a
file once whole stays whole, since the script copies only under the other
name; a running proxy therefore keeps the module it was given
(`RunningHasModule`).

`LockPipelineProofs` proves `NeverOlder` and `GreenIsMerged` for any images,
runs, repetitions and faults. `NeverOlder` rests on an order of all locks: a
working tree, and the branch made of it, is at least as new as the checkout it
is based on and no newer than what can be found now (`TreesAdvance`,
`PullsAdvance`), so that a merge, which takes the branch where the branch
changed something and is a conflict where `main` changed as well, only ever
moves forward. `GreenIsMerged` needs to know where in its first attempt a run
can have an open pull request (`FirstAttempts`).

`FluxGraphProofs` proves `ReleasedInOrder` for any number of failures and any
part of the cluster that is served when Flux starts. Since a Kustomization may
fail after it was ready, the invariant speaks of what once was ready
(`WasReady`): what it needed and what its checks cover is served for good, and
whatever was applied found all its dependencies in that state
(`AppliedInOrder`). `ProvidersAreReached` and `GateIsLogto` then walk the graph
from each consumer to the providers of what it needs.

`BenchmarkRunProofs` proves `NoSampleLost`, `InvalidIsFinal`,
`AcceptedOnlyComplete`, `SamplesAreSound` and `LeftoversNeedInterruption` for
any roles, rounds and number of invocations, kills, errors, edits and days.
The argument is that a running process and the disk never disagree about the
results (`InStep`: samples, configuration, versions and whether the run is
invalid), although they do about containers, and that the files a process
measures with are still those it named (`Current`). With that an append to the
memory's samples is an append to the disk's, and what is complete in memory is
complete on disk. That the rounds are paired rests on `Ordered`: no sample is
taken twice (`Distinct`), and a sample has before it those of all earlier places
of its stage (`FromTheFirst`). Places alternate between the modes and swap them
from round to round, so that the numbers of both modes can differ by one only.
For what is left over, `Known` relates the containers the process knows to those
that the disk and podman know, `Quiet` says what runs while nothing was
interrupted, and the number of containers that no state names is bounded by
that of the interruptions because each invocation can leave at most one that it
does not name (`LeaksNeedInterruption`).

`ImageLockProofs` proves `LockIsTrue`, `CacheWhole`, `FailsForAReason` and
`FailedRunsKeepLock` for any references, registries, sets of images, workers,
runs, moved tags and kills. Its invariant has two halves. `WorkInv` is about the
workers: a hash in a job or a file is that of the file's own archive
(`JobsTrue`, `FilesTrue`), nobody else touches the temporary file of an image
that shares its cache file with no other (`Alone`), so that a job that failed
without a failed fetch is one of two that do share one (`Reasons`). `RestInv` is
about the main thread: which file the last commit holds in every phase
(`Tracked`), and what the summary may say of the lock (`Told`). One lemma for
each action shows what it keeps, and the actions of the workers share `JobStep`.
The order of the lock is a numbering of the images by rank: `PlacesDiffer`
counts what is not above an image, which makes `InOrder` a bijection, so that
`Final` has a block for each image and no other. `NothingHidden` then shows that
a comparison which finds no change, with no uid shared on either side, has
compared every block with itself. The proof corrected the invariant: an earlier
form allowed the message that only the structure changed for a file with the
same blocks in the same order, and failed where two references with one uid
have the block of another image between them and change places around it.

The last part of `ImageLockProofs` proves `LoopsInBounds`, `OutputIsTheImage` and
`FailsOnlyExhausted` of `ImageArchive` for any number of sources and retries. The
invariant reads the counters of the nested loops as a position: sources before the
current one are exhausted in every format, later ones untouched, and the
current one has full counters before the current candidate, one less than the
attempt at it, and none after it (`TriesInv`). `CandidatesAreFormats` says
that each candidate list enumerates the formats, so that a position past all
of them is exhaustion of the image's own.

For `ImageNames` it proves `OneFileOneArchive` and `NamesAreDockers` for any
references, words and maps of mirrors that fulfil the assumptions of `Generator`.
`NamesAssumption` says what a written name is: parts that are not empty, a
repository behind a registry, no second registry behind `docker.io`.
`MirrorsAssumption` says that no registry with mirrors of its own is a mirror of
another one; with `a` and `b` both mirrored by `a`, then `b`, the images `a/x` and
`b/x` would have the same sources in the same order. That equal sources mean one canonical name (`SameSources`) is the
heart of the first theorem; the flattened name, tag and digest in the file's name
are not even needed for it. For the second `TwoForms` brings the canonical name and
Docker's short one to one of three shapes, of which the one determines the other
(`OneForm`), and `OnceIs` shows that `unique_sources` keeps each source, once, and
the first in its place.

For `ImageMap` it proves `MapIsTrue` and `OrderIsIrrelevant` for any finite set of
Kustomizations, any releases, objects, images and orders of listing.
`MapAssumption` says that Flux tells Kustomizations apart by namespace and name
and that nothing in the cluster is of the kind `ExtraImage`. The invariant
(`MapInv`) is that the map is the composition of the passes so far;
`ParentsNumbered` and `ParentsOrdered` say that the parents are exactly the
Kustomizations above, the longer path first, and since of two prefixes of one path
the shorter begins the longer (`TwoPrefixes`), a chain leads outwards
(`KChainIs`). One lemma for each pass shows that it keeps every image sound:
`SourcesSound` to `ExtraSound`. Where nothing is ambiguous (`Plain`), two
Kustomizations above a third have paths of different lengths, so that every listing
orders them alike (`SameParents`), and at most one Kustomization has the name that
a label gives, so that the last one listed is the only one (`KChainsAre`,
`HChainsAre`).

Model-checked only: liveness (`CacheKeepsPodsStarting`, `GetsThrough`, both
`Converges`), which is beyond the prover. Every invariant and every action property
that a passing run checks is stated by a theorem.

## Not modelled

The contents of configurations, manifests and regular expressions; time,
except as the order of events (a time-out may come whenever it can); two
harnesses on one output directory; edits of the sources while one runs; the
logging and the Markdown report; sing-box itself; the internals of NFS,
Flux, Nix, skopeo, crane and GitHub, which appear as outcomes.

* **Rollout of proxy-engine**: replacement, eviction and restart are done by
  Kubernetes' controllers from three declarations. What reaches this
  repository's code, a Pod replaced or restarted at any moment, is
  `Recreate`, `Restart` and `Kill` of `NodesCache`.
* **Observability query proxy**: a pure decision per request, without state.
* **Bootstrap, validation, manifests, dashboards, alerts, VMs**: declarations,
  or a sequence of external linters, without control of their own.
* In `FluxGraph`: pruning, drift and new revisions of a Kustomization.
* In `EnvoyTiming`: the ABI guard, a comparison of build identifiers at load.

## Plan

1. *Done*: every module above, with a theorem for every safety property of every
   passing run.
2. The safety half of each liveness property, as a theorem: that a step of the
   argument is never undone once it is made.
3. New revisions of a Kustomization in `FluxGraph`, when the cluster gains a
   component whose providers change while it runs.
