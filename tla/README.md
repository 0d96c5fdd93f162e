# A TLA+ model of the isolated web clone

The repository runs an evaluation of an agent on cloned web sites inside an
airgap. Everything that enters does so as a signed bundle over a one-way
transport; everything that leaves does so as fixed-size frames over another.
This directory holds TLA+ modules of the parts that decide something, TLC
configurations that check them on small instances, and theorems that TLAPS
proves for every instance.

Paths below are relative to the repository; `tools/` holds the implementation.

## 1. Inventory

| Component | State it keeps | Operations | Hard behaviour |
|---|---|---|---|
| receiver (`tools/receiver`) | sequence marks per signer and rotated keys (files), trusted keys (memory), the unpack directory, three inboxes, a quarantine directory | `receive`, `set_sequence_floor`, `add_verify_key`, start | copies in any order, crash between the mark and the dispatch, restarts |
| command executor (`tools/command_executor/executor.py`) | the command inbox | `run_once` with six operations | a command applied and not yet removed when the process dies; order; exceptions |
| run control (`.../run_control.py`) | run state, halt flag (memory) | start, stop, halt, clear | halts between commands; restarts |
| site registry (`tools/registry`) | revision -> live or retired (one file, replaced atomically) | register, set_live, retire | sequences of legal calls |
| worker (`tools/worker`) | its inbox, work directory | `run_once` | retries, exceptions, a crash in the middle of a job |
| go-live (`tools/golive`) | one sandbox per bundle | `go_live`, `unseal_eval` | what each failure leaves behind |
| eval intake (`tools/eval_intake`) | its inbox, the definitions file | `run_once` | order of arrival against sites and against other revisions |
| black link (`tools/black_link`) | counter reservation (file), send queue, replay window, reassembly buffer | `enqueue`, `tick`, `feed` | loss, duplication, reordering, restarts, bounded buffers |
| watchdog (`tools/watchdog/watchdog.py`) | last total and status per detector, state, indicator (memory) | `poll`, `clear_at_terminal`, the halt | steps of a halt that raise; events, polls and clearings in any order |
| detectors (`tools/watchdog/detectors.py`) | a count each | `total` | sources that break or start again; two reads that are not one |
| brokers and gate (`tools/brokers`) | gate, counters, the agent's place, form state | `act`, `apply`, `observe`, `sever` | the gate severed in the middle of a call; a page that is out of date when its form is submitted |
| eval harness (`tools/eval_harness`) | one copy of each site per episode, open episodes, verdicts | solver loop, episode, scorer | the loop may end for several reasons at once |
| linter and classifier (`tools/bundle_lint`, `.../classify.py`) | none | `lint`, `classify` | they and the composer check one document with three programs |
| site composer (`.../compose.py`) | a table of rows per site | GET and POST handlers | what a request does that no check of the document foresaw |
| population driver (`tools/population`) | what it wrote, action budget | tick | it remembers rows it cannot look at; the action cap |
| egress channel (`tools/egress`) | sequence, rotation and last readings (memory), spool | collect, tick, feed | restarts of either end, frames out of order, deduplication by name |
| log diode (`tools/log_ingest`) | sequences (memory), quarantine tier (directories) | emit, ingest | restarts, gaps, repeated deliveries, damage |
| simulated diode (`tools/fake_demo_data_diode`) | two directories | tick | drop, corruption, deduplication |
| builder, search engine, inference server, reconstruction check | none that outlives a call | pure functions | - |

How they interact. An archive comes over the ingress diode to the receiver,
which renames it into the inbox of its type. The executor, the worker and the
eval intake each read an inbox, lowest sequence first, and remove what they have
taken whatever came of it. The worker calls go-live and the registry; the intake
asks the registry what is live and calls go-live; the executor calls the
registry, the run control and, for two operations, the receiver itself. The
watchdog, driven by its own poll, calls the gate and the run control. The solver
drives an episode through the two brokers, which both consult the gate; detector
D10 reads the episode's databases and the broker's write count. The population
driver posts to the same composed sites after every step. Watchdog and harness are
among the sources of the egress channel, whose frames cross a simulated diode to the
dashboard; log records of all parts cross another to the quarantine tier. In the
repository's own compositions (`scripts/run_demo.py`, `scripts/run_eval_demo.py`)
these run in one process, one call at a time, so the interleavings that matter
there are those of calls, of arrivals, of halts from outside, and of the death
of the process between two effects that outlive it. The watchdog is written to
run apart from what it watches, which is what its two-step reads and the gate's
re-reading are for; its modules let it.

What makes each correct: a bundle is accepted once; only a rotation key extends
trust; commands of one signer are applied in order; a hostname answers with one
revision; a halted run stays stopped until a human clears the halt; what is
registered can be served; what is filed is whole and never goes backwards; nothing
stays in an inbox for ever; a nonce is used once; a message comes out whole and
once; no event is passed over by the watchdog; a halt takes hold whichever step fails; once severed, the agent
does nothing but what it had begun; a minefield is never scored as a pass; a
dashboard shows the newest reading that got out, and an alarm gets out; a log record
is indexed once and ends somewhere; a document that is let in can be built; what the
driver believes to be its own is its own. Not all of this holds of the code without
exception: section 3 says under which conditions the properties are stated, section 6
what the exceptions are.

## 2. Modules

    BundleManifest        what a manifest says of a bundle (constants)
     |- Receiver          the verification chain, marks, keys, inboxes
     |- SiteRegistry      which revision is live
    RunControl            the state of the run
    ControlPlane          = Receiver + SiteRegistry + RunControl + the executor
    Deployment            = SiteRegistry + worker + go-live + eval intake
    CounterStore, ReplayWindow
    LinkSender            = CounterStore + queue
    LinkReceiver          = ReplayWindow + reassembly
    BlackLink             = LinkSender + network + LinkReceiver
    MessageChannel        what a black link promises (abstract)
    Watchdog              polls, the halt, the clearing
    HaltPath              = Watchdog + RunControl + sources + gate
    Episode               solver, brokers, gate, scorer
    GuardedEpisode        = Episode + severing + detector D10
    Diode                 one tick of the simulated diode (operators)
    EgressSender, EgressReader
    NumericChannel        = EgressSender + spool + Diode + EgressReader
    QuarantineTier        validation, gaps, promotion
    LogChannel            = emitters + spool + Diode + QuarantineTier
    SiteDocument          what linter, classifier, composer make of a document
     |- SiteApp           the handlers of a composed site
         |- PopulationDriver
             |- EpisodeWeb  = a site from its documents to the end of an episode
    MC*                   instances for TLC
    *Proofs               theorems

**Bundles are constants.** An archive is signed once and never changes, so
signer, sequence, type, site, hostname, supersedes and command are functions on
`Bundles`. `Defect` names the first check an archive's own bytes fail, which is
all the chain makes of hashes, signatures and lint. `CommandBody` is the union of
the six parameter sets; `exact` says whether the command carries its operation's
keys and no others, `form` what base64 decoding makes of a key.

**Receiver.** `Verdict` follows the returns of `_unpack` and `_verify` in order.
`Accept` ends where `_record_sequence` has made the mark durable; `Dispatch` is
the rename into an inbox. They are two actions because `Crash` may come between.
A rejected archive goes to `quarantine`; one on which the linter raises changes
nothing. `accepted` and `lowered` are histories: how often a bundle was accepted,
and whose mark a floor command has lowered.

**SiteRegistry.** `sites` holds the status of every revision. Each operation ends
in one `_flush`, a rename, so each is one action and survives a restart.

**RunControl.** Four methods, four actions. A restart makes a new object, in which
nothing is halted; `haltWaits` in `ControlPlane` is the history of the last halt: it
waits `for_human`, until the human clears it (`no`) or a restart has `forgotten` it.

**ControlPlane.** The executor's operations are one action each, guarded by
`CommandStatus(c) = "APPLIED"`, where the status operators give every refusal in
the order of the handler; `Refuse` is every other outcome, exceptions included.
`Take` is what all of them share: the lowest pending command, and the history
`lastRun`. `Remove` is the `finally`. Halts and clearings come at any time,
arrivals and the worker only between calls (`Idle`). The worker is reduced to its
two effects here; `Deployment` has it whole.

**Deployment.** A job is `Takes`, then one action per effect on disk:
`EmptySandbox`, the outcomes of go-live (`GoLivePass`, `GoLiveFails`,
`GoLiveRetries`, `GoLiveGivesUp`, `Raises`), `RegisterSite` or `RegisterRaises`,
and `LeaveInbox`. `FinalFailures` and `Retryable` pair each outcome with what it
leaves of the sandbox: a handle mismatch returns before the removal the others
reach. `Crash` may come between any two. The intake works the same way. `said` is
the last status emitted for the job in hand. `Arrive` is the receiver's acceptance, by
the `mark` of the signer, which `SetFloor`, the executor's floor command, may lower:
then the same bundle arrives again, or an older one. `redone` is the history of the
bundles that were let in, or taken up by a new process, although the registry or the
definitions already pointed at them.

**Black link.** `CounterStore` separates the durable reservation from the use of
a counter. `ReplayWindow` has the bitmap as a set of counters. `LinkSender` and
`LinkReceiver` have one action per method outcome; `Feed` is the whole of
`feed`, with expiry, eviction, disagreement, buffer bound and delivery in the
order of the code. A payload is the message it was cut from, so a message that
comes out is the set of the origins of its fragments, and it is whole when that
set has one member. The network is `sent`: any cell in it may arrive any number
of times, at any time, or never.

**Watchdog, HaltPath.** A poll is `BeginPoll`, one `Read` per detector, and
`Decide`; the halt is one `HaltStep` per step, each of which may raise if it is in
`Unreliable`. The detectors are read at the time of the poll, so the liveness
timeout (`now - last_seen`) can only be exceeded by a detector whose last read
raised, which is `down` already; the timeout is therefore left out. `HaltPath`
supplies what is read (`Counts`, `Breaks`, `Heals`, `StartsAgain`) and what is
stopped: `Sever` for the two steps that sever the gate, `RunControl!Halt` for the
third, nothing for `preserve`. Commands and the human act between any two of
these. The event counts of `as_metrics` are left out.

**Episode, GuardedEpisode.** `phase` is the place in the loop of `solve`. `LoopTop`
reads the gate for the loop, `Act` for the action broker, `Apply` for the
environment broker; `Generate` and `Post` are the model's and the site's work after
that, so that the gate may be severed between the reading and the use. `Post` and
`CountWrite` are two actions, because the row is in the database before the broker
counts it. A row is of one of four sorts: what the gold state counts, what a
minefield counts, another one in a table of the task, one in any other table.
`StepEnds` is the population's tick, the milestones and the minefields;
`LoopRaises` is any exception, which Inspect records and does not score. `late`
counts the calls to the model and the posts that began after the gate was severed.
`AroundTheBroker` is a row in the agent's name that the broker did not post.
`GuardedEpisode` adds D10, which counts the rows first (`CountRows`) and compares
them with the broker's count afterwards (`Compare`).

**Diode, NumericChannel.** `Batch` is what a tick of the diode looks at: the names
the receiving side does not hold, in their order, up to the capacity; each is
delivered whole, damaged, or dropped and tried again. `SendFrame` is one call of
`Telemetry.tick` and the spooling of its frame: every source is read, a source in
`Differencing` forgets what it has reported, and `Selected` says which metrics have a
slot. `SenderTick` moves the rotation. Because every source is read before every
frame, what the sender holds in `_latest` and `_fresh` between two frames is never
read, and a slot is a function of the readings. `Cross` and `Feed` are the rest of
`cross_out`; they are separate actions because either side may die in between.
`FrameVerdict` follows the returns of `parse_frame`. A frame's timestamp is `process`,
the process of the inside that built it: within one, the sequence tells which frame is
newer, and the reader never looks at it. `accepted` is a history.

**QuarantineTier, LogChannel.** An item is a record and what the link made of it:
`grown` is a length field damaged upwards, which `parse_record` takes for the head of
a longer record and leaves in the file; any other damage fails a check and the record
is retained as slices, the `first` with the reason it failed for and the `following`
ones, each skipped by a byte, without the magic. Their names are made of the clock and
the reason, so a slice may be written over another (`lost`). `Admit` is `_admit` with
the scan. `index` counts the lines of `index.jsonl`, which like both tiers outlives the
process; `admissions` is the history of one life of the tier. A record that is admitted whatever
number it had before a restart of the tier is written over the promoted file of that
name, as the code does. `DrainAndList`, `IngestNext` and `RenameDone` are
`ingest_directory`, file by file, so that the tier may die between the two. Renaming
frees the name, so the same record is delivered again in the next round.

**SiteDocument, SiteApp.** A document is a record of sequences, as `site.json` is
after its schema stage; a finding is its code. `Findings` has the rules of `lint.py`
and `population.py` that relate one part of the documents to another, `Supported` and
`ComposeRaises` every check of the classifier and the composer on the same parts.
`Post` is the POST handler for one table: refusals, the exceptions a request may
raise because a parameter or a column is missing, and the rows afterwards. A row is its
id, its writer and its thread, and a body says what fields of those names hold
(`Values`): an `Update` sets each of them that its form has a field for, so a row may
change its id or its writer; an id that is taken raises. `NewId`
gives the id of the last row again once it is deleted, as the seeds' integer primary
keys do.

**PopulationDriver, EpisodeWeb.** `Ticks` is what a step has for the driver: the
scripts of that step, then any number of ambient posts up to `MaxAmbient`, each a
`Posting` unless its pool of texts is missing or empty.
`Submissions` is all that may come of one post, with the cap, the target (any thread
listed, or any row the driver remembers), the answer and what it remembers then.
`EpisodeWeb` takes one set of documents through `Refuse` or `GoLive`, opens an episode
over the seed and lets the agent browse: `Go` (a URL or a link), `Type`, `SubmitForm`,
`Search`, and `Stay` for what is refused. `Observe` is the page read after each; its
forms are what the next action may use, though the population may have changed the
rows since. The end of an iteration chooses the posts of the tick, and `DriverPosts`
makes them one by one. `RegistryMoves` gives a hostname to another revision at any
time. One site has a table, a population and a choreography; others are pages.
Templates are content: a page may hold a form for the id in its path, or for a row it
lists. `Episode` has the gate, the canary and the verdict, this module the rest of the
broker.

## 3. Runs

Every run uses two workers and finishes in under three minutes. `CHECK_DEADLOCK
FALSE` is set everywhere, because every one of these systems may come to rest:
no more archives, no more cells, nothing pending.

| Run | Question | Instance |
|---|---|---|
| `ControlTrust` | Can re-deliveries, floors, rotations and a restart break replay protection, trust or command order, or leave a command behind? | six archives of four keys; one restart |
| `ControlSites` | Who can hold a hostname, what takes a site down, what does a halt do? | eight archives (four revisions of two sites for one hostname, rollback, retirement, start, stop); one restart, two halts |
| `LinkRestart` | Do counters, window and buffer hold over a restart anywhere in a block? | two messages of three cells, a buffer of two messages and three fragments; blocks of 3, a window of 3, counters to 10, one restart |
| `LinkChannel` | Without a restart, is the link the abstract channel, and do copies fill gaps? | two messages of two cells, two copies, room for one open message; a window of 4 and a memory of one message; ten counters |
| `Deployment` | Is what is registered servable, what is filed whole and newest, and does every inbox drain? | two revisions of a site, two evals of one question, three attempts, one restart, one floor command |
| `HaltPath` | Does every event and every dead detector end in a halt, does a halt take hold, is CLEAN clean? | an escape and a suspicious detector, one event each, one breakage and restart of a count, one clearing, three steps that may raise |
| `GuardedEpisode` | What still happens after the gate is severed, can a minefield pass, what does D10 find? | one episode of three steps, one row around the broker |
| `ControlCrash` | Is a receipt transactional? | violated |
| `NumericChannel` | What does the dashboard show, is every metric's turn kept, does an alarm get out? | one metric in every frame and three in rotation for two slots, four frames, one damaged item, one restart of either side |
| `DeltasLost` | Do the changes in the frames add up? | violated |
| `LogChannel` | What is indexed, counted missing, promoted and retained? | two sources, an implant, one damaged item, and two of: a restart of an emitter, one of the tier, an instant the clock gives twice |
| `EpisodeWeb` | Does what is let in compose, and does the driver know what is its own? | 33 sets of documents; four steps, one ambient post a step, one move of a hostname |

The runs that are violated check what a document or docstring says against what the
code does; section 6 lists these and the other differences met.

**Properties worth a word.** `AcceptedOnce` excuses the signers of whom a floor
command has lowered the mark: the command writes whatever mark it is given, and
after a lower one a bundle is accepted again.
`ChainOfTrust` relates every bundle ever accepted to the commands that were
accepted before it. `CommandsInOrder` is an action property on the history
`lastRun`. `OnlyCommandsTakeSitesDown` says that a registration, however it is
refused or superseding, takes no site out of service. `CopiesFillGaps` says that
a message all of whose fragments got through in some copy comes out, whatever
else was lost, as long as cells are not reordered. `ChannelSpec` is the
refinement: with `offered` the queued messages and `delivered` what came out,
every step of the link is a step of `MessageChannel` or none: a message is
delivered whole, and never while the receiving end remembers it. Whether it may come
again after that depends on the constants: `DeliversOnce` says which rule it out, and
the code's own (256 remembered, a window of 1024) do so for one copy only.
`HaltedRunIsStopped` holds of a halt that waits for the human: nothing is running and no
command gets a run running. A restart ends the wait too, because the halt is in memory;
that is a finding (section 6).
`RegisteredIsServable` and `FiledIsWhole` except a bundle that was done again: a
process that dies between a registration and the removal from the inbox takes it up
once more, and a lowered floor lets it in once more, and either empties a sandbox that
is served. They say that nothing else does, of each bundle by itself.
`DefinitionsAdvance` excepts the signers whose mark was lowered. `CleanIsClean` says that between polls CLEAN
means no detector has fired or gone down since the last clearing, although a
human may clear in the middle of a poll. `HaltTakesHold` relates the steps that
raised to what is severed and halted. `TroubleHalts` excuses a count that starts
again at zero: `last_total` follows it down, and the events lost on the way are
never seen. `AgentGoesQuiet` allows one model call or post after severing, the one
that had passed the gate. `ShowsTheNewest` holds of each metric by itself: a stale reading
shows only where there was none. Newest is by the time a frame was built; the exception
it makes is what a restart of the inside does, whose frames begin again with the lowest
numbers: an old process's frame of a higher number replaces what the new one has said. `AlarmGetsOut` needs the reader's memory to be behind
the sender's counting, or the sender to catch up: a restarted sender is not heard until
its sequence passes the last one read. `GapsAreExact` relates the counter to the whole
history of numbers taken; a tier that starts again counts from its first record on.
`IndexedOnce` counts the lines of the index on disk: at most one of a record in each
life of the tier, since a new one has forgotten all numbers and admits again what is
still spooled.
`PromotedIsKept` excuses the case of both ends having started again: then a new record
has an old number, and is promoted over the old. `EveryRecordSettles` is liveness; a
damaged record settles because it is delivered again, and one that was refused when
all slices of it are retained at one time. `AcceptedDocumentsCompose`
excuses documents that declare a table the seed does not have: the seed is not opened
before go-live. `OwnedRowsExist` is stated for populations in which every deletion
names one row by its id and is an actor's own, no edit sets the id or the writer of a
row, and no actor is called `agent`: the other three documents of the run (`by_thread`,
`reassigned`, `namesake`) break what the driver remembers, and the linter lets them
pass. The agent's own edits may set anything: in `handed_over` it gives its rows to an
actor and moves them to other ids. `BypassIsExplained` allows D10 one row too many, if it
counted rows between a post and its count: then an honest write halts the run.

**Bounds.** `MaxCrashes`, `MaxHalts` and `MaxRestarts` bound what comes from
outside; a second restart meets the same files as the first, and no variable but the lines of
the log index tells how many there were. `CounterMax` is the code's own limit made small: the run has to
cross a block boundary before and after a restart (blocks of 3, ten counters)
and to jump past the window (3). `Remember` is 1 in `LinkRestart`, so that
messages are forgotten, and in `LinkChannel`, where the window is 4 and there are two
copies: as in the code the memory is shorter than the window, and one message comes
out, is forgotten when the other does, and comes out again. Two revisions of
one site and two of another are what it takes for a hostname to be superseded,
rolled back and claimed by a stranger. `ControlSites` counts states that differ
in the quarantine directory once (`VIEW ButQuarantine`): nothing reads that
directory. `Deployment` has bundles of two signers, because an inbox is read in
order of sequence whoever signed. One floor command sets a mark to 0, below every
bundle: what it lets in again is whatever its signer has sent. In `HaltPath` one
event per detector and one clearing are enough for an event before, during and
after a halt; the source that breaks and starts again is the one of severity
ESCAPE. In `GuardedEpisode` an episode has three steps, so that a minefield may be
hit in the first, a middle and the last one. `open` is one episode because
`solve` never awaits: Inspect cannot start a second before the first has ended.
In `NumericChannel` four frames are two rounds of the rotation, and with three metrics
for two slots the cursor wraps in the middle of a frame; nothing happens outside
the channel after frame `EventsBy`, so that what happened has frames left to get out.
In `LogChannel` three records of one source and one of another are enough for a gap, for
a number given twice and for an item overtaken; `MaxClashes` bounds the instants the
clock gives twice, `MaxFaults` restarts and these together. In `EpisodeWeb` 22 of the
documents have one mistake each that a check must find, and 11 pass; four steps are what it takes
to insert, delete and insert again before and after the site is materialised a second
time; `MaxActions` is the driver's cap (50) made small enough to be reached.

**Fairness.** `ControlTrust`, `Deployment`, `HaltPath`, `NumericChannel` and
`LogChannel` check liveness, the other runs only safety. The process finishes what it has begun (weak fairness of `Remove`,
`DispatchBundle`, and of the steps of a job), and its loop polls each inbox again
and again. In `ControlTrust` weak fairness of execution is enough: nothing but
executing commands takes the process out of the poll for ever. In `Deployment`
two inboxes share one process, so each poll needs strong fairness: the loop
returns to each, although the other may be served in between. In `HaltPath` weak
fairness of the watchdog's steps says that whoever drives it polls again and again
and that a poll or a halt, once begun, goes on. In the two channels weak fairness
says that the inside ticks, that the link is driven again and again and in the end
delivers what it keeps dropping, and that the receiving side reads what arrived.
Nothing makes
archives arrive, the watchdog halt, a human clear, or the process die.

Each property of a passing run has a mutant: an operator beside the one it
changes, marked `Mutant:` in the module, that changes the code the way a slip
would. `PROJECT.json` says which; with it, TLC finds the property violated.

## 4. Theorems

The eight modules `ControlPlaneProofs`, `BlackLinkProofs`, `HaltPathProofs`,
`GuardedEpisodeProofs`, `DeploymentProofs`, `NumericChannelProofs`,
`LogChannelProofs` and `EpisodeWebProofs` are checked by tlapm (SMT, Zenon, PTL) from the assumptions
named in the modules that declare the constants: `ManifestAssumption` (the fields
of a manifest have their schema's types and `None` is none of them),
`ReceiverAssumption`, `ControlAssumption`, `CounterAssumption`, `SenderAssumption`,
`WidthAssumption`, `LinkReceiverAssumption`, `RestartAssumption`,
`WatchdogAssumption`, `HaltPathAssumption`, `EpisodeAssumption`,
`DeploymentAssumption`, `RegistryAssumption`, `ChannelAssumption`,
`LogAssumption`, `PayloadAssumption`, `ValuesAssumption`, `DriverAssumption`, `DocumentAssumption` (the
sections of a document, its scripts and behaviours are arrays) and `WebAssumption`
(the seed is a finite table with positive ids, the site is live when the episode
opens). TLC evaluates all of them in the runs. Three theorems assume more.
`DefinitionsOnlyAdvance` needs the evals of a question to come from one signer,
because the sequences of two do not compare. `LinkImplementsChannel` needs a
sending end that does not restart (section 6 has what happens if it does), and nothing
of window, memory or copies: on those depends which channel it implements, by
`DeliversOnce`, and the code's default is one copy (`black_link/link.py:111`).
`GapsAreFilled` needs no more copies than the 8 of
`_expire`, which the sender asserts (line 113), and no message longer than the
receiver's bounds: `max_message_frags` is the sender's own `MAX_FRAGS_PER_MESSAGE`
unless set otherwise, and 65535 fragments of at most 1236 bytes fit into the 256 MiB
of `max_open_bytes`.

| Theorem | States | Argument |
|---|---|---|
| `TypeCorrect` | `[]TypeOK` of the control plane | inductive, action by action |
| `NoReplay` | `[]AcceptedOnce` | `ReplayInv` adds that the mark of a signer never lowered covers every bundle of his accepted so far |
| `HostnamesAreUnambiguous` | `[]OneLivePerHostname` | inductive with the types: register and set_live both give the hostname up first |
| `HaltHolds` | `[]HaltedRunIsStopped`, and that nothing but `HumanClearsHalt` and `Crash` ends the wait of a halt | inductive; each action by itself |
| `RotationsSurviveRestarts` | `[]TrustIsDurable` | inductive with the types |
| `TrustIsChained` | `[]ChainOfTrust` | `HeldInv`: whatever is unpacked or in an inbox was accepted, and lies in the box of its type; `KeysEntitled`: every trusted type of a key, in memory and on disk, is entitled by the history |
| `CommandOrder` | `CommandsInOrder` | `OrderInv`: what was last applied is at or below the signer's mark and at or below every command of his still held; with `ReplayInv` and `HeldInv` |
| `SitesStayUp` | `OnlyCommandsTakeSitesDown` | a registration retires a revision only for another of the same site |
| `NoNonceRepeats` | `[]NoncesAreFresh` | `CountersAhead`: every counter used lies below the next one and below the reservation on disk; what may be used is covered by the file |
| `NoCellTwice` | `[]AcceptedStayStale` | `WindowRemembers`: an accepted counter has left the window below, or its bit is set |
| `BlackLinkProofs!TypeCorrect`, `BufferKeepsItsBounds` | `[]TypeOK`, `[]BufferIsBounded` | `LinkInv`: what is in the queue and on the network was cut from a message whole (`FragmentsWhole`), and the buffer is a finite table within its bounds (`Bounded`). What `RoomForOne` and `WithinBuffer` keep fits, because among the messages kept there is one opened first, and all kept were opened since |
| `LinkImplementsChannel` | `Spec => ChannelSpec`, without a restart | `ChannelInv`. `BaseInv`: cells come in the order of their counters, those of a message back to back, one number to a message (`StreamInv`), so a message in the buffer holds fragments of one message only; `LastRemembered`: the numbers the receiving end remembers are those of the last messages out. For `2 * Width <= Remember + 1`, `OnceInv`: the messages remembered were each completed by a cell of theirs, no two further apart out of order than the window is wide; by the time one is forgotten, two windows' worth of others lie behind it and none of its cells is fresh (`ForgottenIsStale`). For one copy, `SpentInv`: no two cells are the same part of a message, and what is in the buffer or handed on has spent its cells |
| `GapsAreFilled` | `[]CopiesFillGaps` | `FillInv`: while nothing is reordered, the message whose cell came last is handed on or in the buffer, with every part that got through, opened after all others there, and no longer ago than cells of it have gone by (`Underway`). So it does not expire (its cells span less than `Copies` times its length), is not the one abandoned for room, and no other is counted against the buffer's size with it |
| `HaltPathProofs!TypeCorrect` | `[]TypeOK` of the halt path | with `HaltGoesOn`: what is left of a halt is an end of its four steps, and not nothing |
| `HaltsTakeHold` | `[]HaltTakesHold` | `HoldsSoFar`: each step already taken has taken hold or is among the failures |
| `NothingPassedOver` | `[]CleanIsClean` | `FoundNow`: in the middle of a poll, what is firing in CLEAN was found by that poll |
| `GuardedEpisodeProofs!TypeCorrect` | `[]TypeOK` of the guarded episode | with `StepLeft`: past the head of the loop there is a step to take |
| `QuietOnceSevered` | `[]AgentGoesQuiet` | `LastCall`: after a late call the gate is severed and no other call is under way |
| `MinefieldsAreFinal` | `[]MinefieldIsFinal` | `MinesAreSeen`: a minefield's row is not the broker's, or of the step in hand, or has ended its episode |
| `BypassExplained` | `[]BypassIsExplained` | `AllExplained`: rows, what D10 has counted of them and its peak are each covered by counted writes, rows around the broker and at most one post in hand |
| `DeploymentProofs!TypeCorrect` | `[]TypeOK` of the deployment | with `JobOK`: the bundle in hand is of the kind its phase is for, and lies in an inbox |
| `ServableOnceRegistered`, `WholeOnceFiled` | `[]RegisteredIsServable`, `[]FiledIsWhole` | `LetIn`: the mark of a signer never lowered covers whatever of his waits or is finished, so none of that arrives again; `FinishedOnce`: what is finished and was not done again is whole, and waits only as the job that has just finished it; `RedoneWhy`: what was done again had its signer's mark lowered, or a restart in between |
| `DefinitionsOnlyAdvance` | `DefinitionsAdvance` | `OrderInv`: of a signer whose mark was never lowered, what waits is behind neither the definition of its question nor the eval in hand; with `LetIn` |
| `NumericChannelProofs!TypeCorrect` | `[]TypeOK` of the numeric channel | inductive, a lemma for each side |
| `NewestIsShown` | `[]ShowsTheNewest` | `ShowsTheHighest`: what shows is of the fresh frame of the highest number; `AcceptedBefore`: all that was accepted is at or below the last sequence, so the next accepted has a higher number than all. What is newer and was accepted has a lower number then, so it is of a later process |
| `EveryoneRides` | `[]RotationIsFair` | `RotationInv`: of every metric, the frames since it last rode times the width of the rotation, and the places it still stands behind the cursor, are together fewer than the metrics that rotate |
| `LogChannelProofs!TypeCorrect` | `[]TypeOK` of the log channel | with `Named`: what the tier is given lies under the name of its record, and the names spooled are finitely many |
| `EachIndexedOnce` | `[]IndexedOnce` | `LinesPerLife`: a record not admitted in this life of the tier has a line in the index for each earlier one at most; `AdmittedBefore`: what was admitted is at or below the tier's last sequence of its source, and is refused when it comes again |
| `MissingCountedOnce` | `[]GapsAreExact` | `GapInv`: the last sequence of a source was taken and nothing above it was, so a record that jumps ahead adds to the numbers skipped exactly those it jumps over; with `AdmittedBefore` |
| `PromotedStays` | `PromotedIsKept` | `PromotedBefore`, and `NamesAreUnique` until an emitter starts again |
| `AcceptedSitesCompose` | `[]AcceptedDocumentsCompose` | `ChecksCover`, of documents alone: what compose_app looks up by id is declared, declared once (`LookedUp`) and of a supported kind, and every blob is in the manifest under its role |
| `EpisodeWebProofs!TypeCorrect` | `[]TypeOK` of the episode | with `Typed`: the rows are a finite table, so there is a new id; what a request makes of them is a `RightAnswer` |
| `DriverKnowsItsRows` | `[]OwnedRowsExist` | `OwnInv`: what the driver has of an actor are rows of that actor, each once, and the posts left of a tick are ones the documents ask for. Nobody but that actor deletes or edits them: the agent writes as `agent`, so whatever columns its edits set, they set them of its own rows, and an id that is taken is refused (`UpdateOutcome`); a deletion of the population is of an own row by its id, and the driver forgets it then. An id is given again only when no row has it |

Why the invariants need strengthening: the mark alone does not say which bundles
were accepted under it; the keys in memory are lost in a crash, so the file has to
be entitled too; a command may wait in the inbox over any number of restarts, so
its order is a fact about everything held and not about the last step; a restart
resumes from the file, so counters have to lie below the file and not only below
the one in memory.

The link's invariants each add what the receiving end cannot see. It goes by message
numbers alone, so that they are kept apart is a fact about the sender's stream; it
forgets what it delivered, so that nothing comes twice is a fact about which cells the
window still takes; and it gives up messages by age, so that none is given up too early
is a fact about where in the stream the cells of a message lie.

Only model-checked: liveness (`CommandsDrain`, `InboxDrains`, `TroubleHalts`,
`AlarmGetsOut`, `EveryRecordSettles`), which is outside the prover. Every invariant
and every action property of a passing run is a theorem. Where a proof needs an
induction (the oldest message of a table, the first gap in a list, what a fold over
posts gathers), it takes the least counterexample (`LeastExists`), because the
library's induction theorems have an operator as a parameter, which none of the
provers instantiates.

## 5. Not modelled

Cryptography, hashing and archive layout are outcomes (`Defect`, `Fits`, the choices
of go-live). Of a site: templates and their rendering, assets, the order and limit of
a query, search ranking, text caps and the schema stage of the linter. Of an episode:
prompts, the parsing of pages and of the model's output, answers in words, milestones
and rewards; they change nothing that a property of an episode reads. Of the driver:
rates, pools and generated names; any number of ambient posts up to a bound covers
what the sampling draws. Of the channels: bytes, the append-only log of readings, the
sanitising of payloads. The canary listener's thread, log offsets and file hashes are
detectors like any other: a count that rises, breaks or starts again.

The builder, the search engine, the inference server and the reconstruction check
keep no state between calls. Status emissions are kept only as far as a property
reads them. The registry's and the receiver's files are replaced by a rename and
taken to survive a death of the process; that a power failure may undo a rename
that was not synchronised is outside the model, as is a torn write of the eval
definitions, which are written in place. Of a row's columns only the id, the thread and
the writer are modelled, the ones something is decided by.

## 6. Differences between text and code

Two are checked by a run: a crash between mark and dispatch loses a bundle
(`ControlCrash`), and a change whose metric has no slot in its frame is lost
(`DeltasLost`). The others were met while modelling, and are quoted in `PROJECT.json`.
Some of them are the exceptions that properties of section 3 make: a restart forgets a
halt, and a command then starts a run that no human released; a lowered floor lets in
what is registered or filed, whose sandbox is emptied while it is served, and lets an
older eval be filed over a newer; with several copies and
reordering past 256 messages the link hands a message on twice; after a restart of the
inside an old frame's readings replace newer ones; after a restart of the tier every
spooled record is indexed again; two slices of one instant are one file; and an edit
form with a field `writer` or `id` hands a row to another writer or moves it. The rest:
two revisions of one site may be live under two hostnames; fragments of two messages
are joined after a restart of the link's sending end; a choreography does not wait for
its site; an episode that the watchdog cut short can be scored as a success; a site
is materialised again when an episode reaches it under a second hostname;
`suppress_for_actors` suppresses nobody; every healthy log record takes the reject path
when it is delivered again; and documents that pass linter, classifier and composer
may raise in the middle of an episode (`other_path`, `other_param`, `no_param` and
`other_field` in `MCEpisodeWeb`).

## 7. Plan

1. **Theorems.** What becomes of `ChannelSpec` over a restart of the sending end: a
   weaker channel, which may join what was open under one number, and its refinement.
2. **Composition.** The watchdog's metrics as sources of `NumericChannel`, from an
   event in the sandbox to the dashboard.
