# A verification project for NEXTRON

NEXTRON switches a Linux machine between four routing modes: Tor, a VPN, Tor inside a VPN and a VPN inside Tor. It also
filters DNS, redirects traffic, arms a kill switch and changes its exit periodically. One asyncio event loop runs it all;
what it changes outside the process (firewall tables, `/etc/resolv.conf`, child processes) outlives it. This project models
the parts where the order of things matters, checks them with TLC and proves theorems about them with TLAPS.

All paths are relative to `src/nextron/`.

## Inventory

| Component | State | Operations | What is hard | What makes it correct |
|---|---|---|---|---|
| Routing manager `routing/manager.py` | `_lock`, `_mode`; the route status of the application state | `establish`, `teardown`, `revalidate`, `cleanup_stale_rules` | cancelled while building; a failure after some hops are up; `revalidate` and the clean-up take no lock | one route at a time, torn down in reverse order, nothing left of a failed one |
| Runtime `core/runtime.py` | watchdog task, schedulers, profile mirror | `start`, `shutdown`, `connect`, `disconnect`, `switch_mode`, the toggles, source and profile management | what it does before it waits for the lock, and after it released it | nothing periodic outlives its route; every exit path tears down |
| Interface `tui/app.py`, `cli.py` | an exclusive routing worker, a quit flag | connect, disconnect, quit; second shutdown after the interface ended | a key press cancels the connect in progress | a request is never lost or half done |
| Verification `core/verification.py`, `diagnostics/leaks.py` | `route_status`, `verification_passed`; the baseline address and the address of the tunnel | `verify`, `collect` | long, concurrent with requests; compares with what was seen earlier | Connected rests on a verdict of this route, and a verdict that passed is right about the path |
| Tor `tor/engine.py`, `tor/daemon.py`, `tor/controller.py` | child process, external mark, ports, rotation lock, status | `start`, `stop`, `rotate`, `refresh`, bootstrap events, port search | attach or spawn, stalled bootstrap, rotation against stop | the daemon this session started is the one it stops; the status says what runs |
| VPN `vpn/manager.py`, `vpn/openvpn.py`, `vpn/wireguard.py` | `_current`, `_lock`, child process or interface, SOCKS hop | `connect`, `disconnect`, `switch` with fall-back, `watchdog` | retries, fall-back, a tunnel the engine has not recorded | the kill switch covers every transition |
| Firewall `vpn/killswitch.py`, `routing/transparent.py` | `_active`, rules in the kernel | `engage`, `release`, `is_installed` | several commands, each may fail; rules survive a crash | the flag and the kernel agree; a clean-up removes everything |
| DNS Shield `dns/shield.py`, `dns/resolver.py` | server, cache, upstream, `/etc/resolv.conf` and its backup | `start`, `stop`, `toggle`, `use_tor_dns`, `reload_lists`, `flush`, resolve | no lock; queries in flight while the upstream changes; crash with a foreign `resolv.conf` | no answer of an old upstream after the change; the file comes back |
| Blocklists `dns/blocklist.py`, `dns/sources.py`, `dns/adblock.py` | blocked and allowed names; the folder of lists, the catalogue, the selection | `load`, `is_blocked`, whitelist; scan of the drop-box, import, download, enable, remove | reload in a thread while queries are answered; workers that end after the user changed his mind; a second program | the whitelist wins; what the user switched on stays on; a scan settles |
| Schedulers `scheduler/*.py` | task, interval, pause and trigger events, failure count | `start`, `stop`, `toggle`, `pause`, `resume`, `trigger`, `set_interval` | trigger or pause at any step, action in flight when stopped | fires at the interval, never while paused or stopped |
| Shuffle `vpn/shuffle.py` | queue, pool, algorithm | `next`, `peek`, `set_pool`, `set_algorithm` | the pool changes in the middle of a cycle | each profile once per cycle, never the connected one again |
| Profile library `vpn/profiles.py` | profiles in memory, one file each, an index | load, import, delete, edit, scan of the drop-box | two writes per change, two programs, killed in between | no profile is lost or shown without a file |
| State and events `state/manager.py`, `core/events.py` | a record, handlers, a history | `update`, `emit`, `on` | handlers that raise | listeners see the last state |
| Configuration and storage `core/config.py`, `storage/*` | one TOML file, SQLite | load, save the whole document, record | two programs write it | replaced in one step |
| Child processes `core/process.py` | a process | `run`, `spawn`, `terminate` | it goes on when its caller is cancelled | no child is left over |
| Diagnostics, utilities, screens | none that matters to the rest | | | |

The parts interact by direct awaited calls (runtime → routing manager → engines), by the shared application state and
configuration, by the event bus (bootstrap progress, activity), and through the operating system.

## Plan

Done, in this order:

1. `Session`: runtime, routing manager, interface and watchdog with the engines as contracts. It is the core: every other
   part is used by it.
2. `Firewall`: kill switch and redirect command by command, with failures, crash and restart.
3. `Rotation`: the scheduler's loop with its action in flight, and Tor's rotation under it.
4. `Shield` and `Resolver`: the Shield's start and stop with `resolv.conf`; queries, cache, lists and whitelist; `Adblock`,
   what a filter list means to them.
5. `Shuffle`, shown to implement `Cycle`.
6. `Vpn`: the engine, its two backends, its callers and the watchdog that reconnects.
7. `TorDaemon`: attach or spawn, the port search, the bootstrap and its limits, the end of the process.
8. `Profiles` and `Blocklists`: what the two libraries keep on disk, the drop-box they mirror and the command line beside
   the interface.
9. `Verification`: the checklist, and what a verdict that passed proves.
10. `Route`: what a session promises without its tasks, its lock and its awaits, and `Session` shown to implement it.
11. Theorems for every safety property that a run checks.

Left: the event bus, if a handler ever awaits.

A state module `X` gets `MCX` where its instance needs definitions. Theorems are in modules of their own, by subsystem:
`SessionProofs` (with `Verification`), `FirewallProofs`, `TorDaemonProofs`, `VpnProofs`, `DnsProofs` (`Shield` and
`Resolver`), `BlocklistsProofs`, `SchedulerProofs` (`Rotation` and `Shuffle`) and `ProfilesProofs`. As one proof module may
extend two state modules, `Resolver` and `Shuffle` prefix the names every module has (`ResolverInit`, `ShuffleSpec`).
`RoutingMode` holds what `Session`, `Route` and `Verification` share: the modes and their hops. No module uses RECURSIVE.

## How to read a module

One asyncio event loop runs the program. What a coroutine does between two awaits is atomic, so an action is the code from
one await to the next; threads (list loading) and child processes (firewall commands, writes to `/etc/resolv.conf`) take
steps of their own. Operators that no action uses and that stand directly above one they resemble (`BackUpAgain` above
`BackUpOnce`) are plausible wrong versions of it. `PROJECT.json` says which property notices each of them, under "mutants".

Comments cite `file.py:line`. `PROJECT.json` "map" gives the lines of every definition.

## Session

**Correspondence.** A request (connect, disconnect, `switch_mode`, shutdown) is a task with a program counter, `pc`. "stop"
and "wait" are `runtime.py` before and at the routing lock; the names in `Building` are the awaits of `establish`
(`manager.py:76-210`), those in `Tearing` the steps of `_teardown_locked`, where `ret` remembers what follows: the build of
the new route, the error path, or the release of the lock. `lock`, `mode`, `status` and `passed` are the fields of the same
meaning. `torProc`/`torExt` are the daemon's process and its external mark, `vpnProc`/`vpnCur` the tunnel process and
`VPNEngine._current`: the code tells them apart, and they can disagree (see "Known behaviour"). `trans` and `ks` are rules in
the kernel, "stale" when an earlier session left them. `boot` is `cleanup_stale_rules`, which takes no lock; `wd` is the
watchdog with `revalidate`; `quit` the way out of the program, with its second shutdown.

In the interface a routing key *cancels* the connect in progress (`tui/app.py:120-154`, an exclusive worker). A cancelled
`establish` raises `CancelledError`, which its except clause does not catch, so it stops wherever it was: `UserConnect`
aborts the tasks in `Aborted` and hands the lock over.

**Constants.** `Tui`, `Strict`, `KillSwitch`: who calls and how the program is configured. `TargetCheck`: FALSE is the code,
where `VPNEngine.connected` reads `_current`, which is set only after the check that uses it, so that no first tunnel is
ever recognised; TRUE reads the target of the connect, which lets the runs explore the VPN modes past that point.
`ForeignTor`: another Tor serves the ControlPort (used by the proofs; the runs have FALSE). `LongSession`: watchdog ticks
occur. `Toggles`, `Crashes`: keys that toggle schedulers and Shield; a dying Tor. `MaxToggled`: a bound
on those keys.

**Runs.**

| Run | Instance | What it shows |
|---|---|---|
| `session_tui` | interface, 2 tasks, all four modes, strict, watchdog, the code as it is, fair; 436 k states | whatever is pressed while something is in progress: one task at a time inside the lock (`LockDiscipline`), no redirect without its Tor (`TransparentNeedsTor`), no Shield on a dead DNSPort (`ShieldUpstreamAlive`), Connected rests on a verdict that passed (`ConnectedIsVerified`); and a quit ends, behind whatever holds the lock when it is asked for and whatever is pressed while it waits (`ShutdownEnds`) |
| `session_api` | direct calls, 3 tasks, all four modes, tunnel check repaired; 1.8 M states | the session implements `Route` (`OneRoute`), and a route never has a hop of another (`OnlyItsHops`) |
| `session_faults` | interface, 2 tasks, two modes, not strict, toggles, crashes, watchdog, the code as it is; 3.0 M states | when the program has ended, what `tui/app.py:237-244` promises is done, with the exceptions `strays` names (`CleanExit`) |

**The end of the program.** `run_app_async` promises that every exit path releases the kill switch and stops the Tor and VPN
processes. It does not keep that after a connect that was cut short. `strays` records what such a connect left and nobody
removed since: "tunnel" and "switch" when it is cancelled, or refused by the check that reads `_current`, while its tunnel
comes up ("switch" alone when the tunnel failed), because the engine has recorded neither and the teardown skips the VPN
(`routing/manager.py:292`); "tor" when the last shutdown lets go of the session's own daemon, which a later connect had taken
for a foreign one. `CleanExit` says that a program which has ended has no other tunnel, kill switch or Tor, and none of
everything else; it is exact about the exceptions, not silent. A disconnect that waits for the lock is followed by the
schedulers and the watchdog of the connect it waited for (`runtime.py:483-504`): it is the second shutdown, after `App.exit`,
that stops them, and the mutation that forgets it is found. As the code is, no tunnel is ever recorded, so the removal of a
recorded tunnel with its kill switch is reached by `ExitIsClean`, which holds for either value of `TargetCheck`, and by `Vpn`.
The module has one tunnel and one Tor: a tunnel that a connect left may outlive the next one, a Tor still booting that is
replaced by another is forgotten.

**Abstraction.** `Route` has three variables: the phase (down, building, live, tearing), the mode it is about, and the set
of hops that are up. A hop only comes up when those it goes through are; the route serves when all that its mode needs are
up; a step that fails leaves its own hop up or gone; whether it served or failed, everything is taken down in reverse order
(redirect, Shield, tunnel, Tor) before the next route is begun. The mapping (`Phase`, `Goal`, `Up`) reads them off the task
that is inside the lock and off what runs and what the kernel has, not off what the program believes. `session_api` checks
`OneRoute` and `ImplementsRoute` proves it.

`OnlyItsHops` and `OneRoute` are stated of direct calls, where nothing is cancelled; under the interface's cancellation they
fail. `ModeViaNone`, that a live mode is never replaced directly, holds there too and is proved (`TornDownFirst`).
`session_tui` also evaluates the two assumptions of `MCSession` about `Verification`.

**Bounds.** Two tasks: every conflict the code has is between a request in progress and one that waits, aborts or follows
it, and slots are reused without limit, so sequences of requests are not bounded; three where nothing is cancelled. Two modes
(one of each kind of hop) where toggles and crashes multiply the states, all four where they do not; and there the user has
the shuffle on or the Shield off, not both at a time (`MaxToggled`). One Shield toggle in flight. The pool has two profiles.
Firewall commands succeed here. A watchdog tick does not come before a request that is on its way to a free lock.

**Fairness.** Weak fairness of each task's steps, of the clean-up, of a toggle in flight and of the watchdog: every await in
the code has a time limit and asyncio runs what is ready. Nothing is assumed about the user, crashes or verdicts. asyncio
wakes the waiters of a lock first come first served; the model hands it to any waiter. With two tasks only one waits at a
time, so `ShutdownEnds` does not depend on that order; among more waiters it would. A key press cancels the connect that holds
the lock or waits for it and puts another in its place, as often as the user likes, while the shutdown waits.

## Firewall

**Correspondence.** An action is one `nft` or `iptables` command with the code up to the next. `nft` is the set of rule sets
in NEXTRON's table, `chain` the rules tagged NEXTRON in OUTPUT, in order, `nat` and `filter` the redirect's tables.
`KsDelete`, `KsAdd` are the nftables backend of `killswitch.py`; `KsFlushRound`, `KsAccept`, `KsDrop` the iptables one with
its bounded rounds of deletion; `TrNat`, `TrFilter`, `TrAdd` the redirect, whose two tables are deleted one by one and loaded
together. A command fails (`Fails`) or succeeds; a failed one may have taken effect where the code does not tell a time limit
from a rejection. `CancelKs` and `CancelTr` are a key that cancels the connect inside an operation: the flag stays as it was,
and the child that runs the command is not ended (`core/process.py:126-146`), so the command has done its work, never does, or
does it later, beside the next operation (`OrphanEnds`). `Crash` may come at any step: the kernel keeps what it has, and the
next start runs `cleanup_stale_rules` from the beginning.

**Run** `firewall` (154 k states): both backends, two commands that fail or outlive their caller, any number of
cancellations and crashes. Cancelled operations break the agreement of flag and kernel: a kill switch cut off between its two
commands says active with nothing in the kernel, one cut off after the second says inactive with the rules loaded. `cut`
remembers this until an operation begins with no such command under way and runs through, and the properties hold outside
it: the flag never claims what the kernel does not hold (`NeverPretends` for the kill switch; `RedirectComplete` for the
redirect is proved), whatever failed; where no command failed, flag and kernel agree and nothing of an earlier phase, of a
failed session or of a cancelled operation remains (`FlagMatchesKernel`). So one operation that runs through makes up for
whatever was cut off before. While no command fails or outlives its caller, no redirect is without the filter that drops what
cannot be redirected, cancellations included (`NoLeakBesideRedirect`); a start removes whatever a crash left
(`CleanupRemovesAll`).

**Bounds.** `Accepts` = 2 rules tells "none", "some" and "all" apart. Two failures suffice for a failed engage followed by a
failed clean-up. `MaxDeletes` is 64 in the code and 9 here: like 64 for the code's rule sets, more than what two failed
sessions can pile up; with 8 or fewer `FlagMatchesKernel` fails. The operations of one rule set are
sequential (the engine's lock, the routing lock). The clean-up ends before the first operation, as in a headless session;
`Session` has it beside a connect. The addresses and text of the rules are left out.

## Rotation

**Correspondence.** `loop` is where `Scheduler._run` waits: counting a second, in its action, in the back-off, or no task.
`tails` holds the actors between the cancellation in `stop()` and the rest of it, which resets the countdown and writes the
configuration: it can run after another key has started the scheduler again. `phase` and `lock` are the awaits of
`TorEngine.rotate` for the scheduled and the manual rotation. `route` is the session that starts and stops Tor around it.
`since` and `cut` are history: ticks since the countdown was last restarted, and whether a rotation was cancelled or
outlived its Tor.

**Run** `rotation` (198 k states): two keys, manual rotation, intervals 1 and 2, failures. `NeverEarly`: no interleaving of
toggles, half-done stops, interval changes and failures shortens a countdown. `EnabledFollows`, that the configuration says
whether the scheduler runs, is proved. `OneRotation`: rotations exclude each other. `StatusIsRight`: the status of Tor,
unless `cut`. `KeepsFiring` and `TriggerTaken` are liveness properties.

**Bounds.** Intervals 1 and 2 separate "at once" from "later" and allow a change in both directions; one change; failures
counted to 2, enough for the back-off to exceed the smaller interval and be cut to it. Cancelling the loop takes effect at
once, as it only unwinds. `pause` and `resume` have no caller. A trigger set in the very iteration in which a second ends is
left out.

**Fairness.** Weak, for the loop, the steps of a rotation and the rest of a stop: asyncio runs what is ready and every
ControlPort command has a time limit. Nothing is assumed of keys and of the session.

## Shield

**Correspondence.** `pc` is, per caller, the await inside `DNSShield.start` or `stop`: the lists, the bind on the main or
the fallback port, `cp` and `tee` of `_take_over_resolv_conf`, the statistics, `tee` of `_restore_resolv_conf`, the close.
`mine` is the listener a start created, `current` is `_server`: two starts can make two. `port` is what the listener objects
hold in the kernel. The callers are the D key (`toggle`) and the routing manager, with nothing to keep them apart, and a
routing key that cancels the latter. `Crash` keeps `resolv`, `backup` and the saved setting. A child process whose caller is
gone still finishes or not (`ChildEnds`), and one that is killed at its timeout may have written the file first
(`NotTakenOver`, `Restored`). `NetworkChanges` is the system rewriting the file.

**Run** `shield` (342 k states): with the Shield down and nothing in progress, the system does not point at it
(`DownMeansForeign`); the backup is never the Shield's own text, although a crash leaves that text in place
(`NeverBackupOwn`); no listener is lost (`OneListener`); the status and the saved setting are right (`ShownActive`). All four
are also theorems.

The history variable `astray` is set when calls overlap, are cancelled or fail, or when a take-over that counts as failed
had written the file, and cleared by a stop that runs alone and succeeds; `tangled` when calls ever overlapped or a backup
failed. The properties are stated outside those cases since the code has no lock, and inside them they do not hold: see
"Known behaviour". They do cover everything after the recovery, crashes included.

**Bounds.** One key beside the routing manager is already two callers; five listener objects, more than can be alive at a
time; two foreign contents, to tell old from new; one failure; one change from outside. The statistics and the TCP listener
are left out.

## Resolver

**Correspondence.** A load is a thread: each step of `BlocklistLibrary.load` that touches a shared set is an action
(`Discover`, `Clear`, `ReadFile`, `ClearWhitelist`, `ReadWhitelist`, `Merge`), and queries read those sets in between. Names
are sequences of labels, so `IsBlocked` is the code's walk over the parents of a name and `ShouldBlock` states from the
enabled lists and the whitelist file alone what it ought to answer. `whitelist_add` writes the file, then the set; a thread
can read between. `LoopDiscovers` is the event loop's own `discover` (the scan of the folders, the DNS screen), which
refills the table a load has discovered and not yet taken up. `SetUpstream` clears the cache; `Forward`, `Answered` and
`TimedOut` are a question with its retries on the servers of the upstream it began with.

What the files hold comes from `Adblock`: a list is a set of lines, and `Domains`, `Exceptions` and `Rendered` are what the
parser takes from it and what a download is stored as. `MCResolver` builds a downloaded and a dropped list from such lines.
Its assumption `RenderedReadsBack` states, for all lists of three lines, that a stored download reads back as the domains it
was converted to and releases nothing.

**Run** `resolver` (1.60 M states): when no load is in progress, a whitelisted name is never blocked however loads and
additions overlapped (`WhitelistWins`), and lists, whitelist and exceptions decide exactly as documented (`MatchesLists`,
unless loads that were asked for different lists overlapped, or one took up what the event loop had discovered: `mixed`);
only questions in flight at a change of the upstream are answered or cached from the old one (`LateOnly`).

**Bounds.** Two threads, one query: queries meet only in the cache, which the two threads and the upstream also change. A
name and two under it, so that a whitelisted parent matters to names that are listed themselves; two lists, one with an
exception to what the other blocks; two plain servers, so that there is a retry, and one Tor. One change of the whitelist or
the lists, or one discovery of the event loop, beside any number of reloads. Answers that are sinkholed or cached change no
state. `whitelist_remove` has no caller.

## Shuffle

**Correspondence.** The variables are the fields of `ShuffleEngine` and `VPNEngine._current`; `Switch` and `SwitchAgain` are
the two questions of `VPNEngine.switch`. A shuffled order is any order. `Cycle` is what the docstring promises with no queue
in it: the set of profiles this cycle has still to use, and the profile handed to the switch that asks. A turn hands over a
profile that had none in this cycle and takes exactly that one; `random` and `sequential` hand over any profile of the pool.

**Run** `shuffle` (7714 states): the four algorithms, every list of three profiles as a pool at any time. `OncePerCycle` is
the refinement: `Shuffle` implements `Cycle` with the pool and the queue as sets and `handed` as what the switch was given
(`Handed`), so under `round_robin` and `no_repeat` each profile is handed over once per cycle; an engine that takes one turn
and hands over another profile is caught. `NeverSame`: no switch reconnects the
connected profile when there is another. Both are theorems for any finite set of profiles.

**Bounds.** Three profiles: a pool can lose the connected one and still have a choice.

## Vpn

**Correspondence.** `queue` is the engine's asyncio lock, which is first come first served: its holder and the calls that
wait. `step` is the await the holder is in: `guard` and `steady` between the two commands that re-arm the kill switch,
`drop` the old tunnel, `up` and `wait` for OpenVPN, `wgup` for `wg-quick`, `check` whether it is connected, `observe` its
address, `release` in `disconnect`. `goal`, `back` and `tries` are the locals of `_connect_locked`, of `switch` and of the
backends' retry loop. `proc`, `ready` and `iface` are the fields of the two backends, `links` the interfaces in the kernel,
`ks` the kill switch's rules loaded last, as the phase and the profile they let through. `reads` is what `connected` looks
at: "current" is the code, with which no tunnel is ever recognised; "target" the repair. The callers are the routing manager
(`route`), the shuffle timer and the user's "connect this profile" (`Switches`), and the watchdog ("dog"), whose verdict on
WireGuard takes an await (`checking`).

**Run** `vpn` (676 k states), over both checks. With the code's, every bring-up that succeeds is rejected with its tunnel up,
and that is what `unseen` names; the rest of the engine's life is reached with the repaired one only. Four properties are
stated with what they exclude, and hold for both:

- `TunnelsAccounted`: a tunnel that lives while nobody works on it is one the next disconnect finds, unless a cancelled call
  left it (`lost`) or the check took it for none (`unseen`).
- `NeverOpen`: the kill switch of a live route is open only between the two commands of a re-arm, or after a re-arm that was
  cancelled there or whose load was refused (`rearm = "open"`); no failure, fall-back or reconnect opens it. It is therefore
  open for a moment in every switch.
- `SteadyFollows`: after a re-arm of which both commands succeeded it lets the active tunnel through and no other.
- `DownIsDown`: no reconnect of the watchdog brings a tunnel back behind a route that was torn down, behind whatever switch it
  waited. A switch that gets the lock after the teardown does (`late`).

Every call ends (`CallsEnd`).

**Bounds.** One profile of each protocol: the conflicts of the engine are between the backends, and a switch between two
profiles of one protocol is a retry of the same backend. One switch slot, which the timer and the user share: with the
routing manager and the watchdog that is three callers for one lock. One retry separates the first from the last attempt.
The kill switch is the nftables one and its release succeeds (`Firewall` has the other backend and lets a release fail), its
setting is constant, and two WireGuard interfaces at a time do not occur.

**Fairness.** Weak, for the holder of the lock: every await of a backend has a time limit.

## TorDaemon

**Correspondence.** `tenant` says who listens on each port, `boot` which Tor processes live and how far each bootstrap is;
the other variables are fields of `TorDaemon`, `TorController` and the status. `step` is the await of `TorEngine.start` and
`stop`. `Found` is `find_free_port`: the preference, or the first free port of the range behind it. `Attach` takes over
whatever answers on the ControlPort. Other programs take ports at any time, also between the search and Tor's bind; a
foreign Tor with the configured ControlPort comes and goes, its SOCKS on the configured port or elsewhere; ours crashes; a
key cancels a start at any await.

**Run** `tordaemon` (214 k states): a start that fails anywhere leaves no process (`LeavesNothing`); the ports of a daemon
differ (`PortsDiffer`); every start ends and is cleaned up (`StartEnds`). `SameTor`: with a daemon of our own the Tor whose
identity is rotated is the one behind the SOCKS port. After an attach it says less, because the code looks at the ControlPort
only: the Tor that is rotated is the foreign one, and the SOCKS port leads to no process of ours; it may lead to another
program or to nobody.

**Bounds.** Two of the four ports, in ranges that overlap: the other two are searched in the same way. Two processes: one left
behind and its successor. Two stages of bootstrap. `cut` excuses what a cancelled start leaves. `tor.manage_daemon` is true,
and the status events of the controller are left out.

**Fairness.** Weak, for the awaits, which all have time limits, and for the teardown that follows a start that raised
(`manager.py:112-124`). Nothing of Tor: it may repeat one line for ever.

## Profiles

**Correspondence.** `files`, `index`, `conf` and `box` are on disk: the configurations in `profiles/`, `index.json` (`Torn`
when it was emptied and not written), `config.toml` and the drop-box. `lib` and `mem` are the interface's copies, `clib` and
`cmem` the command's, `rotation` the profiles the shuffle holds. Writing a configuration takes two steps, as `write_text`
opens and so empties the file first (`Store`, `Stores`), and so does writing the index (`OpenIndex`, `WriteIndex`); either
program can be killed between any two (`Ends`, `CliEnds`). `pend` is a scan in progress, what it has still to import, drop
and forget, and the profile being stored. A load adopts a file without a profile when `detect_protocol` can tell what it is
(`Recognised`): an emptied `.ovpn` by its suffix, an emptied `.conf` not. The remaining actions are the requests of the
library, pool and profile screens and the `vpn` and `config` commands.

**Run** `profiles` (4.6 M states): every profile has a file of its own and every file a profile, whatever was killed before
and at whichever write, except the file being stored and files whose protocol cannot be told (`Accounted`, while nothing else
writes there): a kill between opening and writing a WireGuard configuration leaves such an empty file for good; the drop-box
still has the text, and the next scan stores it again; the shuffle rotates over the configured pool, or all, after
every operation (`PoolResolved`); a scan that reports no change leaves what the drop-box holds (`ScanSettles`).

**Bounds.** Three identities, so two profiles and one more; three texts: a configuration, a descriptor that carries the same
one, and one that is no use; four requests beside any number of starts, ends, scans and connects. Writes do not fail.

## Blocklists

**Correspondence.** `dir` is the folder of lists, `box` and `dropped` the drop-box with its lists and its catalogue,
`catalogue` the addresses with their switches, `conf` and `mem` the selection on disk and in the interface. `scan` holds the
locals of `_sync_dns_sources`; a worker (`job`) is an import with its two threads (`Adopt`, `StoreList`, which run beside a
scan) or an update whose answers come one by one; `cli` is `nextron dns update`. A list is its name.

**Run** `blocklists` (3.4 M states): a scan that reports no change leaves the drop-box and the downloads, and no second copy
(`ListsSettle`); a list the user switched on stays on until he switches it off or it is removed, whatever ends in between
(`ChoiceKept`). Both are theorems.

**Bounds.** One name of the user's and two spare ones, an address whose list has a name of its own and one whose list takes
the user's; two workers; four requests. The library's `_files`, which a load in a thread can empty under a scan, is taken as
the folder; no list is called `sources.txt`.

## Verification

**Correspondence.** `Good` states per check what its probe must find, `Required` which of them reject the route, `Result` the
four outcomes, `VerifyReport` the checklist; `Network`, `Running` and `Memory` are what the probes look at. A pass is one
look at one world. `Session` takes the verdict as a choice, since the network is not its own.

Two theorems say what the verdict is worth. `PassedIsRight`: with a baseline and a tunnel address of this very network
(`Fresh`), a report that passed means that Tor carries traffic in a mode with Tor, that the tunnel is up in a mode with one,
and that ordinary traffic leaves through the tunnel where the addresses are compared. `TorForAll`: Tor Only without a
warning means every application. `MCSession` evaluates the first over two addresses (`PassedIsProven`) and shows that
`Fresh` cannot be left out (`FreshIsNeeded`): with a baseline taken elsewhere an unprotected machine passes. Each mode can
pass, so the theorem is not empty.

## Theorems

TLAPS proves these for every value of the constants that the named ASSUMEs admit. Every safety property of the runs is among
them; "Needs" is what a theorem assumes beyond that.

| Module | Theorem | Needs | Argument |
|---|---|---|---|
| `SessionProofs` | `TypeCorrect` | | one lemma per group of actions |
| | `OneAtATime` | | `LockDiscipline` is inductive with the types: an abort removes the holder and hands the lock over in the same step |
| | `TornDownFirst` | | `FreshSlate`: a task that has not yet set the mode (or just tore down) finds none; needs the lock, since else another task could set it |
| | `RedirectHasTor` | `~Crashes` | `RedirectInv`: an external mark means a foreign Tor or our own; bootstrap means a booting, unmarked daemon; past the first step of a teardown the redirect is gone. So Tor is only stopped with the redirect down |
| | `ShieldHasUpstream` | `~Crashes`, `~Toggles` | `UpstreamInv`: without a route nothing is forwarded to Tor, so a Tor that is stopped while a route is built is nobody's upstream |
| | `NoForeignHops` | `~Tui`, `TunnelsSeen` | `HopsInv`: who builds has only hops of his mode, and with no route and nobody inside the lock nothing is up; a recorded tunnel is one that lives |
| | `ImplementsRoute` | `~Tui`, `TunnelsSeen`, `~Crashes` | `HopsInv`, and `StageInv`: who builds has the hops it came through, and the Shield is only up beside a live route. Each step then maps to one of `Route` or a stutter (`BuildIsRoute`, `TearDownIsRoute`, `EnterIsRoute`, `OutsideIsNotRoute`) |
| | `VerifiedFirst` | `LongSession => Tui` | `VerdictInv`: nobody but the task that verifies writes status or verdict meanwhile; in the interface a watchdog that looks at a route is alone |
| | `ExitIsClean` | | `QuitInv`: one task shuts down, nobody is left beside the last one, and what each step of it has already removed; `StraysKnown`: a tunnel or a kill switch without a record is being brought up or was left by a request that was cut short |
| | `PassedIsRight`, `TorForAll` | `Fresh`, `Plausible`; routing check on | a required check of a report that passed was good |
| `FirewallProofs` | `FirewallTypeCorrect`, `KillSwitchHonest` | | the flag is only set by the command that adds the drop |
| | `RedirectHonest`, `NoLeak` | | one command loads both tables, and the filter is only deleted once nat is gone, also by a clean-up that a crash interrupts |
| | `FlagIsKernel`, `CleanupIsComplete` | `EnoughRounds` | a failed command leaves at most one rule set more and one left behind at most one rule, so the rules in the chain never exceed a quota (`Quota`) that grows with both; `LeftOvers` says that a command left behind belongs to an operation that was cut off; `RuleSet` and `Swept` say what an operation has loaded and a clean-up removed |
| `TorDaemonProofs` | `PortsAreDifferent` | | `World`: a server is a live process, and a start has a pair of ports |
| | `NoTorIsLeft`, `RotatesTheTorInUse` | | `Calm`: unless a start was cut, no Tor of ours lives but the recorded one, and the controller speaks to nobody else |
| `VpnProofs` | `TunnelsAreAccounted` | | `Held`: nobody is twice in the queue of the lock and its holder's step fits its call; `TunnelInv`: while a tunnel is brought up nothing else lives, and a check of the recorded profile never records a first one |
| | `KillSwitchStays`, `KillSwitchFollows` | | a route that comes up was armed by the holder that brings it up, a re-arm that is cut short says what it left, and only a disconnect that found the route torn down releases |
| | `DownStaysDown` | | `DownInv`: a torn-down route has no profile, and who records one without a live route is a switch and says so |
| `DnsProofs` | `ShieldTypeCorrect` | | one lemma for the steps of a call |
| | `BackupIsForeign` | | `Untangled`: until calls overlap or a backup fails, a copy is only made where there is none and the Shield's text is only written once there is one; a crash keeps both facts |
| | `DownIsForeign`, `NoListenerLost`, `StatusIsShown` | | `Straight`: what holds at rest (`Resting`) and at each await of the one call in progress (`AtAwait`); a stop that runs alone establishes it from any state |
| | `ResolverTypeCorrect` | | lists and queries apart |
| | `WhitelistHolds` | | `WhiteKept`: a whitelisted name the library lacks is half added, or a load has read it and not merged it, or is about to read it |
| | `ListsMatch` | | `Matching`: overlapping loads agree on the lists, and those past the clearing bring in together what the lists hold |
| | `OnlyLateLeak` | | `NewOnly`: every server a question has still before it, not only the next, is of this upstream |
| `BlocklistsProofs` | `BlocklistsTypeCorrect`, `ChoiceIsKept` | | what a scan has collected contains what was chosen, as no request is taken during a scan |
| | `ListsAreSettled` | | what holds during a scan that has changed nothing and that nothing disturbed |
| `SchedulerProofs` | `RotationTypeCorrect`, `CountdownIsWhole` | | every restart of the countdown restarts `since` |
| | `RotationsAreExclusive` | | `ActIsRotation`: the loop acts exactly while a scheduled rotation is under way, so cancelling it frees the lock |
| | `EnabledIsRecorded` | | `EnabledRecorded` and who may be in `tails` |
| | `StatusIsTrue` | | `TorFollows`: Tor runs from the start of the session to its end |
| | `ShuffleTypeCorrect`, `NeverRepeats` | finite `Profiles` | `ShuffleInv`: the types, and while a switch asks again the algorithm is a queue one, the pool has more than one profile and the queue holds the whole pool |
| | `ImplementsCycle` | finite `Profiles` | every step maps to a step of `Cycle` or a stutter: what is handed over is the first of the (turned) queue, and taking the first of a queue without repetition takes it from the set; a pool of one has a turn every time |
| `ProfilesProofs` | `LibraryIsAccounted` | | `Kempt`: no two profiles share an identity or a file; a profile being stored is not in the library yet; with the interface alone in the folder, memory is what is stored but for that file and those that cannot be told, and the index is the memory or its write is due |
| | `RotationIsResolved` | | `Fresh`: only a scan separates the rotation from the resolved pool, and it ends by resolving it |
| | `ScanMirrors` | | `Settling`: from the beginning of a scan that changes nothing to the next event |

What the named conditions mean. `TunnelsSeen`: in every mode of `Picks` that has a tunnel, `TargetCheck`. So `NoForeignHops`
and `ImplementsRoute` speak of the code as it is where only Tor Only is picked, and of the repaired check elsewhere.
`EnoughRounds`: `Quota(MaxFaults) <= MaxDeletes`, that the bounded rounds of a release suffice for what the failures of one
lifetime can pile up. `~Crashes`: no Tor dies by itself; when one does, redirect and Shield point at nothing until they
are taken down. `LongSession => Tui`: the watchdog only ticks in the interface (see "Known behaviour").
`RedirectHasTor` also covers a foreign Tor on the ControlPort, which the runs leave out.

`Vpn` filters its queue with a recursive function. That it grows one prefix at a time is proved from `Induction`, an
induction over the naturals stated for a set, as the library's takes an operator.

Only model-checked: the liveness properties `ShutdownEnds`, `KeepsFiring`, `TriggerTaken`, `CallsEnd` and `StartEnds`, which
need fairness and ENABLED and are out of the prover's reach; and the two assumptions of `MCSession` and the one of
`MCResolver`, which are evaluated over small sets.

## Known behaviour

The models contain the following; no run is kept for them, and the properties above are stated so as not to claim the
contrary.

- A disconnect stops schedulers and watchdog and then waits for the lock; the connect that holds it starts them afterwards,
  and they outlive the route (`core/runtime.py:483`).
- `stop()` of a scheduler records that it is off (`scheduler/base.py:127`), so rotation and shuffle do not survive a
  disconnect or a switch.
- A Tor of a cancelled connect is later taken for a foreign one and never stopped (`tor/daemon.py:369`).
- A periodic re-verification that passes leaves the status at Verifying (`routing/manager.py:330`).
- In a program that switches routes while the watchdog looks, the verdict on the old route is written over that of the new
  one, so Connected can be shown on a verdict that failed (`routing/manager.py:326`). The interface stops the watchdog
  first.
- A Shield toggle uses a DNSPort it read before its awaits (`runtime.py:654`).
- The start-up clean-up takes no lock and can remove rules of a connect that began beside it, in the interface.
- Arming an armed nft kill switch takes two commands, with no rule between them, although the comment says "atomically"
  (`killswitch.py:227`). A connect cancelled there leaves the flag of the earlier engagement with nothing in the kernel; one
  cancelled after the second command leaves rules with the flag off, which no disconnect releases. The same holds of the
  redirect. The cancelled command itself goes on and may undo what the next operation has done. Releasing ignores failures
  and reports "off" (`killswitch.py:162`).
- A trigger survives a stop and fires the next start at once (`scheduler/base.py:151`). A manual rotation that outlives its
  Tor writes Active over the stopped state; a cancelled one leaves Rotating (`tor/engine.py:135`).
- Overlapping Shield calls can leave `resolv.conf` naming a closed listener, leave a listener open for ever, or back up the
  Shield's own text (`dns/shield.py:101, 317, 335`).
- A `tee` that is killed at its timeout after it wrote leaves `resolv.conf` naming the Shield, which believes it does not
  manage it: its stop restores nothing (`dns/shield.py:324-333`, `340`).
- Overlapping loads with different selections leave a mixture; with no list enabled all are (`dns/shield.py:197`). Opening
  the DNS screen or scanning the folders while a load is between `discover` and `items()` makes that load read other lists
  than the enabled ones, or part of them, until the next reload (`dns/blocklist.py:131-136`, `runtime.py:394`,
  `tui/screens/dns_shield.py:86`).
- A question in flight when Tor becomes the upstream may still go on to the next plain server (`dns/resolver.py:194`).
- No first tunnel is ever recognised: `connected` reads `_current`, which is set after the check that uses it
  (`vpn/manager.py:73-78`, `210`, `224`). The connect raises with the tunnel up, the route's teardown skips the VPN
  (`routing/manager.py:292`), and a program that ends then leaves the kill switch armed.
- A connect cancelled in the interface leaves its hops up (`tui/app.py:154`), so `OnlyItsHops` and `OneRoute` are checked
  without it. If that was while its tunnel came up, the tunnel and the kill switch outlive the program, and so may a Tor of
  the session's own that a later connect attached to, although `tui/app.py:240-242` promises all of them gone.
- Toggling the shuffle off while its switch re-arms the kill switch leaves the route live with the switch open and the flag
  on (`killswitch.py:228`, `scheduler/base.py:122`); a load that is refused there leaves it open with an error message.
- A first connect that fails leaves the kill switch on; a switch after a teardown builds a tunnel without a route; the
  watchdog's captured profile undoes a switch the user made (`vpn/manager.py:460`); a switch to the other protocol always
  fails, because `connected` reads `_current` (`vpn/wireguard.py:106`, `vpn/manager.py:73-78`), and leaves the WireGuard
  interface.
- An attach asks the ControlPort only and takes the configured SOCKS port for the same Tor's (`tor/daemon.py:369`,
  `542-571`): when that Tor has its SOCKS elsewhere, identities are rotated in one Tor and traffic is sent to whoever has
  the port.
- An engine attaches to its own orphan daemon after a cancelled start, and the reader of a finished daemon can set the new
  one's `_ready`.
- The resolver file is backed up once and never renewed (`shield.py:317`), although the README promises it back "exactly as
  it found it" (`README.md:349-350`). The baseline of the verification is captured once too and is stale on another network.
- Names that a list blocks are forwarded while the lists load (`blocklist.py:132`).
- Shuffle repeats no profile within a cycle only; across the boundary of two cycles the preview can show the connected
  profile. Its pool holds frozen copies, so credentials set later do not reach a switch it makes.
- In the profile library: a kill between opening and writing a WireGuard file leaves an empty `.conf` that no load adopts
  and nothing removes (`profiles.py:485`, `313-318`); deleting a profile from the interface leaves it in `active_profile`
  and `shuffle_pool`, and the file in the drop box comes back under a new identifier; a description is imported again under
  a new identifier by each scan; of two profiles with one text a scan drops one; a torn index loses identities, names and
  credentials; a profile deleted while it connects makes `mark_used` raise; `_forget_profile` spares the connected profile
  only.
- In the list library: an edited list is not read again; a list imported by a scan that is killed is never enabled;
  disabling the last list enables all; an update enables again what the user disabled; two addresses may share a file name;
  a list named `sources.txt` never settles; the exceptions of a download apply by exact name and are then dropped.
- Two programs on one configuration overwrite each other's saved values.
- `vpn import` and `dns import` of the command line raise `AttributeError` (`cli.py:465` with `498`, `637` with `664`).
- Verification: "reached through the VPN tunnel" is not measured for Tor over VPN; `strict` makes no difference to `passed`,
  and warnings reject nothing, whatever `config.py:199` says; a check that raises is a hard failure even if it may only
  warn; the DNS probe passes when the Shield is listed beside a public resolver.

## Not modelled

- Text and layout: screens and widgets, rule text, certificates, argument parsing. Of the parsers only the adblock rules are
  modelled, and a name is a value, not a string.
- Network I/O: probes, downloads, the wire format of DNS. Each appears as its possible outcomes.
- The storage format. A file is there, torn or absent; a write that fails because the disk is full is left out.
- `diagnostics/doctor.py`, the event bus and the state manager: reports and plain notification, on which no control depends.
- Threads that clear `_files` under a running scan, and two WireGuard interfaces at once.
- `manage_daemon = False`, and `verification.enabled = False` in the Session: fewer steps of the same handlers.
- The status events of the controller connection, and `pause`, `resume` and `whitelist_remove`, which nothing calls.
- The kill-switch setting is a constant of `Vpn`; the user may change it between two routes only.
- A network that changes during one verification pass.

`PROJECT.json` "components" states for each part what its modules contain and leave out.
