# Verification of ice

`ice` is a command line tool for ESP-IDF projects: it installs toolchains and
ESP-IDF checkouts, binds a project to a chip, drives cmake and ninja, computes
what a build needs (configuration, linker script, partition table, component
versions, images), and flashes, monitors and emulates devices.  This directory
holds TLA+ models of its core logic, the TLC configurations that check them on
small instances, and proofs that TLAPS checks for every instance.

    tlc -config lock.cfg ConfigFile      # one of the runs of PROJECT.json
    tlapm HomeProofs.tla                   # the proofs of one module

Paths are those of the repository, below `src/`.

## Inventory

Most of ice is sequential: a command parses its options, reads some files and
writes others.  What makes it hard to get right is that several ice processes
share files (locks, settings, build directories, `~/.ice`), that every process
may be interrupted between two file operations, that some commands sit between
a child, a pipe and a user, and that what a build is made from is computed by
algorithms with many cases.

| component | state it keeps | operations | meets the others through | what makes it correct |
|---|---|---|---|---|
| lock files (`fs.c`) | a file per lock; `held_locks[]` of each process | `lock_acquire`, `lock_release`, `lock_forget`, the exit and signal handlers | every command that writes shared files | at most one holder; nobody removes another's lock; nothing is left behind; callers get an answer |
| config file (`config.c`) | `.ice/config`, `~/.ice/config`, their lock files | `config_write_file`, the rewrite that ends `ice init` | every command | a reader sees one whole document |
| settings (`config.c`, `options.c`, `cmd/config`) | the entries of the two files, their scopes | read, write, set, add, unset; what an option starts from | every command | a command keeps what it was not told to change |
| project life cycle (`cmd/init`, `build`, `clean`, `flash`, `cmake.c`) | the build directory with its markers `configured` and `built`, its lock, the profile in `.ice/config` | init, build, clean, flash | locks, settings, cmake, ninja | markers mean what they say; what is flashed was built |
| tool installer (`cmd/tools/install`, `tar.c`, `http.c`) | `~/.ice/dist`, `~/.ice/tools` | download, verify, extract | `ice init` | a tool that was installed is whole |
| ESP-IDF checkouts (`cmd/repo`) | a reference clone, checkouts that borrow its objects, a lock | clone, pull, checkout | git | a checkout that succeeded is whole and stays so |
| self update (`cmd/update`) | the executable, `~/.ice/update`, a lock | check, download, extract, replace | locks | the executable is never a part of one |
| dependency solver (`pubgrub.c`) | packages, versions, constraints; the decisions of a search | `root_dep`, `add`, `solve` | the component manager | an answer is a solution, an error means there is none, backtracking leaves nothing |
| component manager, resolving (`solve.c`, `registry.c`) | the queue and the names seen, the solver | `solve_resolve` | prepare calls it | the answer is right over everything published |
| component manager, on disk (`prepare.c`, `fetch.c`, `lockfile.c`, `cmake_out.c`) | `managed_components/`, `dependencies.lock`, two lists | prepare | cmake runs it and includes its lists | success means the components are there; the lock file pins; an interrupted run can be repeated |
| versions, rules, YAML (`semver.c`, `rules.c`, `yaml.c`, `manifest.c`) | in memory | parse, compare, match, evaluate, write | the component manager | what is read is what was meant; a constraint is met by what its predicates ask for |
| Kconfig files (`kc_lex.c`, `kc_parse.c`) | a stack of files, the tree | read | kconfgen, menuconfig | files declare what their author meant |
| Kconfig (`kc_eval.c`, `kc_io.c`, `kc_confread.c`) | symbols, choices, values | load, resolve, set, write | cmake, ninja | a configuration depends on its inputs only; what is written makes it again |
| configuration menus (`menuconfig.c`, `tui.c`) | rows, cursor, window, trail | keys | Kconfig | the caret is where the user expects it |
| compiler wrapper (`configdep.c`) | a dependency file | rewrite | ninja runs it | no dependency is lost |
| linker scripts (`ldgen`) | fragments, sections of libraries | read, place, emit | ninja runs it | every section is placed by its most specific mapping |
| partition tables (`partition_table.c`, `cmd/idf/partition-table`, `cmd/target/partition`) | entries | read, lay out, check, encode, decode, write, erase | the build, flashing | partitions are apart; what is decoded is what was encoded |
| size analysis (`cmd/idf/size`) | a tree of sizes | read, merge, diff, show | the user | every byte is counted once |
| images (`elf.c`, `elf2image.c`, `merge.c`, `info.c`) | segments | read, lay out, write, merge, describe | the build, flashing | the chip loads what was linked |
| terminal emulator (`vt100.c`) | grid, cursor, margins, modes, queue of rows | bytes, resize | the panes | the cursor stays inside, rows are not lost |
| log panes and consoles (`tui.c`, `monitor.c`, `qemu.c`) | rings of rows, a frozen view, a prefix key, a focus | bytes, keys, resize | serial ports, the emulator, gdb | text comes into the log once and in order; a frozen view stands still |
| children and progress (`progress.c`, `platform/posix/process.c`, `cmd/log`) | a ring of output, a log, a pipe, the child | start, read, show, hide, finish | init, build, flash | the log is whole; shown output has no gap |
| serial flashing, SLIP, core dumps, OpenOCD, downloads, command dispatch, hints, containers, the Windows layer | | | | not modelled, see the end |

The behaviours that are hard, which `PROJECT.json` lists as hazards at their
lines:

* *Signals between two steps.*  A lock is a file and an entry of an array; each
  changes by itself, and a signal handler acts on the array.
* *Interrupted sequences of file operations.*  `ice init` wipes a directory,
  runs cmake, writes a marker and renames a file; an installer, a checkout, an
  update and `prepare` have such sequences too, and each finds what an
  interrupted one left.
* *State read early and used late.*  `setup_project` reads the flash layout
  before the build that may change it; `repo checkout` looks at its destination
  before it waits for the lock.
* *Children that outlive their parents.*  A git that goes on when ice was
  killed; a process that holds a pipe when the child has ended.
* *Undoing.*  The solver takes back a decision and the constraints that came with
  it, and only those.
* *Fixpoints.*  Kconfig evaluates in rounds; what an earlier round left must not
  be seen in the result.
* *Input in pieces.*  Control sequences come in any pieces, while the view is
  frozen, scrolled or resized.
* *Boundaries.*  Rings that wrap, registries that are full, 32-bit sums, gaps
  smaller than a header.

## Modules

Each component has a module with its state as VARIABLES (or, for what is a
value of some program, as a record and operators on it), one action per
operation or step, and its properties.  `MC` modules give constants their values
and put components side by side: a behaviour of `MCComponents`, `MCIceHome`,
`MCBuildInputs` or `MCConsole` is about one topic, and everything else stays as it
begins, since the topics share no state.  `*Proofs` modules hold theorems.

### Locks and config files

`LockFile` is `fs.c` from `LOCK_MAX` to the end of `lock_forget`.  An action is
what happens between two points at which a signal can make a difference;
`pc[p]` names the points.  `file[x]` says who made the file a lock path names
(the process, `Stale` once its maker has ended, or `Absent`), `reg[p]` is
`held_locks`, `installed[p]` is `lock_handlers_registered`, `todo[p]` what the
signal handler's loop has still to visit.  `SignalPoints` is the set of places at
which SIGINT or SIGTERM may arrive, `MayBeKilled` whether SIGKILL does.  Two
windows of the code are named by them: without `unlinked` and `renamed` no signal
arrives between an unlink (or a rename of the lock file) and the deregistration
that goes with it; without `created` none between `open()` and the registration.

`AtomicFile` states what the comment in `config_write_file` promises: one writer
at a time, and a document that appears all at once.  `ConfigFile` extends
`LockFile` with the file behind the lock: a path names an inode, an open file
keeps its inode whatever becomes of the path, inodes are used again when nobody
has them, and a document is written block by block.  `stage[p]` is the writer's
place in `config_write_file`; the rewrite at the end of `ice init` takes the same
steps and dies where that function returns an error.  `RoomAssumption` says that
there are two inodes at least.  The instances of the runs (which processes ask for
what, and the order in which symmetric ones do) come before its properties.

### Settings

`ConfigText` is the INI text: how lines are read into entries and entries written
as lines, with sections, subsections and quotes, a token being a word or one
other character; scopes; and what an option starts from.  `ConfigStore` are the
commands that read a file, change the entries, and write it again, with an
editor that reformats it between them.

### Build directory

`ProjectDir` has one profile, its entry in `.ice/config` and its build directory:
cmake's cache, the flash layout, the binaries, the two markers and the lock, each
with what it was made from (a setting of `ice init` and the number of edits of the
sources).  The commands are `cmd_init`, `project_build`, `cmd_clean` and
`cmd___flash`, the last three behind `setup_project`, which `cmake.c` runs for
them.  Taking a lock is one step here and dying gives locks back: `LockFile` is
about what that leaves out.  cmake and ninja are external: they succeed, fail or
are interrupted, and ninja replaces and removes binaries one by one, so that a
build or a clean has a step in the middle, at which another command, a failure or
Ctrl-C finds binaries of which some are there or up to date and others not (`Mix`).
`rmtree` may fail to unlink an entry and goes on to the next.  `MayFail` lists the
steps at which a process may fail or be interrupted: all of them in `home`.

Two variables record what happened, for the properties.  `course` tells how far an
`ice init` got with the directory: `"torn"` from when it begins to wipe until it has,
and from its marker until its commit; `"crossed"` from when it runs beside another
command, which nothing in the code prevents, until an init that is alone has emptied
the directory.  `upset` tells which commands changed binaries while a process was
linking, removing or using them.  `KeepStarting` is a bound on the users: where it is
false they start nothing more in a crossed directory until every command has ended.

### `~/.ice`

`ToolStore` installs the tools of a manifest, file by file, over whatever earlier
runs left.  `RepoStore` has the reference, the checkouts and the lock, users whose
commands are sequences of git commands (`Plan`), and gits that go on when ice was
killed.  `SelfUpdate` has executables that share one download directory.

### Component manager

`VersionSolver` states what a solver promises.  `PubGrub` is `pubgrub.c`: the calls
that register packages, and the search, with one frame of `frames` per activation
of `search_step`, `cons` for the constraint lists (each entry with the frame it
came from) and `decided`.  A version is its rank and a constraint the set of
ranks it matches; a string the parser refuses is `BadVersion` or `BadSpec`.

`ComponentResolve` is `solve_resolve`.  It extends `PubGrub`, whose variables are
the solver the function owns: `queue`, `seen` and `fetched` are the walk (one
action per request taken from the queue and one per dependency pushed), after
which each registration is a call handed to `PubGrub`, and `Assemble` makes the
entries of the lock file.  `World` is `VersionSolver` for the problem made of
everything published, which knows nothing of the walk.

`ComponentStore` is `cmd_idf_component_prepare` with `fetch_component` as the disk
sees it; `Solve` stands for all answers `solve_resolve` may give.  Wiping and
extracting go file by file, a file `rmtree` cannot remove stays, and a prepare
ends at any step.  `EditPoints` names the steps at which a user or a checkout
changes `dependencies.lock`, before, while and after prepare reads, makes and uses it
(`EditSteps` in the run); `moved` says that one did since prepare looked for the file.  One prepare runs at a time.

`Requirements` is `semver.c` and `rules.c`: versions, constraints and conditions,
parsed, matched and formatted again.  `YamlFile` is `yaml.c` with the lock file
and the manifest.

### What a build is made from

`KconfigFile` is the lexer and the parser: lines of words, strings and operators,
files read in the middle of others, a tree of nodes.  `Kconfig` is the evaluation
(one round at a time, one symbol at a time), the writing of `sdkconfig` and of
minimal configurations, and the loading of them by kconfgen and menuconfig, one
tool after another with edits between.  `MenuList` is menuconfig's list: the rows are
those nodes of a menu that `HasRow` finds, going down the tree as `flatten_node` does,
with the caret and the window that follow keys, searches and changes of size.
`ConfigDep` is the compiler wrapper.

`LinkerScript` is ldgen: fragment files read (`lf.c`), mappings, schemes and
fragments put together (`gen.c`), and the lines emitted for a target.  Where a
section ends up is `Placed`, which says which line of a script takes it, as the
linker does.  `PartitionTable` is the table from CSV to image and back, and the
commands that use it.  `SizeMap` is the map file and the tree of sizes.
`FlashImage` is the way from ELF file to image, and what the ROM, `ice image info`
and merging make of it.

These are mostly operators: the program computes, and what can go wrong is the
computation.  They are checked against definitions of what was meant (`MC...`),
over inputs enumerated small and complete: every tree, table, document, version
or layout of a size, in every style it may be written in.

### Consoles and children

`Vt100` is the terminal as a record and an operation per control function, fed
byte by byte.  `LogPane` is the pane around it, with the ring of rows, the search
and the frozen view.  `Console` has the three programs that show panes: the
monitor, the emulator, and the emulator beside gdb, with sources, keys and resizes
in any order.  `ChildRun` is a command that shows a spinner while a child runs.

## Runs

Passing runs, with the bounds that matter and what they show.  Their constants are
in the `.cfg` file of the name.

* `lock` (two processes, two paths, a registry of two, five inodes, two blocks,
  kills, signals anywhere but in the first window): `MutualExclusion`,
  `NoForeignUnlink`, and `AtomicReplace`, that `ConfigFile` implements
  `AtomicFile`; `TypeOK`.  Two processes on one path make contention happen, and
  nothing in the code counts processes; two blocks are the least a document can be
  torn between.
* `lock_ends` (three paths, a registry of two, no kills, signals anywhere but in
  the second window): no lock file outlives its maker (`NothingStale`), a held
  lock is covered by handlers and the registry never overflows
  (`RegistryCovered`), and a call of `lock_acquire` returns (`AcquireReturns`).
  Three paths make a full registry happen.
* `components`: the solver with three packages of two versions under some
  thirteen thousand call sequences (circles, self-dependencies, conflicts that
  take back one and two decisions, refused strings, duplicates, solving twice):
  `AnswersRight` (it implements `VersionSolver`), `HighestFirst`, `NoResidue`.
  Some two and a half thousand projects over two registries: `ResolvedRight`,
  `RootsChoose`, and, under fairness, `Resolves`.  Two releases are the least for
  which a dependency of an old release matters, two registries the least for which
  the order of requests does.  The disk with a component that has a hash, one
  without and one from git, two faults and an edit: `ListedIsThere`, `PinHolds`,
  and, under fairness, `Recovers`.  Version 2 has one file less than version 1,
  which makes leftovers visible; of two faults one can spoil a run and one the
  next.
* `home` (two tools of two files, two faults; two users, two branches, a tag, a
  destination, two commits a branch, three runs, one fault; two executables of two
  parts, two faults; two processes on a build directory, two settings, an edit,
  failures and interrupts at every step; three changes of the settings):
  `ForcedIsWhole`, `SilentMeansWhole`, `FinishedIsLeftAlone`, `OneExeStaysWhole`,
  `DirectoryIsOne`, `BuildIsWhole`, `SettingsKept`.  Two is enough to tell a current
  version of an item from an old one, and a part from a whole.  `DirectoryIsOne`: the
  cache, the layout and the binaries are of one setting, and the windows in which a
  marker is over a directory that is not configured, or not for the profile in
  `.ice/config`, are the two of `init_partial` and no more.  `BuildIsWhole`: what is
  marked as built, and what a flash that built goes on to write, is the whole of what
  was to be built, whatever earlier builds left half-done.  Neither says anything of a
  crossed directory before an init that is alone has emptied it, and the theorems about
  them hold for either value of `KeepStarting`.
* `build_inputs`: the configuration, on trees with dependencies, forcing symbols,
  a choice, and menus, for three turns of the tools with edits (`Settles`,
  `NoLeftovers`, `RoundTrip`, `CaretFollows`); and, one input each, Kconfig files,
  fragments, map files, partition tables and YAML documents read back
  (`FilesReadBack`), linker scripts (`PlacedByItsRule`), dependency files
  (`DependenciesKept`), partition tables (`LayoutSound`), sizes (`SizesAddUp`),
  constraints and conditions (`RequirementsHold`), images (`ImageLoads`).  The
  units of the models (regions of 8 bytes, pages of 64, words of 8 values) are
  small enough for every boundary to be reached.
* `console`: a terminal of three by three or two by four fed three sequences of
  every kind, in pieces; the monitor, the emulator and the emulator with gdb, each
  with a log of two rows, two or three reads, three to five keys of every kind and
  a resize: `ConsoleOK`, `Transcript`, `MarginsHold`, `FrozenStill`.  `Transcript`
  compares log and screen with what was written: nothing is doubled or moved, the
  emulators lose nothing, and the monitor loses just the rows that scroll off under a
  frozen view, which are counted apart (`gone`).  A child that
  writes five bytes through a pipe of two, read two at a time, with a ring of
  three, Ctrl-v twice, one process left behind, Ctrl-C, two runs: `LogIsWhole`,
  `ShownWithoutGap`.  Five bytes wrap a ring of three with bytes left over.

Every system here may really stop (a user need not start another command, a script
is used up), so runs other than those of the lock protocol allow deadlock.

Runs that find a violation, each of one statement of the repository, are described
under Findings: `config_torn`, `project_flash`, `init_partial`, `built_cleaned`,
`menu_search`, `image_pages`.

## Fairness

Liveness is stated where the code promises an end.  `LockFile`'s `FairSpec` assumes
that the operating system runs every started process (weak fairness of each
process's own steps); calls are not assumed to be made nor locks to be released,
so `AcquireReturns` holds because the loop has a deadline.  `Resolves` assumes that
the one thread of `solve_resolve` runs, and `Recovers` that a prepare that was
started runs: users need not start one, and faults need not stop before their
bound, which is why it speaks of runs that meet none.  The other modules state no
liveness: their commands are sequences of calls into the file system, git and
cmake, which may take as long as they like, or loops that wait for a user.

## Proofs

TLC shows the properties above on small instances; the theorems hold for every
value of the constants.  Every theorem module extends the modules it is about.

### Locks and config files (`ConfigFileProofs`)

For any processes, paths and registry size:

* `Ownership`, `Exclusion`, `OwnUnlinksOnly`, under `WindowFree` (no signals in the
  first window).  That an owned file is one's own is inductive with the type
  invariant and with what the registry contains at each place: between making a
  file and registering it the path is not registered yet, between unlinking and
  deregistering it still is.  Mutual exclusion follows, since a file has one maker.
* `RegistrySafe`, whatever signals arrive.  The capacity is checked at the entry of
  `lock_acquire` and used at its end, so the invariant carries it through the loop.
* `NoStaleLock`, without kills and without signals in the second window.  The
  invariant is the converse of ownership: a file made by `p` is one `p` has
  registered, has just made, or has still to unlink.
* `ConfigKeepsProtocol`, `ConfigExclusion`, `ConfigNeverTorn` and `ConfigRefines`,
  under `WindowFree`, for any documents, number of blocks, failures, kills and
  reused inodes: writers of the config keep to the lock protocol, so that what is
  proved of it holds of them, and they implement `AtomicFile`.  The invariant `CInv`
  says what the inode behind the lock holds at each stage of its owner
  (`WritesLockFile`) and that the lock path never names the config file's inode
  (`NamesApart`); only the owner of the lock has it open, which is where ownership is
  needed.  `config_torn` shows that without `WindowFree` it is false.

### Build directory and `~/.ice` (`HomeProofs`)

* `TheDirectoryIsOne` and `WhatIsBuiltIsWhole`, for any number of processes, settings
  and edits, all commands, and failures and interrupts at every step, with no
  assumption on what users run together: what an init beside another command leaves is
  what `course` calls crossed, until the next one that is alone has emptied the
  directory.  `DirInv` has four parts.  What holds of a process in any company
  (`InCompany`); the settings of what is there agree (`OneSetting`); the markers tell the
  truth unless the directory is torn (`MarkersAreTrue`); and how far an init that is
  alone (`InitProgress`), or a build beside other builds, flashes and cleans
  (`BuildProgress`), has got.  A step of one process is then looked at for itself and
  for the others, whose places it leaves alone (`StepKeepsOthers`); the step that ends
  a crossing finds nothing in the directory (`FromNothing`).
* `ForcedInstallIsWhole`, for any manifest, archive and leftovers.  `ToolInv`: the
  tools before the current one are whole, and of the current one what has been
  written so far.  A tool named twice in a manifest is installed twice, so the
  invariant speaks of the other tools only while one is being replaced.
* `OneExeIsWhole`, for any number of updates of one executable that run, fail and
  die.  `UpdateInv` says which part of the shared directory belongs to the update
  that has the lock.
* `CheckoutIsWhole` and `FinishedStays`, for any users, branches, tags, destinations,
  signals, kills and gits that outlive their ice.  `RepoInv`: a checkout in progress
  has one maker, which may be a git that was left behind (`OneMaker`); after each
  git command of the plan the checkout has what it was to get (`MadeSoFar`); and the
  reference only grows (`BaseGrows`), so a checkout that borrows from it keeps what
  it had.

### Component manager (`PubGrubProofs`, `ComponentProofs`)

For any packages, versions and call sequences:

* `CleanBacktracking`, and `SoundAndComplete`: `PubGrub` implements `VersionSolver`.
  That an answer is a solution follows from three parts of `SolverInv`: every
  constraint that has been seen is in `cons` (`RootsInv`, `StackInv`), every decided
  version meets all of them (`ConsInv`), and a package with a constraint is decided
  or open.  That an error means there is none needs a fourth, `CoverInv`: a solution
  that agrees with the decisions below a frame has for the frame's package a version
  that is still to be tried, or the one being tried.  It holds of a new frame because
  all versions are still to be tried, and a version leaves the set only when no
  solution has it.
* `FirstIsHighest`, from the same invariant.

For any registries, published releases, requests and projects:

* `RootsDecide`: a component the project requires comes from the registry it names.
  The queue begins with the requests of the roots that were not looked at yet
  (`RootsInOrder`), so nobody else's request is taken first.
* `ResolutionIsRight`: what is resolved is a solution over everything published, and
  a project is refused only when there is none.  Three steps.  The walk misses
  nothing (`WalkInv`): every dependency of a release that was fetched is asked for,
  or is still to be pushed, and every name is fetched once, whole.  The solver is
  then told exactly what is published of those packages (`ToldInv`, which follows the
  registration call by call; of several releases of one version the first usable one
  counts, and a release the solver refuses leaves nothing behind).  And solutions of
  what the solver was told correspond to solutions over everything published, since
  a package nobody can require may be left out of one and added to the other.
  `SolverInv` then gives the answer (`Answered`).

For any components, versions and files, and any faults and edits:

* `SuccessMeansThere`: when prepare has succeeded the locked components are on disk
  as published.  `StoreInv` adds that while the entries are fetched, all but those to
  come and the current one are there, and what of the current one has been
  extracted.  It is kept because a step touches the tree of the current entry only,
  and that entry is not fetched again.
* `LockPins`, with edits of the lock file at any step: a lock file that is there when
  prepare looks for it is what prepare works with and leaves alone, and the only one it
  can replace is one that has appeared since, while the solver was at work and before
  the save (`LockInStep`).  That one is overwritten; nothing in the source promises
  otherwise.

### Terminals and consoles (`TerminalProofs`, `ConsoleProofs`)

For terminals and logs of any size, any bytes in any pieces, any keys and resizes; of
the constants it is assumed that limits are positive and that what a program reads are
bytes (`ConsoleInputs`):

* `PanesInOrder`: `TermInv` says of a terminal that its fields fit each other (cursor
  and saved cursor on the screen, scroll region of two rows or more, or the whole
  screen, a parser that has no half character outside its ground state, a report that
  fits).  Every function of the terminal has a lemma that says it keeps `TermInv`, and
  `FeedKeeps` puts them together for one byte.  A read is a fold over its bytes, and
  `InputKeeps` is an induction over its length, carried out with the well-founded order
  of the naturals (`UpTo`, `StepByStep`), since the induction theorems of the library
  cannot be instantiated.  The same technique shows that numbers are spelled
  (`DigitsTyped`) and rows are drawn as bytes (`RowDrawn`).
* `MarginsAreKept`: `Ran` says that text leaves the rows outside the region, and the
  region, alone and keeps the cursor inside; it holds of each byte of text and
  composes, so it holds of a read (`InputRan`).
* `ConsoleSafe` and `InspectIsStill`: `ConsoleInv` adds to the panes who owns the
  modal (`SlotInv`), the program's help and what it froze (`HostInv`), and that a
  pane in inspect is frozen in the programs that keep it so (`InspectInv`).  What a
  frozen pane shows depends on its snapshot, its log and where the log ended when it
  was frozen; keys that stay in inspect keep the three (`Answered`), a frozen pane
  takes no lines, and the program's help thaws only panes that are not in inspect.
* `ConsoleInOrder`, all of `ConsoleOK`, for which `InspectInv` also carries the counter
  `N/M` of a search.  `Truthful` says that the total is the number of matches in the
  lines that can be seen, that the index is what `search_compute_index` would compute,
  and that the cursor is at the start of a match.  The last part is what makes it
  inductive: `tui_log_search_next` and `_prev` add or subtract one without counting
  again, and this is right because the match they go to follows the current one
  (`NextRank`: no match lies between, so their ranks are one apart).  The sum over the
  lines is a recursive function, which `Summed` and `SumsAgree` tell step by step.
  Outside inspect a pane does not search (`Told`), so no line is pushed under a search
  that is shown.

### Children (`ChildRunProofs`)

For any ring, pipe and read sizes, any number of runs, and whatever the child writes:

* `LogsAreWhole`.  `LogsInv`: as long as ice reads, the log followed by the pipe is
  what was written; when reading has ended the pipe is empty and nobody is left who
  could write (`EndInv`), which is why a process that the child left behind is waited
  for.  That the name of a failed run never leads to another run's log follows from
  the log's own process id being a prefix of itself.
* `NoGapShown`.  `RingInv`: the ring holds the last bytes of the log, as many as it
  can, wherever the writing position is.  The lemma `RingKept` shows that
  `peek_append` keeps this, however the bytes come, and `Dumped` that `peek_dump`
  returns them in order, across the end of the buffer.

### What a build is made from (`BuildInputProofs`)

The models of menus, partition tables and dependency files are recursive functions.
A recursion whose calls go down in some rank that is a natural number has a solution
(`Recursion`), and what follows of a place from the places of a lower rank holds
everywhere (`Ranked`, `UpToN`); both come from the well-founded order of the naturals.
`FlattenSeq` is told step by step (`FlattenedFrom`).

* `CaretIsFollowed`, for any tree of menus, any height of the terminal, any number of
  keys and any changes of the configuration between them.  The rows of a menu are
  visible nodes below it (`RowsBelong`) and what is found by a search is one of them
  (`RowsComplete`, `Found`): both go down the tree of which `TreesAssumption` says that
  a node comes after its parent.  `MenuInv` says that the positions saved on the way
  down lead up again (`Nested`), and that the row each was saved from is where it was,
  unless what is visible has changed (`Saved`).  That Esc lands on it needs the
  menu above to be the one the row was in, which is so if no menu or choice stands in
  an `if` (`IfsAreFlat`).
* `TablesAreSafe`: `LayoutSound` for every table, every number of rows, every option
  and every size of an image (`IsTable` is what a user may write, with the table itself
  not in the last 64K).  The entries are placed one after another, and the invariant of
  that recursion (`Good`, `InLine`) is that, as long as none reaches the last 64K of the
  address space (`Calm`), every entry begins where the one before has ended or later,
  and the next begins behind all of them.  It needs the condition: a sum that wraps
  makes the next entry begin at the start of the flash, which no check notices.  Apart
  to the sector follows from alignment: starts are multiples of a sector, so what is
  rounded up to one does not pass the next start (`RoundsBelow`).  What the checks of an
  app's or a bootloader's size promise follows from what `EntryOf` makes of a
  bootloader's size (`BootSized`).
* `ImagesHoldTables`: the half of a table's round trip that is about images.  What is
  before the first blank slot is what was written (`UsedIs`), of which the entries are
  picked in their order (`PickedFirst`), whatever else stands there; and as the digest
  is of the slots before it, one that differs is noticed.  The half that goes through
  CSV spells numbers with `ToString`, of which the provers know nothing.
* `DependenciesAreKept`: `KeepsDependencies` for any paths and any way to separate
  them that begins and ends with a blank and has a backslash only before the end of
  a line (`IsGap`), with at most one `sdkconfig.h` among them (a second one would be
  kept, as the code takes out the first only).  Reading a text after another is reading
  both (`ReadOn`), so a gap can be looked at by itself (`GapEnds`) and a text is read
  path by path (`PathShows`).  `IsGap` is no more than compilers do: a path with a
  backslash directly behind it is lost, and one with an escaped blank in it would have to
  be put together again.

### What stays with TLC

* Liveness (`AcquireReturns`, `Resolves`, `Recovers`): `ENABLED` and fairness are out
  of the prover's reach.
* What is computed in `KconfigFile`, `LinkerScript`, `SizeMap`, `Requirements`,
  `YamlFile` and `FlashImage`: they use recursive operators, which leave tlapm without its SMT
  backend.  The theorems about partition tables and dependency files are therefore of
  the operators the runs' properties are made of, and not of `MCBuildInputs`, which
  extends these modules.
* `SettingsKept`: `ConfigText` selects lines and entries with `SelectSeq`, which tlapm
  does not expand, and reads a text with several folds inside each other.
* The CSV that is decoded from an image (`ToString` again).
* `Transcript`, which compares the log with a text collected beside the terminal.
* `Settles`, `NoLeftovers` and `RoundTrip` of `Kconfig`: that the rounds converge
  holds of the trees enumerated and not of every tree (a `set` rule that targets a
  symbol others depend on breaks `RoundTrip`), and no condition on trees is known
  that is both weak enough for the code and inductive.

## Findings

Six runs show the code doing something else than the repository says of it:

* `config_torn`: between the rename of the lock file over the config and
  `lock_forget`, the lock path is free but still registered.  A signal there unlinks
  the lock of the next writer, a third writer takes it, and both write one file
  (`config.c:742`, against `fs.h:147` and `config.c:720`).
* `project_flash`: `setup_project` reads the flash layout before the build it triggers
  (`cmake.c:290`), so `ice flash` after an edit of the partition table writes the new
  binaries where the old layout had them.
* `init_partial`: an `ice init` that is interrupted during its wipe, or cannot unlink
  an entry, can leave the marker and the profile without cmake's cache, and one
  interrupted between the marker (`init.c:1087`) and the rename (1108) leaves the
  marker over a directory that is configured for another profile than `.ice/config`
  has.  The commands accept both, against `init.c:1056-1058`: "a partial-init state
  the rest of ice would key off of never exists".
* `built_cleaned`: `ice clean` leaves `.ice/built` where it is (`clean.c:70`), so with
  `core.build-always` off `ice flash` goes on without binaries, against `build.c:134`:
  the marker "advertises to other commands that the build tree is in a self-consistent
  state".  A ninja that failed or was interrupted after it linked some of the binaries
  leaves it too, against 136-138.
* `menu_search`: a symbol that directly follows the one it depends on is moved into that
  one's node (`finalize_node`, `kc_parse.c:1758`).  Neither the rows of menuconfig
  (`menuconfig.c:252`) nor its search (998), said to go through every visible symbol
  (989), go into a symbol's node: it cannot be seen, found or set there.
* `image_pages`: for a gap smaller than a segment header a pad is emitted whose header
  alone is longer than the gap; what follows is not where the chip can map it
  (`elf2image.c:495`, against 417-420).

What else the models brought up, by component; no run is about these, either because
nothing in the repository promises otherwise or because a property excludes exactly
that case, as its comment says:

* *Settings.*  A subsection name with `]` is written as a header that is not read
  back (`config.c:299`); a key without a section given with `--add` is reported as
  set and not written; a value with a newline cannot be written; of two concurrent
  `ice config` one update is lost.
* *Build directory.*  Nothing keeps an `ice init` from running beside another command:
  it wipes the lock of a running build, and what the two leave may be of two settings.
  `ice clean` takes no lock either, so that a build beside it may mark binaries that are
  being removed (`BuildIsWhole` excludes it by `upset`); `build.c:113-115` speaks of a
  future clean that does.
* *`~/.ice`.*  An interrupted install counts as installed until `--force`; two
  executables that share one home can replace each other's download (`update.c:161`,
  against 145); an update interrupted between the rename and the chmod leaves an
  executable that is not executable; a tag published after the last fetch cannot be
  checked out; the first checkout of a branch makes a local branch in the reference
  which nothing moves, so that a second one after `ice repo pull` has the old commit
  (`checkout.c:225`, against `pull.c:34`).
* *Component manager.*  A component is looked up once, in the registry of its first
  request (`solve.c:154`), although `solve.h` speaks of every pair of name and
  registry.  `rules_eval` is called by its test only; `== 5.0` is a wildcard and
  `!= 5.0` is not.  Unsupported YAML such as a flow mapping is read as a string
  (`yaml.h:35` says it is an error); a plain key with an apostrophe is not seen as one.
* *Kconfig files.*  A file whose last line is not ended and sources another such file
  makes the parser stop with "expected newline" (`kc_lex.c:560`); the comment of
  `kc_parse.c` that hoisting leaves evaluation as it was is not so.
* *Kconfig.*  The first file that sets a symbol wins, so `sdkconfig.defaults` overrides
  `sdkconfig` (`kc_confread.c:385`), although `kconfgen.c:349` says that the later one
  does.  A user's n on a member of a choice counts as a pick when the member is y
  by default; a symbol with an unconditional and a conditional definition is hidden
  when the condition is n (`kc_eval.c:330`); `imply` overrides a user's n.  In an
  empty menu `move_cursor` reads `items[-1]`.  Esc from a menu inside an `if` goes to the
  `if`, whose rows alone are then shown (`menuconfig.c:861`, against 847); searching does
  not (`find_container`, 1025).
* *Linker scripts.*  A mapping said twice spoils placement; the order of output
  sections in a template matters (`gen.c:658`, against the README of ldgen) unless the
  lines are as `PlacedByItsRule` has them; a line of a fragment that starts with a
  token no statement starts with keeps the parser from ending.
* *Compiler wrapper.*  Nothing touches a marker file (`configdep.c:316`).
* *Partition tables.*  Sums are 32 bits wide and wrap near the end of the address
  space; an entry placed by command line options is not checked for overlap; a name
  with a comma is not quoted.
* *Sizes.*  `--diff` leaves out an entry whose changes cancel out; an alias symbol is
  counted twice.
* *Images.*  `ice image info` reports a wrong digest for an image padded to a size; a
  segment whose addresses differ is dropped (`elf.c`, `progbits_extent`); offsets of a
  merge are cut to 32 bits; a gap that ends within a word, which aligned segments do
  not leave, can make the rest of a cut segment 2^32 too long (`elf2image.c:489`).
* *Consoles.*  The monitor throws away the rows that scroll off while its view is frozen
  (`monitor.c:572`): they are missing from the log ever after.  Comments say that they
  "accumulate in the ring" (549-552) and that after help "the user sees whatever streamed
  in" (664-670), and the help of inspect that they "keep arriving in the background"
  (`tui.c:1032`).  Copying a line to the clipboard does not move past a plain byte
  (`tui.c:1233`, against 1191), so it does not end well.  In the monitor, its own help thaws a frozen view (against
  `monitor.c:697`); `qemu.c:983` says the same of resizing and is contradicted by
  1022; a trailing erased cell loses its background in the log.
* *Children.*  When Ctrl-v hides the output again and the child then fails, the log is
  dumped or not by what is shown at the end (`progress.c:471`); a process that keeps
  the pipe keeps ice waiting; Ctrl-C loses what was not flushed.

## Not modelled

Listed with reasons in `PROJECT.json`.  SLIP framing and serial flashing (the
protocol is a vendored library's), core dumps (binary formats), the parsers of other
formats, downloads (their failures are inputs), command dispatch, option parsing, help
and hints, containers (the models use sequences, sets and functions), drawing, and the
Windows layer, which differs from the POSIX one in its signal handler.  `ice repo list`
and `rm`, the choice of a tool's version and platform, the pass-through of the monitor,
and OpenOCD's loop, which is that of `run_debug` again, are left out of components that
are modelled otherwise.  One prepare runs at a time: the builds of two profiles share
`managed_components/`, which is a hazard no property covers.

## Plan

Built in this order: locks and config file; build directory; component manager;
`~/.ice`; what a build is made from; consoles and children; each with its proofs after
its runs.  What is left:

1. Two prepares of one project at once, together with the build directories that start
   them (the one hazard of an interleaving without a property).
2. Proofs by induction over a text of `ConfigText` (`SettingsKept`), as those about
   dependency files are.
3. SLIP decoding as a state machine over a byte stream.
