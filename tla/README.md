# A verification project for ProjectLinux43

The repository is a set of Linux teaching projects around a web control panel: a Bash menu
(`01_shell_manager`), C programs (`02_system_prog`), a hello module (`03_kernel_module`), a character
device driver (`04_char_driver`) and a GUI (`gui_app/app.py`) that builds, loads, starts and stops the rest.
The TLA+ modules here model the parts whose correctness depends on an order of steps: threads inside the
driver, processes and signals of the HTTP server, requests that overlap in the GUI, editors that share a
crontab, and loading that fails half-way. TLC checks small instances; TLAPS proves for all sizes every type
invariant and every safety property of the passing runs, under the hypotheses section 4 names.

## 1. Inventory

| part | state | operations | interacts with | hard behaviour |
|---|---|---|---|---|
| driver, file operations (`mychardev.c:25-162`) | `devs[]`: buffer, size, access, data_ready, wait queue; per open file f_pos and flags | open, release, read, write, llseek, ioctl | threads of all programs; each write changes *all* minors | no lock anywhere: every access interleaves; sleeping and waking; signals; faults half-way through a copy |
| driver, loading (`mychardev.c:164-203`) | region, cdevs, module state | my_init, my_exit | insmod, rmmod, users of the nodes | cdev_add fails for a later minor; a minor is live before my_init ends |
| device nodes (`app.py:126-178`) | `/dev/mychardevN`, mode | stat, mknod, chmod | driver, terminal, other requests | the node appears between stat and mknod; sudo fails or times out after it worked |
| test programs (`test_app.c`, `test_blocking.c`) | none | a script each | driver | rely on a fresh driver |
| HTTP demo (`socket_demo.c`) | running, the listening socket, children, connections | accept, fork, serve, stop | browsers, signals, the GUI | a signal between a test and a blocking call; descriptors shared through fork |
| GUI, socket actions (`app.py:57-123, 639-657`) | socket_demo_process, socket_demo_lock | start, stop, shutdown | HTTP demo | overlapping requests; timeout and escalation; shutdown while requests run |
| GUI, cron actions (`app.py:280-344`), menu (`scheduler.sh`) | the user's crontab | list, add, delete | each other, crontab(1) | read, edit, install without a lock; a failing read |
| GUI, file actions (`app.py:181-277`) | the file system | create, delete, copy, move, find | each other, pathlib, shutil | tests before calls; trees half copied or half removed; moves between file systems |
| GUI, requests, page and commands (`app.py:27-54, 347-661`) | pages and their buttons, request threads, the server | click, answer, reload, Ctrl+C, start | all actions | exceptions without an answer; threads that end with main; requests that overlap after a reload |
| shell file menu (`file_manager.sh`) | the file system | copy, move | rsync, cp, mv | `A && B \|\| C` in copy_move |
| other shell menus (`main.sh`, `ui.sh`, `time_manager.sh`, `pkg_manager.sh`) | none | one command each | the user | none of note |
| C demos (`process_mgmt.c`, `file_ops.c`, `network_info.c`, `main_demo.c`) | none beyond one run | sequential | kernel | signal before pause, failing fork |
| hello module | a proc entry, load_time | load, show, unload | kernel | none of note |

What makes each part correct: the driver hands a minor to one open file, keeps copies inside its buffers, wakes
every reader that sleeps on data, and gives all minors the writer's bytes; loading leaves all or nothing; the
HTTP server ends every connection, leaks no descriptor, frees its port and stops when told; the GUI never loses
track of a server and its stop always ends; an edit of the crontab is applied once and whole, or not at all; a file
action loses nothing it was not asked to remove, and says ok only when it did all; a page gets its buttons back.
`PROJECT.json` lists the components with their status, and under `hazards` what a test would hardly reach, each
at its line with the property that watches it or the reason why none does.

## 2. Modules

| module | models | lines of the source |
|---|---|---|
| `CharDriver` | all file operations of the driver, one step per access to shared memory | `mychardev.c:14-162` |
| `MinorLock` | abstract: a minor is held by at most one file | implemented by `access`, `mychardev.c:30, 41` |
| `MCCharDriver` | which threads run, and what each calls, in the driver's runs | |
| `CharDriverProofs` | theorems about `CharDriver`: types, bounds, lock, wake-ups | |
| `BroadcastProofs` | theorems about `CharDriver`: what minors and readers hold | |
| `DriverLifecycle` | my_init with its error path, my_exit, users, action_driver_nodes | `mychardev.c:164-203`, `app.py:32-54, 126-178` |
| `DriverLifecycleProofs` | theorems about `DriverLifecycle` | |
| `HttpServer` | the server, its children, signals, sockets, clients | `socket_demo.c:24-183` |
| `HttpServerProofs` | theorems about `HttpServer` | |
| `SocketSupervisor` | the GUI's start and stop, composed with `HttpServer` (EXTENDS) | `app.py:57-123, 618-657` |
| `SocketSupervisorProofs` | theorems about `SocketSupervisor` | |
| `Crontab` | both editors of the crontab | `app.py:280-344`, `scheduler.sh` |
| `JobList` | abstract: an edit is applied at most once and whole, to the list as its editor saw it | implemented by `Crontab` in `ControlCenter` |
| `CrontabProofs` | lemmas about `Crontab`: Strip, the editors' steps | |
| `FileActions` | the file actions and commands of the GUI | `app.py:32-54, 181-277, 347-386` |
| `FileActionsProofs` | lemmas about `FileActions`: paths, every step keeps the tree a tree | |
| `ControlCenter` | pages, requests, start and end of the GUI, composed with `Crontab` and `FileActions` (EXTENDS) | `app.py:463-661` |
| `ControlCenterProofs` | theorems about `ControlCenter` | |
| `MCControlCenter` | the trees, pages and requests of its run | |
| `FileMenu` | copy_move of the shell menu on the tree of `FileActions` (EXTENDS) | `file_manager.sh:14-26` |
| `MCFileMenu` | the tree of its run | |

A definition marked "variant" is a plausible bug that a property is tried against (`mutants` in
`PROJECT.json`); no action of the model uses one.

### CharDriver

`dev` is `devs[]`, `file` the kernel's open files, `thread` the call each thread is in with its local variables
(`off` is the VFS's copy of f_pos, `buf` is the user buffer of a read and `tmp[]` of a write). A system call is a
sequence of actions, one per access to shared memory: `R..` for my_read, `W..` and `B..` for my_write and its
broadcast loop, `I..` for my_ioctl, `S..` for my_llseek. Copies go byte by byte. `wait_event_interruptible` is
modelled by what its macro does: look, queue, look again, sleep; a wake-up empties the queue; a signal takes the
sleeper off it. The kernel's own part (references to an open file, release at the last one, f_pos copied in and
stored after the call) is modelled as the driver relies on it. The constant `Fds` says which open files a thread has
descriptors of: threads of one program share all of them, different programs none.

Choices where C leaves some: `dev->size` is loaded once in my_read, and again at each use in my_write, and `tmp` is
zero at first; this is what the module in the repository was compiled to. Loads and stores are atomic and in
order: the model has the interleavings and not the reorderings of weaker hardware. GETSIZE and unknown
commands change nothing and are left out. What a call returned is kept only for threads that "look".

### DriverLifecycle

`module` is where insmod or rmmod is and its `i`; `minor` says what my_init has set up, which cdevs are added and
which minors are open; `node` is what lies at `/dev/mychardevN`; `h` is where each request of
action_driver_nodes is. Nodes exist before the module is loaded, as they do after rmmod. cdev_add and
register_chrdev_region may fail. Opening works as soon as the cdev is there. A sudo command may fail before its
effect, or be reported as failed after it (timeout). A file that was opened while a load failed keeps a reference to
that dead module only: when the error path ends, no minor of the next load is open. Others make nodes at any time; they remove them only when no
request is under way, which is where the guide puts `rm` (TEST_GUIDE.md:362).

### HttpServer

`proc` is the process table: program counter, `running`, process group, the connection in hand. `listener` is who
holds the listening socket, `conn` the connections. A signal before the handlers are installed kills; later it
clears `running`, and interrupts accept and recv only when they are blocked (`accepting`, `recving`). accept may
fail with another error, at once or while it is blocked (`Fail`), fork may fail, a new server may fail to bind. The children are reaped by the kernel. A
process number is not used again while a group has it. send_all is one step; text is left out.

### SocketSupervisor

`process` and `lock` are the two globals of app.py, `h` is where each request thread and the main thread is. A
Popen object whose status was collected behaves as None in every use, so `process` is `NoPid` for both. The three
seconds may be over at any time, also when the server is about to end. Ctrl+C lets the main thread stop the
server; the daemon threads go on until it exits, which a second Ctrl+C brings forward. The second `wait` always
succeeds: a killed process is gone at once (a process in uninterruptible sleep is not modelled).

### Crontab

`tab` is the crontab (a missing one and an empty one are treated alike by both programs), `ed` where each editor
is, what it was asked for and which lines it read. Any number of editors are at work at once. Reading and installing are one command each and can fail. The GUI drops empty
lines and gives up when crontab -l fails; the menu takes that for an empty crontab. Jobs stand for valid
ones: a request with other fields is refused (`Refuse`), and a job that crontab refuses is a failing Write. An
editor of the GUI keeps its result until the answer is sent.

### FileActions

`fs` maps each path of at most two names to nothing, a directory or a content; some top-level names are file
systems of their own. `job` says which request each thread has and where it is: `Check` (exists, is_dir), `Parent`
(mkdir of the parents), then `Make`, `Discard` (unlink, rmtree), `Copy` (copy2, copytree), `Aim` and `Rename` (the
two halves of shutil.move, whose rename may fail even where it could succeed, and then falls back to copy and delete). Between any two of them another thread may work.
What a library call does to several files is one step with every partial result: `Copies` are all the ways a copy
may end, with files missing or cut short. Any call may fail. A path of three names counts as too long. Relative paths, `~`
and symbolic links are resolved before, hence left out; so are permissions and dates. The finds read only; every
other action is one command, which returns, fails, or is ended by its timeout. `shared` in a job is not in the code:
it records, for the two properties, that another action was at work on related paths.

### ControlCenter

`page` is the thread each page waits for, or Ready: that is `disabled` of its buttons. `Click` is run() of the page and
do_POST's choice of a thread, `Act` a step of the action or, with `Serve`, its answer, or the end of the connection
when it raised: both free the page that still waits. `Reload` frees a page while its action goes on. After
`Interrupt` no request is taken, `Quit` ends all threads where they are (a call cut in two is that call failing,
then the end; Ctrl+C goes to the child processes of the terminal as well), and `Launch` starts the GUI again. The
search for a free port is part of `Launch`. A page's user stays in one section; the navigation hides buttons and
does nothing else. Any page may be on cron and be reloaded during its edit, and the shell's menu is used at any
time. The server's stop at the end is `SocketSupervisor`'s.

### FileMenu

`CopyCommand` is the part before `||`, `MoveCommand` the part after it. `Rsync` says which pair of commands the menu
has; the run uses rsync, and with cp and mv TLC finds the same.

## 3. Runs

All runs finish on two workers within three minutes. `CHECK_DEADLOCK FALSE` stands in the cfgs whose systems may
stop: programs that have nothing more to write at the end of the buffer and no lseek, a GUI that was ended,
processes that all exited, a crontab at its bound, a menu without files. `lifecycle` checks deadlock.

| run | instance | shows |
|---|---|---|
| `driver_bounds` | 2 threads on 1 file, faults, every offset and SETSIZE argument from below 0 to beyond the end | `TypeOK`, `CopyInBounds` |
| `driver_wakeup` | 2 readers (one resets), 1 writer, who open, share and close 2 files of 2 minors | `OneFilePerMinor`; `LockSpec`: the access word implements `MinorLock`; `NoLostWakeup`; under fair scheduling `CallEnds` |
| `driver_broadcast` | 1 writer, 1 reader, 3 minors | `HoleFree`, `ReadsWritten`, `BroadcastComplete` |
| `driver_setsize` | SETSIZE in the place of the write | violated: SETSIZE wakes nobody |
| `driver_two_writers` | 2 writers with a file each, hence on 2 minors | violated: more bytes copied from tmp than it received |
| `lifecycle` | 2 minors, 2 requests | `TypeOK`, `Unwound`, `OpenServed`, `NodesReady` |
| `http_clients` | 1 server, up to 2 children, 2 clients | `TypeOK`, `NoFdLeak`, `ConnectionEnds`, `PortFreed` |
| `http_ctrl_c` | 1 server, 1 client | violated: Ctrl+C before accept is lost |
| `supervisor` | 2 requests, the main thread, 3 processes, 1 client | `SupTypeOK`, `Tracked`, `StopStops`, `LockFreed` |
| `control_center` | 2 request threads; 2 pages, both on files with 5 and 6 different requests, both on cron beside a menu whose crontab -l may fail, or both on commands; 2 file actions or edits in one behaviour, up to 2 jobs | `CenterTypeOK`, `FilesKept`, `OkMeansDone`; `EditsApply`: implements `JobList`; with fair threads `PageFreed` |
| `menu_copy` | 1 user, rsync | violated: a copy that fails becomes a move |
| `cron_two_users` | GUI and menu at once, no failing crontab -l | violated: an edit is lost (`EditsKept`) |

**Bounds.** Two minors give a broadcast a target, three give its loop a minor to skip in the middle. A buffer of one or
two cells has a first, a last and a position beyond, which is what the comparisons with 256 tell apart; byte
values only have to differ from each other and from 0. In `driver_wakeup` a write carries 0 bytes, the
smallest one that publishes: the protocol looks at data_ready and never at the bytes. Two children and two
clients let a child inherit what the parent did not close. Two requests and the main thread contend for the
lock, three processes let a server be started while the child of an earlier one is still there. Two edits
can overlap at every pair of their steps, of two pages, of a page and the one reloaded, or of a page and the menu, and
a crontab of a blank line and two jobs has a number before, at and beyond its end. The requests for files are
chosen so that each pair of a page's and another's meets on a path (delete, copy and move of one directory, of what is
in it, and onto what is there), and crosses from one file system to another; two requests overlap in two pages, or in
one that was reloaded. Files and cron share no state but the threads, so `ShellBesideCron` leaves the menu out beside
pages that are not on cron; the theorems have no such restriction.

**Fairness.** `FairSpec` of the driver: the scheduler runs every runnable thread (weak fairness of its own next
step); a sleeper has no step until it is woken, and nobody must call, open or send a signal. `HttpServer` and
`SocketSupervisor`: weak fairness of every process's and thread's own steps; none for clients, users, terminals,
and none for who gets a lock that several wait for, so no property says that a particular request is ever served.
That the bounded wait of the stop ends is weak fairness of the thread in it: its timeout is always enabled.
`ControlCenter`: weak fairness of every request thread. For commands this is what run_cmd's timeouts are for;
crontab(1), pathlib and shutil are taken to return. A command under sudo is not the GUI's to kill: that it ends
is an assumption.

**Disagreements the runs show** (`findings`): SETSIZE makes data without waking (`driver_setsize`); two writers
publish bytes nobody wrote (`driver_two_writers`); Ctrl+C can be lost (`http_ctrl_c`; the GUI is safe, as
`supervisor` shows, since it escalates to SIGKILL); two editors lose an edit that was reported as made
(`cron_two_users`); a copy in the shell menu that fails removes its source (`menu_copy`).
One more has no run of its own: create_file answers that it made a file where a directory is, for `touch` is content
with it (`app.py:214-215`); `OkMeansDone` excuses that case. `FilesKept` and
`OkMeansDone` are about actions whose paths nobody else works on: without that excuse TLC finds that two
moves to one place, or a move and a delete, lose a file, which nothing in the code excludes.

## 4. Proofs

For every value of the constants under the modules' assumptions (`DriverAssumption`, `LifecycleAssumption`: sizes
are positive naturals; `HttpAssumption`, `SupervisorAssumption`: the values for "no file", "no pid", "no connection"
and "no holder" are none, and the main thread is not a request's):

* `CharDriverProofs`
  * `TypeCorrect`, `CopiesInBounds`. `TypeOK` is not inductive: that a copy stays in the buffer depends on what the
    call stored earlier. `TypeInv` adds `CallOK`, which says for each program counter how off, len, k, n and i
    relate (for instance off + len <= MY_BUFFER_SIZE while a copy is under way). The lemmas `..Moves` treat the
    few shapes of a step once (return, go on, fetch a byte, put a byte, load, store), `NextType` combines them.
  * `OneFile`, `ImplementsLock`. `Exclusive` adds to it: two files that are not closed are on different minors,
    access is 1 exactly where there is one, and a thread in a call uses a file that is not closed and is on its
    minor. `ImplementsLock` maps open to Acquire, the last release to Release, and all other steps to stutters.
  * `WakeupsArrive`: if no program uses SETSIZE, `NoLostWakeup` holds for any number of readers, writers
    and resets. `WakeInv` says of every reader in the queue of a ready minor that some writer is between its store of
    data_ready and its wake-up of that minor.
* `BroadcastProofs`, under `OneWriter`: one thread writes, with a good address, and nobody uses lseek, RESET or
  SETSIZE; any number of threads open, read and close. Each exclusion is a way the driver itself makes holes
  (`driver_two_writers` shows the first), and `driver_broadcast` satisfies it.
  * `NoHoles`, `ReadersSeeWritten` (the threads whose results are looked at are readers). `HoleFree` speaks of the
    minors alone; `DataInv` adds where the bytes are on their way: `Placed` (only the writer is in my_write, so
    what it reads twice from `dev->size` is the same), `Sound` (the filled part of tmp, of a minor and of a reader's
    buffer at each program counter) and `FilesSound` (no f_pos beyond the size).
  * `BroadcastsComplete`, an action property, from `Progress`: the minors below the loop's i have the writer's data.
* `DriverLifecycleProofs`: `LifecycleTypes`, `LeavesNothing`, `OpenKeepsDriver`, `ReportsReadyNodes`, from
  `LInv`: `Loops` says at each position of the loops in my_init, its error path and my_exit which minors are set up and
  which cdevs are there; `Seen` says which nodes a request has seen to so far.
* `HttpServerProofs`: `HttpTypes`, `NoLeak`. `NoFdLeak` is not inductive: accept and fork hand a descriptor to a
  process of which it says nothing. `FdInv` adds `Unserved`, that a process outside a request (also a free number
  and a zombie) serves nobody. Each step has a lemma of its own, which does not depend on `Next`.
* `SocketSupervisorProofs`: `SupervisorTypes`, `ServerTracked`, `StopLeavesNone`, with the lemmas of
  `HttpServerProofs` for the processes' steps. `SupInv` adds to `SupTypeOK` and `Tracked`: `Cleared`, that a thread about to
  call Popen has seen that there is no server (without it Popen would overwrite one), and `AllGone`, that the daemon
  threads end with the main thread. `Cleared` rests on the lock, so mutual exclusion is part of the induction. That
  no step but `Start` makes a group leader (`ServerLeaders`, `SignalLeaders`) is what keeps servers from appearing.
* `ControlCenterProofs`, with the lemmas of `CrontabProofs` and `FileActionsProofs`. `CenterAssumption` says that the
  starting trees are trees and that a page's Ready is no thread; `FilesAssumption`, that the contents of files are
  none of the values for nothing, a directory, a file cut short and an empty one.
  * `CenterTypes`. That the tree stays a tree is the part that could fail: each step of an action tests, and acts on
    what others have changed since. `FilesInv` adds `JobOK`, that what is removed, copied or renamed is never the
    directory all paths start from. For a copy (`CopyTree`) no two sources come to one place, nothing comes above
    the target, and a directory is never replaced by a file; for a rename (`MovedTree`) the target is not below the
    source. `CronTyped` adds that an editor has a wish exactly while it is at work, and that a number the GUI is
    going to delete is in the list it read; `Fetches` is the pages' part.
  * `CronEditsApply`: refinement of `JobList`, for any number of cron pages, threads and menus that work at once. An
    editor that has read maps to one of `JobList` that has seen the jobs among the lines read (`View`); a write maps to
    `Do`, for `GuiEdits` and `ShellEdits` say that what is installed is the edit asked for of what was seen; the end of
    main maps to all editors of the GUI giving up at once. The theorem says that an edit is applied at most once and
    whole, to a list that the crontab held since it was asked for (the empty one for a menu whose crontab -l failed).
    It does not say that overlapping edits keep each other: they do not (`cron_two_users`). `Strip` is a recursive function, and what
    it returns for every crontab (`StripType`, `StripAppend`, `StripJobs`) is shown by induction over the length: the
    library's induction theorems take an operator, which the provers cannot instantiate, but `NatSet` says the same
    of a set and follows from `WFMin`.
  * `NothingLost`, `OkIsDone`: `FilesKept` and `OkMeansDone`, for any trees of two levels. Their excuse (`shared`)
    makes them statements about the whole history of a request, which three invariants keep. `FilesInv` ties each
    program counter to what was asked. `Apart`: of two actions at work that are not both shared, neither has a
    path above or below one of the other's, unless one only reads; since a step changes the tree only near its own paths
    (`StepNear`), what is at and below the paths of an unshared action is as it left it (`OthersStay`). `MovesOK`:
    a move that is about to remove its source has found every item of it, with the same content, below the target,
    which is neither above nor below the source. From there each step is looked at by itself: what may it lose
    (`StepKeeps`), and what has it done when it answers (`StepAchieves`). A file copied into its own directory and
    a directory copied above itself are the cases that needed care; there a copy may meet its own source.

Only model-checked: all liveness (`CallEnds`, `ConnectionEnds`, `PortFreed`, `LockFreed`, `PageFreed`), for the
prover has no fairness.

## 5. Not modelled, and why

The menus other than cron and files, and the C demos other than the HTTP server: sequential programs around single
commands; whether process_mgmt's child is in pause after one second is a matter of time. The hello module. What
the commands of the GUI do to the system, except where another module models it. The two test programs as
scripts. The content of HTTP messages, listings and logs. The order of
the memory accesses of other builds. Processes that cannot be killed, and the reuse of a process number within
one kill.

## 6. Plan

1. The two test programs as scripts over `CharDriver` (what test_app expects when others write, the second
   run of test_blocking); process_mgmt.
2. Composition of `DriverLifecycle` with `CharDriver`, so that the opens of the one are the calls of the other, and a write
   during my_init shows what it meets.
3. An abstract server slot (stopped, running) that `SocketSupervisor` implements.
