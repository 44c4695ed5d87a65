# Verification of the mcs9835 driver and of LIBSPIO

This project models the Linux driver for the MosChip MCS9835 card (two UARTs
and a parallel port behind one PCI function, `src/sw/drv`) and the library
beside it (`src/sw/lib`) in TLA+, checks the models with TLC and proves the
main results about both with TLAPS.

## 1. The system

| Component | Source | State | Operations |
|---|---|---|---|
| Driver core | `mcs9835_core.c`, `mcs9835.h` | the array of device records (`mcs9835_devices`), the counter `mcs9835_dev_idx` | module load and unload, `mcs9835_probe`, `mcs9835_remove`, open/read/write/close of the parallel port |
| Character devices | `mcs9835_cdev.c` | class and `chr[]` of a record | `mcs9835_cdev_initialize/finalize/create/destroy` |
| Log levels | `mcs9835_log.c`, `.h` | `log_list`, `mcs_log_level` | `mcs_set_log_level`, `mcs_display_log_levels` |
| LIBSPIO core | `spio_core.cpp`, `spio.cpp`, `spio.h` | `m_initialized`, the error record, two mutexes | `spio_initialize`, `spio_finalize`, `spio_get_last_error`, two queries |
| LIBSPIO utilities, exceptions | `spio_utility.cpp`, `spio_exception.cpp` | none shared | mutex wrappers, nanosleep, exception texts |
| Test program | `test/test_libspio.c` | the menu choice | a loop that calls LIBSPIO |
| Scripts, kernel configuration | `build.sh`, `qemu/`, `target/`, `kernel/` | - | - |

How they meet:

* The module loader calls `mcs9835_initialize` and `mcs9835_finalize`. The PCI
  core calls `mcs9835_probe` and `mcs9835_remove` for each device; they call
  `mcs9835_cdev.c`, which registers with the character device core and the
  device model. From `cdev_add` on, processes reach the file operations, which
  get to the record from the cdev inside it.
* Nothing in the driver takes a lock. What keeps its parts from each other is
  the kernel: the module's reference count and the PCI core running one call
  at a time for a device (and, for devices under one parent, at all).
* The driver and LIBSPIO do not call each other in this revision.

What is hard: a record is shared by every probe, remove and file operation of
its slot and is never cleared; cookies of an earlier device stay in it; a slot
is chosen at the start of a probe and claimed at its end; the counter of slots
is a stack that devices leave in any order; a probe can fail at each of a dozen
steps; files are opened while a probe is still running; devices may be unbound
under an open file. In LIBSPIO: two mutexes nested in `finalize`, an error
record of one place, handlers that unlock whether or not they locked.
`PROJECT.json` lists each of these under `hazards`, at its line.

What makes each component correct:

* **Driver core**: an access through an open file reaches the port of the
  device the file was opened for; between calls, a bound device holds all it
  was given and every other device holds nothing; nobody but its own probe and
  remove touches a published record; the array lives as long as someone can
  get to it.
* **Character devices**: registered from the inside out and removed from the
  outside in, once each, never with an unusable class.
* **Log levels**: table and mask agree.
* **LIBSPIO**: each call is atomic for other threads, `initialize` and
  `finalize` alternate, an unread error is kept and read once, every call
  returns.

## 2. The modules

| Module | What it is |
|---|---|
| `Mcs9835` | constants, the shared variables, calls and files in progress, `TypeOK` |
| `Mcs9835Cdev` | `mcs9835_cdev.c`, one action per kernel call |
| `Mcs9835Core` | `mcs9835_core.c`, composed with it: `Init`, `Next`, `Spec` |
| `Mcs9835Safety` | the driver's properties and the inductive invariant `IInv` |
| `ParportService` | what the driver promises processes: devices are attached, opened, reached, closed, detached |
| `Mcs9835Refinement` | the mapping under which the driver implements it |
| `Mcs9835Ledger` | a second inductive invariant, `LedgerInv`: what the driver holds of the kernel at each step |
| `Mcs9835TypeProof`, `Mcs9835CoreProof`, `Mcs9835LedgerProof`, `Mcs9835UseProof` | theorems and proofs about the driver: its types, `IInv`, `LedgerInv` and what follows, the life of the array of records |
| `Mcs9835ServiceProof` | that the driver implements `ParportService` |
| `McsLog`, `McsLogProof` | `mcs9835_log.c`, its properties and their proofs |
| `SpioCore`, `SpioSafety` | `spio_core.cpp`, its properties and the inductive invariant `OrderInv` |
| `SpioProof` | theorems and proofs about it |
| `SpioService` | LIBSPIO with atomic calls, which `SpioCore` implements |
| `TestLibspio` | `test_libspio.c`, the menu program, composed with `SpioCore`, and its properties |
| `TestLibspioProof` | theorems and proofs about it |
| `MCMcs9835Core`, `MCMcsLog`, `MCSpioCore` | small sets for TLC |

### The driver

A variable per field of `struct mcs9835_dev` maps each slot to the field's
value. A BAR cookie (`vmem_bar0..3`) is the device it maps, or `NULL`; a class
pointer is the index in the class's name, `NULL` or `ERR_PTR`, since
`class_create` returns an error value that the code stores and compares with
`NULL` only. `frame[d]` is the call of the PCI core in progress for device `d`:
its label is the kernel function it is about to call, so each step of a
function is one action, and files are opened and used in between. `file[h]` is
a `struct file` with the call on it. Two fields of it are history, which no
guard reads: `dev`, the device the file was opened for, and `hit`, the device
its last access reached.

`pci`, `mapped`, `bound`, `drvdata`, `classes`, `reg` are the kernel's ledger:
what the driver has enabled, mapped and registered and not given back. They
stand for code outside the repository, and are modelled from how the driver
uses it. A kernel call that can fail is a disjunction of its two outcomes.
Where the kernel would follow a pointer that is an error value, the step is
disabled; `ClassUsable` shows that no call comes to such a point, nor to one
where the pointer is that of a class that no longer exists.

Calls that change nothing are stuttering steps and have no action: a probe
refused with `-EBUSY`, an open of a UART (`-ENXIO`), a read or write whose
count is not 1 or whose user buffer faults, a load whose `kmalloc` fails.
`mcs9835_dev.dev_idx` is only printed and is left out, as are `cdev_init` and
the setting of `owner`, which take effect with `cdev_add`. `pci_iounmap` of a
cookie that is not mapped has no effect, as on x86.

Two constants choose the environment. `HotUnbind`: may a device be unbound
through sysfs (or removed) while the module lives? The module's reference
count does not prevent it. `Concurrent`: may calls for two devices overlap? In
the kernel of this repository (2.6.32) calls are serialised for devices under
one parent bridge, and not for devices under different ones. `Publish` is one
step for the four writes at the end of a probe. Where calls are serialised
nobody sees the difference: `init_done` is the last of them, and an open looks
at it first. Where calls overlap it is a simplification, since
`mcs9835_dev_idx++` is a read and a write and an increment may be lost; what
`concurrent_probes` finds does not need that.

### Log levels

The driver keeps its log levels twice: `mcs_log_level`, the mask that `LOG`
tests, and `log_list`, the table that `mcs_display_log_levels` prints. A mask
is the set of its bits and a level is its bit; `OtherBits` are the bits no
level has. Each entry of the table has a bit of its own, so that the loop of
`mcs_set_log_level` is a function of the levels (`ListAfter`, `MaskAfter`).
`Load` is the part of `mcs9835_initialize` that sets the levels: the default
mask is enabled in the table, then the module parameter `loglevel`. It only
adds levels, which the run `loglevel` shows. A call with a status other than
the three returns `-EINVAL` and changes nothing. Toggling is `x = (++x % 2)`,
which C leaves undefined; gcc computes the remainder of the incremented value
and stores it last at each of `-O0` to `-Os`, and that is what the model does.
No file of the driver calls `mcs_set_log_level` after the load, though the
header exports it; the model lets any caller do so between load and unload.

### LIBSPIO

`call[t]` is the call of thread `t`; its label is the next lock, unlock or
critical section. A field is written by its critical section in one step,
which the mutex around it makes indivisible. `MutexFails` lets every
`pthread_mutex_lock` and `_unlock` return an error. With the default attributes
that `spio_core` asks for neither ever does in the C library, but the code
handles it: the handler then unlocks a mutex it may not hold, and such an
unlock frees a default mutex whoever holds it. `Budget` bounds the calls of a
thread, so that a finite program is modelled. Texts, the product information
and stack traces are left out, and an error's source follows from its code.
A null `status` given to `spio_get_last_error` is not modelled (the code
dereferences it). The paths of `catch (...)` need an exception no statement
throws apart from memory exhaustion, and are left out.

`Lock` and `Unlock` are `spio_do_mutex_lock` and `spio_do_mutex_unlock`, and the
macros that do the same for the error mutex.

### The menu program

`TestLibspio` instantiates `SpioCore` with one thread, whose calls are the
choices of the menu instead of any call at any time (`Budget` is 0, so that
`Enter` is never taken; `Call` is what `Enter` does without the budget). Choice
2 makes two calls, `spio_get_last_error` and then `spio_get_error_string` for
the code it was given. `scanf` takes a number off the input and leaves anything
else where it is; `continue` then goes to the loop's condition, so that the
program goes round for ever, and if nothing was read before, the condition
looks at a local that was never set: `ReadFails` lets it be 100 or not. The
mutexes do not fail here, for which reason the error branches of
`get_prod_info` and `get_last_error` are never taken. `owed` and `report` are
history: what a user who keeps count of refused choices expects to be shown,
and what was shown.

## 3. What the runs check

| Run | Instance | Shows |
|---|---|---|
| `rmmod` | 2 devices, 1 slot, 2 files, devices stay | `IInv`, `PortAccessOwn`, `NoUseAfterFree`, `CdevInitUnused` (the next probe does not initialise the cdev of an open port), refinement of `ParportService` |
| `hot_unbind` | 3 devices, 1 slot, 1 file, unbinding | `LedgerInv`, `AllOrNothing`, `CdevLayering`, `OpenableIsMapped`, `RemoveTearsDownOwn`, `ClassUsable`, `NothingLeftBehind`, `RecordStable`, `BoundIsServed` (a file whose device is in service reaches it, after any number of unbinds, rebinds and failed probes of others) |
| `two_slots` | 3 devices, 2 slots, 2 files, devices stay | `LedgerInv`, `IInv`, `AllOrNothing`, `SlotStack`, `RecordStable`, the refinement |
| `log_levels` | 8 levels, 1 other bit, every mask | `DisplayedIsLogged`: table and mask agree |
| `spio_threads` | 2 threads, 3 calls each | `OrderInv`; LIBSPIO implements `SpioService`; every call returns |
| `menu` | one thread, any choices, unreadable input | `MenuInv`, `ShowsFirstRefusal`, `EndsUnlocked`, `ChoiceCompletes` |
| `spio_failing` | 3 threads, 1 call each, failing mutexes | the error record is touched by one thread at a time |

Five runs find what a comment or a header says contradicted by the code:

* `stale_handle` (`PortAccessOwn`): reads and writes do not look at
  `init_done`, so after an unbind under an open file they use an unmapped
  cookie, or that of the device bound next.
* `concurrent_probes` (`RecordStable`): two overlapping probes take the same
  slot, and the second overwrites the record the first has published.
* `load_fails` (`FreedWhenAbsent`): when `pci_register_driver` fails the array
  is not freed.
* `loglevel` (`LoglevelOverrides`): the parameter `loglevel` "Overrides the
  default loglevel" (`mcs9835_core.c:46`); the load only adds its levels.
* `spio_queries` (`QueriesSucceed`): `spio.h` says that two functions always
  return `SPIO_SUCCESS`; they return `SPIO_FAILURE` for a null pointer.

Bounds. One slot is the value in the code (`MCS9835_MAX_DEVICES`), and two
devices are the least that compete for it: one is refused, or takes the slot
the other has left, stale cookies included. `hot_unbind` has a third device,
for a slot that has had two earlier owners whose leavings a failing probe may
mix with its own, and `two_slots` one for a slot that two devices have filled.
Two files are the least with which one is opened while another is used. Two
slots are beyond the code's value and show what the counter promises if it is
raised. With hot unbind and two slots the counter is no longer a stack of the
slots in use, which is why `hot_unbind` keeps to the value in the code. Nothing
in the driver's runs is cut off by a counter; LIBSPIO's calls are bounded by
`Budget`, and two threads and three calls each contain every pair of
overlapping calls after every initialisation state and error state. The menu
program is not bounded: its states are finite. Of the twelve log levels eight
are given to TLC, the four of the default mask and four others; levels do not
depend on each other but through the mask of one call, and the proof is for any
number of them.

Fairness. The driver has none, and no liveness property: `mcs9835_probe` and
`mcs9835_remove` are without loops and locks, so that a call of theirs ends is
the kernel's doing; that no call comes to a point where the kernel could not go
on is a safety property, `ClassUsable`. `FairSpec` of LIBSPIO is weak fairness
of each thread; it is enough for `CallsReturn` because the other threads make
finitely many calls. No mutex is assumed to be handed over fairly. `FairSpec`
of the menu program says that the process runs whenever it can; nothing says
that its user types anything.
`spio_threads`, `spio_failing` and `spio_queries` turn the deadlock check off,
since threads that have made all their calls stop, and so does `menu`, whose
program ends; the runs of the driver and of its log levels keep it.

## 4. What is proved

Every safety property that a passing run checks is also a theorem, and so are
both refinements. The theorems about the driver hold for every finite or
infinite set of devices and handles and every number of slots, under
`McsAssumption` (the constants have their types, and `NULL`, `ERR_PTR` and
`NOWHERE` are not devices). They differ in the environment they need:

| Theorem | States | Environment |
|---|---|---|
| `TypeCorrect` | `TypeOK` | any |
| `FreedUnused` | `NoUseAfterFree` | any |
| `LedgerInvariance` | `LedgerInv` | calls one at a time; devices stay, or one slot |
| `NoLeaks`, `CdevsLayered`, `OpenablesMapped`, `RemovesOwn`, `SlotsStacked`, `ClassesUsable`, `UnloadLeavesNothing`, `RecordsStay` | `AllOrNothing`, `CdevLayering`, `OpenableIsMapped`, `RemoveTearsDownOwn`, `SlotStack`, `ClassUsable`, `NothingLeftBehind`, `RecordStable` | the same |
| `BoundServed` | `BoundIsServed` | the same |
| `Invariance` | `IInv` | calls one at a time; devices stay |
| `PortAccess`, `OpenCdevKept` | `PortAccessOwn`, `CdevInitUnused` | the same |
| `Implementation` | `ImplementsService` | the same |

"Devices stay" is `~HotUnbind`, "calls one at a time" is `~Concurrent`, "one
slot" is `MAX_DEVICES = 1`, the value in the code. Each is needed: `stale_handle`
violates `PortAccessOwn` where devices leave, `concurrent_probes` violates
`RecordStable` where calls overlap, and with two slots and devices that leave
the counter can name a slot in use.

**Any environment** (`Mcs9835TypeProof`, `Mcs9835UseProof`). `TypeOK` is not
inductive alone: a probe works on the record that `mcs9835_dev_idx` names and
tests only that the counter is below the maximum, so that it must not be
negative. `CountedInv` says why it is not: the devices that are bound, or whose
probe has published them, are never more than the counter (`CounterInv`), and a
remove that decrements it is that of one of them. (Where calls overlap this
rests on `Publish` being one step: a lost increment would break it.) `TypeStep` and
`HandlerCounted` have a step per action. For `FreedUnused` the invariant is
`UseInv`: a module that is not absent has its array, an absent one has neither
calls nor devices, and files are open only while it is live. It needs nothing of
the records, which is why it survives hot unbind and overlapping calls.

**What open files reach** (`Mcs9835CoreProof`). `PortAccessOwn` is not
inductive: that a read reaches its own port depends on what a failed probe of
*another* device unmaps. `IInv` says what keeps it from harm:

1. calls do not overlap (`OneCall`);
2. while the module is live, the slots below the counter are published with
   the mapped ports of their device, the slots above it were never used, and
   the stale cookies of the slot in between belong to no published device
   (`RecordsInv`), so `pci_iounmap` of stale cookies takes nothing from a
   published device;
3. a call in flight in a live module is a probe of exactly that slot, has
   mapped the BARs it has passed, and fails with its result set (`FrameInv`);
   while the module unloads a call in flight is a remove;
4. an idle device is bound if and only if it is published (`BoundInv`);
5. an open file exists in a live module only and names the device its slot is
   published for (`FileInv`).

The lemmas of `Mcs9835CoreProof` follow the actions: `QuietStep` covers the many
steps that touch neither the records' cookies nor the counter, and `IomapStep`,
`IounmapStep`, `PublishStep`, `ProbeReturnStep`, `RetireStep`, `CallStep`,
`ModuleStep` and `FileStep` the others. `OpenCdevKept` follows: a probe before
its publication works on the slot the counter names, and an open file's slot is
below the counter.

**What the driver holds** (`Mcs9835Ledger`, `Mcs9835LedgerProof`).
`AllOrNothing` speaks of the moments between calls, and is inductive only with
what is held in the middle of them. `LedgerInv` says, for every place a call can
stand at, what it holds there. It has three parts, each preserved with the help
of the ones before:

1. `SlotInv`: which slot belongs to whom. The driver data of a bound device
   leads to the slot published for it, which leads back; a probe that has not
   published works on the slot the counter names, which nobody owns; a remove
   works on the slot of its device; and the counter counts the slots in use
   (the part that needs one slot where devices leave: whichever leaves, it is
   then the top of the stack).
2. `PciInv`: what is enabled, reserved and mapped, and that the cookies free
   slots have kept from failed probes and former owners are of devices that
   own no slot.
3. `ChrInv`: the class and the number, cdev and node of each character device.
   A slot no call works on is complete or empty. In any other, what is complete
   lies below the one in hand in a probe, which unwinds downwards, and above it
   in a remove, which destroys upwards (`Whole`).

`SlotStep`, `PciStep` and `ChrStep` are the three induction steps; the
properties then follow from `LedgerInv` state by state, and `RecordsStay` step by
step. It does not follow from `IInv` where devices leave, and `PortAccessOwn`
does not follow from `LedgerInv`, which says nothing of files: hence two
invariants.

**Files whose device left and came back** (`Mcs9835ServiceProof`). Where devices
leave under open files `PortAccessOwn` is false, and `BoundIsServed` is what
remains of it: while the device of a file is bound and no call runs for it, a
read or write reaches it, whoever had the slot since the file was opened. The
file's slot is that of its device, because there is only one (`MAX_DEVICES = 1`)
or because the device never left (`IInv`); the slot's cookies are then its
device's and mapped, by `LedgerInv`.

**The refinement** (`Mcs9835ServiceProof`). With both invariants each action of
the driver is a step of `ParportService` or invisible to it. `Publish` attaches,
`Retire` detaches, an open, access or close is that of the service by `IInv`;
that a device is attached only when there is room follows from `SlotInv`, by an
injection of the devices in service into the slots in use.

**Log levels** (`McsLogProof`), for any table, any initial mask made of its
levels and any other bits: `LogTypeCorrect` (`TypeOK`) and `DisplayAgrees`
(`DisplayedIsLogged`). The two are inductive together: a toggle is right only
for a status that is on or off.

**LIBSPIO** (`SpioProof`), for any set of threads and any number of calls. With
mutexes that fail or not: `SpioTypeCorrect` (`TypeOK`) and `RecordGuarded`
(`ErrorRecordGuarded`). The latter is not inductive; `HolderAtRecord` is: a
thread that stands at the error record holds the error mutex, since no thread
unlocks that mutex without standing there. The same would be false of the
initialization mutex, which the handler unlocks after a lock that failed. With
mutexes that do not fail it is true of that one too, and more:
`OrderInvariance` (`OrderInv`): what `initialize` or `finalize` has checked
under the mutex stays so until it is freed, and an error is on record exactly
when it has not been read. From there `Linearization` (`ImplementsSpio`): each
call takes effect at one step of `SpioService`, for `finalize` the read that
clears the record, half way through the call; a refused call is refused at one
step and records its error at a later one. `Outcomes` lists what a step
does to the object and to its call, once for both proofs.

**The menu program** (`TestLibspioProof`), for any sequence of choices:
`MenuInvariance` (`MenuInv`), `FirstRefusalShown` (`ShowsFirstRefusal`) and
`MutexesFreeAtEnd` (`EndsUnlocked`). What is shown is right because the record
always holds the error owed to the user, except in the calls that have just
recorded or cleared one; `RecordOK` says in which places that is.

Only model-checked: liveness (`CallsReturn`, `ChoiceCompletes`), which is beyond the prover, and what the five runs with a
violation find, which is false.

## 5. Not modelled, and the plan

Not modelled:

* register values, texts, stack traces and the layout of what is printed;
* the kernel's own reference counts of a cdev. `chrdev_open` finds the cdev and
  takes the module's reference in one step. `CdevInitUnused` therefore speaks
  of files that are open: it holds while devices stay, and is false as soon as
  a device is unbound under an open file, when the next probe of the slot
  initialises the cdev the file still points to. An open that has found the
  cdev of a probe that then fails is a shorter window of the same kind;
* that `class_create` keeps the pointer to the name it is given, which
  `mcs9835_cdev_initialize` has on its stack: who reads it is the kernel;
* `spio_do_nanosleep`, `spio_get_my_pid` and `spio_get_my_thread_id`: the first
  has no caller, the others feed texts only;
* a null `status` given to `spio_get_last_error`, and `catch (...)`;
* scripts, QEMU and kernel configuration.

Order of work:

1. *(done)* `Mcs9835`, `Mcs9835Cdev`, `Mcs9835Core`: the driver, its invariants,
   `ParportService` and the refinement, `TypeCorrect`, `Invariance`,
   `PortAccess`.
2. *(done)* `SpioCore`, `SpioService`: LIBSPIO and its refinement.
3. *(done)* `McsLog`: `mcs_set_log_level` and the load that calls it.
4. *(done)* `TestLibspio`: the menu program, composed with `SpioCore`.
5. *(done)* `OpenCdevKept` from `IInv`; `McsLogProof`; `RecordGuarded` with
   failing mutexes.
6. *(done)* `LedgerInv` and the theorems that follow from it; `FreedUnused` in
   every environment; both refinements; the menu program's theorems.
7. *(done)* The counter is not negative in any environment; `BoundIsServed` where
   devices leave under open files.
8. Theorems about overlapping calls: that a device still gives back what it was
   given if no other call shares its slot; and `Publish` in its four writes.
9. Files that outlive their device: the cdev's reference count, and the
   `cdev_init` of the next probe over it.
