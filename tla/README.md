# go-usb in TLA+

go-usb is a pure Go USB library with one public API and three backends: usbfs
on Linux, WinUSB/HID on Windows, IOKit on macOS. This directory models the
library's own logic on the three systems, checks it with TLC, and proves with
TLAPS its safety invariants for instances of any size.

## 1. Inventory

| Component | Source | State | Operations | What makes it hard |
|---|---|---|---|---|
| Linux asynchronous transfers | `device_linux.go`, `async_linux.go`, `isochronous_linux.go`, `transfer_linux.go` (reset) | `closed`, `fd`, `reapMap`, `reaping`, wake pipe, `reapDone`; transfer objects | `Submit`, `Cancel`, `Wait`, `Close`, `ResetDevice`, `reapLoop` | a goroutine started on demand, two locks, fields that are replaced when a second reaper starts, unplug |
| Linux device handle | `device_linux.go`, `transfer_linux.go` | `fd`, `claimedIfaces`, `closed`; the kernel's claims | claim, release, detach, attach, transfers with retry, standard requests, reset, `Close` | file numbers that are used again, the lock given up between attempts, claims that a reset drops |
| Windows asynchronous transfers | `device_windows.go`, `async_windows.go` | `closed`, handles, `iocp`, `iocpPending`, `iocpDone` | the same, `iocpPump` | `Submit` reads `closed` outside the lock; cancellation is asynchronous; drain window |
| Windows device handle | `device_windows.go`, `transfer_windows.go`, `compat_windows.go`, `isochronous_windows.go`, `hid_*windows.go` | file, WinUSB handles, claims, HID collections | open, claim, transfers with timeout, `AsyncBulkTransfer`, reset, `Close` | four paths that free handles; requests that outlive their timeout |
| Windows isochronous transfers | `isochronous_windows.go` | registered buffer, event, `submitted`, `done` | new, `Submit`, `Wait`, `Cancel`, `Close` | fields without a lock, half-made registrations |
| Windows HID transport | `hid_windows.go`, `hid_api_windows.go` | collections by interface | open, reports | which collection serves an endpoint |
| Windows enumeration | `compat_windows.go`, `setupapi_windows.go`, `devnode_windows.go` | none | `DeviceList` | several interfaces for one device, in any order; unplug between any two queries |
| macOS device handle | `devicehandle_darwin.go`, `transfer_darwin.go`, `interface_darwin.go` | `claimed`, `interfaces`, `hid` | claim with HID fallback, transfers, release, `Close` | a worker goroutine that outlives its call |
| macOS asynchronous and isochronous transfers | `async_darwin.go`, `isochronous_darwin.go` | run loop thread, pending maps | `Submit`, `Cancel`, `Wait`, `stopAsyncPump` | callbacks on a locked thread, maps made after `asyncStarted` is set |
| macOS HID transport | `hid_darwin.go` | queue of 32 reports, run loop | read, write, flush, close | the queue drops its oldest entry while readers take from it |
| Hotplug, Linux | `hotplug_linux.go` | netlink socket, wake pipe, `seen`, `stopped`, `done` | register, `pump`, `Deregister` | snapshot against uevents, lost uevents, `epoll_wait` |
| Hotplug, Windows | `hotplug_windows.go` | hidden window, message queue, `seen`, `stopped`, `done` | the same | snapshot on the pump thread while messages queue |
| Hotplug, macOS | `hotplug_darwin.go` | notification port, two iterators, run loop | the same | iterators that must be drained, `CFRunLoopStop` before the loop runs |
| Configuration descriptors | `config.go`, `transfer_*.go`, `device_*.go` | none | `RawConfigDescriptor`, `Unmarshal`, lookups, `ReadConfigDescriptor`, `endpointInterface` | lengths taken from the device; several parsers |
| BOS and string descriptors | `device_*.go`, `compat_windows.go`, `usbwire.go` | none | `ReadBOSDescriptor`, capability searches, `StringDescriptor` | the same |
| Linux and macOS enumeration, bindings, id database, commands | `sysfs_linux.go`, `iokit_*.go`, `usbids.go`, `cmd/`, ... | | | not modelled, see section 6 |

The components meet in `DeviceHandle`: transfers of every kind share its file
or interfaces, its locks and its completion goroutine, and `Close` and
`ResetDevice` act on all of them. Hotplug is independent of open handles; it
calls enumeration for its snapshot and user code through a callback. Descriptor
readers are called by the handle, on Windows also to find the interface an
endpoint belongs to.

What makes the parts correct:

* transfers: every accepted submission is reported once; the buffer is the
  caller's again only when the kernel or driver is done with it; a waiter is
  released by completion, unplug or `Close`; `Close` returns and nothing runs
  after it;
* completion goroutine: exactly one serves the map, its pipe and channel are
  its own, no map store after shutdown;
* handle: what it has claimed is what the system has claimed for it, a transfer
  is on an open file or interface of this handle, every system handle is given
  back once;
* hotplug: the user's view is the set of connected devices once the events are
  handled, arrivals and departures alternate, `Deregister` returns and ends the
  callbacks;
* descriptors: the readers return, keep every descriptor the device sent, and
  agree with each other across systems, but where section 4 says otherwise.

## 2. Modules

| Module | Models | Checked by |
|---|---|---|
| `UsbfsAsync` | the Linux asynchronous core | `usbfs_*` |
| `UsbfsHandle` | claims, kernel drivers, synchronous transfers, retry, reset, `Close` on Linux | `linux` |
| `HotplugContract` | what a hotplug watch promises (`hotplug.go`), abstract | through `HotplugWindows` and `HotplugDarwin` |
| `HotplugLinux` | the netlink watch | `linux`, `hotplug_twice` |
| `HotplugWindows` | the message-window watch, a refinement of `HotplugContract` | `windows` |
| `HotplugDarwin` | the notification-port watch, a refinement of `HotplugContract` | `darwin` |
| `WinUsbAsync` | the completion port | `windows` |
| `WinUsbHandle` | WinUSB and HID handles, overlapped transfers, `AsyncBulkTransfer` | `win_handle` |
| `WinUsbIso` | an isochronous transfer on Windows | `windows` |
| `WinDeviceList` | `DeviceList` on Windows | `windows` |
| `DarwinHandle` | claims, HID fallback and synchronous transfers on macOS | `darwin` |
| `DarwinPump` | the completion pump of an interface on macOS | `darwin`, `darwin_race` |
| `DarwinHid` | the report queue of a HID collection on macOS | `darwin` |
| `ConfigDescriptor`, `WinEndpoints` | the configuration readers, and the endpoint lookups built on them | `descriptors` |
| `BosDescriptor`, `StringDescriptor`, `IsoPackets` | BOS capabilities, strings, slices of isochronous buffers | `descriptors` |
| `MCLinux`, `MCWindows`, `MCDarwin`, `MCDescriptors`, `MCUsbfsAsync`, `MCWinUsbHandle` | what TLC needs beside the specifications | |
| `UsbfsAsyncProofs`, `LinuxProofs`, `WinUsbHandleProofs`, `WindowsProofs`, `DarwinProofs`, `DarwinWatchProofs`, `WireProofs`, `ConfigProofs` | theorems (section 5) | TLAPS |

In the modules with goroutines a step is one system call or one critical
section; code between two of these touches only the goroutine's own state.
Program counters (`spc`, `cpc`, `rpc`, `ppc`, `dpc`, ...) say where a goroutine
is.

`MCLinux`, `MCWindows`, `MCDarwin` and `MCDescriptors` check several modules in
one run. The modules share no state, so that their product would only multiply
the states: the variable `part` picks one of them in the initial state, the
others stay in an initial or a finished state, and a step is one of the chosen
module's `Next`. No behaviour of a module is lost by it. The
properties of such a run are conjunctions of the modules' own, defined in the
`MC` module under the name of what they protect:

| Property | Conjuncts |
|---|---|
| `ClaimsAccounted`, `TransfersSafe` (`linux`) | `UsbfsHandle`: `TypeOK`, `ClaimsMatchKernel`, `CloseReleasesAll`; `LockedTransferOnOwnFile`, `HaltClearedBeforeRetry` |
| `CallbacksOrdered`, `NothingStuck` (`linux`) | `HotplugLinux`: `LeftFollowsArrived`, `SilentAfterDeregister`; `ArrivalReported`, `DeregisterReturns`, and `UsbfsHandle`: `NoLockDeadlock` |
| `WatchSound`, `IsoSound`, `ListFaithful` (`windows`) | `HotplugWindows`: `TypeOK`, `ViewIsCurrent`; `WinUsbIso`: `WaitedMeansReturned`, `RegistrationUndone`; `WinDeviceList`: `OnePerPort`, `IdentityIsDevice`, `OpensWinUsb`, `ParentAddressed`, and no hub left open (for devices that stay) |
| `CallsReturn` (`windows`) | `Close` and what was in flight, `Deregister`, `Wait` of an aborted isochronous transfer |
| `HandlesSound`, `CallsReturn` (`win_handle`) | `HandlesFreedOnce`, `CloseFreesAll`, `TransferOnLiveHandle`; `CloseReturns`, `AbCompletes` |
| `ReportsIntact`, `PumpSound`, `WatchSound` (`darwin`) | `DarwinHid`: `NewestKept`, `InOrder`, `FlushDiscards`, `NoCallbackAfterClose`; `DarwinPump`: `PendingHoldsBuffer`, `CompletionIsOwn`, `PumpJoined`; `HotplugDarwin`: `ViewIsCurrent`, `NothingStranded`, `AllReleased`, `SilentAfterDeregister` |
| `HandleClaims`, `HandleCalls`, `CallsReturn` (`darwin`) | `DarwinHandle`: `ClaimsAreOpen`, `CloseReleasesAll`; `LiveCallHoldsInterface`, `ResultIsOwn`; the `Close`s, `Deregister` and `CancelCompletes` |
| `ConfigRead`, `EndpointsRouted`, `SystemsAgree`, `PacketsSound`, `ParsersReturn` (`descriptors`) | `ConfigDescriptor`: `FieldsInDescriptor`, `NothingLostOrDoubled`, `LookupsComplete`, `ParsersAgree`; `WinEndpoints`: `EndpointFindsInterface`, `HidEndpointServed`; `BosDescriptor` and `StringDescriptor`: `CapabilityFieldsInBuffer`, `SearchAgreesWithList`, `StringsAnswered`, `DecodingInvertsEncoding`, `DecodersAgree`; `IsoPackets`: `SlicesAreData`, `SlicesDisjoint`; `ReadReturns`, `ParseAdvances` |

### UsbfsAsync

`Submit` is `SubmitEnter` (busy check, `RLock`, closed check), `SubmitURB` (the
ioctl, which the kernel may refuse), `SubmitMark`, `registerURBCompletion`
(starts the reaper when none runs) and, if `pipe2` fails, `SubmitUndo`.
`Cancel` is `CancelCheck` and `CancelDiscard`; a `WaitWithTimeout` whose timer
fires is a `Cancel`. `reapLoop` is set-up, closed check, `epoll_wait`, the drain
loop (`drainReap`, `drainLookup`, `drainCall`), `failReaping`, the final branch
on a closed handle, and the deferred function in two steps (pipe, channel).
`Close` is mark, discard, wake, join and release.

A reaper is numbered. A pipe and a channel carry the number of the reaper they
were made for, and `epoch` is the number the handle's fields hold, which is how
the model sees a deferred function that reads fields a later `Submit` has
replaced. The read side of `h.mu` is the set of transfers inside `Submit`
(`Readers`); a writer waits until it is empty. A Go panic (close of a closed
channel, store into a nil map) sets `panicked` and stops the system.

An isochronous transfer and an `AsyncTransfer` have the same control; `Bulk`
marks the `AsyncBulkTransfer`s, whose busy check reads the URB status. Data is
reduced to the number of the submission whose length the URB or the transfer
holds. `undone` remembers the last submission that `SubmitUndo` took back, whose
waiters no property promises anything.

Abstractions: the kernel's completion queue is a set (URBs of different
endpoints complete in any order); `DISCARDURB` is synchronous, as in usbfs;
`EINTR` inside the drain loop is a stutter; one goroutine at a time is in
`Submit` for a given transfer; the two ends of the wake pipe are closed in one
step; completion only sets fields, there are no user callbacks at this level.

### UsbfsHandle

The kernel is `fdTable` (number to open file) and `owner` (interface to file,
kernel driver or other process). A method under the write lock makes only
ioctls that return at once and is one action, whose guard is that nobody holds
the lock; `Close` also announces itself, and from then on new readers wait. A
method under the read lock is two actions with the blocking ioctl between them.
`InterruptTransferWithRetry` gives up the read lock, takes the write lock to
clear the halt, and comes back for another attempt. A number that is closed may
be taken at once by another file of the process, which is how a stale number is
told from the handle's own. `wrapped` is a handle that `WrapSysDevice` made; its
descriptor may have claims (`inherited`), which `claimedIfaces` does not list.

### WinUsbAsync

`Submit` (`SubmitEnter`, `registerAsyncCompletion`, `submitIO`, and on failure
`unregisterAsyncCompletion`, `SubmitUndo`), `Cancel`, `iocpPump` (one action per
branch, with the drain window), `Close` and `ResetDevice`. The completion port
is a queue of one packet per transfer, delivered in any order, and the
nil-overlapped packet that `Close` posts. A handle knows whether it is
associated with the port: requests on a file that is not associated end where
nobody waits. `Cancel` may reach every request of the pipe
(`WinUsb_AbortPipe`) or one (`CancelIoEx`). The handle is a WinUSB one; the HID
path of `Submit` has no port and is not modelled.

### WinUsbHandle, WinUsbIso, WinDeviceList

In `WinUsbHandle` a system handle is a number; a new one is a number that no field
refers to, and using or freeing one that is not open sets `misused`. A transfer is
its start under the read lock, the wait (which ends by completion, timeout or
failure), and after a timeout the cancellation and the second wait for the driver.
`AsyncBulkTransfer` is a goroutine of its own (`Worker`) that makes such a transfer.
`hid` is the collection's handle of a HID device, which `Open` falls back to when
the file or WinUSB cannot be opened; a reset may then give the handle a file and
WinUSB beside it.

`WinUsbIso` is one isochronous transfer with the goroutine that uses it, one
that may cancel, and a device handle that may be closed under it.

`WinDeviceList` follows `EnumerateUSBDevices`: three interface classes, the
location of each interface, the merge by hub port, the hubs' answers, the root
hubs, and the parents. Between any two steps one device may start to go, with
what hangs below it. From then on any query about one of these devnodes may
still be answered or fail, whatever the one before it said: its interface may
be listed or not, `locateDevice` may pass a hub that no longer names its
interface, `rootHubOf` may stop early, `busNumbering` may skip the devnode it
stopped at. A devnode is a number, a path a record of its interface.

### DarwinHandle, DarwinPump, DarwinHid

`DarwinHandle` has the `sync.RWMutex` as the set of calls that hold it. A claim
opens the interface, or, when the kernel's HID driver has it, the collection
(never a keyboard or pointer). `InterruptTransfer` with a timeout starts a
worker that makes the pipe call without a lock; `select` takes its answer or the
timer, and an abandoned worker answers into its own channel. A transfer to the
HID transport (`ReportTransfer`) is a read of the report queue or an output
report; what waits for the device without a timeout ends by `DeviceAnswers`.
`ClaimInterface` is one step under the write lock.

`DarwinPump` is the goroutine that `ensureAsyncPump` starts, with the steps in which
it makes its maps, its event source and its run loop; a completion finds its
transfer by the key of its buffer, which is 0 for every empty one; `shared`
remembers the keys under which one transfer has replaced another. `DarwinHid` is the
run loop of a collection with the callback in its three steps (drop the oldest,
send, or give up), readers, flush and close. Reports are numbered.

### Hotplug modules

The system side plugs devices in and out, and sends a uevent, queues a window
message, or appends to an iterator when the watch is set up. The watch
registers, takes its snapshot device by device, handles events, and is
deregistered. The user is `view` (what the callbacks have told it) and `calls`.
On Linux the snapshot runs on the caller's goroutine before the pump exists; on
Windows it runs on the pump thread while messages queue behind it; on macOS the
first drain of each iterator is the snapshot and arms the notification.

A device key (bus and address) is used at most once after its departure on
Linux (the kernel hands out device numbers round robin), any number of times on
Windows (interface path), and on macOS the location is used again by a new
service. On Windows the watch is about paths: a device has several, the window
hears of each (the registration is for all interface classes), and `DeviceList`
gives a device by one of those that it reads, or by more if its place cannot be
found; `folded` are the paths that the snapshot left out. `DeviceList` is an
atomic snapshot. Uevents of other subsystems are one
kind of event, bounded. Callbacks return without calling back into the handle.

`HotplugContract` has the user's view and whether the watch has ended: arrivals of
unknown devices, departures of known ones, nothing after the end. `HotplugWindows`
and `HotplugDarwin` implement it (on Windows for a path, on macOS for a service,
also where a termination was missed). `HotplugLinux` does not (section 4).

### Descriptor modules

Bytes are numbers, and a parsed descriptor is known by its offset, its fields
being the bytes there. An index out of range, where Go panics, is the byte
`Outside` or the result "panic". `Unmarshal` and `ReadConfigDescriptor` are
loops with one action per case; the references they are checked against
(`Starts`, `Endpoints`, `Encoded`, `Body`, ...) are declarative. `IsoPackets`
has what the controller wrote for each packet and the slices that the three
systems return.

## 3. Runs

Deadlock is not checked anywhere: after `Close` or `Deregister`, or with the
submissions used up, the system has stopped.

| Run | Instance | Shows |
|---|---|---|
| `usbfs_close` | an `AsyncTransfer` and an `AsyncBulkTransfer`, 2 submissions each, one reaper | results belong to the latest submission; buffers return only when the kernel is done; `Close` waits for the reaper, returns and releases all waiters |
| `usbfs_unplug` | 2 transfers, 2 reapers, unplug | nothing is left to reap when the reaper gives up, everybody is released without `Close` |
| `usbfs_faults` | 1 transfer, 2 submissions, 2 reapers, a reset, unplug, failing `pipe2` and epoll | one reaper at a time, one registered callback per mark, no store into a nil map; `Close` returns and releases all waiters but those of a submission taken back |
| `linux` | the watch: 2 devices (one filtered out), a foreign uevent, 2 callers of `Deregister`, a queue of 2, without faults and with all of them; the handle, opened or wrapped with an earlier claim: 2 goroutines, 2 interfaces, 2 numbers, 2 opens, 1 retry | the view is current when the pump sleeps, callbacks come in order, arrivals are reported, `Deregister` returns; the handle's claims are the kernel's (but for a wrapped descriptor's earlier ones), transfers are on its own file, no lock is left waiting |
| `windows` | the port: 2 transfers, 2 submissions, 1 reset, a failing port or a stuck driver with a failing reopen; the watch: 2 devices with 2 paths each (one of them of a class that `DeviceList` does not read and filtered out), 2 changes, failing `GetMessage` and `DeviceList`; an isochronous transfer, 3 submissions; `DeviceList` on 2 root hubs, a hub with a composite device and its function below it, and a single device, of which one is unplugged | every packet finds its transfer, buffers return only when Windows is done, the watch implements the contract for paths, the list has one faithful line per device that stays, every waiting call returns |
| `win_handle` | 2 goroutines and the worker, interfaces 0 and 1, WinUSB and HID | handles are freed once and never under a transfer, a timed out transfer has its buffer back, `Close` returns |
| `darwin` | a queue of 2 with 5 reports and 2 readers; two bulk transfers with empty buffers, or one of them and an isochronous one; 2 ports, 3 services (one filtered out); a handle with 2 vendor, 1 HID and 1 keyboard interface, 2 users, 2 interrupt transfers | reports, arrivals and results reach whom they are for, and so do completions under a key of their own; the watch implements the contract; claims are open; every waiting call returns |
| `descriptors` | up to 3 of 12 descriptors (malformed ones included) with 5 total lengths, or up to 2 of them with the last one cut off by the device; up to 2 of 7 capabilities; up to 4 of 5 code units; up to 3 packets of size up to 2; on three systems | readers return, lose and double nothing, and agree (strings: where there is no surrogate pair) |
| `usbfs_drop` (violation) | 2 transfers | a completion can be dropped on an open handle |
| `usbfs_done` (violation) | 2 transfers, 2 reapers, unplug | a reaper closes its successor's channel |
| `hotplug_twice` (violation) | 1 device | an arrival between bind and snapshot is reported twice |
| `darwin_race` (violation) | 2 transfers | a second `Submit` meets a pump that has no maps yet |

### Why the bounds are enough

Two transfers are what interference needs: one keeps the reaper (or the pump)
alive while another is between two steps of `Submit`. Two submissions show a
transfer with an old and a new result. Two reapers show a reaper whose fields
have been replaced; a third would meet the second as the second meets the
first. One reset, or two opens, puts every goroutine before, at and after the
exchange of the file. Two descriptor numbers let the old number go to another
file while the new one is in use. In the hotplug runs one matching and one
other device separate the filter from the bookkeeping; the queue of 2 overflows
in the faulty half of `linux` and cannot in the other (`overrun` is a fault). A
report queue of 2 has an oldest and a newest entry, five reports overflow it
more than once. On macOS two interrupt transfers are an abandoned one and the
one that could take its answer, and two empty buffers share a key while an
isochronous transfer beside one of them has a map of its own. Two paths of a
device are one that the snapshot names and one that it folds. One unplug gives
every failing query of `DeviceList`; a second device that goes would fail in the
same way, and root hubs do not go. Three descriptors are a companion or an
endpoint with something before and something behind it; four code units hold a
surrogate pair, a lone surrogate and a NUL. The theorems do not depend on any
of these bounds.

### Fairness

Weak fairness for each goroutine: the Go scheduler runs what can run, and a
channel receive or a system call that can return does. Beyond that:

* Linux: strong fairness for `reapLoopWake` and `pumpWake`: a signal can
  interrupt an `epoll_wait` that has something to report, but not for ever; that
  a signal arrives at all is not assumed. Strong fairness for the last lock of
  `Close`: `sync.RWMutex` blocks new readers once a writer waits. An entry that
  lingers in sysfs goes in the end. `UsbfsHandle` has no fairness: a standard
  request without a timeout may take for ever. That the lock itself never leaves
  everybody waiting is the invariant `NoLockDeadlock`.
* Windows: a driver that is not stuck completes what it was asked to cancel,
  and the drain timer fires. In `WinUsbHandle` a timed wait ends, and a
  goroutine that wants the lock gets it (strong fairness, as above).
* macOS: pipe calls end after IOKit's timeout, a `readReport` with a timeout after
  it (`Finish`), and the run loop delivers what is queued. Device requests, output
  reports and report requests have no timeout in the code: that the device answers
  them (`DeviceAnswers`) is not fair, and `CloseReturns` excepts them
  (`WaitsForDevice`). `CFRunLoopRunInMode` returns after its hour even if
  `CFRunLoopStop` came too early, so that the pumps are fair also while they
  sleep.
* `descriptors`: the caller goes on.

Nothing is assumed of the device (an URB may stay pending), of the user's
calls, or of the faults.

## 4. Findings

* `usbfs_drop`: `Submit` registers the callback after the ioctl, so a reaper
  kept alive by another transfer can reap the URB first, find no callback and
  drop the completion of an open handle; its waiter blocks until `Close`.
* `usbfs_done`: `failReaping` clears `reaping` before the deferred function of
  `reapLoop` reads the handle's pipe and channel; a `Submit` in between installs
  new ones, which the old reaper closes. When the new reaper ends it closes a
  closed channel, which panics; or it sleeps in `epoll_wait` on a pipe that is
  gone, and neither unplug nor `Close` releases its waiters. `CloseReleases` and
  `UnplugReleases` except exactly these states (`Robbed`).
* `hotplug_twice`: the add case of `handleUevent` does not look at `seen`, so
  that a device plugged in between bind and `DeviceList` arrives twice. The
  Windows code does look, and satisfies the contract for interface paths.
* `darwin_race`: `ensureAsyncPump` sets `asyncStarted` before the pump goroutine
  has made its maps; a second `Submit` on the interface stores into a nil map,
  which panics.

### Observed behaviour

What the models have and no run singles out; a property that excepts one of
these says so.

Linux:

* when an epoll call fails, `failReaping` releases transfers whose URBs are
  still in flight (`device_linux.go:237`), and so does the reaper's final branch
  when it sees `closed` before `Close` has discarded them (`device_linux.go:107`);
  hence `BufferReturned` speaks of an open handle;
* `ResetDevice` closes the node and opens it again, no more; it ends URBs
  without telling their transfers, and the reaper does not watch the new file
  (`transfer_linux.go:152`). The waiters stay until `Close`;
* when `pipe2` fails after the kernel has taken the URB, `Submit` takes the
  submission back and leaves the transfer neither submitted nor reaped
  (`async_linux.go:212`): `Status`, `ActualLength` and `Buffer` then block, also
  after `Close`, which `CloseReleases` excepts; and the completion of the
  discarded URB is handed to the callback of the next submission;
* a handle of `WrapSysDevice` does not list what its descriptor had claimed
  before (`device_linux.go:1239`): `SetInterfaceAltSetting` refuses such an
  interface, and `ReleaseInterface` returns nil without releasing it
  (`device_linux.go:1317`). It also takes `EBUSY` for success and then lists an
  interface that somebody else has. `ClaimsMatchKernel` excepts both;
* `AsyncBulkTransfer.Submit` accepts a transfer whose URB is in flight
  (`isochronous_linux.go:412`);
* `ActualLength` keeps the value of an earlier success after a failed
  resubmission (`async_linux.go:193`);
* `Configuration` and `StringDescriptor` use `h.fd` without the lock
  (`device_linux.go:321`), although `README.md:42` promises
  "Thread-safe device operations"; after a `Close` the number may be another file's;
* the ioctls return an errno, which is never equal to `ErrIO`, so that a retry
  clears the halt only after a timeout (`transfer_linux.go:122`); a write whose
  answer was lost is made twice;
* the standard requests pass no timeout and hold the read lock
  (`device_linux.go:602`), so that a silent device keeps `Close` waiting;
* `DetachKernelDriver` takes `ENODATA`, `ENOENT` and `ENOTTY` for "no driver
  bound" and succeeds (`device_linux.go:559`);
* a total length of 0 makes `&fullBuf[0]` panic (`device_linux.go:406`), and a
  descriptor of length 0 keeps `ReadConfigDescriptor` from returning
  (`transfer_linux.go:387`); a last descriptor that the device cuts off is taken
  for one filled up with the zeros of the buffer (`transfer_linux.go:382`), which
  `ParsersAgree` excepts;
* `IsoPacketBufferSlices` does not look at `reapErr` (`isochronous_linux.go:338`);
* a device whose remove uevent was sent before the bind but whose sysfs entry
  is still there is reported and never leaves (`hotplug_linux.go:157`), an
  overrun of the socket ends the watch silently (`hotplug_linux.go:242`), and a
  second `Deregister` does not wait (`hotplug_linux.go:79`).

All systems: Linux and WinUSB do not decode surrogate pairs
(`device_linux.go:1214`, `device_windows.go:123`): they make two runes of a pair,
which Go writes as U+FFFD each, where `usbwire.go:61` makes one. `DecodersAgree`
says so. On Linux a short answer that ends within a unit gives one rune more.
Interface number 255 is parsed and not listed (`config.go:245`).
`Unmarshal` takes the header for 9 bytes, the other readers begin where the
header says that it ends; the properties speak of headers of 9 bytes.

Windows:

* `AsyncTransfer.Submit` reads `closed` without the lock and may register after
  the pump has stopped (`async_windows.go:168`); nothing sets its `done`;
* after a reset the new file is not associated with the port
  (`device_windows.go:675`), and a transfer submitted then never completes;
* a `Submit` that fails leaves `done` false, so that a `Wait` after it blocks
  (`async_windows.go:196`); so does that of an isochronous transfer, which also
  refuses to be submitted again (`isochronous_windows.go:106`);
* a `ResetDevice` that does not get the device back leaves the freed handles in
  the fields (`device_windows.go:652`), and they are used and freed again;
* a waiter of an `AsyncBulkTransfer` may find `completed` reset by another
  `Submit` before it has run (`isochronous_windows.go:306`), and its `Cancel`
  aborts on interface 0's handle whatever the endpoint (`:320`);
* `Close` of an isochronous transfer with a request in flight unregisters the
  buffer under it (`isochronous_windows.go:225`);
* a handle that was opened as HID because its file could not be opened gets a
  file and WinUSB handles from a `ResetDevice`; `Close` frees the collection and
  returns (`device_windows.go:287`), and they stay open. `CloseFreesAll` excepts
  them;
* a `Wait` of an isochronous transfer whose `WaitForSingleObject` fails leaves the
  transfer in flight (`isochronous_windows.go:146`);
* of a device that was there before the watch the user is told of one path, of one
  that is plugged in of every interface path that comes up
  (`hotplug_windows.go:312`, `compat_windows.go:90`), so that a device may arrive
  several times under different paths; a path of a class that `DeviceList` does
  not read is missing from the snapshot;
* while a device goes, `rootHubOf` may return a hub that is no root
  (`devnode_windows.go:167`), which then takes a bus number or, when its id cannot
  be read either (`devnode_windows.go:197`), leaves bus 0; and two interfaces of
  the device may be found at two ports, and listed twice. `ListFaithful` speaks of
  devices that stay;
* `controlTransferInternal` does not use its timeout; `ConfigDescriptorByValue`
  subtracts one from its argument; a string descriptor of length 0 makes a
  slice of negative capacity (`device_windows.go:517`);
* a descriptor of length 1 ends `ReadConfigDescriptor` (`transfer_windows.go:445`)
  and `endpointInterface` (`device_windows.go:885`), while `Unmarshal` goes on
  behind it; `ParsersAgree` and `EndpointFindsInterface` except it.

macOS:

* two transfers with empty buffers have the same key 0 (`async_darwin.go:109`,
  `:216`): the second replaces the first in the map, a completion of either goes to
  the second, and the first never completes, so that its `Wait` does not return
  even after a `Cancel`. The properties of `DarwinPump` are about keys that were
  never shared;
* a `Close` that overlaps the `Submit` that starts the pump may find no channel to
  wait for and return while the pump starts (`isochronous_darwin.go:456`);
  `PumpJoined` excepts it;
* device requests, output reports (`hid_darwin.go:366`) and report requests have no
  timeout, and control transfers do not use theirs
  (`device_interface_darwin.go:249`); all hold the read lock, so that `Close`,
  `ClaimInterface` and `ReleaseInterface` wait as long as the device is silent;
* a registration of the watch that fails keeps a matching dictionary: the one that
  was made when the other was not (`hotplug_darwin.go:149`), or the one for
  terminations when the first notification fails (`hotplug_darwin.go:227`);
  `AllReleased` excepts one dictionary;
* once the handle has a HID transport, every bulk and interrupt transfer goes
  to it; without one, `bulkTransfer` uses an arbitrary claimed interface;
* the worker of an interrupt transfer that timed out may use an interface that
  has been released (`transfer_darwin.go:137`);
* a second usable HID interface overwrites `h.hid` and leaks the first transport
  (`devicehandle_darwin.go:124`); the instance has one, where nothing leaks;
* a termination is missed when its port is used again before it is handled
  (`hotplug_darwin.go:215`): `ViewIsCurrent` excepts its location (`missed`);
* `CFRunLoopStop` before the loop runs is lost, and `Deregister` waits for the
  hour of `CFRunLoopRunInMode` (`hotplug_darwin.go:100`);
* requested and received packet lengths share a field (`compat_darwin.go:458`),
  so that slices after `SetPacketLength` are not the data.

## 5. Proofs

The theorems hold for every value of the constants that the named assumptions
of the modules allow: the bounds are naturals, sets of threads, transfers or
ports are finite where the code counts them, special values are not members of
the sets they stand beside, a configuration has the 9 bytes of its header or
more, and the sets of faults name known faults. TLC
evaluates the assumptions in the runs. A theorem with a further hypothesis says
so below. Each rests on an inductive invariant, which TLC has checked on the
run of the component, and each preservation proof has a step per action.

| Theorem | States | Hypotheses |
|---|---|---|
| `UsbfsAsyncProofs`: `TypeCorrect`, `NilMapNeverStored`, `ReaperUnique`, `CallbackExactlyOnce` | `TypeOK`, `NoStoreIntoNilMap`, `OneReaper`, `OneCallbackOwed` | |
| `CloseJoinsReaper` | `CloseWaitsForReaper` | one reaper so far |
| `NothingLeft` | `NothingLeftToReap` | no epoll fault, no reset so far |
| `BufferComesBack`, `SuccessFresh` | `BufferReturned`, `SuccessIsLatest` | no fault but an unplug, no reset so far |
| `LinuxProofs`: `ClaimsBalance`, `TransfersStayOnFile` | `ClaimsAccounted`, `TransfersSafe` | |
| `TypeCorrect`, `CallbacksInOrder`, `ViewMatchesBus` | `TypeOK`, `CallbacksOrdered` (an action property), `ViewIsCurrent` | |
| `WindowsProofs`: `TypeCorrect`, `PacketsAreRegistered`, `BufferIsReturned` | `TypeOK`, `PacketFindsTransfer`, `BufferReturned` | |
| `WatchIsCurrent`, `WatchRefinesContract`, `IsoBuffersReturn`, `ListIsFaithful` | `WatchSound`, `WatchImplementsContract` (a refinement), `IsoSound`, `ListFaithful` | |
| `WinUsbHandleProofs`: `HandlesAreSound`, `BufferComesBack` | `HandlesSound`, `BufferReturned` | |
| `DarwinProofs`: `ReportsStayIntact`, `CallsKeepTheirOwn` | `ReportsIntact`, `HandleCalls` | |
| `ClaimsStayOpen`, `ClaimsBalance` | the first two parts of `HandleClaims`; all of it | none; at most one usable HID interface |
| `CloseJoinsPump`, `CompletionsFindTransfers` | `PumpJoined`; all of `PumpSound` | |
| `DarwinWatchProofs`: `WatchIsCurrent`, `WatchRefinesContract` | `WatchSound`, `WatchImplementsContract` (a refinement) | |
| `WireProofs`: `SlicesAreSound`, `WireReadersAgree` | `PacketsSound`, `SystemsAgree` | |
| `ConfigProofs`: `ConfigIsRead`, `EndpointsAreRouted` | `ConfigRead`, `EndpointsRouted` | |

The hypotheses are those without which the code does not have the property, and
the runs that check it have them too: a failing epoll call or a reset strands
URBs, a second reaper's channel is another one than `Close` waits for, and a second
usable HID interface overwrites the first one's transport (section 4).

### Arguments

*Linux asynchronous core.* `TInv` has the types, the control of the reapers (a
reaper is unborn exactly while its number is above `epoch`, the final branch is
entered only on a closed handle) and of `Submit` (whoever is inside holds the
read lock, so that `closed` is not set under it). `TypeOK` alone is not
inductive. `LedgerInv` says for each position of `Submit` where the callback of
a transfer is: not registered between the ioctl and the registration, otherwise
in the map or in a reaper's hands exactly when the transfer is marked
submitted. `JoinInv` relates the channels to the reapers that closed them.
`DrainedInv` says that a reaper that has found the device gone has left the
kernel without URBs, and `FlightInv` that only the latest submission of a
transfer is in flight, and only while it is marked.

*Linux handle.* `HandleInv`: the open file, `claimedIfaces` and the kernel's `owner`
agree except between the steps of one locked operation and for a wrapped
descriptor's earlier claims, which a reset ends; every other number belongs to
somebody else, and a goroutine inside a transfer under the read lock excludes those
that replace the file.

*Linux watch.* `TInv` (types, `seen` is what the callbacks told) gives the order
of callbacks. `CurrentInv` says that where `seen` and the bus differ about a
device a uevent is queued that settles it, the last one about a device saying
what is there.

*Windows port.* `IInv`: a request that is held by driver, port or pump is
registered, its transfer submitted, and counted; the pump has a packet exactly in
the states that use one. *Windows handle:* what fields refer to is open and referred
to once, freed only by those that hold the write lock, and a call in flight has a
claim on its handle. *Windows watch:* as on Linux, by path, with the snapshot under
way (what is seen or still to be told) and with the paths that it folded, each of
which has a path of its device that is seen. The refinement mapping is the identity
on `view` and `calls`, `ended` is `dpc = "returned"`.

*macOS HID queue.* `HidInv`: what is queued, read or marked came before the
report that the callback still holds, and readers only make room between its
two sends. *macOS handle:* claims and open objects correspond; the ids of a
user's workers and answers are numbered without gaps, so that an answer in a
channel belongs to one call (`Numbered`); a call that runs holds the lock.
*macOS pump:* `PumpInv` follows the start and stop of the goroutine over both
sides, `TransferInv` says that a buffer in IOKit was issued once and that the
map of its kind has its transfer, unless its key is shared.

*macOS watch.* `Signals`: a notification is armed only with an empty iterator,
and one that is not armed has a message queued or is being drained. `Order`: the
services of a port are numbered as they come, those still to be told are newer
than those that were. `Ledger`, where no termination has been missed: a service
the watch knows of is connected or its termination is in the iterator, one that
is connected and matches was told or is in the iterator, and `seen` has the
newest that was told at its port. `Ledger` is false after a missed termination;
`Order` is not, and suffices for the contract.

*Windows enumeration.* What `describe` and the merge have filed is spoken of for
the devnodes that stay (`present`, which only shrinks): their places are the true
ones, there is one line for each described one, its port the one `OnPort` gives, its
opening path a WinUSB interface below it. Parents and root hubs are recursive
functions over the tree, which `TreeAssumption` makes well founded, and are
followed by induction over it.

*Descriptors and packets.* The readers are loops over a byte sequence, written as
recursive functions. The library's induction theorems take an operator, which the
provers cannot instantiate; `WireProofs` therefore has induction in the form of
facts about sets, which follow from the well-foundedness of the naturals: a set of
naturals has a least element (`LeastNat`), a set that has 0 and is closed under
successor has them all (`SetInduction`), and a step that is defined everywhere can
be iterated (`StepsExist`). *BOS:* the list and the searches visit the same offsets
until one of them stops, and a hit of a search is the first entry of the list that
matches. *Strings:* the two loops visit the same units, which differ between systems
only in where the answer is cut. Encoding what `utf16Decode` has written so far
gives the units it has read (`DecodeInverts`), and a high surrogate it has written
alone has no low one behind it (`DecodedPairFree`); the other decoder writes every
unit as it is. *Packets:* an offset is the sum of the requested lengths before it,
hence at most the next one.

*Configurations.* A walk over the data visits its offsets in ascending order; the
set of them (`Walk`) is closed under "next descriptor" and is the least set that
is (`WalkFacts`), so that two loops that step alike visit the same offsets.
`CfgInv` is inductive: it has the types (`ConfigTypes`), what `fetch` may have
returned (`FetchInv`), and in `ParseInv` the filing: the position is on the walk,
every descriptor before it is in one list and in one place of it, and belongs to
the last interface before it; all lists ascend. At the end of the data that is
`NothingLostOrDoubled`, and the lookups are choices among what has been filed.
`ReadInv` says that the position of `ReadConfigDescriptor` is on the same walk
and that its two lists hold the complete interfaces and endpoints before it; on
macOS, that the order in which the settings are flattened has each of them once.
`endpointInterface` scans the same offsets, so that the last interface before its
first hit is the one that `Unmarshal` filed the endpoint under; `mapEndpoints`
then takes the least of a set of naturals, which has one (`LeastNat`).

### Only model-checked

* every liveness property, and `NoLockDeadlock`, an invariant about `ENABLED`: the
  prover reasons about neither;
* the four properties of section 3 that are violated.

## 6. Not modelled

* Enumeration on Linux and macOS: one pass over sysfs or the IOKit registry that
  turns each entry into a record, without state. The hotplug modules use it as
  `DeviceList`.
* Native bindings, the encoding of single hub requests, constants and the public
  interfaces: no behaviour. The USB id database: a text file read into a table.
  Commands and examples: users of the library.
* In modelled parts: the HID path of `AsyncTransfer.Submit` on Windows, which
  has no completion port; `Close` and `Read` of the Windows `AsyncBulkTransfer`;
  report lengths and the text of device paths; the content of strings and
  descriptors in `DeviceList`.
* Callbacks that call back into the watch, and two goroutines in `Submit` of the
  same transfer: nothing in the code or its docs says what should happen.
* Waiters of the asynchronous cores are not actions: a waiter polls or sleeps on
  the fields the models have, and `Released` says that it would return.

## 7. Plan

The asynchronous core of Linux against an abstract specification of a transfer,
with the findings of section 4 as the steps it has in addition.
