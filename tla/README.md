# TLA+ models of NrfKit

NrfKit is a firmware kit for nRF54L devices (C, under `src/`) with host tools
(Python, under `tools/`). This directory holds TLA+ models of the parts of the
firmware and of the host tools whose correctness depends on interleavings, failure
paths and the order of calls, the TLC configurations that check them, and TLAPS
proofs of all the safety properties that the runs check, for every value of the constants.
`PROJECT.json` maps every definition to the lines it models and lists components,
runs, hazards, findings and theorems. Paths below are relative to the repository.

## 1. Inventory

| Component | State | Operations | What is hard | What makes it correct |
|---|---|---|---|---|
| SDC/MPSL lifecycle, `src/wireless/sdc/nrf54l/platform.c` | pending flags, `enabled`, `controller_initialized`, `locked_config`, three reference counts, GRTC and power-mode save areas | required_memory, enable, disable, process, hci_get, retain/release by timeslot clients and by the USB clock, five interrupts, two low-latency callbacks | SWI00 between any two statements; failures in the middle of enable(); teardown deferred to process() | MPSL outlives its users and no longer; no deferred work or packet forgotten; hardware left as found |
| Timeslot session, `src/wireless/timeslot/nrf54l/timeslot.c` | session flags, grant parameters, handler | open, request_earliest, close, one callback for all MPSL signals | START interrupts the vendor call that requested it; close during a grant; extensions; chained requests | cleanup margin kept in every grant; RADIO owned only in a grant; every grant ends |
| Radio ownership, `src/wireless/radio/ownership.c` | `radio_owner` | acquire, release | release refused while RADIO runs | a running RADIO has an owner |
| RRAM storage, `src/runtime/nrfx/rram.c` | buffer, progress, result, session flags | submit, process, callback | one unit per grant, in interrupt context; timeout across counter wrap; reset in the middle | success means written; writes confined; every transaction ends |
| USBHS glue, `src/usb/nrf54l/usb_glue_dwc2.c` | four flags, clock ownership | init, deinit, connect, VBUS interrupt | cable moves at any statement | flag, PHY, stack and cable agree; requests are honoured |
| HCI encoding, `src/wireless/sdc/nrf54l/hci.c` | none | command dispatch | lengths, opcodes | one vendor call per opcode |
| Radio configuration, `src/wireless/radio/nrf54l/radio.c` | registers | configure | - | valid records only |
| Runtime, board | fault record | startup, fault, reset | - | - |
| Retry link, `examples/m7-timeslot-retry`, `tests/hardware/m5-radio-peer` | sequence numbers, counters | request, response, retry | lost and duplicated packets | each request served once, in order |
| Probe commands, `tools/nrfkit_tools/cli.py`, `device.py`, `process.py` | probe lock, run report, snapshot, vendor programs, serial port, GDB server | flash, reset, run, gdb-smoke, debug, USB commands | vendor programs outlive a killed command; builds rewrite images; the token comes once | one vendor program per probe; only audited contents on a board; ok is true |
| Gates, `cli.py` | stage results, children, ready marker, what to restore | m2-gate, p0-gate, m5/m7 two-board gates, m7-coexistence | a child hangs or is killed; interrupts in the cleanup | the report about the restored state is true; nothing left behind |
| Persistent changes, `cli.py`, `bond.py` | probe setting, settings region, backup | probe-msd, m6-bond-clear | error between store and reboot, between erase and verification | nothing lost that was not backed up or authorized |
| OpenOCD backend, `openocd.py`, `openocd_cli.py` | identity, artifacts, region contents | backup, flash, restore, clear-rram, reset | several sessions per command, disturbed reads | the right board, recoverable, nothing beside the image |
| Image audit, `image.py`, `sdk.py` | memory map, ranges, layout | parse, ranges, allowlist, backup ranges | base records, wrap, overlap, touching ranges | accepted means allowed, exactly |
| Bluetooth validation, `hci.py`, `ble_validation.py` | pending events, BlueZ objects, agent, trace | oracle, scan, pairing gate | late answers, lost replies, other clients of the adapter | fresh evidence; host left as found |
| USB validation, `usb_validation.py` | sysfs power attributes, wake request | host resume, remote wakeup | the kernel and other programs act in between | no false wakeup, attributes restored |
| Power measurement, `power_suite_cli.py`, `ppk2*.py`, `blu939.py` | supply output, instrument firmware, boards, sample counter | suite, capture, EEPROM audit | failure with the supply on or foreign firmware loaded | supply off, firmware and boards restored, no gap in a capture |
| Reference build, `reference.py` | receipt, build directory, manifest | prepare, build | sources and receipt change between check and use | the manifest names what was compiled |

The components meet in MPSL. `timeslot.c` and `rram.c` each open one MPSL session
and hold one platform reference while it is open; the USB glue holds one for the
24 MHz clock. The platform takes MPSL down when the controller is off and no
reference is left. Deferred signals of sessions reach the clients inside
`nrfkit_sdc_process()`. On the host the components meet in the probe lock, the run
directory and the children that a gate starts with the public commands; the two
worlds meet on a board's RRAM, its UART and its radio.

## 2. Modules

| Module | Models | Remarks |
|---|---|---|
| `Platform` | `platform.c` | clients are a set that retains and releases |
| `PlatformProofs`, `TimeslotProofs`, `RramProofs`, `UsbGlueProofs`, `ProbeBenchProofs`, `BluetoothCommandsProofs`, `PowerCommandsProofs`, `ImageCommandsProofs` | - | the inductive invariant of the module they are named after, and its theorems |
| `MpslSession` | one session of the MPSL library, external | shared by the two clients |
| `MpslClient` | what the platform expects of a client, abstract | refined by `Timeslot` and `Rram` |
| `Timeslot` | `timeslot.c`, `ownership.c` | extends `MpslSession` |
| `Rram`, `MCRram` | `rram.c` | extends `MpslSession`; `MCRram` gives the small memory |
| `UsbGlue` | `usb_glue_dwc2.c` with the connect call of `usb_dc.c` | the clock path of a combined USB and SDC target |
| `ProbeRun` | the commands on one probe | every command is a plan, a sequence of steps with one handler each |
| `M2Gate` | `command_m2_gate()` | extends `ProbeRun`: its children are commands of that model |
| `ProbeMsd` | probe-msd and p0-gate | |
| `BondClear` | m6-bond-clear | |
| `DualRadio` | m5-radio-dual, m7-radio-dual, m7-coexistence | |
| `OpenOcd` | `openocd.py`, `openocd_cli.py` | regions instead of addresses |
| `IntelHex` | `image.py` | records over a small address space in banks |
| `SdcOracle` | m6-sdc-oracle and `hci.py` | with the controller and its peers |
| `BleScan`, `BleValidation` | `ble_validation.py` | over BlueZ |
| `UsbPower` | the power phases of `usb_validation.py` | over Linux runtime power management |
| `PowerSuite` | `power_suite_cli.py` with `blu939.py` | |
| `Ppk2` | `ppk2.py`, `ppk2_cli.py` | |
| `Ppk2Eeprom` | `ppk2_eeprom.py`, `ppk2_eeprom_cli.py` | |
| `ReferenceBuild` | `reference.py` | |
| `ProbeBench` | the lock of one probe | composes `ProbeRun`, `BondClear` and `ProbeMsd`: processes run commands of any of the three kinds and share `lock` |
| `BluetoothCommands` | `main()` with the radio and Bluetooth commands | composes `SdcOracle`, `DualRadio`, `BleValidation`, `BleScan` |
| `PowerCommands` | `main()` with the power commands | composes `PowerSuite`, `Ppk2`, `Ppk2Eeprom`, `UsbPower` |
| `ImageCommands`, `MCImageCommands` | `main()` with the image commands | composes `OpenOcd`, `ReferenceBuild`, `IntelHex`, `M2Gate`; `MCImageCommands` gives the address space of `IntelHex` |

`ProbeBench` is a real composition: its parts race for one lock, and a step of one
kind of command is enabled or refused by what the others hold. The three modules of
commands are a dispatch, as `main()` is: `Init` chooses the command of the command
line, the variables of the others are `"off"` for good, and `Next` is the next-state
relation of that command. They are there so that one run asks one question of every
command of a family, in particular whether it ends. Each component states its parts
of a property in its own module, the composing module names the conjunction.

Variables keep the names of the C statics; variables of the hardware and the
vendor libraries are listed after them. An operation that no interrupt can split
in a way that matters is one action; the others are split at the points where an
interrupt sees the difference, and `pc` records where main context stands. The
module headers list these points. Interrupt handlers are single actions: MPSL's
run at priority 0, SWI00 only sets a flag, and the VBUS handler does not nest.
A call that an argument check rejects changes nothing and is a stutter, so it is
not an action.

`Platform`:
- `InitializeFails`, `RequiredMemory`, `EnableFails` and `Enable` are the
  outcomes of `initialize_libraries()` under its two callers; `Rejected` holds
  its argument checks.
- `MpslUninit` and `ReleaseFinish` are the two halves of `release_mpsl()`.
- `ProcessStart`, `ProcessWork` and `ProcessTail` are `nrfkit_sdc_process()`.
  `ProcessWork` contains what `mpsl_low_priority_process()` may call back:
  `controller_callback()` and, for clients, SESSION_CLOSED.
- Configurations are model values; two sets say which pass the range check and
  which the RC calibration check. The CPU clock check is one more rejection.

`Timeslot`: `Start`, `TimerDeadline`, `RadioSignal`, `ExtendSucceeded` and
`GrantFails` are the branches of `timeslot_callback()` for a grant, `Deliver` and
`DeliverClosed` those for deferred signals. The application's handler is any
action and any use of RADIO. A request's distance, timeout and priority are left
out; lengths and margins are small numbers with the code's comparisons.

`Rram`: `ProcessBegin`, `ProcessCheck` and the four outcomes of its vendor calls
are `nrfkit_rram_process()`. `Start` writes one unit, with any read-back value;
`StartResets` is the reset of `wait_ready()`. `retry` only chooses the priority of
the next request.

`UsbGlue`: `InitVreg`, `InitClock`, `InitFlags` are `usb_dc_low_level_init()`;
`ConnectBegin` to `ConnectEvent` are `nrfkit_usbhs_connect()`.

The modules of the host tools have one action per step of a command, in the order
of the code, and a `pc` per process. `Raise` is what an exception does at any step
(a check that fails, an error of a tool, a timeout of `run_logged()`, a
KeyboardInterrupt): it goes to the code's except and finally clauses, which are
actions of their own where they can fail too. A kill is separate, because Python
handles no SIGTERM and nothing more runs. Reports are the fields that a property
reads. Vendor programs act in two moments, begin and end, so that they can be
interrupted half way, outlive their command and leave a region torn.

`ProbeRun`: `Plan` gives the steps of flash, reset, run, gdb-smoke, debug and the
USB commands. `Snapshot` copies an image and audits the copy, `SpawnTool` and the
three `Tool` actions are `run_logged()` with its process group, `EmitToken` is the
firmware's single token. `M2Gate` adds the gate as one more process whose children
are started with `Spawns` and reaped or killed.

`OpenOcd` keeps boards and their regions and a log of backups. `IntelHex` is a scan
over a chosen input, one action per record or range, checked against declarative
definitions of what it should return.

`SdcOracle`: `Script` lists the commands and waits of the oracle; the session takes
or drops events as `command()` and `wait_event()` do. `BleValidation` follows
`run_ble_validation()` over the five phases, where every D-Bus call may fail or lose its
reply. Its KeyboardInterrupt is an action of its own without fairness, `Interrupt`, because
it takes other ways than an error: past the handler of the pairing, but through its finally
clauses (`Release`). `agent` is "abandoned" where a D-Bus call about it raised; `available`
and `trace_cleaned` are what the report says of the trace. `UsbPower` alternates the steps of the
gate with those of the kernel, other programs and the device.

`PowerSuite`: `Prologue`, `PeerPart` and `Follow` give the order of the steps for
every profile; `PowerWrite` and `PowerReturn` are the two moments of a command to
the instrument. `Ppk2Eeprom` has one process for each audited instrument.

`ReferenceBuild`: two processes, prepare and build, over one receipt file and one
build directory.

### Assumptions about code outside the repository

- MPSL reports SESSION_IDLE after a grant that ended without a next request,
  nothing more after BLOCKED or CANCELLED, and SESSION_CLOSED once per accepted
  close, after a running grant. It copies an accepted request.
- The result of an extension follows in the interrupt that asked for it; main
  context does not run in between.
- A failed `mpsl_init()` leaves no SWI00 pending. The session id passed to a
  callback is the client's own.
- API functions are called from main context and not from inside a handler, as
  `include/nrfkit/mpsl.h` and `sdc.h` require.
- CherryUSB forgets the connection at deinit.
- `ProbeRun`: firmware prints its token once after each reset; nrfutil checks what
  it wrote. The kernel releases a lock when its holder ends.
- `OpenOcd`: boards are exchanged only between sessions, and at most one of two
  reads is disturbed.
- `PowerSuite`: the output is off at the start. `Ppk2`: the firmware switches the
  output off when the connection closes; whole samples are lost.
- `Ppk2Eeprom`: the trigger into the bootloader has acted when nrfutil exits; other
  instruments are unplugged only after the ports were recorded; one audit per
  instrument.
- `SdcOracle`: a burst of the timeslot fixture is one command; the controller may
  answer late but answers in order.
- `BleScan`: BlueZ knows an RSSI only after an advertisement during discovery.
- `UsbPower`: the autosuspend delay and the wake delay are longer than the interval
  of the polls; a reset keeps the sysfs attributes; writing them back succeeds.
- `ReferenceBuild`: checkouts, edits and installations happen between commands;
  west with `--pristine=always` empties the build directory first. Two builds of
  one oracle at once, and a west that outlives a killed build, are left out.

## 3. Runs

| Run | Bounds | Shows |
|---|---|---|
| `platform` | 2 clients, 2 sessions, 4 configurations (two valid, one for each rejection), 2 packets, depth 2 | references counted, MPSL outlives its users, nothing forgotten, hardware and configuration as they should be; work runs, teardown completes |
| `timeslot` | lengths 2 to 4, extensions from 1, margins from 1, times 0 to 5, grants up to 5 | margin kept in every grant, RADIO owned only there, flags true; grants end; implements `MpslClient` |
| `timeslot_stuck_radio` | the same, RADIO may outlast the polls | a running RADIO still has an owner |
| `timeslot_ownership_leaks` | the same | finding: ownership outlives the grant |
| `rram` | units of 2 bytes, writes of at most 2 units, 3 regions, counter modulo 4, timeout 2, one tick between two pumps | a transaction writes what and where it was told, the deadline is exact; transactions end; implements `MpslClient` |
| `usb_glue` | none, the state is finite | flag, PHY, stack, cable and clock agree; a plugged cable attaches |
| `usb_vbus_follows_cable` | none | finding: stale VBUS state |
| `usb_requested_is_attached` | none | finding: a request that is never attached |
| `probe_bench` | 2 commands of any kinds, 1 manifest with 1 image, 2 children of p0-gate, errors, interrupts and SIGTERM | one vendor program at a time, only audited contents, no lost token, bonds recoverable, cleanup reports true |
| `bluetooth_commands` | oracle: 1 dropped link, chunks of 2 events; two-board gate: 5 rounds; BLE gate: 2 dropped links, bonding or not; scan: 4 switches by others, cached bond or not | what success and failure of each command mean; every command ends |
| `power_commands` | suite: 2 profiles, the second with a peer, late errors; PPK2: counter modulo 3, 7 samples, 3 lost, 2 voltages; audits: 2 at once beside a third instrument, faults in the cleanup too; USB: 5 suspensions, 1 reset, 2 other resumptions | boards, instruments, output and host attributes accounted for; every command ends |
| `image_commands` | OpenOCD: 2 boards, 4 commands; reference: 2 lock versions, 2 toolchains, 2 layouts; Intel HEX: 2 banks of 4 addresses, 4 records, 3 payloads; m2-gate: 2 images, 2 cycles, SIGTERM | reports hold for the board they name, manifests bind what was compiled, audits are exact, a restored board is restored |

Why the bounds are enough. Two clients and the clock make all three kinds of
reference meet; the platform configures two sessions, so a third client could
only be refused. Two packets distinguish the last packet from one before it, and
depth 2 the outermost low-latency request from a nested one. The times of
`timeslot` contain a length below the minimum and one above the maximum, margins equal
to and above a length, extensions that fit and that do not. The memory of `rram`
has a region that ends inside a unit, one that reaches into configuration memory
and one that starts there; two units make a transaction that fails half way; the
counter starts at every value, so the deadline also falls behind a wrap.

On the host two commands show every race for a lock, since a third would only find it
taken; `image_commands` has two images for the failure between them. Two cycles or
rounds tell the first from a later one; the two-board gate runs five, two more than its
default. Four OpenOCD commands are a backup, a change on another board, a restoration
and one more. Two banks of four addresses contain a segment base that overlaps a linear
one, a range that ends at the limit and a forbidden cell inside an allowed range. Two
profiles make a failure with one profile done and one to come. A counter modulo 3
wraps twice in seven samples, and three lost samples are a full turn, the one gap
that the counter cannot show.

Fairness. Main context is a loop that pumps `nrfkit_sdc_process()` and
`nrfkit_rram_process()` (the headers demand it), so these steps and the return of
a call under way are weakly fair, as are pending, enabled interrupts and an armed
compare of the timer. In `rram` a close that is tried for ever is accepted at
last (strong fairness): without it no code could end a session. New requests,
cables and failures are not fair. In `rram` the loop runs at least once every
`MaxGap` ticks and `Timeout + MaxGap <= Wrap`; on the device 2 s against 71
minutes.

On the host the steps of a command are weakly fair, because every wait has a deadline
and every vendor program a timeout: in most commands `Raise` is such a step at every
point that waits, so that no answer of a device has to be assumed. In `SdcOracle` only
the two `Raise` actions are fair. In `Ppk2Eeprom` an instrument that reboots enumerates
again (`Enumerate` is fair). Kills, other clients and programs, exchanged boards and
losses are not fair. `probe_bench` and `image_commands` check safety only and state no
fairness.

Deadlock is not checked where a command ends and nothing is left to do.

Every property has a mutant in `PROJECT.json`: an operator, defined next to the
one it replaces, that changes the code as a plausible mistake would, and under
which TLC finds the property violated.

### What the constants and the properties leave out

Where the code does not keep a promise in a corner, the property names the corner, or a
constant closes it:
- `ProbeExclusive` and `GateRestores` except the vendor program of a command that was
  killed by SIGTERM; `SuiteAccounts` the peer's nrfutil that outlived it (`orphaned`).
- `SwapInRestore = FALSE`: boards are exchanged between OpenOCD commands and between the
  sessions of one command, but not between the two sessions of restore.
- `Overlap = FALSE`: no reference prepare runs between the two reads of a build.
- `BondProved` claims of the pairing agent that every way out of the pairing has asked
  BlueZ to remove it, not that BlueZ did; and that a btmon still running is not noted as a
  trace that was taken and cleaned (`available` and `cleaned`). A registration that raised
  and a btmon whose startup was interrupted are outside of the claim.
- `TransactionExact` and `Completes` are about open transactions; after the reset of
  `wait_ready()` there is none. What the write before it may have changed is one unit, the
  next one (theorem `OnlyNextUnitWritten`).
- `LateErrors = TRUE`: a power command may act and then fail. `SuiteAccounts` is about
  the boards, not about the supply.

Setting a constant to the other value, or dropping the exception, gives a
counterexample; each is an observation below.

### Findings

1. `usb_requested_is_attached`: a cable pulled inside `nrfkit_usbhs_connect()`
   between the PHY write and `connected = true` leaves the flag set and the PHY
   detached. When the cable comes back, the interrupt believes it is connected.
2. `usb_vbus_follows_cable`: with both VBUS events latched the handler always
   processes the removal first. A plug and pull while it is masked leaves
   `vbus_present` true.
3. `timeslot_ownership_leaks`: `cleanup_grant()` ignores that
   `nrfkit_radio_release()` refused. If RADIO outlasts the polls, the timeslot owns
   RADIO for ever and each later grant is returned unused. The run
   `timeslot_stuck_radio` shows what still holds then.

`ConnectionAgrees` names situations 1 and 2 by the history variable
`disturbed`; everywhere else flag, PHY, stack and cable agree.

### Observations without a run

Met while the host tools were modelled. The models contain the behaviour; the
properties above are stated so that they hold beside it.
- SIGTERM ends a command but not its nrfutil, which runs in a session of its own
  (`process.py:69`), while the kernel releases the probe lock.
- `run` searches the token in everything received since the port was opened, which is
  before the reset (`cli.py:1856`); m6-sdc-oracle flushes the port after the reset.
- A probe-msd disable during a p0-gate finds MSD disabled, reports success, and the gate
  enables it again (`cli.py:2100`).
- The two-board gates compare the probe arguments before aliases are resolved
  (`cli.py:967`).
- OpenOCD restore checks the identity in one session and writes in the next
  (`openocd_cli.py:204`); clear-rram guards against this.
- The suite sets `output_on` after the command that switches the supply on
  (`power_suite_cli.py:286`); an interrupt in between leaves it on.
- The shell of the temporary firmware is recognised without the serial number
  (`ppk2_eeprom.py:46`), so two audits can read each other's instrument. Their reports of
  the restoration stay true (`AuditRestores`).
- m6-ble-scan overlooks a cached object without RSSI, both when it checks for a bond
  (`ble_validation.py:400`) and when it verifies the removal (`:459`).
- A pairing that leaves no bond fails without cleanup (`ble_validation.py:747`).
- A KeyboardInterrupt in the 0.3 s after btmon was started (`ble_validation.py:79`) is
  swallowed with every other reason for a missing trace (line 121). The run goes on,
  nothing stops btmon before the hard timeout of its wrapper, and the trace is noted as
  unavailable with `cleaned` true. `docs/hardware-workflow.md:107` promises "an outer hard
  timeout and process-group cleanup"; only the first remains.
- A failed `UnregisterAgent()` is swallowed (`ble_validation.py:733`), so that a run may be
  ok with its agent registered until its bus connection closes. `RegisterAgent()` is in
  front of the try (line 691): if it registers and then raises, nothing unregisters.
- A BLE gate that fails after the pairing does not report how its trace ended: only the
  errors of the pairing itself get `hci_trace` (`ble_validation.py:726`).
- The build reads the receipt twice, once to choose the toolchain and once for the hash
  in the manifest (`reference.py:378`), and does not compare the oracle files again
  (`reference.py:206`).

## 4. Proofs

Every theorem is about the specification of its module for every value of the
constants that its assumption admits: any number of clients, commands, boards,
profiles or records, any lengths and counter widths. The argument is the same
everywhere: an invariant that TLC confirmed on the bounds of the run, one lemma for
each part of it that goes through the actions, and a temporal step that combines them.

| Module | Proved | Left to TLC |
|---|---|---|
| `PlatformProofs` | `TypeOK`, `ReferencesCounted`, `ClientsKeepMpsl`, `Announced`, `CleanWhenDown`, `RunsLockedConfig`, `HardwareFollows` | liveness |
| `TimeslotProofs` | `TypeOK`, `DeadlineInGrant`, `SessionAgrees`, `ActiveRadioOwned`; `ImplementsClient`; `OwnerOnlyInGrant` if every cleanup finds RADIO disabled | `GrantEnds` |
| `RramProofs` | `TypeOK`, `TransactionExact`, `TimeoutHonoured`, `ImplementsClient`; what a step may write (`OnlyNextUnitWritten`) | `Completes` |
| `UsbGlueProofs` | `TypeOK`, `ConnectionAgrees` | `PlugAttaches` |
| `ProbeBenchProofs` | `ProbeExclusive`, `OnlyAudited`, `BurstNotLost`, `BondsRecoverable`, `CleanupHonest` | - |
| `BluetoothCommandsProofs` | `OracleLeavesQuiet`, `OracleAnswerIsMine`, `RoundsLinked`, `BondProved`, `ScanFresh`; the measure behind `CommandEnds` (`CommandsAdvance`) | `CommandEnds` |
| `PowerCommandsProofs` | `SuiteAccounts`, `SessionExact`, `AuditRestores`, `WakeProved`; the measure behind `CommandEnds` (`CommandsAdvance`) | `CommandEnds` |
| `ImageCommandsProofs` | `ClearRecoverable`, `ManifestOfBuild`, `AcceptedIsAllowed`, `GateRestores`; `ReportsHold` without `SwapInRestore`, `ManifestBinds` without `Overlap`, `AuditExact` with `WindowsApart` | - |

### Assumptions

The assumptions on constants are those that the modules declare and TLC evaluates; a
precondition of a theorem names a corner that the runs close too:
- `OwnershipOnlyInGrant` assumes `CleanupOutcomes = {TRUE}`: RADIO is disabled when the
  polls of `cleanup_grant()` end. Finding 3 shows what happens otherwise.
- `ReportsAlwaysHold` and `ManifestAlwaysBinds` assume `~SwapInRestore` and `~Overlap`
  (section 3). Their parts that need neither, `ClearAlwaysRecoverable` and
  `ManifestAlwaysOfBuild`, are theorems of their own.
- `AuditAlwaysExact` assumes `WindowsApart`, that no two ranges of the allowlist overlap:
  a range of cells that spans two which do is rejected, though any two neighbouring
  cells of it lie in one of them. The direction that
  protects a device, `AcceptedAlwaysAllowed`, does not need this.
- `IntelHex`: data records are not empty and forbidden ranges have a length.
  `ProbeRun`: there is a manifest. `M2Gate`: there is an image.

### Platform

The properties are not inductive one by one. `IInv` adds four facts.
- `ReleasesDownMpsl`: the second half of `release_mpsl()` finds MPSL down;
  otherwise it would stop the counter of a running MPSL.
- `WorkNeedsMpsl`: a MPSL that is down has no work; the clearing of
  `low_priority_pending` at teardown then loses nothing.
- `QueueNeedsController`: a disabled controller is empty; otherwise enabling it
  would show packets without `hci_pending`.
- `CounterRemembered`: from the start of MPSL to the end of its release
  `grtc_was_enabled` is the application's setting; this is what the release
  restores.

The reference count argument is: `mpsl_client_references` is the number of
holders plus the clock reference, so the test against zero in front of each
`mpsl_uninit()` means that nobody holds MPSL. `CountHolders` gives the facts about
cardinalities.

### Timeslot and RRAM client

Both clients share `SessionLives` (handler, platform reference and MPSL's session live
together, and only certain states of the session occur while main context is inside a
vendor call) and `DeferredShape`: MPSL owes main at most one signal about a request, and
only while the idle flag still keeps main from making the next one, then at most
SESSION_CLOSED. Without it a late signal could set the idle flag over a later request.

- `Timeslot`: `ParametersHold` says that the parameters published before the vendor
  call are those MPSL works with, because START may come inside that call; with
  `GrantTracked` (a grant is active exactly while MPSL runs one, with its deadline at
  length minus margin) this gives `DeadlineInGrant` through any chain of requests and
  extensions. `OwnerOnlyInGrant` is one more invariant, inductive
  relative to `IInv` under its assumption: what the callback does with the handler's
  action either continues the grant or gives RADIO back (`HandlerGivesBack`).
- `Rram`: `JobTracked` carries a transaction through its units: what is done and what
  remains are whole units that add up to the size, and what is done stands in flash.
  `ClosesComplete` closes without an error only when nothing remains. For the deadline,
  `ClockTracked` relates the wrapping counter to an age that does not wrap, as long as
  the age is below `Timeout + MaxGap`, and `DeadlineSeen` says that no more than one gap
  passes behind it; with `Timeout + MaxGap <= Wrap` the subtraction modulo `Wrap` is
  exact.

`ImplementsClientSteps` of both modules maps the states of the session to those of
`MpslClient`, and shows that `Init` implies its `Init` and every step is one of its
steps or a stutter.

### USB glue

`ConnectionAgrees` speaks of the moments at which nothing is under way; `IInv` says what
holds at every statement.
- `EventsTell`: but for the two races, a latched VBUS event tells how the cable differs
  from `vbus_present`, and connect() goes on only while no removal is latched.
- `StepsAgree`: PHY, `connected` and the stack change in this order inside connect() and
  together everywhere else.
- `Powered`: an initialized glue has its regulator, its interrupt and MPSL's clock, one
  that is not has none of its flags set. `RequestKept`: a request that met a cable is
  connected, however the interrupt came between the test and the call.

### Commands on one probe

`LockInv` places every process at a step of its plan (`RunPlace`), ties a vendor program
to the step that started it as long as its command lives (`ToolPlace`), and says that a
process which stands at a step under the lock holds it (`LockHeld`), for the three kinds
of command at once. `PlanOrder` is what the proofs need of the plans: which steps may
follow one another. `CopiesAudited` and `BoardHolds` give `OnlyAudited`, `BurstHeard`
gives `BurstNotLost`, `BondInv` says that the bonds are in a backup or still untouched, and
`MsdInv` says what is known of the probe's setting at each step of its restoration.

### Bluetooth, power and image commands

The composing modules run one command for good, so `CommandInv` is one implication for
each command, and the parts are proved module by module.
- `OracleInv`: commands, answers and events on their way, in whatever chunks they are
  read, hold nothing that could answer a command before it is sent, and afterwards the
  command or its one answer (`CommandsPaired`). What is under way when the finally
  clause sends its command has another opcode, so the answer that it accepts is its own
  (`ClosingPaired`). The flags, roles and links of the controller follow from the
  position in the script and the commands that are still on their way (`FlagsInScript`, `RolesInScript`,
  `LinksInScript`).
- `DualInv`: which rounds are heard and proven at each step, and which child the step
  waits for. `ValidationInv`: what the phases before this one have established; a read
  counts only on a link that was made after the device was removed (`LinksCounted`,
  `ReadsSecured`), and agent and trace do not outlive the steps of the pairing without a
  note of it (`PairingEnds`). `ScanInv`: from its discovery on, a matching object was heard.
- `SuiteInv`: at each step, which of backup, capture and restoration has happened to the
  target (`TargetAccounted`), the peer (`PeerAccounted`), the profiles and the supply.
  `SessionInv`: the samples read and those on the wire are one stream whose numbers
  increase by at most what was lost in all (`StreamOrdered`), so that below a full turn
  of the counter every gap shows. `AuditInv` is what an audit claims at its end, inductive
  on its own: only the audit of an instrument writes its firmware. `UsbInv`: the kernel's
  counters against those that the gate read before (`Counted`, `WakeupSeen`).
- `OcdInv`: a dump is current until the region is erased (`DumpCurrent`), the chosen
  backup is published and of the board the session named (`BackupChosen`, `SessionNamed`).
  `ReferenceInv`: what a build has read of the receipt and put into its directory.
  `HexInv`: the memory is what the records read so far say, and the ranges so far, the
  current one and the addresses to come are the memory. The scan takes the least address
  that is left; `WFMin` of the library gives that there is one. `GateInv`: at most one child is
  alive (`OneChild`), it runs a programming command of the other image or the normal one
  (`RunKnown`), and a restored board holds and runs the normal image.

### The way to the report

`CommandEnds` says that every command comes to its report. Its argument has two parts,
and `CommandsAdvance` proves the one about steps, for the eight commands of
`BluetoothCommands` and `PowerCommands` and with any number of rounds, profiles, samples,
instruments, lost links, suspensions and resets. `Left` counts the steps that a command
has before it:
- it is a natural number, and zero exactly at the report (`LeftCounts`);
- no step adds to it: no error, retry or late answer takes a command back;
- every step that a deadline forces takes from it (`Due`, the steps under the fairness
  of `Spec`; a poll of the USB gate is left out, as it may find nothing new).

Between two such steps, what happens around the command is counted by `Around`: the
children of a two-board gate, the link and the bond of a BLE target, the object that
BlueZ caches, the peer's process, the samples of a capture, the device's suspensions.
Each of these steps takes from `Around`, so that a command also takes finitely many steps
in all. Four places need care:
- the oracle has no `Around`: its peers may advertise and send data without end, and its
  deadlines (`Raise`, `RaiseClosing`) are what takes it on;
- an audit has a measure of its own for each instrument, since the audits that run at
  the same time do not wait for one another;
- an interrupt of a BLE gate is no step that a deadline forces, but takes from `Left` too;
- a poll of the USB gate is a step only if it reads a status that changed since the last
  one, which is an invariant of its own (`UsbSettled`).

The other part is that some due step stays possible until the report. That is ENABLED,
and TLC checks it with `CommandEnds`.

### Not proved

Liveness and fairness need ENABLED, which the prover does not handle. They are checked
on the bounds of the runs: `GrantEnds` and `Completes`, which contain the fairness of
`MpslClient`, `PlugAttaches`, the two `CommandEnds` and the liveness of `Platform`.

## 5. Not modelled

- `fatal_reset()` and the fault record it leaves for the next boot; `acl_put`, which
  passes its argument on; whether SDC accepts a second `sdc_init()` after a failed
  configuration.
- The USB-only clock path, the DWC2 parameter table, endpoints and transfers.
- HCI encoding in the firmware, radio register programming, startup and C library
  code: no state of their own, or straight-line register access.
- The retry link of `examples/m7-timeslot-retry` and the radio peer; the validation
  firmware, except as the partner of a host model.
- SIGTERM of p0-gate and probe-msd (it is modelled for the other commands on a probe);
  commands of different families at once, except on one probe (`ProbeBench`).
- The address ranges of an OpenOCD backup (`OpenOcd` has regions), the layout regions
  of an ELF, its headers and symbol tables; doctor, the rest of inspect, device-list
  and m6-host-info, which only read.
- USB transfer loops, the signal analysis of captures, and reports: sequential I/O
  and floating-point arithmetic without a choice that a model would explore.
- The manifest of an SDK target, which is written in one pass over files that the
  loader checks again (`Load` in `ProbeRun`), and the CMake code.
- Weak memory: the device has one core; `volatile` and barriers are taken to give
  program order between main context and interrupts.

## 6. Plan

1. A composition of `Platform` with the two concrete clients in place of its
   abstract ones, from the step simulations of `MpslClient`.
2. The retry link of the examples on top of `Timeslot`.
