# Verification of the firmware paths of the T113 SDK

This directory holds TLA+ models of the parts of the repository that carry
state, can fail half way and are hard to test: how firmware and configuration
get onto raw flash, how boot-loader variables are kept, and how the buttons
that trigger a reboot or a factory reset are read. TLC checks the models on
small instances, TLAPS proves theorems about them for every instance.

All paths below are relative to `src/`. `PKG` stands for
`openwrt/openwrt/package`.

## 1. Inventory of the system

The repository is the Allwinner Tina SDK for the T113: build scripts, board
descriptions, and an OpenWrt tree. Most of its files are data, build recipes,
patches or vendored code. What follows lists the parts that are programs of the
repository itself, with the state each keeps, its operations, its partners, what
is hard about it and what would make it right. The last column says where it
stands: **M** modelled, **p** partly, **-** not modelled (yet).

### 1.1 Firmware and configuration on flash

| part | state | operations | hard | right when | |
|---|---|---|---|---|---|
| `mtd` (`PKG/system/mtd/src/mtd.c`, `jffs2.c`, `tpl_ramips_recoveryflag.c`) | flash blocks, bad-block marks, recovery flag; erase frontier, file offset, skip counters, block buffer, partition list | `write` with `-e -f -j -n -p -t`, `erase`, `verify`, `dump`, `jffs2write`, `unlock` | bad and worn-out blocks, running over several partitions, power cuts, read and write errors, an append in the middle of the stream | every block of the image is on a good, erased block, in order; success means stored; a torn flash is announced to the boot loader | p |
| image fixups (`trx.c`, `seama.c`, `wrg.c`, `wrgg.c`, `imagetag.c`) | length and checksum fields of the image header on flash | check before the write, fix after an append | rewriting the first block in place, after the image is complete | after the fixup the header describes what is on flash | p |
| FIS table (`fis.c`) | RedBoot's partition table on flash | validate, remap around a new image | one block rewritten in place, sizes that wrap | entries do not overlap and cover the same range | - |
| boot counter (`linksys_bootcount.c`) | log of counter records in one block | find the last record, append 0, erase when full | append until the block is full, then erase: a power cut in between | the boot loader always finds a last record | - |
| `sysupgrade` (`PKG/base-files/files/sbin/sysupgrade`, `lib/upgrade/*`) | image and configuration archive in tmpfs, running processes, mounted root | validate, save configuration, kill processes, switch to a RAM root, write (through `mtd` or UBI), reboot | steps that cannot be undone, a pipe of which only the last exit status counts, ignored failures | it reboots only into a whole system, or not at all | p |
| NAND upgrade (`lib/upgrade/nand.sh`) | UBI volumes | remove and create volumes, update kernel and root volume, restore the configuration | ends in `nand_do_upgrade_success` whatever failed | as above | p |
| OTA (`openwrt/target/t113/*/swupdate`, `build/swupdate`) | A and B systems or a recovery system, boot environment, `swu_mode` | write the idle system, switch `boot_partition` and `root_partition`; or recovery, then kernel and root, then user data | power cut at any step; several environment variables and volumes that must change together | there is always a whole system that the environment points to | p |
| `nvram` (`PKG/utils/nvram/src`) | flash partition with header and list, staging file in tmpfs, mapping and hash table of each process | `get`, `show`, `info`, `set`, `unset`, `commit` | no lock, strings masked while they are read, a list rewritten in place, ignored write errors, capacity | a key-value store: no variable changes but by the command that names it | p (see 3.3) |

`sysupgrade` hands the image to `mtd` (`default_do_upgrade` in
`lib/upgrade/common.sh`: `mtd -j <archive> write - image`) or to UBI; only the
exit status of `mtd` decides whether the device reboots. The OTA scripts do not
use `mtd`: `swupdate`, which is not in the repository, writes the volumes and
the environment that the descriptions name.

### 1.2 Buttons

| part | state | operations | hard | right when | |
|---|---|---|---|---|---|
| `gpio-button-hotplug` (`PKG/kernel/gpio-button-hotplug/src`) | per button: last state, debounce counter, time of the last event, timer, interrupt; one static message buffer; a work item per event | probe, poll, interrupt, handle, create and broadcast event, remove | interrupts, timers and workqueues of several CPUs; allocations that fail or sleep; removal while work is queued | events alternate, are debounced, are told whole and in order; nothing runs after removal | M |
| `button-hotplug` (`PKG/kernel/button-hotplug/src`) | input handler, the same event work | connect, event, disconnect | as above | as above | - |
| `rc.button/*`, `failsafe` (`PKG/base-files/files/etc/rc.button`) | none: each message starts a script | reboot below 1 s, factory reset from 5 s on | depends on `SEEN` and on the order of messages | a short press is never taken for a long one | through `SeenWithinHold` |
| `preinit` (`PKG/base-files/files/lib/preinit`) | overlay, failsafe marker | mount root and overlay, wait for failsafe | configured away here: `failsafe_wait` returns at once | - | - |

### 1.3 Network and other drivers

| part | hard | why it is not modelled yet |
|---|---|---|
| `trelay` (`PKG/kernel/trelay/src/trelay.c`): pairs of devices that forward to each other, a list under the rtnl lock, debugfs files | removal by file close, by device notification and by module exit; frames in flight | next in the plan |
| `ead` (`PKG/network/services/ead/src`): remote shell before the network is up; SRP handshake over broadcast | lost, repeated and foreign packets, state per session | in the plan, with SRP itself (vendored `tinysrp`) as an operation that succeeds or fails |
| hostapd and wpa_supplicant ubus objects (`PKG/network/services/hostapd/src`) | bans with timeouts, requests answered later | in the plan if room allows; the daemons around them are not in the repository |
| `swconfig` (`PKG/network/config/swconfig`), `iwcap`, `resolveip`, `rssileds`, 6rd, 464xlat, MAP scripts | mostly conversions and single requests | little state of their own |
| Lantiq drivers (`PKG/kernel/lantiq/*`), `hwmon-gsc`, `rtc-rv5c386a`, `gpio-nct5104d`, `gpio-nxp-74hc153`, `mt7621-qtn-rgmii` | ring buffers and mailbox | hardware the T113 does not have, and whose behaviour the source does not define |
| firmware-utils, `scripts/config`, `libiconv`, image tools | none: they map a file to a file | no state over time; partly vendored |
| `build/`, `openwrt/build`, `device/`, `brandy/`, toolchain, `package` recipes | none | build system, board data and binaries |

### 1.4 What is hard, in one place

Concurrency: event work of several CPUs, readers beside an nvram writer,
interrupts beside probe and remove, frames beside the removal of a relay.
Failure half way: every program that erases before it writes; every call whose
result is dropped (`pad` in `jffs2.c`, the writes of `nvram_to_staging` and
`staging_to_nvram`, `nand_upgrade_tar`). Order: recovery flag before erase,
interrupt off before work cancelled, environment after volumes. Boundaries: the
erase frontier against the data, a list that fills its partition, `SEEN`
against 5 seconds. `PROJECT.json` lists each hazard at its line, with the
properties that would show it going wrong.

## 2. Plan

Written, in this order: the flash writer with its abstract specification,
because everything that ends in a dead device goes through it; the button driver,
the only concurrent program that runs on every board; nvram, the only shared
store; the over-the-air update and sysupgrade, which decide what a device starts
after it was written; and the proofs about each of them, so that by now every
property of a passing run but liveness is a theorem (section 5).

Next:

1. Theorems for uses that the present ones leave out: `mtd` with `-n`; the refinement
   of FirmwareUpdate with a header to put right, for which the abstract specification
   needs a step back from `new` to `torn`.
2. `Trelay`: list, rx handlers, debugfs files and frames; safety: no frame is
   forwarded through a relay that has been freed, both directions go together;
   `BootCounter` and `FisTable`: small, in-place rewriting with a power cut.
3. `Ead`: sessions and packets that are lost, repeated or late.

The modules are written to be proved about: no RECURSIVE operator, parameters as
constants with named assumptions, one action per operation, loops of the code as
steps and not as operators on the whole list.

The number of runs is kept small: a question that can be asked of an instance
that is run anyway is asked there.

## 3. The modules

### 3.1 Flash writer: `MtdWrite`, `FirmwareUpdate`

The unit is the erase block; a block's content is `old`, `blank`, `data` (the
chunks of the image it holds), `cfg` (a block of the appended configuration) or
`junk`. The image is a stream of chunks, `ChunksPerBlock` to a block, so that
short reads, the partial last block and its padding are there. `bad` and `worn`
are chosen at the start and stay: a bad block is one the driver reports, a
worn-out block fails to erase. Programming a block that is not blank, or a bad
one, leaves `junk`.

State against code: `w` and `e` count blocks as `mtd_write` counts bytes,
`skipBad`, `skip`, `offset`, `buf` are its locals (`offset` and `skipBad` are
not reset at the `resume` label, which is the point of one finding), `pos` is
the file offset of the device (`Advance`: an `lseek` past the end fails and leaves
it), `mtdofs` and `jn` are `jffs2.c`'s, `cfgLeft` is
`jffs2file` not yet consumed, `flag` the magic in the `-t` partition. `pc` names
the place in `main` and `mtd_write`; every loop iteration is a step of its own:

* `CheckImage`, `PreErase`, `OpenPart`, `FlagErase`, `FlagWrite`, `Finish`: `main`
  and `mtd_tpl_recoverflag_write` (whose erase and write are two steps: power
  may fail between them);
* `ReadChunk`, `EndFill`: the read loop; a read error leaves it like the end of
  the file, and `readErr` remembers that as history;
* `KeepBlock`, `DropBlock`, `StartAppend`, `AppendSkipsBad`, `AppendErases`,
  `AppendWrites`, `EndAppend`: the end marker and `mtd_replace_jffs2` with `pad`, whose
  erases and writes may fail and are not looked at (a failed write leaves the file
  offset). It steps over bad blocks below `mtdsize` only, a global that
  `mtd_check_open` sets: with `-t` that is the size of the flag's partition
  (`FlagSize`), opened last, and bad blocks beyond it are erased and written;
* `FixErases`, `FixWrites`: `mtd_fixseama` and its like, which read the header's
  block into the buffer, erase it and write it back;
* `SkipBadBlock`, `EraseBlock`, `EraseFails`, `Spill`, `BadQueryFails`, `RoomMade`:
  the erase loop; `Spill` is the jump to the next partition, with the write of
  `e - w` bytes that the code does first;
* `WriteBlock`, `WriteFails`; `PowerCut` at any step, also in the middle of any
  erase or write (`AtWork` is the block it is on).

`Faults` says which of read, write, open, flag and check errors and power cuts
may happen. `FirmwareUpdate` is what a caller can rely on: the firmware goes
from `old` over `torn` to `new`, the exit status is 0 only with `new` in place,
and once the device is off nothing changes. With `-j` the firmware is `new` when the
image up to its end marker and every block of the configuration (`Unsaved`) are on
the flash.

### 3.2 Buttons: `UeventWork`, `ButtonHotplug`

`ButtonHotplug` is the driver: lines, per-button data, timers as countdowns,
interrupts, probing and removing as loops over the buttons. Polled and interrupt mode
are one module with the constant `Polled`; `Delay` is the poll interval or the
software debounce time, `Threshold` the debounce interval in polls. `Handle` is
`gpio_keys_handle_button` as a whole. Lines change whenever they like, at most
`MaxEdges` times. `steady`, `missed`, `held` and `hold` are history that only the
properties read: `held` runs from the first edge of a press, and `hold` is what it was
at the last edge of its release. Not in the model: the parsing of the device tree and
the configurations that `gpio_keys_button_probe` refuses.

`UeventWork` is the way of an event to user space. An event is a work item on
`system_wq`. On one CPU items start in order and one at a time, except that an item
that sleeps lets the next one run: in `alloc_skb(GFP_KERNEL)` (`asleep`, fault
`sleep`), or, fault `contend`, in the mutex of `uevent_next_seqnum` and in the
`GFP_KERNEL` broadcast (`wait`). In the broadcast the number is already taken, so that
later numbers arrive first; `late` remembers that. The broadcast may also lose the
message. Items of different CPUs run side by side. The header string and the variables
HOME, PATH and SUBSYSTEM, the same in every message, are left out. `bh_event_add_var`
formats into a static buffer and then copies from it: two steps, `Format` and
`CopyVar`.

`FrontSpec` is the driver with workers that never run: the driver reads nothing
that they write, so its own properties can be checked without them.

### 3.3 Boot loader variables: `Nvram`, `NvramStore`

A file (partition or staging file) is a header and a list of name=value strings with a
state: not there, created but empty, cleared for rewriting, torn, whole. The writing
command is a sequence of steps from `FindStaging` to `Unlink`; the two halves of every
string's parsing (`MaskTuple`, `UnmaskTuple`) are steps of their own, because in
between the '=' of the string is overwritten in the mapping. `FillBacked` is one turn
of the loop at the end of `_nvram_rehash` that gives the backed (`sdram_*`) variables
their values from the header; `WriteTuple` writes one string of the list, or passes
over one that does not fit, at the bucket and place that `at` names, and `EndList`
closes the list and sets `header->len`. The hash table keeps its buckets and the order
in them, since they decide what `nvram_commit` drops when the list does not fit. Bytes
are counted as in the code: `len` is `header->len` without the header, `Size - 2` the
limit `end`. A value is a length and the number that `strtoul` reads from the string.
`Field` is what `nvram_commit` keeps of that number in the header: 16 bits of it, but
32 of `sdram_ncdl`; `Hex` is the string that `_nvram_rehash` prints from a field, of 6
or 10 characters. A value as long as the partition is refused (`Fits`). What a file
says (`Vars`) is, for each variable, the last string of that name, or else the header;
`Coming` is the same of the table.

A reader (`get`) maps privately; its first write to the mapping gives it a copy
of the pages, and from then on it sees what it has. The model takes the list for
one page. There is one writing command at a time: that is how `nvram.init` and
the other scripts use it, and with two the code loses variables (see the hazards).

`NvramStore` is the promise to callers: `set` and `unset` change one variable at
once, `commit` makes the current values outlast a reboot, and overwrites the
saved ones in place, so that a power cut during it loses them.

### 3.4 Over-the-air update: `OtaStages`, `Ota`, `DeviceUpdate`

`OtaStages` holds six of the `sw-description` files as data: the stages by name,
and for each its steps (write a volume, apply a delta, copy, compare before and
after) and the boot variables it leaves. `Sound` is what a description must satisfy
for an update to survive any power cut: no stage writes what the running system or
the one to be booted needs, the variables change only between systems that are
whole, the stages lead back to a full system (`Returns`), and what a stage compares
or patches is what the stages before it left (`Certain`).

`Ota` carries out a description: `Begin` and `Start` are the call of swupdate for the
stage that `swu_mode` names, `OpenVolume`, `CloseVolume` and `Compare` one step of it
each (a volume is torn from the first to the second), `Look`, `Pad`, `StartWriters`,
`Test` and `PostPadded` the install scripts `preinstall_X.sh` and `postinstall_X.sh`,
`WriterOpens`, `WriterDies` and `WriterFull` the `ubiupdatevol` that they leave in the
background (that one which has started does not fail half way, and that the second
between `dd` and the tests is enough for it to end, are assumptions: what a failing
`ubiupdatevol` does is not in the repository), `SetEnv` the variables, `Handover`,
`PowerCut` and `Boot` the ways from one system to the next. `DeviceUpdate` is what the
owner may expect.

### 3.5 Sysupgrade: `Sysupgrade`

One upgrade, from `sysupgrade <image>` to the first boot: `Stage2` kills the processes
and switches the root, `MtdRuns` and `MtdEnded` are `default_do_upgrade`, with `mtd`
as FirmwareUpdate, which `MtdWrite` implements, and the broken pipe as `CutShort`;
`Attach`, `Unblock`, `Kill`, `Create`, `WriteVolumes`, `Format` and `Formatted` are
the ways through `nand.sh`, each tool with its failure and the script going on all the
same; `Success`, `RestoreConf` and `Reboot` its end; `Boot`, `Move`, `Extract` and
`Sync` the start of the device and `80_mount_root`. What a power cut leaves of the
overlay before the `sync` is `Persisted`.

A NOR board has the settings behind the image in the same partition, and what `mtd -j`
leaves there is `Behind`: an end marker starts the writable file system anew, with
the archive in it if there is room and nothing fails (`AppendFails`); without a
marker nothing is appended, and what the image does not reach stays. `tail` says
which an image has; `mtd` exits 0 in every case. Without `-f`, whose archive comes from
outside; with a root in a tmpfs the upgrade goes on without an archive.

## 4. The runs

| run | instance | shows |
|---|---|---|
| `mtd_nor` | NOR, three partitions of 3, 2 and 4 blocks, `-p` 1, `-t`, seven chunks (four blocks), up to two worn-out blocks anywhere, all faults but read errors | type invariant; at most one block erased and not written, stored on success, in order over two changes of partition, nothing below the offset touched, flash touched only under the flag, and the refinement of FirmwareUpdate |
| `mtd_nand` | NAND, four blocks, five chunks, `-e -f -t`, two bad blocks and a worn-out one anywhere, all faults, weak fairness of the program | writes go to clean blocks, no hole but bad blocks, termination |
| `mtd_config` | NAND, five blocks, one bad, image of four blocks whose third is the end marker, one block of configuration, `-t` with a partition of three blocks, a header to put right, all faults but failing writes of the image | image and configuration are stored, unless a bad block lies beyond the third, only the part behind the marker is replaced, and every torn state is flagged, also while the header is rewritten |
| `mtd_spill_bad` | NAND, two partitions | violation: after a skipped bad block the change of partition writes unerased or bad blocks |
| `mtd_read_error` | NOR, read errors | violation: success is reported and the flag cleared with half an image |
| `button_irq` | key and switch, interrupts, `Delay` 1, three edges, failing event allocations and interrupt requests, work as late as it likes | type invariant, alternation, no change missed, debounce, nothing left after removal |
| `button_polled` | one polled key, threshold 1, two edges, prompt work, one CPU, allocations that fail or sleep, workers that wait for the number or in the broadcast, fairness | debounce, `SEEN` above the time held by a poll interval at most, whole messages, in sequence but for those that waited with their number, the level that lasts is reported |
| `button_race` | two CPUs | violation: one static buffer, a press that user space never hears of |
| `nvram_readers` | three variables, two of them backed (16 and 32 bits), of which the list may lack one and contradict the other, a number too large for 16 bits, a value longer than the partition, two writing commands, one reader slot that runs any number of commands, reboots, full tmpfs | refinement of NvramStore, readers read what is current, header follows the variables |
| `nvram_full` | a partition of 24 bytes, which the two backed variables fill | violation: the third variable is set, does not fit, and is dropped with exit status 0 |
| `ota_update` | all six descriptions, three releases, two power cuts, two faults (a failing step of swupdate, a writer that does not start), fairness | type invariant; always a whole system to boot, nothing changes under a running system, the recovery system always has a stage to go on with, no update fails by itself, every update ends, and the refinement of DeviceUpdate |
| `sysupgrade` | three kinds of board, root file systems squashfs and ubifs, four blocks for volumes, images of every form that fit or do not, for NOR with and without an end marker and room behind it, with and without `-n`, two power cuts, two failing steps, fairness | type invariant; `mtd` boards restart only into what was stored, `-n` forgets, a suitable image is installed and the settings come back where they have a place, a power cut costs settings or system only at the named moments |

Bounds. Three partitions make two changes of partition possible, with a worn-out block
in the first, in the second or in both; the blocks left over let the image fit or not.
Two bad blocks and a worn-out one can be adjacent, at the start, at the end or around
the place of the last block. Three edges give press, release, press after any first
level, with bounces of one edge; with two in the polled run press and release are
under way side by side, and one can overtake the other. Two writing commands are what
it takes for one to undo what the other left behind (a header at its defaults, a
staging file, a committed partition); the lists the partition begins with are one that
has a single backed variable, at odds with the header, and one that fills the
partition to the last byte. For `mtd_config` one bad block can lie before, inside or
behind the append, and below or beyond the size of the flag's partition. Three
releases are two updates, so that the second starts from what the first left behind,
in A/B from the other system; two power cuts hit one stage twice or two stages once;
two faults can leave a background writer behind and then fail the stage that meets it.
Four blocks are room for a kernel, a root and data with one to spare, and the sizes of
the images range from fitting to too large by a kernel, by a root, or by the last
block; two faults let a removal fail and then a creation, or `ubiattach` and then the
restore.

Fairness. `mtd` is one process: weak fairness of its next step, nothing else; a
power cut is never forced. For the buttons: time passes, due work is run, each
worker goes on with its event (the kernel's workqueues guarantee no less). For an
update, `swupdate`, each background writer and the boot loader go on; neither the
start of an update, nor a fault, a cut or a second call of swupdate is forced. For
sysupgrade, the scripts and the start of the device go on (`Step`).
Nothing is assumed of the person at the button, of allocations or of readers. No
liveness is claimed for nvram.

Deadlock is checked for `mtd`, buttons and nvram; a program that has ended stays
there by an explicit stuttering step (`Stopped`), buttons and nvram can always take
some step. It is not checked in `ota_update` and `sysupgrade`, which really stop:
when the last release of the instance is installed and the cuts are used up, and
when the device is up after its upgrade or cannot be started at all. That they do
not stop earlier is what `Installs` and `Completes` say.

Every property is paired, in `PROJECT.json`, with a small change of a definition
(`<Definition>_<Change>` in the module, marked "Mutant") that a bug in that code
would amount to, and that makes TLC find the property violated.

## 5. The proofs

Eight modules hold the theorems. Each is about every value of the constants that
the named assumptions of its module allow; where a theorem needs more, the
condition is a definition that the theorem assumes by name, and its reason is
given here. The inductive invariants were checked by TLC on the runs' instances
before they were proved.

### 5.1 `MtdWriteProofs`, `MtdUpdateProofs`

For every size of flash, number of partitions, image, set of options and set of
faults:

* `TypeCorrect`: `Spec => []TypeOK`. The invariant carries, besides types, that
  the appended configuration never falls behind the erase frontier
  (`jn + e <= mtdofs`), without which `skip` could go below zero.
* `FlagFirst`: without `-e`, no step changes the flash unless the recovery magic
  is in place. By the places where the program can be: the flag is set on the
  way to every place that erases or writes, and cleared only after them.

In plain use, `PlainUse`: no `-n` or `-j`, and on NAND a single partition. The last
condition is needed: finding `mtd_spill_bad` is what happens without it.

* `WritesAreClean` (NeverBlind), `SuccessStoresImage` (OkMeansStored), `ImageInOrder`
  (Ordered),
* `GapIsSingle` (SingleGap), `TornIsFlagged` (FlagCoversTear) and `OffsetIsKept`
  (BelowOffsetKept), if there is no `-e`, which empties the whole device beforehand, the
  blocks below the offset included, and without a flag,
* `OnlyBadLeftOut` (NoHole), if `Aligned`: on NAND no `-p`, for section 6 tells what
  it does there,
* `UpdateIsImplemented` (Implements): `mtd` implements FirmwareUpdate, if the image is
  `Readable`: it has a chunk, and reading it does not fail. An empty image given with
  `-f` is "written" by doing nothing, and a read error is the finding `mtd_read_error`.

The argument has layers, each an inductive invariant that uses the ones before.
`FlagInv` ties `flag` to `pc`. `Frontier` ties the erase frontier to the data: between
two blocks `e - skipBad` is `w`, the file offset is `e` plus the `-p` offset, and in
the moment before a write exactly one block lies between them, which is good and
blank; that it is the only blank one is `Gap`, which `-e` breaks. `Store` says which
chunks are where: everything read so far is on the flash or in the buffer, blocks of
data lie behind the file offset only, and their chunks are ordered. `Solid` adds that
behind the file offset every block from the `-p` offset on is image or bad. `TornInv`
is FlagCoversTear and that the flag is not yet there while it is being set: the step
that matters is the erase of the flag's block at the end, where `Store` gives that
nothing of the image is missing any more. No safety property is inductive by itself:
`NeverBlind` needs to know that the block the frontier made is the one the offset
points to, and `OkMeansStored` that nothing written before is ever erased again. For
the refinement each step is mapped to a step of FirmwareUpdate or to none: only
`WriteBlock` puts image on the flash, so every other step at most tears the old
firmware, and a flash that was touched never looks old again.

With a configuration to append and a header to put right, `ConfigUse`: NAND, one
partition, no `-p` or `-n`, no worn-out block, no failing write, and with `-t` a
partition that is not smaller than the image's. `pad` looks at the result of neither
its erase nor its write, on NOR it does not notice the end of the device either, and
with a smaller flag partition it does not step over the bad blocks beyond that size:
without these conditions the configuration is lost with exit status 0 (section 6). The
fixup, the flag, reading, power and the image check may fail.

* `ConfigIsKept` (ConfigKept), `SuccessStoresBoth` (OkMeansStored),
* `WritesAreCleanToo` (NeverBlind, the writes of `pad` included), `OnlyBadLeftOutToo`
  (NoHole), `ImageInOrderToo` (Ordered),
* `TornIsFlaggedToo` (FlagCoversTear), if there is no `-e`,
* `UpdateIsImplementedToo` (Implements), if the image is `Readable` and has no header to
  put right: the firmware is new once the image up to its marker and every block of the
  configuration are there, and the end of the append may be the step that makes it so.

`ConfigInv` has the frontier of this use (the file offset is where the next block
goes, whether it is image or configuration) and that the blocks of configuration
written so far lie behind it. `ImageInv` has the image: each chunk read so far is on
the flash, in the buffer, or from the end marker on and replaced by the configuration;
the header's block is in the buffer as long as it is erased. It needs that what is in
the buffer when the append begins starts with the marker, and that blocks are only
dropped after an append; both are lost if one looks at the flash alone. `Filled` says
that nothing below the file offset is left out but what is bad, and the first block,
which the fixup erases; `InOrder` that what is in the buffer comes after all that is
on the flash, except while the header is put right, when it comes before. The two hold
through the append because it moves the offset, and puts no image behind it.

### 5.2 `ButtonHotplugProofs`, `UeventWorkProofs`, `ButtonEventProofs`

For any number of buttons, polled or not, any delay, threshold and faults, from
`EventAssumption` and `DriverAssumption`:

* `RemovalIsClean` (QuietAfterRemove): nothing is left after removal. The loop of
  `gpio_keys_remove` needs `RemovalInv`: the buttons before `cur` are silent, and
  in the moment between the two calls for one button its interrupt is off; a
  polled device never has an interrupt, and no work but that in `timer[1]`.
* `IrqKeepsUp` (Synced): the driver knows the level of the line. `SampledInv`
  extends the claim to the moment between the first sample's schedule and the
  request of the interrupt, where it cannot be read off `irq`; it needs
  `RemovalInv` at the step that cancels work, and that with interrupts the
  threshold is 0, so that one sample settles the state.
* `RangesKept` (TypeOK): every counter, countdown and index stays in its range.
* `EventsAlternate` (Alternate), by `AlternateInv`: neighbouring events of a button
  differ, the first event of a key is a press, and `last_state` is what the last event
  says, also when that one could not be allocated.
* `EventsAreDebounced` (Debounced), an action property, by `DebounceInv`: `count` is at
  most the number of samples in a row at the level of the line (polled), and what is
  left of the countdown and the time since the last edge together make the delay
  (interrupt).
* `SeenIsWithinHold` (SeenWithinHold): `SEEN` exceeds the time between the first edge of
  the press and the last of the release by a poll interval at most (polled), by nothing
  (interrupts), or by the debounce time if the first sample of all reported the press,
  which then was not debounced. By `HoldInv`, which adds up the countdown of the
  press, the time since, and the samples counted so far. In polled mode that is a
  product of the constants `Threshold` and `Delay`, and needs lemmas of its own.

Workers change nothing the driver reads, so their steps are a single case.

* `SerialMessagesIntact` (Intact) and `SerialMessagesInSequence` (InSequence), if
  deliveries are serial (`SerialDelivery`): one CPU, and no worker that slept or
  waited wakes up beside another, which a kernel without preemption does not do.
  Finding `button_race` is what happens on two. The invariant, `SerialInv`, says that
  at most one event is being told, that its message so far and the buffer, once
  formatted, are its own, and that its number is above all that were sent. A message
  with its number that waits in the broadcast is `late`, and the only one that others
  overtake.

### 5.3 `NvramProofs`

For any variables, buckets, lists on the partition, readers and power cuts, from
`NvramAssumption`:

* `RangesKept` (TypeOK), by `TypeInv`, which also says which file may be in which state
  at which place of the writer, and that only the string being read is masked.
* `HeaderFollowsVariables` (HeaderAgrees), by `HeaderInv`: after the rehash the table has
  every backed variable, and only `unset` takes one out. The header then has the
  numbers that the variables say, those of 16 bits cut to them.
* `AnswersAreCurrent` (ReadsCurrent), by `CurrentInv`: a reader that no writer ran beside
  has its source whole, and `found` is the last value among the strings it has passed.
* `StoreIsImplemented` (Implements): the command is the store NvramStore, whoever
  reads, and wherever power goes, if the variables fit the partition: `Roomy` bounds
  each string, with a value of up to `MaxLen`, by `longest` bytes and the number of
  names times that by the room for the list. Where they do not fit, strings are
  dropped (`nvram_full`). The invariants: while the list is read the table is what its
  strings say so far (`LoadInv`); while it is written the strings passed are in it,
  once each, and no others (`WrittenInv`), so that the bytes written stay below the
  limit and no string is passed over; and the partition is torn only while it is saved
  (`SavedInv`). The step of the store is `Clear`, which makes the old list disappear
  in front of what is coming. Reading and writing a list are steps, not folds, so that
  these are invariants and need no induction over lists.

### 5.4 `OtaProofs`

For every set of descriptions that are `Sound`, any number of releases, cuts and
faults (`OtaAssumption`):

* `TypeCorrect` (TypeOK), `AlwaysBootable` (Bootable), `RunsUndisturbed`
  (RunningIntact), and `UpdatesFollow` (Implements): the refinement of
  DeviceUpdate, step by step.

So a new description needs no new proof, only the check that it is `Sound`. The
invariant has four parts besides the types. `PlaceInv`: what would be booted and
what runs belong to the stage that `swu_mode` names, and what would be booted is
whole. `WriterInv`: a background writer exists only for volumes of that stage, and
never while variables are set. `PlainInv` and `FifoInv`: the steps that are behind
have delivered their volumes, directly, or through a writer that needs no more
than the zeros, or not at all because of a plain file, which the second script
will find. Without the last part the step that sets the variables could switch
to a volume that its writer has not finished.

* `NeverStranded` (NotStranded), by `RescueInv`: in the recovery system a stage is
  named, and if it is the last one it leaves the recovery system.
* `EveryAttemptSucceeds` (Blameless), by `CertainInv`: what the current stage needs of
  the old release is still there, however often it was begun, and after the last
  stage what the first comparison of the next update needs is new; within a stage
  what was compared and written so far is as it should be. `Sound` had to say more
  for these two (`Returns`, `Certain`); all six descriptions do.

### 5.5 `SysupgradeProofs`

For images and volumes of any size, any number of cuts and failing tools
(`UpgradeAssumption`):

* `TypeCorrect` (TypeOK): with it, that the volumes always fit the partition;
* `RestartsIntoNew` (OnlyNew), `NothingKept` (Forgets),
* `CutIsHarmless` (StartsAgain), `SettingsAreSafe` (SettingsSurvive): if the image has a
  place for the archive (`Keepable`) and nothing failed, a cut loses the settings only
  while they are in /tmp alone (`Exposed`).

`WayInv` says where a board and an image can lead, `ForgetInv` that everything that
could hold old settings is gone before a new root is written, `CalmInv` what the
volumes and the overlay hold at each place as long as nothing failed, no power was
cut and the image suits the board.

### 5.6 Only model-checked

Liveness (`Termination`, `SettledIsReported`, `Installs`, `Completes`), because
fairness and ENABLED are out of the prover's reach. Everything else that a passing run
checks is a theorem, under conditions that include the run's but in two cases: the run
`mtd_config` has a flag partition smaller than the image's, and `nvram_readers` a value
longer than the partition, which `set` refuses, where `Roomy` wants every value to fit.
Induction over data is out of reach too, and so are RECURSIVE operators, which no
module here declares.

## 6. What the models say about the code

Besides what holds, four disagreements between the code and its own words, each with a
run: `mtd.c:664` (change of partition after a bad block), `mtd.c:585` (a read error is
the end of the image), `gpio-button-hotplug.c:110` (one static buffer for all CPUs),
`nvram.c:302` (variables that do not fit are dropped). A fifth needs no run of its
own: `gpio-button-hotplug.c:615` (an edge between the first sample and the request of
the interrupt is lost) is what `missed` stands for in `Synced`.

Known and without a run, because the repository's text promises nothing about
them:

* `mtd`: `-e` erases before the recovery flag is set; `-p` on NAND looks for bad
  blocks at `e` and erases at `e + part_offset` (`mtd.c:651`, `663`), so that from
  `-p 2` on good blocks are left out (`NoHole` fails); `mtd -f` with an empty image writes
  nothing and returns 0; `-j` ignores the results of its erases and writes and,
  with `-p`, erases another block than it writes; `main` ignores the result of
  `mtd_verify`; the header fixup looks at offset 0 of the partition written last, so
  that after a change of partition, and with `-p`, `mtd` fails although all is stored.
  Fixup of TRX images (`trx.c:248`), boot counter (`linksys_bootcount.c:148`) and FIS
  table (`fis.c:218`, `235`) rewrite one block in place, with the same gap, and are
  not modelled.
* `mtd -j` with `-t`: `mtd_check_open` of the flag partition leaves that partition's size
  in `mtdsize` (`mtd.c:142`), so that `pad` (`jffs2.c:62`) erases and writes bad blocks
  beyond it, and the configuration is lost with exit status 0.
* nvram: two writers lose variables; a list that fills the partition can never be
  opened for writing again; `staging_to_nvram` does not look at the result of its
  write.
* sysupgrade: `mtd -j` may lose the archive and exit 0, after which `common.sh:305`
  reboots into a system without settings; with `-n` and an image without an end marker
  the old ones may stay behind it; `nand.sh:162` removes the kernel volume even when
  the image brings none, and sizes are compared when the old volumes are gone: the
  device does not start, and the message is "sysupgrade successful"; `nand.sh:260`
  drops the results of `mtd`, `ubiupdatevol` and `tar`; `has_env` is 0 always, so that
  the environment volumes are never asked for; `nand_upgrade_ubinized` has no system
  to boot while `ubiformat` runs; the image reaches `mtd` through a pipe of which only
  the last status counts (`common.sh:307`); `stage2:105` gives up when processes do
  not die within ten rounds, after the services were killed, and `common.sh:309`
  leaves the same state when `mtd` fails; `80_mount_root:84` moves the only archive of
  the settings to a tmpfs before it is unpacked and synced. The repository has no
  `platform.sh` for the T113 that would say which way its boards take.
* OTA: in the descriptions of
  `device/config/chips/t113/configs/aw_auto/buildroot/swupdate` and of boards like it,
  `sw-description-recovery:30` clears `swu_mode` where the comment at line 26 says
  `upgrade_kernel`, so that the device stays in the recovery system (the file is not
  `Sound`: `Returns`), and `sw-description-ab-rdiff` names the base of a delta
  `roootfsB`; `build/swupdate/sw-description-ab-rdiff-sign:116` and `124` compare the
  volumes of the running system instead of those just written; on some boards
  (`t113_s3p/configs/evb1_auto`) `now_B_next_A` of `sw-description-ab-rdiff` clears
  `swu_mode` without `swu_next=reboot`. A writer that ends between the look and the
  `dd` of `preinstall_B.sh:4` leaves a plain file that fails every update until the
  next start; the boot loaders, which both systems share, are written before the
  switch (`sw-description-ab-ubi:22`).
* the module of `gpio-button-hotplug` can be unloaded while events are queued
  (`gpio-button-hotplug.c:718`); the result of creating an event is dropped.
* `trelay` (`trelay.c:72`, `133`, `174`), `ead` (`ead.c:592`) and the ubus objects
  (`ubus.c:187`): see 1.3; closing one `remove` file of `trelay` removes every relay
  that is marked.

## 7. What is not modelled

Of `mtd`: `verify`, `dump`, `jffs2write`, `unlock`, the fixup of TRX headers through a
mapping, `imagetag.c`, and the fix commands called alone; the checksums themselves. Of
the buttons: unloading the module while events are queued, and the device tree. Of
nvram: `show` and `info`, several changes in one command, the CRC (the code computes
and never checks it), two writers, a torn partition as input. Of the over-the-air
update: the boot loaders, versions and signatures, the "just clean" entries, and the
descriptions that differ from the six in names only, a writer that fails half way. Of
sysupgrade: the lists of files to keep, `-f`, backup and restore without an image,
`-T`, the boards' own checks of the image, partitions of block devices. The hardware
below the kernel's interfaces is what those interfaces promise: erase, program,
interrupt, timer, page, volume.

By lines most of the repository is out of reach, and the share of it that the
models stand for is small. The bulk is vendored and generated code (`scripts/config`,
`libiconv`, `mklibs`, `elf.h`), host tools that map a file to a file
(`tools/firmware-utils`), and drivers of other chips (Lantiq, GSC, MediaTek): programs
without state over time, or with hardware whose behaviour no source here defines.
What is modelled is the code that decides whether a device still starts.
