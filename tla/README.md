# Formal models of the shadowos volume and filesystem layer

This directory holds TLA+ models of the read-only volume and filesystem layer
that the shadowos bootloader takes from limine. The models are checked with TLC
on small instances and, where the provers reach, proved with TLAPS for every
value of the constants. `PROJECT.json` lists the components, the runs, the
mutants, the map from each definition to the C lines it models, the findings,
the hazards and the theorems.

## The system

The core (spec.md, sections 2 to 4) is a stack of read paths:

| # | Component | Code | Role |
|---|---|---|---|
| C1 | volume byte reader + one-block cache | `src/unnamed/part_001` 19-106 | `volume_read(vol, buf, loc, count)` turns a byte range into cached reads of `fastest_xfer_size` sectors, retrying with fewer sectors after a failure |
| C2 | partition parsers | `part_001` 108-589 | `part_get` tries GPT, then MBR and the EBR chain of logical partitions, and fills in a child volume |
| C3 | volume index | `part_001` 591-642 | linear lookups by GUID, label and coordinate over an append-only array |
| C4 | ISO9660 | `src/limine/common/fs/iso9660.s2.c` | PVD scan, root cache, directory scan with padding, Rock Ridge names, multi-extent files |
| C5 | FAT12/16/32 | `src/unnamed/part_003` (fat32.s2.c) | BPB checks, FAT reads, cluster-chain caching, LFN assembly, path walk, chain reads |
| C6 | dispatch | not under src | tries each filesystem in turn |
| C7 | path normalization | not under src | `get_absolute_path` |

Data flows disk -> C1 -> C2 (children registered in C3) -> C6 -> C4/C5, and
C4/C5 read through C1 again. Everything runs on one thread (spec section 5):
the hard behaviours are not thread interleavings but long sequences of calls
against one shared cache slot, the disk's failures and the retry loop, and
untrusted on-disk data that drives loops (EBR chains, FAT chains, directory
records, extents).

Also under src, and outside the core: the A20 gate routine (`a20.s2.c`),
the COM1 serial driver (`serial.c`), the BIOS exception handler (`part_002`,
prints and panics), and documentation and a launch script. A20 and serial
talk to devices that run on their own (the keyboard controller, the UART),
so these two are where the code meets real concurrency: a device that acts
between two port accesses, or later than the code waits for it.

## What is modelled

### VolumeCache (C1): `VolumeCache.tla`

One volume and its cache, and one caller issuing `volume_read` calls one after
another. The state is the volume's geometry `vol` (chosen once from the
constant set `Volumes`), the cache slot (`cacheStatus`, `cachedBlock`,
`cache`), the position of the running call (`pc`, `loc`, `count`, `progress`),
the retry counter `xfer` of `cache_block` and the caller's buffer `buf`, and
`ok`, the result of the last call.

| Action | Code (part_001) |
|---|---|
| `Call(l, c)` | entry of `volume_read`, 72 |
| `Check` | the range check, 77-85 (`PartSize` is `sect_count * sector_size`, 79) |
| `Finish` | loop exit and `return true`, 90, 105 |
| `CacheHit` | `cache_block` finds the block, 20-21 |
| `CacheMiss` | status dropped, misaligned partition refused, retry loop entered, 23-35 |
| `DiskSuccess`, `DiskNoMedia`, `DiskFailure` | one `disk_read_sectors` call of the retry loop by its outcome, 47-69 |
| `Copy` | the chunk clamped to the block and the `memcpy`, 96-102 |

Units. One unit is 512 bytes: `first_sect` and `sect_count` are in 512-byte
units in the code, `ssize` is `sector_size / 512`, and the caller's `loc` and
`count` are in the same unit. Every division in `volume_read` is by a multiple
of 512, so blocks, hits, misses and chunks fall as they do at byte level.

Data. The unit at disk address `a` holds the value `a`, so a value in the cache
or in the buffer names where it came from, and stale or misplaced data is seen.
`Garbage` is content that came from nowhere in particular.

The disk (`DiskOutcomes`, the contract of `disk_read_sectors` in spec section
6): a read of sectors past the end of the disk fails; an optical drive may
report no medium; and, when the constant `Transient` is TRUE, a read in range
may fail too. A failed read may have written part of the buffer (`Clobber`).

Abstract specification: `VolumeRead.tla` says what a caller may observe
(spec 4.1 and properties 1 and 2): a call either fails, or succeeds with the
buffer holding exactly the volume's units `loc .. loc+count-1`, all of which are
on the disk. The cache does not appear. `VolumeCache` maps to it by hiding the
cache and showing the buffer only when the call has returned.

Left out: the two `__builtin_*_overflow` guards of `cache_block` (39-45), which
cannot fire for the sizes a model can hold and for the sector sizes the spec
allows, and the PXE panic (73-75).

### Partition (C2): `Partition.tla`

One whole disk, and a caller that calls `part_get(volume, index)` for any
index from -1 to `MaxIndex`, in any order and as often as it likes. The state
is:
- the disk image `img`, chosen once from the constant set `Images`;
- the position of the running call (`pc`, `part`) and the parser locals
  (`gi`, `lb`, `eoff`, `ei`, `ext`, `ebr`, `li`);
- the last result of each index (`results`). `ext.cache` records that a
  read through `extended_part` allocated its cache.

An image keeps only what the parsers read:
- the disk size;
- which of sectors 1 and 8 hold `"EFI PART"`;
- the header's revision, entry count, entry size and entry LBA;
- the GPT entries, by offset;
- whether the bytes `is_valid_mbr` tests look like an MBR;
- the four primary entries;
- the EBRs, by sector, each with its link at 0x1ce and its entry at 0x1be.

GPT offsets are counted in 128-byte quanta, so 512- and 4096-byte blocks are
4 and 32 quanta. `ImagesAssumption` says what the parsers read is unsigned:
the MBR's and EBRs' `uint32_t` fields, the header's counts, and the entries'
`uint64_t` LBAs below `Word`. `uint64_t` arithmetic is done modulo `Word` (128 in the
runs), so every overflow check of `gpt_get_part` can fire.

| Action | Code (part_001) |
|---|---|
| `Call(p)` | `part_get`'s negative-index refusal and call of `gpt_get_part`, 572-581 |
| `GptProbe` | one turn of the `lb_guesses` loop, 180-205 |
| `GptTable` | revision, entry count, entry size and the overflow-checked offset, 207-229 |
| `GptEntry` | entry read, zero GUID, reversed range, overflow-checked conversion, the child, 231-301 |
| `MbrValid` | the fallback (582-588) and `is_valid_mbr` (313-357, as `IsValidMbr`) |
| `MbrPrimary` | a primary entry, 522-569 |
| `ExtScan` | one turn of the search for an extended entry, 483-520 |
| `LogicalStart` | the `MAX_LOGICAL_PARTITIONS` limit and the walk's start, 375-386 |
| `EbrStep` | one step of the EBR walk, 387-411 |
| `LogicalEntry` | the logical entry and the child, 413-473 |

Reads of the parent whole disk succeed when the record lies on the disk.
Reads through `extended_part` are also range-checked against its `sect_count`.
A read in range allocates the local volume's cache (`ExtRead`, from
`cache_block` 25-27).

Left out:
- the three `__builtin_add_overflow` checks of `mbr_get_logical_part`
  (425-435), which add `uint32_t` values in `uint64_t` and cannot fire;
- `fs_get_guid` and `fs_get_label` on the child, which are C6 and not under
  src;
- the stale data C1 may serve for a read that straddles the disk end
  (the whole-disk case under Findings): the parsers see such a read as failing.

### Iso9660 (C4): `Iso9660.tla`

The whole of `iso9660.s2.c`. One caller opens a path, reads the handle, and
closes it, on one volume. The state:
- `op` holds the locals of `iso9660_open`: the rest of the path, `first`,
  `current`, the scan position and size of `iso9660_find`, `next_sector` and
  `next_size`, the cursor, count and total of the extent passes, and the
  descriptor index of `iso9660_find_PVD`;
- `ctx` says the context list holds the volume, with its root cached;
- `live` and `ndir` are the allocations: `ret`, the extent array, and the
  directory buffers of the walk;
- `handle` is the open file handle;
- `rd` holds the locals of `iso9660_read`.

Bytes are abstracted. A sector is `Sector` units and a record header
(33 bytes) is `MinRec` units. A directory is a function from offsets to the
length byte there, plus the record that starts there. A name is a word with a
case: `strcmp` compares both, `strcasecmp` the word only. The system use area
of a record is a sequence of SUSP entries `{sig, len, ver}` with their byte
lengths, and `sual` is `entry->length - 33 - filename_size`.

| Definition | Code (iso9660.s2.c) |
|---|---|
| `Open(p)` | signature check, `ret`, `get_context`, 350-374 |
| `PvdStep` | one turn of `iso9660_find_PVD`, 113-135 |
| `CacheRoot` | `iso9660_cache_root` and the rest of a context miss, 137-173 |
| `Walk` | the top of the walk loop: end of path, root refused, trailing slash, 377-395 (and 493-503) |
| `FindPad`, `FindEntry`, `FindEnd` | one iteration of `iso9660_find`, 296-345 |
| `LoadName`, `RRScan`, `IsoName` | `load_name`, 175-254 |
| `PadSkip` | the padding rule of `iso9660_find`, 300-315 |
| `NextEntry` | `iso9660_next_entry`, 258-294 |
| `FindFails` | not found, 407-414 |
| `Descend` | past a directory component, 468-491 |
| `CountExtents`, `FillExtent`, `FillDone` | the two extent passes, 419-465 |
| `Read`, `ReadExtent`, `ReadDone` | `iso9660_read`, 520-548 |
| `Close` | `iso9660_close`, 550-554 |
| `Halt` | `panic`, which stops the machine |

`RRScan` is the loop of `load_name` over the SUSP entries. It is a
recursive function (`scan[i, rem]`), not a RECURSIVE operator, so the proofs
can use the module. `PadSkip` and `NextEntry` are `IF ... ELSE IF` chains in
the order of the code's early returns. (A `CASE` with overlapping arms would
leave the value open where two arms hold.)

`LoadName` abstracts two details of `load_name` that only damaged system-use
areas reach:
- **Clipped names.** A system-use area whose length comes out negative
  (`sual < 0`) gives the name `Clipped`, which matches no path. Lines 235-243
  would instead compare the clamped prefix of the ISO name.
- **Which NM entry.** The scan takes the first valid NM entry and stops.

Only directories of the damaged volume have such areas. `FindIsFirstMatch`
is checked only on well-formed directories, and no other property depends on
these two details.

The constants carry what the code fixes:
- `ImagesAssumption`: a record's extent LBA and size are `uint32_t` and its
  length a `uint8_t`, so all are naturals;
- `ReadReqsAssumption`: `iso9660_read` takes a `uint64_t` location and count;
- `ExtentCapAssumption`: `ISO9660_MAX_EXTENT_COUNT` (65536) is at least 2. The
  first pass checks the count after raising it, so a cap of 1 would still
  count two extents.

Left out:
- the 254-character component limit and the 256-byte name limit, which are
  panics on name lengths that the model does not carry;
- more than one volume in the context list, which is a lookup by pointer.

The model has references to compare with the code. They come from the
directory's layout, not from the code:
- `FirstMatch` is the first record, in directory order, whose name decodes
  (spec 4.4) to the component;
- `RefExtents` is the records that follow a match while they carry the
  multi-extent flag.

The flag `wf` marks a directory laid out as ECMA-119 does: records back to
back from each sector's start, and zeros to the sector's end. The references
apply only to such directories.

### A20 (`A20.tla`)

`a20_enable` (a20.s2.c:46-90) against a machine. The line is open when a gate
is: the BIOS's, bit 1 of the keyboard controller's output port (when that port
drives the line: `hw.wired`), or bit 1 of port 0x92 (when it exists). The
keyboard controller (KBC) is a device of its own: `KbcConsume` takes the byte
in its input buffer whenever it likes. 0xad and 0xae disable and enable the
keyboard, 0xd0 puts the output port in the output buffer, and 0xd1 makes the
next data byte the output port, where a 0 in bit 0 resets the CPU.

| Action | Code |
|---|---|
| `Start` | 47-48, the first `a20_check` |
| `BiosMethod` | 50-56, int 0x15 ax = 0x2401 and the check |
| `KbcStep` | 58-71: one statement of `KbcProg` per step; a wait is one poll (`Poll`, a20_kbc_wait 12-18), and its last failing poll goes to `kbc_failed` |
| `KbcCheck` | 73-76 |
| `FastA20` | 78-89: port 0x92, bit 0 cleared, bit 1 set, the last check |

`A20Check` keeps both comparisons of `a20_check` (20-41) against the word at
0x107dfe (`hw.hi`). The other memory is left out: the word at 0x7dfe is
restored on every path. The KBC gets no fairness, because its speed is
not bounded: a wait can time out on a slow controller as well as on a missing
one (status 0xff). `Timeout = 2` polls, so the KBC can answer before the
first poll, before the second, or after the wait gave up. The CPU is weakly
fair.

### Serial (`Serial.tla`)

`serial.c` against a 16550 UART. The registers are a record. `OutReg` is the
`outb` to `0x3f8 + off`: offsets 0 and 1 are the divisor latch while DLAB
(bit 7 of the line control register) is set, and the holding and interrupt
enable registers otherwise.
- `SerialOut(c)` is lines 33-34. `serial_initialise` (11-31) is the whole
  `Initialise`: `InitRegs` applies the nine `outb`s of lines 17-28 in order,
  one `OutReg` per line, with the divisor `(uint16_t)(115200 / serial_baudrate)`.
- `Spin` and `SerialOutWrite` are the wait on the transmit-empty bit and the
  write (36-37).
- `SerialIn` is lines 40-47.
- `Transmit` and `Receive` are the UART's transmitter and receiver. The
  transmitter is weakly fair, because a UART drains its holding register at
  its rate.

## Runs

| Run | cfg | Expect | Checks | Shows |
|---|---|---|---|---|
| volume_cache | `MCVolumeCache.cfg` | pass | `TypeOK`, `CacheCoherent`, `ReadTransparent`, `CallReturns` | on a disk without transient errors the cache is coherent, every call returns, and `volume_read` implements `VolumeRead` |
| transient_retry | `MCVolumeCacheTransient.cfg` | violation | `ReadTransparent` | a shortened retry marks a whole block cached |
| native_4k_bounds | `MCVolumeCacheNative4K.cfg` | violation | `ReadWithinVolume` | the range check is eight times too lax on 4096-byte sectors |
| partition | `MCPartition.cfg` | pass | `TypeOK`, `ChildExact`, `LogicalDistinct` | over eleven images, GPT children are exact and non-empty, the walk stays under its limit, and no EBR is named twice |
| gpt_overflow_fallback | `MCPartitionOverflow.cfg` | violation | `OverflowInvalid` | an overflowing GPT falls back to its protective MBR |
| iso9660 | `MCIso9660.cfg` | pass | `TypeOK`, `FindIsFirstMatch`, `ReadConcat`, `NoLeak`, `CallReturns` | lookups find the first matching record, reads return the concatenated extents, nothing leaks, and every call returns or panics |
| odd_directory | `MCIso9660Odd.cfg` | violation | `FindIsFirstMatch` | in a directory that is not whole sectors, the padding skip misses the next sector (spec S4) |
| multi_extent_tail | `MCIso9660Tail.cfg` | violation | `RecordsInBuffer` | `iso9660_next_entry` hands the extent passes a record cut by the buffer's end |
| a20 | `MCA20.cfg` | pass | `TypeOK`, `NoReset`, `ResultAccurate`, `EnableReturns` | on 64 machines with a controller of any speed, `a20_enable` never resets the machine, returns, and says truly whether the line is open |
| a20_pending_key | `MCA20Key.cfg` | violation | `NoReset` | a key pending before the call is read as the output port and written back; Enter (0x1c) resets the machine |
| serial | `MCSerial.cfg` | pass | `DivisorProgrammed`, `StreamsInOrder`, `OutReturns` | at 115200, 38400 and 9600 baud the divisor is as computed, bytes pass once and in order both ways, and `serial_out` returns |
| serial_low_baud | `MCSerialLow.cfg` | violation | `DivisorProgrammed` | at 300 baud line 25 clears the divisor's high byte |

Bounds. `MaxLoc = 8`, `MaxCount = 4`, and four volumes in `MCVolumes`:
- A partition of 512-byte sectors with a block of three sectors. It ends at the
  end of its disk, so its last block runs past the disk and the retry loop
  shrinks the transfer until it fits.
- A partition of 1024-byte sectors with a block of two, on an optical drive that
  may report no medium.
- A misaligned partition.
- A partition whose table entry runs past the disk, so that the retry loop gives
  up at zero sectors.

With a count up to four and a loc up to eight, reads span two blocks, reuse the
cached block, replace it, and run into the end of the disk. Every action fires,
including each outcome of the disk read. The transient run uses the same four
volumes on a disk that may also fail a read in range; the 4096-byte run uses
one GPT partition of 4096-byte sectors.

Partition bounds. `Word = 128`, `MaxLogical = 3`, `MaxIndex = 7`, and the
eleven images of `MCPartition`:
- GPTs of both block sizes, with an entry whose `size + 1` wraps, one whose
  first sector overflows, an empty slot, a reversed range, and entries past the
  disk and past `Word`.
- MBRs whose EBR chains go forward (0, 2, 3, 5), loop (0, 3, 3), point back to
  0, or leave the extended partition or the disk.
- A disk too small for `is_valid_mbr`, and a superfloppy.

Index 7 reaches the limit on logical partitions, and the chain 0, 2, 3, 5 is
long enough that a walk without that limit takes a fourth step. The
caller's calls are unordered, so results for all indices are compared within
one image.

Iso9660 bounds. `Sector = 8` units and `MinRec = 2`, so a sector holds two
to four records. `MaxDesc = 3`, `MaxDir = 16` (two sectors) and
`MaxExtents = 3`. `MCIso9660` has these volumes:
- **A good volume.** The root spans two sectors. It holds `README.TXT;1` with
  the Rock Ridge name `readme`, in two extents on either side of sector
  padding. It also holds the directory `BOOT`, whose first sector is empty, and
  `KERNEL.;1` without Rock Ridge.
- **A damaged volume.** Its directories have:
  - a record shorter than a header;
  - a record longer than the rest of the buffer;
  - a size of 12 units;
  - size 0;
  - a place past the volume.

  It also has damaged Rock Ridge areas: a version-2 entry, an overlong entry,
  an NM of length 5, a zero-length entry, a pad byte with nothing after it, and
  a clipped name. Finally, it has a file of four extents (one over the cap) and
  a file past the volume.
- **Six volumes that fail before the walk.** No `CD001`, a terminator, the
  descriptor limit, a descriptor past the volume, a root of size 0, and a root
  past the volume.

The 20 paths include:
- Rock Ridge names in both cases;
- a path through a file used as a directory;
- trailing slashes on a directory and on a file;
- `/` alone.

The read requests are `<<0, 7>>`, `<<2, 3>>` (across an extent boundary),
`<<5, 9>>` (past the end) and `<<0, 0>>`. Opens repeat within a behaviour,
so the second open uses the cached context.

Each padding case happens:
- `BOOT`'s empty first sector, with whole sectors left, forces the move by
  one sector;
- the padding after `README` in the root moves to the next sector by
  aligning the size;
- in the 12-unit directory the same alignment lands inside the first sector.

A two-unit header is enough for a record to start one unit before the end of
the buffer, which is what the `multi_extent_tail` run needs.

Fairness. `Spec` has weak fairness on `Internal`, the steps of a running call.
The code justifies it: `volume_read` is synchronous and `disk_read_sectors`
returns (spec section 5). Nothing forces the caller to call again.

Properties:
- `CacheCoherent`: a READY cache holds the units of its block wherever the disk
  has them.
- `ReadTransparent`: `VolumeCache` implements `VolumeRead` under the refinement
  mapping.
- `CallReturns`: every call returns.
- `ReadWithinVolume`: a successful call reads no unit past `sect_count`. It is
  checked only by its violation run.

Iso9660's `Spec` has weak fairness on `Step`, the steps of a running
`iso9660_open` or `iso9660_read`. The driver runs alone on the boot CPU, and
its only waits are `volume_read` calls, which return (C1). Open, read and
close by the caller are not fair.
- `FindIsFirstMatch`: in a well-formed directory, `iso9660_find` returns the
  first record in directory order whose decoded name matches, and NULL when
  none does (spec 4.4, property 7, S4). This needs the padding rule, the
  Rock Ridge scan and the case rules to agree.
- `ReadConcat`: a read within the file's size returns the units of its
  extents, as the directory lays them out, concatenated (spec property 6).
  This needs both extent passes, the padding skip of `iso9660_next_entry`
  and the offset arithmetic of `iso9660_read` to agree.
- `NoLeak`: once `iso9660_open` returns, by any of its six exits, no walk
  buffer is allocated, the root was never freed, and `ret` and the extents
  are allocated exactly while a handle is open.
- `CallReturns`: every open and read returns or panics.
- `TypeOK`: also says the scan of `iso9660_find` stays within its buffer.
- `RecordsInBuffer`: the extent passes read only records whose header lies in
  the buffer. It is checked only by its violation run.

A20 bounds. `MCMachines` has the 64 machines with no key pending: the line
open or not at entry, a controller or none, wired or not, BIOS support or not,
port 0x92 or not, and the word at 0x107dfe 0 or 0x1234. Every method is
reached, both as the one that succeeds and as one that fails. With the
machines that have no controller, every wait times out. The violation runs
each use one machine: a controller with Enter (0x1c) pending, and a
controller with port 0x92 and no BIOS support.

A20 properties:
- `NoReset`: no byte that `a20_enable` makes the controller or port 0x92
  latch resets the CPU.
- `ResultAccurate`: an action property. On the step where `a20_enable`
  returns, its result equals whether the line is open.
- `EnableReturns`: `a20_enable` returns under weak fairness of the CPU alone.

Serial bounds. Bytes {1, 2}, with up to three sent and three received, so that
a second `serial_out` meets a full holding register and `serial_in` meets both
an empty and a non-empty FIFO. The rates 115200, 38400 and 9600 have divisors
1, 3 and 12. 300 (divisor 0x180) is the violation run's.

Serial properties:
- `DivisorProgrammed`: after initialisation the divisor latch holds
  `115200 / serial_baudrate`, DLAB is clear and interrupts are off.
- `StreamsInOrder`: the bytes on the line, in the holding register and
  pending in `serial_out` are exactly the bytes sent, in order, and the bytes
  `serial_in` returned followed by the FIFO are exactly those received.
- `OutReturns`: `serial_out` returns.

Partition's `Spec` has no fairness and no liveness property: every loop of
`part_get` is a counted `for`.
- `ChildExact`: every child is non-empty, and a GPT child spans exactly the
  blocks its entry names, with no wrap-around.
- `LogicalDistinct`: two logical partition numbers never name the same EBR.
  This takes two calls on a corrupt chain to violate.
- `TypeOK` includes `li < MAX_LOGICAL_PARTITIONS`.
- `OverflowInvalid` (spec S5) is checked only by its violation run.

## Findings

Each finding below is the violation of a run.

1. `cache_block` (part_001:59-67). After a failed read, the retry with
   `xfer_size - 1` sectors marks the whole block READY. The cache's tail keeps
   what it held before, and `volume_read` copies it out and returns true. This
   needs a disk that fails a read in range. The spec's error taxonomy calls
   that a transient error and has it retried.
2. part_001:79 multiplies `sect_count` (512-byte units, spec section 3;
   `gpt_get_part` computes it as blocks times `lb_size/512`) by `sector_size`
   in bytes. On 4096-byte sectors a read up to eight times past the partition
   succeeds.
3. `part_get` (part_001:583). An overflowing GPT entry offset returns
   INVALID_TABLE from `gpt_get_part`, and `part_get` then falls back to the MBR.
   A GPT disk's protective MBR passes `is_valid_mbr`, so index 0 returns OK
   with the protective partition. Spec S5 expects INVALID_TABLE.
4. `iso9660_find` (iso9660.s2.c:304). On a zero length byte, the scan aligns
   the remaining size down and moves by the difference. That reaches the next
   sector only when the directory size is a multiple of 2048. In a directory of
   2048 + k bytes, a record at 2048 is not found. Spec 4.4 and S4 say the scan
   continues at the next 2048-byte boundary. `iso9660_next_entry` aligns the
   address and gets it right. ECMA-119 directories are whole sectors, so only a
   damaged size meets this.
5. `iso9660_next_entry` (iso9660.s2.c:274). It checks that the next record
   starts before `buffer_end` and is at least 33 bytes long, but not that those
   33 bytes are inside the buffer. The extent passes of `iso9660_open` then read
   `extent`, `extent_size` and `flags` past the directory buffer.
   `iso9660_find` refuses the same record (`entry->length > size`).
6. `a20_enable` (a20.s2.c:64). After 0xd0 the code waits for a full output
   buffer and reads port 0x60. It never drains a byte that was already there,
   so a key pressed before the call is taken as the output port. `b | 2` is
   then written back as the new output port. An even scancode clears bit 0,
   the reset line, and the real output-port byte is left in the buffer for the
   keyboard driver.
7. `serial_initialise` (serial.c:25). `outb(0x3f8 + 1, 0x00)` runs while DLAB
   is still set (line 19), so it overwrites the divisor's high byte instead of
   the interrupt enable register. Every rate below 450 baud is wrong: 300
   baud runs at 900.

Also found in the code. The models can express each of these, but no run checks them:

- A whole-disk volume (`sect_count == -1`, part_001:77) is not range-checked.
  Its last block straddles the disk end, the same retry shortens the read, and
  units past the end are served from the stale cache with `true`.
- `part_get` (part_001:436, 263-279, 554-559). No parser compares a child with
  its parent, so a table entry past the disk yields a child past the disk
  (spec property 4). `partition_end` is computed and never used.
- `mbr_get_part` (part_001:499, 26). The stack-local `extended_part` gets a
  cache from `cache_block` on its first read, and nothing frees it. Every
  lookup of a logical partition leaks one block (spec section 7: no
  allocation leaks).
- `a20_enable` (a20.s2.c:61). A wait that runs out jumps to `kbc_failed`
  whatever the sequence has sent. When the controller takes 0xad after the
  wait gave up, the keyboard stays disabled, because 0xae is never sent. The
  comment at line 58 means the timeout for systems without a controller.

## Proofs

`VolumeCacheProofs.tla` proves, for every set of geometries satisfying
`VolumesAssumption` and every bound:

- `TypeCorrect`: `Spec => []TypeOK`. The invariant `TypeOK` is not inductive as
  it stands. Its strengthening `TypeInv` adds two facts:
  - while a disk read is pending, `xfer` is at least one (the loop gives up
    before reaching zero);
  - while a read or a copy is pending, `progress < count` (the chunk is then a
    natural number).
- `CacheCoherence`: under `~Transient`, `Spec => []CacheCoherent`. The inductive
  invariant `CohInv` adds `RetryInv` to `TypeInv`:
  - the cache is NOT_READY while the retry loop runs, so a failed read that
    scribbles over the buffer breaks nothing;
  - the loop asks for fewer than `fastest_xfer_size` sectors only after the
    longer read ran past the end of the disk.

  With these two facts, a shortened successful read covers every unit of the
  block that lies on the disk. The arithmetic of that step is the lemma
  `FillTail`.

The proof is laid out so that each leaf uses one prover for one thing:
- Zenon reads an action's effect on the variables off its definition, and
  handles the Boolean result `ok` (lemma `OkBoolean`).
- SMT does the arithmetic, from the few facts a step cites.
- `BlockSize` is kept opaque, except where a step needs its product: the
  nonlinear product makes SMT time out.

`VolumeCacheRefinement.tla` proves that the cache implements the abstract read
(`ReadTransparentCorrect`, `Spec => ReadTransparent`, where `ReadTransparent`
is `VolumeRead`'s specification under the refinement mapping of
`VolumeCache.tla`). It has two hypotheses:
- `~Transient`, because finding 1 shows that the theorem fails without it;
- `VolumesOnDisk`: every volume has a known size (`sect_count # -1`) and lies
  on its disk. The run limit leaves no run for the case where this fails, but
  TLC finds `ReadTransparent` violated for the volume
  `[first |-> 1, count |-> -1, ssize |-> 1, xfer |-> 3, disk |-> 8]`. Its last
  block straddles the disk end, the retry shortens the read, and units past
  the end come from the stale cache (the whole-disk note under Findings). The
  hypothesis is what the code would need a range check to establish; it is
  not a convenience.

The inductive invariant `TransInv` adds `BufInv` to `CohInv`:
- the start of a volume is aligned to its sector whenever a read or a READY
  cache depends on it;
- a copy happens only from a READY cache of the current block;
- `Copied`: the first `progress` units of `buf` are the disk's units from
  `first + loc`, and the request ends on the disk.

The arithmetic core is the lemma `BlockAddr`. It states that the cache unit
`CurOffset + j` of `CurBlock` is the disk unit `first + loc + progress + j`.
It is proved from `DivMod` (`f % s = f - (f \div s) * s`), because Z3 does
not find the division identity for a symbolic divisor by itself. Each step of
the cache maps to a stutter or to the abstract call, copy or return: the
lemmas `InternalStutter`, `FailComplete`, `FinishComplete` and `RefineStep`.

`A20Proofs.tla` proves, for every set of machines satisfying
`MachinesAssumption` and every `Timeout`:
- `A20TypeCorrect`: `Spec => []TypeOK`, through `TypeInv`.
- `NoResetCorrect`: under `NoKeyPending` (no machine has a key waiting in the
  output buffer when `a20_enable` starts), `Spec => []NoReset`. The
  `a20_pending_key` run shows that the hypothesis is needed: it is finding 6.
  The inductive invariant `SafeInv` adds these facts:
  - the output port has bit 0 set;
  - any byte in the output buffer, and any data byte on its way to port 0x60,
    has bit 0 set;
  - on a machine without a controller, the sequence never gets past its
    first statement;
  - once `KbcProg` has read the output buffer, the byte it read (`b`) has
    bit 0 set, so `b | 2` does too.
- `ResultAccurateCorrect`: `Spec => ResultAccurate` (an action property).
  The lemma `CheckExact` shows that `a20_check`'s two comparisons return
  exactly whether the line is open, whatever the word at 0x107dfe holds
  (it cannot be both 0x1234 and 0xedcb). `ResInv` adds that the input buffer
  is empty and the line closed before the BIOS method runs.

`SerialProofs.tla` proves, for every set of rates, bytes and call bound:
- `DivisorCorrect`: under `LowDivisors` (every rate gives a divisor below 256,
  i.e. rates of 452 baud and up), `Spec => []DivisorProgrammed`. The
  `serial_low_baud` run shows that the hypothesis is needed: it is finding 7.
- `StreamsCorrect`: `Spec => []StreamsInOrder`, through `SeqInv`. In order, the bytes on the line, the byte in the
  holding register and the byte pending in `serial_out` are exactly the bytes
  passed to `serial_out`; the bytes `serial_in` returned, followed by the
  FIFO, are exactly the bytes received. `SeqInv` adds only the types of the
  sequences and the pending byte.

`PartitionProofs.tla` proves, for every set of images satisfying
`ImagesAssumption` and every `Word`, `MaxIndex` and `MaxLogical`:
- `PartitionTypeCorrect` (`Spec => []TypeOK`) and `ChildExactCorrect`
  (`Spec => []ChildExact`), through one inductive invariant `PartInv`. Beyond
  the two properties, it says:
  - a call under way has an index in `0 .. MaxIndex`: at most 3 on the
    primary path and above 3 on the extended one;
  - the EBR walk stops at its index, and the `MAX_LOGICAL_PARTITIONS` check
    keeps that index below the cap;
  - the header probe tries 4096-byte blocks only after the 512-byte guess
    failed. So the block size it settles on is `GptLb`, the one `ChildExact`
    converts with.

  The lemma `ModSmall` (a value below `Word` is its own remainder) carries the
  overflow-checked conversions. There is one step lemma per action.
- `LogicalDistinctCorrect`: `Spec => []LogicalDistinct`. Its inductive
  invariant `DistInv` says that the walk under way, and every logical
  result, sit on the chain of EBRs at the step their index names.
  - "On the chain" (`OnChain(n, s)`) is stated over the set `Walks(n)` of all
    sequences of n link steps from sector 0. The walks exist, all end at `s`,
    and all move strictly forward.
  - Each `EbrStep` extends every walk by one link that the code's order check
    has just compared (`ChainExtend`). So the proof needs induction over time
    only, never over the length of the chain.
  - Two results at different indices sit at different steps of one strictly
    increasing walk (`ChainDistinct`), so their sectors differ.

  Before the proof, TLC checked `DistInv` on the states of the partition run,
  with `Walks` limited to sequences of link targets (the same set there).
  Likewise it checked `LeakInv` and `TypeInv` below on the states of the
  iso9660 run.

`Iso9660Proofs.tla` proves, for every set of volumes and paths satisfying
`ImagesAssumption`, `ReadReqsAssumption` and `ExtentCapAssumption`:
- `NoLeakCorrect`: `Spec => []NoLeak`, through `LeakInv`. Inside
  `iso9660_open`, `live` is exactly `{ret}` and `ndir` is 0 before the first
  descent and 1 after it. `FreeCurrent` therefore frees exactly the walk's
  own buffer and never the cached root (lemma `FreeNone`). Three lemmas cover
  the three shapes of step: a NULL return (`NullReturn`), a handle return
  (`HandleReturn`), and a step inside open (`OpenStep`). Every action is an
  instance of one of them.
- `IsoTypeCorrect`: `Spec => []TypeOK`, through `LeakInv` and `TypeInv`.
  - `TypeInv` adds the fields the walk computes with, and that the extent
    array stays empty until the second pass.
  - It also adds that the count stays below the cap during the first pass.
    With `ExtentCapAssumption`, this is what keeps `op.cnt` within the cap.
  - The lemmas: `PadFacts` (a padding step keeps position plus size left),
    `RecFacts` (any record or length byte read is unsigned) and `UnitsFacts`
    (an extent's units are naturals). In `iso9660_read`, the offset into an
    extent lies within the extent, so the count read lies between 0 and
    what is left.

Only TLC checks the following, and why:
- Liveness: `CallReturns` (VolumeCache, Iso9660), `EnableReturns` (A20) and
  `OutReturns` (Serial). They hold under fairness and need ENABLED, which
  the provers do not handle.
- `Iso9660`'s `FindIsFirstMatch` and `ReadConcat`. They relate the scan to
  the first match in directory order (`SelectInSeq`), and the output to the
  concatenation of the extents (`FlattenSeq`). Proving either needs
  induction over sequences, with an operator as the induction's parameter,
  which the installed provers cannot instantiate.
- `ReadWithinVolume`, `OverflowInvalid` and the other properties of runs
  that expect a violation. Those runs show that the properties fail.

## Plan

The components are modelled in this order:

1. **C2 `Partition`** is modelled and its three invariants are proved
   (above). Still to do: `gpt_get_guid` and `mbr_get_id`, when C3 needs them.
2. **C5 `FatChain`.**
   - `read_cluster_from_map` (FAT12 nibble packing, masks) as operators,
     checked against a reference.
   - The two passes of `cache_cluster_chain` as actions, checked against a
     reference chain (recursive, TLC only): termination on cycles, and the cap
     at exactly `max_clusters`.
   - `read_cluster_chain` composed with `VolumeCache`: a file read through its
     chain returns the concatenation of its clusters.
3. **C4** is modelled (above). Still to do:
   - compose it with `VolumeCache`, so that directory and data reads go
     through C1 and its stale-tail findings reach the filesystem;
   - the spec's open question: a continuation record beyond the root buffer.
     The model already truncates the chain there (`InBuffer`). A property
     needs the intended file to be known beyond the buffer.
4. **C3** lookups as operators over the sequence of volumes that C2 produces.
5. **Proofs.** The safety invariants of C5 that are not about recursion,
   as for C2 and C4.

## Not modelled

- C6 and C7 are not under src.
- In C4, the Rock Ridge area is a sequence of entries, not bytes. The bound
  checks of the scan are modelled and exercised, but no property can tell a
  read past the area from a read inside it.
- The exception handler only formats a message and panics.
- In A20, the rest of memory and what callers do with a false result are left
  out. A data byte that the controller takes after `a20_enable` returned can
  open the line later.
- In serial: a missing UART (reads 0xff, so bytes vanish), serial output
  switched off, and the rates 0, 1 and above 115200. Those rates divide by
  zero, truncate or give divisor 0. They come from the configuration parser,
  which is not under src.
- Logging, panics' messages, allocation sizes and string formatting are left
  out everywhere. No property is about them.
