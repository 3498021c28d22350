--------------------------- MODULE MCVolumeCache ---------------------------
(***************************************************************************)
(* Small instances of VolumeCache for TLC.                                 *)
(***************************************************************************)
EXTENDS VolumeCache

(* Four volumes, in 512-byte units:                                        *)
(*  - an MBR partition of 512-byte sectors that ends at the end of its     *)
(*    disk, so that its last block of three sectors runs past the disk;    *)
(*  - a partition of 1024-byte sectors (two units) with room behind it, on *)
(*    an optical drive whose medium may be gone;                           *)
(*  - a partition of 1024-byte sectors that does not start on a sector;    *)
(*  - a partition whose table entry claims two sectors past the disk.      *)
MCVolumes ==
    { [first |-> 1, count |-> 7, ssize |-> 1, xfer |-> 3, optical |-> FALSE,
       disk |-> 8],
      [first |-> 2, count |-> 4, ssize |-> 2, xfer |-> 2, optical |-> TRUE,
       disk |-> 8],
      [first |-> 3, count |-> 4, ssize |-> 2, xfer |-> 1, optical |-> FALSE,
       disk |-> 8],
      [first |-> 4, count |-> 4, ssize |-> 1, xfer |-> 1, optical |-> FALSE,
       disk |-> 6] }

(* A GPT partition on a disk of 4096-byte sectors (eight units), one      *)
(* native sector long (sect_count = 8 units) and followed by other data.  *)
MCNative4K ==
    { [first |-> 8, count |-> 8, ssize |-> 8, xfer |-> 1, optical |-> FALSE,
       disk |-> 4] }
=============================================================================
