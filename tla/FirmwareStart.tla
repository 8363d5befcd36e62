--------------------------- MODULE FirmwareStart ---------------------------
(***************************************************************************)
(* The command that starts a firmware update (command 19): how             *)
(* internal/protocol builds and validates it, and the two debug handlers   *)
(* that do so.  It announces a file's size and the number of blocks it     *)
(* comes in; sizes are 32-bit and counts 16-bit unsigned integers.         *)
(***************************************************************************)
EXTENDS Integers

CONSTANTS
  Block,     \* bytes of a block, 1024 in the code
  MaxCount,  \* the largest count, 0xFFFF in the code
  MaxSize,   \* sizes are below this, 2^32 in the code
  NoStart    \* the command is refused

VARIABLES
  via,    \* the handler that was called last
  asked,  \* what it was given
  start   \* the command it built or accepted

firmwareVars == <<via, asked, start>>

\* A file of the most blocks that can be counted is far from the largest size.
ASSUME FirmwareAssumption ==
  /\ Block \in Nat \ {0}
  /\ MaxCount \in Nat \ {0}
  /\ MaxSize \in Nat
  /\ Block * MaxCount + Block <= MaxSize

\* Of the firmware number and the checksum only whether they are zero matters.
Starts == [fw: {0, 1}, size: 0..(MaxSize - 1), crc: {0, 1}, count: 0..MaxCount]

ASSUME NoStartAssumption == NoStart \notin Starts

\* Mutant of FWBlockCountForSize: the last, partial block is not counted.
FWBlockCountForSizeDown(size) ==
  IF size \div Block > MaxCount THEN MaxCount ELSE size \div Block

FWBlockCountForSize(size) ==
  LET blocks == ((size + Block - 1) % MaxSize) \div Block
  IN  CASE size = 0 -> 0
        [] size # 0 /\ blocks > MaxCount -> MaxCount
        [] OTHER -> blocks

\* ValidateServerCommandPayload for command 19.
Valid(p) ==
  /\ p.fw # 0 /\ p.size # 0 /\ p.crc # 0 /\ p.count # 0
  /\ p.count = FWBlockCountForSize(p.size)

\* Cmd19StartFWPayload.Build works out a count that is left zero.
Filled(p) ==
  [p EXCEPT !.count = IF @ = 0 THEN FWBlockCountForSize(p.size) ELSE @]

Build(p) ==
  IF /\ p.size # 0 /\ p.crc # 0
     /\ Filled(p).count = FWBlockCountForSize(p.size)
     /\ Valid(Filled(p))
  THEN Filled(p) ELSE NoStart

-----------------------------------------------------------------------------
FirmwareInit == via = "none" /\ asked = NoStart /\ start = NoStart

\* debugBuildCommandHandler builds the command from its fields.
BuildStart ==
  \E p \in Starts : via' = "build" /\ asked' = p /\ start' = Build(p)

\* debugEnqueueHandler takes the command as it is, if it is valid.
EnqueueStart ==
  \E p \in Starts :
    /\ via' = "enqueue" /\ asked' = p
    /\ start' = IF Valid(p) THEN p ELSE NoStart

FirmwareNext == BuildStart \/ EnqueueStart

FirmwareSpec == FirmwareInit /\ [][FirmwareNext]_firmwareVars

-----------------------------------------------------------------------------
\* Properties

\* The announced blocks hold the file and none of them is empty.
Covers(p) == (p.count - 1) * Block < p.size /\ p.size <= p.count * Block

\* Whichever handler accepted it, a start command announces exactly the blocks
\* that its file fills, if there are that many numbers: the rounding of
\* FWBlockCountForSize neither drops the last block nor adds one.
BlocksCover ==
  start # NoStart /\ start.size <= Block * MaxCount => Covers(start)

\* Build works out the count of every file whose blocks can be counted, at both
\* ends of the range: what it fills in passes its own checks and the validator's.
SizeAnnounced ==
  via = "build" /\ asked.fw # 0 /\ asked.crc # 0 /\ asked.count = 0
    /\ asked.size \in 1..(Block * MaxCount) => start # NoStart

\* The protocol's description has sizes up to 4294967295, cut into blocks of 1024
\* bytes: every accepted start announces the blocks of its file.  Beyond
\* Block * MaxCount bytes FWBlockCountForSize answers with the largest count.
EveryFileCovered == start # NoStart => Covers(start)
=============================================================================
