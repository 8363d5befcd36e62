------------------------------ MODULE Payloads ------------------------------
(***************************************************************************)
(* How internal/protocol lays out the payloads of the commands that are    *)
(* sent to a controller, and how ValidateServerCommandPayload reads them   *)
(* back.  A value is given as its bytes: numbers come little endian, flags *)
(* as 0 or 1, text as its characters.  Offsets count from 0, as in the     *)
(* code.  Command 19 is in FirmwareStart, with its sizes scaled down; here *)
(* is where its numbers are put.                                           *)
(***************************************************************************)
EXTENDS FirmwareStart, Sequences, FiniteSetsExt, Functions, TLC

VARIABLES
  request,  \* the last builder called, and its fields
  payload   \* the bytes it returned, or that it failed

payloadVars == <<request, payload>>

Field(n, at, len) == [name |-> n, at |-> at, len |-> len, text |-> FALSE]
Text(n, at, len)  == [name |-> n, at |-> at, len |-> len, text |-> TRUE]

-----------------------------------------------------------------------------
\* Where the Build methods put their fields

Cmd1RegistrationAckPayload ==
  <<Field("ExecutionCode", 0, 1), Field("ServerTime", 1, 4)>>

\* Commands 2 and 3.
Cmd2RebootPayload == <<Field("TimeoutSec", 0, 1)>>
Cmd3FactoryResetPayload == <<Field("TimeoutSec", 0, 1)>>

\* The eight flags are numbered here, not named.
Cmd5TriggerStructuredPayload ==
  [i \in 1..8 |-> Field("Flag" \o ToString(i), i - 1, 1)]
    \o <<Field("Reserve", 8, 8)>>

Cmd6CaptureIDPayload ==
  <<Field("CaptureTimeout", 0, 1), Field("Interface", 1, 1),
    Field("NetworkAddress", 2, 1)>>

Cmd7PhotoRequestPayload == <<Field("CameraAddress", 0, 1)>>

Cmd8OutputControlPayload ==
  <<Field("SourceID", 0, 1), Field("Output1", 1, 1), Field("Output2", 2, 1)>>

Cmd11SendSMSPayload == <<Text("Phone10", 0, 10), Text("Message", 10, 50)>>

\* A relay: eight flags and three more bytes.
Relay(n, base) ==
  <<Field(n \o "Flags", base, 8), Field(n \o "ImpulseSec", base + 8, 1),
    Field(n \o "PauseSec", base + 9, 1), Field(n \o "Repeats", base + 10, 1)>>

\* The eight pairs of address and type of the peripherals are one field.
Cmd12SettingsRecord ==
  <<Field("PINCode", 0, 4), Text("Server1", 4, 32), Text("Server2", 36, 32),
    Text("NTPServer", 68, 32), Text("Operator", 100, 32),
    Field("NetworkType", 132, 1), Text("CountryCode", 133, 8),
    Text("SimPhone", 141, 16), Text("USSD", 157, 8),
    Field("AutoRebootHour", 165, 1), Field("ExtendedDebug", 166, 1),
    Field("UseVoLTE", 167, 1), Field("Interface485Active", 168, 1),
    Field("NTPEnabled", 169, 1), Field("WiegandType", 174, 1),
    Field("Peripherals", 175, 16)>>
  \o Relay("Relay1", 191) \o Relay("Relay2", 202)
  \o <<Field("Input1Function", 213, 1), Field("Input2Function", 214, 1),
       Field("ReserveA", 215, 292), Field("ReserveB", 507, 101)>>

\* Mutant of Cmd13IDRecord: the group is put one byte too low.
Cmd13IDRecordLow ==
  <<Field("SlotIndex", 0, 2), Text("ID", 2, 10), Field("Group", 11, 1),
    Field("BanDate", 13, 4), Field("LifetimeMinutes", 17, 2),
    Field("IDType", 19, 1), Field("Reserve", 20, 12)>>

Cmd13IDRecord ==
  <<Field("SlotIndex", 0, 2), Text("ID", 2, 10), Field("Group", 12, 1),
    Field("BanDate", 13, 4), Field("LifetimeMinutes", 17, 2),
    Field("IDType", 19, 1), Field("Reserve", 20, 12)>>

Cmd14ScheduleRecord ==
  <<Field("Slot", 0, 1), Field("StartHour", 1, 1), Field("StartMinute", 2, 1),
    Field("EndHour", 3, 1), Field("EndMinute", 4, 1), Field("Flags", 5, 8),
    Field("Scenes", 13, 8), Field("HolidayLogic", 21, 1),
    Field("Reserve", 22, 10)>>

Cmd15GroupRecord ==
  <<Field("Slot", 0, 1), Field("Schedule", 1, 1), Field("Permissions", 2, 8),
    Field("Reserve", 10, 6)>>

Cmd16SyncHolidayPayload == <<Field("Day", 0, 4)>>

Cmd18CRCBlockPayload == <<Field("Block", 0, 1)>>

Cmd19StartFWPayload ==
  <<Field("FirmwareNumber", 0, 2), Field("BuildTimestamp", 2, 4),
    Field("FileSize", 6, 4), Field("FileCRC", 10, 4),
    Field("BlockCount", 14, 2)>>

Cmd20FWBlockPayload == <<Field("BlockNumber", 0, 2), Field("Data", 2, 1024)>>

Cmd23SetTimePayload == <<Field("ServerTime", 0, 4)>>

Cmd24AckPayload == <<Field("CommandSeq", 0, 1), Field("Code", 1, 1)>>

Cmd25BindingResponsePayload ==
  <<Field("ErrorCode", 0, 1), Field("ObjectNumber", 1, 8),
    Text("ObjectName", 9, 128), Text("ControllerName", 137, 128),
    Text("AdminPhone", 265, 16)>>

\* Commands of one fixed block.
Fixed ==
  (1 :> Cmd1RegistrationAckPayload) @@ (2 :> Cmd2RebootPayload)
  @@ (3 :> Cmd3FactoryResetPayload) @@ (5 :> Cmd5TriggerStructuredPayload)
  @@ (6 :> Cmd6CaptureIDPayload) @@ (7 :> Cmd7PhotoRequestPayload)
  @@ (8 :> Cmd8OutputControlPayload) @@ (11 :> Cmd11SendSMSPayload)
  @@ (18 :> Cmd18CRCBlockPayload) @@ (19 :> Cmd19StartFWPayload)
  @@ (20 :> Cmd20FWBlockPayload) @@ (23 :> Cmd23SetTimePayload)
  @@ (24 :> Cmd24AckPayload) @@ (25 :> Cmd25BindingResponsePayload)

FixedSize ==
  1 :> 5 @@ 2 :> 1 @@ 3 :> 1 @@ 5 :> 16 @@ 6 :> 3 @@ 7 :> 1 @@ 8 :> 3
  @@ 11 :> 60 @@ 18 :> 1 @@ 19 :> 16 @@ 20 :> 1026 @@ 23 :> 4 @@ 24 :> 2
  @@ 25 :> 281

\* Commands that carry a timestamp, a count and that many records.
Listed ==
  12 :> Cmd12SettingsRecord @@ 13 :> Cmd13IDRecord @@ 14 :> Cmd14ScheduleRecord
  @@ 15 :> Cmd15GroupRecord @@ 16 :> Cmd16SyncHolidayPayload

RecordSize == 12 :> 608 @@ 13 :> 32 @@ 14 :> 32 @@ 15 :> 16 @@ 16 :> 4
MaxRecords == 12 :> 1 @@ 13 :> 250 @@ 14 :> 64 @@ 15 :> 64 @@ 16 :> 255

CmdCustom == 27

-----------------------------------------------------------------------------
\* ValidateServerCommandPayload

\* The byte, and the little-endian numbers of two and four bytes, at an offset.
At(p, off) == p[off + 1]
Uint16(p, off) == At(p, off) + 256 * At(p, off + 1)
Uint32(p, off) == Uint16(p, off) + 65536 * Uint16(p, off + 2)
UpTo(p, off, w, max) == \A i \in off..(off + w - 1) : At(p, i) <= max

\* Text that ends where its padding begins.
validatePaddedASCII(p, off, w) ==
  /\ UpTo(p, off, w, 127)
  /\ \A i \in off..(off + w - 2) : At(p, i) = 0 => At(p, i + 1) = 0

IsAckExecutionCodeAllowed(code) == code \in 0..7 \cup {254, 255}

IsCmd12NetworkTypeValid(t) == t <= 4
IsCmd13IDTypeValid(t) == t <= 7

\* The checks of one record.
RecordValid(c, r) ==
  CASE c = 12 -> /\ IsCmd12NetworkTypeValid(At(r, 132)) /\ At(r, 165) <= 23
                 /\ UpTo(r, 166, 4, 1) /\ UpTo(r, 191, 8, 1) /\ UpTo(r, 202, 8, 1)
    [] c = 13 -> /\ Uint16(r, 0) \in 1..50000 /\ validatePaddedASCII(r, 2, 10)
                 /\ At(r, 12) <= 64 /\ IsCmd13IDTypeValid(At(r, 19))
    [] c = 14 -> /\ At(r, 0) \in 1..64 /\ At(r, 1) <= 23 /\ At(r, 3) <= 23
                 /\ At(r, 2) <= 59 /\ At(r, 4) <= 59 /\ UpTo(r, 5, 8, 1)
                 /\ UpTo(r, 13, 8, 64) /\ At(r, 21) <= 3
    [] c = 15 -> At(r, 0) \in 1..64 /\ At(r, 1) <= 64 /\ UpTo(r, 2, 8, 1)
    [] c = 16 -> TRUE

ListValid(c, p) ==
  /\ Len(p) >= 5
  /\ At(p, 4) \in 1..MaxRecords[c]
  /\ Len(p) = 5 + At(p, 4) * RecordSize[c]
  /\ \A i \in 1..At(p, 4) :
       RecordValid(c, SubSeq(p, 6 + (i - 1) * RecordSize[c], 5 + i * RecordSize[c]))

\* The numbers of command 19, as FirmwareStart has them.
StartOf(p) ==
  [fw |-> IF Uint16(p, 0) = 0 THEN 0 ELSE 1, size |-> Uint32(p, 6),
   crc |-> IF UpTo(p, 10, 4, 0) THEN 0 ELSE 1, count |-> Uint16(p, 14)]

\* An unknown command is not checked.
ValidateServerCommandPayload(c, p) ==
  /\ c \in DOMAIN FixedSize => Len(p) = FixedSize[c]
  /\ CASE c = 1  -> At(p, 0) <= 5
       [] c = 5  -> UpTo(p, 0, 8, 1) /\ UpTo(p, 8, 8, 0)
       [] c = 6  -> At(p, 1) <= 3 /\ (At(p, 1) = 3 <=> At(p, 2) # 0)
       [] c = 7  -> At(p, 0) # 0
       [] c = 8  -> At(p, 0) # 0 /\ UpTo(p, 1, 2, 1)
       [] c = 11 -> \A i \in 0..9 : At(p, i) \in 48..57
       [] c \in DOMAIN Listed -> ListValid(c, p)
       [] c = 18 -> At(p, 0) <= 100
       [] c = 19 -> Valid(StartOf(p))
       [] c = 24 -> IsAckExecutionCodeAllowed(At(p, 1))
       [] c = 25 -> At(p, 0) <= 3
       [] c = 27 -> Len(p) >= 3 /\ Len(p) - 3 = Uint16(p, 1)
       [] c \in {9, 10, 17, 21, 22} -> Len(p) = 0
       [] OTHER -> TRUE

-----------------------------------------------------------------------------
\* The Build methods

\* copy into a block of n bytes.
Pad(bytes, n) == [i \in 1..n |-> IF i \in DOMAIN bytes THEN bytes[i] ELSE 0]

\* A field that is written later covers one that was written before.
Laid(layout, v, size) ==
  [i \in 1..size |->
    LET at == {k \in DOMAIN layout : i - layout[k].at \in 1..layout[k].len}
        f  == layout[Max(at)]
    IN  IF at # {} /\ i - f.at \in DOMAIN v[f.name] THEN v[f.name][i - f.at] ELSE 0]

\* The timestamp, the count, which is one byte, and the records.
LaidList(c, v) ==
  LET size == RecordSize[c]
      laid == [k \in DOMAIN v.Records |-> Laid(Listed[c], v.Records[k], size)]
  IN  v.Timestamp \o <<Len(v.Records) % 256>>
        \o [i \in 1..(Len(v.Records) * size) |->
             laid[(i - 1) \div size + 1][((i - 1) % size) + 1]]

LittleEndian16(n) == <<n % 256, (n \div 256) % 256>>

\* What a Build method works out before it lays the fields out: the blocks of a
\* firmware file that was given none, and the object's number given as bytes.
Prepared(c, v) ==
  CASE c = 19 /\ Uint16(v.BlockCount, 0) = 0 ->
         [v EXCEPT !.BlockCount =
            LittleEndian16(FWBlockCountForSize(Uint32(v.FileSize, 0)))]
    [] c = 25 /\ v.ObjectNumberRaw # <<>> -> [v EXCEPT !.ObjectNumber = v.ObjectNumberRaw]
    [] OTHER -> v

Bytes(c, v) ==
  CASE c \in DOMAIN Fixed -> Laid(Fixed[c], Prepared(c, v), FixedSize[c])
    [] c \in DOMAIN Listed -> LaidList(c, v)
    [] c = CmdCustom -> v.CustomCommand \o LittleEndian16(Len(v.Argument)) \o v.Argument
    [] OTHER -> <<>>

fixedASCII(s, size) == Len(s) <= size /\ \A i \in DOMAIN s : s[i] <= 127
fixedDigits(s, size) == Len(s) = size /\ \A i \in DOMAIN s : s[i] \in 48..57

\* Whether the texts of a block, and what is given as a slice, can be copied.
TextsFit(layout, v) ==
  \A k \in DOMAIN layout :
    layout[k].text => fixedASCII(v[layout[k].name], layout[k].len)

Fits(c, v) ==
  /\ c \in DOMAIN Fixed => TextsFit(Fixed[c], v)
  /\ c \in DOMAIN Listed => \A k \in DOMAIN v.Records : TextsFit(Listed[c], v.Records[k])
  /\ c = 11 => fixedDigits(v.Phone10, 10)
  /\ c = 20 => Len(v.Data) = 1024
  /\ c = 25 => /\ Len(v.ObjectNumberRaw) <= 8
               /\ v.ObjectNumber = Pad(<<>>, 8) \/ v.ObjectNumberRaw = <<>>
  /\ c = CmdCustom => Len(v.Argument) <= 65535

\* Mutant of RecordAllowed: group 64 is refused.
RecordAllowedLess(c, r) ==
  CASE c = 12 -> /\ IsCmd12NetworkTypeValid(r.NetworkType[1]) /\ r.AutoRebootHour[1] <= 23
                 /\ UpTo(r.Relay1Flags, 0, 8, 1) /\ UpTo(r.Relay2Flags, 0, 8, 1)
    [] c = 13 -> /\ Uint16(r.SlotIndex, 0) \in 1..50000 /\ r.Group[1] < 64
                 /\ IsCmd13IDTypeValid(r.IDType[1])
    [] OTHER -> RecordValid(c, Laid(Listed[c], r, RecordSize[c]))

\* What the Build method of a record checks by itself; those of commands 14 and
\* 15 ask the validator about the record they built.
RecordAllowed(c, r) ==
  CASE c = 12 -> /\ IsCmd12NetworkTypeValid(r.NetworkType[1]) /\ r.AutoRebootHour[1] <= 23
                 /\ UpTo(r.Relay1Flags, 0, 8, 1) /\ UpTo(r.Relay2Flags, 0, 8, 1)
    [] c = 13 -> /\ Uint16(r.SlotIndex, 0) \in 1..50000 /\ r.Group[1] <= 64
                 /\ IsCmd13IDTypeValid(r.IDType[1])
    [] OTHER -> RecordValid(c, Laid(Listed[c], r, RecordSize[c]))

\* What a Build method checks before it asks the validator.
Allowed(c, v) ==
  /\ c \in DOMAIN Listed => /\ Len(v.Records) \in 1..MaxRecords[c]
                            /\ \A k \in DOMAIN v.Records : RecordAllowed(c, v.Records[k])
  /\ c = 19 => /\ ~UpTo(v.FileSize, 0, 4, 0) /\ ~UpTo(v.FileCRC, 0, 4, 0)
               /\ Uint16(Prepared(c, v).BlockCount, 0)
                    = FWBlockCountForSize(Uint32(v.FileSize, 0))

BuildPayload(c, v) ==
  LET bytes == Bytes(c, v) IN
  IF Fits(c, v) /\ Allowed(c, v) /\ ValidateServerCommandPayload(c, bytes)
  THEN [ok |-> TRUE, bytes |-> bytes] ELSE [ok |-> FALSE, bytes |-> <<>>]

-----------------------------------------------------------------------------
\* The values that are tried: a field at a time takes the values around its
\* limits, all others have one that is accepted.

EdgeBytes == {0, 1, 2, 3, 4, 5, 7, 8, 23, 24, 59, 60, 64, 65, 100, 101, 253, 254, 255}
EdgeNumbers == {0, 1, 50000, 50001, 65535}

\* Fields that come from a bool.
Flags ==
  {"ExtendedDebug", "UseVoLTE", "Interface485Active", "NTPEnabled"}
    \cup {"Flag" \o ToString(i) : i \in 1..8}

Of(n, b) == [i \in 1..n |-> b]

Edges(f) ==
  CASE f.text -> {<<>>, Of(f.len, 49), Of(f.len + 1, 49), <<49, 0, 49>>, <<128>>}
    [] f.name \in Flags -> {<<0>>, <<1>>}
    [] f.name = "FileSize" -> {<<n, 0, 0, 0>> : n \in 0..(MaxSize - 1)}
    [] f.name = "Data" -> {Of(n, 255) : n \in 1023..1025}
    [] f.len = 1 -> {<<b>> : b \in EdgeBytes}
    [] f.len = 2 -> {LittleEndian16(n) : n \in EdgeNumbers}
    [] OTHER -> {Of(f.len, 0), Of(f.len, 1), Of(f.len, 255)}
                  \cup {[Of(f.len, 0) EXCEPT ![i] = 2] : i \in {1, f.len}}

Default(f) ==
  CASE f.name = "Phone10" -> Of(10, 48)
    [] f.name # "Phone10" /\ f.text -> <<>>
    [] f.name \in {"CameraAddress", "SourceID", "Slot", "SlotIndex",
                   "FirmwareNumber", "FileSize", "FileCRC"} ->
         [Of(f.len, 0) EXCEPT ![1] = 1]
    [] OTHER -> Of(f.len, 0)

Given(layout) ==
  [n \in {f.name : f \in Range(layout)} |->
    Default(CHOOSE f \in Range(layout) : f.name = n)]

\* The values of a block in which one field is at a limit.
OneOff(layout) ==
  UNION {{[Given(layout) EXCEPT ![f.name] = e] : e \in Edges(f)} : f \in Range(layout)}

Requests(c) ==
  CASE c = 25 ->
         {v @@ ("ObjectNumberRaw" :> Of(n, 7)) : v \in OneOff(Fixed[c]), n \in {0, 3, 8, 9}}
    [] c \in DOMAIN Fixed \ {25} -> OneOff(Fixed[c])
    [] c \in DOMAIN Listed ->
         LET list(s) == [Timestamp |-> <<1, 2, 3, 4>>, Records |-> s]
             sound   == Given(Listed[c])
         IN  IF c = 12 THEN {list(<<r>>) : r \in OneOff(Listed[c])}
             ELSE {list(<<sound, r>>) : r \in OneOff(Listed[c])}
                    \cup {list(Of(n, sound)) : n \in {0, 1, MaxRecords[c], MaxRecords[c] + 1}}
    [] c = CmdCustom ->
         {[CustomCommand |-> <<1>>, Argument |-> Of(n, 9)] : n \in {0, 1, 256, 65535, 65536}}
    [] OTHER -> {<<>>}

Buildable == DOMAIN Fixed \cup DOMAIN Listed \cup {9, 10, 17, 21, 22, CmdCustom}

NoRequest == [cmd |-> 0, v |-> <<>>]

PayloadInit == request = NoRequest /\ payload = [ok |-> FALSE, bytes |-> <<>>]

\* buildCommandPayload hands the fields to the Build method of the command; those
\* of commands 1 and 24 are called for the acknowledgements of the adapter.
BuildCommand ==
  \E c \in Buildable : \E v \in Requests(c) :
    /\ request' = [cmd |-> c, v |-> v]
    /\ payload' = BuildPayload(c, v)

PayloadNext == BuildCommand

-----------------------------------------------------------------------------
\* Properties

\* Whether every field of a block is found at its place.
Found(layout, v, p, off) ==
  \A f \in Range(layout) :
    SubSeq(p, off + f.at + 1, off + f.at + f.len) = Pad(v[f.name], f.len)

\* Every payload that a Build method returns still holds every field it was given:
\* no field is cut off or covered by another, in the first record or a later one.
FieldsRecovered ==
  LET c == request.cmd IN
  payload.ok =>
    /\ c \in DOMAIN Fixed => Found(Fixed[c], Prepared(c, request.v), payload.bytes, 0)
    /\ c \in DOMAIN Listed =>
         \A k \in DOMAIN request.v.Records :
           Found(Listed[c], request.v.Records[k], payload.bytes,
                 5 + (k - 1) * RecordSize[c])

\* The checks that the Build methods make themselves and those of the validator
\* are written twice and agree: fields that fit their place are refused only if
\* ValidateServerCommandPayload refuses the bytes, counts at their limits and a
\* count that wraps to zero included.
ChecksAgree ==
  request # NoRequest /\ Fits(request.cmd, request.v) =>
    payload.ok = ValidateServerCommandPayload(request.cmd, Bytes(request.cmd, request.v))
=============================================================================
