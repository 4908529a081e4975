--------------------------- MODULE MemoryReports ---------------------------
(***************************************************************************)
(* The memory half of handle_output_reports (main/espmote_main.c): the     *)
(* reports O_WRITE_MEMORY_REGISTERS and O_READ_MEMORY_REGISTERS, and the   *)
(* input reports 0x21 (read data) and 0x22 (acknowledge) they cause.       *)
(*                                                                         *)
(* The BTC task handles one report at a time; a read of more than one      *)
(* chunk is a loop with one input report per step. A report names a space: *)
(* the simulated EEPROM, or the register block A2 (speaker), A4 (active    *)
(* extension), A6 (MotionPlus), B0 (IR camera) or one the mote lacks.      *)
(* Lengths keep their C types: a size is 16 bits in the request and        *)
(* handed on as uint8_t, and the size nibble of a reply has 4 bits. The    *)
(* constants stand for these limits, so that small ones can be checked.    *)
(***************************************************************************)
EXTENDS Integers, Sequences

CONSTANTS
    LastByte,  \* 0x16FF, the last index of EEPROM_sim
    Chunk,     \* 16, data bytes of one 0x21 report
    Byte,      \* 256, the range of a uint8_t
    Offsets,   \* 16-bit offsets that hosts use
    Sizes,     \* 16-bit sizes that hosts read
    Data       \* contents of a byte

ASSUME MemoryAssumption ==
    /\ LastByte \in Nat /\ Chunk \in Nat \ {0} /\ Byte \in Nat
    /\ Chunk < Byte
    /\ Offsets \subseteq Nat /\ Sizes \subseteq Nat
    /\ Data # {}

Blocks == {"A2", "A4", "A6", "B0", "other"}
Spaces == {"eeprom"} \cup Blocks
Registers == {"FC", "FE", "F0", "data"}   \* offsets the code tells apart
Tags == {"A4", "A6", "host"}              \* contents of MotionPlus FC..FD
Cells == 0..LastByte

\* Error codes of 0x21 (READ_WRITE_ONLY) and 0x22.
ReadErrors == {"none", "write_only"}
AckCodes == {"success", "error", "inactive"}

VARIABLES
    eeprom,     \* EEPROM_sim
    tag,        \* wii_motion_plus_settings_data + 0xFC, two bytes
    wmp,        \* wii_motion_plus_enabled
    connected,  \* extension_handle_connected
    request,    \* the report being handled
    job,        \* the loop of mote_input_data_read
    out,        \* input reports sent for that request
    image       \* history: the EEPROM as acknowledged writes left it

vars == <<eeprom, tag, wmp, connected, request, job, out, image>>

----------------------------------------------------------------------------
\* One 0x21 report: its size nibble, error code, address, and the data, which
\* for EEPROM is the bytes and for a register block who answered.
DataReport(nibble, address, data) ==
    [kind |-> "data", nibble |-> nibble, address |-> address, data |-> data]
ErrorReport(nibble, address) ==
    [kind |-> "error", nibble |-> nibble, address |-> address, data |-> <<>>]
Ack(code) ==
    [kind |-> "ack", nibble |-> 0, address |-> 0, data |-> <<code>>]

Smaller(a, b) == IF a < b THEN a ELSE b

\* Contents of the EEPROM from cell a, n bytes.
Slice(mem, a, n) == [i \in 1..n |-> mem[a + i - 1]]

NoRequest == [op |-> "none", space |-> "eeprom", reg |-> "data",
              offset |-> 0, size |-> 0, ack |-> FALSE]
Requests ==
    [op : {"none", "read", "write"}, space : Spaces, reg : Registers,
     offset : Offsets \cup {0}, size : Sizes \cup 0..Chunk, ack : BOOLEAN]

\* The loop variables of mote_input_data_read: bytes wanted, index, and the
\* source of the data.
Idle == [on |-> FALSE, size |-> 0, index |-> 0, source |-> "eeprom"]
Sources == {"eeprom", "speaker", "motionplus", "extension", "camera"}
Jobs == [on : BOOLEAN, size : 0..(Byte - 1), index : Nat, source : Sources]

TypeOK ==
    /\ eeprom \in [Cells -> Data]
    /\ tag \in Tags
    /\ wmp \in BOOLEAN
    /\ connected \in BOOLEAN
    /\ request \in Requests
    /\ job \in Jobs
    /\ out \in Seq([kind : {"data", "error", "ack"}, nibble : 0..(Chunk - 1),
                    address : Nat, data : Seq(Data \cup Tags \cup Sources \cup AckCodes)])
    /\ image \in [Cells -> Data]

Init ==
    /\ eeprom \in {[c \in Cells |-> v] : v \in Data}
    /\ tag = "A6"
    /\ wmp = FALSE
    /\ connected \in BOOLEAN
    /\ request = NoRequest
    /\ job = Idle
    /\ out = <<>>
    /\ image = eeprom

----------------------------------------------------------------------------
(***************************************************************************)
(* O_WRITE_MEMORY_REGISTERS: at most Chunk data bytes travel in a report.  *)
(***************************************************************************)
Request(op, space, reg, offset, size, ack) ==
    /\ request = NoRequest
    /\ request' = [op |-> op, space |-> space, reg |-> reg,
                   offset |-> offset, size |-> size, ack |-> ack]

\* The 16-bit size and offset are added as ints, without wrapping.
InRange(offset, size) == size + offset <= LastByte

WriteEeprom(offset, size, v) ==
    /\ Request("write", "eeprom", "data", offset, size, FALSE)
    /\ IF InRange(offset, size)
       THEN LET written == [c \in Cells |->
                    IF c \in offset..(offset + size - 1) THEN v ELSE eeprom[c]]
            IN  eeprom' = written /\ image' = written /\ out' = <<Ack("success")>>
       ELSE out' = <<Ack("error")>> /\ UNCHANGED <<eeprom, image>>
    /\ UNCHANGED <<tag, wmp, connected, job>>

\* The speaker block is stored; no acknowledgement is sent.
WriteSpeaker ==
    /\ Request("write", "A2", "data", 0, 1, FALSE)
    /\ out' = <<>>
    /\ UNCHANGED <<eeprom, tag, wmp, connected, job, image>>

\* The A4 block is the MotionPlus while that is active (but for F0), otherwise
\* the extension in the port; 55 to F0 deactivates the MotionPlus, another value
\* does not.
WriteExtension(reg) ==
    /\ Request("write", "A4", reg, 0, 1, FALSE)
    /\ \/ /\ reg # "F0" /\ wmp
          /\ tag' = IF reg = "FC" THEN "host" ELSE tag
          /\ out' = <<Ack("success")>>
          /\ UNCHANGED wmp
       \/ /\ reg = "F0" \/ ~wmp
          /\ connected
          /\ wmp' \in IF reg = "F0" THEN {wmp, FALSE} ELSE {wmp}
          /\ out' = <<Ack("success")>>
          /\ UNCHANGED tag
       \/ /\ reg = "F0" \/ ~wmp
          /\ ~connected
          /\ out' = <<Ack("inactive")>>
          /\ UNCHANGED <<tag, wmp>>
    /\ UNCHANGED <<eeprom, connected, job, image>>

\* The A6 block is always the MotionPlus; 04, 05 or 07 to FE activates it,
\* another value does not.
WriteMotionPlus(reg) ==
    /\ Request("write", "A6", reg, 0, 1, FALSE)
    /\ tag' = IF reg = "FC" THEN "host" ELSE tag
    /\ wmp' \in IF reg = "FE" THEN {wmp, TRUE} ELSE {wmp}
    /\ out' = <<Ack("success")>>
    /\ UNCHANGED <<eeprom, connected, job, image>>

WriteCamera ==
    /\ Request("write", "B0", "data", 0, 1, FALSE)
    /\ out' = <<Ack("success")>>
    /\ UNCHANGED <<eeprom, tag, wmp, connected, job, image>>

WriteOther ==
    /\ Request("write", "other", "data", 0, 1, FALSE)
    /\ out' = <<Ack("error")>>
    /\ UNCHANGED <<eeprom, tag, wmp, connected, job, image>>

----------------------------------------------------------------------------
(***************************************************************************)
(* O_READ_MEMORY_REGISTERS and mote_input_data_read.                       *)
(***************************************************************************)
\* The call mote_input_data_read(size, 0, ...): size arrives as a uint8_t.
StartJob(size, source) ==
    /\ job' = [on |-> TRUE, size |-> size % Byte, index |-> 0, source |-> source]
    /\ out' = <<>>

\* "bit 1 of any output report is requesting an acknowledgement".
Acks(ack) == IF ack THEN <<Ack("success")>> ELSE <<>>

\* Mutant of Refuse: a refused read is not acknowledged.
RefuseNoAck(size, offset, ack) ==
    /\ out' = <<ErrorReport(Smaller(size % Byte, Chunk) % Chunk, offset)>>
    /\ UNCHANGED job

\* The call mote_input_data_read(size, READ_WRITE_ONLY, ...): one report whose
\* size nibble is the size, capped at a chunk and shifted out of a uint8_t.
Refuse(size, offset, ack) ==
    /\ out' = <<ErrorReport(Smaller(size % Byte, Chunk) % Chunk, offset)>> \o Acks(ack)
    /\ UNCHANGED job

ReadEeprom(offset, size, ack) ==
    /\ Request("read", "eeprom", "data", offset, size, ack)
    /\ IF InRange(offset, size) THEN StartJob(size, "eeprom")
                                ELSE Refuse(size, offset, ack)
    /\ UNCHANGED <<eeprom, tag, wmp, connected, image>>

ReadSpeaker(size, ack) ==
    /\ Request("read", "A2", "data", 0, size, ack)
    /\ StartJob(size, "speaker")
    /\ UNCHANGED <<eeprom, tag, wmp, connected, image>>

\* A read of the A4 block while the MotionPlus is active shows the tag A4 in its
\* registers; an extension answers from a buffer of one chunk.
ReadExtension(reg, size, ack) ==
    /\ Request("read", "A4", reg, 0, size, ack)
    /\ \/ /\ wmp
          /\ tag' = "A4"
          /\ StartJob(size, "motionplus")
       \/ /\ ~wmp /\ connected
          /\ size <= Chunk
          /\ StartJob(size, "extension")
          /\ UNCHANGED tag
       \/ /\ ~wmp /\ ~connected
          /\ Refuse(Chunk, 0, ack)
          /\ UNCHANGED tag
    /\ UNCHANGED <<eeprom, wmp, connected, image>>

ReadMotionPlus(reg, size, ack) ==
    /\ Request("read", "A6", reg, 0, size, ack)
    /\ StartJob(size, "motionplus")
    /\ UNCHANGED <<eeprom, tag, wmp, connected, image>>

\* Always answered with a whole chunk, whatever size was asked.
ReadCamera(size, ack) ==
    /\ Request("read", "B0", "data", 0, size, ack)
    /\ size <= Chunk
    /\ StartJob(Chunk, "camera")
    /\ UNCHANGED <<eeprom, tag, wmp, connected, image>>

ReadOther(size, ack) ==
    /\ Request("read", "other", "data", 0, size, ack)
    /\ out' = Acks(ack)
    /\ UNCHANGED <<eeprom, tag, wmp, connected, job, image>>

\* What the registers of a block give for the request: FC shows the tag.
Contents == IF request.reg = "FC" /\ job.source = "motionplus" THEN tag ELSE job.source

\* Mutant of SendChunk: the nibble is the length, not the length minus one.
SendChunkLength ==
    /\ job.on /\ job.index < job.size
    /\ LET count == Smaller(job.size - job.index, Chunk)
           address == request.offset + job.index
           data == IF job.source = "eeprom" THEN Slice(eeprom, address, count)
                   ELSE <<Contents>>
       IN  out' = Append(out, DataReport(count, address, data))
    /\ job' = [job EXCEPT !.index = @ + Chunk]
    /\ UNCHANGED <<eeprom, tag, wmp, connected, request, image>>

\* Mutant of SendChunk: every report is filled from the start of the buffer.
SendChunkFromStart ==
    /\ job.on /\ job.index < job.size
    /\ LET count == Smaller(job.size - job.index, Chunk)
           address == request.offset + job.index
           data == IF job.source = "eeprom" THEN Slice(eeprom, request.offset, count)
                   ELSE <<Contents>>
       IN  out' = Append(out, DataReport((count - 1) % Chunk, address, data))
    /\ job' = [job EXCEPT !.index = @ + Chunk]
    /\ UNCHANGED <<eeprom, tag, wmp, connected, request, image>>

\* One turn of the loop "while (index < size)".
SendChunk ==
    /\ job.on /\ job.index < job.size
    /\ LET count == Smaller(job.size - job.index, Chunk)
           address == request.offset + job.index
           data == IF job.source = "eeprom" THEN Slice(eeprom, address, count)
                   ELSE <<Contents>>
       IN  out' = Append(out, DataReport((count - 1) % Chunk, address, data))
    /\ job' = [job EXCEPT !.index = @ + Chunk]
    /\ UNCHANGED <<eeprom, tag, wmp, connected, request, image>>

\* Mutant of EndRead: the tag A4 is left in the registers.
EndReadKeepTag ==
    /\ job.on /\ job.index >= job.size
    /\ job' = Idle
    /\ out' = out \o Acks(request.ack)
    /\ UNCHANGED <<eeprom, tag, wmp, connected, request, image>>

\* The loop is over: the tag is put back after an A4 read, then the optional
\* acknowledgement.
EndRead ==
    /\ job.on /\ job.index >= job.size
    /\ job' = Idle
    /\ tag' = IF request.space = "A4" /\ job.source = "motionplus" THEN "A6" ELSE tag
    /\ out' = out \o Acks(request.ack)
    /\ UNCHANGED <<eeprom, wmp, connected, request, image>>

\* handle_output_reports returns to the stack.
Return ==
    /\ request # NoRequest /\ ~job.on
    /\ request' = NoRequest
    /\ out' = <<>>
    /\ UNCHANGED <<eeprom, tag, wmp, connected, job, image>>

\* The main task notices a plug or an unplug (module ExtensionStatus).
PlugChanges ==
    /\ connected' = ~connected
    /\ UNCHANGED <<eeprom, tag, wmp, request, job, out, image>>

Write == \/ \E o \in Offsets, n \in 0..Chunk, v \in Data : WriteEeprom(o, n, v)
         \/ \E r \in Registers : WriteExtension(r) \/ WriteMotionPlus(r)
         \/ WriteSpeaker \/ WriteCamera \/ WriteOther
Read == \E n \in Sizes, ack \in BOOLEAN :
            \/ \E o \in Offsets : ReadEeprom(o, n, ack)
            \/ \E r \in Registers : ReadExtension(r, n, ack) \/ ReadMotionPlus(r, n, ack)
            \/ ReadSpeaker(n, ack) \/ ReadCamera(n, ack) \/ ReadOther(n, ack)

Next == Write \/ Read \/ SendChunk \/ EndRead \/ Return \/ PlugChanges
Spec == Init /\ [][Next]_vars

----------------------------------------------------------------------------
(***************************************************************************)
(* Properties                                                              *)
(***************************************************************************)
\* All the input reports for the request have been sent.
Handled == request # NoRequest /\ ~job.on

\* The k-th reply to the EEPROM read being handled.
Reply(k) ==
    LET first == (k - 1) * Chunk
        count == Smaller(request.size - first, Chunk)
    IN  DataReport(count - 1, request.offset + first,
                   Slice(image, request.offset + first, count))

\* An EEPROM read of a size that fits a uint8_t returns, in order and without
\* gap or overlap, exactly the bytes asked for, as the acknowledged writes left
\* them; each report names its address and its length, none is empty and the
\* last one completes the size. Then comes the acknowledgement, if any.
ReadReturnsImage ==
    (/\ Handled /\ request.op = "read" /\ request.space = "eeprom"
     /\ InRange(request.offset, request.size) /\ request.size < Byte)
    => \E n \in 0..Len(out) :
          /\ (n - 1) * Chunk < request.size /\ request.size <= n * Chunk
          /\ out = [k \in 1..n |-> Reply(k)] \o Acks(request.ack)

\* A MotionPlus identifier says what was asked: A4 reads never see the A6 tag,
\* A6 reads never the A4 tag, although both come from the same two bytes that
\* each A4 read changes and changes back.
TagMatchesBlock ==
    (Handled /\ request.op = "read" /\ request.reg = "FC") =>
        \A k \in DOMAIN out : out[k].kind = "data" =>
            /\ request.space = "A4" => out[k].data \notin {<<"A6">>, <<"host">>}
            /\ request.space = "A6" => out[k].data # <<"A4">>

\* The n reports before the acknowledgement are one error, or data reports of
\* whole chunks and a last one that completes the size.
Answered(n, size) ==
    \/ n = 1 /\ out[1].kind = "error"
    \/ \A k \in 1..n :
          /\ out[k].kind = "data"
          /\ k < n => out[k].nibble = Chunk - 1
          /\ k = n => (k - 1) * Chunk + out[k].nibble + 1 = size

\* "apparently all writes request an ack automatically": the host that waits for
\* the end of a request is never left waiting, in any block, with or without the
\* MotionPlus or an extension that may vanish in the middle. A write ends in one
\* acknowledgement, a read in as many bytes as were asked for or in an error,
\* and the acknowledgement if one was wanted. Exceptions, by the code: a write to
\* the speaker, a read of a block that the mote lacks, and sizes that a uint8_t
\* does not hold; the camera always answers with a whole chunk.
RequestsAnswered ==
    /\ (Handled /\ request.op = "write" /\ request.space # "A2")
       => \E code \in AckCodes : out = <<Ack(code)>>
    /\ (/\ Handled /\ request.op = "read" /\ request.space # "other"
        /\ request.size \in 1..(Byte - 1))
       => \E n \in 1..Len(out) :
             /\ Answered(n, IF request.space = "B0" THEN Chunk ELSE request.size)
             /\ SubSeq(out, n + 1, Len(out)) = Acks(request.ack)

============================================================================
