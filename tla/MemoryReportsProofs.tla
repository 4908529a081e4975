------------------------ MODULE MemoryReportsProofs ------------------------
(***************************************************************************)
(* Proofs about MemoryReports for every size of the EEPROM, of a chunk and *)
(* of the length type: type correctness, that EEPROM reads return the      *)
(* written bytes, that an identifier shows the tag of its block, and that  *)
(* every request is answered to its end.                                   *)
(***************************************************************************)
EXTENDS MemoryReports, SequenceTheorems, TLAPS

\* The length of a chunk: never zero inside the loop, never above the limit.
LEMMA SmallerFact ==
    ASSUME NEW a \in Nat, NEW b \in Nat
    PROVE  /\ Smaller(a, b) \in Nat
           /\ Smaller(a, b) <= a /\ Smaller(a, b) <= b
           /\ Smaller(a, b) = a \/ Smaller(a, b) = b
BY DEF Smaller

\* What a narrow unsigned type keeps of a number.
LEMMA ModFact ==
    ASSUME NEW a \in Nat, NEW m \in Nat \ {0}
    PROVE  /\ a % m \in 0..(m - 1)
           /\ a < m => a % m = a
BY Z3

----------------------------------------------------------------------------
(***************************************************************************)
(* Type correctness. The loop of mote_input_data_read leaves the EEPROM    *)
(* only if its bounds were not checked before: TypeOK is not inductive     *)
(* without the range of the read being handled.                            *)
(***************************************************************************)
InBounds ==
    job.on => /\ request.op = "read"
              /\ job.source = "eeprom" => request.offset + job.size <= LastByte

Contained == Data \cup Tags \cup Sources \cup AckCodes
Outputs == [kind : {"data", "error", "ack"}, nibble : 0..(Chunk - 1),
            address : Nat, data : Seq(Contained)]
TypeInv == TypeOK /\ InBounds

\* An acknowledgement, or none, is typed output.
LEMMA AckTyped == \A code \in AckCodes : <<Ack(code)>> \in Seq(Outputs)
<1> SUFFICES ASSUME NEW code \in AckCodes PROVE <<Ack(code)>> \in Seq(Outputs) OBVIOUS
<1>1. <<code>> \in Seq(Contained) BY DEF Contained
<1>2. Ack(code) \in Outputs BY <1>1, MemoryAssumption DEF Ack, Outputs
<1> QED BY <1>2

\* The same for the acknowledgement a report may ask for.
LEMMA AcksTyped == \A ack \in BOOLEAN : Acks(ack) \in Seq(Outputs)
<1>1. <<Ack("success")>> \in Seq(Outputs) BY AckTyped DEF AckCodes
<1>2. <<>> \in Seq(Outputs) OBVIOUS
<1> QED BY <1>1, <1>2 DEF Acks

\* A refused read is answered by typed output.
LEMMA RefuseTyped ==
    ASSUME NEW size \in Nat, NEW offset \in Nat, NEW ack \in BOOLEAN,
           Refuse(size, offset, ack)
    PROVE  out' \in Seq(Outputs) /\ job' = job
<1> DEFINE nibble == Smaller(size % Byte, Chunk) % Chunk
<1>1. size % Byte \in Nat BY ModFact, MemoryAssumption
<1>2. Smaller(size % Byte, Chunk) \in Nat BY <1>1, SmallerFact, MemoryAssumption
<1>3. nibble \in 0..(Chunk - 1) BY <1>2, ModFact, MemoryAssumption
<1>4. ErrorReport(nibble, offset) \in Outputs
  <2>1. <<>> \in Seq(Contained) OBVIOUS
  <2> QED BY <1>3, <2>1 DEF ErrorReport, Outputs
<1>5. <<ErrorReport(nibble, offset)>> \in Seq(Outputs) BY <1>4
<1>6. out' = <<ErrorReport(nibble, offset)>> \o Acks(ack) BY DEF Refuse
<1> HIDE DEF nibble
<1> QED BY <1>5, <1>6, AcksTyped DEF Refuse

\* A request of the enumerated kinds is a request.
LEMMA RequestTyped ==
    ASSUME NEW op \in {"read", "write"}, NEW space \in Spaces, NEW reg \in Registers,
           NEW offset \in Offsets \cup {0}, NEW size \in Sizes \cup 0..Chunk,
           NEW ack \in BOOLEAN, Request(op, space, reg, offset, size, ack)
    PROVE  /\ request' \in Requests /\ request = NoRequest
           /\ request' = [op |-> op, space |-> space, reg |-> reg,
                          offset |-> offset, size |-> size, ack |-> ack]
BY DEF Request, Requests

\* The loop starts with what is left of the size.
LEMMA StartTyped ==
    ASSUME NEW size \in Nat, NEW source \in Sources, StartJob(size, source)
    PROVE  /\ job' \in Jobs /\ out' \in Seq(Outputs)
           /\ job' = [on |-> TRUE, size |-> size % Byte, index |-> 0, source |-> source]
           /\ size % Byte \in 0..(Byte - 1)
<1>1. size % Byte \in 0..(Byte - 1) BY ModFact, MemoryAssumption
<1> QED BY <1>1 DEF StartJob, Jobs

\* Before the first report all of it holds.
LEMMA InitTyped == Init => TypeInv
<1> SUFFICES ASSUME Init PROVE TypeInv OBVIOUS
<1>1. request \in Requests BY MemoryAssumption DEF Init, NoRequest, Requests, Spaces, Registers
<1>2. job \in Jobs BY MemoryAssumption DEF Init, Idle, Jobs, Sources
<1>3. out \in Seq(Outputs) BY DEF Init
<1>4. eeprom \in [Cells -> Data] /\ image \in [Cells -> Data] BY DEF Init
<1> QED BY <1>1, <1>2, <1>3, <1>4 DEF Init, TypeInv, TypeOK, InBounds, Idle, Tags,
           Outputs, Contained

\* O_WRITE_MEMORY_REGISTERS.
LEMMA WriteTyped == ASSUME TypeInv, Write PROVE TypeInv'
<1>a. \A code \in AckCodes : <<Ack(code)>> \in Seq(Outputs) BY AckTyped
<1>c. <<>> \in Seq(Outputs) OBVIOUS
<1>b. 0 \in Offsets \cup {0} /\ 1 \in Sizes \cup 0..Chunk BY MemoryAssumption
<1>0. /\ out \in Seq(Outputs) /\ tag \in Tags /\ wmp \in BOOLEAN /\ connected \in BOOLEAN
      /\ eeprom \in [Cells -> Data] /\ image \in [Cells -> Data] /\ job \in Jobs
  BY DEF TypeInv, TypeOK, Outputs, Contained
<1> DEFINE Typed == /\ request' \in Requests /\ out' \in Seq(Outputs)
                    /\ tag' \in Tags /\ wmp' \in BOOLEAN /\ connected' \in BOOLEAN
                    /\ eeprom' \in [Cells -> Data] /\ image' \in [Cells -> Data]
                    /\ job' = job
<1>1. ASSUME NEW o \in Offsets, NEW n \in 0..Chunk, NEW v \in Data, WriteEeprom(o, n, v)
      PROVE  Typed /\ request = NoRequest
  <2>1. request' \in Requests /\ request = NoRequest
    BY <1>1, RequestTyped DEF WriteEeprom, Spaces, Registers
  <2>2. [c \in Cells |-> IF c \in o..(o + n - 1) THEN v ELSE eeprom[c]] \in [Cells -> Data]
    BY <1>0
  <2>3. eeprom' \in [Cells -> Data] /\ image' \in [Cells -> Data]
    BY <1>0, <1>1, <2>2 DEF WriteEeprom
  <2>4. out' \in Seq(Outputs) BY <1>1, <1>a DEF WriteEeprom, AckCodes
  <2> QED BY <1>0, <1>1, <2>1, <2>3, <2>4 DEF WriteEeprom
<1>2. ASSUME NEW r \in Registers, WriteExtension(r) PROVE Typed /\ request = NoRequest
  <2>1. request' \in Requests /\ request = NoRequest
    BY <1>2, <1>b, RequestTyped DEF WriteExtension, Spaces, Blocks
  <2>2. out' \in Seq(Outputs) BY <1>2, <1>a DEF WriteExtension, AckCodes
  <2>3. tag' \in Tags BY <1>0, <1>2 DEF WriteExtension, Tags
  <2>4. wmp' \in BOOLEAN BY <1>0, <1>2 DEF WriteExtension
  <2> QED BY <1>0, <1>2, <2>1, <2>2, <2>3, <2>4 DEF WriteExtension
<1>3. ASSUME NEW r \in Registers, WriteMotionPlus(r) PROVE Typed /\ request = NoRequest
  <2>1. request' \in Requests /\ request = NoRequest
    BY <1>3, <1>b, RequestTyped DEF WriteMotionPlus, Spaces, Blocks
  <2>2. out' \in Seq(Outputs) BY <1>3, <1>a DEF WriteMotionPlus, AckCodes
  <2>3. tag' \in Tags BY <1>0, <1>3 DEF WriteMotionPlus, Tags
  <2>4. wmp' \in BOOLEAN BY <1>0, <1>3 DEF WriteMotionPlus
  <2> QED BY <1>0, <1>3, <2>1, <2>2, <2>3, <2>4 DEF WriteMotionPlus
<1>4. ASSUME WriteSpeaker \/ WriteCamera \/ WriteOther PROVE Typed /\ request = NoRequest
  <2>1. request' \in Requests /\ request = NoRequest
    BY <1>4, <1>b, RequestTyped DEF WriteSpeaker, WriteCamera, WriteOther, Spaces, Blocks, Registers
  <2>2. out' \in Seq(Outputs)
    BY <1>4, <1>a, <1>c DEF WriteSpeaker, WriteCamera, WriteOther, AckCodes
  <2> QED BY <1>0, <1>4, <2>1, <2>2 DEF WriteSpeaker, WriteCamera, WriteOther
<1>5. Typed /\ request = NoRequest BY <1>1, <1>2, <1>3, <1>4 DEF Write
<1>6. ~job.on BY <1>5 DEF NoRequest, TypeInv, InBounds
<1> QED BY <1>0, <1>5, <1>6 DEF TypeInv, TypeOK, InBounds, Outputs, Contained

\* O_READ_MEMORY_REGISTERS: every branch either starts the loop, with its bounds
\* checked if it reads the EEPROM, or answers at once.
LEMMA ReadTyped == ASSUME TypeInv, Read PROVE TypeInv'
<1>0. /\ out \in Seq(Outputs) /\ tag \in Tags /\ wmp \in BOOLEAN /\ connected \in BOOLEAN
      /\ eeprom \in [Cells -> Data] /\ image \in [Cells -> Data] /\ job \in Jobs
  BY DEF TypeInv, TypeOK, Outputs, Contained
<1> DEFINE Typed == /\ request' \in Requests /\ out' \in Seq(Outputs) /\ job' \in Jobs
                    /\ tag' \in Tags /\ wmp' \in BOOLEAN /\ connected' \in BOOLEAN
                    /\ eeprom' \in [Cells -> Data] /\ image' \in [Cells -> Data]
                    /\ InBounds'
<1> SUFFICES Typed BY DEF TypeInv, TypeOK, Outputs, Contained
<1>1. PICK n \in Sizes, ack \in BOOLEAN :
         \/ \E o \in Offsets : ReadEeprom(o, n, ack)
         \/ \E r \in Registers : ReadExtension(r, n, ack) \/ ReadMotionPlus(r, n, ack)
         \/ ReadSpeaker(n, ack) \/ ReadCamera(n, ack) \/ ReadOther(n, ack)
  BY DEF Read
<1>2. /\ n \in Nat /\ n \in Sizes \cup 0..Chunk /\ 0 \in Offsets \cup {0}
      /\ 0 \in Nat /\ Chunk \in Nat
  BY MemoryAssumption
<1>3. ASSUME request = NoRequest, UNCHANGED job PROVE InBounds'
  BY <1>3 DEF TypeInv, InBounds, NoRequest
<1>4. ASSUME NEW o \in Offsets, ReadEeprom(o, n, ack) PROVE Typed
  <2>1. /\ request' \in Requests /\ request = NoRequest
        /\ request'.op = "read" /\ request'.offset = o /\ request'.size = n
    BY <1>2, <1>4, RequestTyped DEF ReadEeprom, Spaces, Registers
  <2>2. o \in Nat BY MemoryAssumption
  <2>3. CASE InRange(o, n)
    <3>1. /\ job' \in Jobs /\ out' \in Seq(Outputs) /\ job'.size = n % Byte
      BY <1>2, <1>4, <2>3, StartTyped DEF ReadEeprom, Sources
    <3>2. n % Byte <= n BY <1>2, MemoryAssumption, Z3
    <3>3. o + (n % Byte) <= LastByte
      BY <1>2, <2>2, <2>3, <3>2, ModFact, MemoryAssumption DEF InRange
    <3>4. InBounds' BY <2>1, <3>1, <3>3 DEF InBounds
    <3> QED BY <1>0, <1>4, <2>1, <3>1, <3>4 DEF ReadEeprom
  <2>4. CASE ~InRange(o, n)
    <3>1. out' \in Seq(Outputs) /\ job' = job
      BY <1>2, <1>4, <2>2, <2>4, RefuseTyped DEF ReadEeprom
    <3> QED BY <1>0, <1>3, <1>4, <2>1, <3>1 DEF ReadEeprom
  <2> QED BY <2>3, <2>4
<1>5. ASSUME NEW r \in Registers, ReadExtension(r, n, ack) PROVE Typed
  <2>1. request' \in Requests /\ request = NoRequest /\ request'.op = "read"
    BY <1>2, <1>5, RequestTyped DEF ReadExtension, Spaces, Blocks
  <2>2. tag' \in Tags BY <1>0, <1>5 DEF ReadExtension, Tags
  <2>3. CASE StartJob(n, "motionplus") \/ StartJob(n, "extension")
    <3>1. /\ job' \in Jobs /\ out' \in Seq(Outputs) /\ job'.source # "eeprom"
      BY <1>2, <2>3, StartTyped DEF Sources
    <3>2. InBounds' BY <2>1, <3>1 DEF InBounds
    <3> QED BY <1>0, <1>5, <2>1, <2>2, <3>1, <3>2 DEF ReadExtension
  <2>4. CASE Refuse(Chunk, 0, ack)
    <3>1. out' \in Seq(Outputs) /\ job' = job BY <1>2, <2>4, RefuseTyped
    <3> QED BY <1>0, <1>3, <1>5, <2>1, <2>2, <3>1 DEF ReadExtension
  <2> QED BY <1>5, <2>3, <2>4 DEF ReadExtension
<1>6. ASSUME NEW r \in Registers, ReadMotionPlus(r, n, ack) PROVE Typed
  <2>1. request' \in Requests /\ request = NoRequest /\ request'.op = "read"
    BY <1>2, <1>6, RequestTyped DEF ReadMotionPlus, Spaces, Blocks
  <2>2. /\ job' \in Jobs /\ out' \in Seq(Outputs) /\ job'.source # "eeprom"
    BY <1>2, <1>6, StartTyped DEF ReadMotionPlus, Sources
  <2>3. InBounds' BY <2>1, <2>2 DEF InBounds
  <2> QED BY <1>0, <1>6, <2>1, <2>2, <2>3 DEF ReadMotionPlus
<1>7. ASSUME ReadSpeaker(n, ack) PROVE Typed
  <2>0. Request("read", "A2", "data", 0, n, ack) BY <1>7 DEF ReadSpeaker
  <2>1. request' \in Requests /\ request = NoRequest /\ request'.op = "read"
    BY <1>2, <2>0 DEF Request, Requests, Spaces, Blocks, Registers
  <2>2. /\ job' \in Jobs /\ out' \in Seq(Outputs) /\ job'.source # "eeprom"
    BY <1>2, <1>7, StartTyped DEF ReadSpeaker, Sources
  <2>3. InBounds' BY <2>1, <2>2 DEF InBounds
  <2> QED BY <1>0, <1>7, <2>1, <2>2, <2>3 DEF ReadSpeaker
<1>8. ASSUME ReadCamera(n, ack) PROVE Typed
  <2>0. Request("read", "B0", "data", 0, n, ack) BY <1>8 DEF ReadCamera
  <2>1. request' \in Requests /\ request = NoRequest /\ request'.op = "read"
    BY <1>2, <2>0 DEF Request, Requests, Spaces, Blocks, Registers
  <2>2. /\ job' \in Jobs /\ out' \in Seq(Outputs) /\ job'.source # "eeprom"
    BY <1>2, <1>8, StartTyped DEF ReadCamera, Sources
  <2>3. InBounds' BY <2>1, <2>2 DEF InBounds
  <2> QED BY <1>0, <1>8, <2>1, <2>2, <2>3 DEF ReadCamera
<1>9. ASSUME ReadOther(n, ack) PROVE Typed
  <2>1. request' \in Requests /\ request = NoRequest
    BY <1>2, <1>9, RequestTyped DEF ReadOther, Spaces, Blocks, Registers
  <2>2. out' \in Seq(Outputs) BY <1>9, AcksTyped DEF ReadOther
  <2> QED BY <1>0, <1>3, <1>9, <2>1, <2>2 DEF ReadOther
<1> QED BY <1>1, <1>4, <1>5, <1>6, <1>7, <1>8, <1>9

\* One turn of the loop: the chunk lies inside the EEPROM.
LEMMA ChunkFact ==
    ASSUME TypeInv, job.on, job.index < job.size
    PROVE  LET count == Smaller(job.size - job.index, Chunk)
           IN  /\ count \in 1..Chunk
               /\ (count - 1) % Chunk = count - 1
               /\ job.index \in Nat /\ job.size \in Nat /\ request.offset \in Nat
               /\ job.source = "eeprom" =>
                     Slice(eeprom, request.offset + job.index, count) \in Seq(Data)
<1> DEFINE count == Smaller(job.size - job.index, Chunk)
<1>j. job \in Jobs /\ request \in Requests BY DEF TypeInv, TypeOK
<1>o. request.offset \in Offsets \cup {0} BY <1>j DEF Requests
<1>r. request.offset \in Nat
  <2> DEFINE offset == request.offset
  <2>1. offset \in Offsets \cup {0} BY <1>o
  <2> HIDE DEF offset
  <2>2. offset \in Nat BY <2>1, MemoryAssumption
  <2> QED BY <2>2 DEF offset
<1>1. job.index \in Nat /\ job.size \in Nat /\ request.offset \in Nat
  BY <1>j, <1>r, MemoryAssumption DEF Jobs
<1>2. count \in 1..Chunk /\ count <= job.size - job.index
  BY <1>1, MemoryAssumption DEF Smaller
<1>3. (count - 1) % Chunk = count - 1
  <2> HIDE DEF count
  <2>1. count - 1 \in Nat /\ count - 1 < Chunk /\ Chunk \in Nat \ {0}
    BY <1>2, MemoryAssumption
  <2> QED BY <2>1, ModFact
<1>4. ASSUME job.source = "eeprom"
      PROVE  Slice(eeprom, request.offset + job.index, count) \in Seq(Data)
  <2>1. request.offset + job.size <= LastByte BY <1>4 DEF TypeInv, InBounds
  <2>2. \A i \in 1..count : request.offset + job.index + i - 1 \in Cells
    BY <1>1, <1>2, <2>1, MemoryAssumption DEF Cells
  <2>3. \A i \in 1..count : eeprom[request.offset + job.index + i - 1] \in Data
    BY <2>2 DEF TypeInv, TypeOK
  <2> HIDE DEF count
  <2>4. count \in Nat BY <1>2
  <2> QED BY <2>3, <2>4 DEF Slice
<1> QED BY <1>1, <1>2, <1>3, <1>4

\* The loop of mote_input_data_read and the way back to the stack.
LEMMA LoopTyped ==
    ASSUME TypeInv, SendChunk \/ EndRead \/ Return \/ PlugChanges PROVE TypeInv'
<1>0. /\ out \in Seq(Outputs) /\ tag \in Tags /\ job \in Jobs /\ request \in Requests
      /\ "A6" \in Tags
  BY DEF TypeInv, TypeOK, Outputs, Contained, Tags
<1>1. CASE SendChunk
  <2> DEFINE count == Smaller(job.size - job.index, Chunk)
             address == request.offset + job.index
             data == IF job.source = "eeprom" THEN Slice(eeprom, address, count)
                     ELSE <<Contents>>
  <2>1. /\ count \in 1..Chunk /\ (count - 1) % Chunk = count - 1
        /\ job.index \in Nat /\ job.size \in Nat /\ request.offset \in Nat
        /\ job.source = "eeprom" => Slice(eeprom, address, count) \in Seq(Data)
    BY <1>1, ChunkFact DEF SendChunk
  <2>2. Contents \in Contained BY <1>0 DEF Contents, Contained, Jobs
  <2>3. data \in Seq(Contained)
    <3>1. CASE job.source = "eeprom"
      <4>1. Slice(eeprom, address, count) \in Seq(Data) BY <2>1, <3>1
      <4> HIDE DEF address, count
      <4>2. Seq(Data) \subseteq Seq(Contained) BY DEF Contained
      <4> QED BY <3>1, <4>1, <4>2
    <3>2. CASE job.source # "eeprom" BY <2>2, <3>2
    <3> QED BY <3>1, <3>2
  <2>4. out' = Append(out, DataReport(count - 1, address, data))
    BY <1>1, <2>1 DEF SendChunk
  <2>5. count - 1 \in 0..(Chunk - 1) /\ address \in Nat BY <2>1, MemoryAssumption
  <2> HIDE DEF count, address, data
  <2>6. DataReport(count - 1, address, data) \in Outputs
    BY <2>3, <2>5 DEF DataReport, Outputs
  <2>7. out' \in Seq(Outputs) BY <1>0, <2>4, <2>6
  <2>8. /\ job' \in Jobs /\ job'.on = job.on /\ job'.size = job.size
        /\ job'.source = job.source
    <3>1. job.index + Chunk \in Nat BY <2>1, MemoryAssumption
    <3>2. job' = [job EXCEPT !.index = job.index + Chunk] BY <1>1 DEF SendChunk
    <3> QED BY <1>0, <3>1, <3>2 DEF Jobs
  <2> QED BY <1>1, <2>7, <2>8 DEF SendChunk, TypeInv, TypeOK, InBounds, Outputs, Contained
<1>2. CASE EndRead
  <2>1. Acks(request.ack) \in Seq(Outputs) BY <1>0, AcksTyped DEF Requests
  <2>2. out' \in Seq(Outputs) BY <1>0, <1>2, <2>1 DEF EndRead
  <2>3. job' \in Jobs /\ ~job'.on BY <1>2, MemoryAssumption DEF EndRead, Idle, Jobs, Sources
  <2>4. tag' \in Tags BY <1>0, <1>2 DEF EndRead
  <2> QED BY <1>2, <2>2, <2>3, <2>4 DEF EndRead, TypeInv, TypeOK, InBounds, Outputs, Contained
<1>3. CASE Return
  <2>1. request' \in Requests
    BY <1>3, MemoryAssumption DEF Return, NoRequest, Requests, Spaces, Registers
  <2>2. out' \in Seq(Outputs) BY <1>3 DEF Return
  <2> QED BY <1>3, <2>1, <2>2 DEF Return, TypeInv, TypeOK, InBounds, Outputs, Contained
<1>4. CASE PlugChanges
  BY <1>4 DEF PlugChanges, TypeInv, TypeOK, InBounds
<1> QED BY <1>1, <1>2, <1>3, <1>4

\* Every step of the host, of the Bluetooth task and of the main loop keeps the
\* typing invariant.
LEMMA StepTyped == TypeInv /\ [Next]_vars => TypeInv'
<1> SUFFICES ASSUME TypeInv, [Next]_vars PROVE TypeInv' OBVIOUS
<1>1. CASE Write BY <1>1, WriteTyped
<1>2. CASE Read BY <1>2, ReadTyped
<1>3. CASE SendChunk \/ EndRead \/ Return \/ PlugChanges BY <1>3, LoopTyped
<1>4. CASE UNCHANGED vars BY <1>4 DEF vars, TypeInv, TypeOK, InBounds
<1> QED BY <1>1, <1>2, <1>3, <1>4 DEF Next

\* Every variable keeps its type, and a size nibble its four bits.
THEOREM MemoryTypeCorrect == Spec => []TypeOK
<1>1. Spec => []TypeInv BY InitTyped, StepTyped, PTL DEF Spec
<1>2. TypeInv => TypeOK BY DEF TypeInv
<1> QED BY <1>1, <1>2, PTL

----------------------------------------------------------------------------
(***************************************************************************)
(* EEPROM reads. ReadReturnsImage speaks of the finished read only; in the *)
(* invariant the replies so far are a prefix of what is to be sent, as     *)
(* many as whole chunks fit below the loop index.                          *)
(***************************************************************************)
EepromRead ==
    /\ request.op = "read" /\ request.space = "eeprom"
    /\ InRange(request.offset, request.size) /\ request.size < Byte

SentSoFar(n) ==
    /\ (n - 1) * Chunk < request.size
    /\ job.on => /\ job.source = "eeprom" /\ job.size = request.size
                 /\ job.index = n * Chunk
                 /\ out = [k \in 1..n |-> Reply(k)]
    /\ ~job.on => /\ request.size <= n * Chunk
                  /\ out = [k \in 1..n |-> Reply(k)] \o Acks(request.ack)

ImageInv ==
    /\ image = eeprom
    /\ EepromRead => \E n \in Nat : SentSoFar(n)

\* The chunks so far are as many as the replies.
LEMMA PrefixLength ==
    ASSUME TypeInv, NEW n \in Nat, out = [k \in 1..n |-> Reply(k)]
    PROVE  Len(out) = n
<1>1. out \in Seq(Outputs) BY DEF TypeInv, TypeOK, Outputs, Contained
<1>2. DOMAIN out = 1..n OBVIOUS
<1>3. Len(out) \in Nat /\ DOMAIN out = 1..Len(out) BY <1>1, LenProperties
<1>4. (n + 1 \notin 1..n) /\ (Len(out) + 1 \notin 1..Len(out)) BY <1>3
<1>5. (n < Len(out) => n + 1 \in 1..Len(out)) /\ (Len(out) < n => Len(out) + 1 \in 1..n)
  BY <1>3
<1> QED BY <1>2, <1>3, <1>4, <1>5

\* One more chunk.
LEMMA NextChunk ==
    ASSUME TypeInv, ImageInv, EepromRead, SendChunk, NEW n \in Nat, SentSoFar(n)
    PROVE  SentSoFar(n + 1)'
<1> DEFINE count == Smaller(job.size - job.index, Chunk)
           address == request.offset + job.index
<1>1. /\ job.on /\ job.index < job.size
      /\ job.source = "eeprom" /\ job.size = request.size /\ job.index = n * Chunk
      /\ out = [k \in 1..n |-> Reply(k)]
  BY DEF SendChunk, SentSoFar
<1>2. /\ count \in 1..Chunk /\ (count - 1) % Chunk = count - 1
      /\ job.index \in Nat /\ job.size \in Nat
  BY <1>1, ChunkFact
<1>3. (n + 1) - 1 = n /\ n + 1 \in Nat /\ (n + 1) * Chunk = n * Chunk + Chunk
  BY MemoryAssumption, Z3
<1>4. DataReport((count - 1) % Chunk, address, Slice(eeprom, address, count)) = Reply(n + 1)
  <2>1. ((n + 1) - 1) * Chunk = job.index BY <1>1, <1>3
  <2> QED BY <1>1, <1>2, <2>1 DEF Reply, ImageInv
<1>5. out' = Append(out, Reply(n + 1)) BY <1>1, <1>4 DEF SendChunk
<1>6. out' = [k \in 1..(n + 1) |-> Reply(k)]
  <2>1. out \in Seq(Outputs) /\ Len(out) = n
    BY <1>1, PrefixLength DEF TypeInv, TypeOK, Outputs, Contained
  <2>2. out' = [k \in 1..(Len(out) + 1) |-> IF k <= Len(out) THEN out[k] ELSE Reply(n + 1)]
    BY <1>5, <2>1
  <2>3. \A k \in 1..(n + 1) : k <= n => out[k] = Reply(k) BY <1>1
  <2>4. \A k \in 1..(n + 1) : ~(k <= n) => k = n + 1 OBVIOUS
  <2> QED BY <2>1, <2>2, <2>3, <2>4
<1>7. request' = request /\ image' = image BY DEF SendChunk
<1>8. out' = [k \in 1..(n + 1) |-> Reply(k)'] BY <1>6, <1>7 DEF Reply
<1>9. /\ job'.on /\ job'.source = "eeprom" /\ job'.size = request'.size
      /\ job'.index = (n + 1) * Chunk
  <2>1. job' = [job EXCEPT !.index = job.index + Chunk] BY DEF SendChunk
  <2>2. job \in Jobs BY DEF TypeInv, TypeOK
  <2> QED BY <1>1, <1>3, <1>7, <2>1, <2>2 DEF Jobs
<1>10. ((n + 1) - 1) * Chunk < request'.size BY <1>1, <1>3, <1>7
<1> QED BY <1>8, <1>9, <1>10 DEF SentSoFar

\* A new request, or none: an EEPROM read in bounds starts without replies.
LEMMA NewRequestImage ==
    ASSUME TypeInv, ImageInv, Write \/ Read \/ Return PROVE ImageInv'
<1>1. CASE Write
  <2>w. \E space, reg, offset, size : Request("write", space, reg, offset, size, FALSE)
    BY <1>1, Zenon DEF Write, WriteEeprom, WriteExtension, WriteMotionPlus, WriteSpeaker,
                WriteCamera, WriteOther
  <2>1. request'.op = "write" BY <2>w DEF Request
  <2>2. image' = eeprom'
    BY <1>1 DEF Write, WriteEeprom, WriteExtension, WriteMotionPlus, WriteSpeaker,
                WriteCamera, WriteOther, ImageInv
  <2> QED BY <2>1, <2>2 DEF ImageInv, EepromRead
<1>2. CASE Return
  <2>1. request'.op = "none" BY <1>2 DEF Return, NoRequest
  <2> QED BY <1>2, <2>1 DEF Return, ImageInv, EepromRead
<1>3. ASSUME NEW o \in Offsets, NEW n \in Sizes, NEW ack \in BOOLEAN, ReadEeprom(o, n, ack)
      PROVE  ImageInv'
  <2>1. image' = eeprom' BY <1>3 DEF ReadEeprom, ImageInv
  <2>2. request'.offset = o /\ request'.size = n BY <1>3 DEF ReadEeprom, Request
  <2>3. ASSUME EepromRead' PROVE SentSoFar(0)'
    <3>1. InRange(o, n) /\ n < Byte BY <2>2, <2>3 DEF EepromRead
    <3>2. n \in Nat /\ Byte \in Nat \ {0} /\ Chunk \in Nat \ {0} BY MemoryAssumption
    <3>3. n % Byte = n BY <3>1, <3>2, ModFact
    <3>4. StartJob(n, "eeprom") BY <1>3, <3>1 DEF ReadEeprom
    <3>5. /\ job'.on /\ job'.source = "eeprom" /\ job'.size = n /\ job'.index = 0
          /\ out' = <<>>
      BY <3>3, <3>4 DEF StartJob
    <3>6. 0 * Chunk = 0 /\ (0 - 1) * Chunk < n BY <3>2, Z3
    <3>7. out' = [k \in 1..0 |-> Reply(k)'] BY <3>5
    <3> QED BY <2>2, <3>5, <3>6, <3>7 DEF SentSoFar
  <2> QED BY <2>1, <2>3 DEF ImageInv
<1>4. ASSUME NEW n \in Sizes, NEW ack \in BOOLEAN,
             \/ \E r \in Registers : ReadExtension(r, n, ack) \/ ReadMotionPlus(r, n, ack)
             \/ ReadSpeaker(n, ack) \/ ReadCamera(n, ack) \/ ReadOther(n, ack)
      PROVE  ImageInv'
  <2>1. request'.space # "eeprom"
    BY <1>4 DEF ReadExtension, ReadMotionPlus, ReadSpeaker, ReadCamera, ReadOther, Request
  <2>2. image' = eeprom'
    BY <1>4 DEF ReadExtension, ReadMotionPlus, ReadSpeaker, ReadCamera, ReadOther, ImageInv
  <2> QED BY <2>1, <2>2 DEF ImageInv, EepromRead
<1> QED BY <1>1, <1>2, <1>3, <1>4 DEF Read

\* The loop, its end, and steps that do not concern the read.
LEMMA StepImage == TypeInv /\ ImageInv /\ [Next]_vars => ImageInv'
<1> SUFFICES ASSUME TypeInv, ImageInv, [Next]_vars PROVE ImageInv' OBVIOUS
<1>1. CASE Write \/ Read \/ Return BY <1>1, NewRequestImage
<1>2. CASE SendChunk
  <2>1. image' = eeprom' /\ request' = request BY <1>2 DEF SendChunk, ImageInv
  <2>2. ASSUME EepromRead' PROVE \E n \in Nat : SentSoFar(n)'
    <3>1. EepromRead BY <2>1, <2>2 DEF EepromRead
    <3>2. PICK n \in Nat : SentSoFar(n) BY <3>1 DEF ImageInv
    <3>3. SentSoFar(n + 1)' BY <1>2, <3>1, <3>2, NextChunk
    <3> QED BY <3>3
  <2> QED BY <2>1, <2>2 DEF ImageInv
<1>3. CASE EndRead
  <2>1. image' = eeprom' /\ image' = image /\ request' = request
    BY <1>3 DEF EndRead, ImageInv
  <2>2. ASSUME EepromRead' PROVE \E n \in Nat : SentSoFar(n)'
    <3>1. EepromRead BY <2>1, <2>2 DEF EepromRead
    <3>2. PICK n \in Nat : SentSoFar(n) BY <3>1 DEF ImageInv
    <3>3. /\ request.size <= n * Chunk /\ (n - 1) * Chunk < request.size
          /\ out' = [k \in 1..n |-> Reply(k)] \o Acks(request.ack) /\ ~job'.on
      BY <1>3, <3>2 DEF EndRead, SentSoFar, Idle
    <3>4. [k \in 1..n |-> Reply(k)] = [k \in 1..n |-> Reply(k)'] BY <2>1 DEF Reply
    <3> QED BY <2>1, <3>3, <3>4 DEF SentSoFar
  <2> QED BY <2>1, <2>2 DEF ImageInv
<1>4. CASE PlugChanges \/ UNCHANGED vars
  <2>1. /\ image' = image /\ eeprom' = eeprom /\ request' = request /\ job' = job
        /\ out' = out
    BY <1>4 DEF PlugChanges, vars
  <2>2. \A n \in Nat : [k \in 1..n |-> Reply(k)] = [k \in 1..n |-> Reply(k)']
    BY <2>1 DEF Reply
  <2> QED BY <2>1, <2>2 DEF ImageInv, EepromRead, SentSoFar
<1> QED BY <1>1, <1>2, <1>3, <1>4 DEF Next

\* EEPROM reads return what acknowledged writes left there, for every size of
\* the EEPROM, of a chunk and of the length type, and every request.
THEOREM ReadsReturnImage == Spec => []ReadReturnsImage
<1>1. Init => ImageInv
  <2>1. Init => image = eeprom /\ request.op = "none" BY DEF Init, NoRequest
  <2> QED BY <2>1 DEF ImageInv, EepromRead
<1>2. TypeInv /\ ImageInv => ReadReturnsImage
  <2> SUFFICES ASSUME TypeInv, ImageInv, Handled, EepromRead
               PROVE  \E n \in 0..Len(out) :
                         /\ (n - 1) * Chunk < request.size /\ request.size <= n * Chunk
                         /\ out = [k \in 1..n |-> Reply(k)] \o Acks(request.ack)
    BY DEF ReadReturnsImage, EepromRead
  <2>1. PICK n \in Nat : SentSoFar(n) BY DEF ImageInv
  <2>2. /\ (n - 1) * Chunk < request.size /\ request.size <= n * Chunk
        /\ out = [k \in 1..n |-> Reply(k)] \o Acks(request.ack)
    BY <2>1 DEF SentSoFar, Handled
  <2>3. n \in 0..Len(out)
    <3> DEFINE AnyReply == {Reply(k) : k \in 1..n} \cup Outputs
               replies == [k \in 1..n |-> Reply(k)]
    <3>1. replies \in Seq(AnyReply) OBVIOUS
    <3>2. request \in Requests BY DEF TypeInv, TypeOK
    <3>3. Acks(request.ack) \in Seq(Outputs) BY <3>2, AcksTyped DEF Requests
    <3>4. Acks(request.ack) \in Seq(AnyReply) BY <3>3, SeqMonotonic
    <3>5. Len(replies) = n /\ Len(Acks(request.ack)) \in Nat BY <3>3, LenProperties
    <3> HIDE DEF AnyReply, replies
    <3>6. Len(replies \o Acks(request.ack)) = n + Len(Acks(request.ack))
      BY <3>1, <3>4, <3>5, ConcatProperties
    <3> QED BY <2>2, <3>5, <3>6 DEF replies
  <2> QED BY <2>2, <2>3
<1> QED BY <1>1, <1>2, InitTyped, StepTyped, StepImage, PTL DEF Spec

----------------------------------------------------------------------------
(***************************************************************************)
(* The identifier tag. The A4 tag is in the shared bytes exactly while an  *)
(* A4 read is served from the MotionPlus registers, so no other read can   *)
(* see it; which block a read is served from is fixed when it starts.      *)
(***************************************************************************)
TagInv ==
    /\ tag = "A4" => job.on /\ request.space = "A4" /\ job.source = "motionplus"
    /\ job.on => /\ request.space = "A4" =>
                       \/ job.source = "extension"
                       \/ job.source = "motionplus" /\ tag = "A4"
                 /\ request.space = "A6" => job.source = "motionplus"

TagsShown ==
    (request.op = "read" /\ request.reg = "FC") =>
        \A k \in DOMAIN out : out[k].kind = "data" =>
            /\ request.space = "A4" => out[k].data \notin {<<"A6">>, <<"host">>}
            /\ request.space = "A6" => out[k].data # <<"A4">>

NoData(s) == \A k \in DOMAIN s : s[k].kind # "data"

\* An acknowledgement carries no register contents, nor does a refusal.
LEMMA AcksNoData ==
    ASSUME NEW s \in Seq(Outputs), NEW ack \in BOOLEAN
    PROVE  /\ \A k \in DOMAIN (s \o Acks(ack)) :
                 (s \o Acks(ack))[k].kind = "data" =>
                     k \in DOMAIN s /\ (s \o Acks(ack))[k] = s[k]
           /\ NoData(Acks(ack))
<1>1. NoData(Acks(ack)) BY DEF NoData, Acks, Ack
<1>2. Acks(ack) \in Seq(Outputs) BY AcksTyped
<1> DEFINE t == Acks(ack)
<1> HIDE DEF t
<1>3. t \in Seq(Outputs) /\ NoData(t) BY <1>1, <1>2 DEF t
<1>4. ASSUME NEW k \in DOMAIN (s \o t), (s \o t)[k].kind = "data"
      PROVE  k \in DOMAIN s /\ (s \o t)[k] = s[k]
  <2>1. /\ k \in 1..(Len(s) + Len(t)) /\ Len(s) \in Nat /\ Len(t) \in Nat
        /\ DOMAIN s = 1..Len(s) /\ DOMAIN t = 1..Len(t)
    BY <1>3, <1>4, ConcatProperties, LenProperties
  <2>2. (s \o t)[k] = IF k <= Len(s) THEN s[k] ELSE t[k - Len(s)]
    BY <1>3, <2>1, ConcatProperties
  <2>3. CASE k <= Len(s) BY <2>1, <2>2, <2>3
  <2>4. CASE ~(k <= Len(s))
    <3>1. k - Len(s) \in DOMAIN t BY <2>1, <2>4
    <3> QED BY <1>3, <1>4, <2>2, <2>4, <3>1 DEF NoData
  <2> QED BY <2>3, <2>4
<1> QED BY <1>1, <1>4 DEF t

\* The reply to a refused read carries no register contents.
LEMMA RefuseNoData ==
    ASSUME NEW size \in Nat, NEW offset \in Nat, NEW ack \in BOOLEAN,
           Refuse(size, offset, ack)
    PROVE  NoData(out')
<1> DEFINE nibble == Smaller(size % Byte, Chunk) % Chunk
<1>1. out' = <<ErrorReport(nibble, offset)>> \o Acks(ack) BY DEF Refuse
<1>2. size % Byte \in Nat BY ModFact, MemoryAssumption
<1>3. Smaller(size % Byte, Chunk) \in Nat BY <1>2, SmallerFact, MemoryAssumption
<1>4. nibble \in 0..(Chunk - 1) BY <1>3, ModFact, MemoryAssumption
<1> HIDE DEF nibble
<1>5. ErrorReport(nibble, offset) \in Outputs
  <2>1. <<>> \in Seq(Contained) OBVIOUS
  <2> QED BY <1>4, <2>1 DEF ErrorReport, Outputs
<1>6. <<ErrorReport(nibble, offset)>> \in Seq(Outputs) BY <1>5
<1>7. NoData(<<ErrorReport(nibble, offset)>>) BY DEF NoData, ErrorReport
<1> QED BY <1>1, <1>6, <1>7, AcksNoData DEF NoData

\* A new request: only an A4 read of the MotionPlus sets the A4 tag.
LEMMA NewRequestTag ==
    ASSUME TypeInv, TagInv, Write \/ Read \/ Return PROVE TagInv' /\ TagsShown'
<1>0. ASSUME request = NoRequest PROVE ~job.on /\ tag # "A4"
  BY <1>0 DEF NoRequest, TypeInv, InBounds, TagInv
<1>1. CASE Write
  <2>w. \E space, reg, offset, size : Request("write", space, reg, offset, size, FALSE)
    BY <1>1, Zenon DEF Write, WriteEeprom, WriteExtension, WriteMotionPlus, WriteSpeaker,
                WriteCamera, WriteOther
  <2>1. request'.op = "write" /\ request = NoRequest BY <2>w DEF Request
  <2>2. tag' \in {tag, "host"} /\ job' = job
    BY <1>1 DEF Write, WriteEeprom, WriteExtension, WriteMotionPlus, WriteSpeaker,
                WriteCamera, WriteOther
  <2> QED BY <1>0, <2>1, <2>2 DEF TagInv, TagsShown
<1>2. CASE Return
  BY <1>2 DEF Return, NoRequest, TagInv, TagsShown
<1>3. CASE Read
  <2>1. PICK n \in Sizes, ack \in BOOLEAN :
           \/ \E o \in Offsets : ReadEeprom(o, n, ack)
           \/ \E r \in Registers : ReadExtension(r, n, ack) \/ ReadMotionPlus(r, n, ack)
           \/ ReadSpeaker(n, ack) \/ ReadCamera(n, ack) \/ ReadOther(n, ack)
    BY <1>3 DEF Read
  <2>2. n \in Nat /\ 0 \in Nat /\ Chunk \in Nat BY MemoryAssumption
  <2>3. ASSUME NEW o \in Offsets, ReadEeprom(o, n, ack) PROVE TagInv' /\ TagsShown'
    <3>1. /\ request = NoRequest /\ request'.space = "eeprom" /\ tag' = tag
      BY <2>3 DEF ReadEeprom, Request
    <3> QED BY <1>0, <3>1 DEF TagInv, TagsShown
  <2>4. ASSUME NEW r \in Registers, ReadExtension(r, n, ack) PROVE TagInv' /\ TagsShown'
    <3>1. request = NoRequest /\ request'.space = "A4" BY <2>4 DEF ReadExtension, Request
    <3>2. CASE wmp /\ tag' = "A4" /\ StartJob(n, "motionplus")
      BY <3>1, <3>2 DEF StartJob, TagInv, TagsShown
    <3>3. CASE StartJob(n, "extension") /\ UNCHANGED tag
      BY <1>0, <3>1, <3>3 DEF StartJob, TagInv, TagsShown
    <3>4. CASE Refuse(Chunk, 0, ack) /\ UNCHANGED tag
      <4>1. NoData(out') /\ job' = job BY <2>2, <3>4, RefuseNoData, RefuseTyped
      <4> QED BY <1>0, <3>1, <3>4, <4>1 DEF NoData, TagInv, TagsShown
    <3> QED BY <2>4, <3>2, <3>3, <3>4 DEF ReadExtension
  <2>5. ASSUME NEW r \in Registers, ReadMotionPlus(r, n, ack) PROVE TagInv' /\ TagsShown'
    <3>1. /\ request = NoRequest /\ request'.space = "A6" /\ tag' = tag
          /\ job'.source = "motionplus" /\ out' = <<>>
      BY <2>5 DEF ReadMotionPlus, Request, StartJob
    <3> QED BY <1>0, <3>1 DEF TagInv, TagsShown
  <2>6. ASSUME ReadSpeaker(n, ack) \/ ReadCamera(n, ack) \/ ReadOther(n, ack)
        PROVE  TagInv' /\ TagsShown'
    <3>1. /\ request = NoRequest /\ request'.space \in {"A2", "B0", "other"} /\ tag' = tag
      BY <2>6 DEF ReadSpeaker, ReadCamera, ReadOther, Request
    <3> QED BY <1>0, <3>1 DEF TagInv, TagsShown
  <2> QED BY <2>1, <2>3, <2>4, <2>5, <2>6
<1> QED BY <1>1, <1>2, <1>3

\* A chunk, the end of the loop, and steps that do not concern the read.
LEMMA StepTag ==
    TypeInv /\ TagInv /\ TagsShown /\ [Next]_vars => TagInv' /\ TagsShown'
<1> SUFFICES ASSUME TypeInv, TagInv, TagsShown, [Next]_vars PROVE TagInv' /\ TagsShown'
  OBVIOUS
<1>0. /\ out \in Seq(Outputs) /\ request \in Requests /\ job \in Jobs
  BY DEF TypeInv, TypeOK, Outputs, Contained
<1>1. CASE Write \/ Read \/ Return BY <1>1, NewRequestTag
<1>2. CASE SendChunk
  <2>1. /\ request' = request /\ tag' = tag /\ job.on /\ job'.on = job.on
        /\ job'.source = job.source
    BY <1>0, <1>2 DEF SendChunk, Jobs
  <2>2. TagInv' BY <2>1 DEF TagInv
  <2> DEFINE count == Smaller(job.size - job.index, Chunk)
             address == request.offset + job.index
             data == IF job.source = "eeprom" THEN Slice(eeprom, address, count)
                     ELSE <<Contents>>
             reply == DataReport((count - 1) % Chunk, address, data)
  <2>3. out' = Append(out, reply) BY <1>2 DEF SendChunk
  <2>4. ASSUME request.reg = "FC"
        PROVE  /\ request.space = "A4" => data \notin {<<"A6">>, <<"host">>}
               /\ request.space = "A6" => data # <<"A4">>
    BY <2>1, <2>4 DEF TagInv, Contents
  <2>5. reply.data = data BY DEF DataReport
  <2> HIDE DEF reply, data, address, count
  <2>6. ASSUME NEW k \in DOMAIN out'
        PROVE  (k \in DOMAIN out /\ out'[k] = out[k]) \/ out'[k] = reply
    BY <1>0, <2>3, <2>6
  <2>7. TagsShown' BY <2>1, <2>4, <2>5, <2>6 DEF TagsShown
  <2> QED BY <2>2, <2>7
<1>3. CASE EndRead
  <2>1. /\ request' = request /\ ~job'.on /\ job.on BY <1>3 DEF EndRead, Idle
  <2>2. tag' # "A4"
    <3>0. tag' = IF request.space = "A4" /\ job.source = "motionplus" THEN "A6" ELSE tag
      BY <1>3 DEF EndRead
    <3>1. CASE request.space = "A4" /\ job.source = "motionplus" BY <3>0, <3>1
    <3>2. CASE request.space # "A4" BY <3>0, <3>2 DEF TagInv
    <3>3. CASE request.space = "A4" /\ job.source = "extension"
      BY <3>0, <3>3 DEF TagInv
    <3> QED BY <2>1, <3>1, <3>2, <3>3 DEF TagInv
  <2>3. TagInv' BY <2>1, <2>2 DEF TagInv
  <2>4. request.ack \in BOOLEAN BY <1>0 DEF Requests
  <2>5. ASSUME NEW k \in DOMAIN out', out'[k].kind = "data"
        PROVE  k \in DOMAIN out /\ out'[k] = out[k]
    BY <1>0, <1>3, <2>4, <2>5, AcksNoData DEF EndRead
  <2>6. TagsShown' BY <2>1, <2>5 DEF TagsShown
  <2> QED BY <2>3, <2>6
<1>4. CASE PlugChanges \/ UNCHANGED vars
  BY <1>4 DEF PlugChanges, vars, TagInv, TagsShown
<1> QED BY <1>1, <1>2, <1>3, <1>4 DEF Next

\* No read of the MotionPlus identifier shows the tag of the other block.
THEOREM TagsMatchBlocks == Spec => []TagMatchesBlock
<1>1. Init => TagInv /\ TagsShown BY DEF Init, NoRequest, Idle, TagInv, TagsShown
<1>2. TagInv /\ TagsShown => TagMatchesBlock BY DEF TagsShown, TagMatchesBlock
<1> QED BY <1>1, <1>2, InitTyped, StepTyped, StepTag, PTL DEF Spec

----------------------------------------------------------------------------
(***************************************************************************)
(* Every request is answered to its end. Inside the loop the reports so    *)
(* far are as many as chunks lie below the index, all of them whole but    *)
(* for the one that completes the size; what a read is served from decides *)
(* how many bytes are wanted.                                              *)
(***************************************************************************)
Wanted == IF request.space = "B0" THEN Chunk ELSE request.size
Served == /\ request.op = "read" /\ request.space # "other"
          /\ request.size \in 1..(Byte - 1)

\* The k-th report of a read of so many bytes carries what is left, up to a chunk.
Filled(r, k, size) ==
    /\ r.kind = "data"
    /\ k * Chunk < size => r.nibble = Chunk - 1
    /\ size <= k * Chunk => (k - 1) * Chunk + r.nibble + 1 = size

Loading(n) ==
    /\ job.size = Wanted /\ job.index = n * Chunk /\ Len(out) = n
    /\ n > 0 => (n - 1) * Chunk < Wanted
    /\ \A k \in 1..n : Filled(out[k], k, Wanted)

Complete == \E n \in 1..Len(out) : /\ Answered(n, Wanted)
                                   /\ SubSeq(out, n + 1, Len(out)) = Acks(request.ack)

WriteAcked ==
    (request.op = "write" /\ request.space # "A2") => \E code \in AckCodes : out = <<Ack(code)>>

AnswerInv ==
    /\ WriteAcked
    /\ Served /\ job.on => \E n \in Nat : Loading(n)
    /\ Served /\ ~job.on => Complete

\* Multiples of a chunk grow with their number.
LEMMA Multiples ==
    ASSUME NEW n \in Nat
    PROVE  /\ n * Chunk \in Nat /\ (n + 1) * Chunk = n * Chunk + Chunk
           /\ \A k \in 1..n : k < n => k * Chunk <= (n - 1) * Chunk
           /\ \A k \in 1..n : k * Chunk \in Nat
<1>1. Chunk \in Nat \ {0} BY MemoryAssumption
<1> DEFINE c == Chunk
<1> HIDE DEF c
<1>2. c \in Nat \ {0} BY <1>1 DEF c
<1>3. n * c \in Nat /\ (n + 1) * c = n * c + c BY <1>2, Z3
<1>4. \A k \in 1..n : k * c \in Nat BY <1>2, Z3
<1>5. ASSUME NEW k \in 1..n, k < n PROVE k * c <= (n - 1) * c
  <2>1. PICK d \in Nat : n - 1 = k + d
    <3>1. (n - 1) - k \in Nat /\ n - 1 = k + ((n - 1) - k) BY <1>5
    <3> QED BY <3>1
  <2>2. (n - 1) * c = k * c + d * c BY <1>2, <2>1, Z3
  <2>3. d * c \in Nat /\ k * c \in Nat BY <1>2, Z3
  <2> QED BY <2>2, <2>3
<1> QED BY <1>3, <1>4, <1>5 DEF c

\* What comes after the first reports of a reply.
LEMMA AfterReports ==
    ASSUME NEW s \in Seq(Outputs), NEW t \in Seq(Outputs)
    PROVE  /\ Len(s \o t) = Len(s) + Len(t)
           /\ \A k \in 1..Len(s) : (s \o t)[k] = s[k]
           /\ SubSeq(s \o t, Len(s) + 1, Len(s \o t)) = t
<1>1. /\ s \o t \in Seq(Outputs) /\ Len(s \o t) = Len(s) + Len(t)
      /\ Len(s) \in Nat /\ Len(t) \in Nat
      /\ \A i \in 1..(Len(s) + Len(t)) :
            (s \o t)[i] = IF i <= Len(s) THEN s[i] ELSE t[i - Len(s)]
  BY ConcatProperties, LenProperties
<1>2. CASE Len(t) = 0
  <2>1. t = <<>> BY <1>2, EmptySeq
  <2>2. SubSeq(s \o t, Len(s) + 1, Len(s \o t)) = <<>>
    BY <1>1, <1>2, SubSeqEmpty
  <2> QED BY <1>1, <2>1, <2>2
<1>3. CASE Len(t) # 0
  <2>1. Len(s) + 1 \in Len(s)+1 .. Len(s)+Len(t) /\ Len(s) + Len(t) \in Len(s)+1 .. Len(s)+Len(t)
    BY <1>1, <1>3
  <2>2. SubSeq(s \o t, Len(s) + 1, Len(s) + Len(t))
        = SubSeq(t, Len(s) + 1 - Len(s), Len(s) + Len(t) - Len(s))
    BY <2>1, SubSeqOfConcat2
  <2>3. Len(s) + 1 - Len(s) = 1 /\ Len(s) + Len(t) - Len(s) = Len(t) BY <1>1
  <2>4. SubSeq(t, 1, Len(t)) = t BY SubSeqFull
  <2> QED BY <1>1, <2>2, <2>3, <2>4
<1> QED BY <1>1, <1>2, <1>3

\* A refusal is a complete answer.
LEMMA RefuseComplete ==
    ASSUME NEW size \in Nat, NEW offset \in Nat,
           request'.ack \in BOOLEAN, Refuse(size, offset, request'.ack)
    PROVE  Complete'
<1> DEFINE nibble == Smaller(size % Byte, Chunk) % Chunk
           s == <<ErrorReport(nibble, offset)>>
           t == Acks(request'.ack)
<1>1. out' = s \o t BY DEF Refuse
<1>2. size % Byte \in Nat BY ModFact, MemoryAssumption
<1>3. Smaller(size % Byte, Chunk) \in Nat BY <1>2, SmallerFact, MemoryAssumption
<1>4. nibble \in 0..(Chunk - 1) BY <1>3, ModFact, MemoryAssumption
<1> HIDE DEF nibble
<1>5. s \in Seq(Outputs) /\ Len(s) = 1 /\ s[1].kind = "error"
  <2>1. <<>> \in Seq(Contained) OBVIOUS
  <2> QED BY <1>4, <2>1 DEF ErrorReport, Outputs
<1>6. t \in Seq(Outputs) BY AcksTyped
<1>t. t = Acks(request'.ack) OBVIOUS
<1> HIDE DEF s, t
<1>7. /\ Len(out') = 1 + Len(t) /\ Len(t) \in Nat /\ out'[1] = s[1]
      /\ SubSeq(out', 1 + 1, Len(out')) = t
  <2>1. /\ Len(s \o t) = Len(s) + Len(t)
        /\ \A k \in 1..Len(s) : (s \o t)[k] = s[k]
        /\ SubSeq(s \o t, Len(s) + 1, Len(s \o t)) = t
    BY <1>5, <1>6, AfterReports
  <2>2. Len(t) \in Nat BY <1>6, LenProperties
  <2> QED BY <1>1, <1>5, <2>1, <2>2
<1>8. 1 \in 1..Len(out') BY <1>7
<1>9. Answered(1, Wanted)' BY <1>5, <1>7 DEF Answered
<1> QED BY <1>7, <1>8, <1>9, <1>t DEF Complete

\* A read that is served starts with the size that is wanted and no report.
LEMMA StartLoading ==
    ASSUME NEW size \in Nat, NEW source \in Sources, StartJob(size, source),
           size < Byte, Wanted' = size
    PROVE  job'.on /\ Loading(0)'
<1>0. Byte \in Nat \ {0} BY MemoryAssumption
<1>1. size % Byte = size BY <1>0, ModFact
<1>2. /\ job'.on /\ job'.size = size /\ job'.index = 0 /\ out' = <<>>
  BY <1>1 DEF StartJob
<1>3. 0 * Chunk = 0 BY MemoryAssumption, Z3
<1> QED BY <1>2, <1>3 DEF Loading

\* One more chunk of a served read: whole, unless it completes the size.
LEMMA NextLoading ==
    ASSUME TypeInv, SendChunk, NEW n \in Nat, Loading(n)
    PROVE  Loading(n + 1)'
<1> DEFINE count == Smaller(job.size - job.index, Chunk)
           address == request.offset + job.index
           data == IF job.source = "eeprom" THEN Slice(eeprom, address, count)
                   ELSE <<Contents>>
           reply == DataReport((count - 1) % Chunk, address, data)
<1>1. /\ job.on /\ job.index < job.size /\ out' = Append(out, reply)
      /\ job' = [job EXCEPT !.index = job.index + Chunk] /\ request' = request
  BY DEF SendChunk
<1>2. /\ count \in 1..Chunk /\ (count - 1) % Chunk = count - 1
      /\ job.index \in Nat /\ job.size \in Nat
  BY <1>1, ChunkFact
<1>3. /\ job.size = Wanted /\ job.index = n * Chunk /\ Len(out) = n
      /\ \A k \in 1..n : Filled(out[k], k, Wanted)
  BY DEF Loading
<1>4. count = IF job.size - job.index < Chunk THEN job.size - job.index ELSE Chunk
  BY DEF Smaller
<1>5. reply.kind = "data" /\ reply.nibble = count - 1 BY <1>2 DEF DataReport
<1> HIDE DEF reply, count
<1>6. /\ n * Chunk \in Nat /\ (n + 1) * Chunk = n * Chunk + Chunk
      /\ Chunk \in Nat \ {0} /\ (n + 1) - 1 = n
  BY Multiples, MemoryAssumption
<1>7. Filled(reply, n + 1, Wanted)
  <2>1. (n + 1) * Chunk < Wanted => count = Chunk BY <1>2, <1>3, <1>4, <1>6
  <2>2. Wanted <= (n + 1) * Chunk => n * Chunk + count = Wanted
    BY <1>2, <1>3, <1>4, <1>6
  <2>3. Wanted <= (n + 1) * Chunk => n * Chunk + reply.nibble + 1 = Wanted
    BY <1>2, <1>5, <1>6, <2>2
  <2> QED BY <1>5, <1>6, <2>1, <2>3 DEF Filled
<1>8. out \in Seq(Outputs) BY DEF TypeInv, TypeOK, Outputs, Contained
<1>9. /\ Len(out') = n + 1 /\ \A k \in 1..n : out'[k] = out[k]
      /\ out'[n + 1] = reply
  BY <1>1, <1>3, <1>8
<1>10. \A k \in 1..(n + 1) : Filled(out'[k], k, Wanted)
  <2>1. \A k \in 1..(n + 1) : k \in 1..n \/ k = n + 1 OBVIOUS
  <2> QED BY <1>3, <1>7, <1>9, <2>1
<1>11. /\ job'.size = job.size /\ job'.index = (n + 1) * Chunk
  <2>1. job \in Jobs BY DEF TypeInv, TypeOK
  <2> QED BY <1>1, <1>3, <1>6, <2>1 DEF Jobs
<1>12. Wanted' = Wanted BY <1>1 DEF Wanted
<1>13. n * Chunk < Wanted BY <1>1, <1>3
<1> QED BY <1>3, <1>6, <1>9, <1>10, <1>11, <1>12, <1>13 DEF Loading, Filled

\* The loop over, the last report completed the size.
LEMMA LoadedComplete ==
    ASSUME TypeInv, EndRead, Served, NEW n \in Nat, Loading(n)
    PROVE  Complete'
<1> DEFINE t == Acks(request.ack)
<1>1. job.index >= job.size /\ out' = out \o t /\ request' = request BY DEF EndRead
<1>2. /\ job.size = Wanted /\ job.index = n * Chunk /\ Len(out) = n
      /\ n > 0 => (n - 1) * Chunk < Wanted
      /\ \A k \in 1..n : Filled(out[k], k, Wanted)
  BY DEF Loading
<1>3. request \in Requests /\ out \in Seq(Outputs)
  BY DEF TypeInv, TypeOK, Outputs, Contained
<1>4. t \in Seq(Outputs) BY <1>3, AcksTyped DEF Requests
<1>t. t = Acks(request'.ack) BY <1>1
<1> HIDE DEF t
<1>5. /\ Len(out') = n + Len(t) /\ Len(t) \in Nat
      /\ \A k \in 1..n : out'[k] = out[k]
      /\ SubSeq(out', n + 1, Len(out')) = t
  <2>1. /\ Len(out \o t) = Len(out) + Len(t)
        /\ \A k \in 1..Len(out) : (out \o t)[k] = out[k]
        /\ SubSeq(out \o t, Len(out) + 1, Len(out \o t)) = t
    BY <1>3, <1>4, AfterReports
  <2>2. Len(t) \in Nat BY <1>4, LenProperties
  <2> QED BY <1>1, <1>2, <2>1, <2>2
<1>6. Wanted \in Nat \ {0} /\ Wanted <= n * Chunk
  <2>1. Wanted \in Nat \ {0}
    BY <1>3, MemoryAssumption DEF Wanted, Served
  <2> QED BY <1>1, <1>2, <2>1, Multiples
<1>7. n # 0
  <2>1. 0 * Chunk = 0 BY MemoryAssumption, Z3
  <2> QED BY <1>6, <2>1
<1>8. ASSUME NEW k \in 1..n
      PROVE  /\ out'[k].kind = "data"
             /\ k < n => out'[k].nibble = Chunk - 1
             /\ k = n => (k - 1) * Chunk + out'[k].nibble + 1 = Wanted
  <2>1. Filled(out'[k], k, Wanted) BY <1>2, <1>5
  <2>2. k < n => k * Chunk <= (n - 1) * Chunk BY Multiples
  <2>3. k * Chunk \in Nat /\ n - 1 \in Nat BY <1>7, Multiples
  <2>4. (n - 1) * Chunk \in Nat BY <2>3, Multiples
  <2>5. k < n => k * Chunk < Wanted BY <1>2, <1>6, <2>2, <2>3, <2>4
  <2> QED BY <1>6, <2>1, <2>5 DEF Filled
<1>9. Wanted' = Wanted BY <1>1 DEF Wanted
<1>10. Answered(n, Wanted)' BY <1>8, <1>9 DEF Answered
<1>11. n \in 1..Len(out') BY <1>5, <1>7
<1> QED BY <1>5, <1>10, <1>11, <1>t DEF Complete

\* A new request: a write is acknowledged, a read begins or is refused.
LEMMA NewRequestAnswer ==
    ASSUME TypeInv, AnswerInv, Write \/ Read \/ Return PROVE AnswerInv'
<1>0. ASSUME request = NoRequest PROVE ~job.on BY <1>0 DEF NoRequest, TypeInv, InBounds
<1>1. CASE Write
  <2>1. PICK space, reg, offset, size : Request("write", space, reg, offset, size, FALSE)
    BY <1>1, Zenon DEF Write, WriteEeprom, WriteExtension, WriteMotionPlus, WriteSpeaker,
                WriteCamera, WriteOther
  <2>2. request'.op = "write" BY <2>1 DEF Request
  <2>3. WriteSpeaker \/ \E code \in AckCodes : out' = <<Ack(code)>>
    BY <1>1 DEF Write, WriteEeprom, WriteExtension, WriteMotionPlus, WriteCamera,
                WriteOther, AckCodes
  <2>4. WriteSpeaker => request'.space = "A2" BY DEF WriteSpeaker, Request
  <2> QED BY <2>2, <2>3, <2>4 DEF AnswerInv, WriteAcked, Served
<1>2. CASE Return
  BY <1>2 DEF Return, NoRequest, AnswerInv, WriteAcked, Served
<1>3. CASE Read
  <2>1. PICK n \in Sizes, ack \in BOOLEAN :
           \/ \E o \in Offsets : ReadEeprom(o, n, ack)
           \/ \E r \in Registers : ReadExtension(r, n, ack) \/ ReadMotionPlus(r, n, ack)
           \/ ReadSpeaker(n, ack) \/ ReadCamera(n, ack) \/ ReadOther(n, ack)
    BY <1>3 DEF Read
  <2>2. n \in Nat /\ 0 \in Nat /\ Chunk \in Nat /\ Chunk < Byte /\ Byte \in Nat
    BY MemoryAssumption
  <2>3. PICK space, reg, o : Request("read", space, reg, o, n, ack)
    BY <2>1, Zenon DEF ReadEeprom, ReadExtension, ReadMotionPlus, ReadSpeaker, ReadCamera,
                ReadOther
  <2>4. /\ request = NoRequest /\ request'.op = "read" /\ request'.size = n
        /\ request'.ack = ack /\ request'.space = space
    BY <2>3 DEF Request
  <2>5. WriteAcked' BY <2>4 DEF WriteAcked
  <2>6. ASSUME NEW source \in Sources, StartJob(n, source), space # "B0" PROVE AnswerInv'
    <3>1. job'.on BY <2>6 DEF StartJob
    <3>2. Wanted' = n BY <2>4, <2>6 DEF Wanted
    <3>3. Served' => n < Byte BY <2>2, <2>4 DEF Served
    <3>4. Served' => Loading(0)' BY <2>2, <2>6, <3>2, <3>3, StartLoading
    <3> QED BY <2>2, <2>5, <3>1, <3>4 DEF AnswerInv
  <2>7. ASSUME StartJob(Chunk, "camera"), space = "B0" PROVE AnswerInv'
    <3>1. Wanted' = Chunk BY <2>4, <2>7 DEF Wanted
    <3>2. job'.on /\ Loading(0)' BY <2>2, <2>7, <3>1, StartLoading DEF Sources
    <3> QED BY <2>2, <2>5, <3>2 DEF AnswerInv
  <2>8. ASSUME NEW size \in Nat, NEW offset \in Nat, Refuse(size, offset, ack)
        PROVE  AnswerInv'
    <3>1. Complete' BY <2>4, <2>8, RefuseComplete
    <3>2. ~job'.on BY <1>0, <2>4, <2>8 DEF Refuse
    <3> QED BY <2>5, <3>1, <3>2 DEF AnswerInv
  <2>9. ASSUME NEW offset \in Offsets, ReadEeprom(offset, n, ack) PROVE AnswerInv'
    <3>1. space = "eeprom" BY <2>4, <2>9 DEF ReadEeprom, Request
    <3>2. offset \in Nat BY MemoryAssumption
    <3> QED BY <2>2, <2>6, <2>8, <2>9, <3>1, <3>2 DEF ReadEeprom, Sources
  <2>10. ASSUME NEW r \in Registers, ReadExtension(r, n, ack) PROVE AnswerInv'
    <3>1. space = "A4" BY <2>4, <2>10 DEF ReadExtension, Request
    <3> QED BY <2>2, <2>6, <2>8, <2>10, <3>1 DEF ReadExtension, Sources
  <2>11. ASSUME NEW r \in Registers, ReadMotionPlus(r, n, ack) PROVE AnswerInv'
    <3>1. space = "A6" BY <2>4, <2>11 DEF ReadMotionPlus, Request
    <3> QED BY <2>6, <2>11, <3>1 DEF ReadMotionPlus, Sources
  <2>12. ASSUME ReadSpeaker(n, ack) PROVE AnswerInv'
    <3>1. space = "A2" BY <2>4, <2>12 DEF ReadSpeaker, Request
    <3> QED BY <2>6, <2>12, <3>1 DEF ReadSpeaker, Sources
  <2>13. ASSUME ReadCamera(n, ack) PROVE AnswerInv'
    <3>1. space = "B0" BY <2>4, <2>13 DEF ReadCamera, Request
    <3> QED BY <2>7, <2>13, <3>1 DEF ReadCamera
  <2>14. ASSUME ReadOther(n, ack) PROVE AnswerInv'
    <3>1. space = "other" BY <2>4, <2>14 DEF ReadOther, Request
    <3> QED BY <2>4, <2>5, <3>1 DEF AnswerInv, Served
  <2> QED BY <2>1, <2>9, <2>10, <2>11, <2>12, <2>13, <2>14
<1> QED BY <1>1, <1>2, <1>3

\* A chunk, the end of the loop, and steps that do not concern the request.
LEMMA StepAnswer == TypeInv /\ AnswerInv /\ [Next]_vars => AnswerInv'
<1> SUFFICES ASSUME TypeInv, AnswerInv, [Next]_vars PROVE AnswerInv' OBVIOUS
<1>1. CASE Write \/ Read \/ Return BY <1>1, NewRequestAnswer
<1>2. CASE SendChunk
  <2>1. job \in Jobs BY DEF TypeInv, TypeOK
  <2>2. request' = request /\ job.on /\ job'.on BY <1>2, <2>1 DEF SendChunk, Jobs
  <2>3. WriteAcked' BY <2>2 DEF WriteAcked, TypeInv, InBounds
  <2>4. ASSUME Served' PROVE \E n \in Nat : Loading(n)'
    <3>1. Served BY <2>2, <2>4 DEF Served
    <3>2. PICK n \in Nat : Loading(n) BY <2>2, <3>1 DEF AnswerInv
    <3>3. Loading(n + 1)' BY <1>2, <3>2, NextLoading
    <3> QED BY <3>3
  <2> QED BY <2>2, <2>3, <2>4 DEF AnswerInv
<1>3. CASE EndRead
  <2>1. request' = request /\ job.on /\ ~job'.on BY <1>3 DEF EndRead, Idle
  <2>2. WriteAcked' BY <2>1 DEF WriteAcked, TypeInv, InBounds
  <2>3. ASSUME Served' PROVE Complete'
    <3>1. Served BY <2>1, <2>3 DEF Served
    <3>2. PICK n \in Nat : Loading(n) BY <2>1, <3>1 DEF AnswerInv
    <3> QED BY <1>3, <3>1, <3>2, LoadedComplete
  <2> QED BY <2>1, <2>2, <2>3 DEF AnswerInv
<1>4. CASE PlugChanges \/ UNCHANGED vars
  <2>1. request' = request /\ job' = job /\ out' = out BY <1>4 DEF PlugChanges, vars
  <2> QED BY <2>1
      DEF AnswerInv, WriteAcked, Served, Loading, Wanted, Complete, Answered, Filled
<1> QED BY <1>1, <1>2, <1>3, <1>4 DEF Next

\* Every write to a block the mote stores ends in one acknowledgement and every read
\* of a size that fits the length type in all the bytes wanted, or in an error, and the
\* acknowledgement if one was asked for, for any sizes of memory, chunk and length type.
THEOREM EveryRequestAnswered == Spec => []RequestsAnswered
<1>1. Init => AnswerInv
  BY DEF Init, NoRequest, AnswerInv, WriteAcked, Served
<1>2. AnswerInv => RequestsAnswered
  BY DEF AnswerInv, WriteAcked, Served, Complete, Wanted, Handled, RequestsAnswered
<1> QED BY <1>1, <1>2, InitTyped, StepTyped, StepAnswer, PTL DEF Spec
============================================================================
