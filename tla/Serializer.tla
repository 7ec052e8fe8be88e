----------------------------- MODULE Serializer -----------------------------
(***************************************************************************)
(* System.IO.Serializer and Deserializer: a program writes values and      *)
(* objects to a buffer of bytes and reads them back, in the same order and  *)
(* by the same types (src/vm/common.h TrapProcessor, src/vm/common.cpp      *)
(* ObjectSerializer and ObjectDeserializer).  The stream is modelled byte   *)
(* by byte, with small bytes and words.                                     *)
(*                                                                         *)
(* A memory is a sequence of objects; a reference is a place in it, or Nil. *)
(* An object is [cls, head, mem]: its class and its words, of which a Float *)
(* takes two; an array has class 0, the words before its elements (size,    *)
(* dimensions, size of each) and its elements.                              *)
(*                                                                         *)
(* Outside the model: a stream that was not written by a Serializer, or     *)
(* that is read by other types; a Base reference to an array; text that     *)
(* cannot be encoded; the collector, which these allocations do not start.  *)
(***************************************************************************)
EXTENDS Integers, Sequences, FiniteSets, SequencesExt

CONSTANTS
  ByteBase,      \* the values of a byte; a multiple of four
  IntBytes,      \* sizeof(INT_VALUE), and of a wchar_t
  LongBytes,     \* sizeof(long)
  FloatBytes,    \* sizeof(FLOAT_VALUE)
  InitialSize,   \* the bytes of a new Serializer's buffer
  Cases          \* what programs write: [classes, memory, calls]

ASSUME SizesAssumption ==
  /\ ByteBase \in Nat \ {0, 1} /\ ByteBase % 4 = 0
  /\ {IntBytes, LongBytes, FloatBytes} \subseteq Nat \ {0}
  /\ InitialSize \in Nat \ {0, 1}

VARIABLES
  case,       \* what this program writes
  called,     \* how many of its calls have begun
  chunks,     \* what the call still has to copy to the buffer
  buffer,     \* the bytes of the buffer before @pos
  size,       \* the size of the buffer's array
  marks,      \* where each call that is over ended
  values,     \* ObjectSerializer: the bytes so far
  serial_ids, \*   the numbers of objects
  next_id,
  work,       \*   the objects under way, the innermost last
  offset,     \* the Deserializer's @pos
  start,      \* ObjectDeserializer: where its bytes begin
  frames,     \*   the objects under way, the innermost last
  mem_cache,  \*   the objects by their numbers
  entering,   \*   whether an object comes next
  copy,       \* the memory that is read into
  got         \* what the reads gave

bufferVars == <<chunks, buffer, size, marks>>
serializerVars == <<values, serial_ids, next_id, work>>
readerVars == <<offset, start, frames, mem_cache, entering, copy, got>>
vars == <<case, called, bufferVars, serializerVars, readerVars>>

Nil == 0
memory == case.memory
Class(o) == case.classes[o.cls]

-----------------------------------------------------------------------------
(* Values and their bytes. *)
Encode(n, width) == [i \in 1 .. width |-> (n \div ByteBase^(i - 1)) % ByteBase]
Unsigned(bytes) == FoldRight(LAMBDA b, n : b + ByteBase * n, bytes, 0)
Decode(bytes) ==
  IF bytes # <<>> /\ 2 * Last(bytes) >= ByteBase THEN Unsigned(bytes) - ByteBase^Len(bytes) ELSE Unsigned(bytes)

(* The bytes of s from place i on, zero beyond its end. *)
Part(s, i, n) == [k \in 1 .. n |-> IF i + k \in DOMAIN s THEN s[i + k] ELSE 0]

(* UTF-8: a character of the lower half is a byte, another one is two,     *)
(* which no other character's bytes can be taken for.  C strings end at     *)
(* their first zero.                                                       *)
Half == ByteBase \div 2
Quarter == ByteBase \div 4
CharacterToBytes(c) ==
  IF c = 0 THEN <<>> ELSE IF c < Half THEN <<c>> ELSE <<3 * Quarter + c \div Quarter, Half + (c % Quarter)>>
CString(s) == IF Contains(s, 0) THEN SubSeq(s, 1, SelectInSeq(s, LAMBDA c : c = 0) - 1) ELSE s
UnicodeToBytes(s) == FlattenSeq([i \in DOMAIN CString(s) |-> CharacterToBytes(s[i])])
BytesToUnicode(bytes) ==
  FoldLeft(LAMBDA s, b : IF b < Half THEN Append(s, b)
                         ELSE IF b >= 3 * Quarter THEN Append(s, (b - 3 * Quarter) * Quarter)
                         ELSE Append(Front(s), Last(s) + b - Half),
           <<>>, CString(bytes))
BytesToCharacter(bytes) == IF Len(BytesToUnicode(bytes)) = 1 THEN BytesToUnicode(bytes)[1] ELSE 0

SerializeByte(n) == <<n>>
SerializeInt(n) == Encode(n, IntBytes)
SerializeFloat(n) == Encode(n, FloatBytes)

(* The ParamTypes, as they are numbered. *)
ParamTypes == <<"CHAR", "INT", "FLOAT", "BYTE_ARY", "CHAR_ARY", "INT_ARY", "FLOAT_ARY", "OBJ", "OBJ_ARY">>
Tag(type) == SelectInSeq(ParamTypes, LAMBDA t : t = type) - 20
ArrayTypes == {"BYTE_ARY", "CHAR_ARY", "INT_ARY", "FLOAT_ARY"}

(* The bytes of an array as it lies in memory after its first three words. *)
Width(type) == CASE type = "BYTE_ARY" -> 1 [] type = "FLOAT_ARY" -> FloatBytes [] OTHER -> LongBytes
Lying(type, a) ==
  FlattenSeq([i \in 1 .. Len(a.head) - 3 |-> Encode(a.head[i + 3], LongBytes)]) \o
  FlattenSeq([i \in DOMAIN a.mem |-> Encode(a.mem[i], Width(type))])
Content(type, a, n) == Part(Lying(type, a), 0, n)

(* A new array with these bytes there.                                     *)
NewArray(type, head, bytes) ==
  LET further == head[2] - 1
  IN  [cls |-> 0,
       head |-> head \o [i \in 1 .. further |-> Decode(Part(bytes, (i - 1) * LongBytes, LongBytes))],
       mem |-> [i \in 1 .. head[1] |-> Decode(Part(bytes, further * LongBytes + (i - 1) * Width(type), Width(type)))]]
NewText(text, dim) == [cls |-> 0, head |-> <<Len(text), dim, Len(text)>>, mem |-> text]

(* The words of an array after its first three. *)
Words(a) == SubSeq(a.head, 4, Len(a.head)) \o a.mem

Metadata(a) == <<SerializeInt(a.head[1]), SerializeInt(a.head[2]), SerializeInt(a.head[3])>>
TextMetadata(a, n) == <<SerializeInt(n), SerializeInt(a.head[2]), SerializeInt(n)>>

-----------------------------------------------------------------------------
(* TrapProcessor, writing: what a call copies to the buffer, piece by      *)
(* piece.  Of an Int array as many bytes are taken as it has INT_VALUEs.    *)
SerializeText(a, bytes) == TextMetadata(a, Len(bytes)) \o <<bytes>>
SerializeArray(type, a) ==
  CASE type = "CHAR_ARY" -> SerializeText(a, UnicodeToBytes(a.mem))
    [] type = "BYTE_ARY" -> Metadata(a) \o <<Content(type, a, a.head[1])>>
    [] type = "INT_ARY" -> Metadata(a) \o <<Content(type, a, a.head[1] * IntBytes)>>
    [] type = "FLOAT_ARY" -> Metadata(a) \o <<Content(type, a, a.head[1] * FloatBytes)>>

SerializeChar(bytes) == <<SerializeInt(Len(bytes)), bytes>>
Pieces(type, v) ==
  CASE type = "CHAR" -> SerializeChar(CharacterToBytes(v))
    [] type = "INT" -> <<SerializeInt(v)>>
    [] type = "FLOAT" -> <<SerializeFloat(v)>>
    [] type \in ArrayTypes /\ v = Nil -> <<SerializeByte(0)>>
    [] type \in ArrayTypes /\ v # Nil -> <<SerializeByte(1)>> \o SerializeArray(type, memory[v])

(* The programs there are: a reference is to what its type says, and what   *)
(* is written as an INT_VALUE has one.  A word lies where the serializer    *)
(* looks for it, which is behind a Float's two words and is not moved by an  *)
(* array of objects.  Text that is written by itself is left out.           *)
Fits(n) == Decode(SerializeInt(n)) = n
Place(class, d) ==
  d + Cardinality({e \in 1 .. d - 1 : class[e] = "FLOAT"}) - Cardinality({e \in 1 .. d - 1 : class[e] = "OBJ_ARY"})
ObjectIn(p, v) == v \in DOMAIN p.memory /\ p.memory[v].cls \in DOMAIN p.classes
ArrayIn(p, type, v) ==
  /\ v \in DOMAIN p.memory
  /\ p.memory[v].head \in Seq(Int) /\ p.memory[v].mem \in Seq(Int)
  /\ p.memory[v].head[1] \in Nat
  /\ Fits(IF type = "CHAR_ARY" THEN Len(UnicodeToBytes(p.memory[v].mem)) ELSE p.memory[v].head[1])
IsWord(p, type, v) ==
  /\ type = "CHAR" => Fits(Len(CharacterToBytes(v)))
  /\ type = "OBJ" /\ v # Nil => ObjectIn(p, v)
  /\ type \in ArrayTypes /\ v # Nil => ArrayIn(p, type, v)
IsInstance(class, p, words) ==
  \A d \in 1 .. Len(class) : class[d] # "OBJ_ARY" => IsWord(p, class[d], words[Place(class, d)])

WellFormed(p) ==
  /\ p.classes \in Seq(Seq(ArrayTypes \cup {"CHAR", "INT", "FLOAT", "OBJ", "OBJ_ARY"}))
  /\ \A c \in DOMAIN p.classes : Fits(c)
  /\ p.memory \in Seq(ToSet(p.memory))
  /\ \A n \in DOMAIN p.memory : Fits(n) /\ Fits(-n)
  /\ \A v \in DOMAIN p.memory : ObjectIn(p, v) => IsInstance(p.classes[p.memory[v].cls], p, p.memory[v].mem)
  /\ p.calls \in Seq(ToSet(p.calls))
  /\ \A n \in DOMAIN p.calls :
       /\ p.calls[n].type \in ArrayTypes \cup {"CHAR", "INT", "FLOAT", "OBJ"} /\ Fits(Tag(p.calls[n].type))
       /\ IsWord(p, p.calls[n].type, p.calls[n].v)
       /\ p.calls[n].type = "CHAR_ARY" => p.calls[n].v = Nil
ASSUME CasesAssumption == \A p \in Cases : WellFormed(p)

Init ==
  /\ case \in Cases
  /\ called = 0
  /\ chunks = <<>> /\ buffer = <<>> /\ size = InitialSize /\ marks = <<>>
  /\ values = <<>> /\ serial_ids = <<>> /\ next_id = 0 /\ work = <<>>
  /\ offset = 0 /\ start = 0 /\ frames = <<>> /\ mem_cache = <<>> /\ entering = FALSE
  /\ copy = <<>> /\ got = <<>>

Writing == chunks = <<>> /\ values = <<>> /\ called < Len(case.calls)
Next1 == case.calls[called + 1]

Write ==
  /\ Writing
  /\ Next1.type # "OBJ"
  /\ chunks' = <<SerializeInt(Tag(Next1.type))>> \o Pieces(Next1.type, Next1.v)
  /\ called' = called + 1
  /\ UNCHANGED <<case, buffer, size, marks, serializerVars, readerVars>>

(* The buffer is enlarged until the piece fits, then it is copied.          *)
Offset == Len(buffer) + Len(Head(chunks))
ExpandSerialBuffer ==
  /\ chunks # <<>>
  /\ Offset >= size
  /\ size' = size + Offset \div 2
  /\ UNCHANGED <<case, called, chunks, buffer, marks, serializerVars, readerVars>>

Copied ==
  /\ buffer' = buffer \o Head(chunks)
  /\ chunks' = Tail(chunks)
  /\ marks' = IF Len(chunks) = 1 THEN Append(marks, Len(buffer')) ELSE marks
  /\ UNCHANGED <<case, called, size, serializerVars, readerVars>>

WriteSerializedBytes == chunks # <<>> /\ Offset < size /\ Copied

-----------------------------------------------------------------------------
(* ObjectSerializer.  Nothing leads the way to an object twice: the second  *)
(* time only its number is written.                                        *)
Frame(a) == [at |-> a, dclr |-> 1, pos |-> 1]
Top == Last(work)
Declared == Class(memory[Top.at])
Field == Declared[Top.dclr]
Word == memory[Top.at].mem[Top.pos]
InObject == work # <<>> /\ Top.dclr <= Len(Declared)

WasSerialized(a) == a \in DOMAIN serial_ids
IdOf(a) == IF WasSerialized(a) THEN serial_ids[a] ELSE -(next_id + 1)

(* Fault: an object gets the number of the one before. *)
FaultNumbered(a) ==
  IF WasSerialized(a) THEN UNCHANGED <<serial_ids, next_id>>
  ELSE /\ serial_ids' = [x \in DOMAIN serial_ids \cup {a} |-> IF x = a THEN next_id + 1 ELSE serial_ids[x]]
       /\ next_id' = IF memory[a].cls = 0 THEN next_id ELSE next_id + 1

Numbered(a) ==
  IF WasSerialized(a) THEN UNCHANGED <<serial_ids, next_id>>
  ELSE /\ serial_ids' = [x \in DOMAIN serial_ids \cup {a} |-> IF x = a THEN next_id + 1 ELSE serial_ids[x]]
       /\ next_id' = next_id + 1

Advanced(width) == [work EXCEPT ![Len(work)].dclr = @ + 1, ![Len(work)].pos = @ + width]

(* An object, from the call or from a field; over is the work left but for  *)
(* the object's.                                                           *)
CheckObject(a, over) ==
  IF a = Nil
  THEN values' = values \o SerializeByte(0) /\ work' = over /\ UNCHANGED <<serial_ids, next_id>>
  ELSE /\ values' = values \o SerializeByte(1) \o SerializeInt(memory[a].cls) \o SerializeInt(IdOf(a))
       /\ work' = IF WasSerialized(a) THEN over ELSE Append(over, Frame(a))
       /\ Numbered(a)

SerializeObject ==
  /\ Writing
  /\ Next1.type = "OBJ"
  /\ CheckObject(Next1.v, <<>>)
  /\ called' = called + 1
  /\ UNCHANGED <<case, bufferVars, readerVars>>

SerializeValue ==
  /\ InObject
  /\ Field \in {"CHAR", "INT", "FLOAT"}
  /\ values' = values \o FlattenSeq(Pieces(Field, Word))
  /\ work' = Advanced(IF Field = "FLOAT" THEN 2 ELSE 1)
  /\ UNCHANGED <<case, called, bufferVars, serial_ids, next_id, readerVars>>

(* Of an Int array every element is written. *)
ArrayInObject(type, a) ==
  IF type = "INT_ARY" THEN Metadata(a) \o [i \in 1 .. a.head[1] |-> SerializeInt(Words(a)[i])] ELSE SerializeArray(type, a)

SerializeArrayField ==
  /\ InObject
  /\ Field \in ArrayTypes
  /\ values' = values \o
       (IF Word = Nil THEN SerializeByte(0)
        ELSE SerializeByte(1) \o SerializeInt(IdOf(Word)) \o
             (IF WasSerialized(Word) THEN <<>> ELSE FlattenSeq(ArrayInObject(Field, memory[Word]))))
  /\ IF Word = Nil THEN UNCHANGED <<serial_ids, next_id>> ELSE Numbered(Word)
  /\ work' = Advanced(1)
  /\ UNCHANGED <<case, called, bufferVars, readerVars>>

SerializeObjectField ==
  /\ InObject
  /\ Field = "OBJ"
  /\ CheckObject(Word, Advanced(1))
  /\ UNCHANGED <<case, called, bufferVars, readerVars>>

(* Nothing is written of a field of another type, nor is it passed.        *)
SkipField ==
  /\ InObject
  /\ Field = "OBJ_ARY"
  /\ work' = [work EXCEPT ![Len(work)].dclr = @ + 1]
  /\ UNCHANGED <<case, called, bufferVars, values, serial_ids, next_id, readerVars>>

ObjectDone ==
  /\ work # <<>>
  /\ ~InObject
  /\ work' = Front(work)
  /\ UNCHANGED <<case, called, bufferVars, values, serial_ids, next_id, readerVars>>

(* What was collected goes to the buffer in one piece; the next object is   *)
(* another ObjectSerializer's.                                              *)
ObjectWritten ==
  /\ values # <<>>
  /\ work = <<>>
  /\ chunks' = <<values>>
  /\ values' = <<>> /\ serial_ids' = <<>> /\ next_id' = 0
  /\ UNCHANGED <<case, called, buffer, size, marks, work, readerVars>>

-----------------------------------------------------------------------------
(* TrapProcessor, reading.  A read is [v, next]: the value and the place    *)
(* after it.  Behind the end it gives zero.                                 *)
Read(v, next) == [v |-> v, next |-> next]
IntAt(k) == Decode(Part(buffer, k, IntBytes))
FloatAt(k) == Decode(Part(buffer, k, FloatBytes))
ByteAt(k) == Part(buffer, k, 1)[1]
Before(k, read) == IF k < Len(buffer) THEN read ELSE Read(0, k)
CharAt(k, n) == Read(BytesToCharacter(Part(buffer, k, n)), k + n)
HeadAt(k) == <<IntAt(k), IntAt(k + IntBytes), IntAt(k + 2 * IntBytes)>>

(* Fault: after a Float array half of it has been passed. *)
FaultReadSerializedBytes(type, head, k) ==
  CASE type = "CHAR_ARY" -> Read(NewText(BytesToUnicode(Part(buffer, k, head[1])), head[2]), k + head[1] * IntBytes)
    [] type = "BYTE_ARY" -> Read(NewArray(type, head, Part(buffer, k, head[1])), k + head[1])
    [] OTHER -> Read(NewArray(type, head, Part(buffer, k, head[1] * FloatBytes)), k + head[1] * IntBytes)

(* An array and its content.  After text the place is moved by the size of  *)
(* as many wide characters as there were bytes.                            *)
ReadSerializedBytes(type, head, k) ==
  CASE type = "CHAR_ARY" -> Read(NewText(BytesToUnicode(Part(buffer, k, head[1])), head[2]), k + head[1] * IntBytes)
    [] type = "BYTE_ARY" -> Read(NewArray(type, head, Part(buffer, k, head[1])), k + head[1])
    [] type = "INT_ARY" -> Read(NewArray(type, head, Part(buffer, k, head[1] * IntBytes)), k + head[1] * IntBytes)
    [] OTHER -> Read(NewArray(type, head, Part(buffer, k, head[1] * FloatBytes)), k + head[1] * FloatBytes)

DeserializeChar(k) == Before(k + IntBytes, CharAt(k + IntBytes, IntAt(k)))
DeserializeValue(type, k) ==
  CASE type = "CHAR" -> DeserializeChar(k)
    [] type = "INT" -> Before(k, Read(IntAt(k), k + IntBytes))
    [] type = "FLOAT" -> Before(k, Read(FloatAt(k), k + FloatBytes))

Serialized == called = Len(case.calls) /\ chunks = <<>> /\ values = <<>>
Reading == Serialized /\ ~entering /\ frames = <<>> /\ Len(got) < Len(case.calls)
Wanted == case.calls[Len(got) + 1].type

(* A value of another type is not read, but its type has been. *)
Tagged == IntAt(offset) = Tag(Wanted)
AfterTag == offset + IntBytes
ReadValue ==
  /\ Reading
  /\ Wanted \in {"CHAR", "INT", "FLOAT"}
  /\ \E read \in {IF Tagged THEN DeserializeValue(Wanted, AfterTag) ELSE Read(0, AfterTag)} :
       got' = Append(got, read.v) /\ offset' = read.next
  /\ UNCHANGED <<case, called, bufferVars, serializerVars, start, frames, mem_cache, entering, copy>>

DeserializeArray ==
  /\ Reading
  /\ Wanted \in ArrayTypes
  /\ IF Tagged /\ ByteAt(AfterTag) # 0 /\ AfterTag + 1 < Len(buffer)
     THEN \E read \in {ReadSerializedBytes(Wanted, HeadAt(AfterTag + 1), AfterTag + 1 + 3 * IntBytes)} :
            /\ copy' = Append(copy, read.v)
            /\ got' = Append(got, Len(copy'))
            /\ offset' = read.next
     ELSE /\ got' = Append(got, Nil)
          /\ offset' = AfterTag + (IF Tagged THEN 1 ELSE 0)
          /\ copy' = copy
  /\ UNCHANGED <<case, called, bufferVars, serializerVars, start, frames, mem_cache, entering>>

-----------------------------------------------------------------------------
(* ObjectDeserializer.  The innermost object's next word gets what a field  *)
(* gives, or the call what the outermost one does.                         *)
ReadObject ==
  /\ Reading
  /\ Wanted = "OBJ"
  /\ offset' = offset + 1
  /\ start' = offset + 1
  /\ mem_cache' = <<>>
  /\ entering' = (ByteAt(offset) # 0)
  /\ got' = IF entering' THEN got ELSE Append(got, Nil)
  /\ UNCHANGED <<case, called, bufferVars, serializerVars, frames, copy>>

Inner == Last(frames)
Filled(fs, words, width) ==
  /\ copy' = [copy EXCEPT ![Last(fs).at].mem = ReplaceAt(ReplaceAt(@, Last(fs).pos, words[1]), Last(fs).pos + width - 1, words[width])]
  /\ frames' = [fs EXCEPT ![Len(fs)].pos = @ + width]
  /\ got' = got
Given(fs, v) == IF fs = <<>> THEN frames' = fs /\ got' = Append(got, v) /\ copy' = copy ELSE Filled(fs, <<v>>, 1)
NextField == [frames EXCEPT ![Len(frames)].dclr = @ + 1]

Cached(id, a) == [x \in DOMAIN mem_cache \cup {id} |-> IF x = id THEN a ELSE mem_cache[x]]
FromCache(id) == IF id \in DOMAIN mem_cache THEN mem_cache[id] ELSE Nil

Blank(cls) == [cls |-> cls, head |-> <<>>, mem |-> [i \in 1 .. Len(case.classes[cls]) + Len(SelectSeq(case.classes[cls], LAMBDA t : t = "FLOAT")) |-> 0]]

(* Fault: only arrays are known by their numbers. *)
FaultEnterObject(cls, id) ==
  /\ copy' = Append(copy, Blank(cls))
  /\ mem_cache' = mem_cache
  /\ frames' = Append(frames, Frame(Len(copy')))
  /\ got' = got

EnterObject(cls, id) ==
  /\ copy' = Append(copy, Blank(cls))
  /\ mem_cache' = Cached(-id, Len(copy'))
  /\ frames' = Append(frames, Frame(Len(copy')))
  /\ got' = got

DeserializeObject ==
  /\ entering
  /\ entering' = FALSE
  /\ \E cls \in {IntAt(offset)}, id \in {IntAt(offset + IntBytes)} :
       IF cls \notin DOMAIN case.classes THEN Given(frames, Nil) /\ offset' = offset + IntBytes /\ mem_cache' = mem_cache
       ELSE /\ offset' = offset + 2 * IntBytes
            /\ IF id < 0 THEN EnterObject(cls, id) ELSE Given(frames, FromCache(id)) /\ mem_cache' = mem_cache
  /\ UNCHANGED <<case, called, bufferVars, serializerVars, start>>

Expected == Class(copy[Inner.at])
InFields == frames # <<>> /\ ~entering /\ Inner.dclr <= Len(Expected) /\ offset - start < Len(buffer)
Coming == Expected[Inner.dclr]

FieldValue(type, k) ==
  CASE type = "CHAR" -> CharAt(k + IntBytes, IntAt(k))
    [] type = "INT" -> Read(IntAt(k), k + IntBytes)
    [] type = "FLOAT" -> Read(FloatAt(k), k + FloatBytes)
DeserializeField ==
  /\ InFields
  /\ Coming \in {"CHAR", "INT", "FLOAT"}
  /\ \E read \in {FieldValue(Coming, offset)} :
       /\ Filled(NextField, <<read.v, 0>>, IF Coming = "FLOAT" THEN 2 ELSE 1)
       /\ offset' = read.next
  /\ UNCHANGED <<case, called, bufferVars, serializerVars, start, mem_cache, entering>>

(* An array of an object: nothing, a known one, or one that is read here.   *)
FieldArray(type, head, k) ==
  CASE type = "CHAR_ARY" -> Read(NewText(BytesToUnicode(Part(buffer, k, head[1])), head[2]), k + head[1])
    [] type = "INT_ARY" -> Read(NewArray(type, head, FlattenSeq([i \in 1 .. head[1] |-> Encode(IntAt(k + (i - 1) * IntBytes), LongBytes)])),
                                k + head[1] * IntBytes)
    [] OTHER -> Read(NewArray(type, head, Part(buffer, k, head[1] * Width(type))), k + head[1] * Width(type))

NoArrayField ==
  /\ InFields
  /\ Coming \in ArrayTypes \cup {"OBJ"}
  /\ ByteAt(offset) = 0
  /\ Filled(NextField, <<Nil>>, 1)
  /\ offset' = offset + 1
  /\ UNCHANGED <<case, called, bufferVars, serializerVars, start, mem_cache, entering>>

(* A number that is not known ends the object: its place gets Nil.         *)
KnownArrayField ==
  /\ InFields
  /\ Coming \in ArrayTypes
  /\ ByteAt(offset) # 0
  /\ IntAt(offset + 1) >= 0
  /\ IF IntAt(offset + 1) \in DOMAIN mem_cache
     THEN Filled(NextField, <<mem_cache[IntAt(offset + 1)]>>, 1)
     ELSE Given(Front(frames), Nil)
  /\ offset' = offset + 1 + IntBytes
  /\ UNCHANGED <<case, called, bufferVars, serializerVars, start, mem_cache, entering>>

NewArrayField ==
  /\ InFields
  /\ Coming \in ArrayTypes
  /\ ByteAt(offset) # 0
  /\ IntAt(offset + 1) < 0
  /\ \E read \in {FieldArray(Coming, HeadAt(offset + 1 + IntBytes), offset + 1 + 4 * IntBytes)} :
       /\ copy' = Append([copy EXCEPT ![Inner.at].mem[Inner.pos] = Len(copy) + 1], read.v)
       /\ offset' = read.next
  /\ mem_cache' = Cached(-IntAt(offset + 1), Len(copy'))
  /\ frames' = [NextField EXCEPT ![Len(frames)].pos = @ + 1]
  /\ UNCHANGED <<case, called, bufferVars, serializerVars, start, entering, got>>

ObjectField ==
  /\ InFields
  /\ Coming = "OBJ"
  /\ ByteAt(offset) # 0
  /\ offset' = offset + 1
  /\ frames' = NextField
  /\ entering' = TRUE
  /\ UNCHANGED <<case, called, bufferVars, serializerVars, start, mem_cache, copy, got>>

PassField ==
  /\ InFields
  /\ Coming = "OBJ_ARY"
  /\ frames' = NextField
  /\ UNCHANGED <<case, called, bufferVars, serializerVars, offset, start, mem_cache, entering, copy, got>>

ReturnInstance ==
  /\ frames # <<>>
  /\ ~entering
  /\ ~InFields
  /\ Given(Front(frames), Inner.at)
  /\ UNCHANGED <<case, called, bufferVars, serializerVars, offset, start, mem_cache, entering>>

-----------------------------------------------------------------------------
Done == Serialized /\ Len(got) = Len(case.calls) /\ UNCHANGED vars

Next ==
  \/ Write \/ ExpandSerialBuffer \/ WriteSerializedBytes
  \/ SerializeObject \/ SerializeValue \/ SerializeArrayField \/ SerializeObjectField \/ SkipField \/ ObjectDone \/ ObjectWritten
  \/ ReadValue \/ DeserializeArray
  \/ ReadObject \/ DeserializeObject \/ DeserializeField \/ NoArrayField \/ KnownArrayField \/ NewArrayField \/ ObjectField \/ PassField
  \/ ReturnInstance \/ Done

Spec == Init /\ [][Next]_vars

-----------------------------------------------------------------------------
(* No two objects of a call have the same number, and no number is skipped  *)
(* (ObjectSerializer::WasSerialized, common.h:1424): a reader would take one *)
(* for the other.                                                           *)
NumbersDistinct ==
  /\ IsInjective(serial_ids)
  /\ Range(serial_ids) = 1 .. next_id

(* Nothing checks positions (common.h:1727 to 2010, common.cpp:1097):        *)
(* arithmetic alone keeps copies within the buffer, and reads in step with   *)
(* writes.  A read ends where the write of the same value ended, and never   *)
(* looks at the bytes of another.                                           *)
InStep ==
  /\ Len(buffer) <= size
  /\ Serialized =>
       /\ frames = <<>> /\ ~entering => offset = (IF got = <<>> THEN 0 ELSE marks[Len(got)])
       /\ Len(got) < Len(marks) => offset <= marks[Len(got) + 1]

(* What is read is what was written: the same numbers and text, and for     *)
(* objects the same graph, with what was shared shared and what was cyclic   *)
(* cyclic (objeck_lang.tex:1578: "allows datatypes to be deflated into a     *)
(* byte array").  Pairs are the objects found at the same place of both.     *)
Places(cls) ==
  FoldLeft(LAMBDA f, t : [at |-> f.at + (IF t = "FLOAT" THEN 2 ELSE 1), refs |-> IF t \in ArrayTypes \cup {"OBJ", "OBJ_ARY"} THEN f.refs \cup {f.at} ELSE f.refs],
           [at |-> 1, refs |-> {}], case.classes[cls]).refs
Linked(p) ==
  IF Nil \in {p[1], p[2]} \/ memory[p[1]].cls # copy[p[2]].cls \/ memory[p[1]].cls = 0 THEN {}
  ELSE {<<memory[p[1]].mem[i], copy[p[2]].mem[i]>> : i \in Places(memory[p[1]].cls)}
Pairs(a, b) ==
  LET reached[n \in 0 .. Len(memory)] ==
        IF n = 0 THEN {<<a, b>>} ELSE reached[n - 1] \cup UNION {Linked(p) : p \in reached[n - 1]}
  IN  reached[Len(memory)]
SameContent(p) ==
  IF Nil \in {p[1], p[2]} THEN p[1] = p[2]
  ELSE LET one == memory[p[1]]
           other == copy[p[2]]
       IN  /\ one.cls = other.cls /\ one.head = other.head /\ DOMAIN one.mem = DOMAIN other.mem
           /\ \A i \in DOMAIN one.mem : one.mem[i] = other.mem[i] \/ (one.cls # 0 /\ i \in Places(one.cls))
SameGraph(pairs) ==
  /\ \A p \in pairs : SameContent(p)
  /\ \A p, q \in pairs : (p[1] = q[1]) <=> (p[2] = q[2])
RoundTrip ==
  \A n \in DOMAIN got :
    IF case.calls[n].type \in ArrayTypes \cup {"OBJ"} THEN frames = <<>> /\ ~entering => SameGraph(Pairs(case.calls[n].v, got[n]))
    ELSE got[n] = case.calls[n].v
====
