--------------------------- MODULE LumiBuild_proofs ---------------------------
(***************************************************************************)
(* The loader: for every image, every storage and every damage to the      *)
(* file, loading copies only inside the image and the storage,             *)
(* lumi_vm_can_load answers what loading and creating the state then do,   *)
(* and what is loaded from an untouched file is what was compiled.         *)
(* The inductive invariants say that the counts in the header are natural  *)
(* numbers, whatever happened to the file; that a recorded answer is still *)
(* the answer for the file as it is, since every action that changes the   *)
(* file forgets it (LInv); and that a file that nobody touched is a        *)
(* beginning of the image of its source (FileInv).  A load takes the whole *)
(* only, and the lemmas about the image say that each part of it lies      *)
(* where the loader's cursor looks.                                        *)
(*                                                                         *)
(* The builder: lumic does to the file only what the loader's              *)
(* specification allows, so that what is proved of the loader holds for a  *)
(* host that reads while lumic writes, fails or is killed.  And a          *)
(* successful exit means that the whole image was passed on, unless fclose *)
(* lost a part of it.  The inductive invariant says how far the file has   *)
(* come: as long as nobody else touches a file that lumic has opened, it   *)
(* is the beginning of the image, as long as the library has passed on.    *)
(***************************************************************************)
EXTENDS LumiBuild, SequenceTheorems, TLAPS

Counts == [PartNames -> Nat]

\* A file is a record with a header, which is a record with natural counts.
WellFormed(f) ==
  /\ "header" \in DOMAIN f
  /\ {"counts", "maxStack"} \subseteq DOMAIN f.header
  /\ f.header.counts \in Counts
  /\ f.header.maxStack \in Nat

HeaderOK == WellFormed(file)
StorageOK == storage \in Storages
SourceOK == source \in Bytecodes
AnswerOK == asked # "never" =>
              /\ MeasureFault(file) = "ok"
              /\ asked = IF CanLoad(file.header) THEN "yes" ELSE "no"

LInv == StorageOK /\ SourceOK /\ HeaderOK /\ AnswerOK

-----------------------------------------------------------------------------
\* The header that lumi_bytecode_serialize writes has natural counts.
LEMMA WrittenCounts ==
  ASSUME NEW b \in Bytecodes
  PROVE  HeaderOf(b).counts \in Counts
<1>1. ASSUME NEW part \in PartNames PROVE Len(b[part]) \in Nat
  <2>1. CASE part \in FloatParts
    <3>1. b[part] \in Seq(Float) BY <2>1, LoaderAssumption
    <3> QED BY <3>1
  <2>2. CASE part \notin FloatParts
    <3>1. b[part] \in Seq(Byte) BY <2>2, LoaderAssumption DEF PartNames
    <3> QED BY <3>1
  <2> QED BY <2>1, <2>2
<1> QED BY <1>1 DEF HeaderOf, Counts

\* Counts that fit the storage promise a size that size_t holds, so that the sum
\* lumi_vm_measure_bytecode computes is the true one.
LEMMA SumHolds ==
  ASSUME StorageOK, NEW h, h.counts \in Counts, FitsProgram(h.counts)
  PROVE  /\ ExpectedSize(h) = HeaderSize + FloatSize * h.counts["constants"]
              + FloatSize * h.counts["initialGlobals"] + FloatSize * h.counts["initialKeys"]
              + h.counts["init"] + h.counts["update"] + h.counts["render"]
         /\ \A part \in PartNames : h.counts[part] \in Nat
<1>1. storage.program \in [PartNames -> Nat] /\ CapacityBytes(storage) <= SIZE_MAX /\ SIZE_MAX \in Nat
  BY StorageAssumption, LoaderAssumption DEF StorageOK
<1>2. \A part \in PartNames : h.counts[part] \in Nat /\ h.counts[part] <= storage.program[part]
                               /\ storage.program[part] \in Nat
  BY <1>1 DEF FitsProgram, Counts
<1>3. {"constants", "initialGlobals", "initialKeys", "init", "update", "render"} \subseteq PartNames
  BY DEF PartNames, FloatParts
<1> DEFINE sum == HeaderSize + FloatSize * h.counts["constants"]
              + FloatSize * h.counts["initialGlobals"] + FloatSize * h.counts["initialKeys"]
              + h.counts["init"] + h.counts["update"] + h.counts["render"]
<1>4. sum \in Nat /\ CapacityBytes(storage) \in Nat /\ sum <= CapacityBytes(storage)
  BY <1>1, <1>2, <1>3 DEF CapacityBytes, HeaderSize, FloatSize
<1> HIDE DEF sum
<1>5. sum \in Nat /\ sum < SIZE_MAX + 1
  BY <1>1, <1>4
<1>6. sum % (SIZE_MAX + 1) = sum
  BY <1>1, <1>5
<1>7. ExpectedSize(h) = sum
  BY <1>6 DEF ExpectedSize, SizeT, sum
<1> QED BY <1>2, <1>7 DEF sum

LEMMA WrittenFile ==
  ASSUME NEW b \in Bytecodes
  PROVE  WellFormed(Serialized(b))
<1>1. Serialized(b).header = HeaderOf(b) /\ "header" \in DOMAIN Serialized(b)
  BY DEF Serialized
<1>2. {"counts", "maxStack"} \subseteq DOMAIN HeaderOf(b) /\ HeaderOf(b).maxStack \in Nat
  BY LoaderAssumption DEF HeaderOf
<1> QED BY <1>1, <1>2, WrittenCounts DEF WellFormed

LEMMA BeginningFile ==
  ASSUME NEW f, WellFormed(f), NEW size
  PROVE  WellFormed(Beginning(f, size))
<1> QED BY DEF Beginning, WellFormed

-----------------------------------------------------------------------------
(* The image *)

\* Behind one sequence comes the other.
LEMMA Joined ==
  ASSUME NEW s \in Seq(Byte), NEW t \in Seq(Byte)
  PROVE  /\ s \o t \in Seq(Byte) /\ Len(s \o t) = Len(s) + Len(t) /\ Len(s) \in Nat /\ Len(t) \in Nat
         /\ \A k \in 1..Len(s) : (s \o t)[k] = s[k]
         /\ \A k \in 1..Len(t) : (s \o t)[Len(s) + k] = t[k]
OBVIOUS

\* The bytes of part are at that place of a body.
PlacedAt(body, place, part) ==
  /\ part \in Seq(Byte) /\ place + Len(part) <= Len(body)
  /\ \A k \in 1..Len(part) : body[place + k] = part[k]

LEMMA StaysPlaced ==
  ASSUME NEW body \in Seq(Byte), NEW tail \in Seq(Byte), NEW place \in Nat, NEW part,
         PlacedAt(body, place, part)
  PROVE  PlacedAt(body \o tail, place, part)
<1>1. part \in Seq(Byte) /\ place + Len(part) <= Len(body)
      /\ \A k \in 1..Len(part) : body[place + k] = part[k]
  BY DEF PlacedAt
<1>2. Len(part) \in Nat /\ Len(body) \in Nat /\ Len(tail) \in Nat
  BY <1>1, LenProperties
<1>3. \A k \in 1..Len(part) : place + k \in 1..Len(body)
  BY <1>1, <1>2
<1>4. Len(body \o tail) = Len(body) + Len(tail) /\ \A k \in 1..Len(body) : (body \o tail)[k] = body[k]
  BY Joined
<1> QED
  BY <1>1, <1>2, <1>3, <1>4 DEF PlacedAt

LEMMA PlacedBehind ==
  ASSUME NEW body \in Seq(Byte), NEW part \in Seq(Byte)
  PROVE  PlacedAt(body \o part, Len(body), part)
<1> QED
  BY Joined DEF PlacedAt

\* Four bytes are a float.
LEMMA PartIsBytes ==
  ASSUME NEW b \in Bytecodes, NEW part \in PartNames
  PROVE  /\ PartBytes(b, part) \in Seq(Byte) /\ Len(b[part]) \in Nat
         /\ Len(PartBytes(b, part)) = UnitSize(part) * Len(b[part])
<1>1. CASE part \in FloatParts
  <2>1. b[part] \in Seq(Float) /\ Len(b[part]) \in Nat
    BY <1>1, LoaderAssumption, LenProperties
  <2>2. \A n \in Nat : \A k \in 1..4 * n : ((k - 1) \div 4) + 1 \in 1..n /\ ((k - 1) % 4) + 1 \in 1..4
    OBVIOUS
  <2>3. \A k \in 1..FloatSize * Len(b[part]) :
          b[part][((k - 1) \div FloatSize) + 1][((k - 1) % FloatSize) + 1] \in Byte
    <3> TAKE k \in 1..FloatSize * Len(b[part])
    <3>1. ((k - 1) \div FloatSize) + 1 \in 1..Len(b[part]) /\ ((k - 1) % FloatSize) + 1 \in 1..FloatSize
      BY <2>1, <2>2 DEF FloatSize
    <3>2. b[part][((k - 1) \div FloatSize) + 1] \in Float
      BY <2>1, <3>1
    <3> QED
      BY <3>1, <3>2 DEF Float
  <2>4. PartBytes(b, part) = [k \in 1..FloatSize * Len(b[part]) |->
                                b[part][((k - 1) \div FloatSize) + 1][((k - 1) % FloatSize) + 1]]
    BY <1>1 DEF PartBytes
  <2>5. FloatSize * Len(b[part]) \in Nat /\ UnitSize(part) = FloatSize
    BY <1>1, <2>1 DEF FloatSize, UnitSize
  <2> QED
    BY <2>1, <2>3, <2>4, <2>5
<1>2. CASE part \notin FloatParts
  <2>1. b[part] \in Seq(Byte) /\ Len(b[part]) \in Nat
    <3>1. b[part] \in Seq(Byte) BY <1>2, LoaderAssumption DEF PartNames
    <3> QED BY <3>1, LenProperties
  <2> QED BY <1>2, <2>1 DEF PartBytes, UnitSize
<1> QED
  BY <1>1, <1>2

\* Every part lies where the loader's cursor finds it, and the parts are the whole body.
LEMMA PartsPlaced ==
  ASSUME NEW b \in Bytecodes
  PROVE  /\ BodyOf(b) \in Seq(Byte) /\ Len(BodyOf(b)) \in Nat
         /\ \A part \in PartNames : PlacedAt(BodyOf(b), Cursor(HeaderOf(b), part), PartBytes(b, part))
         /\ \A part \in PartNames : Cursor(HeaderOf(b), part) \in Nat
         /\ Len(BodyOf(b)) = FloatSize * Len(b["constants"]) + FloatSize * Len(b["initialGlobals"])
              + FloatSize * Len(b["initialKeys"]) + Len(b["init"]) + Len(b["update"]) + Len(b["render"])
<1> DEFINE constants == PartBytes(b, "constants")
           globals == PartBytes(b, "initialGlobals")
           keys == PartBytes(b, "initialKeys")
           init == PartBytes(b, "init")
           update == PartBytes(b, "update")
           render == PartBytes(b, "render")
<1>1. /\ constants \in Seq(Byte) /\ Len(constants) = UnitSize("constants") * Len(b["constants"])
      /\ globals \in Seq(Byte) /\ Len(globals) = UnitSize("initialGlobals") * Len(b["initialGlobals"])
      /\ keys \in Seq(Byte) /\ Len(keys) = UnitSize("initialKeys") * Len(b["initialKeys"])
      /\ init \in Seq(Byte) /\ Len(init) = UnitSize("init") * Len(b["init"])
      /\ update \in Seq(Byte) /\ Len(update) = UnitSize("update") * Len(b["update"])
      /\ render \in Seq(Byte) /\ Len(render) = UnitSize("render") * Len(b["render"])
  BY PartIsBytes DEF PartNames, FloatParts
<1>2. \A part \in PartNames : Cursor(HeaderOf(b), part) =
        CASE part = "constants" -> 0
          [] part = "initialGlobals" -> Len(constants)
          [] part = "initialKeys" -> Len(constants) + Len(globals)
          [] part = "init" -> Len(constants) + Len(globals) + Len(keys)
          [] part = "update" -> Len(constants) + Len(globals) + Len(keys) + Len(init)
          [] part = "render" -> Len(constants) + Len(globals) + Len(keys) + Len(init) + Len(update)
  BY <1>1 DEF Cursor, HeaderOf, PartNames, FloatParts
<1>3. BodyOf(b) = constants \o globals \o keys \o init \o update \o render
  BY DEF BodyOf
<1>10. /\ UnitSize("constants") = FloatSize /\ UnitSize("initialGlobals") = FloatSize
       /\ UnitSize("initialKeys") = FloatSize /\ UnitSize("init") = 1
       /\ UnitSize("update") = 1 /\ UnitSize("render") = 1
  BY DEF UnitSize, FloatParts
<1>11. \A part \in PartNames : Len(b[part]) \in Nat
  BY PartIsBytes
<1> HIDE DEF constants, globals, keys, init, update, render
<1> DEFINE p2 == constants \o globals
           p3 == p2 \o keys
           p4 == p3 \o init
           p5 == p4 \o update
           p6 == p5 \o render
<1>9. /\ Len(constants) \in Nat /\ Len(globals) \in Nat /\ Len(keys) \in Nat
      /\ Len(init) \in Nat /\ Len(update) \in Nat /\ Len(render) \in Nat
  BY <1>1, LenProperties
<1>4. p2 \in Seq(Byte) /\ Len(p2) = Len(constants) + Len(globals) /\ Len(p2) \in Nat
  BY <1>1, Joined
<1> HIDE DEF p2
<1>5. p3 \in Seq(Byte) /\ Len(p3) = Len(p2) + Len(keys) /\ Len(p3) \in Nat
  BY <1>1, <1>4, Joined
<1> HIDE DEF p3
<1>6. p4 \in Seq(Byte) /\ Len(p4) = Len(p3) + Len(init) /\ Len(p4) \in Nat
  BY <1>1, <1>5, Joined
<1> HIDE DEF p4
<1>7. p5 \in Seq(Byte) /\ Len(p5) = Len(p4) + Len(update) /\ Len(p5) \in Nat
  BY <1>1, <1>6, Joined
<1> HIDE DEF p5
<1>8. p6 \in Seq(Byte) /\ Len(p6) = Len(p5) + Len(render) /\ Len(p6) \in Nat
  BY <1>1, <1>7, Joined
<1>12. BodyOf(b) = p6
  BY <1>3 DEF p2, p3, p4, p5
<1> HIDE DEF p6
<1>13. PlacedAt(p6, 0, constants)
  <2>1. PlacedAt(constants, 0, constants)
    BY <1>1, <1>9 DEF PlacedAt
  <2>2. PlacedAt(p2, 0, constants) BY <1>1, <2>1, StaysPlaced DEF p2
  <2>3. PlacedAt(p3, 0, constants) BY <1>1, <1>4, <2>2, StaysPlaced DEF p3
  <2>4. PlacedAt(p4, 0, constants) BY <1>1, <1>5, <2>3, StaysPlaced DEF p4
  <2>5. PlacedAt(p5, 0, constants) BY <1>1, <1>6, <2>4, StaysPlaced DEF p5
  <2> QED BY <1>1, <1>7, <2>5, StaysPlaced DEF p6
<1>14. PlacedAt(p6, Len(constants), globals)
  <2>2. PlacedAt(p2, Len(constants), globals) BY <1>1, <1>9, PlacedBehind DEF p2
  <2>3. PlacedAt(p3, Len(constants), globals) BY <1>1, <1>9, <1>4, <2>2, StaysPlaced DEF p3
  <2>4. PlacedAt(p4, Len(constants), globals) BY <1>1, <1>9, <1>4, <1>5, <2>3, StaysPlaced DEF p4
  <2>5. PlacedAt(p5, Len(constants), globals) BY <1>1, <1>9, <1>4, <1>6, <2>4, StaysPlaced DEF p5
  <2> QED BY <1>1, <1>9, <1>4, <1>7, <2>5, StaysPlaced DEF p6
<1>15. PlacedAt(p6, Len(p2), keys)
  <2>3. PlacedAt(p3, Len(p2), keys) BY <1>1, <1>4, PlacedBehind DEF p3
  <2>4. PlacedAt(p4, Len(p2), keys) BY <1>1, <1>4, <1>5, <2>3, StaysPlaced DEF p4
  <2>5. PlacedAt(p5, Len(p2), keys) BY <1>1, <1>4, <1>6, <2>4, StaysPlaced DEF p5
  <2> QED BY <1>1, <1>4, <1>7, <2>5, StaysPlaced DEF p6
<1>16. PlacedAt(p6, Len(p3), init)
  <2>4. PlacedAt(p4, Len(p3), init) BY <1>1, <1>5, PlacedBehind DEF p4
  <2>5. PlacedAt(p5, Len(p3), init) BY <1>1, <1>5, <1>6, <2>4, StaysPlaced DEF p5
  <2> QED BY <1>1, <1>5, <1>7, <2>5, StaysPlaced DEF p6
<1>17. PlacedAt(p6, Len(p4), update)
  <2>5. PlacedAt(p5, Len(p4), update) BY <1>1, <1>6, PlacedBehind DEF p5
  <2> QED BY <1>1, <1>6, <1>7, <2>5, StaysPlaced DEF p6
<1>18. PlacedAt(p6, Len(p5), render)
  BY <1>1, <1>7, PlacedBehind DEF p6
<1>19. ASSUME NEW part \in PartNames
       PROVE  /\ Cursor(HeaderOf(b), part) \in Nat
              /\ PlacedAt(p6, Cursor(HeaderOf(b), part), PartBytes(b, part))
  <2>1. CASE part = "constants"
    BY <1>2, <1>13, <2>1 DEF constants
  <2>2. CASE part = "initialGlobals"
    BY <1>2, <1>9, <1>4, <1>14, <2>2 DEF globals
  <2>3. CASE part = "initialKeys"
    BY <1>2, <1>9, <1>4, <1>15, <2>3 DEF keys
  <2>4. CASE part = "init"
    BY <1>2, <1>9, <1>4, <1>5, <1>16, <2>4 DEF init
  <2>5. CASE part = "update"
    BY <1>2, <1>9, <1>4, <1>5, <1>6, <1>17, <2>5 DEF update
  <2>6. CASE part = "render"
    BY <1>2, <1>9, <1>4, <1>5, <1>6, <1>7, <1>18, <2>6 DEF render
  <2> QED
    BY <2>1, <2>2, <2>3, <2>4, <2>5, <2>6 DEF PartNames, FloatParts
<1>20. Len(p6) = FloatSize * Len(b["constants"]) + FloatSize * Len(b["initialGlobals"])
         + FloatSize * Len(b["initialKeys"]) + Len(b["init"]) + Len(b["update"]) + Len(b["render"])
  <2>1. /\ Len(constants) = FloatSize * Len(b["constants"])
        /\ Len(globals) = FloatSize * Len(b["initialGlobals"])
        /\ Len(keys) = FloatSize * Len(b["initialKeys"])
    BY <1>1, <1>10
  <2>2. Len(init) = Len(b["init"]) /\ Len(update) = Len(b["update"]) /\ Len(render) = Len(b["render"])
    BY <1>1, <1>10, <1>11 DEF PartNames
  <2> QED
    BY <2>1, <2>2, <1>4, <1>5, <1>6, <1>7, <1>8, <1>9
<1> QED
  BY <1>8, <1>12, <1>19, <1>20

Whole(b) == Serialized(b).size

LEMMA BeginningOfImage ==
  ASSUME NEW b, NEW n
  PROVE  Beginning(Serialized(b), n)
           = [size |-> n, header |-> HeaderOf(b),
              body |-> SubSeq(BodyOf(b), 1, IF n < HeaderSize THEN 0 ELSE n - HeaderSize)]
<1>1. Serialized(b).header = HeaderOf(b) /\ Serialized(b).body = BodyOf(b) BY DEF Serialized
<1> QED BY <1>1 DEF Beginning

LEMMA ImageSize ==
  ASSUME NEW b \in Bytecodes
  PROVE  /\ Whole(b) \in Nat /\ Whole(b) >= HeaderSize
         /\ Whole(b) = HeaderSize + Len(BodyOf(b))
         /\ Beginning(Serialized(b), Whole(b)) = Serialized(b)
<1>1. BodyOf(b) \in Seq(Byte) BY PartsPlaced
<1>2. Len(BodyOf(b)) \in Nat BY <1>1
<1>3. Whole(b) = HeaderSize + Len(BodyOf(b)) BY DEF Whole, Serialized
<1>4. Serialized(b) = [size |-> Whole(b), header |-> HeaderOf(b), body |-> BodyOf(b)]
  BY DEF Whole, Serialized
<1>5. SubSeq(BodyOf(b), 1, Len(BodyOf(b))) = BodyOf(b) BY <1>1
<1> DEFINE last == IF Whole(b) < HeaderSize THEN 0 ELSE Whole(b) - HeaderSize
<1>6. last = Len(BodyOf(b)) BY <1>2, <1>3 DEF HeaderSize
<1> HIDE DEF last
<1>7. Beginning(Serialized(b), Whole(b))
        = [size |-> Whole(b), header |-> HeaderOf(b), body |-> SubSeq(BodyOf(b), 1, last)]
  BY BeginningOfImage DEF last
<1>8. Beginning(Serialized(b), Whole(b)) = Serialized(b) BY <1>4, <1>5, <1>6, <1>7
<1> QED BY <1>2, <1>3, <1>8 DEF HeaderSize

\* The size in the header is the size of the image: the sum does not wrap.
LEMMA PromisedSize ==
  ASSUME NEW b \in Bytecodes
  PROVE  ExpectedSize(HeaderOf(b)) = Whole(b)
<1> DEFINE h == HeaderOf(b)
           sum == HeaderSize + FloatSize * h.counts["constants"]
              + FloatSize * h.counts["initialGlobals"] + FloatSize * h.counts["initialKeys"]
              + h.counts["init"] + h.counts["update"] + h.counts["render"]
<1>1. \A part \in PartNames : h.counts[part] = Len(b[part]) /\ Len(b[part]) \in Nat
  BY PartIsBytes DEF HeaderOf
<1>2. sum = HeaderSize + Len(BodyOf(b)) /\ sum \in Nat
  <2>1. /\ h.counts["constants"] = Len(b["constants"])
        /\ h.counts["initialGlobals"] = Len(b["initialGlobals"])
        /\ h.counts["initialKeys"] = Len(b["initialKeys"])
        /\ h.counts["init"] = Len(b["init"]) /\ h.counts["update"] = Len(b["update"])
        /\ h.counts["render"] = Len(b["render"])
        /\ Len(b["constants"]) \in Nat /\ Len(b["initialGlobals"]) \in Nat
        /\ Len(b["initialKeys"]) \in Nat /\ Len(b["init"]) \in Nat /\ Len(b["update"]) \in Nat
        /\ Len(b["render"]) \in Nat
    <3> HIDE DEF h
    <3> QED BY <1>1 DEF PartNames, FloatParts
  <2>2. Len(BodyOf(b)) = FloatSize * Len(b["constants"]) + FloatSize * Len(b["initialGlobals"])
              + FloatSize * Len(b["initialKeys"]) + Len(b["init"]) + Len(b["update"]) + Len(b["render"])
    BY PartsPlaced
  <2>3. sum = HeaderSize + FloatSize * Len(b["constants"]) + FloatSize * Len(b["initialGlobals"])
              + FloatSize * Len(b["initialKeys"]) + Len(b["init"]) + Len(b["update"]) + Len(b["render"])
    <3> HIDE DEF h
    <3> QED BY <2>1
  <2> HIDE DEF sum, h
  <2>4. /\ Len(b["constants"]) \in Nat /\ Len(b["initialGlobals"]) \in Nat
        /\ Len(b["initialKeys"]) \in Nat /\ Len(b["init"]) \in Nat /\ Len(b["update"]) \in Nat
        /\ Len(b["render"]) \in Nat
    BY <2>1
  <2>5. Len(BodyOf(b)) \in Nat /\ HeaderSize \in Nat
    BY PartsPlaced DEF HeaderSize
  <2>6. sum = HeaderSize + Len(BodyOf(b))
    <3>1. PICK x \in Nat : x = Len(b["constants"]) BY <2>4
    <3>2. PICK y \in Nat : y = Len(b["initialGlobals"]) BY <2>4
    <3>3. PICK z \in Nat : z = Len(b["initialKeys"]) BY <2>4
    <3>4. PICK i \in Nat : i = Len(b["init"]) BY <2>4
    <3>5. PICK u \in Nat : u = Len(b["update"]) BY <2>4
    <3>6. PICK r \in Nat : r = Len(b["render"]) BY <2>4
    <3>7. Len(BodyOf(b)) = FloatSize * x + FloatSize * y + FloatSize * z + i + u + r
      BY <2>2, <3>1, <3>2, <3>3, <3>4, <3>5, <3>6
    <3>8. sum = HeaderSize + FloatSize * x + FloatSize * y + FloatSize * z + i + u + r
      BY <2>3, <3>1, <3>2, <3>3, <3>4, <3>5, <3>6
    <3> QED BY <3>7, <3>8 DEF HeaderSize, FloatSize
  <2> QED BY <2>5, <2>6
<1>3. ExpectedSize(h) = sum % (SIZE_MAX + 1)
  BY DEF ExpectedSize, SizeT
<1> HIDE DEF sum, h
<1>4. sum <= SIZE_MAX /\ SIZE_MAX \in Nat
  BY <1>2, ImageAssumption, LoaderAssumption
<1>5. sum % (SIZE_MAX + 1) = sum
  BY <1>2, <1>4
<1> QED BY <1>2, <1>3, <1>5, ImageSize DEF h

-----------------------------------------------------------------------------
LEMMA LInvInit == LoaderInit => LInv
<1> SUFFICES ASSUME LoaderInit PROVE LInv
  OBVIOUS
<1>1. file = Serialized(source) /\ source \in Bytecodes
  BY DEF LoaderInit
<1>2. HeaderOK BY <1>1, WrittenFile DEF HeaderOK
<1> QED BY <1>2 DEF LoaderInit, LInv, StorageOK, SourceOK, AnswerOK

LEMMA LInvNext == LInv /\ [LoaderNext]_loaderVars => LInv'
<1> SUFFICES ASSUME LInv, [LoaderNext]_loaderVars PROVE LInv'
  OBVIOUS
<1> USE DEF LInv, StorageOK, SourceOK
<1>1. ASSUME NEW b \in Bytecodes, OpenFile(b) PROVE LInv'
  <2>1. WellFormed(file')
    <3>1. file' = Beginning(Serialized(b), 0) BY <1>1 DEF OpenFile
    <3> QED BY <3>1, WrittenFile, BeginningFile
  <2> QED BY <1>1, <2>1 DEF OpenFile, HeaderOK, AnswerOK
<1>11. ASSUME NEW size, WriteFile(size) PROVE LInv'
  <2>1. WellFormed(file')
    <3>1. file' = Beginning(Serialized(source), size) BY <1>11 DEF WriteFile
    <3> QED BY <3>1, WrittenFile, BeginningFile DEF SourceOK
  <2> QED BY <1>11, <2>1 DEF WriteFile, HeaderOK, AnswerOK
<1>2. ASSUME NEW f, Damaged(f), WellFormed(f) PROVE LInv'
  BY <1>2 DEF Damaged, HeaderOK, AnswerOK
<1>3. ASSUME NEW size \in Cuts, Truncate(size) PROVE LInv'
  <2> DEFINE f == Beginning(file, size)
  <2>1. Damaged(f) BY <1>3 DEF Truncate
  <2>2. WellFormed(f) BY BeginningFile DEF HeaderOK
  <2> QED BY <1>2, <2>1, <2>2
<1>4. ASSUME NEW tail \in Tails, Extend(tail) PROVE LInv'
  <2> DEFINE f == [file EXCEPT !.size = @ + Len(tail), !.body = @ \o tail]
  <2>1. Damaged(f) BY <1>4 DEF Extend
  <2>2. WellFormed(f) BY DEF HeaderOK, WellFormed
  <2> QED BY <1>2, <2>1, <2>2
<1>5. ASSUME NEW part \in PartNames, NEW n \in FieldValues, AlterCount(part, n) PROVE LInv'
  <2> DEFINE f == [file EXCEPT !.header.counts[part] = n]
  <2>1. Damaged(f) BY <1>5 DEF AlterCount
  <2>2. n \in Nat BY LoaderAssumption
  <2>3. f.header.counts = [file.header.counts EXCEPT ![part] = n] BY DEF HeaderOK, WellFormed
  <2>4. f.header.counts \in Counts BY <2>2, <2>3 DEF HeaderOK, WellFormed, Counts
  <2>5. WellFormed(f) BY <2>4 DEF HeaderOK, WellFormed
  <2> QED BY <1>2, <2>1, <2>5
<1>6. CASE AlterField
  <2> USE DEF HeaderOK
  <2>1. WellFormed([file EXCEPT !.header.magic = "other"]) BY DEF WellFormed
  <2>2. WellFormed([file EXCEPT !.header.version = 2]) BY DEF WellFormed
  <2>3. WellFormed([file EXCEPT !.header.programType = 3]) BY DEF WellFormed
  <2>4. WellFormed([file EXCEPT !.header.reserved = 1]) BY DEF WellFormed
  <2>5. ASSUME NEW n \in FieldValues PROVE WellFormed([file EXCEPT !.header.maxStack = n])
    BY LoaderAssumption DEF WellFormed
  <2> QED BY <1>2, <1>6, <2>1, <2>2, <2>3, <2>4, <2>5 DEF AlterField
<1>7. CASE Ask
  BY <1>7 DEF Ask, HeaderOK, AnswerOK, CanLoad, FitsProgram, KeyCells
<1>8. CASE Load
  BY <1>8 DEF Load, HeaderOK, AnswerOK, CanLoad, FitsProgram, KeyCells
<1>9. CASE CreateState
  BY <1>9 DEF CreateState, HeaderOK, AnswerOK, CanLoad, FitsProgram, KeyCells
<1>10. CASE UNCHANGED loaderVars
  BY <1>10 DEF loaderVars, HeaderOK, AnswerOK, CanLoad, FitsProgram, KeyCells
<1> QED BY <1>11, <1>1, <1>3, <1>4, <1>5, <1>6, <1>7, <1>8, <1>9, <1>10 DEF LoaderNext, Damage, Host

\* Every image with a header of natural counts keeps its copies inside.
LEMMA AcceptedInside == LInv => CopiesInside
<1> SUFFICES ASSUME LInv, LoadFault(file) = "ok", NEW part \in PartNames
    PROVE /\ file.header.counts[part] <= storage.program[part]
          /\ HeaderSize + Cursor(file.header, part) + UnitSize(part) * file.header.counts[part] <= file.size
          /\ part = "render" => HeaderSize + Cursor(file.header, part)
                                  + UnitSize(part) * file.header.counts[part] = file.size
  BY DEF CopiesInside
<1> DEFINE h == file.header
<1>1. FitsProgram(h.counts) /\ MeasureFault(file) = "ok" BY DEF LoadFault
<1>2. ExpectedSize(h) = file.size BY <1>1 DEF MeasureFault
<1>3. h.counts \in Counts /\ StorageOK BY DEF LInv, HeaderOK, WellFormed
<1>4. file.size = HeaderSize + FloatSize * h.counts["constants"]
              + FloatSize * h.counts["initialGlobals"] + FloatSize * h.counts["initialKeys"]
              + h.counts["init"] + h.counts["update"] + h.counts["render"]
      /\ \A p \in PartNames : h.counts[p] \in Nat
  BY <1>1, <1>2, <1>3, SumHolds
<1>5. h.counts[part] <= storage.program[part] BY <1>1 DEF FitsProgram
<1> DEFINE fits == HeaderSize + Cursor(h, part) + UnitSize(part) * h.counts[part]
<1>6. /\ h.counts["constants"] \in Nat /\ h.counts["initialGlobals"] \in Nat /\ h.counts["initialKeys"] \in Nat
      /\ h.counts["init"] \in Nat /\ h.counts["update"] \in Nat /\ h.counts["render"] \in Nat
  BY <1>4 DEF PartNames, FloatParts
<1>7. part # "render" => fits <= file.size
  <2> HIDE DEF h
  <2> USE <1>4, <1>6 DEF Cursor, UnitSize, FloatParts, HeaderSize, FloatSize
  <2>1. CASE part = "constants" BY <2>1
  <2>2. CASE part = "initialGlobals" BY <2>2
  <2>3. CASE part = "initialKeys" BY <2>3
  <2>4. CASE part = "init" BY <2>4
  <2>5. CASE part = "update" BY <2>5
  <2> QED BY <2>1, <2>2, <2>3, <2>4, <2>5 DEF PartNames
<1>8. part = "render" => fits = file.size
  <2> HIDE DEF h
  <2>1. Cursor(h, "render") = FloatSize * h.counts["constants"] + FloatSize * h.counts["initialGlobals"]
          + FloatSize * h.counts["initialKeys"] + 1 * h.counts["init"] + 1 * h.counts["update"]
    BY <1>6 DEF Cursor, UnitSize, FloatParts
  <2>2. UnitSize("render") = 1 BY DEF UnitSize, FloatParts
  <2>3. HeaderSize + Cursor(h, "render") + 1 * h.counts["render"] = file.size
    BY <1>4, <1>6, <2>1 DEF HeaderSize, FloatSize
  <2> QED BY <2>2, <2>3
<1>9. file.size \in Nat
  BY <1>4 DEF PartNames, FloatParts, HeaderSize, FloatSize
<1>10. fits <= file.size BY <1>9, <1>7, <1>8
<1> QED BY <1>5, <1>10, <1>8

\* The answer is that of the checks which loading and state creation repeat.
LEMMA AnswerDecides == LInv => CanLoadDecides
<1> SUFFICES ASSUME LInv, asked # "never"
    PROVE asked = "yes" <=> /\ LoadFault(file) = "ok"
                            /\ StateFault(file.header.counts, file.header.maxStack) = "ok"
  BY DEF CanLoadDecides
<1>1. MeasureFault(file) = "ok" /\ (asked = "yes" <=> CanLoad(file.header))
  BY DEF LInv, AnswerOK
<1>2. LoadFault(file) = "ok" <=> FitsProgram(file.header.counts)
  BY <1>1 DEF LoadFault
<1>3. StateFault(file.header.counts, file.header.maxStack) = "ok"
      <=> /\ KeyCells(file.header.counts) <= SIZE_MAX
          /\ file.header.counts["initialGlobals"] <= storage.globals
          /\ KeyCells(file.header.counts) <= storage.keyCells
          /\ file.header.maxStack <= storage.stack
  <2>1. /\ storage.globals \in Nat /\ storage.keyCells \in Nat /\ storage.stack \in Nat
        /\ storage.keySlots \in Nat /\ SIZE_MAX \in Nat
    BY StorageAssumption, LoaderAssumption DEF LInv, StorageOK
  <2>2. /\ file.header.counts["initialGlobals"] \in Nat /\ file.header.counts["initialKeys"] \in Nat
        /\ file.header.maxStack \in Nat
    BY DEF LInv, HeaderOK, WellFormed, Counts, PartNames, FloatParts
  <2>3. KeyCells(file.header.counts) \in Nat BY <2>1, <2>2 DEF KeyCells
  <2> QED BY <2>1, <2>2, <2>3 DEF StateFault
<1> QED BY <1>1, <1>2, <1>3 DEF CanLoad

-----------------------------------------------------------------------------
THEOREM LInvariant == LoaderSpec => []LInv
<1> QED BY LInvInit, LInvNext, PTL DEF LoaderSpec

\* lumi_vm_load_program copies only inside the image and the caller's storage.
THEOREM CopiesStayInside == LoaderSpec => []CopiesInside
<1> QED BY LInvariant, AcceptedInside, PTL

\* lumi_vm_can_load is exact: it predicts lumi_vm_load_program and lumi_vm_init_state.
THEOREM CanLoadIsExact == LoaderSpec => []CanLoadDecides
<1> QED BY LInvariant, AnswerDecides, PTL

-----------------------------------------------------------------------------
(* The file, and what a load makes of it *)

\* A file that reaches behind the header is as long as its header and body.
Measured(f) ==
  /\ {"size", "body"} \subseteq DOMAIN f
  /\ f.size \in Nat /\ f.body \in Seq(Byte)
  /\ f.size >= HeaderSize => f.size = HeaderSize + Len(f.body)

LEMMA MeasuredImage ==
  ASSUME NEW b \in Bytecodes
  PROVE  Measured(Serialized(b))
<1>1. Serialized(b) = [size |-> Whole(b), header |-> HeaderOf(b), body |-> BodyOf(b)]
  BY DEF Whole, Serialized
<1> QED BY <1>1, ImageSize, PartsPlaced DEF Measured

LEMMA MeasuredBeginning ==
  ASSUME NEW f, Measured(f), NEW n \in Nat, n <= f.size
  PROVE  Measured(Beginning(f, n))
<1> DEFINE last == IF n < HeaderSize THEN 0 ELSE n - HeaderSize
<1>1. Beginning(f, n) = [size |-> n, header |-> f.header, body |-> SubSeq(f.body, 1, last)]
  BY DEF Beginning
<1>2. f.size \in Nat /\ f.body \in Seq(Byte) /\ Len(f.body) \in Nat
      /\ (f.size >= HeaderSize => f.size = HeaderSize + Len(f.body))
  BY DEF Measured
<1>3. last \in Nat /\ last <= Len(f.body) /\ (n >= HeaderSize => n = HeaderSize + last)
  BY <1>2 DEF HeaderSize
<1> HIDE DEF last
<1>4. SubSeq(f.body, 1, last) \in Seq(Byte) /\ Len(SubSeq(f.body, 1, last)) = last
  BY <1>2, <1>3
<1> QED BY <1>1, <1>3, <1>4 DEF Measured

\* Nobody has touched the file: it is a beginning of the image of its source.
Written(n) == file = Beginning(Serialized(source), n) /\ n \in 0..Whole(source)

FileInv ==
  /\ Measured(file)
  /\ damage \in 0..MaxDamage /\ files \in 1..MaxFiles
  /\ damage = 0 => \E n \in Nat : Written(n)

LEMMA FileInit == LoaderInit => FileInv
<1> SUFFICES ASSUME LoaderInit PROVE FileInv
  OBVIOUS
<1>1. source \in Bytecodes /\ file = Serialized(source) /\ damage = 0 /\ files = 1
  BY DEF LoaderInit
<1>2. Whole(source) \in 0..Whole(source) /\ Whole(source) \in Nat
      /\ file = Beginning(Serialized(source), Whole(source))
  BY <1>1, ImageSize
<1>3. 0 \in 0..MaxDamage /\ 1 \in 1..MaxFiles
  BY LoaderAssumption
<1> QED BY <1>1, <1>2, <1>3, MeasuredImage DEF FileInv, Written

LEMMA FileNext == LInv /\ FileInv /\ [LoaderNext]_loaderVars => FileInv'
<1> SUFFICES ASSUME LInv, FileInv, [LoaderNext]_loaderVars PROVE FileInv'
  OBVIOUS
<1>1. /\ source \in Bytecodes /\ Measured(file) /\ damage \in 0..MaxDamage /\ files \in 1..MaxFiles
      /\ MaxDamage \in Nat /\ MaxFiles \in Nat /\ file.size \in Nat /\ file.body \in Seq(Byte)
  BY LoaderAssumption DEF LInv, SourceOK, FileInv, Measured
<1>2. ASSUME NEW b \in Bytecodes, NEW n \in 0..Whole(b), source' = b,
             file' = Beginning(Serialized(b), n), damage' = 0, files' \in 1..MaxFiles
      PROVE  FileInv'
  <2>1. n \in Nat /\ Whole(b) \in Nat /\ n <= Whole(b)
    BY <1>2, ImageSize
  <2>2. Measured(file')
    <3>1. Measured(Serialized(b)) /\ n <= Serialized(b).size
      BY <2>1, MeasuredImage DEF Whole
    <3> QED BY <1>2, <2>1, <3>1, MeasuredBeginning
  <2>3. Written(n)'
    BY <1>2 DEF Written, Whole
  <2>4. damage' \in 0..MaxDamage
    BY <1>1, <1>2
  <2> QED BY <1>2, <2>1, <2>2, <2>3, <2>4 DEF FileInv
<1>3. ASSUME NEW b \in Bytecodes, OpenFile(b) PROVE FileInv'
  <2>1. 0 \in 0..Whole(b) BY ImageSize
  <2>2. files' \in 1..MaxFiles BY <1>1, <1>3 DEF OpenFile
  <2> QED BY <1>2, <1>3, <2>1, <2>2 DEF OpenFile
<1>4. ASSUME NEW size \in Cuts \cup {Serialized(source).size}, WriteFile(size) PROVE FileInv'
  <2>1. size \in 0..Whole(source)
    BY <1>1, <1>4, ImageSize, LoaderAssumption DEF WriteFile, Whole
  <2> QED BY <1>1, <1>2, <1>4, <2>1 DEF WriteFile
<1>5. ASSUME NEW f, Damaged(f), Measured(f) PROVE FileInv'
  <2>1. file' = f /\ damage' \in 0..MaxDamage /\ damage' # 0 /\ files' = files
    BY <1>1, <1>5 DEF Damaged
  <2> QED BY <1>1, <1>5, <2>1 DEF FileInv
<1>6. ASSUME NEW size \in Cuts, Truncate(size) PROVE FileInv'
  <2>1. size \in Nat /\ size <= file.size /\ Damaged(Beginning(file, size))
    BY <1>1, <1>6, LoaderAssumption DEF Truncate
  <2>2. Measured(Beginning(file, size))
    BY <1>1, <2>1, MeasuredBeginning
  <2> QED BY <1>5, <2>1, <2>2
<1>7. ASSUME NEW tail \in Tails, Extend(tail) PROVE FileInv'
  <2> DEFINE f == [file EXCEPT !.size = @ + Len(tail), !.body = @ \o tail]
  <2>1. Damaged(f) /\ file.size >= HeaderSize BY <1>7 DEF Extend
  <2>2. tail \in Seq(Byte) BY LoaderAssumption
  <2>3. f.size = file.size + Len(tail) /\ f.body = file.body \o tail /\ {"size", "body"} \subseteq DOMAIN f
    BY <1>1 DEF Measured
  <2>4. file.body \o tail \in Seq(Byte) /\ Len(file.body \o tail) = Len(file.body) + Len(tail)
        /\ Len(tail) \in Nat /\ Len(file.body) \in Nat
    BY <1>1, <2>2, Joined
  <2>5. file.size = HeaderSize + Len(file.body)
    BY <1>1, <2>1 DEF Measured
  <2>6. f.size = HeaderSize + Len(f.body) /\ f.size \in Nat
    BY <2>3, <2>4, <2>5 DEF HeaderSize
  <2> HIDE DEF f
  <2>7. Measured(f)
    BY <2>3, <2>4, <2>6 DEF Measured
  <2> QED BY <1>5, <2>1, <2>7
<1>8. ASSUME NEW h PROVE Measured([file EXCEPT !.header = h])
  BY <1>1 DEF Measured
<1>9. ASSUME NEW part \in PartNames, NEW n \in FieldValues, AlterCount(part, n) PROVE FileInv'
  <2>1. Measured([file EXCEPT !.header.counts[part] = n])
    BY <1>1 DEF Measured
  <2> QED BY <1>5, <1>9, <2>1 DEF AlterCount
<1>10. CASE AlterField
  <2>1. /\ Measured([file EXCEPT !.header.magic = "other"]) /\ Measured([file EXCEPT !.header.version = 2])
        /\ Measured([file EXCEPT !.header.programType = 3]) /\ Measured([file EXCEPT !.header.reserved = 1])
        /\ \A n : Measured([file EXCEPT !.header.maxStack = n])
    BY <1>1 DEF Measured
  <2> QED BY <1>5, <1>10, <2>1 DEF AlterField
<1>11. CASE Ask \/ Load \/ CreateState \/ UNCHANGED loaderVars
  <2>1. UNCHANGED <<source, file, damage, files>>
    BY <1>11 DEF Ask, Load, CreateState, loaderVars
  <2> QED BY <2>1 DEF FileInv, Written
<1> QED BY <1>3, <1>4, <1>6, <1>7, <1>9, <1>10, <1>11 DEF LoaderNext, Damage, Host

\* What the loader keeps of a file: arrays as long as the storage, and counts.
LoadedInv ==
  /\ \A part \in PartNames : DOMAIN contents[part] = 1..storage.program[part]
  /\ program # NoProgram => program.counts \in Counts /\ program.maxStack \in Nat
  /\ stateFor # NoProgram => stateFor \in Counts

LEMMA LoadedNext == LInv /\ LoadedInv /\ [LoaderNext]_loaderVars => LoadedInv'
<1> SUFFICES ASSUME LInv, LoadedInv, [LoaderNext]_loaderVars PROVE LoadedInv'
  OBVIOUS
<1>1. CASE Load
  <2>1. storage' = storage /\ stateFor' = stateFor BY <1>1 DEF Load
  <2>2. CASE LoadFault(file) = "ok"
    <3>1. /\ contents' = Copied(file)
          /\ program' = [counts |-> file.header.counts, maxStack |-> file.header.maxStack,
                         from |-> source, intact |-> damage = 0]
      BY <1>1, <2>2 DEF Load
    <3>2. \A part \in PartNames : DOMAIN Copied(file)[part] = 1..storage.program[part]
      BY DEF Copied
    <3>3. file.header.counts \in Counts /\ file.header.maxStack \in Nat
      BY DEF LInv, HeaderOK, WellFormed
    <3>4. program'.counts = file.header.counts /\ program'.maxStack = file.header.maxStack
      BY <3>1
    <3> QED BY <2>1, <3>1, <3>2, <3>3, <3>4 DEF LoadedInv
  <2>3. CASE LoadFault(file) # "ok"
    BY <1>1, <2>1, <2>3 DEF Load, LoadedInv
  <2> QED BY <2>2, <2>3
<1>2. CASE CreateState
  <2>1. UNCHANGED <<storage, contents, program>> /\ stateFor' \in {program.counts, stateFor}
        /\ program # NoProgram
    BY <1>2 DEF CreateState
  <2> QED BY <2>1 DEF LoadedInv
<1>3. CASE UNCHANGED <<storage, contents, program, stateFor>>
  BY <1>3 DEF LoadedInv
<1>4. CASE ~Load /\ ~CreateState
  <2>1. UNCHANGED <<storage, contents, program, stateFor>>
    BY <1>4 DEF LoaderNext, OpenFile, WriteFile, Damage, Truncate, Extend, AlterCount, AlterField,
      Damaged, Host, Ask, loaderVars
  <2> QED BY <1>3, <2>1
<1> QED BY <1>1, <1>2, <1>4

\* The loader keeps its variables in their types: whatever happens to a file, it is as long
\* as its header and body, and a loaded program and a created state have natural counts.
THEOREM LoaderTypes == LoaderSpec => []TypeOK
<1>1. LoaderInit => LoadedInv
  <2> SUFFICES ASSUME LoaderInit PROVE LoadedInv
    OBVIOUS
  <2> QED BY DEF LoaderInit, LoadedInv
<1>2. LInv /\ FileInv /\ LoadedInv => TypeOK
  <2> SUFFICES ASSUME LInv, FileInv, LoadedInv PROVE TypeOK
    OBVIOUS
  <2>1. storage \in Storages /\ source \in Bytecodes /\ asked \in {"never", "yes", "no"}
        /\ file.header.counts \in Counts /\ file.header.maxStack \in Nat
    BY DEF LInv, StorageOK, SourceOK, AnswerOK, HeaderOK, WellFormed
  <2>2. file.size = IF file.size < HeaderSize THEN file.size ELSE HeaderSize + Len(file.body)
    BY DEF FileInv, Measured, HeaderSize
  <2> QED BY <2>1, <2>2 DEF FileInv, LoadedInv, TypeOK, Counts
<1> QED BY <1>1, <1>2, LInvariant, FileInit, FileNext, LoadedNext, PTL DEF LoaderSpec

\* The loader's cursor finds every unit of every array of an image.
LEMMA UnitOfImage ==
  ASSUME NEW b \in Bytecodes, NEW part \in PartNames, NEW i \in 1..Len(b[part])
  PROVE  UnitAt(Serialized(b), part, i - 1) = b[part][i]
<1>1. Serialized(b).header = HeaderOf(b) /\ Serialized(b).body = BodyOf(b)
  BY DEF Serialized
<1> DEFINE c == Cursor(HeaderOf(b), part)
           bytes == PartBytes(b, part)
           body == BodyOf(b)
<1>2. /\ c \in Nat /\ body \in Seq(Byte) /\ bytes \in Seq(Byte) /\ c + Len(bytes) <= Len(body)
      /\ \A k \in 1..Len(bytes) : body[c + k] = bytes[k]
  BY PartsPlaced DEF PlacedAt
<1>3. Len(b[part]) \in Nat /\ Len(bytes) = UnitSize(part) * Len(b[part])
  BY PartIsBytes
<1>4. UnitAt(Serialized(b), part, i - 1) =
        IF part \in FloatParts THEN SubSeq(body, c + UnitSize(part) * (i - 1) + 1, c + UnitSize(part) * (i - 1) + FloatSize)
        ELSE body[c + UnitSize(part) * (i - 1) + 1]
  BY <1>1 DEF UnitAt
<1> HIDE DEF c, body
<1>5. CASE part \notin FloatParts
  <2>1. UnitSize(part) = 1 /\ bytes = b[part]
    BY <1>5 DEF UnitSize, PartBytes
  <2>2. c + UnitSize(part) * (i - 1) + 1 = c + i /\ i \in 1..Len(bytes)
    BY <1>2, <1>3, <2>1
  <2> QED BY <1>2, <1>4, <1>5, <2>1, <2>2
<1>6. CASE part \in FloatParts
  <2>1. UnitSize(part) = 4 /\ FloatSize = 4
    BY <1>6 DEF UnitSize, FloatSize
  <2>2. bytes = [k \in 1..4 * Len(b[part]) |-> b[part][((k - 1) \div 4) + 1][((k - 1) % 4) + 1]]
    BY <1>6, <2>1 DEF PartBytes
  <2> HIDE DEF bytes
  <2>3. PICK at \in Nat : at = c + 4 * (i - 1)
    BY <1>2, <1>3
  <2>4. b[part] \in Seq(Float)
    BY <1>6, LoaderAssumption
  <2>5. b[part][i] \in [1..4 -> Byte]
    BY <1>3, <2>1, <2>4 DEF Float
  <2>6. ASSUME NEW j \in 1..4 PROVE body[at + j] = b[part][i][j]
    <3>1. 4 * (i - 1) + j \in 1..4 * Len(b[part])
      BY <1>3
    <3>2. ((4 * (i - 1) + j - 1) \div 4) + 1 = i /\ ((4 * (i - 1) + j - 1) % 4) + 1 = j
      BY <1>3
    <3>3. at + j = c + (4 * (i - 1) + j)
      BY <1>2, <1>3, <2>3
    <3>4. body[at + j] = bytes[4 * (i - 1) + j]
      BY <1>2, <1>3, <2>1, <3>1, <3>3
    <3>5. bytes[4 * (i - 1) + j] = b[part][i][j]
      BY <2>2, <3>1, <3>2
    <3> QED BY <3>4, <3>5
  <2>7. UnitAt(Serialized(b), part, i - 1) = SubSeq(body, at + 1, at + 4)
    BY <1>4, <1>6, <2>1, <2>3
  <2>8. SubSeq(body, at + 1, at + 4) = [j \in 1..4 |-> body[at + j]]
    <3>1. at + 4 <= Len(body)
      <4>1. c + 4 * Len(b[part]) <= Len(body) /\ Len(body) \in Nat
        BY <1>2, <1>3, <2>1
      <4> QED BY <1>2, <1>3, <2>3, <4>1
    <3>2. \A s \in Seq(Byte), n \in Nat : n + 4 <= Len(s) => SubSeq(s, n + 1, n + 4) = [j \in 1..4 |-> s[n + j]]
      OBVIOUS
    <3> QED BY <1>2, <3>1, <3>2
  <2> QED BY <2>5, <2>6, <2>7, <2>8
<1> QED BY <1>5, <1>6

\* A file that nobody touched is taken only when it is the whole image.
LEMMA TakenUntouched ==
  ASSUME LInv, FileInv, damage = 0, LoadFault(file) = "ok"
  PROVE  file = Serialized(source)
<1>1. PICK n \in Nat : Written(n) BY DEF FileInv
<1>2. file.size = n /\ file.header = HeaderOf(source) /\ source \in Bytecodes
  BY <1>1, BeginningOfImage DEF Written, LInv, SourceOK
<1>3. ExpectedSize(file.header) = file.size BY DEF LoadFault, MeasureFault
<1>4. n = Whole(source) BY <1>2, <1>3, PromisedSize
<1> QED BY <1>1, <1>2, <1>4, ImageSize DEF Written

\* A program loaded from an image that nobody changed is the program that was compiled, for
\* every program, storage and history of files (lumi_bytecode_serialize and
\* lumi_vm_load_program agree about the place of every array and the bytes of every float).
THEOREM LoadedIsCompiled == LoaderSpec => []RoundTrip
<1>1. LoaderInit => RoundTrip
  BY DEF LoaderInit, RoundTrip
<1>2. LInv /\ FileInv /\ RoundTrip /\ [LoaderNext]_loaderVars => RoundTrip'
  <2> SUFFICES ASSUME LInv, FileInv, RoundTrip, [LoaderNext]_loaderVars PROVE RoundTrip'
    OBVIOUS
  <2>1. CASE UNCHANGED <<contents, program>>
    BY <2>1 DEF RoundTrip
  <2>2. CASE Load /\ LoadFault(file) = "ok"
    <3>1. /\ contents' = Copied(file)
          /\ program' = [counts |-> file.header.counts, maxStack |-> file.header.maxStack,
                         from |-> source, intact |-> damage = 0]
      BY <2>2 DEF Load
    <3> SUFFICES ASSUME damage = 0, NEW part \in PartNames
                 PROVE  SubSeq(Copied(file)[part], 1, file.header.counts[part]) = source[part]
      BY <3>1 DEF RoundTrip
    <3>2. file = Serialized(source) /\ source \in Bytecodes
      BY <2>2, TakenUntouched DEF LInv, SourceOK
    <3>3. file.header.counts[part] = Len(source[part]) /\ Len(source[part]) \in Nat
      BY <3>2, PartIsBytes DEF Serialized, HeaderOf
    <3>4. Len(source[part]) <= storage.program[part] /\ storage.program[part] \in Nat
      <4>1. storage.program \in [PartNames -> Nat] BY StorageAssumption DEF LInv, StorageOK
      <4> QED BY <2>2, <3>3, <4>1 DEF LoadFault, FitsProgram
    <3>5. Copied(file)[part] = [i \in 1..storage.program[part] |->
              IF i <= Len(source[part]) THEN UnitAt(file, part, i - 1) ELSE contents[part][i]]
      BY <3>3 DEF Copied
    <3> DEFINE units == Copied(file)[part]
               count == Len(source[part])
    <3>6. \A i \in 1..count : units[i] = source[part][i]
      BY <3>2, <3>3, <3>4, <3>5, UnitOfImage
    <3>7. SubSeq(units, 1, count) = [i \in 1..count |-> units[i]]
      <4>1. DOMAIN units = 1..storage.program[part] BY <3>5
      <4> HIDE DEF units
      <4> QED BY <3>3, <3>4, <4>1
    <3>8. source[part] = [i \in 1..count |-> source[part][i]]
      <4>1. source[part] \in Seq(Float) \/ source[part] \in Seq(Byte)
        BY <3>2, LoaderAssumption DEF PartNames
      <4> QED BY <4>1
    <3> HIDE DEF units, count
    <3>9. [i \in 1..count |-> units[i]] = [i \in 1..count |-> source[part][i]]
      BY <3>6
    <3> QED BY <3>3, <3>7, <3>8, <3>9 DEF units, count
  <2>3. CASE Load /\ LoadFault(file) # "ok"
    BY <2>1, <2>3 DEF Load
  <2>4. CASE ~Load
    <3>1. UNCHANGED <<contents, program>>
      BY <2>4 DEF LoaderNext, OpenFile, WriteFile, Damage, Truncate, Extend, AlterCount, AlterField,
        Damaged, Host, Ask, CreateState, loaderVars
    <3> QED BY <2>1, <3>1
  <2> QED BY <2>2, <2>3, <2>4
<1> QED BY <1>1, <1>2, LInvariant, FileInit, FileNext, PTL DEF LoaderSpec

-----------------------------------------------------------------------------
(* The builder *)

LEMMA OpenIsAllowed ==
  ASSUME NEW args \in CommandLines, Open(args)
  PROVE  \E b \in Bytecodes : OpenFile(b)
<1> DEFINE c == Arguments(args)
<1>1. Compiled(c.input, c.level) \in Bytecodes BY BuildAssumption DEF Open
<1>2. OpenFile(Compiled(c.input, c.level)) BY DEF Open
<1> QED BY <1>1, <1>2

LEMMA StepIsAllowed == [BuildNext]_buildVars => [LoaderNext]_loaderVars
<1> SUFFICES ASSUME [BuildNext]_buildVars PROVE [LoaderNext]_loaderVars
  OBVIOUS
<1>1. ASSUME NEW args \in CommandLines, Open(args) PROVE LoaderNext
  BY <1>1, OpenIsAllowed DEF LoaderNext
<1>2. ASSUME NEW size \in Cuts \cup {Serialized(source).size}, Flush(size) PROVE LoaderNext
  BY <1>2 DEF Flush, LoaderNext
<1>3. CASE GiveUp \/ Write \/ Close \/ Kill
  BY <1>3 DEF GiveUp, Write, Close, Kill, Exit
<1>4. CASE Damage \/ Host BY <1>4 DEF LoaderNext
<1>5. CASE UNCHANGED buildVars BY <1>5 DEF buildVars
<1> QED BY <1>1, <1>2, <1>3, <1>4, <1>5 DEF BuildNext

\* A host that reads the file of lumic sees only what the loader's specification allows.
THEOREM BuildImplementsLoader == BuildSpec => LoaderSpec
<1>1. BuildInit => LoaderInit BY DEF BuildInit
<1> QED BY <1>1, StepIsAllowed, PTL DEF BuildSpec, LoaderSpec

\* Loading copies only inside the image and the storage while lumic writes, fails or is killed.
THEOREM BuildCopiesInside == BuildSpec => []CopiesInside
<1> QED BY BuildImplementsLoader, CopiesStayInside, PTL

\* lumi_vm_can_load is exact while lumic writes, fails or is killed.
THEOREM BuildCanLoadDecides == BuildSpec => []CanLoadDecides
<1> QED BY BuildImplementsLoader, CanLoadIsExact, PTL

\* The loader's variables keep their types while lumic writes, fails or is killed.
THEOREM BuildTypes == BuildSpec => []TypeOK
<1> QED BY BuildImplementsLoader, LoaderTypes, PTL

\* What is loaded from a file of lumic that nobody changed is what was compiled, also when
\* the host looked while lumic wrote it, or a process was killed over it.
THEOREM BuildRoundTrip == BuildSpec => []RoundTrip
<1> QED BY BuildImplementsLoader, LoadedIsCompiled, PTL

-----------------------------------------------------------------------------
\* No part of an image passes for a program, and no image with a tail.
THEOREM BuildWrongLengthRefused == BuildSpec => []WrongLengthRefused
<1>1. LInv => WrongLengthRefused
  <2> SUFFICES ASSUME LInv, file.header = HeaderOf(source), file.size # Whole(source)
               PROVE  LoadFault(file) # "ok"
    BY DEF WrongLengthRefused, Whole
  <2>1. ExpectedSize(file.header) = Whole(source)
    BY PromisedSize DEF LInv, SourceOK
  <2>2. MeasureFault(file) # "ok" BY <2>1 DEF MeasureFault
  <2> QED BY <2>2 DEF LoadFault
<1> QED BY <1>1, BuildImplementsLoader, LInvInit, LInvNext, PTL DEF LoaderSpec

-----------------------------------------------------------------------------
(* The exit code *)

LumicOK ==
  lumic \in [phase : {"ended", "writing", "closing"}, exit : Int, opened : BOOLEAN,
             taken : Int, lost : BOOLEAN]
SourceKnown == source \in Bytecodes /\ damage \in Nat

\* A file that lumic has opened and nobody has touched since is a beginning of the image.
OpenedOK == lumic.opened /\ damage = 0 => \E n \in Nat : Written(n)

\* While lumic writes nobody else does, and the library passes on what it has taken.
RunningOK ==
  /\ lumic.phase # "ended" => lumic.opened /\ damage = 0
  /\ lumic.phase = "writing" => file.size = 0
  /\ lumic.phase = "closing" => lumic.taken \in 0..Whole(source) /\ file.size <= lumic.taken

\* What the exit code and the loss in fclose say of the size.
EndedOK ==
  lumic.phase = "ended" =>
    /\ lumic.exit \in {0, Killed} => lumic.opened
    /\ lumic.exit = 0 /\ ~lumic.lost /\ damage = 0 => file.size = Whole(source)
    /\ lumic.exit = 1 /\ lumic.opened /\ damage = 0 => file.size # Whole(source)

BInv == SourceKnown /\ LumicOK /\ OpenedOK /\ RunningOK /\ EndedOK

\* What a loader takes of a file that lumic began is the whole image.
LEMMA TakenIsWhole ==
  ASSUME source \in Bytecodes, NEW n, Written(n), MeasureFault(file) = "ok"
  PROVE  file = Serialized(source)
<1>1. file.size = n /\ file.header = HeaderOf(source)
  BY BeginningOfImage DEF Written
<1>2. ExpectedSize(file.header) = file.size
  BY DEF MeasureFault
<1>3. n = Whole(source) BY <1>1, <1>2, PromisedSize
<1> QED BY <1>3, ImageSize DEF Written

LEMMA BInvExit == BInv => ExitTells
<1> SUFFICES ASSUME BInv, Ended, damage = 0 PROVE ExitTells
  BY DEF ExitTells
<1> USE DEF BInv, SourceKnown, Ended
<1>1. ASSUME lumic.opened, file.size = Whole(source) PROVE file = Serialized(source)
  <2>1. PICK n \in Nat : Written(n) BY <1>1 DEF OpenedOK
  <2>2. file.size = n BY <2>1, BeginningOfImage DEF Written
  <2> QED BY <1>1, <2>1, <2>2, ImageSize DEF Written
<1>2. ASSUME lumic.opened, MeasureFault(file) = "ok" PROVE file = Serialized(source)
  <2>1. PICK n \in Nat : Written(n) BY <1>2 DEF OpenedOK
  <2> QED BY <1>2, <2>1, TakenIsWhole
<1>3. lumic.exit = 0 /\ ~lumic.lost => file = Serialized(source)
  BY <1>1 DEF EndedOK
<1>4. MeasureFault(file) = "ok" /\ lumic.exit \in {0, Killed} => file = Serialized(source)
  BY <1>2 DEF EndedOK
<1>5. MeasureFault(file) = "ok" /\ lumic.exit = 1 => ~lumic.opened
  BY <1>2 DEF EndedOK, Whole
<1> QED BY <1>3, <1>4, <1>5 DEF ExitTells

LEMMA BInvInit == BuildInit => BInv
<1> SUFFICES ASSUME BuildInit PROVE BInv
  OBVIOUS
<1>1. SourceKnown BY DEF BuildInit, LoaderInit, SourceKnown
<1>2. lumic = [phase |-> "ended", exit |-> Running, opened |-> FALSE, taken |-> 0, lost |-> FALSE]
  BY DEF BuildInit, Process
<1> QED BY <1>1, <1>2 DEF BInv, LumicOK, OpenedOK, RunningOK, EndedOK, Running, Killed

LEMMA BInvNext == BInv /\ [BuildNext]_buildVars => BInv'
<1> SUFFICES ASSUME BInv, [BuildNext]_buildVars PROVE BInv'
  OBVIOUS
<1> USE DEF BInv, SourceKnown
<1>1. ASSUME NEW args \in CommandLines, Open(args) PROVE BInv'
  <2>1. PICK b \in Bytecodes : OpenFile(b) BY <1>1, OpenIsAllowed
  <2>2. lumic' = [phase |-> "writing", exit |-> Running, opened |-> TRUE, taken |-> 0, lost |-> FALSE]
    BY <1>1 DEF Open, Process
  <2>3. source' = b /\ damage' = 0 /\ file' = Beginning(Serialized(b), 0)
    BY <2>1 DEF OpenFile
  <2>4. file'.size = 0 BY <2>3, BeginningOfImage
  <2>5. Written(0)' BY <2>3, ImageSize DEF Written, Whole
  <2>6. OpenedOK' BY <2>5 DEF OpenedOK
  <2>7. LumicOK' BY <2>2 DEF LumicOK, Running
  <2>8. RunningOK' /\ EndedOK' BY <2>2, <2>3, <2>4 DEF RunningOK, EndedOK
  <2> QED BY <2>3, <2>6, <2>7, <2>8
<1>2. ASSUME GiveUp PROVE BInv'
  <2>1. lumic' = [phase |-> "ended", exit |-> 1, opened |-> FALSE, taken |-> 0, lost |-> FALSE]
    BY <1>2 DEF GiveUp, Process
  <2>2. source' = source /\ damage' = damage BY <1>2 DEF GiveUp, loaderVars
  <2> QED BY <2>1, <2>2 DEF LumicOK, OpenedOK, RunningOK, EndedOK, Killed
<1>3. ASSUME Write PROVE BInv'
  <2>1. PICK n \in Cuts \cup {Serialized(source).size} :
          n <= Serialized(source).size /\ lumic' = [lumic EXCEPT !.phase = "closing", !.taken = n]
    BY <1>3 DEF Write
  <2>2. UNCHANGED <<source, damage, file>> BY <1>3 DEF Write, loaderVars
  <2>3. n \in 0..Whole(source) BY <2>1, LoaderAssumption, ImageSize DEF Whole
  <2>4. lumic'.phase = "closing" /\ lumic'.taken = n /\ lumic'.opened = lumic.opened /\ LumicOK'
    <3>1. n \in Int BY <2>1, LoaderAssumption, ImageSize DEF Whole
    <3> QED BY <2>1, <3>1 DEF LumicOK
  <2>5. OpenedOK'
    BY <2>2, <2>4 DEF OpenedOK, Written, Whole
  <2>6. RunningOK' /\ EndedOK'
    BY <1>3, <2>2, <2>3, <2>4 DEF Write, RunningOK, EndedOK, Whole
  <2> QED BY <2>2, <2>4, <2>5, <2>6
<1>4. ASSUME NEW size \in Cuts \cup {Serialized(source).size}, Flush(size) PROVE BInv'
  <2>1. /\ size <= lumic.taken /\ lumic.phase = "closing" /\ lumic' = lumic
        /\ file' = Beginning(Serialized(source), size) /\ source' = source /\ damage' = damage
    BY <1>4 DEF Flush, WriteFile
  <2>2. size \in 0..Whole(source)
    BY <2>1, LoaderAssumption, ImageSize DEF Whole, RunningOK
  <2>3. file'.size = size BY <2>1, BeginningOfImage
  <2>4. Written(size)' BY <2>1, <2>2 DEF Written, Whole
  <2>5. OpenedOK' BY <2>2, <2>4 DEF OpenedOK
  <2>6. RunningOK' /\ EndedOK' BY <2>1, <2>3 DEF RunningOK, EndedOK, Whole
  <2> QED BY <2>1, <2>5, <2>6 DEF LumicOK
<1>5. ASSUME NEW code \in {0, 1, Killed}, Exit(code), lumic.phase # "ended",
             code = 0 => lumic.phase = "closing" /\ lumic.taken = Whole(source),
             code = 1 => lumic.phase = "closing" /\ lumic.taken # Whole(source)
      PROVE BInv'
  <2>1. lumic' = [phase |-> "ended", exit |-> code, opened |-> TRUE, taken |-> 0, lost |-> file.size < lumic.taken]
    BY <1>5 DEF Exit, Process
  <2>2. UNCHANGED <<source, damage, file>> BY <1>5 DEF Exit, loaderVars
  <2>3. LumicOK' BY <2>1 DEF LumicOK, Killed
  <2>4. OpenedOK' BY <1>5, <2>1, <2>2 DEF OpenedOK, RunningOK, Written, Whole
  <2>5. PICK n \in Nat : Written(n) BY <1>5 DEF OpenedOK, RunningOK
  <2>6. file.size = n /\ n \in 0..Whole(source) BY <2>5, BeginningOfImage DEF Written
  <2>7. Whole(source) \in Nat BY ImageSize
  <2>8. EndedOK'
    <3>1. Whole(source)' = Whole(source) BY <2>2 DEF Whole
    <3>2. lumic'.phase = "ended" /\ lumic'.exit = code /\ lumic'.opened /\ lumic'.lost = (file.size < lumic.taken)
      BY <2>1
    <3>3. lumic.phase = "closing" => file.size <= lumic.taken /\ lumic.taken \in Nat
      BY <2>7 DEF RunningOK
    <3>4. code = 1 => file.size # Whole(source)
      <4>1. code = 1 => lumic.taken <= Whole(source) /\ lumic.taken # Whole(source)
        BY <1>5, <2>7 DEF RunningOK
      <4> QED BY <1>5, <2>6, <2>7, <3>3, <4>1
    <3>5. code = 0 /\ ~lumic'.lost => file.size = Whole(source)
      <4>1. ~lumic'.lost => ~(file.size < lumic.taken) BY <3>2, Zenon
      <4>2. code = 0 /\ ~(file.size < lumic.taken) => file.size = Whole(source)
        BY <1>5, <2>6, <2>7, <3>3
      <4> QED BY <4>1, <4>2
    <3> QED BY <2>2, <3>1, <3>2, <3>4, <3>5 DEF EndedOK, Killed
  <2> QED BY <2>1, <2>2, <2>3, <2>4, <2>8 DEF RunningOK
<1>6. CASE Close
  BY <1>5, <1>6 DEF Close, Whole, Killed
<1>7. CASE Kill
  <2>1. Exit(Killed) /\ lumic.phase # "ended" BY <1>7 DEF Kill, Ended
  <2> QED BY <1>5, <2>1 DEF Killed
<1>8. CASE Ended /\ Damage /\ UNCHANGED lumic
  <2>1. ASSUME NEW f, Damaged(f) PROVE source' = source /\ damage' \in Nat /\ damage' # 0
    BY <2>1 DEF Damaged
  <2>2. source' = source /\ damage' \in Nat /\ damage' # 0
    BY <1>8, <2>1 DEF Damage, Truncate, Extend, AlterCount, AlterField
  <2> QED BY <1>8, <2>2 DEF Ended, LumicOK, OpenedOK, RunningOK, EndedOK
<1>9. CASE Host /\ UNCHANGED lumic
  <2>1. UNCHANGED <<source, damage, file>> BY <1>9 DEF Host, Ask, Load, CreateState
  <2> QED BY <1>9, <2>1 DEF LumicOK, OpenedOK, RunningOK, EndedOK, Written, Whole
<1>10. CASE UNCHANGED buildVars
  BY <1>10 DEF buildVars, loaderVars, LumicOK, OpenedOK, RunningOK, EndedOK, Written, Whole
<1> QED BY <1>1, <1>2, <1>3, <1>4, <1>6, <1>7, <1>8, <1>9, <1>10 DEF BuildNext

\* What lumic's exit code says of the file is true, for every program, every point at
\* which a process may be killed and every part that fwrite or fclose may drop.
THEOREM BuildExitTells == BuildSpec => []ExitTells
<1> QED BY BInvInit, BInvNext, BInvExit, PTL DEF BuildSpec
=============================================================================
