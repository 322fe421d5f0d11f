------------------------- MODULE PasswordHashProofs -------------------------
(* Proofs about PasswordHash, for passwords of any length and every size   *)
(* of a block and of the length at its end, by way of HashInv.             *)
EXTENDS PasswordHash, SequenceTheorems, TLAPS

-----------------------------------------------------------------------------
(* Whole blocks.                                                           *)

(* Dividing leaves a remainder.                                            *)
LEMMA Division ==
  ASSUME NEW n \in Nat, NEW b \in Nat \ {0}
  PROVE  /\ n \div b \in Nat /\ n % b \in 0 .. b - 1
         /\ n = (n \div b) * b + (n % b)
OBVIOUS

(* ... and there is only one way to do it.                                 *)
LEMMA DivisionIsUnique ==
  ASSUME NEW b \in Nat \ {0}, NEW q \in Nat, NEW r \in 0 .. b - 1
  PROVE  (q * b + r) \div b = q /\ (q * b + r) % b = r
<1> DEFINE n == q * b + r
           k == n \div b
           l == n % b
<1>1. n \in Nat
  OBVIOUS
<1>2. k \in Nat /\ l \in 0 .. b - 1 /\ n = k * b + l
  BY <1>1, Division
<1>3. n = q * b + r
  OBVIOUS
<1> HIDE DEF n, k, l
<1>4. ASSUME NEW i \in Nat, NEW j \in Nat, i < j PROVE i * b + b <= j * b
  <2>1. PICK d \in Nat : j = i + 1 + d
    <3>1. j - i - 1 \in Nat /\ j = i + 1 + (j - i - 1)
      BY <1>4
    <3> QED BY <3>1
  <2>2. j * b = i * b + b + d * b /\ d * b \in Nat
    BY <2>1
  <2> QED BY <2>2
<1>5. q * b \in Nat /\ k * b \in Nat
  BY <1>2
<1>6. ~(k < q)
  <2>1. ASSUME k < q PROVE FALSE
    <3>1. k * b + b <= q * b
      BY <1>2, <1>4, <2>1
    <3> QED BY <1>2, <1>3, <1>5, <3>1
  <2> QED BY <2>1
<1>7. ~(q < k)
  <2>1. ASSUME q < k PROVE FALSE
    <3>1. q * b + b <= k * b
      BY <1>2, <1>4, <2>1
    <3> QED BY <1>2, <1>3, <1>5, <3>1
  <2> QED BY <2>1
<1>8. k = q
  BY <1>2, <1>6, <1>7
<1>9. l = r
  BY <1>2, <1>3, <1>5, <1>8
<1> QED BY <1>8, <1>9 DEF n, k, l

(* The assumptions on the constants, with the size of a block as one.      *)
LEMMA HashConstants ==
  /\ BlockBytes \in Nat \ {0} /\ LengthBytes \in Nat /\ 1 <= LengthBytes /\ LengthBytes < BlockBytes
  /\ Index = 0 .. BlockBytes - 1 /\ MaxPassword \in Nat
BY PasswordHashAssumption DEF Index

(* What is a number of blocks and a bit more, taken apart.                 *)
LEMMA BlocksAndMore ==
  ASSUME NEW q \in Nat, NEW r \in Nat, r < BlockBytes
  PROVE  (q * BlockBytes + r) \div BlockBytes = q /\ (q * BlockBytes + r) % BlockBytes = r
<1>1. BlockBytes \in Nat \ {0} /\ r \in 0 .. BlockBytes - 1
  BY HashConstants
<1> QED BY <1>1, DivisionIsUnique

-----------------------------------------------------------------------------
(* Types.                                                                  *)

(* The padded message is a whole number of blocks, with room for the one   *)
(* bit and the length, and not a block too many.                           *)
LEMMA SizeIsPadded ==
  ASSUME length \in Nat
  PROVE  /\ MessageBytes(length) \in Nat /\ Size \in Nat
         /\ \E q \in Nat : Size = q * BlockBytes
         /\ Size % BlockBytes = 0
         /\ MessageBytes(length) + 1 + LengthBytes <= Size
         /\ Size < MessageBytes(length) + 1 + LengthBytes + BlockBytes
<1> DEFINE n == MessageBytes(length) + LengthBytes
           q == n \div BlockBytes
           r == n % BlockBytes
<1>1. MessageBytes(length) \in Nat /\ n \in Nat
  BY HashConstants DEF MessageBytes
<1>2. q \in Nat /\ r \in 0 .. BlockBytes - 1 /\ n = q * BlockBytes + r
  BY <1>1, HashConstants, Division
<1>3. Size = (q + 1) * BlockBytes /\ n = MessageBytes(length) + LengthBytes
  BY DEF Size
<1> HIDE DEF n, q, r
<1>4. Size = q * BlockBytes + BlockBytes /\ q * BlockBytes \in Nat /\ Size \in Nat /\ q + 1 \in Nat
  BY <1>2, <1>3, HashConstants
<1>5. Size % BlockBytes = 0
  <2>1. Size = (q + 1) * BlockBytes + 0 /\ 0 < BlockBytes
    BY <1>3, <1>4, HashConstants
  <2> QED BY <1>4, <2>1, BlocksAndMore
<1>6. /\ MessageBytes(length) + 1 + LengthBytes <= Size
      /\ Size < MessageBytes(length) + 1 + LengthBytes + BlockBytes
  BY <1>1, <1>2, <1>3, <1>4, HashConstants
<1> QED BY <1>1, <1>3, <1>4, <1>5, <1>6

(* What is read from where input points is a byte.                         *)
LEMMA InputType ==
  ASSUME call \in Calls, at \in Nat, NEW i \in Nat
  PROVE  Input(i) \in Bytes
BY DEF Input, Bytes, Calls

(* memcpy() leaves a buffer.                                               *)
LEMMA FilledType ==
  ASSUME HashTypeOK, NEW from \in Nat, NEW n \in Nat
  PROVE  Filled(from, n) \in [Index -> Bytes]
<1>1. ASSUME NEW i \in Index, i \in from .. from + n - 1 PROVE Input(i - from) \in Bytes
  <2>1. i - from \in Nat
    BY <1>1, HashConstants
  <2> QED BY <2>1, InputType DEF HashTypeOK
<1>2. \A i \in Index : buffer[i] \in Bytes
  BY DEF HashTypeOK
<1> QED BY <1>1, <1>2 DEF Filled

(* Processing a block appends it to the blocks.                            *)
LEMMA ProcessType ==
  ASSUME HashTypeOK, NEW data \in [Index -> Bytes], md5_process(data)
  PROVE  /\ blocks' \in Seq([Index -> Bytes])
         /\ Len(blocks') = Len(blocks) + 1
         /\ \A k \in 1 .. Len(blocks) : blocks'[k] = blocks[k]
         /\ blocks'[Len(blocks) + 1] = data
BY AppendProperties DEF HashTypeOK, md5_process

(* The bytes of a type-correct state, as numbers.                          *)
LEMMA HashTypes ==
  ASSUME HashTypeOK
  PROVE  /\ length \in Nat /\ at \in Nat /\ ilen \in Nat /\ left \in 0 .. BlockBytes - 1
         /\ total \in Nat /\ bits \in Nat /\ call \in Calls /\ stage \in Stages
         /\ Len(blocks) \in Nat /\ blocks \in Seq([Index -> Bytes])
         /\ buffer \in [Index -> Bytes]
BY LenProperties, HashConstants DEF HashTypeOK

(* The padding fits between the message and the length.                    *)
LEMMA PaddingFits ==
  ASSUME length \in Nat, total = MessageBytes(length)
  PROVE  Padding = Size - LengthBytes - MessageBytes(length) /\ Padding \in 1 .. BlockBytes
<1> DEFINE n == total + LengthBytes
           q == total \div BlockBytes
           last == total % BlockBytes
<1>1. total \in Nat
  BY SizeIsPadded
<1>2. q \in Nat /\ last \in 0 .. BlockBytes - 1 /\ total = q * BlockBytes + last
  BY <1>1, HashConstants, Division
<1>3. /\ Size = (n \div BlockBytes + 1) * BlockBytes /\ n = total + LengthBytes
      /\ Padding = IF last < BlockBytes - LengthBytes THEN BlockBytes - LengthBytes - last
                   ELSE BlockBytes + (BlockBytes - LengthBytes) - last
  BY DEF Size, Padding
<1> HIDE DEF n, q, last
<1>4. q * BlockBytes \in Nat /\ (q + 1) * BlockBytes = q * BlockBytes + BlockBytes
      /\ ((q + 1) + 1) * BlockBytes = q * BlockBytes + BlockBytes + BlockBytes
  BY <1>2, HashConstants
<1>5. CASE last < BlockBytes - LengthBytes
  <2>1. n = q * BlockBytes + (last + LengthBytes) /\ last + LengthBytes \in Nat /\ last + LengthBytes < BlockBytes
    BY <1>2, <1>3, <1>4, <1>5, HashConstants
  <2>2. n \div BlockBytes = q
    BY <1>2, <2>1, BlocksAndMore
  <2> QED BY <1>2, <1>3, <1>4, <1>5, <2>2, HashConstants
<1>6. CASE ~(last < BlockBytes - LengthBytes)
  <2> DEFINE more == last + LengthBytes - BlockBytes
  <2>1. n = (q + 1) * BlockBytes + more /\ more \in Nat /\ more < BlockBytes /\ q + 1 \in Nat
    BY <1>2, <1>3, <1>4, <1>6, HashConstants
  <2> HIDE DEF more
  <2>2. n \div BlockBytes = q + 1
    BY <2>1, BlocksAndMore
  <2> QED BY <1>2, <1>3, <1>4, <1>6, <2>2, HashConstants
<1> QED BY <1>5, <1>6

(* Enter keeps the types.                                                  *)
LEMMA EnterType ==
  ASSUME HashTypeOK, Enter
  PROVE  HashTypeOK'
<1> DEFINE before == total % BlockBytes
           fill == BlockBytes - before
<1>1. /\ before \in 0 .. BlockBytes - 1 /\ fill \in 1 .. BlockBytes /\ fill = BlockBytes - before
      /\ total' \in Nat /\ at \in Nat /\ ilen \in Nat
  <2>1. total \in Nat /\ ilen \in Nat /\ at \in Nat
    BY HashTypes
  <2>2. total' = total + ilen
    BY DEF Enter
  <2>3. before \in 0 .. BlockBytes - 1
    BY <2>1, HashConstants, Division
  <2> HIDE DEF before
  <2> QED BY <2>1, <2>2, <2>3, HashConstants
<1> HIDE DEF before, fill
<1>3. stage' \in Stages /\ length' = length /\ call' = call /\ bits' = bits
  BY DEF Enter, Stages
<1>4. CASE Completes(before) /\ buffer' = Filled(before, fill) /\ md5_process(buffer')
           /\ at' = at + fill /\ ilen' = ilen - fill /\ left' = 0
  <2>1. buffer' \in [Index -> Bytes]
    BY <1>1, <1>4, FilledType
  <2>2. at' \in Nat /\ ilen' \in Nat /\ left' \in Index
    BY <1>1, <1>4, HashConstants DEF Completes
  <2> QED BY <1>1, <1>3, <1>4, <2>1, <2>2, ProcessType DEF HashTypeOK
<1>5. CASE left' = before /\ UNCHANGED <<buffer, blocks, at, ilen>>
  <2>1. left' \in Index
    BY <1>1, <1>5, HashConstants
  <2> QED BY <1>1, <1>3, <1>5, <2>1 DEF HashTypeOK
<1> QED BY <1>4, <1>5 DEF Enter, before, fill

(* Loop keeps the types.                                                   *)
LEMMA LoopType ==
  ASSUME HashTypeOK, Loop
  PROVE  HashTypeOK'
<1>1. CASE /\ ilen >= BlockBytes /\ md5_process([i \in Index |-> Input(i)])
           /\ at' = at + BlockBytes /\ ilen' = ilen - BlockBytes /\ UNCHANGED stage
  <2>1. \A i \in Index : Input(i) \in Bytes
    <3>1. Index = 0 .. BlockBytes - 1 /\ at \in Nat /\ call \in Calls
      BY HashTypes, HashConstants
    <3> QED BY <3>1, InputType
  <2>2. [i \in Index |-> Input(i)] \in [Index -> Bytes]
    BY <2>1
  <2>3. blocks' \in Seq([Index -> Bytes])
    BY <1>1, <2>2, ProcessType
  <2>4. at' \in Nat /\ ilen' \in Nat
    BY <1>1, HashTypes, HashConstants
  <2> QED BY <1>1, <2>3, <2>4 DEF HashTypeOK, Loop
<1>2. CASE ilen < BlockBytes /\ stage' = "rest" /\ UNCHANGED <<blocks, at, ilen>>
  BY <1>2 DEF HashTypeOK, Loop, Stages
<1> QED BY <1>1, <1>2 DEF Loop

(* Rest keeps the types.                                                   *)
LEMMA RestType ==
  ASSUME HashTypeOK, Rest
  PROVE  HashTypeOK'
<1>1. buffer' \in [Index -> Bytes]
  <2>1. left \in Nat /\ ilen \in Nat
    BY HashTypes, HashConstants
  <2>2. buffer' = Filled(left, ilen)
    BY DEF Rest
  <2> QED BY <2>1, <2>2, FilledType
<1>2. Padding \in Nat /\ 8 * total \in Nat /\ LengthBytes \in Nat
  <2>1. total \in Nat /\ total % BlockBytes \in 0 .. BlockBytes - 1
    BY HashTypes, HashConstants, Division
  <2> QED BY <2>1, HashConstants DEF Padding
<1>3. call' \in Calls /\ ilen' \in Nat /\ bits' \in Nat /\ stage' \in Stages /\ at' \in Nat
  BY <1>2, HashTypes DEF Rest, Calls, Stages
<1> QED BY <1>1, <1>3 DEF HashTypeOK, Rest

(* Starting a hash, or dropping it, keeps the types.                       *)
LEMMA EndsType ==
  ASSUME HashTypeOK, HashGone \/ \E len \in 0 .. MaxPassword : md5_starts(len)
  PROVE  HashTypeOK'
<1>1. <<>> \in Seq([Index -> Bytes])
  OBVIOUS
<1>2. CASE HashGone
  <2>1. buffer' \in [Index -> Bytes]
    BY <1>2 DEF HashGone, Bytes
  <2>2. 0 \in Index /\ 0 \in 0 .. MaxPassword
    BY HashConstants
  <2> QED BY <1>1, <1>2, <2>1, <2>2 DEF HashGone, HashTypeOK, Calls, Stages
<1>3. ASSUME NEW len \in 0 .. MaxPassword, md5_starts(len) PROVE HashTypeOK'
  <2>1. MessageBytes(len) \in Nat
    BY DEF MessageBytes
  <2> QED BY <1>1, <1>3, <2>1 DEF md5_starts, HashTypeOK, Calls, Stages
<1> QED BY <1>2, <1>3

(* Every step keeps the types.                                             *)
LEMMA HashTypeStep ==
  ASSUME HashTypeOK, [HashNext]_hashVars
  PROVE  HashTypeOK'
<1>1. CASE UNCHANGED hashVars
  BY <1>1 DEF hashVars, HashTypeOK
<1> QED BY <1>1, EnterType, LoopType, RestType, EndsType DEF HashNext, md5
-----------------------------------------------------------------------------
(* The blocks.                                                             *)

(* What input points to is the padded message from First + at on.          *)
LEMMA InputIsNext ==
  ASSUME HashTypeOK, NEW i \in Nat, at + i < CallBytes
  PROVE  Input(i) = PaddedByte(MessageBytes(length), Size, First + at + i)
<1> DEFINE m == MessageBytes(length)
           size == Size
<1>1. m \in Nat /\ size \in Nat /\ m + 1 + LengthBytes <= size /\ at \in Nat /\ call \in Calls
  BY HashTypes, SizeIsPadded
<1>2. CallBytes = CASE call = "message" -> m [] call = "padding" -> size - LengthBytes - m
                    [] call = "msglen" -> LengthBytes
  BY DEF CallBytes
<1>3. First = CASE call = "message" -> 0 [] call = "padding" -> m [] call = "msglen" -> size - LengthBytes
  BY DEF First
<1>4. LengthBytes \in Nat /\ 1 <= LengthBytes
  BY HashConstants
<1> HIDE DEF m, size
<1>5. ASSUME call = "message" PROVE Input(i) = PaddedByte(m, size, First + at + i)
  BY <1>1, <1>2, <1>3, <1>5 DEF Input, PaddedByte
<1>6. ASSUME call = "padding" PROVE Input(i) = PaddedByte(m, size, First + at + i)
  BY <1>1, <1>2, <1>3, <1>4, <1>6 DEF Input, PaddedByte
<1>7. ASSUME call = "msglen" PROVE Input(i) = PaddedByte(m, size, First + at + i)
  BY <1>1, <1>2, <1>3, <1>4, <1>7 DEF Input, PaddedByte
<1>8. Input(i) = PaddedByte(m, size, First + at + i)
  BY <1>1, <1>5, <1>6, <1>7 DEF Calls
<1> QED BY <1>8 DEF m, size

(* The sizes a call goes through, as numbers.                              *)
LEMMA CallTypes ==
  ASSUME HashTypeOK
  PROVE  /\ First \in Nat /\ CallBytes \in Nat /\ First + CallBytes <= Size
         /\ Taken \in Nat /\ Taken = Len(blocks) * BlockBytes /\ Len(blocks) \in Nat
         /\ Size \in Nat /\ Held \in 0 .. BlockBytes - 1
<1> DEFINE m == MessageBytes(length)
           size == Size
<1>1. m \in Nat /\ size \in Nat /\ m + 1 + LengthBytes <= size /\ call \in Calls
  BY HashTypes, SizeIsPadded
<1> HIDE DEF m, size
<1>2. CallBytes = CASE call = "message" -> m [] call = "padding" -> size - LengthBytes - m
                    [] call = "msglen" -> LengthBytes
  BY DEF CallBytes, m, size
<1>3. First = CASE call = "message" -> 0 [] call = "padding" -> m [] call = "msglen" -> size - LengthBytes
  BY DEF First, m, size
<1>4. First \in Nat /\ CallBytes \in Nat /\ First + CallBytes <= size
  BY <1>1, <1>2, <1>3, HashConstants DEF Calls
<1>5. Taken \in Nat /\ Taken = Len(blocks) * BlockBytes /\ Len(blocks) \in Nat
  BY HashTypes, HashConstants DEF Taken
<1>6. Held \in 0 .. BlockBytes - 1
  <2>1. total \in Nat /\ left \in 0 .. BlockBytes - 1
    BY HashTypes
  <2>2. total % BlockBytes \in 0 .. BlockBytes - 1
    BY <2>1, HashConstants, Division
  <2> QED BY <2>1, <2>2 DEF Held
<1> QED BY <1>1, <1>4, <1>5, <1>6 DEF size

(* A block of the next bytes of the padded message may be appended.        *)
LEMMA NextBlock ==
  ASSUME HashTypeOK, ContentInv,
         NEW data \in [Index -> Bytes], md5_process(data), UNCHANGED length,
         \A i \in Index : data[i] = PaddedByte(MessageBytes(length), Size, Taken + i)
  PROVE  \A k \in 1 .. Len(blocks') : \A i \in Index :
           blocks'[k][i] = PaddedByte(MessageBytes(length), Size, (k - 1) * BlockBytes + i)
<1>1. /\ Len(blocks) \in Nat /\ Len(blocks') = Len(blocks) + 1
      /\ \A k \in 1 .. Len(blocks) : blocks'[k] = blocks[k]
      /\ blocks'[Len(blocks) + 1] = data
  BY HashTypes, ProcessType
<1> SUFFICES ASSUME NEW k \in 1 .. Len(blocks'), NEW i \in Index
             PROVE  blocks'[k][i] = PaddedByte(MessageBytes(length), Size, (k - 1) * BlockBytes + i)
  OBVIOUS
<1>2. CASE k \in 1 .. Len(blocks)
  BY <1>1, <1>2 DEF ContentInv
<1>3. CASE k = Len(blocks) + 1
  <2>1. (k - 1) * BlockBytes = Taken
    BY <1>1, <1>3 DEF Taken
  <2> QED BY <1>1, <1>3, <2>1
<1> QED BY <1>1, <1>2, <1>3

(* The buffer, filled behind what it holds, holds more of the message.     *)
LEMMA FilledIsNext ==
  ASSUME HashTypeOK, ContentInv, NEW n \in Nat,
         First + at = Taken + Held, at + n <= CallBytes
  PROVE  \A i \in Index : i < Held + n =>
           Filled(Held, n)[i] = PaddedByte(MessageBytes(length), Size, Taken + i)
<1>1. /\ First \in Nat /\ at \in Nat /\ Taken \in Nat /\ Held \in 0 .. BlockBytes - 1 /\ CallBytes \in Nat
      /\ Index = 0 .. BlockBytes - 1 /\ BlockBytes \in Nat
  BY HashTypes, CallTypes, HashConstants
<1> SUFFICES ASSUME NEW i \in Index, i < Held + n
             PROVE  Filled(Held, n)[i] = PaddedByte(MessageBytes(length), Size, Taken + i)
  OBVIOUS
<1>2. CASE i < Held
  <2>1. Filled(Held, n)[i] = buffer[i]
    BY <1>1, <1>2 DEF Filled
  <2> QED BY <1>2, <2>1 DEF ContentInv
<1>3. CASE i >= Held
  <2>1. Filled(Held, n)[i] = Input(i - Held)
    BY <1>1, <1>3 DEF Filled
  <2>2. i - Held \in Nat /\ at + (i - Held) < CallBytes /\ First + at + (i - Held) = Taken + i
    BY <1>1, <1>3
  <2> QED BY <2>1, <2>2, InputIsNext
<1> QED BY <1>1, <1>2, <1>3
-----------------------------------------------------------------------------
(* The steps.                                                              *)

(* Within a call, the window it reads from stays.                          *)
LEMMA SameCall ==
  ASSUME UNCHANGED <<length, call>>
  PROVE  /\ First' = First /\ CallBytes' = CallBytes /\ Size' = Size
         /\ MessageBytes(length)' = MessageBytes(length)
BY DEF First, CallBytes, Size, MessageBytes

(* What is processed is taken.                                             *)
LEMMA ProcessTakes ==
  ASSUME HashTypeOK, NEW data \in [Index -> Bytes], md5_process(data)
  PROVE  Taken' = Taken + BlockBytes
<1>1. Len(blocks') = Len(blocks) + 1 /\ Len(blocks) \in Nat
  BY HashTypes, ProcessType
<1>2. BlockBytes \in Nat
  BY HashConstants
<1> QED BY <1>1, <1>2 DEF Taken

(* The first buffer's worth of an input.                                   *)
LEMMA EnterStep ==
  ASSUME HashInv, Enter
  PROVE  PositionInv' /\ ContentInv'
<1> DEFINE before == total % BlockBytes
           fill == BlockBytes - before
<1>1. HashTypeOK /\ PositionInv /\ ContentInv /\ stage = "enter" /\ stage' = "loop"
  BY DEF HashInv, Enter
<1>2. /\ Held = before /\ First + at = Taken + Held /\ at = 0
      /\ at + ilen = CallBytes /\ total = First
      /\ call # "message" => bits = 8 * MessageBytes(length)
  BY <1>1, CallTypes DEF Held, PositionInv
<1>3. /\ before \in 0 .. BlockBytes - 1 /\ fill = BlockBytes - before /\ ilen \in Nat /\ total \in Nat
      /\ First \in Nat /\ CallBytes \in Nat /\ Taken \in Nat /\ BlockBytes \in Nat
      /\ Index = 0 .. BlockBytes - 1
  <2>1. before \in 0 .. BlockBytes - 1
    BY <1>1, <1>2, CallTypes
  <2> HIDE DEF before
  <2> QED BY <1>1, <2>1, HashTypes, CallTypes, HashConstants
<1>4. /\ total' = total + ilen /\ UNCHANGED <<length, call, bits>>
  BY DEF Enter
<1>5. /\ First' = First /\ CallBytes' = CallBytes /\ Size' = Size
      /\ MessageBytes(length') = MessageBytes(length) /\ Held' = left'
  BY <1>1, <1>4, SameCall DEF Held
<1>6. CASE /\ Completes(before) /\ buffer' = Filled(before, fill) /\ md5_process(buffer')
           /\ at' = at + fill /\ ilen' = ilen - fill /\ left' = 0
  <2>1. ilen >= fill
    BY <1>6 DEF Completes
  <2>2. buffer' \in [Index -> Bytes] /\ fill \in Nat
    BY <1>1, <1>3, <1>6, FilledType
  <2>3. Taken' = Taken + BlockBytes
    BY <1>1, <1>6, <2>2, ProcessTakes
  <2>4. \A i \in Index : buffer'[i] = PaddedByte(MessageBytes(length), Size, Taken + i)
    <3>1. at + fill <= CallBytes /\ \A i \in Index : i < Held + fill
      BY <1>2, <1>3, <2>1
    <3> QED BY <1>1, <1>2, <1>6, <2>2, <3>1, FilledIsNext
  <2>5. \A k \in 1 .. Len(blocks') : \A i \in Index :
          blocks'[k][i] = PaddedByte(MessageBytes(length), Size, (k - 1) * BlockBytes + i)
    BY <1>1, <1>4, <1>6, <2>2, <2>4, NextBlock
  <2>6. ContentInv'
    BY <1>3, <1>5, <1>6, <2>5 DEF ContentInv
  <2>7. PositionInv'
    BY <1>1, <1>2, <1>3, <1>4, <1>5, <1>6, <2>1, <2>3 DEF PositionInv
  <2> QED BY <2>6, <2>7
<1>7. CASE ~Completes(before) /\ left' = before /\ UNCHANGED <<buffer, blocks, at, ilen>>
  <2>1. Taken' = Taken
    BY <1>7 DEF Taken
  <2>2. ContentInv'
    BY <1>1, <1>2, <1>5, <1>7, <2>1 DEF ContentInv
  <2>3. before = 0 \/ ilen < fill
    BY <1>3, <1>7 DEF Completes
  <2>4. PositionInv'
    BY <1>1, <1>2, <1>3, <1>4, <1>5, <1>7, <2>1, <2>3 DEF PositionInv
  <2> QED BY <2>2, <2>4
<1> QED BY <1>6, <1>7 DEF Enter, before, fill

(* A whole block straight from the input, or on to the rest.               *)
LEMMA LoopStep ==
  ASSUME HashInv, Loop
  PROVE  PositionInv' /\ ContentInv'
<1>1. HashTypeOK /\ PositionInv /\ ContentInv /\ stage = "loop"
  BY DEF HashInv, Loop
<1>2. /\ Held = left /\ First + at = Taken + left /\ total = First + CallBytes
      /\ at + ilen = CallBytes /\ (left > 0 => left + ilen < BlockBytes)
      /\ call # "message" => bits = 8 * MessageBytes(length)
  BY <1>1 DEF Held, PositionInv
<1>3. /\ at \in Nat /\ ilen \in Nat /\ left \in 0 .. BlockBytes - 1 /\ total \in Nat
      /\ First \in Nat /\ CallBytes \in Nat /\ Taken \in Nat /\ BlockBytes \in Nat
      /\ Index = 0 .. BlockBytes - 1
  BY <1>1, HashTypes, CallTypes, HashConstants
<1>4. UNCHANGED <<length, call, left, total, bits, buffer>>
  BY DEF Loop
<1>5. /\ First' = First /\ CallBytes' = CallBytes /\ Size' = Size
      /\ MessageBytes(length') = MessageBytes(length)
  BY <1>4, SameCall
<1>6. CASE /\ ilen >= BlockBytes /\ md5_process([i \in Index |-> Input(i)])
           /\ at' = at + BlockBytes /\ ilen' = ilen - BlockBytes /\ UNCHANGED stage
  <2> DEFINE data == [i \in Index |-> Input(i)]
  <2>1. left = 0 /\ Held' = 0
    BY <1>1, <1>2, <1>3, <1>4, <1>6 DEF Held
  <2>2. \A i \in Index : Input(i) \in Bytes
    <3>1. call \in Calls
      BY <1>1, HashTypes
    <3> QED BY <1>3, <3>1, InputType
  <2>3. data \in [Index -> Bytes]
    BY <2>2
  <2>4. \A i \in Index : data[i] = PaddedByte(MessageBytes(length), Size, Taken + i)
    <3> SUFFICES ASSUME NEW i \in Index PROVE data[i] = PaddedByte(MessageBytes(length), Size, Taken + i)
      OBVIOUS
    <3>1. i \in Nat /\ at + i < CallBytes /\ First + at + i = Taken + i
      BY <1>2, <1>3, <1>6, <2>1
    <3>2. Input(i) = PaddedByte(MessageBytes(length), Size, First + at + i)
      BY <1>1, <3>1, InputIsNext
    <3> QED BY <3>1, <3>2
  <2>5. md5_process(data)
    BY <1>6
  <2> HIDE DEF data
  <2>6. Taken' = Taken + BlockBytes
    BY <1>1, <2>3, <2>5, ProcessTakes
  <2>7. \A k \in 1 .. Len(blocks') : \A i \in Index :
          blocks'[k][i] = PaddedByte(MessageBytes(length), Size, (k - 1) * BlockBytes + i)
    BY <1>1, <1>4, <2>3, <2>4, <2>5, NextBlock
  <2>8. ContentInv'
    <3>1. \A i \in Index : ~(i < Held')
      BY <1>3, <2>1
    <3> QED BY <1>5, <2>7, <3>1 DEF ContentInv
  <2>9. PositionInv'
    BY <1>1, <1>2, <1>3, <1>4, <1>5, <1>6, <2>1, <2>6 DEF PositionInv
  <2> QED BY <2>8, <2>9
<1>7. CASE ilen < BlockBytes /\ stage' = "rest" /\ UNCHANGED <<blocks, at, ilen>>
  <2>1. Taken' = Taken /\ Held' = Held
    BY <1>1, <1>4, <1>7 DEF Taken, Held
  <2>2. ContentInv'
    BY <1>1, <1>4, <1>5, <1>7, <2>1 DEF ContentInv
  <2>3. PositionInv'
    BY <1>1, <1>2, <1>3, <1>4, <1>5, <1>7, <2>1 DEF PositionInv
  <2> QED BY <2>2, <2>3
<1> QED BY <1>6, <1>7 DEF Loop
(* The rest of an input goes to the buffer, and the next call begins.      *)
LEMMA RestStep ==
  ASSUME HashInv, Rest
  PROVE  PositionInv' /\ ContentInv'
<1>1. HashTypeOK /\ PositionInv /\ ContentInv /\ stage = "rest"
  BY DEF HashInv, Rest
<1>2. /\ Held = left /\ First + at = Taken + left /\ total = First + CallBytes
      /\ at + ilen = CallBytes /\ left + ilen < BlockBytes
      /\ call # "message" => bits = 8 * MessageBytes(length)
  BY <1>1 DEF Held, PositionInv
<1>3. /\ at \in Nat /\ ilen \in Nat /\ left \in 0 .. BlockBytes - 1 /\ total \in Nat /\ length \in Nat
      /\ First \in Nat /\ CallBytes \in Nat /\ Taken \in Nat /\ BlockBytes \in Nat /\ LengthBytes \in Nat
      /\ Taken = Len(blocks) * BlockBytes /\ Len(blocks) \in Nat /\ Index = 0 .. BlockBytes - 1
  BY <1>1, HashTypes, CallTypes, HashConstants
<1>4. /\ MessageBytes(length) \in Nat /\ Size \in Nat /\ Size % BlockBytes = 0
      /\ MessageBytes(length) + 1 + LengthBytes <= Size
  BY <1>3, SizeIsPadded
<1>5. /\ UNCHANGED <<length, left, total, blocks>> /\ at' = 0
      /\ buffer' = Filled(left, ilen)
  BY DEF Rest
<1>6. /\ Size' = Size /\ Taken' = Taken /\ MessageBytes(length') = MessageBytes(length)
  BY <1>5 DEF Size, MessageBytes, Taken
<1>7. total = Taken + left + ilen /\ total % BlockBytes = left + ilen
  <2>1. total = Taken + (left + ilen) /\ left + ilen \in Nat /\ left + ilen < BlockBytes
    BY <1>2, <1>3
  <2>2. (Len(blocks) * BlockBytes + (left + ilen)) % BlockBytes = left + ilen
    BY <1>3, <2>1, BlocksAndMore
  <2>3. total % BlockBytes = left + ilen
    BY <1>3, <2>1, <2>2
  <2> QED BY <1>3, <2>1, <2>3
<1>8. \A i \in Index : i < left + ilen => buffer'[i] = PaddedByte(MessageBytes(length), Size, Taken + i)
  BY <1>1, <1>2, <1>3, <1>5, FilledIsNext
<1>9. Held' <= left + ilen => ContentInv'
  <2> SUFFICES ASSUME Held' <= left + ilen PROVE ContentInv'
    OBVIOUS
  <2>1. Held' \in Int
    BY <1>3, <1>5 DEF Held
  <2>2. \A i \in Index : i < Held' => i < left + ilen
    BY <1>3, <2>1
  <2> QED BY <1>1, <1>5, <1>6, <1>8, <2>2 DEF ContentInv
<1>10. CASE call = "message" /\ call' = "padding" /\ ilen' = Padding /\ bits' = 8 * total /\ stage' = "enter"
  <2>1. total = MessageBytes(length) /\ First' = MessageBytes(length)
        /\ CallBytes' = Size - LengthBytes - MessageBytes(length)
    BY <1>2, <1>3, <1>4, <1>6, <1>10 DEF First, CallBytes
  <2>2. ilen' = CallBytes' /\ ilen' \in Nat
    BY <1>3, <1>10, <2>1, PaddingFits
  <2>3. Held' = left + ilen
    BY <1>3, <1>5, <1>7, <1>10 DEF Held
  <2>4. /\ at' = 0 /\ at' + ilen' = CallBytes' /\ total' = First' /\ total' = Taken' + Held'
        /\ bits' = 8 * MessageBytes(length')
    <3>1. Taken \in Nat /\ left \in Nat /\ ilen \in Nat
      BY <1>3
    <3>2. total = Taken + (left + ilen)
      BY <1>7, <3>1
    <3> QED BY <1>5, <1>6, <1>10, <2>1, <2>2, <2>3, <3>2
  <2>5. PositionInv'
    BY <1>10, <2>4 DEF PositionInv
  <2> QED BY <1>3, <1>9, <2>3, <2>5
<1>11. CASE call = "padding" /\ call' = "msglen" /\ ilen' = LengthBytes /\ stage' = "enter" /\ UNCHANGED bits
  <2>1. total = Size - LengthBytes /\ First' = Size - LengthBytes /\ CallBytes' = LengthBytes
    BY <1>2, <1>3, <1>4, <1>6, <1>11 DEF First, CallBytes
  <2>2. Held' = left + ilen
    BY <1>3, <1>5, <1>7, <1>11 DEF Held
  <2>3. PositionInv'
    BY <1>2, <1>3, <1>5, <1>6, <1>7, <1>11, <2>1, <2>2 DEF PositionInv
  <2> QED BY <1>3, <1>9, <2>2, <2>3
<1>12. CASE call = "msglen" /\ stage' = "done" /\ UNCHANGED <<call, ilen, bits>>
  <2>1. total = Size
    BY <1>2, <1>3, <1>4, <1>12 DEF First, CallBytes
  <2>2. left + ilen = 0 /\ Taken = Size
    BY <1>3, <1>4, <1>7, <2>1
  <2>3. Held' = left
    BY <1>5, <1>12 DEF Held
  <2>4. PositionInv'
    BY <1>2, <1>6, <1>12, <2>2 DEF PositionInv
  <2> QED BY <1>3, <1>9, <2>3, <2>4
<1> QED BY <1>10, <1>11, <1>12 DEF Rest

(* A new computation begins at the start of its message.                   *)
LEMMA StartStep ==
  ASSUME HashInv, NEW len \in 0 .. MaxPassword, md5_starts(len)
  PROVE  PositionInv' /\ ContentInv'
<1>1. /\ length' = len /\ call' = "message" /\ at' = 0 /\ ilen' = MessageBytes(len)
      /\ total' = 0 /\ blocks' = <<>> /\ stage' = "enter"
  BY DEF md5_starts
<1>2. MessageBytes(len) \in Nat
  BY DEF MessageBytes
<1>3. /\ First' = 0 /\ CallBytes' = MessageBytes(len) /\ Held' = 0
  <2>1. 0 % BlockBytes = 0
    BY HashConstants
  <2> QED BY <1>1, <2>1 DEF First, CallBytes, Held, MessageBytes
<1>4. Len(blocks') = 0 /\ Taken' = 0
  BY <1>1, HashConstants DEF Taken
<1>5. ContentInv'
  <2>1. \A i \in Index : ~(i < Held')
    BY <1>3, HashConstants
  <2>2. 1 .. Len(blocks') = {}
    BY <1>4
  <2> QED BY <2>1, <2>2 DEF ContentInv
<1>6. PositionInv'
  BY <1>1, <1>2, <1>3, <1>4 DEF PositionInv
<1> QED BY <1>5, <1>6

(* HashInv holds at the start.                                             *)
LEMMA HashInvStarts ==
  ASSUME HashInit
  PROVE  HashInv
<1>1. <<>> \in Seq([Index -> Bytes]) /\ 0 \in Index /\ 0 \in 0 .. MaxPassword
  BY HashConstants
<1>2. buffer \in [Index -> Bytes]
  BY DEF HashInit, Bytes
<1> QED BY <1>1, <1>2 DEF HashInit, HashInv, HashTypeOK, Calls, Stages

(* HashInv holds after every step.                                         *)
LEMMA HashInvStep ==
  ASSUME HashInv, [HashNext]_hashVars
  PROVE  HashInv'
<1>1. HashTypeOK'
  BY HashTypeStep DEF HashInv
<1>2. CASE Enter \/ Loop \/ Rest
  BY <1>1, <1>2, EnterStep, LoopStep, RestStep DEF HashInv
<1>3. CASE HashGone
  BY <1>1, <1>3 DEF HashInv, HashGone
<1>4. CASE \E len \in 0 .. MaxPassword : md5_starts(len)
  BY <1>1, <1>4, StartStep DEF HashInv
<1>5. CASE UNCHANGED hashVars
  <2>1. UNCHANGED <<First, CallBytes, Size, Taken, Held>>
    BY <1>5 DEF hashVars, First, CallBytes, Size, Taken, Held, MessageBytes
  <2>2. MessageBytes(length') = MessageBytes(length)
    BY <1>5 DEF hashVars
  <2>3. PositionInv => PositionInv'
    BY <1>5, <2>1, <2>2 DEF hashVars, PositionInv
  <2>4. ContentInv => ContentInv'
    BY <1>5, <2>1, <2>2 DEF hashVars, ContentInv
  <2> QED BY <1>1, <1>5, <2>3, <2>4 DEF HashInv, hashVars
<1> QED BY <1>2, <1>3, <1>4, <1>5 DEF HashNext, md5

(* What HashInv says of a finished hash, and of the last memcpy().         *)
LEMMA HashInvIsPadded ==
  ASSUME HashInv
  PROVE  HashIsPadded /\ BufferFits
<1>1. BufferFits
  <2>1. ASSUME stage = "rest" PROVE left + ilen < BlockBytes
    BY <2>1 DEF HashInv, PositionInv
  <2>2. left \in Nat /\ ilen \in Nat /\ BlockBytes \in Nat
    BY HashTypes, HashConstants DEF HashInv
  <2> QED BY <2>1, <2>2 DEF BufferFits
<1>2. ASSUME stage = "done" PROVE HashIsPadded
  <2>1. PositionInv /\ ContentInv /\ call = "msglen" /\ Taken = Size
    BY <1>2 DEF HashInv, PositionInv
  <2>2. bits = 8 * MessageBytes(length)
    BY <2>1 DEF PositionInv
  <2>3. IsPaddedSize(MessageBytes(length), Size)
    <3>1. length \in Nat
      BY HashTypes DEF HashInv
    <3> QED BY <3>1, SizeIsPadded DEF IsPaddedSize
  <2> QED BY <2>1, <2>2, <2>3 DEF HashIsPadded, ContentInv, Taken
<1> QED BY <1>1, <1>2 DEF HashIsPadded

-----------------------------------------------------------------------------
(* The theorems.                                                           *)

(* What md5_update() has processed and what its buffer holds are, at every *)
(* point of every call, the padded message up to where its input points.   *)
THEOREM HashStaysInStep == HashSpec => []HashInv
<1>1. HashInit => HashInv
  BY HashInvStarts
<1>2. HashInv /\ [HashNext]_hashVars => HashInv'
  BY HashInvStep
<1> QED BY <1>1, <1>2, PTL DEF HashSpec

(* u3_pass_to_hash() runs MD5 on the standard's padded message, for a      *)
(* password of any length.                                                 *)
THEOREM HashCorrect == HashSpec => []HashIsPadded
BY HashStaysInStep, HashInvIsPadded, PTL

(* md5_update() never writes behind its buffer.                            *)
THEOREM HashStaysInside == HashSpec => []BufferFits
BY HashStaysInStep, HashInvIsPadded, PTL
=============================================================================
