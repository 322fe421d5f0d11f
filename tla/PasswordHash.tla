---------------------------- MODULE PasswordHash ----------------------------
(***************************************************************************)
(* u3_pass_to_hash() and the MD5 code under it: how a password of "length" *)
(* characters becomes the blocks md5_process() is called with, buffer by   *)
(* buffer.  The digest is a function of that sequence of blocks, and what  *)
(* the 64 rounds make of a block is left out; so is total[1], since twice  *)
(* MAX_PASSWORD_LENGTH is far below 2^32.                                  *)
(*                                                                         *)
(* A byte is known by where it comes from: <<"message", i>> is byte i of   *)
(* unicode_pass, the low or the high half of a character of the password   *)
(* or of its final NUL.                                                    *)
(***************************************************************************)
EXTENDS Naturals, Sequences

CONSTANTS MaxPassword,    \* MAX_PASSWORD_LENGTH
          BlockBytes,     \* 64
          LengthBytes     \* 8

ASSUME PasswordHashAssumption ==
  /\ MaxPassword \in Nat
  /\ BlockBytes \in Nat /\ LengthBytes \in 1 .. BlockBytes - 1

VARIABLES length,    \* passlen
          call,      \* what md5_update() is called with
          at,        \* input
          ilen,      \* ilen
          left,      \* left
          total,     \* ctx->total[0]
          bits,      \* msglen
          buffer,    \* ctx->buffer
          blocks,    \* the blocks ctx->state is computed from
          stage      \* where in md5_update() the computation is

hashVars == <<length, call, at, ilen, left, total, bits, buffer, blocks, stage>>

Stages == {"idle", "enter", "loop", "rest", "done"}

Calls == {"message", "padding", "msglen"}

Bytes == (Calls \cup {"none"}) \X Nat

Index == 0 .. BlockBytes - 1

MessageBytes(len) == (len + 1) * 2

HashTypeOK ==
  /\ length \in 0 .. MaxPassword
  /\ call \in Calls
  /\ at \in Nat /\ ilen \in Nat /\ left \in Index /\ total \in Nat /\ bits \in Nat
  /\ buffer \in [Index -> Bytes]
  /\ blocks \in Seq([Index -> Bytes])
  /\ stage \in Stages

HashInit ==
  /\ length = 0 /\ call = "message" /\ at = 0 /\ ilen = 0 /\ left = 0 /\ total = 0 /\ bits = 0
  /\ buffer = [i \in Index |-> <<"none", 0>>]
  /\ blocks = <<>>
  /\ stage = "idle"

(* Whoever computes the hash is gone, and the context with it.             *)
HashGone ==
  /\ length' = 0 /\ call' = "message" /\ at' = 0 /\ ilen' = 0 /\ left' = 0 /\ total' = 0 /\ bits' = 0
  /\ buffer' = [i \in Index |-> <<"none", 0>>]
  /\ blocks' = <<>>
  /\ stage' = "idle"

(* Byte i from where input points.  Of md5_padding only the first byte,    *)
(* 0x80, is not zero.                                                      *)
Input(i) ==
  IF call = "padding" THEN <<"padding", IF at + i = 0 THEN 1 ELSE 0>> ELSE <<call, at + i>>

(* memcpy() of n bytes to ctx->buffer + from.                              *)
Filled(from, n) ==
  [i \in Index |-> IF i \in from .. from + n - 1 THEN Input(i - from) ELSE buffer[i]]

md5_process(data) == blocks' = Append(blocks, data)

-----------------------------------------------------------------------------
(* u3_pass_to_hash(), up to md5_starts(); a computation is over when the   *)
(* next one starts.                                                        *)
md5_starts(len) ==
  /\ stage \in {"idle", "done"}
  /\ length' = len
  /\ call' = "message" /\ at' = 0 /\ ilen' = MessageBytes(len)
  /\ total' = 0 /\ blocks' = <<>> /\ stage' = "enter"
  /\ UNCHANGED <<left, bits, buffer>>

(* Mutant of Completes: a buffer that is just full is not processed.       *)
CompletesLate(before) == before > 0 /\ ilen > BlockBytes - before

(* Is the buffer's block full with this input?                             *)
Completes(before) == before > 0 /\ ilen >= BlockBytes - before

(* Mutant of Enter: left keeps what was in the buffer.                     *)
EnterStale ==
  LET before == total % BlockBytes
      fill == BlockBytes - before
  IN  /\ stage = "enter"
      /\ total' = total + ilen
      /\ left' = before
      /\ stage' = "loop"
      /\ \/ /\ Completes(before)
            /\ buffer' = Filled(before, fill)
            /\ md5_process(buffer')
            /\ at' = at + fill /\ ilen' = ilen - fill
         \/ /\ ~Completes(before)
            /\ UNCHANGED <<buffer, blocks, at, ilen>>
      /\ UNCHANGED <<length, call, bits>>

(* md5_update(), to its while loop.                                        *)
Enter ==
  LET before == total % BlockBytes
      fill == BlockBytes - before
  IN  /\ stage = "enter"
      /\ total' = total + ilen
      /\ stage' = "loop"
      /\ \/ /\ Completes(before)
            /\ buffer' = Filled(before, fill)
            /\ md5_process(buffer')
            /\ at' = at + fill /\ ilen' = ilen - fill /\ left' = 0
         \/ /\ ~Completes(before)
            /\ left' = before
            /\ UNCHANGED <<buffer, blocks, at, ilen>>
      /\ UNCHANGED <<length, call, bits>>

Loop ==
  /\ stage = "loop"
  /\ \/ /\ ilen >= BlockBytes
        /\ md5_process([i \in Index |-> Input(i)])
        /\ at' = at + BlockBytes /\ ilen' = ilen - BlockBytes
        /\ UNCHANGED stage
     \/ /\ ilen < BlockBytes
        /\ stage' = "rest"
        /\ UNCHANGED <<blocks, at, ilen>>
  /\ UNCHANGED <<length, call, left, total, bits, buffer>>

(* Mutant of Padding: there is room for the length where there is none.    *)
PaddingOverlong ==
  LET last == total % BlockBytes
      room == BlockBytes - LengthBytes
  IN  IF last <= room THEN room - last ELSE BlockBytes + room - last

(* padn.                                                                   *)
Padding ==
  LET last == total % BlockBytes
      room == BlockBytes - LengthBytes
  IN  IF last < room THEN room - last ELSE BlockBytes + room - last

(* The rest of md5_update(), and md5_finish() going on with its next call. *)
Rest ==
  /\ stage = "rest"
  /\ buffer' = Filled(left, ilen)
  /\ \/ /\ call = "message"
        /\ call' = "padding" /\ ilen' = Padding /\ bits' = 8 * total
        /\ stage' = "enter"
     \/ /\ call = "padding"
        /\ call' = "msglen" /\ ilen' = LengthBytes
        /\ stage' = "enter" /\ UNCHANGED bits
     \/ /\ call = "msglen"
        /\ stage' = "done" /\ UNCHANGED <<call, ilen, bits>>
  /\ at' = 0
  /\ UNCHANGED <<length, left, total, blocks>>

md5 == Enter \/ Loop \/ Rest

HashNext == md5 \/ HashGone \/ \E len \in 0 .. MaxPassword : md5_starts(len)

HashSpec == HashInit /\ [][HashNext]_hashVars

-----------------------------------------------------------------------------
(* Properties                                                              *)

(* The padded message of RFC 1321, for a message of m bytes: a one bit,    *)
(* zeros as far as the length fits into the last block, and the length.    *)
IsPaddedSize(m, size) ==
  /\ size % BlockBytes = 0
  /\ m + 1 + LengthBytes <= size /\ size < m + 1 + LengthBytes + BlockBytes

PaddedByte(m, size, i) ==
  CASE i < m -> <<"message", i>>
    [] i = m -> <<"padding", 1>>
    [] m < i /\ i < size - LengthBytes -> <<"padding", 0>>
    [] OTHER -> <<"msglen", i - (size - LengthBytes)>>

(* The blocks the digest is computed from are those of the standard's      *)
(* padded message, whatever the password's length: none is lost, doubled,  *)
(* or left over in the buffer, and the length in the last one is right.    *)
HashIsPadded ==
  stage = "done" =>
    LET m == MessageBytes(length)
        size == Len(blocks) * BlockBytes
    IN  /\ IsPaddedSize(m, size)
        /\ bits = 8 * m
        /\ \A k \in 1 .. Len(blocks) : \A i \in Index :
             blocks[k][i] = PaddedByte(m, size, (k - 1) * BlockBytes + i)

(* The last memcpy() of md5_update() ends inside ctx->buffer.              *)
BufferFits == stage = "rest" => left + ilen <= BlockBytes

-----------------------------------------------------------------------------
(* The inductive invariant behind these properties: md5_update()'s input   *)
(* is a window on the padded message, just behind the blocks processed and *)
(* the bytes the buffer holds.                                             *)

Size == ((MessageBytes(length) + LengthBytes) \div BlockBytes + 1) * BlockBytes

(* Where the input of this call begins in the padded message, and its size. *)
First ==
  CASE call = "message" -> 0
    [] call = "padding" -> MessageBytes(length)
    [] call = "msglen" -> Size - LengthBytes

CallBytes ==
  CASE call = "message" -> MessageBytes(length)
    [] call = "padding" -> Size - LengthBytes - MessageBytes(length)
    [] call = "msglen" -> LengthBytes

Taken == Len(blocks) * BlockBytes

Held == IF stage = "enter" THEN total % BlockBytes ELSE left

PositionInv ==
  /\ call # "message" => bits = 8 * MessageBytes(length)
  /\ stage \in {"enter", "loop", "rest"} => at + ilen = CallBytes
  /\ stage = "enter" => at = 0 /\ total = First /\ total = Taken + Held
  /\ stage \in {"loop", "rest"} =>
       total = First + CallBytes /\ First + at = Taken + left /\ (left > 0 => left + ilen < BlockBytes)
  /\ stage = "rest" => left + ilen < BlockBytes
  /\ stage = "done" => call = "msglen" /\ Taken = Size

ContentInv ==
  /\ \A i \in Index : i < Held => buffer[i] = PaddedByte(MessageBytes(length), Size, Taken + i)
  /\ \A k \in 1 .. Len(blocks) : \A i \in Index :
       blocks[k][i] = PaddedByte(MessageBytes(length), Size, (k - 1) * BlockBytes + i)

HashInv == HashTypeOK /\ (stage # "idle" => PositionInv /\ ContentInv)
=============================================================================
