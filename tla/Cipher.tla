-------------------------------- MODULE Cipher ---------------------------------
(***************************************************************************)
(* The check value and the AES cipher of Arithmetic over bytes.  A word of *)
(* 32 bits is the pair of its halves, the high one first.                  *)
(***************************************************************************)
EXTENDS Codec, Bitwise

Half == 65536
XorDigit == [a \in 0..15, b \in 0..15 |-> a ^^ b]
XorByte(a, b) == XorDigit[a \div 16, b \div 16] * 16 + XorDigit[a % 16, b % 16]
XorHalf(a, b) ==
  XorByte(a \div 256, b \div 256) * 256 + XorByte(a % 256, b % 256)

XorWord(v, w) == <<XorHalf(v[1], w[1]), XorHalf(v[2], w[2])>>
Complement(w) == <<Half - 1 - w[1], Half - 1 - w[2]>>

(* w >> n, of an unsigned word.                                            *)
Right(w, n) ==
  <<w[1] \div 2^n, (w[1] % 2^n) * 2^(16 - n) + w[2] \div 2^n>>

(* Its bytes, the lowest first.                                            *)
BytesOf(w) == <<w[2] % 256, w[2] \div 256, w[1] % 256, w[1] \div 256>>

Zeros(n) == [i \in 1..n |-> 0]
(* The first n bytes, with zeros for those that are missing.               *)
Fill(bytes, n) == SubSeq(bytes \o Zeros(n), 1, n)

-----------------------------------------------------------------------------
(* CRC-32.  crc_32_tab is the table of the polynomial 0xEDB88320.          *)
crc_32_tab ==
  LET row[n \in 0..255, bit \in 0..8] ==
        IF bit = 0 THEN <<0, n>>
        ELSE LET w == row[n, bit - 1]
             IN IF w[2] % 2 = 1 THEN XorWord(Right(w, 1), <<60856, 33568>>) ELSE Right(w, 1)
  IN [n \in 0..255 |-> row[n, 8]]

UPDC32(octet, crc) == XorWord(crc_32_tab[XorByte(crc[2] % 256, octet)], Right(crc, 8))

(* The lower 32 bits: on a 64-bit build the upper half is all ones.        *)
MakeCRC32(data) ==
  Complement(FoldLeft(LAMBDA crc, octet : UPDC32(octet, crc), <<Half - 1, Half - 1>>, data))

-----------------------------------------------------------------------------
(* AES by blocks of 16 bytes.  aes_crypt_ecb is any invertible function.   *)
aes_crypt_ecb(in) == [i \in 1..16 |-> (in[17 - i] + 7 * i) % 256]
aes_decrypt_ecb(in) == [i \in 1..16 |-> (in[17 - i] - 7 * (17 - i)) % 256]

AesBlocks(bytes) ==
  [j \in 1..(Len(bytes) \div 16) |-> SubSeq(bytes, 16 * j - 15, 16 * j)]

(* %02x, in lower case.                                                    *)
LowerHex(data) ==
  LET upper == AsciiToHex(data)
  IN [i \in DOMAIN upper |-> IF upper[i] \in Upper THEN upper[i] + 32 ELSE upper[i]]

(* Zeros fill the last block; a whole number of blocks gets no other, which *)
(* its comment says it does.                                               *)
AesEncrypt(src) ==
  LET blocks == AesBlocks(Fill(src, 16 * ((Len(src) + 15) \div 16)))
  IN LowerHex(FlattenSeq([j \in DOMAIN blocks |-> aes_crypt_ecb(blocks[j])]))

UpToNul(bytes) ==
  LET i == SelectInSeq(bytes, LAMBDA byte : byte = 0)
  IN IF i = 0 THEN bytes ELSE SubSeq(bytes, 1, i - 1)

(* The result is a C string.                                               *)
AesDecrypt(src) ==
  LET blocks == AesBlocks(HexToAscii(src))
  IN UpToNul(FlattenSeq([j \in DOMAIN blocks |-> aes_decrypt_ecb(blocks[j])]))
=============================================================================
