----------------------------- MODULE PacketCrypt -----------------------------
(***************************************************************************)
(* PacketCrypt (crypto.cpp): what is put around a packet and how its bytes  *)
(* are changed in place, for every method, and what becomes of a datagram   *)
(* that the path cuts short or damages.  The ciphers and the tag of GCM are *)
(* external and arbitrary; layout, cipher feedback, checksum and size       *)
(* checks are the code's.  A datagram is a sequence of bytes.               *)
(***************************************************************************)
EXTENDS Integers, Sequences, SequencesExt

CONSTANTS
    Xor(_, _),          \* of two bytes
    ProcessBlock(_),    \* the block cipher, on a block of either size
    KeyStream(_, _),    \* nonce and position: Salsa20 and the counter mode of GCM
    Tag(_, _),          \* nonce and ciphertext: aes_gcm_tag_size bytes
    XorTable,           \* xor_table_ (mtu_limit bytes in the code)
    Methods,            \* names of methods to check
    Packets, Nonces,    \* packets to encrypt, what fill_random may return
    Damages             \* what the path may add (xor) to a byte

VARIABLES
    method,        \* config crypt, of both ends
    packet,        \* the packet encrypted
    datagram,      \* what is sent
    arrived,       \* what arrives of it
    opened         \* what decrypt returns

vars == <<method, packet, datagram, arrived, opened>>

NonceSize == 16
HeaderSize == NonceSize + 4      \* crypt_header_size
GcmNonceSize == 12
GcmTagSize == 16
SalsaIvSize == 8

\* No sequences of bytes.
Nothing == <<-1>>
NotYet == <<-2>>

\* The constructor: a block cipher for every name that is no other method,
\* also for one that it does not know.
BlockSize(m) == IF m \in {"blowfish", "cast5", "3des", "tea", "xtea"} THEN 8 ELSE 16

Overhead(m) ==
    CASE m = "null" -> 0
      [] m = "aes-128-gcm" -> GcmNonceSize + GcmTagSize
      [] OTHER -> HeaderSize

Initial(size) == [i \in 1..size |-> 13 * i]     \* initial_vector
XorAll(data, pad(_)) == [i \in DOMAIN data |-> Xor(data[i], pad(i))]

-----------------------------------------------------------------------------
(* crc32_ieee, on words of four bytes with the lowest first.                *)

ShiftRight(word) ==
    [k \in 1..4 |-> (word[k] \div 2) + (IF k < 4 THEN 128 * (word[k + 1] % 2) ELSE 0)]

Xor32(word, other) == [k \in 1..4 |-> Xor(word[k], other[k])]

\* One bit of the table: 0xedb88320 is the polynomial.
CrcBit(crc, bit) ==
    IF crc[1] % 2 = 1 THEN Xor32(<<32, 131, 184, 237>>, ShiftRight(crc)) ELSE ShiftRight(crc)

CrcTable == [i \in 0..255 |-> FoldLeft(CrcBit, <<i, 0, 0, 0>>, [bit \in 1..8 |-> bit])]

CrcByte(crc, b) == Xor32(CrcTable[Xor(crc[1], b)], <<crc[2], crc[3], crc[4], 0>>)

AllOnes == <<255, 255, 255, 255>>
Crc32(data) == Xor32(AllOnes, FoldLeft(CrcByte, AllOnes, data))

-----------------------------------------------------------------------------
\* block_cfb_crypt: each block is mixed with what the cipher makes of the
\* ciphertext before it, which when decrypting is what stood in its place.  The
\* last block may be short; nothing comes after it.
BlockCfbCrypt(data, size, encrypting) ==
    LET step(run, block) ==
            LET mixed == XorAll(block, LAMBDA i : run.current[i])
            IN  [out |-> run.out \o mixed,
                 current |-> IF Len(block) < size THEN run.current
                             ELSE ProcessBlock(IF encrypting THEN mixed ELSE block)]
        blocks == [k \in 1..((Len(data) + size - 1) \div size) |->
                      SubSeq(data, (k - 1) * size + 1, IF k * size < Len(data) THEN k * size ELSE Len(data))]
    IN  FoldLeft(step, [out |-> <<>>, current |-> ProcessBlock(Initial(size))], blocks).out

\* salsa20_crypt: the first bytes are the initial vector and stay.
Salsa20Crypt(data) ==
    IF Len(data) <= SalsaIvSize THEN data
    ELSE LET iv == SubSeq(data, 1, SalsaIvSize)
         IN  iv \o XorAll(SubSeq(data, SalsaIvSize + 1, Len(data)), LAMBDA i : KeyStream(iv, i))

\* xor_crypt: bytes beyond the table stay.
XorCrypt(data) == XorAll(data, LAMBDA i : IF i <= Len(XorTable) THEN XorTable[i] ELSE 0)

\* The bytes of a datagram with a header, in place.
Crypted(m, data, encrypting) ==
    CASE m = "none" -> data
      [] m = "salsa20" -> Salsa20Crypt(data)
      [] m = "xor" -> XorCrypt(data)
      [] OTHER -> BlockCfbCrypt(data, BlockSize(m), encrypting)

-----------------------------------------------------------------------------
GcmEncrypt(data, nonce) ==
    LET hidden == XorAll(data, LAMBDA i : KeyStream(nonce, i))
    IN  nonce \o hidden \o Tag(nonce, hidden)

GcmDecrypt(data) ==
    LET nonce == SubSeq(data, 1, GcmNonceSize)
        hidden == SubSeq(data, GcmNonceSize + 1, Len(data) - GcmTagSize)
    IN  IF Len(data) < GcmNonceSize + GcmTagSize \/ SubSeq(data, Len(data) - GcmTagSize + 1, Len(data)) # Tag(nonce, hidden)
        THEN Nothing
        ELSE XorAll(hidden, LAMBDA i : KeyStream(nonce, i))

Encrypt ==
    /\ datagram = NotYet
    /\ \E nonce \in Nonces :
          datagram' = CASE method = "null" -> packet
                        [] method = "aes-128-gcm" -> GcmEncrypt(packet, SubSeq(nonce, 1, GcmNonceSize))
                        [] OTHER -> Crypted(method, nonce \o Crc32(packet) \o packet, TRUE)
    /\ UNCHANGED <<method, packet, arrived, opened>>

\* Mutation: the checksum is not compared.
DecryptedUnchecked(m, data) ==
    LET plain == Crypted(m, data, FALSE)
    IN  CASE m = "null" -> data
          [] m = "aes-128-gcm" -> GcmDecrypt(data)
          [] OTHER -> IF Len(data) < HeaderSize THEN Nothing
                      ELSE SubSeq(plain, HeaderSize + 1, Len(plain))

Decrypted(m, data) ==
    LET plain == Crypted(m, data, FALSE)
        payload == SubSeq(plain, HeaderSize + 1, Len(plain))
    IN  CASE m = "null" -> data
          [] m = "aes-128-gcm" -> GcmDecrypt(data)
          [] OTHER -> IF Len(data) < HeaderSize \/ SubSeq(plain, NonceSize + 1, HeaderSize) # Crc32(payload)
                      THEN Nothing ELSE payload

Decrypt ==
    /\ arrived # NotYet /\ opened = NotYet
    /\ opened' = Decrypted(method, arrived)
    /\ UNCHANGED <<method, packet, datagram, arrived>>

\* The path delivers the datagram, or a part of it, or damages a byte.
Deliver ==
    /\ datagram # NotYet /\ arrived = NotYet
    /\ \/ arrived' = datagram
       \/ \E n \in 0..(Len(datagram) - 1) : arrived' = SubSeq(datagram, 1, n)
       \/ \E i \in DOMAIN datagram, d \in Damages : arrived' = [datagram EXCEPT ![i] = Xor(@, d)]
    /\ UNCHANGED <<method, packet, datagram, opened>>

Init ==
    /\ method \in Methods /\ packet \in Packets
    /\ datagram = NotYet /\ arrived = NotYet /\ opened = NotYet

Next == Encrypt \/ Deliver \/ Decrypt

Spec == Init /\ [][Next]_vars

-----------------------------------------------------------------------------
(* Every method gives back the packet, whatever its size, the last block of *)
(* the cipher feedback and the end of the xor table included, in a datagram *)
(* that is longer by what overhead() says, with which configure_kcp         *)
(* reserves room within the mtu.  Of a datagram that was cut or damaged     *)
(* every method but null gives back nothing, or the packet if only the      *)
(* nonce was hit, and never anything else.                                  *)
CryptFaithful ==
    /\ datagram # NotYet => Len(datagram) = Len(packet) + Overhead(method)
    /\ opened # NotYet =>
          /\ arrived = datagram => opened = packet
          /\ method # "null" => opened \in {packet, Nothing}
=============================================================================
