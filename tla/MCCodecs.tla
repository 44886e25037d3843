------------------------------ MODULE MCCodecs ------------------------------
(***************************************************************************)
(* What happens to bytes between smux and the socket: forward error         *)
(* correction, with the codec of Fec, which takes for granted that any      *)
(* data_shards_ shards of a group give back its packets, and the code of    *)
(* ReedSolomon, which has to keep that promise; QPP below the frames of a   *)
(* stream; and the encryption of datagrams.  None looks into another's      *)
(* state, so a behaviour runs the part it starts with.                      *)
(***************************************************************************)
EXTENDS Fec, ReedSolomon

VARIABLES
    part,      \* "fec", "group", "qpp" or "crypt"

    shape,     \* <<data_shards, parity_shards>> of the group
    packets,   \* the KCP packets encoded
    present,   \* the places of the shards that arrived in time
    result,    \* the packets the receiver has in the end

    key, text, taken, frames, received, write_rand, read_rand,

    method, packet, datagram, arrivedDatagram, opened

groupVars == <<shape, packets, present, result>>
qppVars == <<key, text, taken, frames, received, write_rand, read_rand>>
cryptVars == <<method, packet, datagram, arrivedDatagram, opened>>

SmallShapes == {<<1, 1>>, <<1, 3>>, <<2, 1>>, <<2, 2>>, <<3, 2>>, <<4, 3>>}

\* Lengths that differ, bytes with and without the high bit.
SmallPackets == {<<7>>, <<200, 129, 3>>}

-----------------------------------------------------------------------------
XorTableOfBytes == [a \in 0..255 |-> [b \in 0..255 |-> a ^^ b]]
XorBytes(a, b) == XorTableOfBytes[a][b]

\* Every shuffle of a pad of four, beside a fixed one; words of two bytes.
AllDraws == [1..3 -> 0..3]
QppKeys ==
    {[draws |-> <<draw, [i \in 1..3 |-> 0]>>, words |-> words] :
        draw \in {d \in AllDraws : \A i \in 1..3 : d[i] <= i},
        words \in {<< <<2, 1>>, <<1, 2>>, <<3, 3>> >>, << <<1, 3>>, <<0, 0>>, <<2, 0>> >>}}
QppTexts == {[client |-> <<0, 3, 1>>, server |-> <<2, 2, 0>>]}

Q == INSTANCE Qpp WITH
        Xor <- XorBytes, MatrixBytes <- 4, NumPads <- 2, WordBytes <- 2,
        Keys <- QppKeys, Texts <- QppTexts, MaxFrame <- 2

ASSUME QppKeyed == Q!QppConstants

-----------------------------------------------------------------------------
SomeBlockCipher(block) ==
    [i \in DOMAIN block |-> (7 * block[Len(block) + 1 - i] + 13 * i + block[1]) % 256]
SomeKeyStream(nonce, i) == (nonce[1 + (i % Len(nonce))] + 31 * i) % 256
SomeTag(nonce, data) ==
    [k \in 1..16 |-> FoldLeft(LAMBDA sum, b : (3 * sum + k * b + 1) % 251, k, nonce \o data) ]

\* Sizes around the blocks of eight and sixteen that follow a header of twenty.
PacketOf(size) == [i \in 1..size |-> (37 * i + size) % 256]
CryptPackets == {PacketOf(size) : size \in {0, 3, 4, 5, 12, 13}}
CryptMethods == {"null", "none", "salsa20", "xor", "aes-128-gcm", "aes", "blowfish"}

C == INSTANCE PacketCrypt WITH
        Xor <- XorBytes, ProcessBlock <- SomeBlockCipher, KeyStream <- SomeKeyStream,
        Tag <- SomeTag, XorTable <- PacketOf(24), Methods <- CryptMethods,
        Packets <- CryptPackets, Nonces <- {PacketOf(16)}, Damages <- {1, 192},
        arrived <- arrivedDatagram

-----------------------------------------------------------------------------
\* All shards but parity_shards of them are lost or late: decode acts on the
\* first data_shards that arrive.
GroupArrives ==
    /\ present = {}
    /\ \E s \in SUBSET (1..(shape[1] + shape[2])) :
          /\ Cardinality(s) = shape[1]
          /\ present' = s
    /\ UNCHANGED <<shape, packets, result>>

GroupDecoded ==
    /\ present # {} /\ result = <<>>
    /\ result' = Decoded(shape, Encoded(shape, packets), present)
    /\ UNCHANGED <<shape, packets, present>>

\* Each part starts in its own initial states, the others in one of theirs.
GroupInit == packets \in [1..shape[1] -> Samples] /\ present = {} /\ result = <<>>

MCInit ==
    /\ part \in {"fec", "group", "qpp", "crypt"}
    /\ Init
    /\ shape \in (IF part = "group" THEN Shapes ELSE {<<0, 0>>}) /\ GroupInit
    /\ Q!QppInit /\ (part # "qpp" => key = CHOOSE k \in QppKeys : TRUE)
    /\ C!Init /\ (part # "crypt" => method = "null" /\ packet = <<>>)

MCNext ==
    \/ part = "fec" /\ Next /\ UNCHANGED <<part, groupVars, qppVars, cryptVars>>
    \/ part = "group" /\ (GroupArrives \/ GroupDecoded) /\ UNCHANGED <<part, vars, qppVars, cryptVars>>
    \/ part = "qpp" /\ Q!QppNext /\ UNCHANGED <<part, vars, groupVars, cryptVars>>
    \/ part = "crypt" /\ C!Next /\ UNCHANGED <<part, vars, groupVars, qppVars>>

MCSpec == MCInit /\ [][MCNext]_<<part, vars, groupVars, qppVars, cryptVars>>

(* Whichever data_shards shards of a group arrive, the receiver ends up     *)
(* with the packets the sender encoded, byte for byte and at their lengths: *)
(* what encode and decode do around ReedSolomon::reconstruct_data.          *)
RoundTrip == result # <<>> => result = packets

QppInStep == Q!QppInStep
CryptFaithful == C!CryptFaithful
=============================================================================
