--------------------------------- MODULE Qpp ---------------------------------
(***************************************************************************)
(* QPP scrambling (qpp.cpp) of one stream in both directions.  Every end    *)
(* has two generators made of the same key, one for what it writes and one  *)
(* for what it reads; each byte is mixed with a byte of the current word    *)
(* and goes through one of the pads that the word selects.  Frames of any   *)
(* size are scrambled as they are sent and unscrambled as they arrive, and  *)
(* nothing in a frame says where in the generator's output it belongs.      *)
(*                                                                         *)
(* What the key gives, through third-party cryptography, is arbitrary here: *)
(* the draws of the shuffles and the words of the generator.                *)
(***************************************************************************)
EXTENDS Integers, Sequences

CONSTANTS
    Xor(_, _),     \* of two bytes
    MatrixBytes,   \* values of a byte (256 in the code)
    NumPads,       \* QPPCount
    WordBytes,     \* bytes of a word of the generator (8)
    Keys,          \* keys: [draws |-> one [place -> draw] per pad, words |-> sequence]
    Texts,         \* [Ends -> sequences of bytes]: what the applications write
    MaxFrame       \* frame size

VARIABLES
    key,
    text,          \* what each end's application writes
    taken,         \* [Ends -> Nat]: bytes of it that went into frames
    frames,        \* [Ends -> sequences of frames]: sent by that end, under way
    received,      \* [Ends -> sequences of bytes]: unscrambled at that end
    write_rand, read_rand   \* [Ends -> generators]

qppVars == <<key, text, taken, frames, received, write_rand, read_rand>>

Ends == {"client", "server"}
Peer(e) == CHOOSE p \in Ends : p # e
Bytes == 0..(MatrixBytes - 1)

(* What the configuration and the key give: a byte of the key stream undoes *)
(* itself, each place is swapped with one not above it, and the generator   *)
(* has a word for every byte of the text.                                   *)
QppConstants ==
    /\ MatrixBytes \in Nat \ {0} /\ NumPads \in Nat \ {0} /\ WordBytes \in Nat \ {0, 1}
    /\ MaxFrame \in Nat
    /\ \A a, b \in Bytes : Xor(a, b) \in Bytes /\ Xor(Xor(a, b), b) = a
    /\ Texts \subseteq [Ends -> Seq(Bytes)]
    /\ \A k \in Keys : \A p \in 1..NumPads, i \in 1..(MatrixBytes - 1) : k.draws[p][i] \in 0..i
    /\ \A k \in Keys, t \in Texts, e \in Ends : \A n \in 1..Len(t[e]) :
          k.words[n] \in [1..WordBytes -> Bytes]

-----------------------------------------------------------------------------
(* Pads.                                                                    *)

\* fill_pad and shuffle_pad: from the last place down, each place is swapped
\* with the one that was drawn for it among those up to itself.
ShufflePad(draw) ==
    LET swap(pad, i) == [pad EXCEPT ![i] = pad[draw[i]], ![draw[i]] = pad[i]]
        pads[k \in 0..(MatrixBytes - 1)] ==
            IF k = 0 THEN [b \in Bytes |-> b] ELSE swap(pads[k - 1], MatrixBytes - k)
    IN  pads[MatrixBytes - 1]

ReversePad(pad) == [b \in Bytes |-> CHOOSE i \in Bytes : pad[i] = b]

-----------------------------------------------------------------------------
(* A generator is the number of words it has drawn and the number of bytes  *)
(* used of the last one.  A word is the sequence of its bytes, the lowest   *)
(* first.                                                                   *)

CreatePrng == [drawn |-> 1, count |-> 0]

Seed64(rand) == key.words[rand.drawn]

Advance(rand) ==
    IF rand.count + 1 = WordBytes THEN [drawn |-> rand.drawn + 1, count |-> 0]
    ELSE [rand EXCEPT !.count = @ + 1]

\* The pad that the low two bytes of the word select.
PadIndex(rand) == (Seed64(rand)[1] + MatrixBytes * Seed64(rand)[2]) % NumPads
Pad(rand) == ShufflePad(key.draws[PadIndex(rand) + 1])

\* The next byte of the word.
Rr(rand) == Seed64(rand)[rand.count + 1]

EncryptByte(rand, b) == Pad(rand)[Xor(b, Rr(rand))]
DecryptByte(rand, b) == Xor(ReversePad(Pad(rand))[b], Rr(rand))

\* The generator n bytes on.
Advanced(rand, n) ==
    LET rands[k \in 0..n] == IF k = 0 THEN rand ELSE Advance(rands[k - 1])
    IN  rands[n]

\* encrypt and decrypt: the bytes one by one, and the generator afterwards.
Encrypt(data, rand) ==
    [out |-> [k \in DOMAIN data |-> EncryptByte(Advanced(rand, k - 1), data[k])],
     rand |-> Advanced(rand, Len(data))]

Decrypt(data, rand) ==
    [out |-> [k \in DOMAIN data |-> DecryptByte(Advanced(rand, k - 1), data[k])],
     rand |-> Advanced(rand, Len(data))]

-----------------------------------------------------------------------------
\* Mutation: one generator serves both directions.
SendSharedGenerator(e, n) ==
    LET run == Encrypt(SubSeq(text[e], taken[e] + 1, taken[e] + n), write_rand[e])
    IN  /\ taken[e] + n <= Len(text[e])
        /\ taken' = [taken EXCEPT ![e] = @ + n]
        /\ frames' = [frames EXCEPT ![e] = Append(@, run.out)]
        /\ write_rand' = [write_rand EXCEPT ![e] = run.rand]
        /\ read_rand' = [read_rand EXCEPT ![e] = run.rand]
        /\ UNCHANGED <<key, text, received>>

\* try_flush_outbound scrambles a copy of the n bytes it puts into a frame.
Send(e, n) ==
    LET run == Encrypt(SubSeq(text[e], taken[e] + 1, taken[e] + n), write_rand[e])
    IN  /\ taken[e] + n <= Len(text[e])
        /\ taken' = [taken EXCEPT ![e] = @ + n]
        /\ frames' = [frames EXCEPT ![e] = Append(@, run.out)]
        /\ write_rand' = [write_rand EXCEPT ![e] = run.rand]
        /\ UNCHANGED <<key, text, received, read_rand>>

\* on_data.
Receive(e) ==
    /\ frames[Peer(e)] # <<>>
    /\ LET run == Decrypt(Head(frames[Peer(e)]), read_rand[e])
       IN  /\ received' = [received EXCEPT ![e] = @ \o run.out]
           /\ read_rand' = [read_rand EXCEPT ![e] = run.rand]
    /\ frames' = [frames EXCEPT ![Peer(e)] = Tail(@)]
    /\ UNCHANGED <<key, text, taken, write_rand>>

QppInit ==
    /\ key \in Keys /\ text \in Texts
    /\ taken = [e \in Ends |-> 0]
    /\ frames = [e \in Ends |-> <<>>]
    /\ received = [e \in Ends |-> <<>>]
    /\ write_rand = [e \in Ends |-> CreatePrng]
    /\ read_rand = [e \in Ends |-> CreatePrng]

QppNext == \E e \in Ends : Receive(e) \/ \E n \in 1..MaxFrame : Send(e, n)

QppSpec == QppInit /\ [][QppNext]_qppVars

-----------------------------------------------------------------------------
(* However the two directions interleave and whatever the frames' sizes,    *)
(* each end reads what the other wrote, and once all frames have arrived    *)
(* its reading generator stands where the other's writing one does.         *)
QppInStep ==
    \A e \in Ends :
        /\ received[e] = SubSeq(text[Peer(e)], 1, Len(received[e]))
        /\ frames[Peer(e)] = <<>> => read_rand[e] = write_rand[Peer(e)]
=============================================================================
