-------------------------------- MODULE Fec --------------------------------
(***************************************************************************)
(* FecCodec (fec.cpp) at the two ends of a UDP path: the encoder groups     *)
(* KCP packets into sets of data_shards_ data and parity_shards_ parity     *)
(* datagrams, the path loses, repeats and reorders them, the decoder        *)
(* collects them by set and reconstructs what is missing.                   *)
(*                                                                         *)
(* A shard is named by the group it was made for and its place in it,       *)
(* numbers the code does not have: it only knows the sequence number in the *)
(* datagram, which wraps at paws_, and derives set and place from that.     *)
(* Shards stand for their contents: reconstruct_data is taken to return the *)
(* data of a group exactly when all shards it uses are of that group and in *)
(* their place, and Garbage otherwise.                                      *)
(***************************************************************************)
EXTENDS Integers, FiniteSets, Functions

CONSTANTS
    DataShards,    \* config datashard
    ParityShards,  \* config parityshard
    Modulus,       \* 2^32: sequence numbers are uint32
    MaxShardSets,  \* max_shard_sets (3 in the code)
    MaxDelay,      \* bound: how far behind the newest one a datagram may arrive
    MaxOutage,     \* bound: how many places in a row may be lost
    MaxSent        \* bound: KCP packets encoded

ShardSize == DataShards + ParityShards

\* The largest multiple of the set size that fits: sequence numbers wrap
\* between two sets.
Paws == ((Modulus - 1) \div ShardSize) * ShardSize

\* A datagram's age and an outage are far below half of the sequence space.
ASSUME FecAssumption ==
    /\ DataShards \in Nat \ {0} /\ ParityShards \in Nat \ {0}
    /\ Modulus \in Nat /\ MaxShardSets \in Nat \ {0}
    /\ MaxDelay \in Nat /\ MaxOutage \in Nat /\ MaxSent \in Nat
    /\ 2 * (MaxDelay + MaxOutage + (MaxShardSets + 3) * ShardSize) < Modulus

VARIABLES
    next_seq, shard_count,           \* encoder
    sent,                            \* KCP packets encoded so far
    wire,                            \* datagrams that may still arrive
    decode_sets, newest_shard_id,    \* decoder
    heard,                           \* place of the newest datagram that arrived
    arrived, output                  \* shards that arrived, packets given to KCP

encoderVars == <<next_seq, shard_count, sent, wire>>
decoderVars == <<decode_sets, newest_shard_id, heard, arrived, output>>
vars == <<encoderVars, decoderVars>>

Shard(g, i) == [group |-> g, index |-> i]
Garbage == Shard(-1, -1)
NoShard == Shard(-2, -2)
IsData(shard) == shard.index < DataShards

\* Where a shard stands in the unwrapped sequence.
Place(shard) == shard.group * ShardSize + shard.index

Indices == 0..(ShardSize - 1)
EmptySet == [i \in Indices |-> NoShard]

\* timediff: the difference of two uint32 read as an int32.
TimeDiff(later, earlier) ==
    LET d == (later - earlier) % Modulus
    IN  IF 2 * d >= Modulus THEN d - Modulus ELSE d

-----------------------------------------------------------------------------
(* Encoder.                                                                 *)

\* Mutation: parity shards that are not sent keep no place.
SkipNothing(seq) == seq

\* skip_parity: the numbers of parity shards that are not sent are left out.
SkipParity(seq) == (seq + ParityShards) % Paws

\* encode of the next KCP packet.  The last packet of a group brings the parity
\* with it if it follows the one before within max_fec_encode_latency_ms.
Encode(timely) ==
    LET group == sent \div DataShards
        full == shard_count + 1 = DataShards
        parity == full /\ timely
        seal(k) == [seq |-> (next_seq + k) % Paws, shard |-> Shard(group, shard_count + k)]
        packets == {seal(0)} \cup (IF parity THEN {seal(k) : k \in 1..ParityShards} ELSE {})
        last == group * ShardSize + shard_count + (IF parity THEN ParityShards ELSE 0)
    IN  /\ sent < MaxSent
        /\ timely => sent > 0
        /\ last - heard <= MaxOutage
        /\ sent' = sent + 1
        /\ shard_count' = IF full THEN 0 ELSE shard_count + 1
        /\ next_seq' = IF full THEN (IF timely THEN (next_seq + 1 + ParityShards) % Paws
                                               ELSE SkipParity((next_seq + 1) % Paws))
                               ELSE (next_seq + 1) % Paws
        /\ wire' = {p \in wire \cup packets : last - Place(p.shard) <= MaxDelay}
        /\ UNCHANGED decoderVars

-----------------------------------------------------------------------------
(* Decoder.                                                                 *)

Present(set) == {i \in Indices : set[i] # NoShard}

\* The data_shards_ lowest indices present: valid_indices in reconstruct_data.
Used(set) ==
    CHOOSE u \in SUBSET Present(set) :
        /\ Cardinality(u) = DataShards
        /\ \A i \in u : \A j \in Present(set) \ u : i < j

\* What decode adds to its output when a set has enough shards.
Recovered(set) ==
    LET used == Used(set)
        group == (CHOOSE s \in {set[i] : i \in used} : TRUE).group
        missing == (0..(DataShards - 1)) \ Present(set)
    IN  IF missing = {} THEN {}
        ELSE IF \A i \in used : set[i] = Shard(group, i)
        THEN {Shard(group, i) : i \in missing}
        ELSE {Garbage}

\* Mutation: a set is given up as soon as a newer one is seen.
DiscardAllOlder(sets, newest) == Restrict(sets, DOMAIN sets \cap {newest})

\* discard_old_shards.
DiscardOldShards(sets, newest) ==
    Restrict(sets, {id \in DOMAIN sets :
        TimeDiff(newest * ShardSize, id * ShardSize) <= MaxShardSets * ShardSize})

\* What a set is worth knowing for: it is newer than MaxShardSets sets ago.
Recent(shards, newest) == {s \in shards : s.group > (newest \div ShardSize) - MaxShardSets}

\* decode of one datagram.
Decode(p) ==
    LET index == p.seq % ShardSize
        id == p.seq \div ShardSize
        old == IF id \in DOMAIN decode_sets THEN decode_sets[id] ELSE EmptySet
        set == [old EXCEPT ![index] = p.shard]
        complete == Cardinality(Present(set)) >= DataShards
        sets == IF complete THEN Restrict(decode_sets, DOMAIN decode_sets \ {id})
                ELSE [k \in DOMAIN decode_sets \cup {id} |->
                        IF k = id THEN set ELSE decode_sets[k]]
        direct == IF IsData(p.shard) THEN {p.shard} ELSE {}
        newer == TimeDiff(id * ShardSize, newest_shard_id * ShardSize) > 0
        place == IF Place(p.shard) > heard THEN Place(p.shard) ELSE heard
    IN  /\ p \in wire
        /\ heard' = place
        /\ arrived' = Recent(arrived \cup {p.shard}, place)
        /\ \/ /\ old[index] # NoShard                    \* repeat_segs
              /\ output' = Recent(output \cup direct, place) \cup (output \cap {Garbage})
              /\ UNCHANGED <<decode_sets, newest_shard_id>>
           \/ /\ old[index] = NoShard
              /\ output' = LET new == direct \cup (IF complete THEN Recovered(set) ELSE {})
                           IN  Recent(output \cup new, place) \cup ((output \cup new) \cap {Garbage})
              /\ newest_shard_id' = IF newer THEN id ELSE newest_shard_id
              /\ decode_sets' = IF newer THEN DiscardOldShards(sets, id) ELSE sets
        /\ UNCHANGED encoderVars

-----------------------------------------------------------------------------
Init ==
    /\ next_seq = 0 /\ shard_count = 0 /\ sent = 0 /\ wire = {}
    /\ decode_sets = Restrict([i \in {0} |-> EmptySet], {}) /\ newest_shard_id = 0
    /\ heard = 0 /\ arrived = {} /\ output = {}

\* A datagram stays on the wire when it is decoded: it may come again.  Loss is
\* a datagram that is never decoded.
Next ==
    \/ \E timely \in BOOLEAN : Encode(timely)
    \/ \E p \in wire : Decode(p)

Spec == Init /\ [][Next]_vars

-----------------------------------------------------------------------------
(* Whatever is lost, repeated or reordered, and across the wrap of the      *)
(* sequence numbers, the decoder hands KCP only packets the encoder was     *)
(* given: it never reconstructs from shards of two groups or from a shard   *)
(* in another's place.                                                      *)
Genuine == output \subseteq {Shard(g, i) : g \in 0..(sent \div DataShards), i \in 0..(DataShards - 1)}

(* Any data_shards_ shards of a group that arrive while the group is among  *)
(* the last MaxShardSets ones yield all its packets.                        *)
Recovery ==
    \A g \in 0..(heard \div ShardSize) :
        (/\ g > (heard \div ShardSize) - MaxShardSets
         /\ Cardinality({s \in arrived : s.group = g}) >= DataShards)
        => \A i \in 0..(DataShards - 1) : Shard(g, i) \in output
=============================================================================
