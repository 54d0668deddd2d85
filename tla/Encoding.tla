------------------------------ MODULE Encoding ------------------------------
(***************************************************************************)
(* The binary encodings: blocks and transactions (pkg/types), consensus,    *)
(* network and route packets (pkg/packets), topology messages               *)
(* (pkg/topology), and the Merkle root of a block.                         *)
(*                                                                         *)
(* A message is a record and its encoding a sequence of bytes, the numbers  *)
(* 0 .. Byte - 1, so a length that does not fit into its field wraps around. *)
(* A type is described once by its format, the sequence of its fields; each  *)
(* field says how its content is read, which is where the types differ:     *)
(*   "slice"   data[a:b], which panics behind the end of the data;          *)
(*   "full"    an error behind the end: a comparison with len(data) before  *)
(*             the access, binary.Read, io.ReadFull, ReadByte;              *)
(*   "short"   Read of a buffer: an error only if nothing is left, and      *)
(*             otherwise zeros for the bytes that are missing.              *)
(* Lengths and counts are always read in full.                             *)
(*                                                                         *)
(* The machine sends one message: it is encoded, travels whole (a topic) or *)
(* cut (one Read of a stream, which returns what has arrived), is decoded.  *)
(***************************************************************************)
EXTENDS Integers, Sequences, SequencesExt

CONSTANTS
    Byte,               \* 256
    HashSize,           \* 32
    AddressSize,        \* 20
    IPLength,           \* 16
    MACLength,          \* 6
    SignatureLength,    \* 64
    Samples             \* the messages of each kind

Kinds == {"transaction", "block", "consensus", "network", "route", "topology"}

ASSUME SizesAssumption ==
    /\ Byte \in Nat /\ Byte > 3
    /\ {HashSize, AddressSize, IPLength, MACLength, SignatureLength} \subseteq Nat \ {0}

VARIABLES
    phase,      \* "new", "sent", "received", "decoded"
    kind,       \* what is sent
    message,    \* the message, as its sender has it
    wire,       \* the bytes
    cut,        \* has the receiver read a part of them only
    result      \* what decoding has returned

vars == <<phase, kind, message, wire, cut, result>>

NoResult == [status |-> "none"]

-----------------------------------------------------------------------------
(* Bytes *)

Bytes == 0 .. Byte - 1

\* The number without its n lowest bytes.
Shifted(v, n) ==
    LET by[i \in 0 .. n] == IF i = 0 THEN v ELSE by[i - 1] \div Byte
    IN by[n]

\* The values of an unsigned integer of n bytes.
Uints(n) == {v \in Nat : Shifted(v, n) = 0}

\* PutUint32, PutUint64 and binary.Write, all little-endian.
Number(v, n) == [i \in 1 .. n |-> Shifted(v, i - 1) % Byte]

ValueOf(s) ==
    LET last[i \in 0 .. Len(s)] ==
            IF i = 0 THEN 0 ELSE s[Len(s) + 1 - i] + Byte * last[i - 1]
    IN last[Len(s)]

\* What is left of a number in n bytes.
Uint(v, n) == ValueOf(Number(v, n))

Zeros(n) == [i \in 1 .. n |-> 0]

\* A buffer of that many bytes after the bytes were copied into it.
Buffer(bytes, size) ==
    SubSeq(bytes \o Zeros(IF size > Len(bytes) THEN size - Len(bytes) ELSE 0), 1, size)

\* What a read returns: a value and the data behind it, or a failure.
Ok(value, rest) == [status |-> "ok", value |-> value, rest |-> rest]
Error == [status |-> "error"]
Panic == [status |-> "panic"]

\* The first n bytes, read in one of the three ways.
Read(data, n, how) ==
    LET have == IF Len(data) < n THEN Len(data) ELSE n
        got == Ok(Buffer(SubSeq(data, 1, have), n), SubSeq(data, have + 1, Len(data)))
    IN CASE have = n -> got
         [] have < n /\ how = "slice" -> Panic
         [] have < n /\ how = "short" /\ have > 0 -> got
         [] OTHER -> Error

\* Goes on with what was read, unless there was an error.
Then(r, Next(_)) == IF r.status = "ok" THEN Next(r) ELSE r

-----------------------------------------------------------------------------
(* Fields *)

Field(name, type, size, how) == [name |-> name, type |-> type, size |-> size, how |-> how]

\* A list counts its items in `size' bytes; an item has a length of that size
\* too, or else is `item' bytes long.
List(name, size, item) ==
    [name |-> name, type |-> "list", size |-> size, item |-> item, how |-> "full"]

\* SignerType.Uint32 and SignerTypeFromUint32.
Uint32(t) ==
    CASE t = "bls" -> 0 [] t = "ed25519" -> 1 [] t = "dleq" -> 2 [] OTHER -> Byte * Byte * Byte * Byte - 1

SignerTypeFromUint32(u) ==
    CASE u = 0 -> "bls" [] u = 1 -> "ed25519" [] u = 2 -> "dleq" [] OTHER -> "unknown"

WithLength(v, size) == Number(Len(v), size) \o v

EncodeItem(f, v) == IF f.item = 0 THEN WithLength(v, f.size) ELSE v

\* "signature": a flag and a length, even if there is none.  "optional": a flag,
\* and only if it is set that many bytes.
EncodeField(f, v) ==
    CASE f.type = "number" -> Number(v, f.size)
      [] f.type = "signer" -> Number(Uint32(v), f.size)
      [] f.type = "fixed" -> v
      [] f.type = "bytes" -> WithLength(v, f.size)
      [] f.type = "signature" -> <<IF v = <<>> THEN 0 ELSE 1>> \o WithLength(v, f.size)
      [] f.type = "optional" -> IF v = <<>> THEN <<0>> ELSE <<1>> \o v
      [] f.type = "list" ->
            Number(Len(v), f.size) \o FlattenSeq([i \in DOMAIN v |-> EncodeItem(f, v[i])])

Encode(format, m) == FlattenSeq([i \in DOMAIN format |-> EncodeField(format[i], m[format[i].name])])

\* A length and as many bytes.
ReadBytes(data, size, how) ==
    Then(Read(data, size, "full"), LAMBDA r : Read(r.rest, ValueOf(r.value), how))

ReadItem(data, f) ==
    IF f.item = 0 THEN ReadBytes(data, f.size, f.how) ELSE Read(data, f.item, f.how)

\* One more item.
ReadNext(r, f) ==
    Then(ReadItem(r.rest, f), LAMBDA s : Ok(Append(r.value, s.value), s.rest))

\* n items, one after the other.
ReadItems(data, n, f) ==
    LET items[i \in 0 .. n] ==
            IF i = 0 THEN Ok(<<>>, data)
            ELSE Then(items[i - 1], LAMBDA r : ReadNext(r, f))
    IN items[n]

DecodeField(data, f) ==
    CASE f.type = "number" ->
            Then(Read(data, f.size, f.how), LAMBDA r : Ok(ValueOf(r.value), r.rest))
      [] f.type = "signer" ->
            Then(Read(data, f.size, f.how),
                 LAMBDA r : Ok(SignerTypeFromUint32(ValueOf(r.value)), r.rest))
      [] f.type = "fixed" -> Read(data, f.size, f.how)
      [] f.type = "bytes" -> ReadBytes(data, f.size, f.how)
      [] f.type = "signature" ->
            Then(Read(data, 1, "full"), LAMBDA flag :
                Then(Read(flag.rest, f.size, "full"), LAMBDA length :
                    Read(length.rest, IF flag.value = <<1>> THEN ValueOf(length.value) ELSE 0, f.how)))
      [] f.type = "optional" ->
            Then(Read(data, 1, "full"), LAMBDA flag :
                Read(flag.rest, IF flag.value = <<1>> THEN f.size ELSE 0, f.how))
      [] f.type = "list" ->
            Then(Read(data, f.size, "full"), LAMBDA r : ReadItems(r.rest, ValueOf(r.value), f))

\* The record with one more field.
With(record, name, value) ==
    [n \in DOMAIN record \cup {name} |-> IF n = name THEN value ELSE record[n]]

DecodeNext(r, f) ==
    Then(DecodeField(r.rest, f), LAMBDA s : Ok(With(r.value, f.name, s.value), s.rest))

\* All fields, in their order; `value' is the record and `rest' what is left.
Decode(format, data) ==
    LET fields[i \in 0 .. Len(format)] ==
            IF i = 0 THEN Ok(<<>>, data)
            ELSE Then(fields[i - 1], LAMBDA r : DecodeNext(r, format[i]))
    IN fields[Len(format)]

-----------------------------------------------------------------------------
(* Transactions and blocks *)

TransactionFormat == <<
    Field("ID", "fixed", HashSize, "slice"),
    Field("Sender", "fixed", AddressSize, "slice"),
    Field("Recipient", "fixed", AddressSize, "slice"),
    Field("Amount", "number", 8, "slice"),
    Field("Fee", "number", 8, "slice"),
    Field("Nonce", "number", 8, "slice"),
    Field("Timestamp", "number", 8, "slice"),
    Field("SignatureType", "signer", 4, "full"),
    Field("Signature", "bytes", 4, "full"),
    Field("Payload", "bytes", 4, "full") >>

\* Mutant: without the four bytes of the signature type, as Size counts.
TransactionSizeShort(t) ==
    Uint(HashSize + 2 * AddressSize + 4 * 8 + 4 + Len(t.Signature) + 4 + Len(t.Payload), 4)

\* A sum of 32 bits, as the lengths are.
TransactionSize(t) ==
    Uint(HashSize + 2 * AddressSize + 4 * 8 + 4 + 4 + Len(t.Signature) + 4 + Len(t.Payload), 4)

\* The buffer is allocated first, with a size computed beforehand.
SerializeTransaction(t) == Buffer(Encode(TransactionFormat, t), TransactionSize(t))

\* Mutant: the minimum is that of a transaction without its fixed fields.
TransactionMinSizeShort == HashSize + 4 + 4 + 4

TransactionMinSize == HashSize + 2 * AddressSize + 4 * 8 + 4 + 4 + 4

DeserializeTransaction(data) ==
    IF Len(data) < TransactionMinSize THEN Error
    ELSE Decode(TransactionFormat, data)

\* A transaction in a block is a list item with its own length.
BlockFormat == <<
    Field("Index", "number", 8, "slice"),
    Field("Timestamp", "number", 8, "slice"),
    Field("PreviousHash", "fixed", HashSize, "slice"),
    Field("Hash", "fixed", HashSize, "slice"),
    Field("MerkleRoot", "fixed", HashSize, "slice"),
    Field("SignatureType", "signer", 4, "full"),
    Field("Signature", "bytes", 4, "full"),
    Field("ValidatorID", "fixed", AddressSize, "full"),
    Field("Difficulty", "number", 8, "full"),
    Field("Version", "number", 4, "full"),
    List("Transactions", 4, 0),
    List("FinalizedBy", 4, AddressSize) >>

\* A length and the bytes of each transaction.
TransactionsSize(txs) ==
    LET upTo[i \in 0 .. Len(txs)] == IF i = 0 THEN 0 ELSE upTo[i - 1] + 4 + Len(txs[i])
    IN upTo[Len(txs)]

BlockSize(b) ==
    8 + 8 + 3 * HashSize + 4 + 4 + Uint(Len(b.Signature), 4) + AddressSize + 8 + 4 + 4
    + TransactionsSize(b.Transactions) + 4 + Uint(Len(b.FinalizedBy), 4) * AddressSize

\* The block with its transactions serialized, as it is written.
Written(b) ==
    [b EXCEPT !.Transactions =
        [i \in DOMAIN b.Transactions |-> SerializeTransaction(b.Transactions[i])]]

SerializeBlock(b) == Buffer(Encode(BlockFormat, Written(b)), BlockSize(Written(b)))

BlockMinSize == 8 + 8 + 3 * HashSize + 4 + 4 + AddressSize + 8 + 4 + 4

\* An error in a transaction is an error of the block.
DeserializeTransactions(r) ==
    LET txs == [i \in DOMAIN r.value.Transactions |-> DeserializeTransaction(r.value.Transactions[i])]
        bad == {i \in DOMAIN txs : txs[i].status # "ok"}
    IN IF bad # {} THEN [status |-> txs[CHOOSE i \in bad : TRUE].status]
       ELSE Ok([r.value EXCEPT !.Transactions = [i \in DOMAIN txs |-> txs[i].value]], r.rest)

DeserializeBlock(data) ==
    IF Len(data) < BlockMinSize THEN Error
    ELSE Then(Decode(BlockFormat, data), DeserializeTransactions)

\* The hash of two hashes one after the other; all have the same length, so
\* another pair has another hash. Nothing in it tells that it is no ID: the code
\* puts no mark before what it hashes and never computes the ID of a transaction
\* again, so the ID in a block may be the hash of two others.
HashPair(a, b) == <<"sha256", a, b>>

\* Mutant: an odd hash is left behind.
NextLevelDropping(hashes) ==
    [i \in 1 .. Len(hashes) \div 2 |-> HashPair(hashes[2 * i - 1], hashes[2 * i])]

\* Neighbours are hashed together; an odd one moves up as it is.
NextLevel(hashes) ==
    [i \in 1 .. (Len(hashes) + 1) \div 2 |->
        IF 2 * i <= Len(hashes) THEN HashPair(hashes[2 * i - 1], hashes[2 * i])
        ELSE hashes[2 * i - 1]]

ComputeMerkleRoot(hashes) ==
    LET level[n \in 0 .. Len(hashes)] ==
            IF n = 0 THEN hashes
            ELSE LET below == level[n - 1]
                 IN IF Len(below) > 1 THEN NextLevel(below) ELSE below
    IN level[Len(hashes)][1]

-----------------------------------------------------------------------------
(* Packets and topology messages *)

Proposal == 1

PeerID(name) == Field(name, "bytes", 4, "full")

ConsensusFormat == <<
    Field("Type", "number", 1, "full"),
    Field("Signer", "signer", 4, "full"),
    PeerID("ProposerID"),
    PeerID("ValidatorID"),
    Field("BlockHash", "bytes", 4, "short"),
    Field("BlockData", "bytes", 4, "short"),
    Field("Signature", "signature", 4, "short") >>

\* Mutant: the condition the wrong way round.
CarriedByOthers(p) == IF p.Type = Proposal THEN [p EXCEPT !.BlockData = <<>>] ELSE p

\* Only a proposal carries block data.
Carried(p) == IF p.Type = Proposal THEN p ELSE [p EXCEPT !.BlockData = <<>>]

SerializeConsensusPacket(p) == Encode(ConsensusFormat, Carried(p))

DeserializeConsensusPacket(data) ==
    Then(Decode(ConsensusFormat, data), LAMBDA r : Ok(Carried(r.value), r.rest))

NetworkFormat == <<
    Field("Type", "number", 1, "full"),
    PeerID("SenderID"),
    PeerID("ReceiverID"),
    Field("Payload", "bytes", 4, "short"),
    Field("Signature", "signature", 4, "short") >>

SerializeNetworkPacket(p) == Encode(NetworkFormat, p)

DeserializeNetworkPacket(data) == Decode(NetworkFormat, data)

\* Mutant: the number of bytes read is not compared with the length.
RouteFormatShort == <<
    Field("NextHopIP", "fixed", IPLength, "full"),
    Field("NextHopMAC", "optional", MACLength, "short"),
    Field("Signature", "optional", SignatureLength, "short") >>

RouteFormat == <<
    Field("NextHopIP", "fixed", IPLength, "full"),
    Field("NextHopMAC", "optional", MACLength, "full"),
    Field("Signature", "optional", SignatureLength, "full") >>

SerializeRoutePacket(p) == Encode(RouteFormat, p)

DeserializeRoutePacket(data) ==
    Then(Decode(RouteFormat, data),
         LAMBDA r : IF r.rest # <<>> THEN Error ELSE r)

TopologyFormat == <<
    Field("Type", "number", 1, "full"),
    Field("SenderID", "bytes", 1, "short"),
    Field("PeerID", "bytes", 1, "short"),
    [List("Addresses", 1, 0) EXCEPT !.how = "short"] >>

SerializeTopologyMessage(m) == Encode(TopologyFormat, m)

DeserializeTopologyMessage(data) == Decode(TopologyFormat, data)

\* What ProposeBlock, ApproveProposal and FinalizeBlock sign and
\* verifySignature checks, and in whose name.
DataToVerify(p) == IF p.Type = Proposal THEN p.BlockHash \o p.BlockData ELSE p.BlockHash

SignerOf(p) == IF p.Type = Proposal THEN p.ProposerID ELSE p.ValidatorID

-----------------------------------------------------------------------------
(* One message *)

\* The values of a field that its type in the program has.
Content(f) ==
    CASE f.type = "number" -> Uints(f.size)
      [] f.type = "signer" -> STRING
      [] f.type = "fixed" -> [1 .. f.size -> Bytes]
      [] f.type \in {"bytes", "signature"} -> Seq(Bytes)
      [] f.type = "optional" -> {<<>>} \cup [1 .. f.size -> Bytes]
      [] f.type = "list" -> Seq(IF f.item = 0 THEN Seq(Bytes) ELSE [1 .. f.item -> Bytes])

Names(format) == {format[i].name : i \in DOMAIN format}

HasFormat(m, format) ==
    /\ m = [name \in Names(format) |-> m[name]]
    /\ \A i \in DOMAIN format : m[format[i].name] \in Content(format[i])

IsMessage(k, m) ==
    CASE k = "transaction" -> HasFormat(m, TransactionFormat)
      [] k = "block" ->
            /\ m.Transactions \in Seq(Range(m.Transactions))
            /\ \A t \in Range(m.Transactions) : HasFormat(t, TransactionFormat)
            /\ HasFormat(Written(m), BlockFormat)
      [] k = "consensus" -> HasFormat(m, ConsensusFormat)
      [] k = "network" -> HasFormat(m, NetworkFormat)
      [] k = "route" -> HasFormat(m, RouteFormat)
      [] k = "topology" -> HasFormat(m, TopologyFormat)

ASSUME SamplesAssumption ==
    DOMAIN Samples = Kinds /\ \A k \in Kinds : \A m \in Samples[k] : IsMessage(k, m)

Serialize(k, m) ==
    CASE k = "transaction" -> SerializeTransaction(m)
      [] k = "block" -> SerializeBlock(m)
      [] k = "consensus" -> SerializeConsensusPacket(m)
      [] k = "network" -> SerializeNetworkPacket(m)
      [] k = "route" -> SerializeRoutePacket(m)
      [] k = "topology" -> SerializeTopologyMessage(m)

Deserialize(k, data) ==
    CASE k = "transaction" -> DeserializeTransaction(data)
      [] k = "block" -> DeserializeBlock(data)
      [] k = "consensus" -> DeserializeConsensusPacket(data)
      [] k = "network" -> DeserializeNetworkPacket(data)
      [] k = "route" -> DeserializeRoutePacket(data)
      [] k = "topology" -> DeserializeTopologyMessage(data)

Init ==
    /\ kind \in Kinds
    /\ message \in Samples[kind]
    /\ phase = "new" /\ wire = <<>> /\ cut = FALSE /\ result = NoResult

Send ==
    /\ phase = "new"
    /\ wire' = Serialize(kind, message)
    /\ phase' = "sent"
    /\ UNCHANGED <<kind, message, cut, result>>

\* BroadcastMessage and a subscription, or the store.
Deliver ==
    /\ phase = "sent"
    /\ phase' = "received"
    /\ UNCHANGED <<kind, message, wire, cut, result>>

\* HandleStream reads a stream once; the decoders' length checks expect the same
\* of the other kinds.
HandleStream ==
    /\ phase = "sent"
    /\ \E n \in 1 .. Len(wire) - 1 : wire' = SubSeq(wire, 1, n)
    /\ cut' = TRUE
    /\ phase' = "received"
    /\ UNCHANGED <<kind, message, result>>

Receive ==
    /\ phase = "received"
    /\ result' = Deserialize(kind, wire)
    /\ phase' = "decoded"
    /\ UNCHANGED <<kind, message, wire, cut>>

Next == Send \/ Deliver \/ HandleStream \/ Receive

Spec == Init /\ [][Next]_vars

-----------------------------------------------------------------------------
(* Properties *)

Decoded == phase = "decoded"
Accepted == Decoded /\ result.status = "ok"

\* No decoder reads behind the end of its data, wherever a message is cut: the
\* minimum sizes cover all the accesses that are not compared with len(data)
\* (DeserializeBlock, DeserializeTransaction). How much memory a decoder asks
\* for before it finds the entries of a list missing (make with the count it has
\* read) is not part of it.
NoPanic == result.status # "panic"

\* A message as its receiver should have it: block data of a packet that is not
\* a proposal is not sent, and a type of signature that was never set is
\* unknown to the receiver.
KnownSigner(t) == SignerTypeFromUint32(Uint32(t))

Known(t) == [t EXCEPT !.SignatureType = KnownSigner(@)]

Expected(k, m) ==
    CASE k = "transaction" -> Known(m)
      [] k = "block" ->
            [Known(m) EXCEPT !.Transactions = [i \in DOMAIN m.Transactions |-> Known(m.Transactions[i])]]
      [] k = "consensus" -> [Carried(m) EXCEPT !.Signer = KnownSigner(@)]
      [] OTHER -> m

\* Lengths and counts fit into the bytes they are written in, one in a topology
\* message and four in the others.
FieldFits(f, v) ==
    /\ f.type \in {"bytes", "signature", "list"} => Len(v) \in Uints(f.size)
    /\ f.type = "list" /\ f.item = 0 => \A i \in DOMAIN v : Len(v[i]) \in Uints(f.size)

FormatFits(m, format) == \A i \in DOMAIN format : FieldFits(format[i], m[format[i].name])

\* So does the size of a transaction.
TransactionFits(t) ==
    FormatFits(t, TransactionFormat) /\ Len(Encode(TransactionFormat, t)) \in Uints(4)

Fits(k, m) ==
    CASE k = "transaction" -> TransactionFits(m)
      [] k = "block" ->
            /\ \A i \in DOMAIN m.Transactions : TransactionFits(m.Transactions[i])
            /\ FormatFits(Written(m), BlockFormat)
      [] k = "consensus" -> FormatFits(Carried(m), ConsensusFormat)
      [] k = "network" -> FormatFits(m, NetworkFormat)
      [] k = "route" -> FormatFits(m, RouteFormat)
      [] k = "topology" -> FormatFits(m, TopologyFormat)

\* A message that arrives whole is accepted and is the message that was sent,
\* empty fields, fields of the greatest length and lists included: sizes
\* computed beforehand, lengths and the order of the fields fit on both sides.
RoundTrip ==
    Decoded /\ ~cut /\ Fits(kind, message)
    => Accepted /\ result.value = Expected(kind, message)

\* The fields whose bytes may be missing from an accepted message.
MayBeShort(k) ==
    CASE k \in {"consensus", "network"} -> {"Signature"}
      [] k = "topology" -> {"Addresses"}
      [] OTHER -> {}

\* A message that arrives cut is refused, or all that is missing are bytes of
\* its last field; blocks, transactions and routes are always refused.
CutIsNoticed ==
    Accepted /\ cut /\ Fits(kind, message)
    => /\ MayBeShort(kind) # {}
       /\ \A name \in DOMAIN result.value \ MayBeShort(kind) :
            result.value[name] = Expected(kind, message)[name]

\* The receiver of a consensus packet checks the signature against the bytes
\* its sender has signed, in the sender's name, even if the packet was cut
\* (verifySignature).
SignedBytesSurvive ==
    Accepted /\ kind = "consensus" /\ Fits(kind, message)
    => /\ DataToVerify(result.value) = DataToVerify(message)
       /\ SignerOf(result.value) = SignerOf(message)

\* The Merkle root commits to every transaction and to its place, odd ones too
\* (ComputeMerkleRoot, ValidateBlock): no other list of as many IDs has the root
\* of the block's list, not even one with the hash of two of them as an ID. Lists
\* of different lengths may share a root: a, b, x and x, x do
\* if x is the hash of a and b.
MerkleCommits ==
    kind = "block" /\ phase = "new" =>
        LET mine == [i \in DOMAIN message.Transactions |-> message.Transactions[i].ID]
            ids == Range(mine) \cup Range(NextLevel(mine))
        IN \A other \in [DOMAIN mine -> ids] :
            ComputeMerkleRoot(other) = ComputeMerkleRoot(mine) => other = mine

=============================================================================
