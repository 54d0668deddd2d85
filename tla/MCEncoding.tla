----------------------------- MODULE MCEncoding -----------------------------
(* Messages for Encoding: bytes of base four, so that three is the greatest  *)
(* one-byte length and four wraps around.                                   *)
EXTENDS Encoding, TLC

Strings == {<<>>, <<2>>, <<1, 0, 3>>}

Transaction(id, type, sig, payload) ==
    [ID |-> id, Sender |-> <<1, 2>>, Recipient |-> <<3, 0>>, Amount |-> 9, Fee |-> 0,
     Nonce |-> 5, Timestamp |-> 70, SignatureType |-> type, Signature |-> sig,
     Payload |-> payload]

Transactions ==
    {Transaction(<<1, 1>>, type, sig, payload) :
        type \in {"", "bls", "dleq"}, sig \in Strings, payload \in Strings}

Tx(id) == Transaction(id, "", <<>>, <<id[1]>>)

Block(txs, type, sig, finalizers) ==
    [Index |-> 6, Timestamp |-> 71, PreviousHash |-> <<0, 0>>, Hash |-> <<2, 1>>,
     MerkleRoot |-> <<0, 3>>, SignatureType |-> type, Signature |-> sig,
     ValidatorID |-> <<3, 3>>, Transactions |-> txs, Difficulty |-> 1, Version |-> 1,
     FinalizedBy |-> finalizers]

Lists == {<<Tx(<<1, 1>>)>>, <<Tx(<<1, 1>>), Tx(<<2, 0>>)>>,
          <<Tx(<<1, 1>>), Tx(<<2, 0>>), Tx(<<1, 1>>)>>,
          <<Tx(<<1, 1>>), Tx(<<2, 0>>), Tx(<<3, 0>>), Tx(<<2, 0>>), Tx(<<3, 0>>)>>}

Blocks ==
    {Block(txs, type, sig, finalizers) :
        txs \in Lists, type \in {"", "ed25519"}, sig \in {<<>>, <<3, 3>>},
        finalizers \in {<<>>, <<<<1, 2>>, <<3, 0>>>>}}

ConsensusPackets ==
    [Type : 1 .. 3, Signer : {"", "bls"}, ProposerID : {<<>>, <<1, 2>>},
     ValidatorID : {<<>>, <<3>>}, BlockHash : {<<2, 2, 1>>}, BlockData : {<<>>, <<1, 0>>},
     Signature : {<<>>, <<3, 2, 0>>}]

NetworkPackets ==
    [Type : {3}, SenderID : Strings, ReceiverID : Strings, Payload : Strings,
     Signature : {<<>>, <<3, 2>>}]

RoutePackets ==
    [NextHopIP : {<<1, 2, 3>>}, NextHopMAC : {<<>>, <<0, 1>>}, Signature : {<<>>, <<3, 0, 1>>}]

TopologyMessages ==
    [Type : 1 .. 3, SenderID : Strings, PeerID : {<<1>>, <<1, 1, 1, 1>>},
     Addresses : {<<>>, <<<<>>>>, <<<<1, 2, 3>>, <<>>, <<2>>>>, <<<<1>>, <<2>>, <<3>>, <<0>>>>}]

AllSamples == [k \in Kinds |->
    CASE k = "transaction" -> Transactions
      [] k = "block" -> Blocks
      [] k = "consensus" -> ConsensusPackets
      [] k = "network" -> NetworkPackets
      [] k = "route" -> RoutePackets
      [] k = "topology" -> TopologyMessages]
=============================================================================
