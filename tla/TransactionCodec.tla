-------------------------- MODULE TransactionCodec --------------------------
(***************************************************************************)
(* A transaction on its way: built by publish (dog/src/behaviour.rs),      *)
(* turned into a frame (dog/src/types.rs), decoded and validated by each   *)
(* node on the path (DogCodec in dog/src/protocol.rs) and framed again     *)
(* when it is forwarded.                                                   *)
(*                                                                         *)
(* A PeerId is identified with the key it belongs to, a payload with its   *)
(* length.  A signature is the record of who signed what.  Absent and      *)
(* empty fields are told apart: RawTransaction has Option fields, the      *)
(* frame has byte strings, and the codec converts in both directions.      *)
(***************************************************************************)
EXTENDS Naturals, FiniteSets

CONSTANTS
  Key,               \* the keys of the authors
  Inlined,           \* those whose encoding fits into the PeerId (42 bytes)
  Signing,           \* the authors with TransactionAuthenticity::Signed
  MaxTransmitSize,   \* Config.max_transmit_size, of every node
  Overhead,          \* the bytes of a frame beside the data
  None, Empty,       \* an absent option and an empty byte string
  MaxData,           \* bound: the longest payload tried
  MaxSeqno,          \* bound: transactions of an author
  MaxHops            \* bound: how often a transaction is forwarded

\* What an author can have signed.
Signature ==
  [by : Key, over : [from : Key, seqno : 0 .. MaxSeqno, data : 0 .. MaxTransmitSize]]

ASSUME CodecAssumption ==
  /\ Inlined \subseteq Key /\ Signing \subseteq Key
  /\ {MaxTransmitSize, Overhead, MaxData, MaxSeqno, MaxHops} \subseteq Nat
  /\ None \notin Key \cup Signature /\ Empty \notin Key \cup Signature /\ None # Empty

VARIABLES
  seqno,   \* [Key -> Nat]: last_seqno of every author
  built,   \* the RawTransaction last built, or None
  frame,   \* the frame under way, or None
  hops,    \* how often it was forwarded
  last     \* [mode, result, tx]: what the last decode did

vars == <<seqno, built, frame, hops, last>>

Content(tx) == [from |-> tx.from, seqno |-> tx.seqno, data |-> tx.data]
Sign(k, tx) == [by |-> k, over |-> Content(tx)]
Size(f) == f.data + Overhead

Init ==
  /\ seqno = [k \in Key |-> 0]
  /\ built = None /\ frame = None
  /\ hops = 0
  /\ last = [mode |-> "Strict", result |-> "none", tx |-> None]

-----------------------------------------------------------------------------
\* Slip: the key is never sent along.
KeyNeverSent(k) == None

\* PublishConfig::from: a key that the PeerId contains is not sent along.
InlineKey(k) == IF k \in Inlined THEN None ELSE k

\* build_raw_transaction.
RawTransaction(k, n, data) ==
  LET content == [from |-> k, seqno |-> n, data |-> data]
  IN [from |-> k, seqno |-> n, data |-> data,
      signature |-> IF k \in Signing THEN Sign(k, content) ELSE None,
      key |-> IF k \in Signing THEN InlineKey(k) ELSE None]

\* From<RawTransaction> for proto::Transaction.
ToFrame(tx) ==
  [tx EXCEPT !.signature = IF @ = None THEN Empty ELSE @,
             !.key = IF @ = None THEN Empty ELSE @]

\* Slip: an absent signature becomes an empty one.
FromFrameEmpty(f) == [f EXCEPT !.key = IF @ = Empty THEN None ELSE @]

\* The RawTransaction that decode reads from a frame.
FromFrame(f) ==
  [f EXCEPT !.signature = IF @ = Empty THEN None ELSE @,
            !.key = IF @ = Empty THEN None ELSE @]

\* Slip: without a key field no key is found.
VerifySentKey(f) == f.key \in Key /\ f.from = f.key /\ f.signature = Sign(f.key, f)

\* verify_signature: the key is the one sent along or the one in the PeerId,
\* it has to be the author's, and to have signed all but signature and key.
VerifySignature(f) ==
  \E public \in Key :
    /\ IF f.key \in Key THEN public = f.key ELSE f.from \in Inlined /\ public = f.from
    /\ f.from = public
    /\ f.signature = Sign(public, f)

-----------------------------------------------------------------------------
\* publish: a payload that is too large is refused before anything changes.
Publish(k, data) ==
  /\ frame = None
  /\ seqno[k] < MaxSeqno
  /\ data <= MaxTransmitSize
  /\ seqno' = [seqno EXCEPT ![k] = @ + 1]
  /\ built' = RawTransaction(k, seqno[k] + 1, data)
  /\ frame' = ToFrame(built')
  /\ hops' = 0
  /\ UNCHANGED last

\* decode at a node with the given validation mode.  A frame above the limit
\* is an error of the substream.  The node may forward a valid transaction.
Decode(mode) ==
  LET tx == FromFrame(frame)
      Outcome(result) == last' = [mode |-> mode, result |-> result, tx |-> tx]
      Ends == frame' = None /\ UNCHANGED hops
      Forwards == hops < MaxHops /\ frame' = ToFrame(tx) /\ hops' = hops + 1
  IN /\ frame # None
     /\ \/ Size(frame) > MaxTransmitSize /\ Outcome("error") /\ Ends
        \/ /\ Size(frame) <= MaxTransmitSize
           /\ mode = "Strict" /\ ~VerifySignature(frame)
           /\ Outcome("InvalidSignature") /\ Ends
        \/ /\ Size(frame) <= MaxTransmitSize
           /\ mode = "Strict" => VerifySignature(frame)
           /\ Outcome("valid")
           /\ Ends \/ Forwards
     /\ UNCHANGED <<seqno, built>>

Next ==
  \/ \E k \in Key, data \in 0 .. MaxData : Publish(k, data)
  \/ \E mode \in {"Strict", "None"} : Decode(mode)

Spec == Init /\ [][Next]_vars

-----------------------------------------------------------------------------
\* What a node receives, however many nodes have decoded and framed it on the
\* way, is what the author built: no field is lost or invented.
HopsPreserve ==
  /\ last.tx # None /\ frame # None /\ hops > 0 => last.tx = built
  /\ frame # None => frame = ToFrame(built)

\* A signed transaction that fits is accepted by every node, whichever kind of
\* key its author has; an unsigned one never gets past a Strict node.
SignedIsAccepted ==
  [][frame # None /\ Size(frame) <= MaxTransmitSize =>
       (last'.result = "valid" <=> last'.mode = "None" \/ built.from \in Signing)]_vars
=============================================================================
