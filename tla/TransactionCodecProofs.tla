------------------------ MODULE TransactionCodecProofs ------------------------
(***************************************************************************)
(* Proofs about TransactionCodec, for any keys, any number of transactions *)
(* and any number of nodes on the way: what arrives is what was built, and *)
(* a transaction that fits is accepted by a Strict node if and only if it  *)
(* was signed.                                                             *)
(***************************************************************************)
EXTENDS TransactionCodec, TLAPS

\* What build_raw_transaction makes.
Built(tx) ==
  \E k \in Key, n \in 0 .. MaxSeqno, data \in 0 .. MaxTransmitSize : tx = RawTransaction(k, n, data)

\* The fields of such a transaction.
LEMMA BuiltFields ==
  ASSUME NEW tx, Built(tx)
  PROVE  /\ DOMAIN tx = {"from", "seqno", "data", "signature", "key"}
         /\ tx = [from |-> tx.from, seqno |-> tx.seqno, data |-> tx.data,
                  signature |-> tx.signature, key |-> tx.key]
         /\ tx.from \in Key
         /\ tx.from \in Signing => /\ tx.signature = Sign(tx.from, tx) /\ tx.signature \in Signature
                                   /\ tx.key = IF tx.from \in Inlined THEN None ELSE tx.from
         /\ tx.from \notin Signing => tx.signature = None /\ tx.key = None
<1>1. PICK k \in Key, n \in 0 .. MaxSeqno, data \in 0 .. MaxTransmitSize :
        tx = RawTransaction(k, n, data)
  BY DEF Built
<1> DEFINE sig == IF k \in Signing THEN Sign(k, [from |-> k, seqno |-> n, data |-> data]) ELSE None
           key == IF k \in Signing THEN InlineKey(k) ELSE None
<1>2. tx = [from |-> k, seqno |-> n, data |-> data, signature |-> sig, key |-> key]
  BY <1>1 DEF RawTransaction
<1>3. k \in Signing => sig = Sign(k, tx) /\ sig \in Signature
  <2>1. Sign(k, [from |-> k, seqno |-> n, data |-> data])
          = [by |-> k, over |-> [from |-> k, seqno |-> n, data |-> data]]
    BY DEF Sign, Content
  <2>2. [by |-> k, over |-> [from |-> k, seqno |-> n, data |-> data]] \in Signature
    BY DEF Signature
  <2>3. Sign(k, tx) = [by |-> k, over |-> [from |-> k, seqno |-> n, data |-> data]]
    BY <1>2 DEF Sign, Content
  <2> QED
    BY <2>1, <2>2, <2>3
<1>4. key = IF k \in Signing THEN (IF k \in Inlined THEN None ELSE k) ELSE None
  BY DEF InlineKey
<1> HIDE DEF sig, key
<1>5. /\ tx.from = k /\ tx.seqno = n /\ tx.data = data /\ tx.signature = sig /\ tx.key = key
      /\ DOMAIN tx = {"from", "seqno", "data", "signature", "key"}
  BY <1>2
<1>6. k \notin Signing => sig = None
  BY DEF sig
<1> QED
  BY <1>2, <1>3, <1>4, <1>5, <1>6

\* The fields of its frame.
LEMMA FrameFields ==
  ASSUME NEW tx, Built(tx)
  PROVE  /\ ToFrame(tx).from = tx.from /\ ToFrame(tx).seqno = tx.seqno /\ ToFrame(tx).data = tx.data
         /\ ToFrame(tx).signature = IF tx.signature = None THEN Empty ELSE tx.signature
         /\ ToFrame(tx).key = IF tx.key = None THEN Empty ELSE tx.key
         /\ Content(ToFrame(tx)) = Content(tx)
<1> DEFINE f == ToFrame(tx)
<1>1. /\ f.from = tx.from /\ f.seqno = tx.seqno /\ f.data = tx.data
      /\ f.signature = IF tx.signature = None THEN Empty ELSE tx.signature
      /\ f.key = IF tx.key = None THEN Empty ELSE tx.key
  <2>1. DOMAIN tx = {"from", "seqno", "data", "signature", "key"}
    BY BuiltFields
  <2> QED
    BY <2>1 DEF ToFrame
<1> QED
  BY <1>1 DEF Content

\* Replacing the two fields of such a record that are optional.
LEMMA Replaced ==
  ASSUME NEW a, NEW b, NEW c, NEW s, NEW k, NEW u, NEW v
  PROVE  [[from |-> a, seqno |-> b, data |-> c, signature |-> s, key |-> k]
            EXCEPT !.signature = u, !.key = v]
           = [from |-> a, seqno |-> b, data |-> c, signature |-> u, key |-> v]
<1> DEFINE r == [from |-> a, seqno |-> b, data |-> c, signature |-> s, key |-> k]
<1>1. \A x : [x EXCEPT !.signature = u, !.key = v] = [[x EXCEPT !.signature = u] EXCEPT !.key = v]
  OBVIOUS
<1>2. [r EXCEPT !.signature = u]
        = [from |-> a, seqno |-> b, data |-> c, signature |-> u, key |-> k]
  OBVIOUS
<1>3. [[from |-> a, seqno |-> b, data |-> c, signature |-> u, key |-> k] EXCEPT !.key = v]
        = [from |-> a, seqno |-> b, data |-> c, signature |-> u, key |-> v]
  OBVIOUS
<1>4. [r EXCEPT !.signature = u, !.key = v] = [[r EXCEPT !.signature = u] EXCEPT !.key = v]
  BY <1>1, Zenon
<1>5. [[r EXCEPT !.signature = u] EXCEPT !.key = v]
        = [from |-> a, seqno |-> b, data |-> c, signature |-> u, key |-> v]
  BY <1>2, <1>3, Zenon
<1> QED
  BY <1>4, <1>5, Zenon

\* Either conversion on such a record.
LEMMA Converted ==
  ASSUME NEW a, NEW b, NEW c, NEW s, NEW k, NEW tx,
         tx = [from |-> a, seqno |-> b, data |-> c, signature |-> s, key |-> k]
  PROVE  /\ ToFrame(tx) = [from |-> a, seqno |-> b, data |-> c,
                           signature |-> IF s = None THEN Empty ELSE s,
                           key |-> IF k = None THEN Empty ELSE k]
         /\ FromFrame(tx) = [from |-> a, seqno |-> b, data |-> c,
                             signature |-> IF s = Empty THEN None ELSE s,
                             key |-> IF k = Empty THEN None ELSE k]
<1>1. tx.signature = s /\ tx.key = k
  OBVIOUS
<1>2. ToFrame(tx) = [tx EXCEPT !.signature = IF s = None THEN Empty ELSE s,
                               !.key = IF k = None THEN Empty ELSE k]
  BY <1>1, Zenon DEF ToFrame
<1>3. FromFrame(tx) = [tx EXCEPT !.signature = IF s = Empty THEN None ELSE s,
                                 !.key = IF k = Empty THEN None ELSE k]
  BY <1>1, Zenon DEF FromFrame
<1> QED
  BY <1>2, <1>3, Replaced, Zenon

\* Framing and decoding lose nothing of it.
LEMMA RoundTrip ==
  ASSUME NEW tx, Built(tx)
  PROVE  FromFrame(ToFrame(tx)) = tx
<1>1. /\ tx = [from |-> tx.from, seqno |-> tx.seqno, data |-> tx.data,
               signature |-> tx.signature, key |-> tx.key]
      /\ tx.signature # Empty /\ tx.key # Empty
  <2>1. tx.signature \in Signature \cup {None} /\ tx.key \in Key \cup {None}
    BY BuiltFields
  <2> QED
    BY <2>1, BuiltFields, CodecAssumption
<1>2. PICK a, b, c, s, k :
        /\ a = tx.from /\ b = tx.seqno /\ c = tx.data /\ s = tx.signature /\ k = tx.key
  OBVIOUS
<1> DEFINE u == IF s = None THEN Empty ELSE s
           v == IF k = None THEN Empty ELSE k
<1>3. ToFrame(tx) = [from |-> a, seqno |-> b, data |-> c, signature |-> u, key |-> v]
  <2>1. tx = [from |-> a, seqno |-> b, data |-> c, signature |-> s, key |-> k]
    BY <1>1, <1>2
  <2> QED
    BY <2>1, Converted
<1>4. (IF u = Empty THEN None ELSE u) = s /\ (IF v = Empty THEN None ELSE v) = k
  BY <1>1, <1>2
<1> HIDE DEF u, v
<1>5. FromFrame([from |-> a, seqno |-> b, data |-> c, signature |-> u, key |-> v])
        = [from |-> a, seqno |-> b, data |-> c,
           signature |-> IF u = Empty THEN None ELSE u, key |-> IF v = Empty THEN None ELSE v]
  BY Converted
<1> QED
  BY <1>1, <1>2, <1>3, <1>4, <1>5

\* Its signature is found good if and only if there is one.
LEMMA Verified ==
  ASSUME NEW tx, Built(tx)
  PROVE  VerifySignature(ToFrame(tx)) <=> tx.from \in Signing
<1> DEFINE f == ToFrame(tx)
<1>1. /\ f.from = tx.from /\ Content(f) = Content(tx) /\ tx.from \in Key
      /\ f.signature = IF tx.signature = None THEN Empty ELSE tx.signature
      /\ f.key = IF tx.key = None THEN Empty ELSE tx.key
  BY FrameFields, BuiltFields
<1>2. \A public \in Key : Sign(public, f) = Sign(public, tx)
  BY <1>1 DEF Sign
<1>3. ASSUME tx.from \in Signing PROVE VerifySignature(f)
  <2>1. /\ tx.signature = Sign(tx.from, tx) /\ tx.signature \in Signature
        /\ tx.key = IF tx.from \in Inlined THEN None ELSE tx.from
    BY <1>3, BuiltFields
  <2>2. f.signature = Sign(tx.from, f)
    BY <1>1, <1>2, <2>1, CodecAssumption
  <2>3. IF f.key \in Key THEN tx.from = f.key ELSE f.from \in Inlined /\ tx.from = f.from
    BY <1>1, <2>1, CodecAssumption
  <2> QED
    BY <1>1, <2>2, <2>3 DEF VerifySignature
<1>4. ASSUME tx.from \notin Signing, VerifySignature(f) PROVE FALSE
  <2>1. f.signature = Empty
    BY <1>1, <1>4, BuiltFields
  <2>2. PICK public \in Key : f.from = public /\ f.signature = Sign(public, f)
    BY <1>4 DEF VerifySignature
  <2>3. Sign(public, f) \in Signature
    <3>1. PICK k \in Key, n \in 0 .. MaxSeqno, data \in 0 .. MaxTransmitSize :
            tx = RawTransaction(k, n, data)
      BY DEF Built
    <3>2. tx.from = k /\ tx.seqno = n /\ tx.data = data
      BY <3>1 DEF RawTransaction
    <3>3. Sign(public, f) = [by |-> public, over |-> [from |-> k, seqno |-> n, data |-> data]]
      BY <1>2, <3>2 DEF Sign, Content
    <3> QED
      BY <3>3 DEF Signature
  <2> QED
    BY <2>1, <2>2, <2>3, CodecAssumption
<1> QED
  BY <1>3, <1>4

-----------------------------------------------------------------------------
\* The frame under way is that of the transaction last built, which the last
\* node that forwarded it has read.
CodecInv ==
  /\ seqno \in [Key -> 0 .. MaxSeqno] /\ hops \in Nat
  /\ frame # None =>
       /\ Built(built) /\ frame = ToFrame(built)
       /\ hops > 0 => last.tx = built

LEMMA CodecStep ==
  ASSUME CodecInv, [Next]_vars
  PROVE  CodecInv'
<1>1. ASSUME NEW k \in Key, NEW data \in 0 .. MaxData, Publish(k, data)
      PROVE  CodecInv'
  <2>1. /\ seqno[k] < MaxSeqno /\ data <= MaxTransmitSize
        /\ seqno' = [seqno EXCEPT ![k] = seqno[k] + 1]
        /\ built' = RawTransaction(k, seqno[k] + 1, data)
        /\ frame' = ToFrame(built') /\ hops' = 0
    BY <1>1 DEF Publish
  <2>2. /\ seqno[k] + 1 \in 0 .. MaxSeqno /\ data \in 0 .. MaxTransmitSize
    <3>1. seqno[k] \in Nat /\ MaxSeqno \in Nat /\ MaxData \in Nat /\ MaxTransmitSize \in Nat
      BY CodecAssumption DEF CodecInv
    <3> QED
      BY <2>1, <3>1
  <2>3. Built(built')
    BY <2>1, <2>2 DEF Built
  <2>4. seqno' \in [Key -> 0 .. MaxSeqno]
    BY <2>1, <2>2 DEF CodecInv
  <2> QED
    BY <2>1, <2>3, <2>4 DEF CodecInv
<1>2. ASSUME NEW mode \in {"Strict", "None"}, Decode(mode)
      PROVE  CodecInv'
  <2>1. /\ frame # None /\ UNCHANGED <<seqno, built>>
        /\ last'.tx = FromFrame(frame)
        /\ \/ frame' = None /\ hops' = hops
           \/ frame' = ToFrame(FromFrame(frame)) /\ hops' = hops + 1
    BY <1>2 DEF Decode
  <2>2. FromFrame(frame) = built
    BY <2>1, RoundTrip DEF CodecInv
  <2> QED
    BY <2>1, <2>2 DEF CodecInv
<1>3. CASE UNCHANGED vars
  BY <1>3 DEF vars, CodecInv
<1> QED
  BY <1>1, <1>2, <1>3 DEF Next

LEMMA CodecInvariant == Spec => []CodecInv
<1>1. Init => CodecInv
  BY CodecAssumption DEF Init, CodecInv
<1>2. CodecInv /\ [Next]_vars => CodecInv'
  BY CodecStep
<1> QED
  BY <1>1, <1>2, PTL DEF Spec

\* What a node decodes, however many nodes have decoded and framed it on the
\* way, is what the author built: no field is lost or invented.
THEOREM NothingIsLost == Spec => []HopsPreserve
<1>1. CodecInv => HopsPreserve
  BY DEF CodecInv, HopsPreserve
<1> QED
  BY <1>1, CodecInvariant, PTL

\* A transaction that fits into a frame is valid to a node if and only if its
\* author signs or the node does not verify, whichever kind of key the author
\* has and however far the transaction has come.
THEOREM SignedAreValid == Spec => SignedIsAccepted
<1> DEFINE A == frame # None /\ Size(frame) <= MaxTransmitSize =>
                  (last'.result = "valid" <=> last'.mode = "None" \/ built.from \in Signing)
<1>1. ASSUME CodecInv, [Next]_vars PROVE [A]_vars
  <2>1. ASSUME NEW k \in Key, NEW data \in 0 .. MaxData, Publish(k, data) PROVE A
    BY <2>1 DEF Publish
  <2>2. ASSUME NEW mode \in {"Strict", "None"}, Decode(mode) PROVE A
    <3> SUFFICES ASSUME frame # None, Size(frame) <= MaxTransmitSize
                 PROVE  last'.result = "valid" <=> last'.mode = "None" \/ built.from \in Signing
      OBVIOUS
    <3>1. VerifySignature(frame) <=> built.from \in Signing
      BY <1>1, Verified DEF CodecInv
    <3>2. Size(frame) > MaxTransmitSize => FALSE
      <4>1. Size(frame) \in Nat /\ MaxTransmitSize \in Nat
        <5>1. frame.data \in Nat
          <6>1. PICK k \in Key, n \in 0 .. MaxSeqno, data \in 0 .. MaxTransmitSize :
                  built = RawTransaction(k, n, data)
            BY <1>1 DEF CodecInv, Built
          <6>2. built.data = data
            BY <6>1 DEF RawTransaction
          <6> QED
            BY <1>1, <6>2, FrameFields, CodecAssumption DEF CodecInv
        <5> QED
          BY <5>1, CodecAssumption DEF Size
      <4> QED
        BY <4>1
    <3>3. \/ /\ mode = "Strict" /\ ~VerifySignature(frame)
             /\ last'.mode = mode /\ last'.result = "InvalidSignature"
          \/ /\ mode = "Strict" => VerifySignature(frame)
             /\ last'.mode = mode /\ last'.result = "valid"
      BY <2>2, <3>2 DEF Decode
    <3> QED
      BY <3>1, <3>3
  <2> QED
    BY <1>1, <2>1, <2>2 DEF Next
<1>2. Spec => [][A]_vars
  BY <1>1, CodecInvariant, PTL DEF Spec
<1> QED
  BY <1>2 DEF SignedIsAccepted
=============================================================================
