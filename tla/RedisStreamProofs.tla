------------------------- MODULE RedisStreamProofs -------------------------
(***************************************************************************)
(* The stream's safety for any number of producers, consumers, entries and *)
(* any batch size and MAXLEN.                                              *)
(*                                                                         *)
(* The argument rests on ids being ordered: XREADGROUP returns a prefix of *)
(* what is unread, so moving lastDelivered to the end of a batch passes    *)
(* over no entry that is not in the batch.                                 *)
(***************************************************************************)
EXTENDS RedisStream, FiniteSetTheorems, SequenceTheorems, TLAPS

StreamInv == StreamTypeOK /\ NothingVanishes

----------------------------------------------------------------------------
\* The n smallest elements of a set of naturals are downward closed in it.
LEMMA FirstNIsPrefix ==
  ASSUME NEW S \in SUBSET Nat, NEW n \in Nat,
         NEW m \in FirstN(S, n), NEW i \in S, i < m
  PROVE  i \in FirstN(S, n)
<1> DEFINE Before(k) == {j \in S : j < k}
<1>1. m \in S /\ Cardinality(Before(m)) < n
  BY DEF FirstN
<1>2. IsFiniteSet(Before(m)) /\ Before(i) \in SUBSET Before(m)
  <2>1. m \in Nat /\ i \in Nat
    BY <1>1
  <2>2. Before(m) \in SUBSET (0 .. m)
    <3>1. ASSUME NEW j \in S, j < m PROVE j \in 0 .. m
      BY <3>1, <2>1
    <3> QED BY <3>1
  <2>3. IsFiniteSet(0 .. m)
    BY <2>1, FS_Interval
  <2>4. IsFiniteSet(Before(m))
    BY <2>2, <2>3, FS_Subset
  <2>5. \A j \in Before(i) : j \in Before(m)
    BY <2>1
  <2> QED BY <2>4, <2>5
<1>3. /\ IsFiniteSet(Before(i))
      /\ Cardinality(Before(i)) <= Cardinality(Before(m))
  BY <1>2, FS_Subset
<1>4. Cardinality(Before(i)) \in Nat /\ Cardinality(Before(m)) \in Nat
  BY <1>2, <1>3, FS_CardinalityType
<1>5. Cardinality(Before(i)) < n
  BY <1>1, <1>3, <1>4
<1> QED BY <1>5 DEF FirstN

LEMMA FirstNSubset ==
  ASSUME NEW S, NEW n PROVE FirstN(S, n) \subseteq S
BY DEF FirstN

LEMMA IdsAreNat == StreamTypeOK => Len(entries) \in Nat /\ Ids \subseteq Nat
BY LenProperties DEF StreamTypeOK, Ids

LEMMA BatchIsUnread ==
  ASSUME StreamTypeOK
  PROVE  /\ Unread \in SUBSET Nat
         /\ NextBatch \subseteq Unread
         /\ NextBatch \subseteq Ids
BY IdsAreNat, FirstNSubset DEF Unread, NextBatch

LEMMA PickedArePending ==
  ASSUME StreamTypeOK
  PROVE  Picked \subseteq pel /\ Claimed \subseteq pel /\ pel \subseteq Ids
<1>1. Picked \subseteq Claimable /\ Claimable \subseteq FirstN(pel, ScanFactor * BatchSize)
  BY FirstNSubset DEF Picked, Claimable
<1>2. FirstN(pel, ScanFactor * BatchSize) \subseteq pel
  BY FirstNSubset
<1>3. pel \subseteq Ids
  BY IdsAreNat DEF StreamTypeOK, Ids
<1> QED BY <1>1, <1>2, <1>3 DEF Claimed

\* Entries are only ever added at the end.
LEMMA PublishAppends ==
  ASSUME StreamTypeOK, NEW bodies \in Seq(Body), Publish(bodies)
  PROVE  /\ entries' \in Seq(Body)
         /\ Len(entries) \in Nat /\ Len(entries') \in Nat
         /\ Len(entries') > Len(entries)
         /\ \A i \in Ids : entries'[i] = entries[i]
         /\ trimmed' \in Nat /\ trimmed' >= trimmed /\ trimmed' <= Len(entries')
<1>1. PICK k \in 1 .. Len(bodies) :
        /\ entries' = entries \o SubSeq(bodies, 1, k)
        /\ trimmed' \in Trim(Len(entries) + k)
  BY DEF Publish
<1>2. entries \in Seq(Body) /\ Len(entries) \in Nat /\ trimmed \in Nat
  BY IdsAreNat DEF StreamTypeOK
<1>3. Len(bodies) \in Nat /\ \A i \in 1 .. k : bodies[i] \in Body
  BY LenProperties, ElementOfSeq
<1>4. SubSeq(bodies, 1, k) \in Seq(Body) /\ Len(SubSeq(bodies, 1, k)) = k
  BY <1>3, SubSeqProperties
<1>5. /\ entries' \in Seq(Body)
      /\ Len(entries') = Len(entries) + k
      /\ \A i \in 1 .. Len(entries) + k : entries'[i] =
           IF i <= Len(entries) THEN entries[i] ELSE SubSeq(bodies, 1, k)[i - Len(entries)]
  BY <1>1, <1>2, <1>4, ConcatProperties
<1>6. trimmed' \in trimmed .. Len(entries) + k
  BY <1>1 DEF Trim
<1> QED BY <1>2, <1>3, <1>5, <1>6 DEF Ids

----------------------------------------------------------------------------
LEMMA StreamInitInv == StreamInit => StreamInv
<1> SUFFICES ASSUME StreamInit PROVE StreamInv
  OBVIOUS
<1>1. entries \in Seq(Body) /\ Len(entries) = 0
  BY EmptySeq DEF StreamInit
<1> QED BY <1>1 DEF StreamInit, StreamInv, StreamTypeOK, NothingVanishes, Ids

LEMMA PublishInv ==
  ASSUME StreamInv, NEW bodies \in Seq(Body), Publish(bodies)
  PROVE  StreamInv'
<1> USE DEF StreamInv
<1>1. UNCHANGED <<lastDelivered, pel, idle, acked>>
  BY DEF Publish
<1>2. StreamTypeOK'
  BY <1>1, PublishAppends DEF StreamTypeOK
<1>3. NothingVanishes'
  <2> SUFFICES ASSUME NEW i \in 1 .. Len(entries'), i <= lastDelivered
               PROVE  i \in pel \/ i \in acked \/ i <= trimmed'
    <3>1. lastDelivered \in Nat /\ Len(entries') \in Nat
      BY PublishAppends DEF StreamTypeOK
    <3> QED BY <3>1, <1>1 DEF NothingVanishes, Ids
  <2>1. i \in Ids
    BY PublishAppends DEF Ids, StreamTypeOK
  <2>2. i \in pel \/ i \in acked \/ i <= trimmed
    BY <2>1 DEF NothingVanishes, StreamTypeOK
  <2> QED BY <2>2, PublishAppends DEF StreamTypeOK
<1> QED BY <1>2, <1>3

LEMMA ReadInv ==
  ASSUME StreamInv, Read
  PROVE  StreamInv'
<1> USE DEF StreamInv
<1>1. /\ lastDelivered' \in NextBatch
      /\ \A i \in NextBatch : i <= lastDelivered'
      /\ pel' = pel \cup NextBatch
      /\ UNCHANGED <<entries, trimmed, idle, acked>>
  BY DEF Read
<1>2. /\ lastDelivered' \in Ids
      /\ lastDelivered' > lastDelivered
      /\ lastDelivered' \in Nat /\ Len(entries) \in Nat
  BY <1>1, BatchIsUnread, IdsAreNat DEF Unread
<1>3. NextBatch \subseteq 1 .. lastDelivered'
  BY <1>1, <1>2, BatchIsUnread DEF Ids
<1>4. StreamTypeOK'
  BY <1>1, <1>2, <1>3 DEF StreamTypeOK, Ids
<1>5. NothingVanishes'
  <2> SUFFICES ASSUME NEW i \in Ids, i <= lastDelivered', i > trimmed, i \notin acked
               PROVE  i \in pel \/ i \in NextBatch
    BY <1>1, <1>2, IdsAreNat DEF NothingVanishes, Ids, StreamTypeOK
  <2>1. CASE i <= lastDelivered
    BY <2>1, IdsAreNat DEF NothingVanishes, StreamTypeOK
  <2>2. CASE i > lastDelivered
    <3>1. i \in Unread
      BY <2>2 DEF Unread
    <3>2. CASE i = lastDelivered'
      BY <3>2, <1>1
    <3>3. CASE i < lastDelivered'
      BY <3>1, <3>3, <1>1, BatchIsUnread, FirstNIsPrefix, StreamAssumption DEF NextBatch
    <3> QED BY <3>2, <3>3, <1>2, IdsAreNat
  <2> QED BY <2>1, <2>2, IdsAreNat DEF StreamTypeOK
<1> QED BY <1>4, <1>5

LEMMA AutoClaimInv ==
  ASSUME StreamInv, AutoClaim
  PROVE  StreamInv'
<1> USE DEF StreamInv
<1>1. /\ pel' = pel \ (Picked \ Claimed)
      /\ idle' = idle \ Picked
      /\ UNCHANGED <<entries, trimmed, lastDelivered, acked>>
  BY DEF AutoClaim
<1>2. StreamTypeOK'
  BY <1>1 DEF StreamTypeOK, Claimed
<1>3. \A i \in pel \ pel' : ~(i > trimmed)
  BY <1>1 DEF Claimed
<1>4. NothingVanishes'
  BY <1>1, <1>3, IdsAreNat DEF NothingVanishes, Ids, StreamTypeOK
<1> QED BY <1>2, <1>4

LEMMA XAckInv ==
  ASSUME StreamInv, NEW ids, XAck(ids)
  PROVE  StreamInv'
BY DEF StreamInv, StreamTypeOK, NothingVanishes, XAck, Ids

LEMMA AgeInv ==
  ASSUME StreamInv, NEW i, Age(i)
  PROVE  StreamInv'
BY DEF StreamInv, StreamTypeOK, NothingVanishes, Age, Ids

LEMMA StreamStepInv == StreamInv /\ [StreamNext]_streamVars => StreamInv'
<1> SUFFICES ASSUME StreamInv, [StreamNext]_streamVars PROVE StreamInv'
  OBVIOUS
<1>1. CASE UNCHANGED streamVars
  BY <1>1 DEF streamVars, StreamInv, StreamTypeOK, NothingVanishes, Ids
<1>2. ASSUME NEW k \in 1 .. MaxEntries, NEW bodies \in [1 .. k -> Body], Publish(bodies)
      PROVE  StreamInv'
  <2>1. bodies \in Seq(Body)
    BY StreamAssumption
  <2> QED BY <1>2, <2>1, PublishInv
<1>3. CASE Read
  BY <1>3, ReadInv
<1>4. CASE AutoClaim
  BY <1>4, AutoClaimInv
<1>5. ASSUME NEW ids, XAck(ids) PROVE StreamInv'
  BY <1>5, XAckInv
<1>6. ASSUME NEW i, Age(i) PROVE StreamInv'
  BY <1>6, AgeInv
<1> QED BY <1>1, <1>2, <1>3, <1>4, <1>5, <1>6 DEF StreamNext

\* The stream's state has its type, and no entry vanishes: each is waiting for
\* its first delivery, pending, acknowledged or trimmed (queue.go:46-48).
THEOREM StreamLosesNothing == StreamSpec => [](StreamTypeOK /\ NothingVanishes)
BY StreamInitInv, StreamStepInv, PTL DEF StreamSpec, StreamInv

=============================================================================
