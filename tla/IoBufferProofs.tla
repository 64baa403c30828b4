--------------------------- MODULE IoBufferProofs ---------------------------
(***************************************************************************)
(* What is proved of module IoBuffer, for buffers, replies and streams of  *)
(* any length.                                                             *)
(***************************************************************************)
EXTENDS IoBuffer, FiniteSetTheorems, SequenceTheorems, TLAPS

-----------------------------------------------------------------------------
(***************************************************************************)
(* The first end of line.                                                  *)
(***************************************************************************)
LEMMA MinIsLeast ==
  ASSUME NEW S \in SUBSET Nat, S # {}
  PROVE  Min(S) \in S /\ \A y \in S : Min(S) <= y
<1>. DEFINE R == OpToRel(<, Nat)
<1>1. IsWellFoundedOn(R, Nat)
  BY NatLessThanWellFounded
<1>2. \E x \in S : \A y \in S : ~(<<y, x>> \in R)
  <2>. HIDE DEF R
  <2>. QED  BY <1>1, WFMin
<1>3. \A x \in Nat, y \in Nat : ~(<<y, x>> \in R) => x <= y
  BY DEF OpToRel
<1>4. \E x \in S : \A y \in S : x <= y
  BY <1>2, <1>3
<1>. QED  BY <1>4 DEF Min

LEMMA EolFound ==
  ASSUME NEW b, Len(b) \in Nat
  PROVE  /\ Eol(b) \in 0..Len(b)
         /\ Eol(b) = 0 => \A i \in 1..Len(b) : b[i] # LF
         /\ Eol(b) > 0 => b[Eol(b)] = LF /\ \A i \in 1..Eol(b) - 1 : b[i] # LF
<1>. DEFINE I == {i \in 1..Len(b) : b[i] = LF}
<1>1. Eol(b) = IF I # {} THEN Min(I) ELSE 0
  BY DEF Eol, SelectInSeq
<1>2. I \in SUBSET Nat
  OBVIOUS
<1>3. CASE I = {}
  BY <1>1, <1>3
<1>4. CASE I # {}
  <2>1. Eol(b) \in I /\ \A y \in I : Eol(b) <= y
    BY <1>1, <1>2, <1>4, MinIsLeast
  <2>. QED  BY <2>1
<1>. QED  BY <1>3, <1>4

LEMMA ReplyEolFound ==
  ASSUME NEW b, Len(b) \in Nat
  PROVE  /\ ReplyEol(b) \in 0..Len(b)
         /\ ReplyEol(b) = 0 => \A i \in 1..Len(b) : ~b[i].eol
         /\ ReplyEol(b) > 0 => b[ReplyEol(b)].eol /\ \A i \in 1..ReplyEol(b) - 1 : ~b[i].eol
<1>. DEFINE I == {i \in 1..Len(b) : b[i].eol}
<1>1. ReplyEol(b) = IF I # {} THEN Min(I) ELSE 0
  BY DEF ReplyEol, SelectInSeq
<1>2. I \in SUBSET Nat
  OBVIOUS
<1>3. CASE I = {}
  BY <1>1, <1>3
<1>4. CASE I # {}
  <2>1. ReplyEol(b) \in I /\ \A y \in I : ReplyEol(b) <= y
    BY <1>1, <1>2, <1>4, MinIsLeast
  <2>. QED  BY <2>1
<1>. QED  BY <1>3, <1>4

-----------------------------------------------------------------------------
(***************************************************************************)
(* The reference: the ends of line of a stream.  LinesOf counts them; the  *)
(* proofs say where the k-th one is.                                       *)
(***************************************************************************)
Lfs(s, i) == {j \in 1..i : s[j] = LF}

IsEnd(s, k, i) ==
  IF k = 0 THEN i = 0 ELSE i \in 1..Len(s) /\ s[i] = LF /\ Cardinality(Lfs(s, i)) = k

LEMMA LfsFinite ==
  ASSUME NEW s, NEW i \in Nat
  PROVE  IsFiniteSet(Lfs(s, i)) /\ Cardinality(Lfs(s, i)) \in Nat
<1>1. IsFiniteSet(1..i) /\ Lfs(s, i) \in SUBSET (1..i)
  BY FS_Interval DEF Lfs
<1>. QED  BY <1>1, FS_Subset, FS_CardinalityType

(* One end of line more, and none before it, makes one more in all.        *)
LEMMA LfsNext ==
  ASSUME NEW s, NEW i \in Nat, NEW j \in Nat, i < j, s[j] = LF,
         \A x \in i+1..j-1 : s[x] # LF
  PROVE  Cardinality(Lfs(s, j)) = Cardinality(Lfs(s, i)) + 1
<1>1. Lfs(s, j) = Lfs(s, i) \union {j} /\ j \notin Lfs(s, i)
  BY DEF Lfs
<1>. QED  BY <1>1, LfsFinite, FS_AddElement

LEMMA LfsGrow ==
  ASSUME NEW s, NEW i \in Nat, NEW j \in Nat, i < j, s[j] = LF
  PROVE  Cardinality(Lfs(s, i)) < Cardinality(Lfs(s, j))
<1>1. /\ IsFiniteSet(Lfs(s, i)) /\ Cardinality(Lfs(s, i)) \in Nat
      /\ IsFiniteSet(Lfs(s, j)) /\ Cardinality(Lfs(s, j)) \in Nat
  BY LfsFinite
<1>2. Lfs(s, i) \in SUBSET Lfs(s, j) /\ j \in Lfs(s, j) /\ j \notin Lfs(s, i)
  BY DEF Lfs
<1>3. Cardinality(Lfs(s, i)) <= Cardinality(Lfs(s, j))
  BY <1>1, <1>2, FS_Subset
<1>4. Cardinality(Lfs(s, i)) # Cardinality(Lfs(s, j))
  BY <1>1, <1>2, FS_Subset
<1>. QED  BY <1>1, <1>3, <1>4

LEMMA LfCountIs ==
  ASSUME NEW S, NEW s \in Seq(S)
  PROVE  /\ LfCount(s) = Cardinality(Lfs(s, Len(s)))
         /\ \A i \in 0..Len(s) : LfCount(SubSeq(s, 1, i)) = Cardinality(Lfs(s, i))
<1>1. Len(s) \in Nat /\ DOMAIN s = 1..Len(s)
  BY LenProperties
<1>2. LfCount(s) = Cardinality(Lfs(s, Len(s)))
  BY <1>1 DEF LfCount, Lfs
<1>3. ASSUME NEW i \in 0..Len(s)
      PROVE  LfCount(SubSeq(s, 1, i)) = Cardinality(Lfs(s, i))
  <2>. DEFINE q == SubSeq(s, 1, i)
  <2>1. \A j \in 1..i : s[j] \in S
    BY <1>1, ElementOfSeq
  <2>2. q \in Seq(S) /\ Len(q) = i /\ \A j \in 1..i : q[j] = s[j]
    BY <1>1, <2>1, SubSeqProperties
  <2>3. DOMAIN q = 1..i
    BY <2>2, LenProperties
  <2>. HIDE DEF q
  <2>4. {j \in DOMAIN q : q[j] = LF} = Lfs(s, i)
    BY <2>2, <2>3 DEF Lfs
  <2>. QED  BY <2>4 DEF LfCount, q
<1>. QED  BY <1>2, <1>3

(* There is only one k-th end of line, so that End finds it.               *)
LEMMA EndIs ==
  ASSUME NEW S, NEW s \in Seq(S), NEW k \in Nat, NEW i, IsEnd(s, k, i)
  PROVE  End(s, k) = i
<1>1. CASE k = 0
  BY <1>1 DEF IsEnd, End
<1>2. CASE k # 0
  <2>. DEFINE P(x) == s[x] = LF /\ LfCount(SubSeq(s, 1, x)) = k
  <2>1. Len(s) \in Nat /\ DOMAIN s = 1..Len(s)
    BY LenProperties
  <2>2. i \in DOMAIN s /\ s[i] = LF /\ Cardinality(Lfs(s, i)) = k
    BY <1>2, <2>1 DEF IsEnd
  <2>3. P(i)
    BY <2>1, <2>2, LfCountIs
  <2>4. ASSUME NEW x \in DOMAIN s, P(x)
        PROVE  x = i
    <3>1. x \in Nat /\ i \in Nat /\ s[x] = LF /\ Cardinality(Lfs(s, x)) = k
      BY <2>1, <2>2, <2>4, LfCountIs
    <3>2. ~(x < i) /\ ~(i < x)
      BY <2>2, <3>1, LfsGrow
    <3>. QED  BY <3>1, <3>2
  <2>5. End(s, k) = CHOOSE x \in DOMAIN s : P(x)
    BY <1>2 DEF End
  <2>. HIDE DEF P
  <2>. QED  BY <2>2, <2>3, <2>4, <2>5
<1>. QED  BY <1>1, <1>2

(* What comes later moves no end of line.                                  *)
LEMMA EndStays ==
  ASSUME NEW S, NEW s \in Seq(S), NEW t \in Seq(S), NEW k \in Nat, NEW i, IsEnd(s, k, i)
  PROVE  IsEnd(s \o t, k, i)
<1>1. CASE k = 0
  BY <1>1 DEF IsEnd
<1>2. CASE k # 0
  <2>1. /\ Len(s) \in Nat /\ Len(t) \in Nat /\ Len(s \o t) = Len(s) + Len(t)
        /\ \A j \in 1..Len(s) : (s \o t)[j] = s[j]
    BY LenProperties, ConcatProperties
  <2>2. i \in 1..Len(s) /\ s[i] = LF /\ Cardinality(Lfs(s, i)) = k
    BY <1>2 DEF IsEnd
  <2>3. Lfs(s \o t, i) = Lfs(s, i)
    BY <2>1, <2>2 DEF Lfs
  <2>. QED  BY <1>2, <2>1, <2>2, <2>3 DEF IsEnd
<1>. QED  BY <1>1, <1>2

-----------------------------------------------------------------------------
(***************************************************************************)
(* The invariant of the proof.                                             *)
(***************************************************************************)

(* How many bytes have been taken out of the input buffer.                 *)
Taken == Len(received) - Len(input)

RoomInv ==
  /\ input \in Seq(Byte) /\ output \in Seq(ReplyByte)
  /\ before \in Byte
  /\ pc \in {"recv", "lines", "output", "closed", "full", "overrun"}
  /\ received \in Seq(Byte) /\ lines \in Seq(Seq(Byte))
  /\ replies \in Nat /\ sent \in Seq(ReplyByte)
  /\ Len(input) < Size /\ Len(output) <= Size

(* The buffer is the end of the stream, and has no end of line when the    *)
(* server is done with it.                                                 *)
InputInv ==
  /\ Len(input) <= Len(received)
  /\ \A i \in 1..Len(input) : input[i] = received[Taken + i]
  /\ pc \in {"recv", "output", "full"} => \A i \in 1..Len(input) : input[i] # LF
  /\ pc = "full" => Len(input) = Size - 1

(* The k-th command is what lies between two ends of line of the stream,   *)
(* and the buffer begins behind the last one.                              *)
LinesInv ==
  /\ IsEnd(received, Len(lines), Taken)
  /\ \A k \in 0..Len(lines) : IsEnd(received, k, End(received, k))
  /\ \A k \in 1..Len(lines) :
       lines[k] = Bare(SubSeq(received, End(received, k - 1) + 1, End(received, k) - 1))

(* Wherever one looks in the output buffer, a reply ends before the        *)
(* longest one would.                                                      *)
OutputWhole ==
  \A i \in 1..Len(output) :
    \E j \in i..Len(output) : j < i + LongestReply /\ output[j].eol

InOrder(s) == \A i, j \in 1..Len(s) : i < j => s[i].reply <= s[j].reply

(* The byte y may stand after x in the output buffer, and in what is sent. *)
Waits(x, y)  == SameReply(x, y) \/ (x.eol /\ LaterReply(x, y))
Leaves(x, y) == SameReply(x, y) \/ LaterReply(x, y)

RepliesInv ==
  /\ OutputWhole
  /\ InOrder(output)
  /\ Len(output) > 0 => output[1].at = 1
  /\ \A i \in 2..Len(output) : Waits(output[i-1], output[i])
  /\ Len(sent) > 0 => sent[1].at = 1
  /\ \A i \in 2..Len(sent) : Leaves(sent[i-1], sent[i])
  /\ \A i \in 1..Len(sent), j \in 1..Len(output) : sent[i].reply < output[j].reply
  /\ \A i \in 1..Len(output) : output[i].reply <= replies
  /\ \A i \in 1..Len(sent) : sent[i].reply <= replies

IoBufferInv == RoomInv /\ InputInv /\ LinesInv /\ RepliesInv

-----------------------------------------------------------------------------
(***************************************************************************)
(* The input buffer.                                                       *)
(***************************************************************************)
LEMMA SubSeqStays ==
  ASSUME NEW S, NEW s \in Seq(S), NEW t \in Seq(S), NEW a \in Nat \ {0}, NEW b \in 0..Len(s)
  PROVE  SubSeq(s \o t, a, b) = SubSeq(s, a, b)
<1>1. /\ Len(s) \in Nat /\ Len(t) \in Nat
      /\ \A j \in 1..Len(s) : (s \o t)[j] = s[j] /\ s[j] \in S
  BY LenProperties, ConcatProperties, ElementOfSeq
<1>2. /\ \A i \in a..b : s[i] \in S
      /\ \A i \in a..b : (s \o t)[i] \in S
      /\ a \in Int /\ b \in Int
  BY <1>1
<1>3. /\ SubSeq(s, a, b) \in Seq(S)
      /\ Len(SubSeq(s, a, b)) = IF a <= b THEN b-a+1 ELSE 0
      /\ \A i \in 1..b-a+1 : SubSeq(s, a, b)[i] = s[a+i-1]
  BY <1>2, SubSeqProperties
<1>4. /\ SubSeq(s \o t, a, b) \in Seq(S)
      /\ Len(SubSeq(s \o t, a, b)) = IF a <= b THEN b-a+1 ELSE 0
      /\ \A i \in 1..b-a+1 : SubSeq(s \o t, a, b)[i] = (s \o t)[a+i-1]
  BY <1>2, SubSeqProperties
<1>5. \A i \in 1..Len(SubSeq(s, a, b)) : SubSeq(s \o t, a, b)[i] = SubSeq(s, a, b)[i]
  BY <1>1, <1>3, <1>4
<1>. QED  BY <1>3, <1>4, <1>5, SeqEqual

LEMMA RecvStep ==
  ASSUME IoBufferInv, Recv
  PROVE  RoomInv' /\ InputInv' /\ LinesInv'
<1>1. /\ RoomInv /\ InputInv /\ LinesInv
      /\ input \in Seq(Byte) /\ received \in Seq(Byte)
      /\ Len(input) \in Nat /\ Len(received) \in Nat /\ Len(lines) \in Nat /\ Size \in Nat
  BY BufferAssumption, LenProperties DEF IoBufferInv, RoomInv
<1>2. PICK n \in 1..Remaining(input) :
         \E chunk \in [1..n -> Byte] : input' = input \o chunk /\ received' = received \o chunk
  BY DEF Recv
<1>3. PICK chunk \in [1..n -> Byte] : input' = input \o chunk /\ received' = received \o chunk
  BY <1>2
<1>4. /\ pc' = "lines" /\ lines' = lines /\ output' = output /\ before' = before
      /\ replies' = replies /\ sent' = sent
  BY DEF Recv
<1>5. n \in Nat /\ Len(input) + n < Size
  BY <1>1 DEF Remaining
<1>6. chunk \in Seq(Byte) /\ Len(chunk) = n
  <2>1. chunk \in Seq(Byte)
    BY <1>5, SeqDef
  <2>. QED  BY <1>5, <2>1
<1>7. /\ input' \in Seq(Byte) /\ Len(input') = Len(input) + n
      /\ \A i \in 1..Len(input) + n :
           input'[i] = IF i <= Len(input) THEN input[i] ELSE chunk[i - Len(input)]
  BY <1>1, <1>3, <1>6, ConcatProperties
<1>8. /\ received' \in Seq(Byte) /\ Len(received') = Len(received) + n
      /\ \A i \in 1..Len(received) + n :
           received'[i] = IF i <= Len(received) THEN received[i] ELSE chunk[i - Len(received)]
  BY <1>1, <1>3, <1>6, ConcatProperties
<1>9. Taken' = Taken /\ Taken \in Nat /\ Taken = Len(received) - Len(input)
  BY <1>1, <1>5, <1>7, <1>8 DEF Taken, InputInv
<1>10. RoomInv'
  BY <1>1, <1>4, <1>5, <1>7, <1>8 DEF RoomInv
<1>11. InputInv'
  <2>1. Len(input') <= Len(received')
    BY <1>1, <1>5, <1>7, <1>8 DEF InputInv
  <2>2. ASSUME NEW i \in 1..Len(input')
        PROVE  input'[i] = received'[Taken' + i]
    <3>1. i \in 1..Len(input) + n /\ Taken' + i = Len(received) - Len(input) + i
      BY <1>7, <1>9
    <3>2. CASE i <= Len(input)
      <4>1. Taken' + i \in 1..Len(received)
        BY <1>1, <1>9, <3>1, <3>2
      <4>2. received'[Taken' + i] = received[Taken + i]
        BY <1>1, <1>5, <1>8, <1>9, <4>1
      <4>3. input'[i] = input[i] /\ i \in 1..Len(input)
        BY <1>1, <1>7, <3>1, <3>2
      <4>. QED  BY <1>1, <4>2, <4>3 DEF InputInv
    <3>3. CASE ~(i <= Len(input))
      <4>. PICK x : x = Taken' + i
        OBVIOUS
      <4>1. x \in 1..Len(received) + n /\ ~(x <= Len(received))
            /\ x - Len(received) = i - Len(input)
        BY <1>1, <1>5, <1>9, <3>1, <3>3
      <4>2. received'[x] = chunk[x - Len(received)]
        BY <1>8, <4>1
      <4>3. received'[Taken' + i] = chunk[i - Len(input)]
        BY <4>1, <4>2
      <4>. QED  BY <1>7, <3>1, <3>3, <4>3
    <3>. QED  BY <3>2, <3>3
  <2>. QED  BY <1>4, <2>1, <2>2 DEF InputInv
<1>12. LinesInv'
  <2>1. ASSUME NEW k \in Nat, NEW i, IsEnd(received, k, i)
        PROVE  IsEnd(received', k, i) /\ End(received, k) = i /\ End(received', k) = i
    <3>1. IsEnd(received', k, i)
      BY <1>1, <1>3, <1>6, <2>1, EndStays
    <3>. QED  BY <1>1, <1>8, <2>1, <3>1, EndIs
  <2>2. \A k \in 0..Len(lines) :
           IsEnd(received', k, End(received', k)) /\ End(received', k) = End(received, k)
    BY <1>1, <2>1 DEF LinesInv
  <2>3. IsEnd(received', Len(lines'), Taken')
    BY <1>1, <1>4, <1>9, <2>1 DEF LinesInv
  <2>4. ASSUME NEW k \in 1..Len(lines)
        PROVE  SubSeq(received', End(received', k - 1) + 1, End(received', k) - 1)
                 = SubSeq(received, End(received, k - 1) + 1, End(received, k) - 1)
    <3>1. k - 1 \in 0..Len(lines) /\ k \in 0..Len(lines) /\ k # 0
      BY <1>1
    <3>2. End(received, k) \in 1..Len(received) /\ End(received, k - 1) \in Nat
      <4>1. IsEnd(received, k, End(received, k)) /\ IsEnd(received, k - 1, End(received, k - 1))
        BY <1>1, <3>1 DEF LinesInv
      <4>2. End(received, k) \in 1..Len(received)
        BY <3>1, <4>1 DEF IsEnd
      <4>3. k - 1 = 0 \/ k - 1 # 0
        OBVIOUS
      <4>4. End(received, k - 1) = 0 \/ End(received, k - 1) \in 1..Len(received)
        BY <4>1, <4>3, Zenon DEF IsEnd
      <4>. QED  BY <1>1, <4>2, <4>4
    <3>3. End(received, k - 1) + 1 \in Nat \ {0} /\ End(received, k) - 1 \in 0..Len(received)
      BY <1>1, <3>2
    <3>4. SubSeq(received \o chunk, End(received, k - 1) + 1, End(received, k) - 1)
            = SubSeq(received, End(received, k - 1) + 1, End(received, k) - 1)
      <4>1. PICK a \in Nat \ {0} : a = End(received, k - 1) + 1
        BY <3>3
      <4>2. PICK b \in 0..Len(received) : b = End(received, k) - 1
        BY <3>3
      <4>3. received \in Seq(Byte) /\ chunk \in Seq(Byte)
        BY <1>1, <1>6
      <4>4. SubSeq(received \o chunk, a, b) = SubSeq(received, a, b)
        BY <4>3, SubSeqStays
      <4>. QED  BY <4>1, <4>2, <4>4
    <3>. QED  BY <1>3, <2>2, <3>1, <3>4
  <2>5. \A k \in 1..Len(lines') :
          lines'[k] = Bare(SubSeq(received', End(received', k - 1) + 1, End(received', k) - 1))
    BY <1>1, <1>4, <2>4 DEF LinesInv
  <2>. QED  BY <1>4, <2>2, <2>3, <2>5 DEF LinesInv
<1>. QED  BY <1>10, <1>11, <1>12

-----------------------------------------------------------------------------
(* What is left behind the first line.                                     *)
LEMMA RestIs ==
  ASSUME NEW S, NEW b \in Seq(S), NEW e \in 1..Len(b)
  PROVE  /\ Rest(b, e) \in Seq(S) /\ Len(Rest(b, e)) = Len(b) - e
         /\ \A i \in 1..Len(b) - e : Rest(b, e)[i] = b[e + i]
<1>1. Len(b) \in Nat /\ \A i \in e+1..Len(b) : b[i] \in S
  BY LenProperties, ElementOfSeq
<1>2. e + 1 \in Int /\ Len(b) \in Int
  BY <1>1
<1>3. /\ SubSeq(b, e+1, Len(b)) \in Seq(S)
      /\ Len(SubSeq(b, e+1, Len(b))) = IF e+1 <= Len(b) THEN Len(b)-(e+1)+1 ELSE 0
      /\ \A i \in 1..Len(b)-(e+1)+1 : SubSeq(b, e+1, Len(b))[i] = b[e+1+i-1]
  BY <1>1, <1>2, SubSeqProperties
<1>. QED  BY <1>1, <1>3 DEF Rest

(* calculate_bytes_to_copy() leaves off the end of line, CR LF or LF.      *)
LEMMA CopiedIsBare ==
  ASSUME NEW b \in Seq(Byte), Eol(b) > 0, BytesToCopy(b) >= 0
  PROVE  /\ SubSeq(b, 1, BytesToCopy(b)) \in Seq(Byte)
         /\ SubSeq(b, 1, BytesToCopy(b)) = Bare(SubSeq(b, 1, Eol(b) - 1))
<1>. DEFINE e == Eol(b)
            w == SubSeq(b, 1, e - 1)
<1>1. Len(b) \in Nat /\ e \in 1..Len(b) /\ \A i \in 1..Len(b) : b[i] \in Byte
  BY LenProperties, EolFound, ElementOfSeq
<1>2. ASSUME NEW m \in 0..Len(b)
      PROVE  /\ SubSeq(b, 1, m) \in Seq(Byte) /\ Len(SubSeq(b, 1, m)) = m
             /\ \A i \in 1..m : SubSeq(b, 1, m)[i] = b[i]
  <2>1. \A i \in 1..m : b[i] \in Byte
    BY <1>1
  <2>2. /\ SubSeq(b, 1, m) \in Seq(Byte)
        /\ Len(SubSeq(b, 1, m)) = IF 1 <= m THEN m - 1 + 1 ELSE 0
        /\ \A i \in 1..m - 1 + 1 : SubSeq(b, 1, m)[i] = b[1 + i - 1]
    BY <2>1, SubSeqProperties
  <2>. QED  BY <1>1, <2>2
<1>. HIDE DEF e
<1>3. w \in Seq(Byte) /\ Len(w) = e - 1 /\ \A i \in 1..e - 1 : w[i] = b[i]
  <2>1. e - 1 \in 0..Len(b)
    BY <1>1
  <2>. QED  BY <1>2, <2>1
<1>4. BytesToCopy(b) = IF HasCr(b) THEN e - 2 ELSE e - 1
  BY DEF BytesToCopy, e
<1>5. HasCr(b) <=> IF e = 1 THEN before = CR ELSE b[e - 1] = CR
  BY DEF HasCr, e
<1>. HIDE DEF w
<1>6. CASE e = 1
  <2>1. ~HasCr(b)
    BY <1>4, <1>6
  <2>2. w = <<>>
    BY <1>3, <1>6, EmptySeq
  <2>3. BytesToCopy(b) = e - 1
    BY <1>4, <2>1
  <2>4. Bare(w) = w
    BY <2>2 DEF Bare
  <2>. QED  BY <1>3, <2>3, <2>4 DEF w, e
<1>7. CASE e # 1 /\ ~HasCr(b)
  <2>1. w # <<>> /\ Last(w) = b[e - 1] /\ b[e - 1] # CR
    BY <1>1, <1>3, <1>5, <1>7, EmptySeq DEF Last
  <2>2. Bare(w) = w
    BY <2>1 DEF Bare
  <2>3. BytesToCopy(b) = e - 1
    BY <1>4, <1>7
  <2>. QED  BY <1>3, <2>2, <2>3 DEF w, e
<1>8. CASE e # 1 /\ HasCr(b)
  <2>1. w # <<>> /\ Last(w) = b[e - 1] /\ b[e - 1] = CR
    BY <1>1, <1>3, <1>5, <1>8, EmptySeq DEF Last
  <2>2. Bare(w) = SubSeq(w, 1, e - 2)
    <3>1. Bare(w) = SubSeq(w, 1, Len(w) - 1) /\ Len(w) - 1 = e - 2
      BY <1>1, <1>3, <2>1 DEF Bare, Front
    <3>. QED  BY <3>1
  <2>3. BytesToCopy(b) = e - 2 /\ e - 2 \in 0..Len(b)
    BY <1>1, <1>4, <1>8
  <2>4. /\ SubSeq(b, 1, e - 2) \in Seq(Byte) /\ Len(SubSeq(b, 1, e - 2)) = e - 2
        /\ \A i \in 1..e - 2 : SubSeq(b, 1, e - 2)[i] = b[i]
    BY <1>2, <2>3
  <2>5. /\ SubSeq(w, 1, e - 2) \in Seq(Byte) /\ Len(SubSeq(w, 1, e - 2)) = e - 2
        /\ \A i \in 1..e - 2 : SubSeq(w, 1, e - 2)[i] = w[i]
    <3>1. \A i \in 1..e - 2 : w[i] \in Byte
      BY <1>1, <1>3
    <3>2. /\ SubSeq(w, 1, e - 2) \in Seq(Byte)
          /\ Len(SubSeq(w, 1, e - 2)) = IF 1 <= e - 2 THEN e - 2 - 1 + 1 ELSE 0
          /\ \A i \in 1..e - 2 - 1 + 1 : SubSeq(w, 1, e - 2)[i] = w[1 + i - 1]
      BY <1>1, <3>1, SubSeqProperties
    <3>. QED  BY <1>1, <2>3, <3>2
  <2>6. \A i \in 1..e - 2 : SubSeq(b, 1, e - 2)[i] = SubSeq(w, 1, e - 2)[i]
    BY <1>1, <1>3, <2>4, <2>5
  <2>7. SubSeq(b, 1, e - 2) = SubSeq(w, 1, e - 2)
    BY <2>4, <2>5, <2>6, SeqEqual
  <2>. QED  BY <2>2, <2>3, <2>4, <2>7 DEF w, e
<1>. QED  BY <1>6, <1>7, <1>8

(* A line is taken out of the buffer, and it is the next of the stream.    *)
LEMMA TakeLine ==
  ASSUME IoBufferInv, Take, pc' = pc
  PROVE  /\ input' \in Seq(Byte) /\ Len(input') < Size /\ lines' \in Seq(Seq(Byte))
         /\ InputInv' /\ LinesInv'
<1>. DEFINE e == Eol(input)
            n == Len(lines)
            line == SubSeq(input, 1, BytesToCopy(input))
<1>1. /\ RoomInv /\ InputInv /\ LinesInv
      /\ input \in Seq(Byte) /\ received \in Seq(Byte) /\ lines \in Seq(Seq(Byte))
      /\ Len(input) \in Nat /\ Len(received) \in Nat /\ n \in Nat /\ Size \in Nat
      /\ Len(input) < Size
  BY BufferAssumption, LenProperties DEF IoBufferInv, RoomInv
<1>2. /\ pc = "lines" /\ e > 0 /\ BytesToCopy(input) >= 0 /\ received' = received
      /\ lines' = Append(lines, line) /\ input' = Rest(input, e)
  BY DEF Take
<1>3. e \in 1..Len(input) /\ input[e] = LF /\ \A i \in 1..e - 1 : input[i] # LF
  BY <1>1, <1>2, EolFound
<1>4. line \in Seq(Byte) /\ line = Bare(SubSeq(input, 1, e - 1))
  BY <1>1, <1>2, CopiedIsBare
<1>. HIDE DEF e, line
<1>5. /\ input' \in Seq(Byte) /\ Len(input') = Len(input) - e
      /\ \A i \in 1..Len(input) - e : input'[i] = input[e + i]
  BY <1>1, <1>2, <1>3, RestIs
<1>6. /\ lines' \in Seq(Seq(Byte)) /\ Len(lines') = n + 1 /\ lines'[n + 1] = line
      /\ \A i \in 1..n : lines'[i] = lines[i]
  BY <1>1, <1>2, <1>4, AppendProperties
<1>7. /\ Taken = Len(received) - Len(input) /\ Taken \in Nat /\ Taken' = Taken + e
      /\ Taken + e \in 1..Len(received)
  BY <1>1, <1>2, <1>3, <1>5 DEF Taken, InputInv
<1>8. PICK t : t = Taken
  OBVIOUS
<1>9. t \in Nat /\ Taken' = t + e /\ t + e \in 1..Len(received) /\ t + Len(input) = Len(received)
  BY <1>1, <1>7, <1>8
<1>10. \A i \in 1..Len(input) : input[i] = received[t + i]
  BY <1>1, <1>8 DEF InputInv
<1>11. InputInv'
  <2>1. \A i \in 1..Len(input') : input'[i] = received'[Taken' + i]
    <3>1. ASSUME NEW i \in 1..Len(input')
          PROVE  input'[i] = received'[Taken' + i]
      <4>1. i \in 1..Len(input) - e /\ e + i \in 1..Len(input) /\ Taken' + i = t + (e + i)
        BY <1>1, <1>3, <1>5, <1>9
      <4>2. input'[i] = input[e + i] /\ input[e + i] = received[t + (e + i)]
        BY <1>5, <1>10, <4>1
      <4>. QED  BY <1>2, <4>1, <4>2
    <3>. QED  BY <3>1
  <2>2. Len(input') <= Len(received')
    BY <1>1, <1>2, <1>3, <1>5, <1>9
  <2>3. pc' = "lines"
    BY <1>2
  <2>. QED  BY <2>1, <2>2, <2>3 DEF InputInv
<1>12. IsEnd(received, n, t) /\ \A k \in 0..n : IsEnd(received, k, End(received, k))
  BY <1>1, <1>8 DEF LinesInv
<1>13. Cardinality(Lfs(received, t)) = n
  <2>1. CASE n = 0
    <3>1. t = 0
      BY <1>12, <2>1 DEF IsEnd
    <3>2. Lfs(received, t) = {}
      BY <3>1 DEF Lfs
    <3>. QED  BY <2>1, <3>2, FS_EmptySet
  <2>2. CASE n # 0
    BY <1>12, <2>2, Zenon DEF IsEnd
  <2>. QED  BY <2>1, <2>2
<1>14. IsEnd(received, n + 1, t + e)
  <2>1. received[t + e] = LF
    BY <1>1, <1>3, <1>10
  <2>2. \A x \in t+1..t+e-1 : received[x] # LF
    <3>1. ASSUME NEW x \in t+1..t+e-1
          PROVE  received[x] # LF
      <4>1. x - t \in 1..e - 1 /\ x - t \in 1..Len(input) /\ t + (x - t) = x
        BY <1>1, <1>3, <1>9
      <4>2. input[x - t] # LF /\ input[x - t] = received[t + (x - t)]
        BY <1>3, <1>10, <4>1
      <4>. QED  BY <4>1, <4>2
    <3>. QED  BY <3>1
  <2>3. Cardinality(Lfs(received, t + e)) = Cardinality(Lfs(received, t)) + 1
    <3>1. t \in Nat /\ t + e \in Nat /\ t < t + e
      BY <1>3, <1>9
    <3>2. PICK u : u = t + e
      OBVIOUS
    <3>3. u \in Nat /\ t < u /\ received[u] = LF /\ \A x \in t+1..u-1 : received[x] # LF
      BY <1>3, <2>1, <2>2, <3>1, <3>2
    <3>4. Cardinality(Lfs(received, u)) = Cardinality(Lfs(received, t)) + 1
      BY <3>1, <3>3, LfsNext
    <3>. QED  BY <3>2, <3>4
  <2>. QED  BY <1>1, <1>9, <1>13, <2>1, <2>3 DEF IsEnd
<1>15. End(received, n + 1) = t + e /\ End(received, n) = t
  BY <1>1, <1>12, <1>14, EndIs
<1>16. line = Bare(SubSeq(received, t + 1, t + e - 1))
  <2>1. /\ \A i \in 1..e - 1 : input[i] \in Byte /\ input[i] = received[t + i]
        /\ \A i \in t + 1..t + e - 1 : received[i] \in Byte
    <3>1. \A i \in 1..Len(input) : input[i] \in Byte
      BY <1>1, ElementOfSeq
    <3>2. \A i \in 1..Len(received) : received[i] \in Byte
      BY <1>1, ElementOfSeq
    <3>. QED  BY <1>1, <1>3, <1>9, <1>10, <3>1, <3>2
  <2>2. 1 \in Int /\ e - 1 \in Int
    BY <1>3, <1>9
  <2>. PICK a, b : a = t + 1 /\ b = t + e - 1
    OBVIOUS
  <2>3. /\ SubSeq(input, 1, e - 1) \in Seq(Byte)
        /\ Len(SubSeq(input, 1, e - 1)) = IF 1 <= e - 1 THEN e - 1 - 1 + 1 ELSE 0
        /\ \A i \in 1..e - 1 - 1 + 1 : SubSeq(input, 1, e - 1)[i] = input[1 + i - 1]
    BY <2>1, <2>2, SubSeqProperties
  <2>4. /\ SubSeq(received, a, b) \in Seq(Byte)
        /\ Len(SubSeq(received, a, b)) = IF a <= b THEN b - a + 1 ELSE 0
        /\ \A i \in 1..b - a + 1 : SubSeq(received, a, b)[i] = received[a + i - 1]
    <3>1. a \in Int /\ b \in Int /\ \A i \in a..b : received[i] \in Byte
      BY <1>3, <1>9, <2>1
    <3>. QED  BY <3>1, SubSeqProperties
  <2>5. /\ Len(SubSeq(input, 1, e - 1)) = e - 1
        /\ Len(SubSeq(received, a, b)) = e - 1
    BY <1>3, <1>9, <2>3, <2>4
  <2>6. \A i \in 1..e - 1 : SubSeq(input, 1, e - 1)[i] = SubSeq(received, a, b)[i]
    <3>1. ASSUME NEW i \in 1..e - 1
          PROVE  SubSeq(input, 1, e - 1)[i] = SubSeq(received, a, b)[i]
      <4>1. /\ i \in 1..e - 1 - 1 + 1 /\ i \in 1..b - a + 1
            /\ 1 + i - 1 = i /\ a + i - 1 = t + i
        BY <1>3, <1>9
      <4>. QED  BY <2>1, <2>3, <2>4, <4>1
    <3>. QED  BY <3>1
  <2>7. SubSeq(input, 1, e - 1) = SubSeq(received, a, b)
    BY <2>3, <2>4, <2>5, <2>6, SeqEqual
  <2>. QED  BY <1>4, <2>7
<1>17. LinesInv'
  <2>1. IsEnd(received', Len(lines'), Taken')
    BY <1>2, <1>6, <1>9, <1>14
  <2>2. ASSUME NEW k \in 0..Len(lines')
        PROVE  IsEnd(received', k, End(received', k))
    <3>1. CASE k = n + 1
      BY <1>2, <1>14, <1>15, <3>1
    <3>2. CASE k # n + 1
      <4>1. k \in 0..n
        BY <1>1, <1>6, <3>2
      <4>. QED  BY <1>2, <1>12, <4>1
    <3>. QED  BY <3>1, <3>2
  <2>3. ASSUME NEW k \in 1..Len(lines')
        PROVE  lines'[k] = Bare(SubSeq(received', End(received', k - 1) + 1, End(received', k) - 1))
    <3>1. CASE k = n + 1
      <4>1. k - 1 = n
        BY <1>1, <3>1
      <4>2. End(received', k - 1) = t /\ End(received', k) = t + e
        BY <1>2, <1>15, <3>1, <4>1
      <4>3. lines'[k] = line
        BY <1>6, <3>1
      <4>4. received' = received
        BY <1>2
      <4>5. PICK a, b : a = End(received', k - 1) /\ b = End(received', k)
        OBVIOUS
      <4>6. lines'[k] = Bare(SubSeq(received, a + 1, b - 1))
        <5>1. a = t /\ b = t + e
          BY <4>2, <4>5
        <5>2. b - 1 = t + e - 1
          BY <1>3, <1>9, <5>1
        <5>3. lines'[k] = Bare(SubSeq(received, t + 1, t + e - 1))
          BY <1>16, <4>3
        <5>4. lines'[k] = Bare(SubSeq(received, t + 1, b - 1))
          BY <5>2, <5>3, Zenon
        <5>. QED  BY <5>1, <5>4, Zenon
      <4>. QED  BY <4>4, <4>5, <4>6
    <3>2. CASE k # n + 1
      <4>1. k \in 1..n
        BY <1>1, <1>6, <3>2
      <4>2. lines[k] = Bare(SubSeq(received, End(received, k - 1) + 1, End(received, k) - 1))
        BY <1>1, <4>1 DEF LinesInv
      <4>. QED  BY <1>2, <1>6, <4>1, <4>2
    <3>. QED  BY <3>1, <3>2
  <2>. QED  BY <2>1, <2>2, <2>3 DEF LinesInv
<1>. QED  BY <1>1, <1>3, <1>5, <1>6, <1>11, <1>17

-----------------------------------------------------------------------------
(***************************************************************************)
(* The output buffer.                                                      *)
(***************************************************************************)

(* A reply is appended whole or not at all.                                *)
LEMMA AppendReply ==
  ASSUME IoBufferInv, NEW n \in 2..LongestReply, sent' = sent,
         replies' = replies + 1, output' = AppendAll(output, ReplyBytes(replies + 1, n))
  PROVE  /\ output' \in Seq(ReplyByte) /\ Len(output') <= Size /\ replies' \in Nat
         /\ RepliesInv'
<1>. DEFINE r == ReplyBytes(replies + 1, n)
            m == Len(output)
<1>1. /\ RoomInv /\ RepliesInv /\ output \in Seq(ReplyByte) /\ m \in Nat /\ m <= Size
      /\ sent \in Seq(ReplyByte) /\ Len(sent) \in Nat
      /\ replies \in Nat /\ n \in Nat /\ 2 <= n /\ n <= LongestReply /\ LongestReply \in Nat
      /\ Size \in Nat
  BY BufferAssumption, LenProperties DEF IoBufferInv, RoomInv
<1>2. /\ \A i \in 1..m : output[i].reply \in Nat /\ output[i].reply <= replies
      /\ \A i \in 1..Len(sent) : sent[i].reply \in Nat /\ sent[i].reply <= replies
  <2>1. /\ \A i \in 1..m : output[i] \in ReplyByte
        /\ \A i \in 1..Len(sent) : sent[i] \in ReplyByte
    BY <1>1, ElementOfSeq
  <2>. QED  BY <1>1, <2>1 DEF ReplyByte, RepliesInv
<1>3. /\ r \in Seq(ReplyByte) /\ Len(r) = n
      /\ \A i \in 1..n : r[i].reply = replies + 1 /\ r[i].at = i /\ (r[i].eol <=> i = n)
  <2>1. r = [i \in 1..n |-> [reply |-> replies + 1, at |-> i, eol |-> i = n]]
    BY DEF ReplyBytes
  <2>2. \A i \in 1..n : [reply |-> replies + 1, at |-> i, eol |-> i = n] \in ReplyByte
    BY <1>1 DEF ReplyByte
  <2>3. r \in [1..n -> ReplyByte]
    BY <2>1, <2>2
  <2>4. r \in Seq(ReplyByte)
    BY <1>1, <2>3, SeqDef
  <2>5. Len(r) = n
    BY <1>1, <2>3, <2>4, LenProperties
  <2>6. \A i \in 1..n : r[i] = [reply |-> replies + 1, at |-> i, eol |-> i = n]
    BY <2>1
  <2>. HIDE DEF r
  <2>7. ASSUME NEW i \in 1..n
        PROVE  r[i].reply = replies + 1 /\ r[i].at = i /\ (r[i].eol <=> i = n)
    <3>1. PICK x : x = [reply |-> replies + 1, at |-> i, eol |-> i = n]
      OBVIOUS
    <3>2. r[i] = x
      BY <2>6, <3>1, Zenon
    <3>3. x.reply = replies + 1 /\ x.at = i /\ x.eol = (i = n)
      BY <3>1
    <3>. QED  BY <3>2, <3>3
  <2>. QED  BY <2>4, <2>5, <2>7
<1>. HIDE DEF r
<1>4. CASE m + n > Size
  <2>1. output' = output
    BY <1>1, <1>3, <1>4 DEF AppendAll, r
  <2>2. \A i \in 1..m : output[i].reply <= replies + 1
    BY <1>1, <1>2
  <2>3. \A i \in 1..Len(sent) : sent[i].reply <= replies + 1
    BY <1>1, <1>2
  <2>. QED  BY <1>1, <2>1, <2>2, <2>3 DEF RepliesInv, OutputWhole, InOrder
<1>5. CASE m + n <= Size
  <2>1. output' = output \o r
    BY <1>1, <1>3, <1>5 DEF AppendAll, r
  <2>2. /\ output' \in Seq(ReplyByte) /\ Len(output') = m + n
        /\ \A i \in 1..m + n : output'[i] = IF i <= m THEN output[i] ELSE r[i - m]
    <3>1. /\ output \o r \in Seq(ReplyByte) /\ Len(output \o r) = Len(output) + Len(r)
          /\ \A i \in 1..Len(output) + Len(r) :
               (output \o r)[i] = IF i <= Len(output) THEN output[i] ELSE r[i - Len(output)]
      <4>1. PICK w : w = output
        OBVIOUS
      <4>2. PICK x : x = r
        OBVIOUS
      <4>3. w \in Seq(ReplyByte) /\ x \in Seq(ReplyByte)
        BY <1>1, <1>3, <4>1, <4>2
      <4>4. /\ w \o x \in Seq(ReplyByte) /\ Len(w \o x) = Len(w) + Len(x)
            /\ \A i \in 1..Len(w) + Len(x) :
                 (w \o x)[i] = IF i <= Len(w) THEN w[i] ELSE x[i - Len(w)]
        BY <4>3, ConcatProperties
      <4>. QED  BY <4>1, <4>2, <4>4, Zenon
    <3>. QED  BY <1>3, <2>1, <3>1
  <2>3. ASSUME NEW i \in 1..m + n, i <= m
        PROVE  i \in 1..m /\ output'[i] = output[i]
    BY <1>1, <2>2, <2>3
  <2>4. ASSUME NEW i \in 1..m + n, ~(i <= m)
        PROVE  /\ i - m \in 1..n /\ output'[i].reply = replies + 1
               /\ output'[i].at = i - m
               /\ output'[i].eol <=> i = m + n
    <3>1. i - m \in 1..n /\ (i - m = n <=> i = m + n)
      BY <1>1, <2>4
    <3>2. output'[i] = r[i - m]
      BY <2>2, <2>4
    <3>3. r[i - m].reply = replies + 1 /\ r[i - m].at = i - m /\ (r[i - m].eol <=> i - m = n)
      BY <1>3, <3>1
    <3>. QED  BY <3>1, <3>2, <3>3, Zenon
  <2>5. OutputWhole'
    <3>1. ASSUME NEW i \in 1..m + n
          PROVE  \E j \in i..m + n : j < i + LongestReply /\ output'[j].eol
      <4>1. CASE i <= m
        <5>1. PICK j \in i..m : j < i + LongestReply /\ output[j].eol
          BY <1>1, <2>3, <4>1 DEF RepliesInv, OutputWhole
        <5>2. j \in i..m + n /\ j \in 1..m + n /\ j <= m
          BY <1>1, <4>1
        <5>. QED  BY <2>3, <5>1, <5>2
      <4>2. CASE ~(i <= m)
        <5>1. m + n \in i..m + n /\ m + n \in 1..m + n /\ ~(m + n <= m) /\ m + n < i + LongestReply
          BY <1>1, <4>2
        <5>2. output'[m + n].eol
          BY <2>4, <5>1
        <5>. QED  BY <5>1, <5>2
      <4>. QED  BY <4>1, <4>2
    <3>. QED  BY <2>2, <3>1 DEF OutputWhole
  <2>6. \A i \in 1..m + n : output'[i].reply <= replies + 1 /\ output'[i].reply \in Nat
    BY <1>1, <1>2, <2>3, <2>4
  <2>7. InOrder(output')
    <3>1. ASSUME NEW i \in 1..m + n, NEW j \in 1..m + n, i < j
          PROVE  output'[i].reply <= output'[j].reply
      <4>1. CASE j <= m
        <5>1. i <= m
          BY <1>1, <3>1, <4>1
        <5>. QED  BY <1>1, <2>3, <3>1, <4>1, <5>1 DEF RepliesInv, InOrder
      <4>2. CASE ~(j <= m)
        BY <1>1, <2>4, <2>6, <4>2
      <4>. QED  BY <4>1, <4>2
    <3>. QED  BY <2>2, <3>1 DEF InOrder
  <2>8. \A i \in 1..Len(sent), j \in 1..m + n : sent[i].reply < output'[j].reply
    <3>1. ASSUME NEW i \in 1..Len(sent), NEW j \in 1..m + n
          PROVE  sent[i].reply < output'[j].reply
      <4>1. CASE j <= m
        BY <1>1, <2>3, <4>1 DEF RepliesInv
      <4>2. CASE ~(j <= m)
        BY <1>1, <1>2, <2>4, <4>2
      <4>. QED  BY <4>1, <4>2
    <3>. QED  BY <3>1
  <2>9. ASSUME NEW i \in 2..m + n
        PROVE  Waits(output'[i-1], output'[i])
    <3>1. i \in 1..m + n /\ i - 1 \in 1..m + n
      BY <1>1
    <3>2. CASE i <= m
      <4>1. i \in 2..m /\ i - 1 <= m
        BY <1>1, <3>2
      <4>2. output'[i] = output[i] /\ output'[i-1] = output[i-1]
        BY <2>3, <3>1, <3>2, <4>1
      <4>3. Waits(output[i-1], output[i])
        BY <1>1, <4>1 DEF RepliesInv
      <4>. QED  BY <4>2, <4>3
    <3>3. CASE i - 1 = m
      <4>1. m \in 1..m /\ m \in 1..m + n /\ m <= m /\ ~(i <= m) /\ i - m = 1
        BY <1>1, <3>1, <3>3
      <4>2. PICK j \in m..m : j < m + LongestReply /\ output[j].eol
        BY <1>1, <4>1 DEF RepliesInv, OutputWhole
      <4>3. j = m
        BY <1>1
      <4>4. output'[i-1] = output[m] /\ output[m].eol
        BY <2>3, <3>3, <4>1, <4>2, <4>3
      <4>5. output'[i].reply = replies + 1 /\ output'[i].at = 1
        BY <2>4, <3>1, <4>1
      <4>6. output[m].reply < replies + 1
        BY <1>1, <1>2, <4>1
      <4>7. LaterReply(output'[i-1], output'[i])
        BY <1>1, <1>2, <4>1, <4>4, <4>5, <4>6 DEF LaterReply
      <4>. QED  BY <4>4, <4>7 DEF Waits
    <3>4. CASE ~(i - 1 <= m)
      <4>1. ~(i <= m) /\ i - m = (i - 1) - m + 1 /\ i - 1 # m + n
        BY <1>1, <3>1, <3>4
      <4>2. /\ output'[i].reply = replies + 1 /\ output'[i-1].reply = replies + 1
            /\ output'[i].at = i - m /\ output'[i-1].at = (i - 1) - m /\ ~output'[i-1].eol
        BY <2>4, <3>1, <3>4, <4>1
      <4>3. SameReply(output'[i-1], output'[i])
        BY <4>1, <4>2, Zenon DEF SameReply
      <4>. QED  BY <4>3 DEF Waits
    <3>. QED  BY <1>1, <3>1, <3>2, <3>3, <3>4
  <2>10. \A i \in 1..Len(sent) : sent[i].reply <= replies + 1
    BY <1>1, <1>2
  <2>11. output'[1].at = 1
    <3>1. 1 \in 1..m + n
      BY <1>1
    <3>2. CASE 1 <= m
      BY <1>1, <2>3, <3>1, <3>2 DEF RepliesInv
    <3>3. CASE ~(1 <= m)
      <4>1. 1 - m = 1
        BY <1>1, <3>3
      <4>. QED  BY <2>4, <3>1, <3>3, <4>1
    <3>. QED  BY <3>2, <3>3
  <2>12. /\ Len(sent') > 0 => sent'[1].at = 1
         /\ \A i \in 2..Len(sent') : Leaves(sent'[i-1], sent'[i])
    BY <1>1 DEF RepliesInv
  <2>. QED
    BY <1>1, <1>5, <2>2, <2>5, <2>6, <2>7, <2>8, <2>9, <2>10, <2>11, <2>12 DEF RepliesInv
<1>. QED  BY <1>1, <1>4, <1>5

(* The first reply leaves, or part of it; the others stay as they are.     *)
LEMMA FlushStep ==
  ASSUME IoBufferInv, Flush
  PROVE  /\ output' \in Seq(ReplyByte) /\ Len(output') <= Size /\ sent' \in Seq(ReplyByte)
         /\ RepliesInv'
<1>. DEFINE e == ReplyEol(output)
            m == Len(output)
            k == Len(sent)
<1>1. /\ RoomInv /\ RepliesInv /\ output \in Seq(ReplyByte) /\ m \in Nat /\ m <= Size
      /\ sent \in Seq(ReplyByte) /\ k \in Nat /\ Size \in Nat /\ replies \in Nat
      /\ LongestReply \in Nat
  BY BufferAssumption, LenProperties DEF IoBufferInv, RoomInv
<1>2. e \in 1..m /\ output' = Rest(output, e) /\ replies' = replies
  BY <1>1, ReplyEolFound DEF Flush
<1>3. PICK n \in 0..e : sent' = sent \o SubSeq(output, 1, n)
  BY DEF Flush
<1>15. output[e].eol
  BY <1>1, <1>2, ReplyEolFound
<1>18. /\ \A x \in 1..m : output[x].reply \in Nat
       /\ \A x \in 1..k : sent[x].reply \in Nat
  <2>1. /\ \A x \in 1..m : output[x] \in ReplyByte
        /\ \A x \in 1..k : sent[x] \in ReplyByte
    BY <1>1, ElementOfSeq
  <2>. QED  BY <2>1 DEF ReplyByte
<1>. HIDE DEF e
<1>4. /\ output' \in Seq(ReplyByte) /\ Len(output') = m - e
      /\ \A i \in 1..m - e : output'[i] = output[e + i]
  BY <1>1, <1>2, RestIs
<1>5. /\ SubSeq(output, 1, n) \in Seq(ReplyByte) /\ Len(SubSeq(output, 1, n)) = n
      /\ \A i \in 1..n : SubSeq(output, 1, n)[i] = output[i]
  <2>1. \A i \in 1..n : output[i] \in ReplyByte
    BY <1>1, <1>2, ElementOfSeq
  <2>2. 1 \in Int /\ n \in Int
    BY <1>2
  <2>3. /\ SubSeq(output, 1, n) \in Seq(ReplyByte)
        /\ Len(SubSeq(output, 1, n)) = IF 1 <= n THEN n - 1 + 1 ELSE 0
        /\ \A i \in 1..n - 1 + 1 : SubSeq(output, 1, n)[i] = output[1 + i - 1]
    BY <2>1, <2>2, SubSeqProperties
  <2>. QED  BY <1>2, <2>3
<1>6. /\ sent' \in Seq(ReplyByte) /\ Len(sent') = k + n
      /\ \A i \in 1..k + n : sent'[i] = IF i <= k THEN sent[i] ELSE SubSeq(output, 1, n)[i - k]
  BY <1>1, <1>3, <1>5, ConcatProperties
<1>7. ASSUME NEW i \in 1..m - e
      PROVE  e + i \in 1..m /\ output'[i] = output[e + i]
  BY <1>1, <1>2, <1>4
<1>8. ASSUME NEW i \in 1..k + n
      PROVE  \/ i \in 1..k /\ sent'[i] = sent[i]
             \/ ~(i <= k) /\ i - k \in 1..n /\ i - k \in 1..m /\ sent'[i] = output[i - k]
  <2>1. CASE i <= k
    BY <1>1, <1>6, <2>1
  <2>2. CASE ~(i <= k)
    <3>1. i - k \in 1..n /\ i - k \in 1..m
      BY <1>1, <1>2, <2>2
    <3>2. sent'[i] = SubSeq(output, 1, n)[i - k]
      BY <1>6, <2>2
    <3>. QED  BY <1>5, <2>2, <3>1, <3>2
  <2>. QED  BY <2>1, <2>2
<1>9. OutputWhole'
  <2>1. ASSUME NEW i \in 1..m - e
        PROVE  \E j \in i..m - e : j < i + LongestReply /\ output'[j].eol
    <3>1. PICK j \in e + i..m : j < e + i + LongestReply /\ output[j].eol
      BY <1>1, <1>7 DEF RepliesInv, OutputWhole
    <3>2. j - e \in i..m - e /\ j - e \in 1..m - e /\ j - e < i + LongestReply /\ e + (j - e) = j
      BY <1>1, <1>2, <3>1
    <3>3. output'[j - e] = output[j]
      BY <1>7, <3>2
    <3>. QED  BY <3>1, <3>2, <3>3
  <2>. QED  BY <1>4, <2>1 DEF OutputWhole
<1>10. InOrder(output')
  <2>1. ASSUME NEW i \in 1..m - e, NEW j \in 1..m - e, i < j
        PROVE  output'[i].reply <= output'[j].reply
    <3>1. e + i < e + j
      BY <1>2, <2>1
    <3>. QED  BY <1>1, <1>7, <3>1 DEF RepliesInv, InOrder
  <2>. QED  BY <1>4, <2>1 DEF InOrder
<1>11. ASSUME NEW i \in 2..k + n
       PROVE  Leaves(sent'[i-1], sent'[i])
  <2>1. i \in 1..k + n /\ i - 1 \in 1..k + n
    BY <1>1, <1>2
  <2>2. CASE i <= k
    <3>1. sent'[i] = sent[i] /\ sent'[i-1] = sent[i-1] /\ i \in 2..k
      BY <1>1, <1>8, <2>1, <2>2
    <3>2. Leaves(sent[i-1], sent[i])
      BY <1>1, <3>1 DEF RepliesInv
    <3>. QED  BY <3>1, <3>2
  <2>3. CASE i - 1 = k
    <3>1. i - k = 1 /\ ~(i <= k) /\ k \in 1..k /\ m > 0 /\ 1 \in 1..m
      BY <1>1, <1>2, <2>1, <2>3
    <3>2. sent'[i] = output[1] /\ sent'[i-1] = sent[k]
      BY <1>1, <1>8, <2>1, <2>3, <3>1
    <3>3. output[1].at = 1 /\ sent[k].reply < output[1].reply
      BY <1>1, <3>1 DEF RepliesInv
    <3>4. sent[k].reply \in Nat /\ output[1].reply \in Nat
      BY <1>18, <3>1
    <3>5. LaterReply(sent[k], output[1])
      BY <3>3, <3>4 DEF LaterReply
    <3>. QED  BY <3>2, <3>5 DEF Leaves
  <2>4. CASE ~(i - 1 <= k)
    <3>1. ~(i <= k) /\ i - k \in 2..m /\ (i - 1) - k = (i - k) - 1
      BY <1>1, <1>2, <2>1, <2>4
    <3>2. sent'[i] = output[i - k] /\ sent'[i-1] = output[(i - k) - 1]
      BY <1>8, <2>1, <2>4, <3>1
    <3>3. Waits(output[(i - k) - 1], output[i - k])
      BY <1>1, <3>1 DEF RepliesInv
    <3>. QED  BY <3>2, <3>3 DEF Waits, Leaves
  <2>. QED  BY <1>1, <2>1, <2>2, <2>3, <2>4
<1>12. \A i \in 1..k + n, j \in 1..m - e : sent'[i].reply < output'[j].reply
  <2>1. ASSUME NEW i \in 1..k + n, NEW j \in 1..m - e
        PROVE  sent'[i].reply < output'[j].reply
    <3>1. e + j \in 1..m /\ output'[j] = output[e + j]
      BY <1>7
    <3>2. CASE i \in 1..k /\ sent'[i] = sent[i]
      BY <1>1, <3>1, <3>2 DEF RepliesInv
    <3>3. CASE ~(i <= k) /\ i - k \in 1..n /\ i - k \in 1..m /\ sent'[i] = output[i - k]
      <4>1. /\ e \in 1..m /\ e + 1 \in 2..m /\ e + 1 \in 1..m /\ (e + 1) - 1 = e
            /\ i - k <= e /\ e + 1 <= e + j
        BY <1>1, <1>2, <3>1, <3>3, SMTT(30)
      <4>2. PICK x, y : x = i - k /\ y = e + j
        OBVIOUS
      <4>3. /\ x \in 1..m /\ y \in 1..m /\ x \in Nat /\ x <= e /\ y \in Nat /\ e + 1 <= y
            /\ e \in Nat
        BY <1>1, <3>1, <3>3, <4>1, <4>2, SMTT(30)
      <4>4. output[x].reply <= output[e].reply
        <5>1. CASE x = e
          BY <1>18, <4>3, <5>1
        <5>2. CASE x # e
          BY <1>1, <4>1, <4>3, <5>2 DEF RepliesInv, InOrder
        <5>. QED  BY <5>1, <5>2
      <4>5. output[e].reply < output[e + 1].reply
        <5>1. Waits(output[(e + 1) - 1], output[e + 1])
          BY <1>1, <4>1 DEF RepliesInv
        <5>2. LaterReply(output[e], output[e + 1])
          BY <1>15, <4>1, <5>1 DEF Waits, SameReply
        <5>. QED  BY <1>18, <4>1, <5>2 DEF LaterReply
      <4>6. output[e + 1].reply <= output[y].reply
        <5>1. PICK z : z = e + 1
          OBVIOUS
        <5>2. z \in 1..m /\ z \in Nat /\ z <= y
          BY <4>1, <4>3, <5>1
        <5>3. output[z].reply <= output[y].reply
          <6>1. CASE z = y
            BY <1>18, <4>3, <6>1
          <6>2. CASE z # y
            <7>1. z < y
              BY <4>3, <5>2, <6>2
            <7>. QED  BY <1>1, <4>3, <5>2, <7>1 DEF RepliesInv, InOrder
          <6>. QED  BY <6>1, <6>2
        <5>. QED  BY <5>1, <5>3, Zenon
      <4>7. output[x].reply < output[y].reply
        <5>1. /\ output[x].reply \in Nat /\ output[e].reply \in Nat
              /\ output[e + 1].reply \in Nat /\ output[y].reply \in Nat
          BY <1>18, <4>1, <4>3
        <5>2. PICK p, q, r, t : /\ p = output[x].reply /\ q = output[e].reply
                                /\ r = output[e + 1].reply /\ t = output[y].reply
          OBVIOUS
        <5>3. /\ p \in Nat /\ q \in Nat /\ r \in Nat /\ t \in Nat
              /\ p <= q /\ q < r /\ r <= t
          BY <4>4, <4>5, <4>6, <5>1, <5>2, Zenon
        <5>4. p < t
          BY <5>3
        <5>. QED  BY <5>2, <5>4, Zenon
      <4>. QED  BY <3>1, <3>3, <4>2, <4>7, Zenon
    <3>. QED  BY <1>8, <3>2, <3>3
  <2>. QED  BY <2>1
<1>13. /\ \A i \in 1..m - e : output'[i].reply <= replies
       /\ \A i \in 1..k + n : sent'[i].reply <= replies
  BY <1>1, <1>7, <1>8 DEF RepliesInv
<1>14. ASSUME NEW i \in 2..m - e
       PROVE  Waits(output'[i-1], output'[i])
  <2>1. i \in 1..m - e /\ i - 1 \in 1..m - e /\ e + i \in 2..m /\ e + (i - 1) = (e + i) - 1
    BY <1>1, <1>2
  <2>2. output'[i] = output[e + i] /\ output'[i-1] = output[(e + i) - 1]
    BY <1>7, <2>1
  <2>3. Waits(output[(e + i) - 1], output[e + i])
    BY <1>1, <2>1 DEF RepliesInv
  <2>. QED  BY <2>2, <2>3
<1>16. m - e > 0 => output'[1].at = 1
  <2>. SUFFICES ASSUME m - e > 0  PROVE output'[1].at = 1
    OBVIOUS
  <2>1. 1 \in 1..m - e /\ e + 1 \in 2..m /\ (e + 1) - 1 = e
    BY <1>1, <1>2
  <2>2. output'[1] = output[e + 1]
    BY <1>7, <2>1
  <2>3. Waits(output[e], output[e + 1])
    BY <1>1, <2>1 DEF RepliesInv
  <2>. QED  BY <1>15, <2>2, <2>3 DEF Waits, SameReply, LaterReply
<1>17. k + n > 0 => sent'[1].at = 1
  <2>. SUFFICES ASSUME k + n > 0  PROVE sent'[1].at = 1
    OBVIOUS
  <2>1. 1 \in 1..k + n
    BY <1>1, <1>2
  <2>2. CASE 1 <= k
    BY <1>1, <1>8, <2>1, <2>2 DEF RepliesInv
  <2>3. CASE ~(1 <= k)
    <3>1. 1 - k = 1 /\ m > 0
      BY <1>1, <1>2, <2>3
    <3>2. sent'[1] = output[1]
      BY <1>8, <2>1, <2>3, <3>1
    <3>. QED  BY <1>1, <3>1, <3>2 DEF RepliesInv
  <2>. QED  BY <2>2, <2>3
<1>. QED
  BY <1>1, <1>2, <1>4, <1>6, <1>9, <1>10, <1>11, <1>12, <1>13, <1>14, <1>16, <1>17 DEF RepliesInv

-----------------------------------------------------------------------------
(***************************************************************************)
(* The invariant is inductive.                                             *)
(***************************************************************************)
LEMMA InputStays ==
  ASSUME IoBufferInv, input' = input, received' = received, lines' = lines,
         pc' \in {"recv", "output", "full"} => \A i \in 1..Len(input) : input[i] # LF,
         pc' = "full" => Len(input) = Size - 1
  PROVE  InputInv' /\ LinesInv'
<1>1. Taken' = Taken
  BY DEF Taken
<1>2. InputInv'
  BY <1>1 DEF IoBufferInv, InputInv
<1>3. LinesInv'
  BY <1>1 DEF IoBufferInv, LinesInv
<1>. QED  BY <1>2, <1>3

LEMMA OutputStays ==
  ASSUME IoBufferInv, output' = output, replies' = replies, sent' = sent
  PROVE  RepliesInv'
<1>1. OutputWhole'
  BY DEF IoBufferInv, RepliesInv, OutputWhole
<1>. QED  BY <1>1 DEF IoBufferInv, RepliesInv, InOrder

LEMMA InitInv == Init => IoBufferInv
<1>. SUFFICES ASSUME Init  PROVE IoBufferInv
  OBVIOUS
<1>1. /\ input = <<>> /\ output = <<>> /\ received = <<>> /\ lines = <<>> /\ sent = <<>>
      /\ replies = 0 /\ pc = "recv" /\ before \in Byte
  BY DEF Init
<1>2. /\ Len(input) = 0 /\ Len(output) = 0 /\ Len(received) = 0 /\ Len(lines) = 0 /\ Len(sent) = 0
      /\ input \in Seq(Byte) /\ output \in Seq(ReplyByte) /\ received \in Seq(Byte)
      /\ lines \in Seq(Seq(Byte)) /\ sent \in Seq(ReplyByte)
  BY <1>1, EmptySeq
<1>3. RoomInv
  BY <1>1, <1>2, BufferAssumption DEF RoomInv
<1>4. InputInv
  BY <1>1, <1>2 DEF InputInv, Taken
<1>5. LinesInv
  <2>1. Taken = 0 /\ End(received, 0) = 0 /\ IsEnd(received, 0, 0)
    BY <1>2 DEF Taken, End, IsEnd
  <2>. QED  BY <1>2, <2>1 DEF LinesInv
<1>6. RepliesInv
  BY <1>1, <1>2 DEF RepliesInv, OutputWhole, InOrder
<1>. QED  BY <1>3, <1>4, <1>5, <1>6 DEF IoBufferInv

LEMMA NextInv == IoBufferInv /\ [Next]_vars => IoBufferInv'
<1>. SUFFICES ASSUME IoBufferInv, [Next]_vars  PROVE IoBufferInv'
  OBVIOUS
<1>. USE DEF IoBufferInv
<1>1. CASE Recv
  BY <1>1, RecvStep, OutputStays DEF Recv
<1>2. CASE RecvNothing
  <2>1. InputInv' /\ LinesInv'
    BY <1>2, InputStays DEF RecvNothing, InputInv
  <2>. QED  BY <1>2, <2>1, OutputStays DEF RecvNothing, RoomInv
<1>3. CASE RecvFails
  <2>1. InputInv' /\ LinesInv'
    BY <1>3, InputStays DEF RecvFails, InputInv
  <2>. QED  BY <1>3, <2>1, OutputStays DEF RecvFails, RoomInv
<1>4. CASE RecvFull
  <2>1. Len(input) = Size - 1
    BY <1>4, BufferAssumption, LenProperties DEF RecvFull, Remaining, RoomInv
  <2>2. InputInv' /\ LinesInv'
    BY <1>4, <2>1, InputStays DEF RecvFull, InputInv
  <2>. QED  BY <1>4, <2>2, OutputStays DEF RecvFull, RoomInv
<1>5. CASE NextLine
  <2>1. /\ pc' = pc /\ before' = before /\ received' = received /\ sent' = sent /\ Take
    BY <1>5 DEF NextLine, Take
  <2>2. /\ input' \in Seq(Byte) /\ Len(input') < Size /\ lines' \in Seq(Seq(Byte))
        /\ InputInv' /\ LinesInv'
    BY <2>1, TakeLine
  <2>3. /\ output' \in Seq(ReplyByte) /\ Len(output') <= Size /\ replies' \in Nat /\ RepliesInv'
    <3>1. CASE UNCHANGED <<output, replies>>
      BY <2>1, <3>1, OutputStays DEF RoomInv
    <3>2. ASSUME NEW n \in 2..LongestReply, replies' = replies + 1,
                 output' = AppendAll(output, ReplyBytes(replies + 1, n))
          PROVE  /\ output' \in Seq(ReplyByte) /\ Len(output') <= Size /\ replies' \in Nat
                 /\ RepliesInv'
      BY <2>1, <3>2, AppendReply
    <3>. QED  BY <2>1, <3>1, <3>2 DEF Take
  <2>. QED  BY <2>1, <2>2, <2>3 DEF RoomInv
<1>6. CASE Overrun
  <2>1. InputInv' /\ LinesInv'
    BY <1>6, InputStays DEF Overrun
  <2>. QED  BY <1>6, <2>1, OutputStays DEF Overrun, RoomInv
<1>7. CASE LinesDone
  <2>1. \A i \in 1..Len(input) : input[i] # LF
    BY <1>7, EolFound, LenProperties DEF LinesDone, RoomInv
  <2>2. InputInv' /\ LinesInv'
    BY <1>7, <2>1, InputStays DEF LinesDone
  <2>. QED  BY <1>7, <2>2, OutputStays DEF LinesDone, RoomInv
<1>8. CASE Flush
  <2>1. InputInv' /\ LinesInv'
    BY <1>8, InputStays DEF Flush, InputInv
  <2>. QED  BY <1>8, <2>1, FlushStep DEF Flush, RoomInv
<1>9. CASE FlushDone
  <2>1. InputInv' /\ LinesInv'
    BY <1>9, InputStays DEF FlushDone, InputInv
  <2>. QED  BY <1>9, <2>1, OutputStays DEF FlushDone, RoomInv
<1>10. CASE UNCHANGED vars
  <2>1. InputInv' /\ LinesInv'
    BY <1>10, InputStays DEF vars, InputInv
  <2>. QED  BY <1>10, <2>1, OutputStays DEF vars, RoomInv
<1>. QED
  BY <1>1, <1>2, <1>3, <1>4, <1>5, <1>6, <1>7, <1>8, <1>9, <1>10 DEF Next, Server

LEMMA Invariant == Spec => []IoBufferInv
<1>. QED  BY InitInv, NextInv, PTL DEF Spec

-----------------------------------------------------------------------------
(***************************************************************************)
(* What follows from it.                                                   *)
(***************************************************************************)

(***************************************************************************)
(* The buffers hold what is put into them: an end of line is always found  *)
(* inside them, and short of the last byte in the one of the replies,      *)
(* because no reply is as long as the buffer.                              *)
(***************************************************************************)
THEOREM BuffersHold == Spec => []TypeOK
<1>1. IoBufferInv => TypeOK
  <2>. SUFFICES ASSUME IoBufferInv  PROVE TypeOK
    OBVIOUS
  <2>1. /\ RoomInv /\ OutputWhole /\ Len(output) \in Nat
        /\ LongestReply \in Nat /\ Size \in Nat /\ LongestReply < Size
    BY BufferAssumption, LenProperties DEF IoBufferInv, RepliesInv, RoomInv
  <2>2. /\ ReplyEol(output) \in 0..Len(output)
        /\ ReplyEol(output) > 0 => \A i \in 1..ReplyEol(output) - 1 : ~output[i].eol
    BY <2>1, ReplyEolFound
  <2>3. ReplyEol(output) < Size
    <3>1. CASE ReplyEol(output) = 0
      BY <2>1, <3>1
    <3>2. CASE ReplyEol(output) # 0
      <4>1. 1 \in 1..Len(output) /\ ReplyEol(output) > 0
        BY <2>1, <2>2, <3>2
      <4>2. PICK j \in 1..Len(output) : j < 1 + LongestReply /\ output[j].eol
        BY <2>1, <4>1 DEF OutputWhole
      <4>3. ~(j <= ReplyEol(output) - 1)
        BY <2>1, <2>2, <4>1, <4>2
      <4>. QED  BY <2>1, <2>2, <4>2, <4>3
    <3>. QED  BY <3>1, <3>2
  <2>. QED  BY <2>1, <2>3 DEF RoomInv, TypeOK
<1>. QED  BY <1>1, Invariant, PTL

LEMMA PrefixIs ==
  ASSUME NEW S, NEW s \in Seq(S), NEW t, Len(t) \in Nat, Len(s) <= Len(t),
         \A i \in 1..Len(s) : t[i] = s[i]
  PROVE  IsPrefix(s, t)
<1>1. Len(s) \in Nat /\ \A i \in 1..Len(s) : s[i] \in S /\ t[i] \in S
  BY LenProperties, ElementOfSeq
<1>2. PICK n \in Nat : n = Len(s)
  BY <1>1
<1>3. /\ SubSeq(s, 1, n) \in Seq(S) /\ Len(SubSeq(s, 1, n)) = n
      /\ \A i \in 1..n : SubSeq(s, 1, n)[i] = s[i]
  <2>1. \A i \in 1..n : s[i] \in S
    BY <1>1, <1>2
  <2>2. /\ SubSeq(s, 1, n) \in Seq(S)
        /\ Len(SubSeq(s, 1, n)) = IF 1 <= n THEN n - 1 + 1 ELSE 0
        /\ \A i \in 1..n - 1 + 1 : SubSeq(s, 1, n)[i] = s[1 + i - 1]
    BY <2>1, SubSeqProperties
  <2>. QED  BY <2>2
<1>4. /\ SubSeq(t, 1, n) \in Seq(S) /\ Len(SubSeq(t, 1, n)) = n
      /\ \A i \in 1..n : SubSeq(t, 1, n)[i] = t[i]
  <2>1. \A i \in 1..n : t[i] \in S
    BY <1>1, <1>2
  <2>2. /\ SubSeq(t, 1, n) \in Seq(S)
        /\ Len(SubSeq(t, 1, n)) = IF 1 <= n THEN n - 1 + 1 ELSE 0
        /\ \A i \in 1..n - 1 + 1 : SubSeq(t, 1, n)[i] = t[1 + i - 1]
    BY <2>1, SubSeqProperties
  <2>. QED  BY <2>2
<1>5. \A i \in 1..Len(SubSeq(s, 1, n)) : SubSeq(s, 1, n)[i] = SubSeq(t, 1, n)[i]
  BY <1>2, <1>3, <1>4
<1>6. SubSeq(s, 1, n) = SubSeq(t, 1, n)
  BY <1>3, <1>4, <1>5, SeqEqual
<1>. QED  BY <1>2, <1>6 DEF IsPrefix

LEMMA ReverseIs ==
  ASSUME NEW S, NEW s \in Seq(S)
  PROVE  /\ Reverse(s) \in Seq(S) /\ Len(Reverse(s)) = Len(s)
         /\ \A i \in 1..Len(s) : Reverse(s)[i] = s[(Len(s) - i) + 1]
<1>1. Len(s) \in Nat /\ \A i \in 1..Len(s) : s[i] \in S
  BY LenProperties, ElementOfSeq
<1>2. \A i \in 1..Len(s) : (Len(s) - i) + 1 \in 1..Len(s)
  BY <1>1
<1>3. Reverse(s) \in [1..Len(s) -> S]
  BY <1>1, <1>2 DEF Reverse
<1>4. Reverse(s) \in Seq(S)
  BY <1>1, <1>3, SeqDef
<1>5. Len(Reverse(s)) = Len(s)
  BY <1>1, <1>3, <1>4, LenProperties
<1>. QED  BY <1>4, <1>5 DEF Reverse

LEMMA SuffixIs ==
  ASSUME NEW S, NEW s \in Seq(S), NEW t \in Seq(S), Len(s) <= Len(t),
         \A i \in 1..Len(s) : s[i] = t[(Len(t) - Len(s)) + i]
  PROVE  IsSuffix(s, t)
<1>1. Len(s) \in Nat /\ Len(t) \in Nat
  BY LenProperties
<1>2. /\ Reverse(s) \in Seq(S) /\ Len(Reverse(s)) = Len(s)
      /\ \A i \in 1..Len(s) : Reverse(s)[i] = s[(Len(s) - i) + 1]
  BY ReverseIs
<1>3. /\ Reverse(t) \in Seq(S) /\ Len(Reverse(t)) = Len(t)
      /\ \A i \in 1..Len(t) : Reverse(t)[i] = t[(Len(t) - i) + 1]
  BY ReverseIs
<1>4. ASSUME NEW i \in 1..Len(s)
      PROVE  Reverse(t)[i] = Reverse(s)[i]
  <2>1. /\ (Len(s) - i) + 1 \in 1..Len(s) /\ i \in 1..Len(t)
        /\ (Len(t) - Len(s)) + ((Len(s) - i) + 1) = (Len(t) - i) + 1
    BY <1>1
  <2>2. s[(Len(s) - i) + 1] = t[(Len(t) - i) + 1]
    BY <2>1
  <2>. QED  BY <1>2, <1>3, <2>1, <2>2
<1>5. IsPrefix(Reverse(s), Reverse(t))
  <2>1. PICK u, v : u = Reverse(s) /\ v = Reverse(t)
    OBVIOUS
  <2>2. u \in Seq(S) /\ Len(v) \in Nat /\ Len(u) <= Len(v) /\ \A i \in 1..Len(u) : v[i] = u[i]
    BY <1>1, <1>2, <1>3, <1>4, <2>1
  <2>3. IsPrefix(u, v)
    BY <2>2, PrefixIs
  <2>. QED  BY <2>1, <2>3
<1>. QED  BY <1>5 DEF IsSuffix

(***************************************************************************)
(* Whatever the chunks recv() returns, the handlers are given the lines of *)
(* the stream in order, none twice and none skipped, and what is in the    *)
(* buffer is the rest of it.                                               *)
(***************************************************************************)
THEOREM LinesOfTheStream == Spec => []LinesInOrder
<1>1. IoBufferInv => LinesInOrder
  <2>. SUFFICES ASSUME IoBufferInv  PROVE LinesInOrder
    OBVIOUS
  <2>. DEFINE n == Len(lines)
  <2>1. /\ RoomInv /\ InputInv /\ LinesInv /\ n \in Nat /\ Len(input) \in Nat /\ Len(received) \in Nat
        /\ input \in Seq(Byte) /\ received \in Seq(Byte) /\ lines \in Seq(Seq(Byte))
        /\ Len(input) <= Len(received)
    BY LenProperties DEF IoBufferInv, RoomInv, InputInv
  <2>2. PICK t : t = Taken
    OBVIOUS
  <2>3. /\ t \in 0..Len(received) /\ t = Len(received) - Len(input) /\ IsEnd(received, n, t)
        /\ \A i \in 1..Len(input) : input[i] = received[t + i]
    BY <2>1, <2>2 DEF Taken, InputInv, LinesInv
  <2>4. Cardinality(Lfs(received, t)) = n
    <3>1. CASE n = 0
      <4>1. Lfs(received, t) = {}
        BY <2>3, <3>1 DEF IsEnd, Lfs
      <4>. QED  BY <3>1, <4>1, FS_EmptySet
    <3>2. CASE n # 0
      BY <2>3, <3>2, Zenon DEF IsEnd
    <3>. QED  BY <3>1, <3>2
  <2>5. /\ LfCount(received) = Cardinality(Lfs(received, Len(received)))
        /\ LfCount(received) \in Nat /\ n <= LfCount(received)
    <3>1. /\ LfCount(received) = Cardinality(Lfs(received, Len(received)))
          /\ IsFiniteSet(Lfs(received, Len(received)))
          /\ Cardinality(Lfs(received, Len(received))) \in Nat
      BY <2>1, LfCountIs, LfsFinite
    <3>2. Lfs(received, t) \in SUBSET Lfs(received, Len(received))
      BY <2>1, <2>3 DEF Lfs
    <3>3. Cardinality(Lfs(received, t)) <= Cardinality(Lfs(received, Len(received)))
      BY <3>1, <3>2, FS_Subset
    <3>. QED  BY <2>4, <3>1, <3>3
  <2>6. IsPrefix(lines, LinesOf(received))
    <3>. DEFINE l == LinesOf(received)
                N == LfCount(received)
    <3>1. l = [k \in 1..N |-> Bare(SubSeq(received, End(received, k - 1) + 1, End(received, k) - 1))]
      BY DEF LinesOf
    <3>2. Len(l) = N
      <4>1. PICK w : w = l
        OBVIOUS
      <4>2. w \in [1..N -> {w[k] : k \in 1..N}]
        BY <3>1, <4>1
      <4>. HIDE DEF l, N
      <4>3. N \in Nat
        BY <2>5 DEF N
      <4>4. w \in Seq({w[k] : k \in 1..N})
        BY <4>2, <4>3, SeqDef
      <4>5. PICK S : S = {w[k] : k \in 1..N}
        OBVIOUS
      <4>6. w \in Seq(S) /\ DOMAIN w = 1..N
        BY <4>2, <4>4, <4>5
      <4>7. Len(w) \in Nat /\ DOMAIN w = 1..Len(w)
        BY <4>6, LenProperties
      <4>8. Len(w) = N
        BY <4>3, <4>6, <4>7
      <4>. QED  BY <4>1, <4>8
    <3>3. ASSUME NEW i \in 1..n
          PROVE  l[i] = lines[i]
      <4>1. i \in 1..N
        BY <2>1, <2>5
      <4>2. lines[i] = Bare(SubSeq(received, End(received, i - 1) + 1, End(received, i) - 1))
        BY <2>1 DEF LinesInv
      <4>. QED  BY <3>1, <4>1, <4>2
    <3>. HIDE DEF l, N
    <3>4. PICK w : w = l
      OBVIOUS
    <3>5. Len(w) \in Nat /\ Len(lines) <= Len(w) /\ \A i \in 1..Len(lines) : w[i] = lines[i]
      BY <2>5, <3>2, <3>3, <3>4 DEF N
    <3>6. IsPrefix(lines, w)
      BY <2>1, <3>5, PrefixIs
    <3>. QED  BY <3>4, <3>6 DEF l
  <2>7. IsSuffix(input, received)
    <3>1. \A i \in 1..Len(input) : input[i] = received[(Len(received) - Len(input)) + i]
      BY <2>3
    <3>. QED  BY <2>1, <3>1, SuffixIs
  <2>8. ASSUME pc \in {"recv", "output"}
        PROVE  n = LfCount(received)
    <3>1. \A i \in 1..Len(input) : input[i] # LF
      BY <2>1, <2>8 DEF InputInv
    <3>2. ASSUME NEW j \in Lfs(received, Len(received))
          PROVE  j \in Lfs(received, t)
      <4>1. j \in 1..Len(received) /\ received[j] = LF
        BY <3>2 DEF Lfs
      <4>2. CASE j <= t
        BY <2>1, <2>3, <4>1, <4>2 DEF Lfs
      <4>3. CASE ~(j <= t)
        <5>1. j - t \in 1..Len(input) /\ t + (j - t) = j
          BY <2>1, <2>3, <4>1, <4>3
        <5>2. input[j - t] = received[j]
          BY <2>3, <5>1
        <5>. QED  BY <3>1, <4>1, <5>1, <5>2
      <4>. QED  BY <4>2, <4>3
    <3>3. Lfs(received, t) \subseteq Lfs(received, Len(received))
      BY <2>1, <2>3 DEF Lfs
    <3>4. Lfs(received, t) = Lfs(received, Len(received))
      BY <3>2, <3>3
    <3>. QED  BY <2>4, <2>5, <3>4
  <2>. QED  BY <2>6, <2>7, <2>8 DEF LinesInOrder
<1>. QED  BY <1>1, Invariant, PTL

(***************************************************************************)
(* A client is dropped for want of room only if the line it is sending     *)
(* does not fit.                                                           *)
(***************************************************************************)
THEOREM FullMeansFull == Spec => []DroppedOnlyWhenFull
<1>1. IoBufferInv => DroppedOnlyWhenFull
  <2>. SUFFICES ASSUME IoBufferInv, pc = "full"
                PROVE  /\ Len(received) >= Size - 1
                       /\ LfCount(SubSeq(received, Len(received) - Size + 2, Len(received))) = 0
    BY DEF DroppedOnlyWhenFull
  <2>1. /\ Len(input) \in Nat /\ Len(received) \in Nat /\ Size \in Nat /\ 2 < Size
        /\ received \in Seq(Byte) /\ Len(input) <= Len(received) /\ Len(input) = Size - 1
        /\ \A i \in 1..Len(input) : input[i] = received[Taken + i] /\ input[i] # LF
        /\ Taken = Len(received) - Len(input)
    BY BufferAssumption, LenProperties DEF IoBufferInv, RoomInv, InputInv, Taken
  <2>2. PICK a, b : a = Len(received) - Size + 2 /\ b = Len(received)
    OBVIOUS
  <2>3. a \in Int /\ b \in Int /\ a = Taken + 1 /\ b - a + 1 = Len(input) /\ a <= b /\ 1 <= a
    BY <2>1, <2>2
  <2>4. \A i \in a..b : received[i] \in Byte
    BY <2>1, <2>2, <2>3, ElementOfSeq
  <2>5. /\ SubSeq(received, a, b) \in Seq(Byte)
        /\ Len(SubSeq(received, a, b)) = b - a + 1
        /\ \A i \in 1..b - a + 1 : SubSeq(received, a, b)[i] = received[a + i - 1]
    BY <2>3, <2>4, SubSeqProperties
  <2>6. PICK q : q = SubSeq(received, a, b)
    OBVIOUS
  <2>7. DOMAIN q = 1..Len(input)
    BY <2>3, <2>5, <2>6, LenProperties
  <2>8. ASSUME NEW i \in 1..Len(input)
        PROVE  q[i] # LF
    <3>1. i \in 1..b - a + 1 /\ a + i - 1 = Taken + i
      BY <2>1, <2>3
    <3>2. q[i] = received[Taken + i]
      BY <2>5, <2>6, <3>1
    <3>. QED  BY <2>1, <3>2
  <2>9. {i \in DOMAIN q : q[i] = LF} = {}
    BY <2>7, <2>8
  <2>10. LfCount(q) = 0
    BY <2>9, FS_EmptySet DEF LfCount
  <2>. QED  BY <2>1, <2>2, <2>6, <2>10
<1>. QED  BY <1>1, Invariant, PTL

(***************************************************************************)
(* Replies leave in the order they were made, none twice and each from its *)
(* first byte on; those that wait are whole and later than all of which    *)
(* anything has been sent.                                                 *)
(***************************************************************************)
THEOREM RepliesLeaveInOrder == Spec => []RepliesInOrder
<1>1. IoBufferInv => RepliesInOrder
  <2>. SUFFICES ASSUME IoBufferInv  PROVE RepliesInOrder
    OBVIOUS
  <2>1. /\ RepliesInv /\ sent \in Seq(ReplyByte) /\ output \in Seq(ReplyByte)
        /\ Len(sent) \in Nat /\ Len(output) \in Nat
        /\ DOMAIN sent = 1..Len(sent) /\ DOMAIN output = 1..Len(output)
    BY LenProperties DEF IoBufferInv, RoomInv
  <2>2. HeadsOfReplies(sent)
    <3>1. sent # <<>> => Len(sent) > 0
      BY <2>1, EmptySeq
    <3>. QED  BY <2>1, <3>1 DEF RepliesInv, Leaves, HeadsOfReplies
  <2>3. WholeReplies(output)
    <3>1. output # <<>> => Len(output) > 0
      BY <2>1, EmptySeq
    <3>2. ASSUME output # <<>>
          PROVE  Last(output).eol
      <4>1. Len(output) \in 1..Len(output)
        BY <2>1, <3>1, <3>2
      <4>2. PICK j \in Len(output)..Len(output) : output[j].eol
        BY <2>1, <4>1 DEF RepliesInv, OutputWhole
      <4>3. j = Len(output)
        BY <2>1
      <4>. QED  BY <4>2, <4>3 DEF Last
    <3>. QED  BY <2>1, <3>1, <3>2 DEF RepliesInv, Waits, WholeReplies
  <2>4. \A i \in DOMAIN sent, j \in DOMAIN output : sent[i].reply < output[j].reply
    BY <2>1 DEF RepliesInv
  <2>. QED  BY <2>2, <2>3, <2>4 DEF RepliesInOrder
<1>. QED  BY <1>1, Invariant, PTL
=============================================================================
