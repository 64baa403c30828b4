--------------------------- MODULE Elf2RplProofs ---------------------------
(***************************************************************************)
(* What is proved of module Elf2Rpl, for any well-formed ELF file.         *)
(***************************************************************************)
EXTENDS Elf2Rpl, Loops

-----------------------------------------------------------------------------
(***************************************************************************)
(* Smallest and largest numbers, and alignments.                           *)
(***************************************************************************)
LEMMA Least ==
  ASSUME NEW S, S \subseteq Nat, S # {}
  PROVE  Min(S) \in S /\ \A x \in S : Min(S) <= x
<1>1. IsWellFoundedOn(OpToRel(<, Nat), Nat)
  BY NatLessThanWellFounded
<1>2. PICK x \in S : \A y \in S : ~(<<y, x>> \in OpToRel(<, Nat))
  BY <1>1, WFMin
<1>3. \A y \in S : x <= y
  <2>1. \A y \in S : ~(y < x)
    BY <1>2 DEF OpToRel
  <2>. QED  BY <2>1
<1>4. \E z \in S : \A y \in S : z <= y
  BY <1>3
<1>. QED  BY <1>4 DEF Min

LEMMA Greatest ==
  ASSUME NEW S, S \subseteq Nat, S # {}, NEW b \in Nat, \A x \in S : x <= b
  PROVE  Max(S) \in S /\ \A x \in S : x <= Max(S)
<1>. DEFINE D == {b - x : x \in S}
<1>1. D \subseteq Nat /\ D # {}
  <2>1. \A x \in S : b - x \in Nat
    OBVIOUS
  <2>. QED  BY <2>1
<1>2. Min(D) \in D /\ \A d \in D : Min(D) <= d
  <2>. HIDE DEF D
  <2>. QED  BY <1>1, Least
<1>3. PICK z \in S : b - z = Min(D)
  BY <1>2
<1>4. \A y \in S : b - z <= b - y
  BY <1>2, <1>3
<1>5. \A y \in S : z >= y
  BY <1>4
<1>6. \E x \in S : \A y \in S : x >= y
  BY <1>5
<1>7. Max(S) \in S /\ \A y \in S : Max(S) >= y
  BY <1>6 DEF Max
<1>8. \A y \in S : y \in Nat /\ Max(S) \in Nat
  BY <1>7
<1>. QED  BY <1>7, <1>8

LEMMA Aligned ==
  ASSUME NEW n \in Nat
  PROVE  /\ AlignUp(n, 4) \in Nat /\ AlignUp(n, 8) \in Nat /\ AlignUp(n, 16) \in Nat
         /\ AlignUp(n, 64) \in Nat /\ n <= AlignUp(n, 64) /\ AlignUp(n, 64) % 64 = 0
<1>1. ((n + 4 - 1) \div 4) * 4 \in Nat
  OBVIOUS
<1>2. ((n + 8 - 1) \div 8) * 8 \in Nat
  OBVIOUS
<1>3. ((n + 16 - 1) \div 16) * 16 \in Nat
  OBVIOUS
<1>4. ((n + 64 - 1) \div 64) * 64 \in Nat
  OBVIOUS
<1>5. n <= ((n + 64 - 1) \div 64) * 64
  OBVIOUS
<1>6. (((n + 64 - 1) \div 64) * 64) % 64 = 0
  <2>1. PICK m \in Nat : m = (n + 64 - 1) \div 64
    OBVIOUS
  <2>2. (m * 64) % 64 = 0
    OBVIOUS
  <2>. QED  BY <2>1, <2>2
<1>. QED  BY <1>1, <1>2, <1>3, <1>4, <1>5, <1>6 DEF AlignUp

-----------------------------------------------------------------------------
(***************************************************************************)
(* Sums, selections and concatenations.                                    *)
(***************************************************************************)
(* The sum, entry by entry.                                                *)
LEMMA TotalIs ==
  ASSUME NEW v, NEW n \in Nat, n = Len(v)
  PROVE  \E f : /\ f[0] = 0
                /\ \A k \in 1..n : f[k] = f[k - 1] + v[k]
                /\ Total(v) = f[n]
<1>. DEFINE Step(r, k) == r + v[k]
            Body(f, m) == [k \in 0..m |-> IF k = 0 THEN 0 ELSE Step(f[k - 1], k)]
            More(f, m) == [k \in 0..(m + 1) |-> IF k = m + 1 THEN Step(f[m], m + 1) ELSE f[k]]
            T == {m \in 0..n : \E f : f = Body(f, m)}
            Upto == CHOOSE f : f = Body(f, n)
<1>1. 0..n \subseteq T
  <2>. HIDE DEF Step
  <2>1. Body([k \in 0..0 |-> 0], 0) = [k \in 0..0 |-> 0]
    OBVIOUS
  <2>2. ASSUME NEW m \in 0..(n-1), NEW f, f = Body(f, m)
        PROVE  More(f, m) = Body(More(f, m), m + 1)
    <3>1. \A k \in 0..(m + 1) : k # 0 /\ k # m + 1 => k \in 0..m /\ k - 1 \in 0..m
      OBVIOUS
    <3>2. \A k \in 0..(m + 1) : k # 0 => k - 1 \in 0..m /\ k - 1 \in 0..(m + 1) /\ k - 1 # m + 1
      OBVIOUS
    <3>3. \A k \in 0..m : f[k] = IF k = 0 THEN 0 ELSE Step(f[k - 1], k)
      BY <2>2
    <3>. QED  BY <3>1, <3>2, <3>3
  <2>. HIDE DEF Body, More
  <2>3. 0 \in T
    BY <2>1
  <2>4. \A m \in 0..(n-1) : m \in T => m + 1 \in T
    BY <2>2
  <2>. HIDE DEF T
  <2>. QED  BY <2>3, <2>4, UpTo
<1>2. Upto = Body(Upto, n)
  <2>. HIDE DEF Body
  <2>. QED  BY <1>1
<1>3. Total(v) = Upto[n]
  BY DEF Total
<1>4. Upto[0] = 0 /\ \A k \in 1..n : Upto[k] = Step(Upto[k - 1], k)
  <2>. HIDE DEF Upto, Step
  <2>1. \A k \in 1..n : k \in 0..n /\ k # 0
    OBVIOUS
  <2>. QED  BY <1>2, <2>1
<1>. HIDE DEF Upto
<1>. QED  BY <1>3, <1>4, Zenon

LEMMA TotalNat ==
  ASSUME NEW v, NEW n \in Nat, n = Len(v), \A k \in 1..n : v[k] \in Nat
  PROVE  Total(v) \in Nat
<1>1. PICK f : f[0] = 0 /\ (\A k \in 1..n : f[k] = f[k - 1] + v[k]) /\ Total(v) = f[n]
  BY TotalIs
<1>. DEFINE T == {k \in 0..n : f[k] \in Nat}
<1>2. 0 \in T
  BY <1>1
<1>3. \A k \in 0..(n-1) : k \in T => k + 1 \in T
  <2>1. \A k \in 0..(n-1) : k + 1 \in 1..n /\ (k + 1) - 1 = k /\ k + 1 \in 0..n
    OBVIOUS
  <2>2. \A k \in 0..(n-1) : f[k + 1] = f[k] + v[k + 1] /\ v[k + 1] \in Nat
    BY <1>1, <2>1
  <2>. QED  BY <2>1, <2>2
<1>4. 0..n \subseteq T
  <2>. HIDE DEF T
  <2>. QED  BY <1>2, <1>3, UpTo
<1>5. n \in 0..n
  OBVIOUS
<1>. QED  BY <1>1, <1>4, <1>5

LEMMA NameSizeNat ==
  ASSUME NEW name \in Name
  PROVE  NameSize(name) \in Nat
<1>. DEFINE v == [i \in DOMAIN name |-> Bytes[name[i]]]
            n == Len(name)
<1>1. n \in Nat /\ DOMAIN name = 1..n /\ \A i \in 1..n : name[i] \in DOMAIN Bytes
  BY DEF Name
<1>2. Len(v) = n
  BY <1>1
<1>3. \A i \in 1..n : v[i] \in Nat
  BY <1>1, NamesAssumption
<1>4. Total(v) \in Nat
  <2>. HIDE DEF v, n
  <2>. QED  BY <1>1, <1>2, <1>3, TotalNat
<1>. QED  BY <1>4 DEF NameSize

LEMMA NamesNat ==
  ASSUME NEW data \in Seq(Name)
  PROVE  Names(data) \in Nat
<1>. DEFINE v == [i \in DOMAIN data |-> NameSize(data[i]) + 1]
            n == Len(data)
<1>1. n \in Nat /\ DOMAIN data = 1..n /\ \A i \in 1..n : data[i] \in Name
  OBVIOUS
<1>2. Len(v) = n
  BY <1>1
<1>3. \A i \in 1..n : v[i] \in Nat
  <2>1. \A i \in 1..n : NameSize(data[i]) \in Nat
    BY <1>1, NameSizeNat
  <2>. QED  BY <1>1, <2>1
<1>4. Total(v) \in Nat
  <2>. HIDE DEF v, n
  <2>. QED  BY <1>1, <1>2, <1>3, TotalNat
<1>. QED  BY <1>4 DEF Names

(* The selection, entry by entry.                                          *)
ChosenRounds(f, seq, I) ==
  /\ f[0] = <<>>
  /\ \A k \in 1..Len(seq) : f[k] = IF k \in I THEN Append(f[k - 1], seq[k]) ELSE f[k - 1]
  /\ Chosen(seq, I) = f[Len(seq)]

LEMMA ChosenIs ==
  ASSUME NEW seq, NEW I, NEW n \in Nat, n = Len(seq)
  PROVE  \E f : ChosenRounds(f, seq, I)
<1>. DEFINE Step(r, k) == IF k \in I THEN Append(r, seq[k]) ELSE r
            Body(f, m) == [k \in 0..m |-> IF k = 0 THEN <<>> ELSE Step(f[k - 1], k)]
            More(f, m) == [k \in 0..(m + 1) |-> IF k = m + 1 THEN Step(f[m], m + 1) ELSE f[k]]
            T == {m \in 0..n : \E f : f = Body(f, m)}
            Upto == CHOOSE f : f = Body(f, n)
<1>1. 0..n \subseteq T
  <2>. HIDE DEF Step
  <2>1. Body([k \in 0..0 |-> <<>>], 0) = [k \in 0..0 |-> <<>>]
    OBVIOUS
  <2>2. ASSUME NEW m \in 0..(n-1), NEW f, f = Body(f, m)
        PROVE  More(f, m) = Body(More(f, m), m + 1)
    <3>1. \A k \in 0..(m + 1) : k # 0 /\ k # m + 1 => k \in 0..m /\ k - 1 \in 0..m
      OBVIOUS
    <3>2. \A k \in 0..(m + 1) : k # 0 => k - 1 \in 0..m /\ k - 1 \in 0..(m + 1) /\ k - 1 # m + 1
      OBVIOUS
    <3>3. \A k \in 0..m : f[k] = IF k = 0 THEN <<>> ELSE Step(f[k - 1], k)
      BY <2>2
    <3>. QED  BY <3>1, <3>2, <3>3
  <2>. HIDE DEF Body, More
  <2>3. 0 \in T
    BY <2>1
  <2>4. \A m \in 0..(n-1) : m \in T => m + 1 \in T
    BY <2>2
  <2>. HIDE DEF T
  <2>. QED  BY <2>3, <2>4, UpTo
<1>2. Upto = Body(Upto, n)
  <2>. HIDE DEF Body
  <2>. QED  BY <1>1
<1>3. Chosen(seq, I) = Upto[n]
  BY DEF Chosen
<1>4. Upto[0] = <<>> /\ \A k \in 1..n : Upto[k] = Step(Upto[k - 1], k)
  <2>. HIDE DEF Upto, Step
  <2>1. \A k \in 1..n : k \in 0..n /\ k # 0
    OBVIOUS
  <2>. QED  BY <1>2, <2>1
<1>. HIDE DEF Upto
<1>. QED  BY <1>3, <1>4 DEF ChosenRounds

LEMMA ChosenIn ==
  ASSUME NEW seq, NEW n \in Nat, n = Len(seq), NEW I, NEW S,
         \A k \in 1..n : k \in I => seq[k] \in S
  PROVE  Chosen(seq, I) \in Seq(S)
<1>0. PICK f : ChosenRounds(f, seq, I)
  BY ChosenIs
<1>1. /\ f[0] = <<>> /\ Chosen(seq, I) = f[n]
      /\ \A k \in 1..n : f[k] = IF k \in I THEN Append(f[k - 1], seq[k]) ELSE f[k - 1]
  BY <1>0 DEF ChosenRounds
<1>. DEFINE T == {k \in 0..n : f[k] \in Seq(S)}
<1>2. 0 \in T
  <2>1. f[0] \in Seq(S)
    BY <1>1
  <2>. QED  BY <2>1
<1>3. \A k \in 0..(n-1) : k \in T => k + 1 \in T
  <2>1. \A k \in 0..(n-1) : k + 1 \in 1..n /\ (k + 1) - 1 = k /\ k + 1 \in 0..n
    OBVIOUS
  <2>2. \A k \in 0..(n-1) : f[k + 1] = IF k + 1 \in I THEN Append(f[k], seq[k + 1]) ELSE f[k]
    BY <1>1, <2>1
  <2>3. \A k \in 0..(n-1) : k + 1 \in I => seq[k + 1] \in S
    BY <2>1
  <2>4. ASSUME NEW k \in 0..(n-1), f[k] \in Seq(S) PROVE f[k + 1] \in Seq(S)
    <3>1. CASE k + 1 \in I
      <4>1. f[k + 1] = Append(f[k], seq[k + 1]) /\ seq[k + 1] \in S
        BY <2>2, <2>3, <3>1
      <4>. QED  BY <2>4, <4>1
    <3>2. CASE k + 1 \notin I
      BY <2>2, <2>4, <3>2
    <3>. QED  BY <3>1, <3>2
  <2>. QED  BY <2>1, <2>4
<1>4. 0..n \subseteq T
  <2>. HIDE DEF T
  <2>. QED  BY <1>2, <1>3, UpTo
<1>5. n \in 0..n
  OBVIOUS
<1>. QED  BY <1>1, <1>4, <1>5

(* FlattenSeq of the community modules begins with the first entry.        *)
LEMMA FlattenIn ==
  ASSUME NEW S, NEW seqs \in Seq(Seq(S))
  PROVE  FlattenSeq(seqs) \in Seq(S)
<1>. DEFINE n == Len(seqs)
            Step(r, k) == r \o seqs[k]
            Body(f, m) == [k \in 1..m |-> IF k = 1 THEN seqs[k] ELSE Step(f[k - 1], k)]
            More(f, m) == [k \in 1..(m + 1) |-> IF k = m + 1 THEN Step(f[m], m + 1) ELSE f[k]]
            T == {m \in 0..(n - 1) : \E f : f = Body(f, m + 1)}
            Upto == CHOOSE f : f = Body(f, n)
            Q == {m \in 0..(n - 1) : Upto[m + 1] \in Seq(S)}
<1>1. CASE n = 0
  <2>1. FlattenSeq(seqs) = seqs
    BY <1>1 DEF FlattenSeq
  <2>2. seqs = <<>>
    BY <1>1
  <2>. QED  BY <2>1, <2>2
<1>2. CASE n # 0
  <2>0. n \in Nat /\ n - 1 \in Nat /\ n - 1 \in 0..(n - 1) /\ 0 \in 0..(n - 1) /\ (n - 1) + 1 = n
    BY <1>2
  <2>1. 0..(n - 1) \subseteq T
    <3>. HIDE DEF Step
    <3>1. Body([k \in 1..1 |-> seqs[1]], 0 + 1) = [k \in 1..1 |-> seqs[1]]
      OBVIOUS
    <3>2. ASSUME NEW m \in 0..(n-2), NEW f, f = Body(f, m + 1)
          PROVE  More(f, m + 1) = Body(More(f, m + 1), (m + 1) + 1)
      <4>1. \A k \in 1..(m + 2) : k # 1 /\ k # m + 2 => k \in 1..(m + 1) /\ k - 1 \in 1..(m + 1)
        OBVIOUS
      <4>2. \A k \in 1..(m + 2) : k # 1 => k - 1 \in 1..(m + 1) /\ k - 1 \in 1..(m + 2) /\ k - 1 # m + 2
        OBVIOUS
      <4>3. \A k \in 1..(m + 1) : f[k] = IF k = 1 THEN seqs[k] ELSE Step(f[k - 1], k)
        BY <3>2
      <4>. QED  BY <4>1, <4>2, <4>3
    <3>. HIDE DEF Body, More, n
    <3>3. 0 \in T
      BY <3>1, <2>0
    <3>4. \A m \in 0..((n-1)-1) : m \in T => m + 1 \in T
      BY <3>2, <2>0
    <3>. HIDE DEF T
    <3>. QED  BY <2>0, <3>3, <3>4, UpTo
  <2>2. Upto = Body(Upto, n)
    <3>. HIDE DEF Body, n
    <3>. QED  BY <2>0, <2>1
  <2>3. FlattenSeq(seqs) = Upto[n]
    BY <1>2 DEF FlattenSeq
  <2>4. \A k \in 1..n : Upto[k] = IF k = 1 THEN seqs[k] ELSE Step(Upto[k - 1], k)
    <3>. HIDE DEF Upto, Step
    <3>. QED  BY <2>2
  <2>5. 0 \in Q
    <3>. HIDE DEF Upto
    <3>. QED  BY <2>0, <2>4
  <2>6. \A m \in 0..((n-1)-1) : m \in Q => m + 1 \in Q
    <3>. HIDE DEF Upto
    <3>1. \A m \in 0..((n-1)-1) : /\ (m + 1) + 1 \in 1..n /\ (m + 1) + 1 # 1 /\ m + 1 \in 0..(n-1)
                                  /\ ((m + 1) + 1) - 1 = m + 1
      BY <2>0
    <3>2. \A m \in 0..((n-1)-1) : Upto[(m + 1) + 1] = Upto[m + 1] \o seqs[(m + 1) + 1]
      BY <2>4, <3>1
    <3>3. \A m \in 0..((n-1)-1) : seqs[(m + 1) + 1] \in Seq(S)
      BY <3>1
    <3>4. ASSUME NEW m \in 0..((n-1)-1), Upto[m + 1] \in Seq(S) PROVE Upto[(m + 1) + 1] \in Seq(S)
      <4>1. Upto[(m + 1) + 1] = Upto[m + 1] \o seqs[(m + 1) + 1] /\ seqs[(m + 1) + 1] \in Seq(S)
        BY <3>2, <3>3
      <4>. QED  BY <3>4, <4>1
    <3>. QED  BY <3>1, <3>4
  <2>7. 0..(n-1) \subseteq Q
    <3>. HIDE DEF Q, n
    <3>. QED  BY <2>0, <2>5, <2>6, UpTo
  <2>8. Upto[n] \in Seq(S)
    BY <2>0, <2>7
  <2>. QED  BY <2>3, <2>8
<1>. QED  BY <1>1, <1>2

-----------------------------------------------------------------------------
(***************************************************************************)
(* The input stays what a linker writes: the converter changes words only. *)
(***************************************************************************)
LEMMA NumbersAre ==
  Max32 \in Nat /\ 0 \in U32 /\ U32 \subseteq Nat /\ CodeAddress \in Nat /\ DataAddress \in Nat
  /\ WiiuLoadAddress \in Nat /\ CodeAddress > 0 /\ CodeAddress < DataAddress
  /\ DataAddress < WiiuLoadAddress /\ WiiuLoadAddress < Max32 /\ LoadAddress \in Nat
  /\ CodeAddress \in U32 /\ DataAddress \in U32 /\ LoadAddress > 0
<1>1. Max32 \in Nat /\ CodeAddress \in Nat /\ DataAddress \in Nat /\ WiiuLoadAddress \in Nat /\ LoadAddress \in Nat
  BY AddressesAssumption
<1>2. 0 < LoadAddress /\ LoadAddress < CodeAddress /\ CodeAddress < DataAddress
      /\ DataAddress < WiiuLoadAddress /\ WiiuLoadAddress < Max32
  BY AddressesAssumption
<1>. QED  BY <1>1, <1>2 DEF U32

LEMMA WrappedIn ==
  ASSUME NEW m \in Nat
  PROVE  Wrapped(m) \in U32
<1>1. PICK M \in Nat : M = Max32
  BY NumbersAre
<1>2. m % (M + 1) \in 0..M
  OBVIOUS
<1>. QED  BY <1>1, <1>2 DEF Wrapped, U32

LEMMA InSectionOfIs ==
  ASSUME NEW types, NEW D, NEW s \in InSectionOf(types, D)
  PROVE  /\ s.name \in Name /\ s.type \in types /\ s.addr \in Nat /\ s.size \in Nat
         /\ s.data \in Seq(D) /\ Len(s.data) \in Nat /\ DOMAIN s.data = 1..Len(s.data)
<1>1. s.name \in Name /\ s.type \in types /\ s.addr \in U32 /\ s.size \in U32 /\ s.data \in Seq(D)
  BY DEF InSectionOf
<1>2. s.addr \in Nat /\ s.size \in Nat
  BY <1>1, NumbersAre
<1>. QED  BY <1>1, <1>2

LEMMA InSectionIs ==
  ASSUME NEW s \in InSection
  PROVE  /\ s.name \in Name /\ s.type \in DOMAIN EntrySize /\ s.addr \in Nat /\ s.size \in Nat
         /\ Len(s.data) \in Nat /\ DOMAIN s.data = 1..Len(s.data)
         /\ s.type = "PROGBITS" => s \in InSectionOf({"PROGBITS"}, U32) /\ s.data \in Seq(U32)
         /\ s.type = "NOBITS" => s \in InSectionOf({"NOBITS", "NULL"}, {})
         /\ s.type \in {"SYMTAB", "DYNSYM"} => s.data \in Seq(InSymbol)
         /\ s.type = "RELA" => s.data \in Seq(InRela)
<1>0. DOMAIN EntrySize = {"PROGBITS", "RELA", "SYMTAB", "DYNSYM", "NOBITS", "NULL"}
  BY DEF EntrySize
<1>1. CASE s \in InSectionOf({"PROGBITS"}, U32)
  BY <1>0, <1>1, InSectionOfIs
<1>2. CASE s \in InSectionOf({"SYMTAB", "DYNSYM"}, InSymbol)
  BY <1>0, <1>2, InSectionOfIs
<1>3. CASE s \in InSectionOf({"RELA"}, InRela)
  BY <1>0, <1>3, InSectionOfIs
<1>4. CASE s \in InSectionOf({"NOBITS", "NULL"}, {})
  BY <1>0, <1>4, InSectionOfIs
<1>. QED  BY <1>1, <1>2, <1>3, <1>4 DEF InSection

(* An assignment to a place keeps a sequence one, whatever the place.      *)
LEMMA ReplacedIn ==
  ASSUME NEW S, NEW q \in Seq(S), NEW i, NEW v \in S
  PROVE  [q EXCEPT ![i] = v] \in Seq(S) /\ Len([q EXCEPT ![i] = v]) = Len(q)
<1>1. PICK n \in Nat : n = Len(q)
  OBVIOUS
<1>2. q = [k \in 1..n |-> q[k]] /\ DOMAIN q = 1..n /\ \A k \in 1..n : q[k] \in S
  BY <1>1
<1>3. [q EXCEPT ![i] = v] = [k \in 1..n |-> IF k = i THEN v ELSE q[k]]
  BY <1>2, Zenon
<1>. DEFINE r == [k \in 1..n |-> IF k = i THEN v ELSE q[k]]
<1>4. r \in Seq(S) /\ Len(r) = n
  BY <1>2
<1>. QED  BY <1>1, <1>3, <1>4

LEMMA LoaderIn ==
  ASSUME NEW ss \in Seq(InSection), NEW a, Holds(ss, a)
  PROVE  Min(Loader(ss, a)) \in DOMAIN ss /\ Min(Loader(ss, a)) \in Loader(ss, a)
<1>1. Loader(ss, a) \subseteq Nat /\ Loader(ss, a) \subseteq DOMAIN ss
  BY DEF Loader
<1>2. Min(Loader(ss, a)) \in Loader(ss, a)
  BY <1>1, Least DEF Holds
<1>. QED  BY <1>1, <1>2

LEMMA WordIn ==
  ASSUME NEW ss, WellFormed(ss), NEW a \in Nat
  PROVE  Word(ss, a) \in U32
<1>. DEFINE i == Min(Loader(ss, a))
            s == ss[i]
<1>1. CASE ~(Holds(ss, a) /\ s.type = "PROGBITS")
  BY <1>1, NumbersAre DEF Word
<1>2. CASE Holds(ss, a) /\ s.type = "PROGBITS"
  <2>1. ss \in Seq(InSection)
    BY DEF WellFormed
  <2>2. i \in DOMAIN ss /\ s.addr <= a /\ a < s.addr + InSize(s)
    BY <1>2, <2>1, LoaderIn DEF Loader
  <2>. HIDE DEF s, i
  <2>3. s \in InSection
    BY <2>1, <2>2 DEF s
  <2>4. s.addr \in Nat /\ s.data \in Seq(U32) /\ Len(s.data) \in Nat
    BY <1>2, <2>3, InSectionIs
  <2>5. InSize(s) = 4 * Len(s.data)
    BY <1>2 DEF InSize, EntrySize
  <2>6. PICK b \in Nat, n \in Nat : b = s.addr /\ n = Len(s.data) /\ b <= a /\ a < b + 4 * n
    BY <2>2, <2>4, <2>5
  <2>7. ((a - b) \div 4) + 1 \in 1..n
    BY <2>6
  <2>8. s.data[WordAt(s, a)] \in U32
    BY <2>4, <2>6, <2>7 DEF WordAt
  <2>. QED  BY <1>2, <2>8 DEF Word, s, i
<1>. QED  BY <1>1, <1>2

LEMMA StoredKeeps ==
  ASSUME NEW ss, WellFormed(ss), NEW a, NEW v \in U32
  PROVE  WellFormed(Stored(ss, a, v))
<1>. DEFINE i == Min(Loader(ss, a))
            s == ss[i]
            new == [s EXCEPT !.data = [@ EXCEPT ![WordAt(s, a)] = v]]
            rs == [ss EXCEPT ![i] = new]
<1>0. ss \in Seq(InSection)
  BY DEF WellFormed
<1>1. CASE ~(Holds(ss, a) /\ s.type = "PROGBITS")
  BY <1>1 DEF Stored
<1>2. CASE Holds(ss, a) /\ s.type = "PROGBITS"
  <2>1. i \in DOMAIN ss
    BY <1>0, <1>2, LoaderIn
  <2>2. Stored(ss, a, v) = rs
    BY <1>2, <2>1 DEF Stored
  <2>. HIDE DEF i
  <2>3. s \in InSection
    BY <1>0, <2>1
  <2>4. s \in InSectionOf({"PROGBITS"}, U32)
    BY <1>2, <2>3, InSectionIs
  <2>. DEFINE w == WordAt(s, a)
  <2>5. [s.data EXCEPT ![w] = v] \in Seq(U32)
    <3>. HIDE DEF w, s
    <3>1. s.data \in Seq(U32)
      BY <2>4, InSectionOfIs
    <3>. QED  BY <3>1, ReplacedIn
  <2>6. new \in InSectionOf({"PROGBITS"}, U32) /\ new.name = s.name /\ new.type = s.type
        /\ DOMAIN new.data = DOMAIN s.data
    <3>. HIDE DEF w, s
    <3>. QED  BY <2>4, <2>5 DEF InSectionOf
  <2>. HIDE DEF new, s, w
  <2>7. new \in InSection
    BY <2>6 DEF InSection
  <2>8. rs \in Seq(InSection) /\ DOMAIN rs = DOMAIN ss
    BY <1>0, <2>1, <2>7
  <2>9. ASSUME NEW k \in DOMAIN ss
        PROVE  /\ rs[k].name = ss[k].name /\ rs[k].type = ss[k].type
               /\ DOMAIN rs[k].data = DOMAIN ss[k].data
               /\ ss[k].type = "RELA" => rs[k] = ss[k]
    <3>1. CASE k = i
      <4>1. rs[k] = new /\ ss[k] = s
        BY <1>0, <2>1, <3>1 DEF s
      <4>. QED  BY <1>2, <2>6, <4>1
    <3>2. CASE k # i
      BY <1>0, <3>2
    <3>. QED  BY <3>1, <3>2
  <2>. HIDE DEF rs
  <2>10. WellFormed(rs)
    <3>1. ASSUME NEW k \in DOMAIN ss, ss[k].type = "RELA"
          PROVE  /\ rs[k].link \in DOMAIN ss /\ rs[rs[k].link].type \in {"SYMTAB", "DYNSYM"}
                 /\ \A j \in DOMAIN rs[k].data : rs[k].data[j].index + 1 \in DOMAIN rs[rs[k].link].data
      <4>1. rs[k] = ss[k]
        BY <2>9, <3>1
      <4>2. ss[k].link \in DOMAIN ss /\ ss[ss[k].link].type \in {"SYMTAB", "DYNSYM"}
            /\ \A j \in DOMAIN ss[k].data : ss[k].data[j].index + 1 \in DOMAIN ss[ss[k].link].data
        BY <3>1 DEF WellFormed
      <4>3. rs[ss[k].link].type = ss[ss[k].link].type /\ DOMAIN rs[ss[k].link].data = DOMAIN ss[ss[k].link].data
        BY <2>9, <4>2
      <4>. QED  BY <4>1, <4>2, <4>3
    <3>2. ASSUME NEW k \in DOMAIN ss, rs[k].name = <<".lib.rplLibs">> PROVE rs[k].type = "PROGBITS"
      BY <2>9, <3>2 DEF WellFormed
    <3>3. \A k \in DOMAIN ss : rs[k].type = "RELA" => ss[k].type = "RELA"
      BY <2>9
    <3>. QED  BY <2>8, <3>1, <3>2, <3>3 DEF WellFormed
  <2>. QED  BY <2>2, <2>10
<1>. QED  BY <1>1, <1>2

(* Word by word.                                                           *)
StoredRounds(f, ss, words) ==
  /\ f[0] = ss
  /\ \A k \in 1..Len(words) : f[k] = Stored(f[k - 1], words[k].at, words[k].value)
  /\ AllStored(ss, words) = f[Len(words)]

LEMMA AllStoredIs ==
  ASSUME NEW ss, NEW words, NEW n \in Nat, n = Len(words)
  PROVE  \E f : StoredRounds(f, ss, words)
<1>. DEFINE Step(r, k) == Stored(r, words[k].at, words[k].value)
            Body(f, m) == [k \in 0..m |-> IF k = 0 THEN ss ELSE Step(f[k - 1], k)]
            More(f, m) == [k \in 0..(m + 1) |-> IF k = m + 1 THEN Step(f[m], m + 1) ELSE f[k]]
            T == {m \in 0..n : \E f : f = Body(f, m)}
            Upto == CHOOSE f : f = Body(f, n)
<1>1. 0..n \subseteq T
  <2>. HIDE DEF Step
  <2>1. Body([k \in 0..0 |-> ss], 0) = [k \in 0..0 |-> ss]
    OBVIOUS
  <2>2. ASSUME NEW m \in 0..(n-1), NEW f, f = Body(f, m)
        PROVE  More(f, m) = Body(More(f, m), m + 1)
    <3>1. \A k \in 0..(m + 1) : k # 0 /\ k # m + 1 => k \in 0..m /\ k - 1 \in 0..m
      OBVIOUS
    <3>2. \A k \in 0..(m + 1) : k # 0 => k - 1 \in 0..m /\ k - 1 \in 0..(m + 1) /\ k - 1 # m + 1
      OBVIOUS
    <3>3. \A k \in 0..m : f[k] = IF k = 0 THEN ss ELSE Step(f[k - 1], k)
      BY <2>2
    <3>. QED  BY <3>1, <3>2, <3>3
  <2>. HIDE DEF Body, More
  <2>3. 0 \in T
    BY <2>1
  <2>4. \A m \in 0..(n-1) : m \in T => m + 1 \in T
    BY <2>2
  <2>. HIDE DEF T
  <2>. QED  BY <2>3, <2>4, UpTo
<1>2. Upto = Body(Upto, n)
  <2>. HIDE DEF Body
  <2>. QED  BY <1>1
<1>3. AllStored(ss, words) = Upto[n]
  BY DEF AllStored
<1>4. Upto[0] = ss /\ \A k \in 1..n : Upto[k] = Step(Upto[k - 1], k)
  <2>. HIDE DEF Upto, Step
  <2>1. \A k \in 1..n : k \in 0..n /\ k # 0
    OBVIOUS
  <2>. QED  BY <1>2, <2>1
<1>. HIDE DEF Upto
<1>. QED  BY <1>3, <1>4 DEF StoredRounds

LEMMA AllStoredKeeps ==
  ASSUME NEW ss, WellFormed(ss), NEW words, NEW n \in Nat, n = Len(words),
         \A k \in 1..n : words[k].value \in U32
  PROVE  WellFormed(AllStored(ss, words))
<1>0. PICK f : StoredRounds(f, ss, words)
  BY AllStoredIs
<1>1. /\ f[0] = ss
      /\ \A k \in 1..n : f[k] = Stored(f[k - 1], words[k].at, words[k].value)
      /\ AllStored(ss, words) = f[n]
  BY <1>0 DEF StoredRounds
<1>. DEFINE T == {k \in 0..n : WellFormed(f[k])}
<1>2. 0 \in T
  BY <1>1
<1>3. ASSUME NEW k \in 0..(n-1), k \in T PROVE k + 1 \in T
  <2>1. k + 1 \in 1..n /\ (k + 1) - 1 = k /\ k + 1 \in 0..n
    OBVIOUS
  <2>2. f[k + 1] = Stored(f[k], words[k + 1].at, words[k + 1].value) /\ words[k + 1].value \in U32
    BY <1>1, <2>1
  <2>3. WellFormed(f[k + 1])
    BY <1>3, <2>2, StoredKeeps
  <2>. QED  BY <2>1, <2>3
<1>4. 0..n \subseteq T
  <2>. HIDE DEF T
  <2>. QED  BY <1>2, <1>3, UpTo
<1>5. n \in 0..n
  OBVIOUS
<1>. QED  BY <1>1, <1>4, <1>5

Rela == [rela : InRela, symbol : InSymbol]

LEMMA RelasIn ==
  ASSUME NEW ss, WellFormed(ss), NEW dyn
  PROVE  Relas(ss, dyn) \in Seq(Rela)
<1>. DEFINE one(i) == IF ss[i].type # "RELA" \/ (ss[i].name = Dyn) # dyn THEN <<>>
                      ELSE [k \in DOMAIN ss[i].data |->
                               [rela |-> ss[i].data[k],
                                symbol |-> ss[ss[i].link].data[ss[i].data[k].index + 1]]]
<1>0. ss \in Seq(InSection)
  BY DEF WellFormed
<1>1. ASSUME NEW i \in DOMAIN ss PROVE one(i) \in Seq(Rela)
  <2>1. CASE ss[i].type # "RELA" \/ (ss[i].name = Dyn) # dyn
    BY <2>1
  <2>2. CASE ~(ss[i].type # "RELA" \/ (ss[i].name = Dyn) # dyn)
    <3>1. ss[i] \in InSection /\ ss[i].type = "RELA"
      BY <1>0, <2>2
    <3>2. ss[i].data \in Seq(InRela) /\ DOMAIN ss[i].data = 1..Len(ss[i].data) /\ Len(ss[i].data) \in Nat
      BY <3>1, InSectionIs
    <3>3. /\ ss[i].link \in DOMAIN ss /\ ss[ss[i].link].type \in {"SYMTAB", "DYNSYM"}
          /\ \A k \in DOMAIN ss[i].data : ss[i].data[k].index + 1 \in DOMAIN ss[ss[i].link].data
      BY <3>1 DEF WellFormed
    <3>4. ss[ss[i].link] \in InSection
      BY <1>0, <3>3
    <3>5. ss[ss[i].link].data \in Seq(InSymbol)
      BY <3>3, <3>4, InSectionIs
    <3>6. \A k \in 1..Len(ss[i].data) :
             /\ ss[i].data[k] \in InRela
             /\ ss[ss[i].link].data[ss[i].data[k].index + 1] \in InSymbol
      BY <3>2, <3>3, <3>5
    <3>7. one(i) = [k \in 1..Len(ss[i].data) |->
                       [rela |-> ss[i].data[k],
                        symbol |-> ss[ss[i].link].data[ss[i].data[k].index + 1]]]
      BY <2>2, <3>2
    <3>. HIDE DEF one
    <3>. QED  BY <3>2, <3>6, <3>7 DEF Rela
  <2>. QED  BY <2>1, <2>2
<1>. HIDE DEF one
<1>2. [i \in DOMAIN ss |-> one(i)] \in Seq(Seq(Rela))
  BY <1>0, <1>1
<1>3. FlattenSeq([i \in DOMAIN ss |-> one(i)]) \in Seq(Rela)
  BY <1>2, FlattenIn
<1>. QED  BY <1>3 DEF Relas, one

-----------------------------------------------------------------------------
(***************************************************************************)
(* The file in memory.                                                     *)
(***************************************************************************)
IsSeq(s) == s \in Seq({s[i] : i \in DOMAIN s})

Sym == [name : Name, address : Nat, size : Nat, type : SymbolTypes, binding : Bindings]
Import == [trampAddr : Nat, stubAddr : Nat, symbol : Nat]
Lib == [name : Name, imports : Seq(Import)]
FileSection == {s \in InSection : s.type \in {"PROGBITS", "NOBITS"}}

FileOk(f) ==
  /\ DOMAIN f = {"sections", "symbols", "heap", "relocations", "libs"}
  /\ f.sections \in Seq(FileSection)
  /\ f.heap \in Seq(Sym)
  /\ f.symbols \in Seq(1..Len(f.heap))
  /\ f.libs \in Seq(Lib)
  /\ IsSeq(f.relocations)

LEMMA SeqIs ==
  ASSUME NEW s
  PROVE  /\ \A S : s \in Seq(S) => IsSeq(s)
         /\ IsSeq(s) => Len(s) \in Nat /\ DOMAIN s = 1..Len(s)
<1>1. ASSUME NEW S, s \in Seq(S) PROVE IsSeq(s)
  <2>1. DOMAIN s = 1..Len(s) /\ Len(s) \in Nat
    BY <1>1
  <2>2. \A i \in 1..Len(s) : s[i] \in {s[j] : j \in DOMAIN s}
    BY <2>1
  <2>3. s = [i \in 1..Len(s) |-> s[i]]
    BY <1>1, <2>1
  <2>. DEFINE D == {s[j] : j \in DOMAIN s}
  <2>. HIDE DEF D
  <2>4. s \in Seq(D)
    <3>1. \A i \in 1..Len(s) : s[i] \in D
      BY <2>2 DEF D
    <3>. QED  BY <2>1, <2>3, <3>1, <1>1
  <2>. QED  BY <2>4 DEF IsSeq, D
<1>2. ASSUME IsSeq(s) PROVE Len(s) \in Nat /\ DOMAIN s = 1..Len(s)
  <2>. DEFINE D == {s[j] : j \in DOMAIN s}
  <2>1. s \in Seq(D)
    BY <1>2 DEF IsSeq
  <2>. HIDE DEF D
  <2>. QED  BY <2>1
<1>. QED  BY <1>1, <1>2

LEMMA JoinedIsSeq ==
  ASSUME NEW s, IsSeq(s), NEW t, IsSeq(t)
  PROVE  IsSeq(s \o t) /\ Len(s \o t) = Len(s) + Len(t)
         /\ (\A i \in 1..Len(s) : (s \o t)[i] = s[i])
         /\ (\A i \in 1..Len(t) : (s \o t)[Len(s) + i] = t[i])
<1>. DEFINE A == {s[j] : j \in DOMAIN s}
            B == {t[j] : j \in DOMAIN t}
            D == A \cup B
<1>1. s \in Seq(A) /\ t \in Seq(B)
  BY DEF IsSeq
<1>. HIDE DEF A, B
<1>2. s \in Seq(D) /\ t \in Seq(D)
  BY <1>1
<1>. HIDE DEF D
<1>3. s \o t \in Seq(D) /\ Len(s \o t) = Len(s) + Len(t)
      /\ (\A i \in 1..Len(s) : (s \o t)[i] = s[i])
      /\ (\A i \in 1..Len(t) : (s \o t)[Len(s) + i] = t[i])
  BY <1>2
<1>. QED  BY <1>3, SeqIs

(* A function on 1..n is a sequence.                                       *)
LEMMA TableIsSeq ==
  ASSUME NEW n \in Nat, NEW f, f = [i \in 1..n |-> f[i]]
  PROVE  IsSeq(f) /\ Len(f) = n /\ DOMAIN f = 1..n
<1>. DEFINE D == {f[j] : j \in 1..n}
<1>1. \A i \in 1..n : f[i] \in D
  OBVIOUS
<1>. HIDE DEF D
<1>2. f \in Seq(D) /\ Len(f) = n /\ DOMAIN f = 1..n
  BY <1>1
<1>. QED  BY <1>2, SeqIs

LEMMA TableIn ==
  ASSUME NEW n \in Nat, NEW S, NEW f, f = [i \in 1..n |-> f[i]], \A i \in 1..n : f[i] \in S
  PROVE  f \in Seq(S) /\ Len(f) = n
OBVIOUS

LEMMA WiderSeq ==
  ASSUME NEW S, NEW T, S \subseteq T, NEW q \in Seq(S)
  PROVE  q \in Seq(T)
OBVIOUS

LEMMA WithSymbolsKeeps ==
  ASSUME NEW f, FileOk(f), NEW syms \in Seq(Sym)
  PROVE  LET g == WithSymbols(f, syms)
         IN  /\ FileOk(g)
             /\ Len(g.heap) = Len(f.heap) + Len(syms)
             /\ Len(g.symbols) = Len(f.symbols) + Len(syms)
             /\ g.libs = f.libs /\ g.sections = f.sections /\ g.relocations = f.relocations
             /\ g.heap = f.heap \o syms
<1>. DEFINE h == f.heap \o syms
            ids == [i \in 1..Len(syms) |-> Len(f.heap) + i]
            g == [f EXCEPT !.heap = h, !.symbols = f.symbols \o ids]
            N == 1..(Len(f.heap) + Len(syms))
<1>1. WithSymbols(f, syms) = g
  BY DEF WithSymbols
<1>2. f.heap \in Seq(Sym) /\ f.symbols \in Seq(1..Len(f.heap)) /\ Len(f.heap) \in Nat /\ Len(syms) \in Nat
  BY DEF FileOk
<1>3. h \in Seq(Sym) /\ Len(h) = Len(f.heap) + Len(syms)
  BY <1>2
<1>4. ids \in Seq(N) /\ Len(ids) = Len(syms)
  <2>1. \A i \in 1..Len(syms) : Len(f.heap) + i \in N
    BY <1>2
  <2>. HIDE DEF N
  <2>2. ids = [i \in 1..Len(syms) |-> ids[i]] /\ \A i \in 1..Len(syms) : ids[i] \in N
    BY <2>1
  <2>. HIDE DEF ids
  <2>. QED  BY <1>2, <2>2, TableIn
<1>5. f.symbols \in Seq(N)
  <2>1. PICK M : M = 1..Len(f.heap) /\ M \subseteq N
    BY <1>2
  <2>. HIDE DEF N
  <2>. QED  BY <1>2, <2>1, WiderSeq
<1>6. f.symbols \o ids \in Seq(N) /\ Len(f.symbols \o ids) = Len(f.symbols) + Len(syms)
  <2>. HIDE DEF N, ids
  <2>. QED  BY <1>4, <1>5
<1>. HIDE DEF h, ids
<1>7. /\ DOMAIN g = DOMAIN f /\ g.heap = h /\ g.symbols = f.symbols \o ids
      /\ g.libs = f.libs /\ g.sections = f.sections /\ g.relocations = f.relocations
  BY DEF FileOk
<1>. HIDE DEF g
<1>8. FileOk(g)
  <2>1. 1..Len(h) = N
    BY <1>3
  <2>2. g.symbols \in Seq(1..Len(g.heap))
    BY <1>6, <1>7, <2>1
  <2>. QED  BY <1>3, <1>7, <2>2 DEF FileOk
<1>. QED  BY <1>1, <1>3, <1>6, <1>7, <1>8 DEF h

LEMMA FindSymbolIn ==
  ASSUME NEW f, FileOk(f), NEW a
  PROVE  FindSymbol(f, a) # Null => FindSymbol(f, a) \in 1..Len(f.heap)
<1>. DEFINE found == {i \in DOMAIN f.symbols : f.heap[f.symbols[i]].address = a}
            typed == {i \in found : f.heap[f.symbols[i]].type # "NOTYPE"}
            S == IF typed = {} THEN found ELSE typed
<1>1. f.symbols \in Seq(1..Len(f.heap)) /\ DOMAIN f.symbols = 1..Len(f.symbols) /\ Len(f.symbols) \in Nat
  BY DEF FileOk
<1>2. CASE found = {}
  BY <1>2 DEF FindSymbol
<1>3. CASE found # {}
  <2>1. S # {} /\ S \subseteq DOMAIN f.symbols
    BY <1>3
  <2>2. FindSymbol(f, a) = f.symbols[Min(S)]
    BY <1>3 DEF FindSymbol
  <2>. HIDE DEF S
  <2>3. S \subseteq Nat
    BY <1>1, <2>1
  <2>4. Min(S) \in DOMAIN f.symbols
    BY <2>1, <2>3, Least
  <2>. QED  BY <1>1, <2>2, <2>4
<1>. QED  BY <1>2, <1>3

LEMMA SymbolIn ==
  ASSUME NEW name \in Name, NEW address \in Nat, NEW size \in Nat, NEW type \in SymbolTypes,
         NEW binding \in Bindings
  PROVE  Symbol(name, address, size, type, binding) \in Sym
BY DEF Symbol, Sym

LEMMA NamePartsIn ==
  /\ <<>> \in Name /\ <<"$TEXT">> \in Name /\ <<"$DATA">> \in Name /\ <<"$UNDEF">> \in Name
  /\ <<".rela">> \in Name /\ <<".fimport_">> \in Name /\ <<".symtab">> \in Name
  /\ <<".strtab">> \in Name /\ <<".shstrtab">> \in Name
  /\ \A name \in Name : /\ Append(name, "_tramp") \in Name
                        /\ <<".rela">> \o name \in Name /\ <<".fimport_">> \o name \in Name
<1>1. {"$TEXT", "$DATA", "$UNDEF", "_tramp", ".rela", ".fimport_", ".symtab", ".strtab",
       ".shstrtab"} \subseteq DOMAIN Bytes
  BY NamesAssumption
<1>. DEFINE P == DOMAIN Bytes
<1>2. /\ "$TEXT" \in P /\ "$DATA" \in P /\ "$UNDEF" \in P /\ "_tramp" \in P /\ ".rela" \in P
      /\ ".fimport_" \in P /\ ".symtab" \in P /\ ".strtab" \in P /\ ".shstrtab" \in P
  BY <1>1
<1>3. Name = Seq(P)
  BY DEF Name
<1>. HIDE DEF P
<1>4. <<".rela">> \in Seq(P) /\ <<".fimport_">> \in Seq(P)
  BY <1>2
<1>. QED  BY <1>2, <1>3, <1>4

-----------------------------------------------------------------------------
(***************************************************************************)
(* Reading: the symbols and the imports.                                   *)
(***************************************************************************)
ImportOk(w, m) ==
  /\ DOMAIN w = {"file", "lost"} /\ FileOk(w.file)
  /\ Len(w.file.symbols) >= 4 /\ Len(w.file.libs) = m

LEMMA ReadImportKeeps ==
  ASSUME NEW w, NEW m \in Nat, ImportOk(w, m), WellFormed(in.sections),
         NEW lib \in 1..m, NEW stub \in Nat
  PROVE  ImportOk(ReadImport(w, lib, stub), m)
<1>. DEFINE addr  == Word(in.sections, stub)
            tramp == FindSymbol(w.file, addr)
            sym   == Symbol(w.file.heap[tramp].name, 0, 0, "FUNC", "GLOBAL")
            new   == WithSymbols(w.file, <<sym>>)
            named == [new.heap[tramp] EXCEPT !.name = Append(@, "_tramp")]
            imp   == [trampAddr |-> addr, stubAddr |-> stub, symbol |-> Len(new.heap)]
            more  == [new.libs[lib] EXCEPT !.imports = Append(@, imp)]
            g     == [new EXCEPT !.heap = [new.heap EXCEPT ![tramp] = named],
                                 !.libs = [new.libs EXCEPT ![lib] = more]]
<1>0. FileOk(w.file) /\ DOMAIN w = {"file", "lost"}
  BY DEF ImportOk
<1>1. CASE w.lost \/ ~Holds(in.sections, stub) \/ tramp = Null
  <2>1. ReadImport(w, lib, stub) = [w EXCEPT !.lost = TRUE]
    BY <1>1 DEF ReadImport
  <2>2. DOMAIN [w EXCEPT !.lost = TRUE] = DOMAIN w /\ [w EXCEPT !.lost = TRUE].file = w.file
    BY <1>0
  <2>. QED  BY <2>1, <2>2 DEF ImportOk
<1>2. CASE ~(w.lost \/ ~Holds(in.sections, stub) \/ tramp = Null)
  <2>1. ReadImport(w, lib, stub) = [w EXCEPT !.file = g]
    BY <1>2 DEF ReadImport
  <2>2. addr \in U32 /\ addr \in Nat
    BY WordIn, NumbersAre
  <2>3. tramp \in 1..Len(w.file.heap)
    BY <1>0, <1>2, FindSymbolIn
  <2>. HIDE DEF addr, tramp
  <2>4. w.file.heap \in Seq(Sym) /\ Len(w.file.heap) \in Nat
    BY <1>0 DEF FileOk
  <2>5. w.file.heap[tramp].name \in Name
    <3>1. w.file.heap[tramp] \in Sym
      BY <2>3, <2>4
    <3>. QED  BY <3>1 DEF Sym
  <2>6. sym \in Sym
    <3>1. "FUNC" \in SymbolTypes /\ "GLOBAL" \in Bindings
      BY DEF SymbolTypes, Bindings
    <3>2. 0 \in Nat
      OBVIOUS
    <3>. QED  BY <2>5, <3>1, <3>2, SymbolIn, Zenon
  <2>. HIDE DEF sym
  <2>7. /\ FileOk(new) /\ new.libs = w.file.libs
        /\ Len(new.heap) = Len(w.file.heap) + 1 /\ Len(new.symbols) = Len(w.file.symbols) + 1
    <3>1. <<sym>> \in Seq(Sym) /\ Len(<<sym>>) = 1
      BY <2>6
    <3>. QED  BY <1>0, <3>1, WithSymbolsKeeps
  <2>. HIDE DEF new
  <2>8. new.heap \in Seq(Sym) /\ Len(new.heap) \in Nat /\ tramp \in 1..Len(new.heap)
    BY <2>3, <2>4, <2>7 DEF FileOk
  <2>9. named \in Sym
    <3>1. PICK s \in Sym : s = new.heap[tramp]
      BY <2>8
    <3>2. Append(s.name, "_tramp") \in Name
      BY NamePartsIn DEF Sym
    <3>3. [s EXCEPT !.name = Append(@, "_tramp")] \in Sym
      BY <3>2 DEF Sym
    <3>. QED  BY <3>1, <3>3
  <2>10. imp \in Import
    BY <2>2, <2>8 DEF Import
  <2>. HIDE DEF imp, named
  <2>11. new.libs \in Seq(Lib) /\ Len(new.libs) = m /\ lib \in DOMAIN new.libs
    BY <2>7 DEF FileOk, ImportOk
  <2>12. more \in Lib
    <3>1. PICK l \in Lib : l = new.libs[lib]
      BY <2>11
    <3>2. Append(l.imports, imp) \in Seq(Import)
      BY <2>10 DEF Lib
    <3>3. [l EXCEPT !.imports = Append(@, imp)] \in Lib
      BY <3>2 DEF Lib
    <3>. QED  BY <3>1, <3>3
  <2>. HIDE DEF more
  <2>. DEFINE hp == [new.heap EXCEPT ![tramp] = named]
              lb == [new.libs EXCEPT ![lib] = more]
  <2>13. hp \in Seq(Sym) /\ Len(hp) = Len(new.heap)
    BY <2>8, <2>9, ReplacedIn
  <2>14. lb \in Seq(Lib) /\ Len(lb) = m
    BY <2>11, <2>12, ReplacedIn
  <2>. HIDE DEF hp, lb
  <2>15. g = [new EXCEPT !.heap = hp, !.libs = lb]
    BY DEF hp, lb
  <2>16. /\ DOMAIN g = DOMAIN new /\ g.heap = hp /\ g.libs = lb /\ g.symbols = new.symbols
         /\ g.sections = new.sections /\ g.relocations = new.relocations
    BY <2>7, <2>15 DEF FileOk
  <2>. HIDE DEF g
  <2>17. FileOk(g)
    BY <2>7, <2>13, <2>14, <2>16 DEF FileOk
  <2>18. DOMAIN [w EXCEPT !.file = g] = DOMAIN w /\ [w EXCEPT !.file = g].file = g
    BY <1>0
  <2>19. Len(g.symbols) >= 4
    <3>1. Len(w.file.symbols) \in Nat /\ Len(w.file.symbols) >= 4
      BY <1>0 DEF FileOk, ImportOk
    <3>. QED  BY <2>7, <2>16, <3>1
  <2>. QED  BY <1>0, <2>1, <2>14, <2>16, <2>17, <2>18, <2>19 DEF ImportOk
<1>. QED  BY <1>1, <1>2

(* Stub by stub.                                                           *)
ImportRounds(f, u, stubs) ==
  /\ f[0] = u
  /\ \A k \in 1..Len(stubs) : f[k] = ReadImport(f[k - 1], stubs[k].lib, stubs[k].addr)
  /\ AllImported(u, stubs) = f[Len(stubs)]

LEMMA AllImportedIs ==
  ASSUME NEW u, NEW stubs, NEW n \in Nat, n = Len(stubs)
  PROVE  \E f : ImportRounds(f, u, stubs)
<1>. DEFINE Step(r, k) == ReadImport(r, stubs[k].lib, stubs[k].addr)
            Body(f, m) == [k \in 0..m |-> IF k = 0 THEN u ELSE Step(f[k - 1], k)]
            More(f, m) == [k \in 0..(m + 1) |-> IF k = m + 1 THEN Step(f[m], m + 1) ELSE f[k]]
            T == {m \in 0..n : \E f : f = Body(f, m)}
            Upto == CHOOSE f : f = Body(f, n)
<1>1. 0..n \subseteq T
  <2>. HIDE DEF Step
  <2>1. Body([k \in 0..0 |-> u], 0) = [k \in 0..0 |-> u]
    OBVIOUS
  <2>2. ASSUME NEW m \in 0..(n-1), NEW f, f = Body(f, m)
        PROVE  More(f, m) = Body(More(f, m), m + 1)
    <3>1. \A k \in 0..(m + 1) : k # 0 /\ k # m + 1 => k \in 0..m /\ k - 1 \in 0..m
      OBVIOUS
    <3>2. \A k \in 0..(m + 1) : k # 0 => k - 1 \in 0..m /\ k - 1 \in 0..(m + 1) /\ k - 1 # m + 1
      OBVIOUS
    <3>3. \A k \in 0..m : f[k] = IF k = 0 THEN u ELSE Step(f[k - 1], k)
      BY <2>2
    <3>. QED  BY <3>1, <3>2, <3>3
  <2>. HIDE DEF Body, More
  <2>3. 0 \in T
    BY <2>1
  <2>4. \A m \in 0..(n-1) : m \in T => m + 1 \in T
    BY <2>2
  <2>. HIDE DEF T
  <2>. QED  BY <2>3, <2>4, UpTo
<1>2. Upto = Body(Upto, n)
  <2>. HIDE DEF Body
  <2>. QED  BY <1>1
<1>3. AllImported(u, stubs) = Upto[n]
  BY DEF AllImported
<1>4. Upto[0] = u /\ \A k \in 1..n : Upto[k] = Step(Upto[k - 1], k)
  <2>. HIDE DEF Upto, Step
  <2>1. \A k \in 1..n : k \in 0..n /\ k # 0
    OBVIOUS
  <2>. QED  BY <1>2, <2>1
<1>. HIDE DEF Upto
<1>. QED  BY <1>3, <1>4 DEF ImportRounds

LEMMA AllImportedKeeps ==
  ASSUME NEW u, NEW m \in Nat, ImportOk(u, m), WellFormed(in.sections),
         NEW stubs \in Seq([lib : 1..m, addr : Nat])
  PROVE  ImportOk(AllImported(u, stubs), m)
<1>. DEFINE n == Len(stubs)
<1>0. n \in Nat /\ \A k \in 1..n : stubs[k].lib \in 1..m /\ stubs[k].addr \in Nat
  <2>1. ASSUME NEW k \in 1..n PROVE stubs[k].lib \in 1..m /\ stubs[k].addr \in Nat
    <3>1. stubs[k] \in [lib : 1..m, addr : Nat]
      BY ElementOfSeq
    <3>. QED  BY <3>1
  <2>2. n \in Nat
    OBVIOUS
  <2>. QED  BY <2>1, <2>2
<1>1. PICK f : ImportRounds(f, u, stubs)
  BY <1>0, AllImportedIs
<1>2. /\ f[0] = u
      /\ \A k \in 1..n : f[k] = ReadImport(f[k - 1], stubs[k].lib, stubs[k].addr)
      /\ AllImported(u, stubs) = f[n]
  BY <1>1 DEF ImportRounds
<1>. DEFINE T == {k \in 0..n : ImportOk(f[k], m)}
<1>. HIDE DEF n
<1>3. 0 \in T
  BY <1>0, <1>2
<1>4. ASSUME NEW k \in 0..(n-1), k \in T PROVE k + 1 \in T
  <2>1. k + 1 \in 1..n /\ (k + 1) - 1 = k /\ k + 1 \in 0..n
    BY <1>0
  <2>2. f[k + 1] = ReadImport(f[k], stubs[k + 1].lib, stubs[k + 1].addr)
        /\ stubs[k + 1].lib \in 1..m /\ stubs[k + 1].addr \in Nat
    BY <1>0, <1>2, <2>1
  <2>3. ImportOk(f[k + 1], m)
    BY <1>4, <2>2, ReadImportKeeps
  <2>. QED  BY <2>1, <2>3
<1>5. 0..n \subseteq T
  <2>. HIDE DEF T
  <2>. QED  BY <1>0, <1>3, <1>4, UpTo
<1>6. n \in 0..n
  BY <1>0
<1>. QED  BY <1>2, <1>5, <1>6

Def == [name : U32, stubStart : U32, stubEnd : U32]

LEMMA LibDefsIn ==
  ASSUME NEW ss, WellFormed(ss)
  PROVE  LibDefs(ss) \in Seq(Def)
<1>. DEFINE Defs(d) == [i \in 1..(Len(d) \div 3) |->
                          [name |-> d[3 * i - 2], stubStart |-> d[3 * i - 1], stubEnd |-> d[3 * i]]]
            one(i) == IF ss[i].name = <<".lib.rplLibs">> THEN Defs(ss[i].data) ELSE <<>>
<1>0. ss \in Seq(InSection)
  BY DEF WellFormed
<1>1. ASSUME NEW d \in Seq(U32) PROVE Defs(d) \in Seq(Def)
  <2>1. PICK n \in Nat : n = Len(d)
    OBVIOUS
  <2>2. PICK m \in Nat : m = n \div 3
    OBVIOUS
  <2>3. \A i \in 1..m : 3 * i - 2 \in 1..n /\ 3 * i - 1 \in 1..n /\ 3 * i \in 1..n
    BY <2>2
  <2>4. \A i \in 1..m : d[3 * i - 2] \in U32 /\ d[3 * i - 1] \in U32 /\ d[3 * i] \in U32
    BY <2>1, <2>3
  <2>5. \A i \in 1..m : [name |-> d[3 * i - 2], stubStart |-> d[3 * i - 1], stubEnd |-> d[3 * i]] \in Def
    BY <2>4 DEF Def
  <2>6. Defs(d) = [i \in 1..m |->
                     [name |-> d[3 * i - 2], stubStart |-> d[3 * i - 1], stubEnd |-> d[3 * i]]]
    BY <2>1, <2>2
  <2>. DEFINE e(i) == [name |-> d[3 * i - 2], stubStart |-> d[3 * i - 1], stubEnd |-> d[3 * i]]
  <2>7. \A i \in 1..m : e(i) \in Def
    BY <2>5
  <2>8. Defs(d) = [i \in 1..m |-> e(i)]
    BY <2>6
  <2>. HIDE DEF e, Defs
  <2>. QED  BY <2>7, <2>8
<1>2. ASSUME NEW i \in DOMAIN ss PROVE one(i) \in Seq(Def)
  <2>1. CASE ss[i].name = <<".lib.rplLibs">>
    <3>1. ss[i] \in InSection /\ ss[i].type = "PROGBITS"
      BY <1>0, <2>1 DEF WellFormed
    <3>2. ss[i].data \in Seq(U32)
      BY <3>1, InSectionIs
    <3>. HIDE DEF Defs
    <3>. QED  BY <1>1, <2>1, <3>2
  <2>2. CASE ss[i].name # <<".lib.rplLibs">>
    <3>1. one(i) = <<>>
      BY <2>2, Zenon
    <3>2. <<>> \in Seq(Def)
      OBVIOUS
    <3>. QED  BY <3>1, <3>2, Zenon
  <2>. QED  BY <2>1, <2>2
<1>3. LibDefs(ss) = FlattenSeq([i \in DOMAIN ss |-> one(i)])
  BY DEF LibDefs
<1>. HIDE DEF one
<1>4. [i \in DOMAIN ss |-> one(i)] \in Seq(Seq(Def))
  BY <1>0, <1>2
<1>. QED  BY <1>3, <1>4, FlattenIn

LEMMA StubsIn ==
  ASSUME NEW lib \in Def
  PROVE  Stubs(lib) \in Seq(Nat)
<1>1. PICK a \in Nat, b \in Nat : a = lib.stubStart /\ b = lib.stubEnd
  BY NumbersAre DEF Def
<1>2. PICK m \in Int : m = (b - a + 3) \div 4
  OBVIOUS
<1>3. Stubs(lib) = [i \in 1..m |-> a + 4 * (i - 1)]
  BY <1>1, <1>2 DEF Stubs
<1>4. CASE m \in Nat
  <2>1. \A i \in 1..m : a + 4 * (i - 1) \in Nat
    BY <1>4
  <2>. QED  BY <1>3, <1>4, <2>1
<1>5. CASE m < 0
  <2>1. 1..m = {} /\ 1..0 = {}
    BY <1>5
  <2>2. [i \in 1..m |-> a + 4 * (i - 1)] = [i \in 1..0 |-> 0]
    BY <2>1
  <2>3. [i \in 1..0 |-> 0] \in Seq(Nat)
    OBVIOUS
  <2>. QED  BY <1>3, <2>2, <2>3
<1>. QED  BY <1>2, <1>4, <1>5

InOk == in \in [header : BOOLEAN, sections : Seq(InSection)] /\ WellFormed(in.sections)

ReadPhases == {"symbols", "imports", "relocations", "dyn", "data sections"}

(* What is read is what the later phases rely on; the default symbols are  *)
(* made with the sections.                                                 *)
ReadOk ==
  /\ InOk /\ FileOk(file)
  /\ pc \in ReadPhases => Len(file.symbols) >= 4

LEMMA InputNext ==
  ASSUME InOk, NEW words, NEW n \in Nat, n = Len(words), \A k \in 1..n : words[k].value \in U32,
         in' = [in EXCEPT !.sections = AllStored(@, words)]
  PROVE  InOk'
<1>. DEFINE ss == AllStored(in.sections, words)
<1>1. WellFormed(ss)
  BY AllStoredKeeps DEF InOk
<1>2. ss \in Seq(InSection)
  BY <1>1 DEF WellFormed
<1>. HIDE DEF ss
<1>3. in' = [in EXCEPT !.sections = ss]
  BY DEF ss
<1>4. in' \in [header : BOOLEAN, sections : Seq(InSection)] /\ in'.sections = ss
  BY <1>2, <1>3 DEF InOk
<1>. QED  BY <1>1, <1>4 DEF InOk

LEMMA RelaIs ==
  ASSUME NEW r \in Rela
  PROVE  /\ Wrapped(r.symbol.value + r.rela.addend) \in U32 /\ r.rela.addend \in U32
<1>1. r.rela \in InRela /\ r.symbol \in InSymbol
  BY DEF Rela
<1>2. r.rela.addend \in U32 /\ r.symbol.value \in U32
  BY <1>1 DEF InRela, InSymbol
<1>3. PICK a \in Nat, b \in Nat : a = r.symbol.value /\ b = r.rela.addend
  BY <1>2, NumbersAre
<1>4. Wrapped(a + b) \in U32
  <2>1. a + b \in Nat
    OBVIOUS
  <2>. QED  BY <2>1, WrappedIn
<1>. QED  BY <1>2, <1>3, <1>4

LEMMA ChosenRelas ==
  ASSUME InOk, NEW dyn, NEW I
  PROVE  /\ Chosen(Relas(in.sections, dyn), I) \in Seq(Rela)
         /\ Relas(in.sections, dyn) \in Seq(Rela)
<1>. DEFINE rs == Relas(in.sections, dyn)
<1>1. rs \in Seq(Rela)
  BY RelasIn DEF InOk
<1>. HIDE DEF rs
<1>2. Len(rs) \in Nat /\ \A k \in 1..Len(rs) : k \in I => rs[k] \in Rela
  BY <1>1
<1>3. Chosen(rs, I) \in Seq(Rela)
  BY <1>2, ChosenIn
<1>. QED  BY <1>1, <1>3 DEF rs

LEMMA LoaderKeeps ==
  ASSUME ReadOk, LoaderRelocations
  PROVE  ReadOk'
<1>. DEFINE relas == Relas(in.sections, TRUE)
            I == {i \in DOMAIN relas : relas[i].rela.type # "NONE"}
            real == Chosen(relas, I)
            word(r) == [at |-> r.rela.offset, value |-> Wrapped(r.symbol.value + r.rela.addend)]
            words == [i \in DOMAIN real |-> word(real[i])]
<1>1. pc' \notin ReadPhases /\ file' = file
  BY DEF LoaderRelocations, ReadPhases
<1>2. CASE UNCHANGED in
  BY <1>1, <1>2 DEF ReadOk, InOk
<1>3. CASE ~UNCHANGED in
  <2>1. in' = [in EXCEPT !.sections = AllStored(@, words)]
    BY <1>3 DEF LoaderRelocations
  <2>2. real \in Seq(Rela)
    <3>. HIDE DEF I
    <3>. QED  BY ChosenRelas DEF ReadOk
  <2>. HIDE DEF real
  <2>3. PICK n \in Nat : n = Len(real) /\ DOMAIN real = 1..n
    BY <2>2
  <2>4. \A k \in 1..n : real[k] \in Rela
    BY <2>2, <2>3
  <2>5. \A k \in 1..n : word(real[k]).value \in U32
    BY <2>4, RelaIs
  <2>6. n = Len(words) /\ \A k \in 1..n : words[k] = word(real[k])
    <3>. HIDE DEF word
    <3>. QED  BY <2>3
  <2>7. \A k \in 1..n : words[k].value \in U32
    BY <2>5, <2>6
  <2>. HIDE DEF words, word
  <2>8. InOk'
    BY <2>1, <2>3, <2>6, <2>7, InputNext DEF ReadOk
  <2>. QED  BY <1>1, <2>8 DEF ReadOk
<1>. QED  BY <1>2, <1>3

LEMMA DefaultSymbolsIn ==
  DefaultSymbols \in Seq(Sym) /\ Len(DefaultSymbols) = 4
<1>1. 0 \in Nat /\ CodeAddress \in Nat /\ DataAddress \in Nat
  BY NumbersAre
<1>2. {"NOTYPE", "SECTION", "OBJECT"} \subseteq SymbolTypes /\ {"LOCAL", "GLOBAL"} \subseteq Bindings
  BY DEF SymbolTypes, Bindings
<1>3. Symbol(<<>>, 0, 0, "NOTYPE", "LOCAL") \in Sym
  BY <1>1, <1>2, NamePartsIn, SymbolIn
<1>4. Symbol(<<"$TEXT">>, CodeAddress, 0, "SECTION", "LOCAL") \in Sym
  BY <1>1, <1>2, NamePartsIn, SymbolIn
<1>5. Symbol(<<"$DATA">>, DataAddress, 0, "SECTION", "LOCAL") \in Sym
  BY <1>1, <1>2, NamePartsIn, SymbolIn
<1>6. Symbol(<<"$UNDEF">>, 0, 0, "OBJECT", "GLOBAL") \in Sym
  BY <1>1, <1>2, NamePartsIn, SymbolIn
<1>. QED  BY <1>3, <1>4, <1>5, <1>6 DEF DefaultSymbols

LEMMA SectionsKeeps ==
  ASSUME ReadOk, ReadSections
  PROVE  ReadOk'
<1>. DEFINE read == {i \in DOMAIN in.sections : /\ ~InLoad(in.sections[i].addr)
                                                /\ in.sections[i].type \in {"PROGBITS", "NOBITS"}}
            cs == Chosen(in.sections, read)
            f == [file EXCEPT !.sections = cs]
<1>1. file' = WithSymbols(f, DefaultSymbols) /\ in' = in
  BY DEF ReadSections
<1>2. in.sections \in Seq(InSection)
  BY DEF ReadOk, InOk
<1>3. cs \in Seq(FileSection)
  <2>1. Len(in.sections) \in Nat /\ DOMAIN in.sections = 1..Len(in.sections)
    BY <1>2
  <2>2. \A k \in 1..Len(in.sections) : k \in read => in.sections[k] \in FileSection
    BY <1>2, <2>1 DEF FileSection
  <2>. HIDE DEF read
  <2>. QED  BY <2>1, <2>2, ChosenIn
<1>. HIDE DEF cs
<1>4. FileOk(f)
  <2>1. DOMAIN f = DOMAIN file /\ f.sections = cs /\ f.heap = file.heap /\ f.symbols = file.symbols
        /\ f.libs = file.libs /\ f.relocations = file.relocations
    BY DEF ReadOk, FileOk
  <2>. HIDE DEF f
  <2>. QED  BY <1>3, <2>1 DEF ReadOk, FileOk
<1>. HIDE DEF f
<1>5. FileOk(file') /\ Len(file'.symbols) = Len(f.symbols) + 4
  BY <1>1, <1>4, DefaultSymbolsIn, WithSymbolsKeeps
<1>6. Len(f.symbols) \in Nat
  BY <1>4 DEF FileOk
<1>. QED  BY <1>1, <1>5, <1>6 DEF ReadOk, InOk

LEMMA SymbolsKeeps ==
  ASSUME ReadOk, ReadSymbols
  PROVE  ReadOk'
<1>. DEFINE ss == in.sections
            tabs == {i \in DOMAIN ss : ss[i].type = "SYMTAB"}
            one(i) == IF i \in tabs THEN KeptOf(ss[i].data) ELSE <<>>
            syms == FlattenSeq([i \in DOMAIN ss |-> one(i)])
            new(s) == Symbol(s.name, s.value, s.size, s.type, s.binding)
            more == [i \in DOMAIN syms |-> new(syms[i])]
<1>1. in' = in
  BY DEF ReadSymbols
<1>2. CASE UNCHANGED file
  <2>1. pc' \in {"failed", "imports"} /\ pc = "symbols"
    BY DEF ReadSymbols
  <2>2. pc \in ReadPhases
    BY <2>1 DEF ReadPhases
  <2>. QED  BY <1>1, <1>2, <2>2 DEF ReadOk, InOk
<1>3. CASE ~UNCHANGED file
  <2>1. file' = WithSymbols(file, more) /\ pc = "symbols"
    BY <1>3 DEF ReadSymbols
  <2>2. ss \in Seq(InSection)
    BY DEF ReadOk, InOk
  <2>3. ASSUME NEW i \in DOMAIN ss PROVE one(i) \in Seq(InSymbol)
    <3>1. CASE i \in tabs
      <4>1. ss[i] \in InSection /\ ss[i].type = "SYMTAB"
        BY <2>2, <3>1
      <4>2. ss[i].data \in Seq(InSymbol)
        BY <4>1, InSectionIs
      <4>. DEFINE d == ss[i].data
                  K == {k \in DOMAIN d : Kept(d[k])}
      <4>. HIDE DEF d, K
      <4>3. d \in Seq(InSymbol)
        BY <4>2 DEF d
      <4>4. Len(d) \in Nat /\ \A k \in 1..Len(d) : k \in K => d[k] \in InSymbol
        BY <4>3
      <4>5. Chosen(d, K) \in Seq(InSymbol)
        BY <4>4, ChosenIn
      <4>6. one(i) = Chosen(d, K)
        BY <3>1 DEF KeptOf, d, K
      <4>. QED  BY <4>5, <4>6
    <3>2. CASE i \notin tabs
      <4>1. one(i) = <<>>
        BY <3>2, Zenon
      <4>2. <<>> \in Seq(InSymbol)
        OBVIOUS
      <4>. QED  BY <4>1, <4>2, Zenon
    <3>. QED  BY <3>1, <3>2
  <2>. HIDE DEF one, ss
  <2>4. [i \in DOMAIN ss |-> one(i)] \in Seq(Seq(InSymbol))
    BY <2>2, <2>3
  <2>5. syms \in Seq(InSymbol)
    BY <2>4, FlattenIn
  <2>. HIDE DEF syms
  <2>6. ASSUME NEW s \in InSymbol PROVE new(s) \in Sym
    <3>1. s.name \in Name /\ s.value \in Nat /\ s.size \in Nat /\ s.type \in SymbolTypes /\ s.binding \in Bindings
      BY NumbersAre DEF InSymbol
    <3>. QED  BY <3>1, SymbolIn
  <2>. HIDE DEF new
  <2>7. more \in Seq(Sym)
    BY <2>5, <2>6
  <2>. HIDE DEF more
  <2>8. FileOk(file') /\ Len(file'.symbols) = Len(file.symbols) + Len(more)
    BY <2>1, <2>7, WithSymbolsKeeps DEF ReadOk
  <2>9. Len(file.symbols) >= 4 /\ Len(file.symbols) \in Nat /\ Len(more) \in Nat
    BY <2>1, <2>7 DEF ReadOk, ReadPhases, FileOk
  <2>. QED  BY <1>1, <2>8, <2>9 DEF ReadOk, InOk
<1>. QED  BY <1>2, <1>3

LEMMA ImportsKeeps ==
  ASSUME ReadOk, ReadImports
  PROVE  ReadOk'
<1>. DEFINE libs == LibDefs(in.sections)
            S(l) == Stubs(libs[l])
            one(l) == [i \in DOMAIN S(l) |-> [lib |-> l, addr |-> S(l)[i]]]
            stubs == FlattenSeq([l \in DOMAIN libs |-> one(l)])
            lib(l) == [name |-> Spelled[Word(in.sections, libs[l].name)], imports |-> <<>>]
            named == [l \in DOMAIN libs |-> lib(l)]
            f == [file EXCEPT !.libs = named]
            u == [file |-> f, lost |-> FALSE]
            w == AllImported(u, stubs)
<1>1. in' = in /\ pc = "imports"
  BY DEF ReadImports
<1>2. file' = file \/ file' = w.file
  BY DEF ReadImports
<1>3. libs \in Seq(Def) /\ WellFormed(in.sections)
  BY LibDefsIn DEF ReadOk, InOk
<1>. HIDE DEF libs
<1>4. PICK m \in Nat : m = Len(libs) /\ DOMAIN libs = 1..m
  BY <1>3
<1>5. \A l \in 1..m : libs[l] \in Def
  BY <1>3, <1>4
<1>6. ASSUME NEW l \in 1..m PROVE one(l) \in Seq([lib : 1..m, addr : Nat])
  <2>1. S(l) \in Seq(Nat)
    BY <1>5, StubsIn
  <2>. HIDE DEF S
  <2>2. \A i \in DOMAIN S(l) : [lib |-> l, addr |-> S(l)[i]] \in [lib : 1..m, addr : Nat]
    BY <2>1
  <2>. DEFINE R == [lib : 1..m, addr : Nat]
              e(i) == [lib |-> l, addr |-> S(l)[i]]
  <2>3. \A i \in DOMAIN S(l) : e(i) \in R
    BY <2>2
  <2>. HIDE DEF R, e
  <2>4. [i \in DOMAIN S(l) |-> e(i)] \in Seq(R)
    BY <2>1, <2>3
  <2>. QED  BY <2>4 DEF R, e
<1>7. stubs \in Seq([lib : 1..m, addr : Nat])
  <2>. DEFINE R == [lib : 1..m, addr : Nat]
  <2>1. \A l \in 1..m : one(l) \in Seq(R)
    BY <1>6
  <2>. HIDE DEF one, R
  <2>2. [l \in DOMAIN libs |-> one(l)] \in Seq(Seq(R))
    BY <1>4, <2>1
  <2>3. stubs \in Seq(R)
    BY <2>2, FlattenIn
  <2>. QED  BY <2>3 DEF R
<1>. HIDE DEF stubs
<1>8. named \in Seq(Lib) /\ Len(named) = m
  <2>1. ASSUME NEW l \in 1..m PROVE lib(l) \in Lib
    <3>1. libs[l].name \in Nat
      BY <1>5, NumbersAre DEF Def
    <3>2. Word(in.sections, libs[l].name) \in U32
      BY <1>3, <3>1, WordIn
    <3>3. Spelled[Word(in.sections, libs[l].name)] \in Name
      BY <3>2, NamesAssumption
    <3>4. <<>> \in Seq(Import)
      OBVIOUS
    <3>. QED  BY <3>3, <3>4 DEF Lib
  <2>. HIDE DEF lib
  <2>. QED  BY <1>4, <2>1
<1>. HIDE DEF named
<1>9. FileOk(f) /\ Len(f.symbols) >= 4 /\ Len(f.libs) = m
  <2>1. DOMAIN f = DOMAIN file /\ f.sections = file.sections /\ f.heap = file.heap /\ f.symbols = file.symbols
        /\ f.libs = named /\ f.relocations = file.relocations
    BY DEF ReadOk, FileOk
  <2>2. Len(file.symbols) >= 4
    BY <1>1 DEF ReadOk, ReadPhases
  <2>. HIDE DEF f
  <2>. QED  BY <1>8, <2>1, <2>2 DEF ReadOk, FileOk
<1>. HIDE DEF f
<1>10. ImportOk(u, m)
  <2>1. DOMAIN u = {"file", "lost"} /\ u.file = f
    OBVIOUS
  <2>. QED  BY <1>9, <2>1 DEF ImportOk
<1>. HIDE DEF u
<1>11. ImportOk(w, m)
  BY <1>3, <1>7, <1>10, AllImportedKeeps
<1>. HIDE DEF w
<1>12. FileOk(file') /\ Len(file'.symbols) >= 4
  BY <1>1, <1>2, <1>11 DEF ImportOk, ReadOk, ReadPhases
<1>. QED  BY <1>1, <1>12 DEF ReadOk, InOk

(* The relocations of the file are a sequence, which is all the layout     *)
(* needs of them.                                                          *)
LEMMA RelocationsNext ==
  ASSUME FileOk(file), NEW rs, IsSeq(rs), file' = [file EXCEPT !.relocations = rs]
  PROVE  FileOk(file') /\ file'.symbols = file.symbols
<1>1. DOMAIN file' = DOMAIN file /\ file'.sections = file.sections /\ file'.heap = file.heap
      /\ file'.symbols = file.symbols /\ file'.libs = file.libs /\ file'.relocations = rs
  BY DEF FileOk
<1>. QED  BY <1>1 DEF FileOk

LEMMA RelocationsKeeps ==
  ASSUME ReadOk, ReadRelocations
  PROVE  ReadOk'
<1>. DEFINE relas == Relas(in.sections, FALSE)
            Lost(r) == Meant(file, r.rela.addend).symbol = Null
            word(r) == [at |-> r.rela.offset, value |-> r.rela.addend]
            I == {i \in DOMAIN relas : Lost(relas[i])}
            K == {i \in DOMAIN relas : ~Lost(relas[i])}
            lost == Chosen(relas, I)
            kept == Chosen(relas, K)
            words == [i \in DOMAIN lost |-> word(lost[i])]
            rs == [i \in DOMAIN kept |-> Relocation(kept[i], Meant(file, kept[i].rela.addend))]
<1>1. pc = "relocations"
  BY DEF ReadRelocations
<1>2. CASE UNCHANGED <<in, file>>
  BY <1>1, <1>2 DEF ReadOk, InOk, ReadPhases
<1>3. CASE ~UNCHANGED <<in, file>>
  <2>1. in' = [in EXCEPT !.sections = AllStored(@, words)] /\ file' = [file EXCEPT !.relocations = rs]
    BY <1>3 DEF ReadRelocations
  <2>2. lost \in Seq(Rela) /\ kept \in Seq(Rela)
    <3>. HIDE DEF I, K
    <3>. QED  BY ChosenRelas DEF ReadOk
  <2>. HIDE DEF lost, kept
  <2>3. PICK n \in Nat : n = Len(lost) /\ DOMAIN lost = 1..n
    BY <2>2
  <2>4. \A k \in 1..n : lost[k] \in Rela
    BY <2>2, <2>3
  <2>5. \A k \in 1..n : word(lost[k]).value \in U32
    BY <2>4, RelaIs
  <2>6. n = Len(words) /\ \A k \in 1..n : words[k] = word(lost[k])
    <3>. HIDE DEF word
    <3>. QED  BY <2>3
  <2>7. \A k \in 1..n : words[k].value \in U32
    BY <2>5, <2>6
  <2>. HIDE DEF words, word
  <2>8. InOk'
    BY <2>1, <2>3, <2>6, <2>7, InputNext DEF ReadOk
  <2>9. IsSeq(rs)
    <3>1. PICK m \in Nat : DOMAIN kept = 1..m
      BY <2>2
    <3>. DEFINE e(i) == Relocation(kept[i], Meant(file, kept[i].rela.addend))
    <3>2. rs = [i \in 1..m |-> e(i)]
      BY <3>1
    <3>. HIDE DEF rs, e
    <3>3. rs = [i \in 1..m |-> rs[i]]
      BY <3>2
    <3>. QED  BY <3>3, TableIsSeq
  <2>. HIDE DEF rs
  <2>10. FileOk(file') /\ file'.symbols = file.symbols
    BY <2>1, <2>9, RelocationsNext DEF ReadOk
  <2>. QED  BY <1>1, <2>8, <2>10 DEF ReadOk, ReadPhases
<1>. QED  BY <1>2, <1>3

LEMMA DynKeeps ==
  ASSUME ReadOk, ReadDynRelocations
  PROVE  ReadOk'
<1>. DEFINE all == Relas(in.sections, TRUE)
            A == {i \in DOMAIN all : all[i].rela.type # "NONE"}
            relas == Chosen(all, A)
            Means(r) == IF r.rela.index # 0 THEN [symbol |-> Null, addend |-> 0]
                        ELSE Meant(file, r.rela.addend)
            Keep(r) == [Relocation(r, Means(r)) EXCEPT !.type = "ADDR32"]
            K == {i \in DOMAIN relas : InCode(relas[i].rela.offset) \/ InData(relas[i].rela.offset)}
            kept == Chosen(relas, K)
            more == [i \in DOMAIN kept |-> Keep(kept[i])]
<1>1. pc = "dyn" /\ in' = in
  BY DEF ReadDynRelocations
<1>2. CASE UNCHANGED file
  BY <1>1, <1>2 DEF ReadOk, InOk, ReadPhases
<1>3. CASE ~UNCHANGED file
  <2>1. file' = [file EXCEPT !.relocations = @ \o more]
    BY <1>3 DEF ReadDynRelocations
  <2>2. relas \in Seq(Rela)
    <3>. HIDE DEF A
    <3>. QED  BY ChosenRelas DEF ReadOk
  <2>. HIDE DEF relas
  <2>3. kept \in Seq(Rela)
    <3>1. Len(relas) \in Nat /\ \A k \in 1..Len(relas) : k \in K => relas[k] \in Rela
      BY <2>2
    <3>. HIDE DEF K
    <3>. QED  BY <3>1, ChosenIn
  <2>. HIDE DEF kept, Keep
  <2>4. IsSeq(more)
    <3>1. PICK m \in Nat : DOMAIN kept = 1..m
      BY <2>3
    <3>2. more = [i \in 1..m |-> Keep(kept[i])]
      BY <3>1
    <3>. HIDE DEF more
    <3>3. more = [i \in 1..m |-> more[i]]
      BY <3>2
    <3>. QED  BY <3>3, TableIsSeq
  <2>. HIDE DEF more
  <2>5. IsSeq(file.relocations \o more)
    BY <2>4, JoinedIsSeq DEF ReadOk, FileOk
  <2>. DEFINE rs == file.relocations \o more
  <2>6. file' = [file EXCEPT !.relocations = rs]
    BY <2>1
  <2>. HIDE DEF rs
  <2>7. FileOk(file') /\ file'.symbols = file.symbols
    BY <2>5, <2>6, RelocationsNext DEF ReadOk, rs
  <2>. QED  BY <1>1, <2>7 DEF ReadOk, ReadPhases, InOk
<1>. QED  BY <1>2, <1>3

LEMMA ReadKeeps ==
  ASSUME ReadOk, Read
  PROVE  ReadOk'
<1>1. CASE ReadHeader
  <2>1. pc' \notin ReadPhases /\ file' = file /\ in' = in
    BY <1>1 DEF ReadHeader, ReadPhases
  <2>. QED  BY <2>1 DEF ReadOk, InOk
<1>. QED  BY <1>1, LoaderKeeps, SectionsKeeps, SymbolsKeeps, ImportsKeeps, RelocationsKeeps,
             DynKeeps DEF Read

-----------------------------------------------------------------------------
(***************************************************************************)
(* Writing: the sections of the output while they are made.                *)
(***************************************************************************)
EarlyTypes == {"NULL", "PROGBITS", "NOBITS", "RELA", "IMPORTS"}

(* A section whose size can be told.                                       *)
Sec(s) ==
  /\ DOMAIN s = {"name", "type", "write", "addr", "offset", "size", "link", "info", "data", "rela",
                 "symbol"}
  /\ s.name \in Name /\ s.addr \in Nat /\ s.size \in Nat /\ IsSeq(s.data)
  /\ s.type \in EarlyTypes \cup {"SYMTAB", "STRTAB", "CRCS", "FILEINFO"}
  /\ s.type = "STRTAB" => s.data \in Seq(Name)
  /\ s.type = "IMPORTS" => /\ 1 \in DOMAIN s.data /\ {"name", "count"} \subseteq DOMAIN s.data[1]
                           /\ s.data[1].name \in Name /\ s.data[1].count \in Nat

(* One that has no offset yet, unless it is the empty first one.           *)
Early(s) ==
  /\ Sec(s) /\ s.type \in EarlyTypes
  /\ IF s.type = "NULL" THEN s.addr = 0 /\ s.size = 0 ELSE s.offset = Max32

OutEarly(o) == IsSeq(o) /\ \A k \in 1..Len(o) : Early(o[k])

LEMMA ImportSizeNat ==
  ASSUME NEW name \in Name, NEW count \in Nat
  PROVE  ImportSize(name, count) \in Nat
<1>1. NameSize(name) \in Nat
  BY NameSizeNat
<1>2. AlignUp(8 + NameSize(name), 8) \in Nat
  <2>1. PICK m \in Nat : m = 8 + NameSize(name)
    BY <1>1
  <2>. QED  BY <2>1, Aligned
<1>3. PICK a \in Nat : a = AlignUp(8 + NameSize(name), 8)
  BY <1>2
<1>4. PICK b \in Nat : b = 8 + 8 * count
  OBVIOUS
<1>5. {a, b} \subseteq Nat /\ {a, b} # {} /\ a + b \in Nat /\ \A x \in {a, b} : x <= a + b
  OBVIOUS
<1>6. Max({a, b}) \in {a, b}
  BY <1>5, Greatest
<1>7. Max({a, b}) \in Nat
  BY <1>6
<1>. QED  BY <1>3, <1>4, <1>7 DEF ImportSize

LEMMA DataSizeNat ==
  ASSUME NEW s, Sec(s)
  PROVE  DataSize(s) \in Nat
<1>1. Len(s.data) \in Nat
  BY SeqIs DEF Sec
<1>2. CASE s.type = "STRTAB"
  <2>1. DataSize(s) = 1 + Names(s.data)
    BY <1>2 DEF DataSize
  <2>2. Names(s.data) \in Nat
    BY <1>2, NamesNat DEF Sec
  <2>. QED  BY <2>1, <2>2
<1>3. CASE s.type = "IMPORTS"
  <2>1. DataSize(s) = ImportSize(s.data[1].name, s.data[1].count)
    BY <1>3 DEF DataSize
  <2>. QED  BY <1>3, <2>1, ImportSizeNat DEF Sec
<1>4. CASE s.type = "CRCS"
  <2>1. DataSize(s) = 4 * Len(s.data)
    BY <1>4 DEF DataSize
  <2>. QED  BY <1>1, <2>1
<1>5. CASE s.type = "FILEINFO"
  <2>1. DataSize(s) = 96
    BY <1>5 DEF DataSize
  <2>. QED  BY <2>1
<1>6. CASE s.type \in {"NULL", "PROGBITS", "NOBITS", "RELA", "SYMTAB"}
  <2>1. DataSize(s) = EntrySize[s.type] * Len(s.data)
    BY <1>6 DEF DataSize
  <2>2. EntrySize[s.type] \in Nat
    BY <1>6 DEF EntrySize
  <2>. QED  BY <1>1, <2>1, <2>2
<1>. QED  BY <1>2, <1>3, <1>4, <1>5, <1>6 DEF Sec, EarlyTypes

LEMMA NoneIsSeq == IsSeq(<<>>) /\ Len(<<>>) = 0
<1>1. <<>> \in Seq({})
  OBVIOUS
<1>. QED  BY <1>1, SeqIs

LEMMA OneIsSeq ==
  ASSUME NEW e
  PROVE  IsSeq(<<e>>) /\ Len(<<e>>) = 1 /\ <<e>>[1] = e
<1>1. <<e>> \in Seq({e})
  OBVIOUS
<1>. QED  BY <1>1, SeqIs

LEMMA MoreIsSeq ==
  ASSUME NEW q, IsSeq(q), NEW e
  PROVE  /\ IsSeq(Append(q, e)) /\ Len(Append(q, e)) = Len(q) + 1
         /\ \A k \in 1..Len(q) : Append(q, e)[k] = q[k]
         /\ Append(q, e)[Len(q) + 1] = e
<1>. DEFINE A == {q[j] : j \in DOMAIN q}
            D == A \cup {e}
<1>1. q \in Seq(A)
  BY DEF IsSeq
<1>. HIDE DEF A
<1>2. q \in Seq(D) /\ e \in D
  BY <1>1
<1>. HIDE DEF D
<1>3. Append(q, e) \in Seq(D) /\ Len(Append(q, e)) = Len(q) + 1
      /\ (\A k \in 1..Len(q) : Append(q, e)[k] = q[k])
      /\ Append(q, e)[Len(q) + 1] = e
  BY <1>2
<1>. QED  BY <1>3, SeqIs

LEMMA ChangedIsSeq ==
  ASSUME NEW q, IsSeq(q), NEW i \in 1..Len(q), NEW e
  PROVE  /\ IsSeq([q EXCEPT ![i] = e]) /\ Len([q EXCEPT ![i] = e]) = Len(q)
         /\ DOMAIN [q EXCEPT ![i] = e] = DOMAIN q
         /\ [q EXCEPT ![i] = e][i] = e
         /\ \A k \in 1..Len(q) : k # i => [q EXCEPT ![i] = e][k] = q[k]
<1>. DEFINE A == {q[j] : j \in DOMAIN q}
            D == A \cup {e}
<1>1. q \in Seq(A)
  BY DEF IsSeq
<1>. HIDE DEF A
<1>2. q \in Seq(D) /\ e \in D
  BY <1>1
<1>. HIDE DEF D
<1>3. [q EXCEPT ![i] = e] \in Seq(D) /\ Len([q EXCEPT ![i] = e]) = Len(q)
  BY <1>2, ReplacedIn
<1>4. DOMAIN [q EXCEPT ![i] = e] = DOMAIN q /\ i \in DOMAIN q
  BY <1>2
<1>5. [q EXCEPT ![i] = e][i] = e /\ \A k \in 1..Len(q) : k # i => [q EXCEPT ![i] = e][k] = q[k]
  BY <1>2
<1>. QED  BY <1>3, <1>4, <1>5, SeqIs

(* What addSection() works on.                                             *)
BuildOk(w) ==
  /\ {"file", "out", "itr"} \subseteq DOMAIN w
  /\ FileOk(w.file) /\ OutEarly(w.out)
  /\ w.itr \in Nat /\ w.itr <= Len(w.file.symbols)

LEMMA InsertedIn ==
  ASSUME NEW n \in Nat, NEW q \in Seq(1..n), NEW i \in Nat, i <= Len(q)
  PROVE  InsertAt(q, i + 1, n + 1) \in Seq(1..(n + 1)) /\ Len(InsertAt(q, i + 1, n + 1)) = Len(q) + 1
<1>. DEFINE D == 1..(n + 1)
<1>1. PICK m \in Nat : m = Len(q)
  OBVIOUS
<1>2. q \in Seq(D) /\ n + 1 \in D
  <2>1. 1..n \subseteq D /\ n + 1 \in D
    OBVIOUS
  <2>. HIDE DEF D
  <2>. QED  BY <2>1
<1>. HIDE DEF D
<1>3. SubSeq(q, 1, i) \in Seq(D) /\ Len(SubSeq(q, 1, i)) = i
  BY <1>1, <1>2
<1>4. SubSeq(q, i + 1, m) \in Seq(D) /\ Len(SubSeq(q, i + 1, m)) = m - i
  BY <1>1, <1>2
<1>5. <<n + 1>> \in Seq(D) /\ Len(<<n + 1>>) = 1
  BY <1>2
<1>6. (SubSeq(q, 1, i) \o <<n + 1>>) \o SubSeq(q, i + 1, m) \in Seq(D)
      /\ Len((SubSeq(q, 1, i) \o <<n + 1>>) \o SubSeq(q, i + 1, m)) = (i + 1) + (m - i)
  BY <1>3, <1>4, <1>5
<1>7. InsertAt(q, i + 1, n + 1) = (SubSeq(q, 1, i) \o <<n + 1>>) \o SubSeq(q, i + 1, m)
  <2>1. (i + 1) - 1 = i
    OBVIOUS
  <2>. QED  BY <1>1, <2>1 DEF InsertAt
<1>8. (i + 1) + (m - i) = m + 1
  OBVIOUS
<1>. QED  BY <1>1, <1>6, <1>7, <1>8 DEF D

LEMMA EarlyIs ==
  ASSUME NEW s, Early(s), NEW t, DOMAIN t = DOMAIN s, t.name = s.name, t.type = s.type,
         t.addr = s.addr, t.size = s.size, t.data = s.data, t.offset = s.offset
  PROVE  Early(t)
BY DEF Early, Sec

LEMMA AddSectionKeeps ==
  ASSUME NEW w, BuildOk(w), NEW s, Early(s)
  PROVE  LET v == AddSection(w, s)
         IN  /\ BuildOk(v) /\ DOMAIN v = DOMAIN w /\ Len(v.out) = Len(w.out) + 1
             /\ v.file.libs = w.file.libs
             /\ \A x \in DOMAIN w : x \notin {"file", "out", "itr"} => v[x] = w[x]
<1>. DEFINE n   == Len(w.file.heap)
            sym == Symbol(s.name, s.addr, Max32, "SECTION", "LOCAL")
            t   == [s EXCEPT !.symbol = n + 1]
            h   == Append(w.file.heap, sym)
            ids == InsertAt(w.file.symbols, w.itr + 1, n + 1)
            f   == [w.file EXCEPT !.heap = h, !.symbols = ids]
            o   == Append(w.out, t)
            v   == [w EXCEPT !.file = f, !.out = o, !.itr = w.itr + 1]
<1>1. AddSection(w, s) = v
  BY DEF AddSection
<1>2. FileOk(w.file) /\ w.file.heap \in Seq(Sym) /\ n \in Nat /\ w.file.symbols \in Seq(1..n)
  BY DEF BuildOk, FileOk
<1>3. sym \in Sym
  <2>1. s.name \in Name /\ s.addr \in Nat
    BY DEF Early, Sec
  <2>2. "SECTION" \in SymbolTypes /\ "LOCAL" \in Bindings
    BY DEF SymbolTypes, Bindings
  <2>. QED  BY <2>1, <2>2, NumbersAre, SymbolIn
<1>. HIDE DEF sym
<1>4. h \in Seq(Sym) /\ Len(h) = n + 1
  BY <1>2, <1>3
<1>5. ids \in Seq(1..(n + 1)) /\ Len(ids) = Len(w.file.symbols) + 1
  <2>. HIDE DEF n
  <2>. QED  BY <1>2, InsertedIn DEF BuildOk
<1>6. Early(t)
  <2>1. DOMAIN t = DOMAIN s /\ t.name = s.name /\ t.type = s.type /\ t.addr = s.addr /\ t.size = s.size
        /\ t.data = s.data /\ t.offset = s.offset
    BY DEF Early, Sec
  <2>. HIDE DEF t
  <2>. QED  BY <2>1, EarlyIs
<1>. HIDE DEF t, h, ids
<1>7. IsSeq(o) /\ Len(o) = Len(w.out) + 1 /\ (\A k \in 1..Len(w.out) : o[k] = w.out[k])
      /\ o[Len(w.out) + 1] = t
  BY MoreIsSeq DEF BuildOk, OutEarly
<1>8. OutEarly(o)
  <2>1. Len(w.out) \in Nat
    BY SeqIs DEF BuildOk, OutEarly
  <2>2. ASSUME NEW k \in 1..Len(o) PROVE Early(o[k])
    <3>1. CASE k = Len(w.out) + 1
      BY <1>6, <1>7, <3>1
    <3>2. CASE k # Len(w.out) + 1
      <4>1. k \in 1..Len(w.out)
        BY <1>7, <2>1, <3>2
      <4>. QED  BY <1>7, <4>1 DEF BuildOk, OutEarly
    <3>. QED  BY <3>1, <3>2
  <2>. QED  BY <1>7, <2>2 DEF OutEarly
<1>9. FileOk(f) /\ f.symbols = ids /\ f.libs = w.file.libs
  <2>1. DOMAIN f = DOMAIN w.file /\ f.heap = h /\ f.symbols = ids /\ f.sections = w.file.sections
        /\ f.libs = w.file.libs /\ f.relocations = w.file.relocations
    BY <1>2 DEF FileOk
  <2>. HIDE DEF f
  <2>. QED  BY <1>2, <1>4, <1>5, <2>1 DEF FileOk
<1>. HIDE DEF f, o
<1>10. DOMAIN v = DOMAIN w /\ v.file = f /\ v.out = o /\ v.itr = w.itr + 1
       /\ \A x \in DOMAIN w : x \notin {"file", "out", "itr"} => v[x] = w[x]
  BY DEF BuildOk
<1>. HIDE DEF v
<1>11. w.itr + 1 \in Nat /\ w.itr + 1 <= Len(ids)
  <2>1. w.itr \in Nat /\ w.itr <= Len(w.file.symbols) /\ Len(w.file.symbols) \in Nat
    BY <1>2 DEF BuildOk
  <2>. QED  BY <1>5, <2>1
<1>12. BuildOk(v)
  BY <1>8, <1>9, <1>10, <1>11 DEF BuildOk
<1>. QED  BY <1>1, <1>7, <1>9, <1>10, <1>12

(* Section by section.                                                     *)
AddRounds(f, u, new) ==
  /\ f[0] = u
  /\ \A k \in 1..Len(new) : f[k] = AddSection(f[k - 1], new[k])
  /\ AddAll(u, new) = f[Len(new)]

LEMMA AddAllIs ==
  ASSUME NEW u, NEW new, NEW n \in Nat, n = Len(new)
  PROVE  \E f : AddRounds(f, u, new)
<1>. DEFINE Step(r, k) == AddSection(r, new[k])
            Body(f, m) == [k \in 0..m |-> IF k = 0 THEN u ELSE Step(f[k - 1], k)]
            More(f, m) == [k \in 0..(m + 1) |-> IF k = m + 1 THEN Step(f[m], m + 1) ELSE f[k]]
            T == {m \in 0..n : \E f : f = Body(f, m)}
            Upto == CHOOSE f : f = Body(f, n)
<1>1. 0..n \subseteq T
  <2>. HIDE DEF Step
  <2>1. Body([k \in 0..0 |-> u], 0) = [k \in 0..0 |-> u]
    OBVIOUS
  <2>2. ASSUME NEW m \in 0..(n-1), NEW f, f = Body(f, m)
        PROVE  More(f, m) = Body(More(f, m), m + 1)
    <3>1. \A k \in 0..(m + 1) : k # 0 /\ k # m + 1 => k \in 0..m /\ k - 1 \in 0..m
      OBVIOUS
    <3>2. \A k \in 0..(m + 1) : k # 0 => k - 1 \in 0..m /\ k - 1 \in 0..(m + 1) /\ k - 1 # m + 1
      OBVIOUS
    <3>3. \A k \in 0..m : f[k] = IF k = 0 THEN u ELSE Step(f[k - 1], k)
      BY <2>2
    <3>. QED  BY <3>1, <3>2, <3>3
  <2>. HIDE DEF Body, More
  <2>3. 0 \in T
    BY <2>1
  <2>4. \A m \in 0..(n-1) : m \in T => m + 1 \in T
    BY <2>2
  <2>. HIDE DEF T
  <2>. QED  BY <2>3, <2>4, UpTo
<1>2. Upto = Body(Upto, n)
  <2>. HIDE DEF Body
  <2>. QED  BY <1>1
<1>3. AddAll(u, new) = Upto[n]
  BY DEF AddAll
<1>4. Upto[0] = u /\ \A k \in 1..n : Upto[k] = Step(Upto[k - 1], k)
  <2>. HIDE DEF Upto, Step
  <2>1. \A k \in 1..n : k \in 0..n /\ k # 0
    OBVIOUS
  <2>. QED  BY <1>2, <2>1
<1>. HIDE DEF Upto
<1>. QED  BY <1>3, <1>4 DEF AddRounds

LEMMA AddAllKeeps ==
  ASSUME NEW u, BuildOk(u), NEW new, NEW n \in Nat, n = Len(new), \A k \in 1..n : Early(new[k])
  PROVE  BuildOk(AddAll(u, new))
<1>1. PICK f : AddRounds(f, u, new)
  BY AddAllIs
<1>2. /\ f[0] = u /\ \A k \in 1..n : f[k] = AddSection(f[k - 1], new[k])
      /\ AddAll(u, new) = f[n]
  BY <1>1 DEF AddRounds
<1>. DEFINE T == {k \in 0..n : BuildOk(f[k])}
<1>3. 0 \in T
  BY <1>2
<1>4. ASSUME NEW k \in 0..(n-1), k \in T PROVE k + 1 \in T
  <2>1. k + 1 \in 1..n /\ (k + 1) - 1 = k /\ k + 1 \in 0..n
    OBVIOUS
  <2>2. f[k + 1] = AddSection(f[k], new[k + 1]) /\ Early(new[k + 1])
    BY <1>2, <2>1
  <2>3. BuildOk(f[k + 1])
    BY <1>4, <2>2, AddSectionKeeps
  <2>. QED  BY <2>1, <2>3
<1>5. 0..n \subseteq T
  <2>. HIDE DEF T
  <2>. QED  BY <1>3, <1>4, UpTo
<1>6. n \in 0..n
  OBVIOUS
<1>. QED  BY <1>2, <1>5, <1>6

LEMMA SectionIs ==
  ASSUME NEW name, NEW type, NEW addr, NEW size, NEW data
  PROVE  LET s == Section(name, type, addr, size, data)
         IN  /\ DOMAIN s = {"name", "type", "write", "addr", "offset", "size", "link", "info", "data",
                            "rela", "symbol"}
             /\ s.name = name /\ s.type = type /\ s.addr = addr /\ s.size = size /\ s.data = data
             /\ s.offset = Max32
BY DEF Section

LEMMA OutSectionEarly ==
  ASSUME NEW s \in FileSection
  PROVE  Early(OutSection(s))
<1>. DEFINE size == IF s.type = "NOBITS" THEN s.size ELSE InSize(s)
            r == Section(s.name, s.type, s.addr, size, s.data)
            t == [r EXCEPT !.write = s.write \/ s.addr = DataAddress]
<1>1. s \in InSection /\ s.type \in {"PROGBITS", "NOBITS"}
  BY DEF FileSection
<1>2. s.name \in Name /\ s.addr \in Nat /\ s.size \in Nat /\ Len(s.data) \in Nat
  BY <1>1, InSectionIs
<1>3. IsSeq(s.data)
  <2>1. CASE s.type = "PROGBITS"
    <3>1. s.data \in Seq(U32)
      BY <1>1, <2>1, InSectionIs
    <3>. QED  BY <3>1, SeqIs
  <2>2. CASE s.type = "NOBITS"
    <3>1. s.data \in Seq({})
      BY <1>1, <2>2, InSectionIs, InSectionOfIs
    <3>. QED  BY <3>1, SeqIs
  <2>. QED  BY <1>1, <2>1, <2>2
<1>4. size \in Nat
  <2>1. s.type = "PROGBITS" => InSize(s) = 4 * Len(s.data)
    BY DEF InSize, EntrySize
  <2>. QED  BY <1>1, <1>2, <2>1
<1>5. OutSection(s) = t
  BY DEF OutSection
<1>. HIDE DEF size
<1>6. DOMAIN r = {"name", "type", "write", "addr", "offset", "size", "link", "info", "data", "rela",
                  "symbol"}
      /\ r.name = s.name /\ r.type = s.type /\ r.addr = s.addr /\ r.size = size /\ r.data = s.data
      /\ r.offset = Max32
  BY SectionIs
<1>. HIDE DEF r
<1>7. Early(r)
  BY <1>1, <1>2, <1>3, <1>4, <1>6 DEF Early, Sec, EarlyTypes
<1>8. DOMAIN t = DOMAIN r /\ t.name = r.name /\ t.type = r.type /\ t.addr = r.addr /\ t.size = r.size
      /\ t.data = r.data /\ t.offset = r.offset
  BY <1>6
<1>. HIDE DEF t
<1>. QED  BY <1>5, <1>7, <1>8, EarlyIs

LEMMA NullEarly == Early(NullSection) /\ OutEarly(<<NullSection>>)
<1>. DEFINE r == Section(<<>>, "NULL", 0, 0, <<>>)
            t == [r EXCEPT !.offset = 0]
<1>1. DOMAIN r = {"name", "type", "write", "addr", "offset", "size", "link", "info", "data", "rela",
                  "symbol"}
      /\ r.name = <<>> /\ r.type = "NULL" /\ r.addr = 0 /\ r.size = 0 /\ r.data = <<>>
  BY SectionIs
<1>. HIDE DEF r
<1>2. DOMAIN t = DOMAIN r /\ t.name = <<>> /\ t.type = "NULL" /\ t.addr = 0 /\ t.size = 0 /\ t.data = <<>>
  BY <1>1
<1>3. NullSection = t
  BY DEF NullSection, r
<1>. HIDE DEF t
<1>4. <<>> \in Name /\ IsSeq(<<>>)
  BY NamePartsIn, NoneIsSeq
<1>5. Early(t)
  BY <1>1, <1>2, <1>4 DEF Early, Sec, EarlyTypes
<1>6. IsSeq(<<t>>) /\ Len(<<t>>) = 1 /\ <<t>>[1] = t
  BY OneIsSeq
<1>7. OutEarly(<<t>>)
  BY <1>5, <1>6 DEF OutEarly
<1>. QED  BY <1>3, <1>5, <1>7

BuildPhases == {"rela sections", "predict", "place"}
EarlyPhases == {"rela sections", "predict", "place", "prune", "convert", "link"}

(* While sections are added the iterator stays within the symbols.         *)
Built ==
  /\ pc \in EarlyPhases => OutEarly(out)
  /\ pc \in BuildPhases => itr \in Nat /\ itr <= Len(file.symbols)

LEMMA DataSectionsBuild ==
  ASSUME ReadOk, CreateDataSections
  PROVE  FileOk(file') /\ Built'
<1>. DEFINE u == [file |-> file, out |-> <<NullSection>>, itr |-> AfterDefaults]
            new == [k \in DOMAIN file.sections |-> OutSection(file.sections[k])]
            w == AddAll(u, new)
<1>1. pc = "data sections" /\ pc' = "rela sections" /\ file' = w.file /\ out' = w.out /\ itr' = w.itr
  BY DEF CreateDataSections, Become
<1>2. BuildOk(u)
  <2>1. DOMAIN u = {"file", "out", "itr"} /\ u.file = file /\ u.out = <<NullSection>> /\ u.itr = 4
    BY DEF AfterDefaults
  <2>2. Len(file.symbols) >= 4 /\ Len(file.symbols) \in Nat
    <3>1. Len(file.symbols) >= 4
      BY <1>1 DEF ReadOk, ReadPhases
    <3>2. file.symbols \in Seq(1..Len(file.heap))
      BY DEF ReadOk, FileOk
    <3>. QED  BY <3>1, <3>2
  <2>3. u.itr \in Nat /\ u.itr <= Len(u.file.symbols)
    BY <2>1, <2>2
  <2>. HIDE DEF u
  <2>. QED  BY <2>1, <2>3, NullEarly DEF BuildOk, ReadOk
<1>3. PICK n \in Nat : n = Len(file.sections) /\ DOMAIN file.sections = 1..n
  BY DEF ReadOk, FileOk
<1>4. \A k \in 1..n : Early(OutSection(file.sections[k]))
  <2>1. \A k \in 1..n : file.sections[k] \in FileSection
    BY <1>3, ElementOfSeq DEF ReadOk, FileOk
  <2>. QED  BY <2>1, OutSectionEarly
<1>5. n = Len(new) /\ \A k \in 1..n : new[k] = OutSection(file.sections[k])
  BY <1>3
<1>. HIDE DEF u, new
<1>6. BuildOk(w)
  BY <1>2, <1>4, <1>5, AddAllKeeps
<1>. HIDE DEF w
<1>. QED  BY <1>1, <1>6 DEF BuildOk, Built

(* Relocation sections.                                                    *)
RelaOk(w) == BuildOk(w) /\ DOMAIN w = {"file", "out", "itr", "lost"}

LEMMA AddRelaKeeps ==
  ASSUME NEW w, RelaOk(w), NEW r
  PROVE  RelaOk(AddRela(w, r))
<1>. DEFINE t   == Target(w.out, r)
            sec == Section(<<".rela">> \o w.out[t].name, "RELA", 0, Max32, <<>>)
            new == [sec EXCEPT !.link = Max32, !.info = InfoOf(w, t)]
            v   == AddSection(w, new)
            id  == Len(w.out) + 1
            o   == [v.out EXCEPT ![t] = [v.out[t] EXCEPT !.rela = id]]
            x   == [v EXCEPT !.out = o]
<1>0. IsSeq(w.out) /\ Len(w.out) \in Nat /\ DOMAIN w.out = 1..Len(w.out)
      /\ \A k \in 1..Len(w.out) : Early(w.out[k])
  BY SeqIs DEF RelaOk, BuildOk, OutEarly
<1>1. CASE t = Null
  <2>1. AddRela(w, r) = [w EXCEPT !.lost = TRUE]
    BY <1>1 DEF AddRela
  <2>2. DOMAIN [w EXCEPT !.lost = TRUE] = DOMAIN w /\ [w EXCEPT !.lost = TRUE].file = w.file
        /\ [w EXCEPT !.lost = TRUE].out = w.out /\ [w EXCEPT !.lost = TRUE].itr = w.itr
    BY DEF RelaOk
  <2>. QED  BY <2>1, <2>2 DEF RelaOk, BuildOk
<1>2. CASE t # Null /\ w.out[t].rela # Null
  BY <1>2 DEF AddRela
<1>3. CASE t # Null /\ ~(w.out[t].rela # Null)
  <2>1. AddRela(w, r) = x
    BY <1>3 DEF AddRela
  <2>2. t \in 1..Len(w.out)
    <3>. DEFINE found == {k \in DOMAIN w.out : Covers(w.out[k], r.target)}
    <3>1. found # {} /\ t = Min(found)
      BY <1>3 DEF Target
    <3>2. found \subseteq Nat /\ found \subseteq 1..Len(w.out)
      BY <1>0
    <3>. HIDE DEF found
    <3>. QED  BY <3>1, <3>2, Least
  <2>. HIDE DEF t
  <2>3. <<".rela">> \o w.out[t].name \in Name
    BY <1>0, <2>2, NamePartsIn DEF Early, Sec
  <2>4. /\ DOMAIN sec = {"name", "type", "write", "addr", "offset", "size", "link", "info", "data",
                         "rela", "symbol"}
        /\ sec.name \in Name /\ sec.type = "RELA" /\ sec.addr = 0 /\ sec.size = Max32 /\ sec.data = <<>>
        /\ sec.offset = Max32
    BY <2>3, SectionIs
  <2>. HIDE DEF sec
  <2>5. Early(sec)
    BY <2>4, NoneIsSeq, NumbersAre DEF Early, Sec, EarlyTypes
  <2>6. DOMAIN new = DOMAIN sec /\ new.name = sec.name /\ new.type = sec.type /\ new.addr = sec.addr
        /\ new.size = sec.size /\ new.data = sec.data /\ new.offset = sec.offset
    BY <2>4
  <2>. HIDE DEF new
  <2>7. Early(new)
    BY <2>5, <2>6, EarlyIs
  <2>8. BuildOk(v) /\ DOMAIN v = DOMAIN w /\ Len(v.out) = Len(w.out) + 1
    BY <2>7, AddSectionKeeps DEF RelaOk
  <2>. HIDE DEF v, id
  <2>9. t \in 1..Len(v.out) /\ IsSeq(v.out)
    BY <1>0, <2>2, <2>8 DEF BuildOk, OutEarly
  <2>. DEFINE e == [v.out[t] EXCEPT !.rela = id]
  <2>10. Early(e)
    <3>1. Early(v.out[t])
      BY <2>8, <2>9 DEF BuildOk, OutEarly
    <3>2. DOMAIN e = DOMAIN v.out[t] /\ e.name = v.out[t].name /\ e.type = v.out[t].type
          /\ e.addr = v.out[t].addr /\ e.size = v.out[t].size /\ e.data = v.out[t].data
          /\ e.offset = v.out[t].offset
      BY <3>1 DEF Early, Sec
    <3>. HIDE DEF e
    <3>. QED  BY <3>1, <3>2, EarlyIs
  <2>. HIDE DEF e
  <2>11. OutEarly(o)
    <3>1. IsSeq(o) /\ Len(o) = Len(v.out) /\ o[t] = e /\ \A k \in 1..Len(v.out) : k # t => o[k] = v.out[k]
      <4>1. o = [v.out EXCEPT ![t] = e]
        BY DEF e
      <4>. QED  BY <2>9, <4>1, ChangedIsSeq
    <3>. HIDE DEF o
    <3>2. ASSUME NEW k \in 1..Len(o) PROVE Early(o[k])
      <4>1. CASE k = t
        BY <2>10, <3>1, <4>1
      <4>2. CASE k # t
        BY <2>8, <3>1, <4>2 DEF BuildOk, OutEarly
      <4>. QED  BY <4>1, <4>2
    <3>. QED  BY <3>1, <3>2 DEF OutEarly
  <2>. HIDE DEF o
  <2>12. DOMAIN x = DOMAIN v /\ x.file = v.file /\ x.out = o /\ x.itr = v.itr
    BY <2>8 DEF BuildOk
  <2>. HIDE DEF x
  <2>13. RelaOk(x)
    BY <2>8, <2>11, <2>12 DEF RelaOk, BuildOk
  <2>. QED  BY <2>1, <2>13
<1>. QED  BY <1>1, <1>2, <1>3

(* Relocation by relocation.                                               *)
RelaRounds(f, u, relocations) ==
  /\ f[0] = u
  /\ \A k \in 1..Len(relocations) : f[k] = AddRela(f[k - 1], relocations[k])
  /\ AddRelas(u, relocations) = f[Len(relocations)]

LEMMA AddRelasIs ==
  ASSUME NEW u, NEW relocations, NEW n \in Nat, n = Len(relocations)
  PROVE  \E f : RelaRounds(f, u, relocations)
<1>. DEFINE Step(r, k) == AddRela(r, relocations[k])
            Body(f, m) == [k \in 0..m |-> IF k = 0 THEN u ELSE Step(f[k - 1], k)]
            More(f, m) == [k \in 0..(m + 1) |-> IF k = m + 1 THEN Step(f[m], m + 1) ELSE f[k]]
            T == {m \in 0..n : \E f : f = Body(f, m)}
            Upto == CHOOSE f : f = Body(f, n)
<1>1. 0..n \subseteq T
  <2>. HIDE DEF Step
  <2>1. Body([k \in 0..0 |-> u], 0) = [k \in 0..0 |-> u]
    OBVIOUS
  <2>2. ASSUME NEW m \in 0..(n-1), NEW f, f = Body(f, m)
        PROVE  More(f, m) = Body(More(f, m), m + 1)
    <3>1. \A k \in 0..(m + 1) : k # 0 /\ k # m + 1 => k \in 0..m /\ k - 1 \in 0..m
      OBVIOUS
    <3>2. \A k \in 0..(m + 1) : k # 0 => k - 1 \in 0..m /\ k - 1 \in 0..(m + 1) /\ k - 1 # m + 1
      OBVIOUS
    <3>3. \A k \in 0..m : f[k] = IF k = 0 THEN u ELSE Step(f[k - 1], k)
      BY <2>2
    <3>. QED  BY <3>1, <3>2, <3>3
  <2>. HIDE DEF Body, More
  <2>3. 0 \in T
    BY <2>1
  <2>4. \A m \in 0..(n-1) : m \in T => m + 1 \in T
    BY <2>2
  <2>. HIDE DEF T
  <2>. QED  BY <2>3, <2>4, UpTo
<1>2. Upto = Body(Upto, n)
  <2>. HIDE DEF Body
  <2>. QED  BY <1>1
<1>3. AddRelas(u, relocations) = Upto[n]
  BY DEF AddRelas
<1>4. Upto[0] = u /\ \A k \in 1..n : Upto[k] = Step(Upto[k - 1], k)
  <2>. HIDE DEF Upto, Step
  <2>1. \A k \in 1..n : k \in 0..n /\ k # 0
    OBVIOUS
  <2>. QED  BY <1>2, <2>1
<1>. HIDE DEF Upto
<1>. QED  BY <1>3, <1>4 DEF RelaRounds

LEMMA AddRelasKeeps ==
  ASSUME NEW u, RelaOk(u), NEW relocations, NEW n \in Nat, n = Len(relocations)
  PROVE  RelaOk(AddRelas(u, relocations))
<1>1. PICK f : RelaRounds(f, u, relocations)
  BY AddRelasIs
<1>2. /\ f[0] = u /\ \A k \in 1..n : f[k] = AddRela(f[k - 1], relocations[k])
      /\ AddRelas(u, relocations) = f[n]
  BY <1>1 DEF RelaRounds
<1>. DEFINE T == {k \in 0..n : RelaOk(f[k])}
<1>3. 0 \in T
  BY <1>2
<1>4. ASSUME NEW k \in 0..(n-1), k \in T PROVE k + 1 \in T
  <2>1. k + 1 \in 1..n /\ (k + 1) - 1 = k /\ k + 1 \in 0..n
    OBVIOUS
  <2>2. f[k + 1] = AddRela(f[k], relocations[k + 1])
    BY <1>2, <2>1
  <2>3. RelaOk(f[k + 1])
    BY <1>4, <2>2, AddRelaKeeps
  <2>. QED  BY <2>1, <2>3
<1>5. 0..n \subseteq T
  <2>. HIDE DEF T
  <2>. QED  BY <1>3, <1>4, UpTo
<1>6. n \in 0..n
  OBVIOUS
<1>. QED  BY <1>2, <1>5, <1>6

LEMMA RelaSectionsBuild ==
  ASSUME ReadOk, Built, CreateRelaSections
  PROVE  FileOk(file') /\ Built'
<1>. DEFINE u == [file |-> file, out |-> out, itr |-> itr, lost |-> FALSE]
            w == AddRelas(u, file.relocations)
<1>1. pc = "rela sections"
  BY DEF CreateRelaSections
<1>2. \/ pc' = "failed" /\ UNCHANGED <<file, out, itr>>
      \/ pc' = "predict" /\ file' = w.file /\ out' = w.out /\ itr' = w.itr
  BY DEF CreateRelaSections, Become
<1>3. CASE pc' = "failed" /\ UNCHANGED <<file, out, itr>>
  BY <1>3 DEF ReadOk, Built, BuildPhases, EarlyPhases
<1>4. CASE pc' = "predict" /\ file' = w.file /\ out' = w.out /\ itr' = w.itr
  <2>1. RelaOk(u)
    <3>1. DOMAIN u = {"file", "out", "itr", "lost"} /\ u.file = file /\ u.out = out /\ u.itr = itr
      OBVIOUS
    <3>2. OutEarly(out) /\ itr \in Nat /\ itr <= Len(file.symbols)
      BY <1>1 DEF Built, BuildPhases, EarlyPhases
    <3>. HIDE DEF u
    <3>. QED  BY <3>1, <3>2 DEF RelaOk, BuildOk, ReadOk
  <2>2. Len(file.relocations) \in Nat
    BY SeqIs DEF ReadOk, FileOk
  <2>. HIDE DEF u
  <2>3. RelaOk(w)
    BY <2>1, <2>2, AddRelasKeeps
  <2>. HIDE DEF w
  <2>. QED  BY <1>4, <2>3 DEF RelaOk, BuildOk, Built
<1>. QED  BY <1>2, <1>3, <1>4

(* The predicted sizes of the tables.                                      *)
TablesOk == tables.str \in Nat /\ tables.sym \in Nat /\ tables.shstr \in Nat

LEMMA PredictBuild ==
  ASSUME ReadOk, Built, Predict
  PROVE  FileOk(file') /\ Built' /\ TablesOk'
<1>. DEFINE names == [i \in DOMAIN file.symbols |-> file.heap[file.symbols[i]].name]
            titles == [i \in DOMAIN out |-> out[i].name]
<1>1. pc = "predict" /\ pc' = "place" /\ UNCHANGED <<file, out, itr>>
  BY DEF Predict
<1>2. Built'
  BY <1>1 DEF Built, BuildPhases, EarlyPhases
<1>3. names \in Seq(Name)
  <2>1. file.symbols \in Seq(1..Len(file.heap)) /\ file.heap \in Seq(Sym)
    BY DEF ReadOk, FileOk
  <2>2. \A i \in DOMAIN file.symbols : file.heap[file.symbols[i]] \in Sym
    BY <2>1
  <2>3. \A i \in DOMAIN file.symbols : file.heap[file.symbols[i]].name \in Name
    BY <2>2 DEF Sym
  <2>4. PICK n \in Nat : DOMAIN file.symbols = 1..n
    BY <2>1
  <2>. QED  BY <2>3, <2>4
<1>4. titles \in Seq(Name)
  <2>1. DOMAIN out = 1..Len(out) /\ Len(out) \in Nat /\ \A k \in 1..Len(out) : Early(out[k])
    BY <1>1, SeqIs DEF Built, EarlyPhases, OutEarly
  <2>2. \A k \in 1..Len(out) : out[k].name \in Name
    BY <2>1 DEF Early, Sec
  <2>. QED  BY <2>1, <2>2
<1>. HIDE DEF names, titles
<1>5. PICK a \in Nat, b \in Nat, c \in Nat : a = Names(names) /\ b = Names(titles) /\ c = Len(file.symbols)
  BY <1>3, <1>4, NamesNat DEF ReadOk, FileOk
<1>6. 1 + a \in Nat /\ 1 + b \in Nat /\ 1 + 16 * c \in Nat
  OBVIOUS
<1>7. AlignUp(1 + a, 16) \in Nat /\ AlignUp(1 + b, 16) \in Nat /\ AlignUp(1 + 16 * c, 16) \in Nat
  BY <1>6, Aligned
<1>8. tables' = [str |-> AlignUp(1 + Names(names), 16),
                 sym |-> AlignUp(1 + 16 * Len(file.symbols), 16),
                 shstr |-> AlignUp(1 + Names(titles), 16)]
  BY DEF Predict, names, titles
<1>. QED  BY <1>1, <1>2, <1>5, <1>7, <1>8 DEF TablesOk, ReadOk

(* The import sections.                                                    *)
PlaceOk(w) == BuildOk(w) /\ DOMAIN w = {"file", "out", "itr", "load"} /\ w.load \in Nat

LEMMA PlacedIn ==
  ASSUME NEW heap \in Seq(Sym), NEW lib \in Lib, NEW load \in Nat
  PROVE  Placed(heap, lib, load) \in Seq(Sym) /\ Len(Placed(heap, lib, load)) = Len(heap)
<1>. DEFINE mine(s) == {i \in DOMAIN lib.imports : lib.imports[i].symbol = s}
            e(s) == IF mine(s) = {} THEN heap[s]
                    ELSE [heap[s] EXCEPT !.address = load + 8 + (Min(mine(s)) - 1) * 8]
<1>1. lib.imports \in Seq(Import)
  BY DEF Lib
<1>2. PICK n \in Nat : n = Len(heap) /\ DOMAIN heap = 1..n
  OBVIOUS
<1>3. ASSUME NEW s \in 1..n PROVE e(s) \in Sym
  <2>1. heap[s] \in Sym
    BY <1>2
  <2>2. CASE mine(s) = {}
    BY <2>1, <2>2
  <2>3. CASE mine(s) # {}
    <3>1. PICK m \in Nat : DOMAIN lib.imports = 1..m
      BY <1>1
    <3>2. mine(s) \subseteq 1..m /\ mine(s) \subseteq Nat
      BY <3>1
    <3>. HIDE DEF mine
    <3>3. Min(mine(s)) \in 1..m
      BY <2>3, <3>2, Least
    <3>4. PICK j \in 1..m : j = Min(mine(s))
      BY <3>3
    <3>5. load + 8 + (j - 1) * 8 \in Nat
      BY <3>1
    <3>6. PICK a \in Nat : a = load + 8 + (j - 1) * 8
      BY <3>5
    <3>7. e(s) = [heap[s] EXCEPT !.address = a]
      BY <2>3, <3>4, <3>6
    <3>. HIDE DEF e
    <3>8. [heap[s] EXCEPT !.address = a] \in Sym
      BY <2>1 DEF Sym
    <3>. QED  BY <3>7, <3>8
  <2>. QED  BY <2>2, <2>3
<1>4. Placed(heap, lib, load) = [s \in 1..n |-> e(s)]
  BY <1>2 DEF Placed
<1>. HIDE DEF e
<1>5. [s \in 1..n |-> e(s)] \in Seq(Sym) /\ Len([s \in 1..n |-> e(s)]) = n
  BY <1>3
<1>. QED  BY <1>2, <1>4, <1>5

LEMMA PlaceLibKeeps ==
  ASSUME NEW w, PlaceOk(w), NEW lib \in Lib
  PROVE  PlaceOk(PlaceLib(w, lib))
<1>. DEFINE count == Len(lib.imports)
            size == ImportSize(lib.name, count)
            entry == [name |-> lib.name, count |-> count, signature |-> <<>>]
            new == Section(<<".fimport_">> \o lib.name, "IMPORTS", w.load, size, <<entry>>)
            h == Placed(w.file.heap, lib, w.load)
            g == [w.file EXCEPT !.heap = h]
            end == AlignUp(w.load + size, 4)
            x == [w EXCEPT !.file = g, !.load = end]
<1>1. PlaceLib(w, lib) = AddSection(x, new)
  BY DEF PlaceLib
<1>2. lib.name \in Name /\ count \in Nat
  BY DEF Lib
<1>. HIDE DEF count
<1>3. size \in Nat
  BY <1>2, ImportSizeNat
<1>. HIDE DEF size
<1>4. end \in Nat
  <2>1. w.load + size \in Nat
    BY <1>3 DEF PlaceOk
  <2>. QED  BY <2>1, Aligned
<1>. HIDE DEF end
<1>5. Early(new)
  <2>1. <<".fimport_">> \o lib.name \in Name
    BY <1>2, NamePartsIn
  <2>2. /\ DOMAIN new = {"name", "type", "write", "addr", "offset", "size", "link", "info", "data",
                         "rela", "symbol"}
        /\ new.name \in Name /\ new.type = "IMPORTS" /\ new.addr = w.load /\ new.size = size
        /\ new.data = <<entry>> /\ new.offset = Max32
    BY <2>1, SectionIs
  <2>. HIDE DEF new
  <2>3. DOMAIN entry = {"name", "count", "signature"} /\ entry.name \in Name /\ entry.count \in Nat
    BY <1>2
  <2>. HIDE DEF entry
  <2>4. IsSeq(<<entry>>) /\ 1 \in DOMAIN <<entry>> /\ <<entry>>[1] = entry
    BY OneIsSeq
  <2>. QED  BY <1>3, <2>2, <2>3, <2>4 DEF Early, Sec, EarlyTypes, PlaceOk
<1>. HIDE DEF new
<1>6. h \in Seq(Sym) /\ Len(h) = Len(w.file.heap)
  BY PlacedIn DEF PlaceOk, BuildOk, FileOk
<1>. HIDE DEF h
<1>7. FileOk(g) /\ g.symbols = w.file.symbols
  <2>1. DOMAIN g = DOMAIN w.file /\ g.heap = h /\ g.symbols = w.file.symbols /\ g.libs = w.file.libs
        /\ g.sections = w.file.sections /\ g.relocations = w.file.relocations
    BY DEF PlaceOk, BuildOk, FileOk
  <2>. HIDE DEF g
  <2>. QED  BY <1>6, <2>1 DEF PlaceOk, BuildOk, FileOk
<1>. HIDE DEF g
<1>8. DOMAIN x = DOMAIN w /\ x.file = g /\ x.out = w.out /\ x.itr = w.itr /\ x.load = end
  BY DEF PlaceOk
<1>. HIDE DEF x
<1>9. BuildOk(x) /\ "load" \in DOMAIN x
  BY <1>7, <1>8 DEF PlaceOk, BuildOk
<1>10. LET v == AddSection(x, new)
       IN  BuildOk(v) /\ DOMAIN v = DOMAIN x /\ v.load = x.load
  BY <1>5, <1>9, AddSectionKeeps
<1>. QED  BY <1>1, <1>4, <1>8, <1>10 DEF PlaceOk

(* Library by library.                                                     *)
PlaceRounds(f, u, libs) ==
  /\ f[0] = u
  /\ \A k \in 1..Len(libs) : f[k] = PlaceLib(f[k - 1], libs[k])
  /\ PlaceLibs(u, libs) = f[Len(libs)]

LEMMA PlaceLibsIs ==
  ASSUME NEW u, NEW libs, NEW n \in Nat, n = Len(libs)
  PROVE  \E f : PlaceRounds(f, u, libs)
<1>. DEFINE Step(r, k) == PlaceLib(r, libs[k])
            Body(f, m) == [k \in 0..m |-> IF k = 0 THEN u ELSE Step(f[k - 1], k)]
            More(f, m) == [k \in 0..(m + 1) |-> IF k = m + 1 THEN Step(f[m], m + 1) ELSE f[k]]
            T == {m \in 0..n : \E f : f = Body(f, m)}
            Upto == CHOOSE f : f = Body(f, n)
<1>1. 0..n \subseteq T
  <2>. HIDE DEF Step
  <2>1. Body([k \in 0..0 |-> u], 0) = [k \in 0..0 |-> u]
    OBVIOUS
  <2>2. ASSUME NEW m \in 0..(n-1), NEW f, f = Body(f, m)
        PROVE  More(f, m) = Body(More(f, m), m + 1)
    <3>1. \A k \in 0..(m + 1) : k # 0 /\ k # m + 1 => k \in 0..m /\ k - 1 \in 0..m
      OBVIOUS
    <3>2. \A k \in 0..(m + 1) : k # 0 => k - 1 \in 0..m /\ k - 1 \in 0..(m + 1) /\ k - 1 # m + 1
      OBVIOUS
    <3>3. \A k \in 0..m : f[k] = IF k = 0 THEN u ELSE Step(f[k - 1], k)
      BY <2>2
    <3>. QED  BY <3>1, <3>2, <3>3
  <2>. HIDE DEF Body, More
  <2>3. 0 \in T
    BY <2>1
  <2>4. \A m \in 0..(n-1) : m \in T => m + 1 \in T
    BY <2>2
  <2>. HIDE DEF T
  <2>. QED  BY <2>3, <2>4, UpTo
<1>2. Upto = Body(Upto, n)
  <2>. HIDE DEF Body
  <2>. QED  BY <1>1
<1>3. PlaceLibs(u, libs) = Upto[n]
  BY DEF PlaceLibs
<1>4. Upto[0] = u /\ \A k \in 1..n : Upto[k] = Step(Upto[k - 1], k)
  <2>. HIDE DEF Upto, Step
  <2>1. \A k \in 1..n : k \in 0..n /\ k # 0
    OBVIOUS
  <2>. QED  BY <1>2, <2>1
<1>. HIDE DEF Upto
<1>. QED  BY <1>3, <1>4 DEF PlaceRounds

LEMMA PlaceLibsKeeps ==
  ASSUME NEW u, PlaceOk(u), NEW libs \in Seq(Lib)
  PROVE  PlaceOk(PlaceLibs(u, libs))
<1>. DEFINE n == Len(libs)
<1>0. n \in Nat /\ \A k \in 1..n : libs[k] \in Lib
  BY ElementOfSeq
<1>1. PICK f : PlaceRounds(f, u, libs)
  BY <1>0, PlaceLibsIs
<1>2. /\ f[0] = u /\ \A k \in 1..n : f[k] = PlaceLib(f[k - 1], libs[k])
      /\ PlaceLibs(u, libs) = f[n]
  BY <1>1 DEF PlaceRounds
<1>. DEFINE T == {k \in 0..n : PlaceOk(f[k])}
<1>. HIDE DEF n
<1>3. 0 \in T
  BY <1>0, <1>2
<1>4. ASSUME NEW k \in 0..(n-1), k \in T PROVE k + 1 \in T
  <2>1. k + 1 \in 1..n /\ (k + 1) - 1 = k /\ k + 1 \in 0..n
    BY <1>0
  <2>2. f[k + 1] = PlaceLib(f[k], libs[k + 1]) /\ libs[k + 1] \in Lib
    BY <1>0, <1>2, <2>1
  <2>3. PlaceOk(f[k + 1])
    BY <1>4, <2>2, PlaceLibKeeps
  <2>. QED  BY <2>1, <2>3
<1>5. 0..n \subseteq T
  <2>. HIDE DEF T
  <2>. QED  BY <1>0, <1>3, <1>4, UpTo
<1>6. n \in 0..n
  BY <1>0
<1>. QED  BY <1>2, <1>5, <1>6

LEMMA PlaceImportsBuild ==
  ASSUME ReadOk, Built, TablesOk, PlaceImports
  PROVE  FileOk(file') /\ Built'
<1>. DEFINE first == WiiuLoadAddress + tables.str + tables.sym + tables.shstr
            u == [file |-> file, out |-> out, itr |-> itr, load |-> first]
            w == PlaceLibs(u, file.libs)
<1>1. pc = "place" /\ pc' = "prune" /\ file' = w.file /\ out' = w.out /\ itr' = w.itr
  BY DEF PlaceImports, Become
<1>2. first \in Nat
  BY NumbersAre DEF TablesOk
<1>. HIDE DEF first
<1>3. PlaceOk(u)
  <2>1. DOMAIN u = {"file", "out", "itr", "load"} /\ u.file = file /\ u.out = out /\ u.itr = itr /\ u.load = first
    OBVIOUS
  <2>2. OutEarly(out) /\ itr \in Nat /\ itr <= Len(file.symbols)
    BY <1>1 DEF Built, BuildPhases, EarlyPhases
  <2>. HIDE DEF u
  <2>. QED  BY <1>2, <2>1, <2>2 DEF PlaceOk, BuildOk, ReadOk
<1>. HIDE DEF u
<1>4. PlaceOk(w)
  BY <1>3, PlaceLibsKeeps DEF ReadOk, FileOk
<1>. HIDE DEF w
<1>. QED  BY <1>1, <1>4 DEF PlaceOk, BuildOk, Built, BuildPhases

LEMMA PruneBuild ==
  ASSUME ReadOk, Built, Prune
  PROVE  FileOk(file') /\ Built'
<1>. DEFINE q == file.symbols
            I == {i \in DOMAIN q : ~Unneeded(file.heap[q[i]])}
            ids == Chosen(q, I)
<1>1. pc = "prune" /\ pc' = "convert" /\ out' = out /\ file' = [file EXCEPT !.symbols = ids]
  BY DEF Prune
<1>2. ids \in Seq(1..Len(file.heap))
  <2>. DEFINE D == 1..Len(file.heap)
  <2>1. q \in Seq(D)
    BY DEF ReadOk, FileOk
  <2>. HIDE DEF D, q, I
  <2>2. Len(q) \in Nat /\ \A k \in 1..Len(q) : k \in I => q[k] \in D
    BY <2>1
  <2>3. Chosen(q, I) \in Seq(D)
    BY <2>2, ChosenIn
  <2>. QED  BY <2>3 DEF D
<1>. HIDE DEF ids
<1>3. DOMAIN file' = DOMAIN file /\ file'.heap = file.heap /\ file'.symbols = ids
      /\ file'.sections = file.sections /\ file'.libs = file.libs /\ file'.relocations = file.relocations
  BY <1>1 DEF ReadOk, FileOk
<1>4. FileOk(file')
  BY <1>2, <1>3 DEF ReadOk, FileOk
<1>. QED  BY <1>1, <1>4 DEF Built, BuildPhases, EarlyPhases

-----------------------------------------------------------------------------
(***************************************************************************)
(* Relocations are converted, and the sections get their sizes.            *)
(***************************************************************************)
LEMMA ExtendedEarly ==
  ASSUME NEW s, Early(s), NEW e, IsSeq(e)
  PROVE  Early([s EXCEPT !.data = s.data \o e])
<1>. DEFINE d == s.data \o e
            t == [s EXCEPT !.data = d]
<1>1. IsSeq(s.data) /\ Len(s.data) \in Nat /\ DOMAIN s.data = 1..Len(s.data) /\ Len(e) \in Nat
  BY SeqIs DEF Early, Sec
<1>2. IsSeq(d) /\ Len(d) = Len(s.data) + Len(e) /\ \A i \in 1..Len(s.data) : d[i] = s.data[i]
  BY <1>1, JoinedIsSeq
<1>3. DOMAIN d = 1..Len(d)
  BY <1>2, SeqIs
<1>4. 1 \in DOMAIN s.data => 1 \in DOMAIN d /\ d[1] = s.data[1]
  BY <1>1, <1>2, <1>3
<1>. HIDE DEF d
<1>5. DOMAIN t = DOMAIN s /\ t.name = s.name /\ t.type = s.type /\ t.addr = s.addr /\ t.size = s.size
      /\ t.data = d /\ t.offset = s.offset
  BY DEF Early, Sec
<1>. HIDE DEF t
<1>6. Early(t)
  BY <1>2, <1>4, <1>5 DEF Early, Sec, EarlyTypes
<1>. QED  BY <1>6 DEF t, d

LEMMA ConvertBuild ==
  ASSUME ReadOk, Built, Convert
  PROVE  FileOk(file') /\ Built'
<1>. DEFINE rs == file.relocations
            RelaOf(r) == LET t == Target(out, r) IN IF t = Null THEN Null ELSE out[t].rela
            freed == {i \in DOMAIN rs : ~Live(rs[i]) /\ rs[i].symbol # Null}
            Read1(read, i) == IF i \in freed THEN read[i] ELSE 0
            I(k) == {i \in DOMAIN rs : RelaOf(rs[i]) = k}
            Mine(k) == Chosen(Places(rs), I(k))
            Made(read, k) == [j \in DOMAIN Mine(k) |->
                                 Converted(rs[Mine(k)[j]], Read1(read, Mine(k)[j]))]
<1>1. pc = "convert" /\ file' = file
  BY DEF Convert
<1>2. OutEarly(out)
  BY <1>1 DEF Built, EarlyPhases
<1>3. CASE UNCHANGED out
  <2>1. pc' \notin BuildPhases
    BY DEF Convert, BuildPhases
  <2>. QED  BY <1>1, <1>2, <1>3, <2>1 DEF Built, ReadOk
<1>4. CASE ~UNCHANGED out
  <2>1. PICK read : out' = [k \in DOMAIN out |-> [out[k] EXCEPT !.data = @ \o Made(read, k)]]
    BY <1>4 DEF Convert
  <2>2. pc' = "link"
    BY <1>4 DEF Convert
  <2>3. ASSUME NEW k PROVE IsSeq(Made(read, k))
    <3>1. PICK m \in Nat : m = Len(rs) /\ DOMAIN rs = 1..m
      BY SeqIs DEF ReadOk, FileOk
    <3>2. Len(Places(rs)) = m /\ \A i \in 1..m : Places(rs)[i] \in Nat
      BY <3>1 DEF Places
    <3>. HIDE DEF I
    <3>3. Mine(k) \in Seq(Nat)
      BY <3>1, <3>2, ChosenIn
    <3>4. PICK n \in Nat : DOMAIN Mine(k) = 1..n
      BY <3>3
    <3>. DEFINE e(j) == Converted(rs[Mine(k)[j]], Read1(read, Mine(k)[j]))
                q == Made(read, k)
    <3>5. q = [j \in 1..n |-> e(j)]
      BY <3>4
    <3>. HIDE DEF q, e
    <3>6. q = [j \in 1..n |-> q[j]]
      BY <3>5
    <3>7. IsSeq(q)
      BY <3>6, TableIsSeq
    <3>. QED  BY <3>7 DEF q
  <2>. HIDE DEF Made
  <2>4. OutEarly(out')
    <3>1. PICK n \in Nat : n = Len(out) /\ DOMAIN out = 1..n
      BY <1>2, SeqIs DEF OutEarly
    <3>. DEFINE e(k) == [out[k] EXCEPT !.data = out[k].data \o Made(read, k)]
    <3>2. out' = [k \in 1..n |-> e(k)]
      BY <2>1, <3>1
    <3>3. \A k \in 1..n : Early(e(k))
      BY <1>2, <2>3, <3>1, ExtendedEarly DEF OutEarly
    <3>. HIDE DEF e
    <3>4. out' = [k \in 1..n |-> out'[k]] /\ \A k \in 1..n : Early(out'[k])
      BY <3>2, <3>3
    <3>5. IsSeq(out') /\ Len(out') = n
      BY <3>4, TableIsSeq
    <3>. QED  BY <3>4, <3>5 DEF OutEarly
  <2>. QED  BY <1>1, <2>2, <2>4 DEF Built, BuildPhases, ReadOk
<1>. QED  BY <1>3, <1>4

(* A section whose size is that of its data.                               *)
Ready(s) ==
  /\ Sec(s) /\ s.type \in EarlyTypes \cup {"SYMTAB", "STRTAB"}
  /\ IF s.type = "NULL" THEN s.addr = 0 /\ s.size = 0 ELSE s.offset = Max32
  /\ s.type # "NOBITS" => s.size = DataSize(s)

LEMMA SameData ==
  ASSUME NEW s, NEW t, t.type = s.type, t.data = s.data
  PROVE  DataSize(t) = DataSize(s)
BY DEF DataSize

LEMMA SizedReady ==
  ASSUME NEW s, Sec(s), s.type \in EarlyTypes \cup {"SYMTAB", "STRTAB"},
         IF s.type = "NULL" THEN s.addr = 0 /\ s.size = 0 ELSE s.offset = Max32
  PROVE  /\ Ready(Sized(s)) /\ DOMAIN Sized(s) = DOMAIN s /\ Sized(s).type = s.type
         /\ Sized(s).data = s.data /\ Sized(s).addr = s.addr
<1>. DEFINE size == IF s.type = "NOBITS" THEN s.size ELSE DataSize(s)
            t == [s EXCEPT !.size = size]
<1>1. Sized(s) = t
  BY DEF Sized
<1>2. size \in Nat
  BY DataSizeNat DEF Sec
<1>3. s.type = "NULL" => DataSize(s) = 0
  <2>1. s.type = "NULL" => DataSize(s) = 0 * Len(s.data)
    BY DEF DataSize, EntrySize
  <2>2. Len(s.data) \in Nat
    BY SeqIs DEF Sec
  <2>. QED  BY <2>1, <2>2
<1>4. s.type # "NOBITS" => size = DataSize(s)
  OBVIOUS
<1>. HIDE DEF size
<1>5. DOMAIN t = DOMAIN s /\ t.name = s.name /\ t.type = s.type /\ t.addr = s.addr /\ t.size = size
      /\ t.data = s.data /\ t.offset = s.offset
  BY DEF Sec
<1>. HIDE DEF t
<1>6. DataSize(t) = DataSize(s)
  BY <1>5, SameData
<1>7. Sec(t)
  BY <1>2, <1>5 DEF Sec
<1>8. Ready(t)
  BY <1>3, <1>4, <1>5, <1>6, <1>7 DEF Ready, EarlyTypes
<1>. QED  BY <1>1, <1>5, <1>8

LEMMA ReadyIs ==
  ASSUME NEW s, Ready(s), NEW t, DOMAIN t = DOMAIN s, t.name = s.name, t.type = s.type,
         t.addr = s.addr, t.size = s.size, t.data = s.data, t.offset = s.offset
  PROVE  Ready(t)
<1>1. DataSize(t) = DataSize(s)
  BY SameData
<1>2. Sec(t)
  BY DEF Ready, Sec
<1>. QED  BY <1>1, <1>2 DEF Ready

LEMMA LinkedReady ==
  ASSUME NEW s, Early(s), NEW n
  PROVE  Ready(Linked(s, n)) /\ Linked(s, n).type \in EarlyTypes
<1>. DEFINE link == IF s.type = "RELA" THEN n ELSE Sized(s).link
            r == Sized(s)
            t == [r EXCEPT !.link = link]
<1>1. Ready(r) /\ r.type = s.type
  BY SizedReady DEF Early
<1>2. Linked(s, n) = t
  BY DEF Linked
<1>. HIDE DEF r, link
<1>3. DOMAIN t = DOMAIN r /\ t.name = r.name /\ t.type = r.type /\ t.addr = r.addr /\ t.size = r.size
      /\ t.data = r.data /\ t.offset = r.offset
  BY <1>1 DEF Ready, Sec
<1>. HIDE DEF t
<1>4. Ready(t)
  BY <1>1, <1>3, ReadyIs
<1>. QED  BY <1>1, <1>2, <1>3, <1>4 DEF Early

(* The three tables stand at the end, without a size yet.                  *)
TablePhases == {"symtab", "shstrtab"}
Tabled(o) ==
  /\ IsSeq(o) /\ Len(o) >= 3
  /\ \A k \in 1..(Len(o) - 3) : Ready(o[k]) /\ o[k].type \in EarlyTypes
  /\ Sec(o[Len(o) - 2]) /\ o[Len(o) - 2].type = "SYMTAB" /\ o[Len(o) - 2].offset = Max32
  /\ Sec(o[Len(o) - 1]) /\ o[Len(o) - 1].type = "STRTAB" /\ o[Len(o) - 1].offset = Max32
  /\ Sec(o[Len(o)]) /\ o[Len(o)].type = "NULL"

LEMMA NonEmptyIn ==
  ASSUME NEW names \in Seq(Name)
  PROVE  NonEmpty(names) \in Seq(Name)
<1>. DEFINE I == {i \in DOMAIN names : names[i] # <<>>}
<1>1. Len(names) \in Nat /\ \A k \in 1..Len(names) : k \in I => names[k] \in Name
  OBVIOUS
<1>. HIDE DEF I
<1>2. Chosen(names, I) \in Seq(Name)
  BY <1>1, ChosenIn
<1>. QED  BY <1>2 DEF NonEmpty, I

LEMMA SymbolNames ==
  ASSUME FileOk(file)
  PROVE  [i \in DOMAIN file.symbols |-> file.heap[file.symbols[i]].name] \in Seq(Name)
<1>1. file.symbols \in Seq(1..Len(file.heap)) /\ file.heap \in Seq(Sym)
  BY DEF FileOk
<1>2. \A i \in DOMAIN file.symbols : file.heap[file.symbols[i]] \in Sym
  BY <1>1
<1>3. \A i \in DOMAIN file.symbols : file.heap[file.symbols[i]].name \in Name
  BY <1>2 DEF Sym
<1>4. PICK n \in Nat : DOMAIN file.symbols = 1..n
  BY <1>1
<1>. QED  BY <1>3, <1>4

LEMMA HeapLinked ==
  ASSUME FileOk(file), OutEarly(out), LinkTables
  PROVE  FileOk(file')
<1>. DEFINE mine(s) == {k \in DOMAIN out : out[k].symbol = s}
            heap == file.heap
            e(s) == IF mine(s) = {} THEN heap[s]
                    ELSE [heap[s] EXCEPT !.address = out[Min(mine(s))].addr,
                                         !.size = Sized(out[Min(mine(s))]).size]
            h == [s \in DOMAIN heap |-> e(s)]
<1>1. file' = [file EXCEPT !.heap = h]
  BY DEF LinkTables
<1>2. heap \in Seq(Sym)
  BY DEF FileOk
<1>3. PICK n \in Nat : n = Len(heap) /\ DOMAIN heap = 1..n
  BY <1>2
<1>4. ASSUME NEW s \in 1..n PROVE e(s) \in Sym
  <2>1. heap[s] \in Sym
    BY <1>2, <1>3
  <2>2. CASE mine(s) = {}
    <3>1. e(s) = heap[s]
      BY <2>2, Zenon
    <3>. QED  BY <2>1, <3>1
  <2>3. CASE mine(s) # {}
    <3>1. DOMAIN out = 1..Len(out) /\ Len(out) \in Nat /\ \A k \in 1..Len(out) : Early(out[k])
      BY SeqIs DEF OutEarly
    <3>2. mine(s) \subseteq Nat /\ mine(s) \subseteq 1..Len(out)
      BY <3>1
    <3>. DEFINE j == Min(mine(s))
    <3>3. j \in 1..Len(out)
      <4>. HIDE DEF mine
      <4>. QED  BY <2>3, <3>2, Least
    <3>4. e(s) = [heap[s] EXCEPT !.address = out[j].addr, !.size = Sized(out[j]).size]
      BY <2>3
    <3>. HIDE DEF j, e
    <3>5. Early(out[j])
      BY <3>1, <3>3
    <3>6. Ready(Sized(out[j]))
      BY <3>5, SizedReady DEF Early
    <3>7. out[j].addr \in Nat /\ Sized(out[j]).size \in Nat
      BY <3>5, <3>6 DEF Early, Ready, Sec
    <3>8. PICK a \in Nat, b \in Nat : a = out[j].addr /\ b = Sized(out[j]).size
      BY <3>7
    <3>9. [heap[s] EXCEPT !.address = a, !.size = b] \in Sym
      BY <2>1 DEF Sym
    <3>. QED  BY <3>4, <3>8, <3>9
  <2>. QED  BY <2>2, <2>3
<1>. HIDE DEF e
<1>5. h \in Seq(Sym) /\ Len(h) = n
  BY <1>3, <1>4
<1>6. DOMAIN file' = DOMAIN file /\ file'.heap = h /\ file'.symbols = file.symbols
      /\ file'.sections = file.sections /\ file'.libs = file.libs /\ file'.relocations = file.relocations
  BY <1>1 DEF FileOk
<1>. HIDE DEF h
<1>. QED  BY <1>3, <1>5, <1>6 DEF FileOk

(* What it is to be the one sequence and then the other.                   *)
Joins(s, t, q) ==
  /\ IsSeq(q) /\ Len(q) = Len(s) + Len(t)
  /\ \A i \in 1..Len(s) : q[i] = s[i]
  /\ \A i \in 1..Len(t) : q[Len(s) + i] = t[i]

LEMMA JoinedTo ==
  ASSUME NEW s, IsSeq(s), NEW t, IsSeq(t)
  PROVE  Joins(s, t, s \o t)
BY JoinedIsSeq DEF Joins

LEMMA LinkTablesMakes ==
  ASSUME ReadOk, Built, LinkTables
  PROVE  FileOk(file') /\ pc' = "symtab" /\ Tabled(out')
<1>. DEFINE n == Len(out)
            e(k) == Linked(out[k], n)
            a == [k \in DOMAIN out |-> e(k)]
            names == NonEmpty([i \in DOMAIN file.symbols |-> file.heap[file.symbols[i]].name])
            sym0 == Section(<<".symtab">>, "SYMTAB", 0, Max32, <<>>)
            sym == [sym0 EXCEPT !.link = n + 1]
            str == Section(<<".strtab">>, "STRTAB", 0, Max32, names)
            shstr == Section(<<".shstrtab">>, "NULL", 0, 0, <<>>)
            b == <<sym, str, shstr>>
<1>1. pc = "link" /\ pc' = "symtab" /\ out' = a \o b
  BY DEF LinkTables
<1>2. OutEarly(out)
  BY <1>1 DEF Built, EarlyPhases
<1>3. FileOk(file')
  BY <1>2, HeapLinked DEF ReadOk
<1>4. n \in Nat /\ DOMAIN out = 1..n /\ \A k \in 1..n : Early(out[k])
  BY <1>2, SeqIs DEF OutEarly
<1>5. \A k \in 1..n : Ready(e(k)) /\ e(k).type \in EarlyTypes
  BY <1>4, LinkedReady
<1>. HIDE DEF e
<1>6. IsSeq(a) /\ Len(a) = n /\ \A k \in 1..n : a[k] = e(k)
  <2>1. a = [k \in 1..n |-> e(k)]
    BY <1>4
  <2>2. a = [k \in 1..n |-> a[k]] /\ \A k \in 1..n : a[k] = e(k)
    BY <2>1
  <2>. HIDE DEF a
  <2>. QED  BY <1>4, <2>2, TableIsSeq
<1>. HIDE DEF a
<1>7. names \in Seq(Name)
  BY SymbolNames, NonEmptyIn DEF ReadOk
<1>. HIDE DEF names
<1>8. Sec(sym) /\ sym.type = "SYMTAB" /\ sym.offset = Max32
  <2>1. /\ DOMAIN sym0 = {"name", "type", "write", "addr", "offset", "size", "link", "info", "data",
                          "rela", "symbol"}
        /\ sym0.name = <<".symtab">> /\ sym0.type = "SYMTAB" /\ sym0.addr = 0 /\ sym0.size = Max32
        /\ sym0.data = <<>> /\ sym0.offset = Max32
    BY SectionIs
  <2>. HIDE DEF sym0
  <2>2. DOMAIN sym = DOMAIN sym0 /\ sym.name = sym0.name /\ sym.type = sym0.type /\ sym.addr = sym0.addr
        /\ sym.size = sym0.size /\ sym.data = sym0.data /\ sym.offset = sym0.offset
    BY <2>1
  <2>. HIDE DEF sym
  <2>. QED  BY <2>1, <2>2, NoneIsSeq, NamePartsIn, NumbersAre DEF Sec
<1>9. Sec(str) /\ str.type = "STRTAB" /\ str.offset = Max32
  <2>1. /\ DOMAIN str = {"name", "type", "write", "addr", "offset", "size", "link", "info", "data",
                         "rela", "symbol"}
        /\ str.name = <<".strtab">> /\ str.type = "STRTAB" /\ str.addr = 0 /\ str.size = Max32
        /\ str.data = names /\ str.offset = Max32
    BY SectionIs
  <2>. HIDE DEF str
  <2>2. IsSeq(names)
    BY <1>7, SeqIs
  <2>. QED  BY <1>7, <2>1, <2>2, NamePartsIn, NumbersAre DEF Sec
<1>9a. Sec(shstr) /\ shstr.type = "NULL"
  <2>1. /\ DOMAIN shstr = {"name", "type", "write", "addr", "offset", "size", "link", "info", "data",
                           "rela", "symbol"}
        /\ shstr.name = <<".shstrtab">> /\ shstr.type = "NULL" /\ shstr.addr = 0 /\ shstr.size = 0
        /\ shstr.data = <<>>
    BY SectionIs
  <2>. HIDE DEF shstr
  <2>. QED  BY <2>1, NoneIsSeq, NamePartsIn DEF Sec, EarlyTypes
<1>. HIDE DEF sym, str, shstr
<1>10. IsSeq(b) /\ Len(b) = 3 /\ b[1] = sym /\ b[2] = str /\ b[3] = shstr
  <2>1. b \in Seq({sym, str, shstr}) /\ Len(b) = 3 /\ b[1] = sym /\ b[2] = str /\ b[3] = shstr
    OBVIOUS
  <2>2. IsSeq(b)
    BY <2>1, SeqIs
  <2>. QED  BY <2>1, <2>2
<1>. HIDE DEF b
<1>11. /\ IsSeq(out') /\ Len(out') = n + 3
       /\ \A k \in 1..n : out'[k] = e(k)
       /\ out'[n + 1] = sym /\ out'[n + 2] = str /\ out'[n + 3] = shstr
  <2>1. /\ IsSeq(a \o b) /\ Len(a \o b) = Len(a) + Len(b)
        /\ \A i \in 1..Len(a) : (a \o b)[i] = a[i]
        /\ \A i \in 1..Len(b) : (a \o b)[Len(a) + i] = b[i]
    <3>1. Joins(a, b, a \o b)
      BY <1>6, <1>10, JoinedTo
    <3>. QED  BY <3>1 DEF Joins
  <2>2. 1 \in 1..Len(b) /\ 2 \in 1..Len(b) /\ 3 \in 1..Len(b)
    BY <1>10
  <2>. QED  BY <1>1, <1>6, <1>10, <2>1, <2>2
<1>12. Len(out') - 3 = n /\ Len(out') - 2 = n + 1 /\ Len(out') - 1 = n + 2 /\ Len(out') >= 3
  BY <1>4, <1>11
<1>13. \A k \in 1..(Len(out') - 3) : Ready(out'[k]) /\ out'[k].type \in EarlyTypes
  BY <1>5, <1>11, <1>12
<1>14. Tabled(out')
  BY <1>8, <1>9, <1>9a, <1>11, <1>12, <1>13 DEF Tabled
<1>. QED  BY <1>1, <1>3, <1>14

-----------------------------------------------------------------------------
(***************************************************************************)
(* The tables are filled.                                                  *)
(***************************************************************************)
LEMMA SignedReady ==
  ASSUME NEW s, Ready(s), s.type = "IMPORTS", NEW x, NEW t, t = [s EXCEPT !.data[1].signature = x]
  PROVE  Ready(t) /\ t.type = "IMPORTS"
<1>. DEFINE d1 == [s.data[1] EXCEPT !.signature = x]
            d == [s.data EXCEPT ![1] = d1]
<1>1. Sec(s) /\ IsSeq(s.data) /\ 1 \in DOMAIN s.data /\ {"name", "count"} \subseteq DOMAIN s.data[1]
      /\ s.data[1].name \in Name /\ s.data[1].count \in Nat
  BY DEF Ready, Sec
<1>2. t = [s EXCEPT !.data = d]
  OBVIOUS
<1>3. DOMAIN d1 = DOMAIN s.data[1] /\ d1.name = s.data[1].name /\ d1.count = s.data[1].count
  BY <1>1
<1>. HIDE DEF d1
<1>4. DOMAIN s.data = 1..Len(s.data)
  BY <1>1, SeqIs
<1>5. IsSeq(d) /\ DOMAIN d = DOMAIN s.data /\ d[1] = d1
  BY <1>1, <1>4, ChangedIsSeq
<1>. HIDE DEF d
<1>6. DOMAIN t = DOMAIN s /\ t.name = s.name /\ t.type = s.type /\ t.addr = s.addr /\ t.size = s.size
      /\ t.data = d /\ t.offset = s.offset
  BY <1>1, <1>2 DEF Sec
<1>7. DataSize(t) = DataSize(s)
  <2>1. DataSize(s) = ImportSize(s.data[1].name, s.data[1].count)
    BY DEF DataSize
  <2>2. DataSize(t) = ImportSize(t.data[1].name, t.data[1].count)
    BY <1>6 DEF DataSize
  <2>. QED  BY <1>3, <1>5, <1>6, <2>1, <2>2
<1>8. Sec(t)
  BY <1>1, <1>3, <1>5, <1>6 DEF Sec
<1>9. Ready(t)
  BY <1>6, <1>7, <1>8 DEF Ready
<1>. QED  BY <1>6, <1>9

LEMMA FilledSec ==
  ASSUME NEW s, Sec(s), s.type = "SYMTAB", NEW d, IsSeq(d),
         NEW t, t = [s EXCEPT !.data = d]
  PROVE  Sec(t) /\ t.type = s.type /\ t.offset = s.offset
<1>1. DOMAIN t = DOMAIN s /\ t.name = s.name /\ t.type = s.type /\ t.addr = s.addr /\ t.size = s.size
      /\ t.data = d /\ t.offset = s.offset
  BY DEF Sec
<1>2. Sec(t)
  BY <1>1 DEF Sec
<1>. QED  BY <1>1, <1>2

LEMMA SymtabKeeps ==
  ASSUME FileOk(file), Tabled(out), CreateSymtab
  PROVE  FileOk(file') /\ pc' \in {"shstrtab", "failed"} /\ Tabled(out')
<1>. DEFINE syms == [i \in DOMAIN file.symbols |-> file.heap[file.symbols[i]]]
            Entry(s) == [name |-> s.name, value |-> s.address, size |-> s.size, type |-> s.type,
                         binding |-> s.binding, shndx |-> Shndx(s)]
            entries == [i \in DOMAIN syms |-> Entry(syms[i])]
            Own(k) == Chosen(syms, {i \in DOMAIN syms : /\ Shndx(syms[i]) = k - 1
                                                        /\ syms[i].type # "SECTION"})
            x(k) == Signed([i \in DOMAIN Own(k) |-> Own(k)[i].name])
            e(k) == CASE out[k].type = "IMPORTS" -> [out[k] EXCEPT !.data[1].signature = x(k)]
                      [] out[k].type = "SYMTAB" -> [out[k] EXCEPT !.data = entries]
                      [] OTHER -> out[k]
<1>1. FileOk(file') /\ pc' \in {"shstrtab", "failed"}
  BY DEF CreateSymtab
<1>2. CASE UNCHANGED out
  BY <1>1, <1>2
<1>3. CASE ~UNCHANGED out
  <2>1. out' = [k \in DOMAIN out |-> e(k)]
    BY <1>3 DEF CreateSymtab
  <2>2. IsSeq(entries)
    <3>1. PICK m \in Nat : DOMAIN file.symbols = 1..m
      <4>1. IsSeq(file.symbols)
        BY SeqIs DEF FileOk
      <4>. QED  BY <4>1, SeqIs
    <3>2. DOMAIN syms = 1..m
      BY <3>1
    <3>. DEFINE g(i) == Entry(syms[i])
    <3>3. entries = [i \in 1..m |-> g(i)]
      BY <3>2
    <3>. HIDE DEF entries, g
    <3>4. entries = [i \in 1..m |-> entries[i]]
      BY <3>3
    <3>. QED  BY <3>4, TableIsSeq
  <2>. HIDE DEF entries, x
  <2>0. PICK n \in Nat : n = Len(out)
    BY SeqIs DEF Tabled
  <2>3. n >= 3 /\ DOMAIN out = 1..n
    BY <2>0, SeqIs DEF Tabled
  <2>4. ASSUME NEW k \in 1..(n - 3) PROVE Ready(e(k)) /\ e(k).type \in EarlyTypes
    <3>1. Ready(out[k]) /\ out[k].type \in EarlyTypes
      BY <2>0 DEF Tabled
    <3>2. CASE out[k].type = "IMPORTS"
      <4>1. e(k) = [out[k] EXCEPT !.data[1].signature = x(k)]
        BY <3>2
      <4>. HIDE DEF e
      <4>2. PICK y, t : y = x(k) /\ t = e(k)
        OBVIOUS
      <4>3. t = [out[k] EXCEPT !.data[1].signature = y]
        BY <4>1, <4>2
      <4>4. Ready(t) /\ t.type = "IMPORTS"
        BY <3>1, <3>2, <4>3, SignedReady
      <4>. QED  BY <4>2, <4>4 DEF EarlyTypes
    <3>3. CASE out[k].type # "IMPORTS"
      <4>1. out[k].type # "SYMTAB"
        BY <3>1 DEF EarlyTypes
      <4>2. e(k) = out[k]
        BY <3>3, <4>1
      <4>. QED  BY <3>1, <4>2
    <3>. QED  BY <3>2, <3>3
  <2>5. Sec(e(n - 2)) /\ e(n - 2).type = "SYMTAB" /\ e(n - 2).offset = Max32
    <3>1. Sec(out[n - 2]) /\ out[n - 2].type = "SYMTAB" /\ out[n - 2].offset = Max32
      BY <2>0 DEF Tabled
    <3>2. e(n - 2) = [out[n - 2] EXCEPT !.data = entries]
      BY <3>1
    <3>. HIDE DEF e
    <3>. QED  BY <2>2, <3>1, <3>2, FilledSec
  <2>6. Sec(e(n - 1)) /\ e(n - 1).type = "STRTAB" /\ e(n - 1).offset = Max32
    <3>1. Sec(out[n - 1]) /\ out[n - 1].type = "STRTAB" /\ out[n - 1].offset = Max32
      BY <2>0 DEF Tabled
    <3>2. e(n - 1) = out[n - 1]
      BY <3>1
    <3>. QED  BY <3>1, <3>2
  <2>6a. Sec(e(n)) /\ e(n).type = "NULL"
    <3>1. Sec(out[n]) /\ out[n].type = "NULL"
      BY <2>0 DEF Tabled
    <3>2. e(n) = out[n]
      BY <3>1
    <3>. QED  BY <3>1, <3>2
  <2>. HIDE DEF e
  <2>7. out' = [k \in 1..n |-> out'[k]] /\ \A k \in 1..n : out'[k] = e(k)
    BY <2>1, <2>3
  <2>8. IsSeq(out') /\ Len(out') = n
    BY <2>3, <2>7, TableIsSeq
  <2>9. \A k \in 1..(n - 3) : Ready(out'[k]) /\ out'[k].type \in EarlyTypes
    BY <2>3, <2>4, <2>7
  <2>10. n - 2 \in 1..n /\ n - 1 \in 1..n /\ n \in 1..n
    BY <2>3
  <2>11. Tabled(out')
    BY <2>3, <2>5, <2>6, <2>6a, <2>7, <2>8, <2>9, <2>10 DEF Tabled
  <2>. QED  BY <1>1, <2>11
<1>. QED  BY <1>2, <1>3

(* All sections have the size of their data and no offset yet.             *)
AllReady(o) == IsSeq(o) /\ \A k \in 1..Len(o) : Ready(o[k])

LEMMA MovedReady ==
  ASSUME NEW s, Sec(s), s.type \in {"SYMTAB", "STRTAB"}, s.offset = Max32, NEW a \in Nat
  PROVE  Ready(Sized([s EXCEPT !.addr = a]))
<1>. DEFINE t == [s EXCEPT !.addr = a]
<1>1. DOMAIN t = DOMAIN s /\ t.name = s.name /\ t.type = s.type /\ t.addr = a /\ t.size = s.size
      /\ t.data = s.data /\ t.offset = s.offset
  BY DEF Sec
<1>. HIDE DEF t
<1>2. Sec(t)
  BY <1>1 DEF Sec, EarlyTypes
<1>3. Ready(Sized(t))
  BY <1>1, <1>2, SizedReady
<1>. QED  BY <1>3 DEF t

LEMMA ShstrtabMakes ==
  ASSUME FileOk(file), TablesOk, Tabled(out), CreateShstrtab
  PROVE  FileOk(file') /\ pc' = "fileinfo" /\ AllReady(out')
<1>0. PICK n \in Nat : n = Len(out)
  BY SeqIs DEF Tabled
<1>. DEFINE strtab == AlignUp(WiiuLoadAddress + tables.sym, 16)
            shaddr == AlignUp(strtab + tables.str, 16)
            all == [k \in DOMAIN out |-> out[k].name]
            names == NonEmpty(all)
            sh0 == Section(<<".shstrtab">>, "STRTAB", 0, Max32, names)
            sh == [sh0 EXCEPT !.addr = shaddr]
            a == Sized([out[n - 2] EXCEPT !.addr = WiiuLoadAddress])
            b == Sized([out[n - 1] EXCEPT !.addr = strtab])
            c == Sized(sh)
<1>1. FileOk(file') /\ pc' = "fileinfo"
  BY DEF CreateShstrtab
<1>2. n >= 3 /\ DOMAIN out = 1..n /\ IsSeq(out) /\ Len(out) = n
  BY <1>0, SeqIs DEF Tabled
<1>3. strtab \in Nat
  <2>1. PICK m \in Nat : m = WiiuLoadAddress + tables.sym
    BY NumbersAre DEF TablesOk
  <2>. QED  BY <2>1, Aligned
<1>4. shaddr \in Nat
  <2>. HIDE DEF strtab
  <2>1. PICK m \in Nat : m = strtab + tables.str
    BY <1>3 DEF TablesOk
  <2>. QED  BY <2>1, Aligned
<1>5. out' = [out EXCEPT ![n - 2] = a, ![n - 1] = b, ![n] = c]
  <2>1. out' = [out EXCEPT ![n - 2] = Sized([@ EXCEPT !.addr = WiiuLoadAddress]),
                           ![n - 1] = Sized([@ EXCEPT !.addr = strtab]),
                           ![n] = Sized(sh)]
    BY <1>0 DEF CreateShstrtab
  <2>. HIDE DEF strtab, sh
  <2>2. n - 2 # n - 1 /\ n - 1 # n /\ n - 2 # n
    BY <1>2
  <2>. QED  BY <1>2, <2>1, <2>2
<1>6. Ready(a)
  <2>1. Sec(out[n - 2]) /\ out[n - 2].type = "SYMTAB" /\ out[n - 2].offset = Max32
    BY <1>0 DEF Tabled
  <2>. QED  BY <2>1, NumbersAre, MovedReady
<1>. HIDE DEF a
<1>7. Ready(b)
  <2>1. Sec(out[n - 1]) /\ out[n - 1].type = "STRTAB" /\ out[n - 1].offset = Max32
    BY <1>0 DEF Tabled
  <2>. HIDE DEF strtab
  <2>. QED  BY <1>3, <2>1, MovedReady
<1>. HIDE DEF b
<1>8. names \in Seq(Name)
  <2>1. \A k \in 1..n : out[k].name \in Name
    <3>1. ASSUME NEW k \in 1..n PROVE Sec(out[k])
      <4>1. k \in 1..(n - 3) \/ k = n - 2 \/ k = n - 1 \/ k = n
        BY <1>2
      <4>. QED  BY <1>0, <4>1 DEF Tabled, Ready
    <3>. QED  BY <3>1 DEF Sec
  <2>2. all \in Seq(Name)
    BY <1>2, <2>1
  <2>. HIDE DEF all
  <2>. QED  BY <2>2, NonEmptyIn
<1>. HIDE DEF names, shaddr
<1>9. Ready(c)
  <2>1. /\ DOMAIN sh0 = {"name", "type", "write", "addr", "offset", "size", "link", "info", "data",
                         "rela", "symbol"}
        /\ sh0.name = <<".shstrtab">> /\ sh0.type = "STRTAB" /\ sh0.addr = 0 /\ sh0.size = Max32
        /\ sh0.data = names /\ sh0.offset = Max32
    BY SectionIs
  <2>. HIDE DEF sh0
  <2>2. IsSeq(names)
    BY <1>8, SeqIs
  <2>3. Sec(sh0)
    BY <1>8, <2>1, <2>2, NamePartsIn, NumbersAre DEF Sec
  <2>. QED  BY <1>4, <2>1, <2>3, MovedReady
<1>. HIDE DEF c
<1>10. /\ IsSeq(out') /\ Len(out') = n /\ out'[n - 2] = a /\ out'[n - 1] = b /\ out'[n] = c
       /\ \A k \in 1..n : k \notin {n - 2, n - 1, n} => out'[k] = out[k]
  <2>1. PICK i \in 1..n, j \in 1..n : i = n - 2 /\ j = n - 1
    BY <1>2
  <2>2. i # j /\ j # n /\ i # n /\ n \in 1..n
    BY <1>2, <2>1
  <2>3. out' = [out EXCEPT ![i] = a, ![j] = b, ![n] = c]
    BY <1>5, <2>1
  <2>4. /\ DOMAIN out' = 1..n /\ out' = [k \in 1..n |-> out'[k]]
        /\ out'[i] = a /\ out'[j] = b /\ out'[n] = c
        /\ \A k \in 1..n : k \notin {i, j, n} => out'[k] = out[k]
    BY <1>2, <2>2, <2>3
  <2>5. IsSeq(out') /\ Len(out') = n
    BY <2>4, TableIsSeq
  <2>. QED  BY <2>1, <2>4, <2>5
<1>11. ASSUME NEW k \in 1..n PROVE Ready(out'[k])
  <2>1. k \in 1..(n - 3) \/ k = n - 2 \/ k = n - 1 \/ k = n
    BY <1>2
  <2>2. CASE k \in 1..(n - 3)
    <3>1. k \notin {n - 2, n - 1, n}
      BY <1>2, <2>2
    <3>2. Ready(out[k])
      BY <1>0, <2>2 DEF Tabled
    <3>. QED  BY <1>10, <3>1, <3>2
  <2>. QED  BY <1>6, <1>7, <1>9, <1>10, <2>1, <2>2
<1>. QED  BY <1>1, <1>10, <1>11 DEF AllReady

-----------------------------------------------------------------------------
(***************************************************************************)
(* The file's description of itself.                                       *)
(***************************************************************************)
(* The extent of a region reaches the end of each of its sections.         *)
LEMMA ExtentIs ==
  ASSUME AllReady(out), NEW base \in Nat, NEW region, region \subseteq 1..Len(out),
         \A k \in region : out[k].addr >= base
  PROVE  Extent(region, base) \in Nat
         /\ \A k \in region : out[k].addr + out[k].size <= base + Extent(region, base)
<1>1. PICK n \in Nat : n = Len(out)
  BY SeqIs DEF AllReady
<1>2. PICK end : end = [k \in 1..n |-> out[k].addr + out[k].size]
  OBVIOUS
<1>3. \A k \in 1..n : end[k] \in Nat /\ end[k] = out[k].addr + out[k].size
  <2>1. \A k \in 1..n : out[k].addr \in Nat /\ out[k].size \in Nat
    BY <1>1 DEF AllReady, Ready, Sec
  <2>. QED  BY <1>2, <2>1
<1>3a. \A k \in region : out[k].addr \in Nat /\ out[k].size \in Nat
  BY DEF AllReady, Ready, Sec
<1>4. \A k \in region : k \in 1..n /\ end[k] - base \in Nat
  <2>1. \A k \in region : k \in 1..n
    BY <1>1
  <2>2. \A k \in region : out[k].addr \in Nat /\ out[k].size \in Nat
    BY <1>1, <2>1 DEF AllReady, Ready, Sec
  <2>. QED  BY <1>3, <2>1, <2>2
<1>. DEFINE T == {m \in 0..n : \E b \in Nat : \A k \in 1..m : end[k] <= b}
<1>5. 0..n \subseteq T
  <2>1. 0 \in T
    <3>1. \A k \in 1..0 : end[k] <= 0
      OBVIOUS
    <3>. QED  BY <3>1
  <2>2. ASSUME NEW m \in 0..(n-1), m \in T PROVE m + 1 \in T
    <3>1. PICK b \in Nat : \A k \in 1..m : end[k] <= b
      BY <2>2
    <3>2. PICK c \in Nat : c = end[m + 1]
      BY <1>3
    <3>3. \A k \in 1..m : end[k] \in Nat
      BY <1>3
    <3>4. \A k \in 1..(m + 1) : k \in 1..m \/ k = m + 1
      OBVIOUS
    <3>5. \A k \in 1..(m + 1) : end[k] <= b + c
      BY <3>1, <3>2, <3>3, <3>4
    <3>6. m + 1 \in 0..n /\ b + c \in Nat
      OBVIOUS
    <3>. QED  BY <3>5, <3>6
  <2>. HIDE DEF T
  <2>. QED  BY <2>1, <2>2, UpTo
<1>6. PICK b \in Nat : \A k \in 1..n : end[k] <= b
  BY <1>5
<1>. DEFINE S == {0} \cup {out[k].addr + out[k].size - base : k \in region}
<1>6a. \A k \in region : end[k] = out[k].addr + out[k].size
  BY <1>3, <1>4
<1>7. ASSUME NEW x \in S PROVE x = 0 \/ \E k \in region : x = end[k] - base
  <2>1. x = 0 \/ \E k \in region : x = out[k].addr + out[k].size - base
    OBVIOUS
  <2>. HIDE DEF S
  <2>2. CASE x # 0
    <3>1. PICK k \in region : x = out[k].addr + out[k].size - base
      BY <2>1, <2>2
    <3>2. PICK a \in Nat, s \in Nat : a = out[k].addr /\ s = out[k].size /\ end[k] = a + s
      BY <1>3a, <1>6a
    <3>3. x = end[k] - base
      BY <3>1, <3>2
    <3>. QED  BY <3>3
  <2>. QED  BY <2>2
<1>8. \A x \in S : x \in Nat /\ x <= b
  <2>. HIDE DEF S
  <2>1. ASSUME NEW x \in S PROVE x \in Nat /\ x <= b
    <3>1. CASE x = 0
      BY <3>1
    <3>2. CASE x # 0
      <4>1. PICK k \in region : x = end[k] - base
        BY <1>7, <3>2
      <4>2. end[k] \in Nat /\ end[k] <= b /\ end[k] - base \in Nat
        BY <1>3, <1>4, <1>6
      <4>. QED  BY <4>1, <4>2
    <3>. QED  BY <3>1, <3>2
  <2>. QED  BY <2>1
<1>9. \A k \in region : end[k] - base \in S
  <2>1. \A k \in region : out[k].addr + out[k].size - base \in S
    OBVIOUS
  <2>. HIDE DEF S
  <2>2. ASSUME NEW k \in region PROVE end[k] - base \in S
    <3>1. PICK a \in Nat, s \in Nat : a = out[k].addr /\ s = out[k].size /\ end[k] = a + s
      BY <1>3a, <1>6a
    <3>2. out[k].addr + out[k].size - base \in S
      BY <2>1
    <3>. QED  BY <3>1, <3>2
  <2>. QED  BY <2>2
<1>10. Extent(region, base) = Max(S)
  BY DEF Extent
<1>11. Max(S) \in S /\ \A x \in S : x <= Max(S)
  <2>1. S # {}
    OBVIOUS
  <2>. HIDE DEF S
  <2>. QED  BY <1>8, <2>1, Greatest
<1>. HIDE DEF S
<1>12. PICK e \in Nat : e = Extent(region, base)
  BY <1>8, <1>10, <1>11
<1>13. ASSUME NEW k \in region PROVE out[k].addr + out[k].size <= base + e
  <2>1. end[k] - base <= e
    BY <1>9, <1>10, <1>11, <1>12
  <2>2. PICK d \in Nat : d = end[k] /\ d = out[k].addr + out[k].size
    BY <1>3, <1>4
  <2>. QED  BY <2>1, <2>2
<1>. QED  BY <1>12, <1>13

(* A description: the sections' checksums, and what the loader reads.      *)
Describes(s, type) == Sec(s) /\ s.type = type /\ s.addr = 0 /\ s.offset = Max32
Informed(o) ==
  /\ IsSeq(o) /\ Len(o) >= 2
  /\ \A k \in 1..(Len(o) - 2) : Ready(o[k]) /\ RoomFor(o[k], o[Len(o)].data[1])
  /\ Describes(o[Len(o) - 1], "CRCS") /\ Describes(o[Len(o)], "FILEINFO")

LEMMA RoomIs ==
  ASSUME AllReady(out), NEW k \in 1..Len(out)
  PROVE  RoomFor(out[k], FileInfo)
<1>. DEFINE code == {i \in DOMAIN out : InCode(out[i].addr)}
            data == {i \in DOMAIN out : InData(out[i].addr)}
            load == {i \in DOMAIN out : out[i].addr >= WiiuLoadAddress}
<1>1. FileInfo.textSize = Extent(code, CodeAddress) /\ FileInfo.dataSize = Extent(data, DataAddress)
      /\ FileInfo.loadSize = Extent(load, WiiuLoadAddress)
  BY DEF FileInfo
<1>2. DOMAIN out = 1..Len(out)
  BY SeqIs DEF AllReady
<1>3. k \in code => out[k].addr + out[k].size <= CodeAddress + Extent(code, CodeAddress)
  <2>1. code \subseteq 1..Len(out) /\ \A i \in code : out[i].addr >= CodeAddress
    BY <1>2 DEF InCode
  <2>. HIDE DEF code
  <2>. QED  BY <2>1, NumbersAre, ExtentIs
<1>4. k \in data => out[k].addr + out[k].size <= DataAddress + Extent(data, DataAddress)
  <2>1. data \subseteq 1..Len(out) /\ \A i \in data : out[i].addr >= DataAddress
    BY <1>2 DEF InData
  <2>. HIDE DEF data
  <2>. QED  BY <2>1, NumbersAre, ExtentIs
<1>5. k \in load => out[k].addr + out[k].size <= WiiuLoadAddress + Extent(load, WiiuLoadAddress)
  <2>1. load \subseteq 1..Len(out) /\ \A i \in load : out[i].addr >= WiiuLoadAddress
    BY <1>2
  <2>. HIDE DEF load
  <2>. QED  BY <2>1, NumbersAre, ExtentIs
<1>6. /\ InCode(out[k].addr) => k \in code
      /\ InData(out[k].addr) => k \in data
      /\ out[k].addr >= WiiuLoadAddress => k \in load
  BY <1>2
<1>. HIDE DEF code, data, load
<1>. QED  BY <1>1, <1>3, <1>4, <1>5, <1>6 DEF RoomFor

LEMMA DescribesIs ==
  ASSUME NEW type \in {"CRCS", "FILEINFO"}, NEW data, IsSeq(data),
         NEW s, s = Section(<<>>, type, 0, Max32, data)
  PROVE  Describes(s, type) /\ s.data = data
<1>1. /\ DOMAIN s = {"name", "type", "write", "addr", "offset", "size", "link", "info", "data",
                     "rela", "symbol"}
      /\ s.name = <<>> /\ s.type = type /\ s.addr = 0 /\ s.size = Max32 /\ s.data = data
      /\ s.offset = Max32
  BY SectionIs
<1>2. Sec(s)
  BY <1>1, NamePartsIn, NumbersAre DEF Sec
<1>. QED  BY <1>1, <1>2 DEF Describes

LEMMA FileInfoMakes ==
  ASSUME FileOk(file), AllReady(out), CreateFileInfo
  PROVE  FileOk(file') /\ pc' = "crcs" /\ Informed(out')
<1>1. FileOk(file') /\ pc' = "crcs"
  BY DEF CreateFileInfo
<1>2. PICK info, crcs, finfo :
        /\ info = FileInfo /\ crcs = Section(<<>>, "CRCS", 0, Max32, <<>>)
        /\ finfo = Section(<<>>, "FILEINFO", 0, Max32, <<info>>)
        /\ out' = out \o <<crcs, finfo>>
  BY DEF CreateFileInfo
<1>3. IsSeq(<<info>>) /\ <<info>>[1] = info
  BY OneIsSeq
<1>4. Describes(crcs, "CRCS")
  BY <1>2, NoneIsSeq, DescribesIs
<1>5. PICK one : one = <<info>>
  OBVIOUS
<1>6. Describes(finfo, "FILEINFO") /\ finfo.data = one
  BY <1>2, <1>3, <1>5, DescribesIs
<1>7. PICK n \in Nat : n = Len(out)
  BY SeqIs DEF AllReady
<1>8. PICK two : two = <<crcs, finfo>> /\ IsSeq(two) /\ Len(two) = 2 /\ two[1] = crcs /\ two[2] = finfo
  <2>1. <<crcs, finfo>> \in Seq({crcs, finfo})
    OBVIOUS
  <2>2. IsSeq(<<crcs, finfo>>)
    BY <2>1, SeqIs
  <2>. QED  BY <2>2
<1>9. Joins(out, two, out')
  <2>1. Joins(out, two, out \o two)
    BY <1>8, JoinedTo DEF AllReady
  <2>. QED  BY <1>2, <1>8, <2>1
<1>10. /\ IsSeq(out') /\ Len(out') = n + 2 /\ \A k \in 1..n : out'[k] = out[k]
       /\ out'[n + 1] = crcs /\ out'[n + 2] = finfo
  <2>1. 1 \in 1..2 /\ 2 \in 1..2
    OBVIOUS
  <2>. QED  BY <1>7, <1>8, <1>9, <2>1 DEF Joins
<1>11. ASSUME NEW k \in 1..n PROVE Ready(out'[k]) /\ RoomFor(out'[k], info)
  <2>1. Ready(out[k]) /\ RoomFor(out[k], info)
    BY <1>2, <1>7, RoomIs DEF AllReady
  <2>. QED  BY <1>10, <2>1
<1>12. out'[n + 2].data[1] = info
  BY <1>3, <1>5, <1>6, <1>10
<1>13. (n + 2) - 2 = n /\ (n + 2) - 1 = n + 1 /\ n + 2 >= 2
  OBVIOUS
<1>14. Informed(out')
  BY <1>4, <1>6, <1>10, <1>11, <1>12, <1>13 DEF Informed
<1>. QED  BY <1>1, <1>14

(* Each section has its checksum, but for that of the checksums.           *)
Checked(o) ==
  \A k \in 1..Len(o) : k # Len(o) - 1 =>
      k \in DOMAIN o[Len(o) - 1].data /\ o[Len(o) - 1].data[k] = o[k].data

LEMMA CrcsMakes ==
  ASSUME FileOk(file), Informed(out), CreateCrcs
  PROVE  FileOk(file') /\ pc' = "offsets" /\ Informed(out') /\ Checked(out')
<1>1. FileOk(file') /\ pc' = "offsets"
  BY DEF CreateCrcs
<1>2. PICK n \in Nat : n = Len(out)
  BY SeqIs DEF Informed
<1>3. n >= 2 /\ DOMAIN out = 1..n /\ IsSeq(out)
  BY <1>2, SeqIs DEF Informed
<1>4. PICK m \in 1..n : m = n - 1 /\ m # n
  BY <1>3
<1>5. PICK crcs : crcs = [k \in 1..n |-> out[k].data]
  OBVIOUS
<1>6. IsSeq(crcs) /\ DOMAIN crcs = 1..n /\ \A k \in 1..n : crcs[k] = out[k].data
  <2>1. crcs = [k \in 1..n |-> crcs[k]]
    BY <1>5
  <2>. QED  BY <1>5, <2>1, TableIsSeq
<1>7. PICK s : s = [out[m] EXCEPT !.data = crcs]
  OBVIOUS
<1>8. out' = [out EXCEPT ![m] = s]
  BY <1>2, <1>3, <1>4, <1>5, <1>7 DEF CreateCrcs
<1>9. Describes(out[m], "CRCS")
  BY <1>2, <1>4 DEF Informed
<1>10. Describes(s, "CRCS") /\ s.data = crcs
  <2>1. DOMAIN s = DOMAIN out[m] /\ s.name = out[m].name /\ s.type = out[m].type /\ s.addr = out[m].addr
        /\ s.size = out[m].size /\ s.data = crcs /\ s.offset = out[m].offset
    BY <1>7, <1>9 DEF Describes, Sec
  <2>. QED  BY <1>6, <1>9, <2>1 DEF Describes, Sec
<1>11. /\ out' = [k \in 1..n |-> out'[k]] /\ out'[m] = s
       /\ \A k \in 1..n : k # m => out'[k] = out[k]
  BY <1>3, <1>8
<1>12. IsSeq(out') /\ Len(out') = n
  BY <1>11, TableIsSeq
<1>13. ASSUME NEW k \in 1..(n - 2) PROVE Ready(out'[k]) /\ RoomFor(out'[k], out'[n].data[1])
  <2>1. k \in 1..n /\ k # m /\ n \in 1..n
    BY <1>3, <1>4
  <2>2. Ready(out[k]) /\ RoomFor(out[k], out[n].data[1])
    BY <1>2 DEF Informed
  <2>. QED  BY <1>4, <1>11, <2>1, <2>2
<1>14. Describes(out'[n], "FILEINFO")
  <2>1. n \in 1..n
    BY <1>3
  <2>. QED  BY <1>2, <1>4, <1>11, <2>1 DEF Informed
<1>15. Informed(out')
  BY <1>3, <1>4, <1>10, <1>11, <1>12, <1>13, <1>14 DEF Informed
<1>16. Checked(out')
  BY <1>4, <1>6, <1>10, <1>11, <1>12 DEF Checked
<1>. QED  BY <1>1, <1>15, <1>16

-----------------------------------------------------------------------------
(***************************************************************************)
(* Offsets: each pass lays its sections one behind the other.              *)
(***************************************************************************)
(* A section once it has its offset.                                       *)
Same(s, t) ==
  /\ t.type = s.type /\ t.addr = s.addr /\ t.data = s.data
  /\ t.size = IF s.type = "NOBITS" THEN s.size ELSE DataSize(s)

LEMMA PutIs ==
  ASSUME NEW s, Sec(s), NEW x, NEW t, t = [Sized(s) EXCEPT !.offset = x]
  PROVE  Same(s, t) /\ t.offset = x
<1>. DEFINE size == IF s.type = "NOBITS" THEN s.size ELSE DataSize(s)
<1>1. PICK r, z : r = [s EXCEPT !.size = z] /\ z = size /\ t = [r EXCEPT !.offset = x]
  BY DEF Sized
<1>2. r.type = s.type /\ r.addr = s.addr /\ r.data = s.data /\ r.size = z /\ DOMAIN r = DOMAIN s
  BY <1>1 DEF Sec
<1>3. t.type = s.type /\ t.addr = s.addr /\ t.data = s.data /\ t.size = z /\ t.offset = x
  BY <1>1, <1>2 DEF Sec
<1>. QED  BY <1>1, <1>3 DEF Same

LEMMA SizedData ==
  ASSUME NEW s, Sec(s)
  PROVE  DataSize(Sized(s)) = DataSize(s)
<1>1. PICK r, z : r = [s EXCEPT !.size = z] /\ r = Sized(s)
  BY DEF Sized
<1>2. r.type = s.type /\ r.data = s.data
  BY <1>1 DEF Sec
<1>3. DataSize(r) = DataSize(s)
  BY <1>2, SameData
<1>. QED  BY <1>1, <1>3

(* The sections of D are laid: behind the headers, on multiples of 64,     *)
(* apart from each other and before next; z are the sizes on disk.         *)
SizesOf(z) == z \in [1..Len(out) -> Nat] /\ \A k \in 1..Len(out) : z[k] = DataSize(out[k])
Apart(w, z, k, j) ==
  \/ w.out[k].offset + z[k] <= w.out[j].offset
  \/ w.out[j].offset + z[j] <= w.out[k].offset
Laid(w, D, z, h) ==
  /\ DOMAIN w = {"out", "next"} /\ IsSeq(w.out) /\ DOMAIN w.out = 1..Len(out)
  /\ w.next \in Nat /\ w.next % 64 = 0 /\ h <= w.next
  /\ \A k \in 1..Len(out) : k \notin D => w.out[k] = out[k]
  /\ \A k \in D : Same(out[k], w.out[k])
  /\ \A k \in D : z[k] > 0 => /\ w.out[k].offset \in Nat /\ w.out[k].offset % 64 = 0
                              /\ h <= w.out[k].offset /\ w.out[k].offset + z[k] <= w.next
  /\ \A k, j \in D : z[k] > 0 /\ z[j] > 0 /\ k # j => Apart(w, z, k, j)

(* v lays the sections of E that are not in D, all behind those of w.      *)
Grows(w, v, D, E, z) ==
  /\ w.next <= v.next
  /\ \A k \in D : v.out[k] = w.out[k]
  /\ \A k \in E : k \notin D /\ z[k] > 0 => w.next <= v.out[k].offset

LEMMA PutOnDiskLays ==
  ASSUME IsSeq(out), \A i \in 1..Len(out) : Sec(out[i]), NEW z, SizesOf(z), NEW h \in Nat,
         NEW w, NEW D, D \subseteq 1..Len(out), Laid(w, D, z, h),
         NEW k \in 1..Len(out), k \notin D, NEW v, v = PutOnDisk(w, k)
  PROVE  Laid(v, D \cup {k}, z, h) /\ Grows(w, v, D, D \cup {k}, z)
<1>1. w.out[k] = out[k] /\ Sec(out[k]) /\ DataSize(Sized(out[k])) = z[k] /\ z[k] \in Nat
  BY SizedData DEF Laid, SizesOf
<1>2. PICK next \in Nat : next = w.next /\ next % 64 = 0 /\ h <= next
  BY DEF Laid
<1>3. DOMAIN w = {"out", "next"} /\ IsSeq(w.out) /\ DOMAIN w.out = 1..Len(out) /\ Len(out) \in Nat
  BY SeqIs DEF Laid
<1>. DEFINE Puts(t, x, m) ==
              /\ t = [Sized(out[k]) EXCEPT !.offset = x]
              /\ v.out = [w.out EXCEPT ![k] = t] /\ v.next = m /\ DOMAIN v = {"out", "next"}
              /\ m \in Nat /\ m % 64 = 0 /\ next <= m
              /\ z[k] > 0 => x = next /\ next + z[k] <= m
<1>4. \E t, x, m : Puts(t, x, m)
  <2>. DEFINE s == Sized(w.out[k])
  <2>1. s = Sized(out[k]) /\ DataSize(s) = z[k]
    BY <1>1
  <2>2. v = IF DataSize(s) = 0 THEN [w EXCEPT !.out[k] = [s EXCEPT !.offset = 0]]
            ELSE [out |-> [w.out EXCEPT ![k] = [s EXCEPT !.offset = w.next]],
                  next |-> AlignUp(w.next + DataSize(s), 64)]
    BY DEF PutOnDisk
  <2>. HIDE DEF s
  <2>3. CASE z[k] = 0
    <3>1. PICK t : t = [Sized(out[k]) EXCEPT !.offset = 0]
      OBVIOUS
    <3>2. v = [w EXCEPT !.out = [w.out EXCEPT ![k] = t]]
      BY <2>1, <2>2, <2>3, <3>1
    <3>3. v.out = [w.out EXCEPT ![k] = t] /\ v.next = next /\ DOMAIN v = {"out", "next"}
      BY <1>2, <1>3, <3>2
    <3>4. Puts(t, 0, next)
      BY <1>2, <2>3, <3>1, <3>3
    <3>. HIDE DEF Puts
    <3>. QED  BY <3>4
  <2>4. CASE z[k] # 0
    <3>1. PICK t : t = [Sized(out[k]) EXCEPT !.offset = next]
      OBVIOUS
    <3>2. PICK e \in Nat : e = next + z[k]
      BY <1>1
    <3>3. PICK m \in Nat : m = AlignUp(e, 64) /\ m % 64 = 0 /\ e <= m
      BY Aligned
    <3>4. v = [out |-> [w.out EXCEPT ![k] = t], next |-> m]
      BY <1>2, <2>1, <2>2, <2>4, <3>1, <3>2, <3>3
    <3>5. next <= m /\ next + z[k] <= m
      BY <1>1, <3>2, <3>3
    <3>6. v.out = [w.out EXCEPT ![k] = t] /\ v.next = m /\ DOMAIN v = {"out", "next"}
      BY <3>4
    <3>7. Puts(t, next, m)
      BY <3>1, <3>3, <3>5, <3>6
    <3>. HIDE DEF Puts
    <3>. QED  BY <3>7
  <2>. QED  BY <2>3, <2>4
<1>5. PICK t, x, m : Puts(t, x, m)
  BY <1>4
<1>6. Same(out[k], t) /\ t.offset = x
  BY <1>1, <1>5, PutIs
<1>7. /\ DOMAIN v.out = 1..Len(out) /\ v.out = [i \in 1..Len(out) |-> v.out[i]] /\ v.out[k] = t
      /\ \A i \in 1..Len(out) : i # k => v.out[i] = w.out[i]
  BY <1>3, <1>5
<1>8. IsSeq(v.out)
  <2>1. PICK q : q = v.out
    OBVIOUS
  <2>2. q = [i \in 1..Len(out) |-> q[i]]
    BY <1>7, <2>1
  <2>3. IsSeq(q)
    BY <1>3, <2>2, TableIsSeq
  <2>. QED  BY <2>1, <2>3
<1>9. \A i \in D : i \in 1..Len(out) /\ i # k /\ v.out[i] = w.out[i]
  BY <1>7
<1>10. z[k] > 0 => v.out[k].offset = next /\ next + z[k] <= m
  BY <1>5, <1>6, <1>7
<1>11. ASSUME NEW i \in D, z[i] > 0
       PROVE  /\ v.out[i].offset \in Nat /\ v.out[i].offset % 64 = 0
              /\ h <= v.out[i].offset /\ v.out[i].offset + z[i] <= next
  <2>1. /\ w.out[i].offset \in Nat /\ w.out[i].offset % 64 = 0
        /\ h <= w.out[i].offset /\ w.out[i].offset + z[i] <= w.next
    BY <1>11 DEF Laid
  <2>. QED  BY <1>2, <1>9, <2>1
<1>12. ASSUME NEW i \in D \cup {k}, z[i] > 0
       PROVE  /\ v.out[i].offset \in Nat /\ v.out[i].offset % 64 = 0
              /\ h <= v.out[i].offset /\ v.out[i].offset + z[i] <= m
  <2>1. CASE i = k
    BY <1>2, <1>10, <1>12, <2>1
  <2>2. CASE i # k
    <3>1. i \in D /\ z[i] \in Nat
      BY <2>2 DEF SizesOf
    <3>2. PICK o \in Nat : /\ o = v.out[i].offset /\ o % 64 = 0 /\ h <= o /\ o + z[i] <= next
      BY <1>11, <1>12, <3>1
    <3>. QED  BY <1>5, <3>1, <3>2
  <2>. QED  BY <2>1, <2>2
<1>13. ASSUME NEW i \in D \cup {k}, NEW j \in D \cup {k}, z[i] > 0, z[j] > 0, i # j
       PROVE  Apart(v, z, i, j)
  <2>1. CASE i \in D /\ j \in D
    <3>1. Apart(w, z, i, j)
      BY <1>13, <2>1 DEF Laid
    <3>. QED  BY <1>9, <2>1, <3>1 DEF Apart
  <2>2. CASE i = k
    <3>1. j \in D
      BY <1>13, <2>2
    <3>. QED  BY <1>10, <1>11, <1>13, <2>2, <3>1 DEF Apart
  <2>3. CASE j = k
    <3>1. i \in D
      BY <1>13, <2>3
    <3>. QED  BY <1>10, <1>11, <1>13, <2>3, <3>1 DEF Apart
  <2>. QED  BY <2>1, <2>2, <2>3
<1>14. h <= m
  BY <1>2, <1>5
<1>15. \A i \in D \cup {k} : Same(out[i], v.out[i])
  <2>1. \A i \in D : Same(out[i], w.out[i])
    BY DEF Laid
  <2>. QED  BY <1>6, <1>7, <1>9, <2>1
<1>16. \A i \in 1..Len(out) : i \notin D \cup {k} => v.out[i] = out[i]
  <2>1. \A i \in 1..Len(out) : i \notin D => w.out[i] = out[i]
    BY DEF Laid
  <2>. QED  BY <1>7, <2>1
<1>17. Laid(v, D \cup {k}, z, h)
  BY <1>5, <1>7, <1>8, <1>12, <1>13, <1>14, <1>15, <1>16 DEF Laid
<1>18. Grows(w, v, D, D \cup {k}, z)
  BY <1>2, <1>5, <1>9, <1>10 DEF Grows
<1>. QED  BY <1>17, <1>18

(* A pass, section by section.                                             *)
PassRounds(f, u, p) ==
  /\ f[0] = u
  /\ \A k \in 1..Len(out) : f[k] = IF PassOf(out[k]) = p /\ out[k].offset = Max32 THEN PutOnDisk(f[k - 1], k) ELSE f[k - 1]
  /\ Pass(u, p) = f[Len(out)]

LEMMA PassIs ==
  ASSUME NEW u, NEW p, NEW n \in Nat, n = Len(out)
  PROVE  \E f : PassRounds(f, u, p)
<1>. DEFINE Step(r, k) == IF PassOf(out[k]) = p /\ out[k].offset = Max32 THEN PutOnDisk(r, k) ELSE r
            Body(f, m) == [k \in 0..m |-> IF k = 0 THEN u ELSE Step(f[k - 1], k)]
            More(f, m) == [k \in 0..(m + 1) |-> IF k = m + 1 THEN Step(f[m], m + 1) ELSE f[k]]
            T == {m \in 0..n : \E f : f = Body(f, m)}
            Upto == CHOOSE f : f = Body(f, n)
<1>1. 0..n \subseteq T
  <2>. HIDE DEF Step
  <2>1. Body([k \in 0..0 |-> u], 0) = [k \in 0..0 |-> u]
    OBVIOUS
  <2>2. ASSUME NEW m \in 0..(n-1), NEW f, f = Body(f, m)
        PROVE  More(f, m) = Body(More(f, m), m + 1)
    <3>1. \A k \in 0..(m + 1) : k # 0 /\ k # m + 1 => k \in 0..m /\ k - 1 \in 0..m
      OBVIOUS
    <3>2. \A k \in 0..(m + 1) : k # 0 => k - 1 \in 0..m /\ k - 1 \in 0..(m + 1) /\ k - 1 # m + 1
      OBVIOUS
    <3>3. \A k \in 0..m : f[k] = IF k = 0 THEN u ELSE Step(f[k - 1], k)
      BY <2>2
    <3>. QED  BY <3>1, <3>2, <3>3
  <2>. HIDE DEF Body, More
  <2>3. 0 \in T
    BY <2>1
  <2>4. \A m \in 0..(n-1) : m \in T => m + 1 \in T
    BY <2>2
  <2>. HIDE DEF T
  <2>. QED  BY <2>3, <2>4, UpTo
<1>2. Upto = Body(Upto, n)
  <2>. HIDE DEF Body
  <2>. QED  BY <1>1
<1>3. Pass(u, p) = Upto[n]
  BY DEF Pass
<1>4. Upto[0] = u /\ \A k \in 1..n : Upto[k] = Step(Upto[k - 1], k)
  <2>. HIDE DEF Upto, Step
  <2>1. \A k \in 1..n : k \in 0..n /\ k # 0
    OBVIOUS
  <2>. QED  BY <1>2, <2>1
<1>. HIDE DEF Upto
<1>. QED  BY <1>3, <1>4 DEF PassRounds

(* The sections a pass lays.                                               *)
PassHas(p) == {k \in 1..Len(out) : PassOf(out[k]) = p /\ out[k].offset = Max32}

LEMMA PassLays ==
  ASSUME IsSeq(out), \A i \in 1..Len(out) : Sec(out[i]), NEW z, SizesOf(z), NEW h \in Nat,
         NEW w, NEW D, D \subseteq 1..Len(out), Laid(w, D, z, h), NEW p, D \cap PassHas(p) = {},
         NEW v, v = Pass(w, p)
  PROVE  Laid(v, D \cup PassHas(p), z, h) /\ Grows(w, v, D, D \cup PassHas(p), z)
<1>1. PICK n \in Nat : n = Len(out)
  BY SeqIs
<1>2. PICK f : PassRounds(f, w, p)
  BY <1>1, PassIs
<1>3. /\ f[0] = w /\ v = f[n]
      /\ \A k \in 1..n : f[k] = IF PassOf(out[k]) = p /\ out[k].offset = Max32
                                  THEN PutOnDisk(f[k - 1], k) ELSE f[k - 1]
  BY <1>1, <1>2 DEF PassRounds
<1>. DEFINE Upto(m) == D \cup {k \in PassHas(p) : k <= m}
            T == {m \in 0..n : Laid(f[m], Upto(m), z, h) /\ Grows(w, f[m], D, Upto(m), z)}
<1>4. \A k \in PassHas(p) : k \in 1..n /\ k \notin D
  BY <1>1 DEF PassHas
<1>5. 0 \in T
  <2>1. Upto(0) = D
    BY <1>4
  <2>2. Grows(w, w, D, D, z)
    BY DEF Grows, Laid
  <2>. HIDE DEF Upto
  <2>. QED  BY <1>3, <2>1, <2>2
<1>6. ASSUME NEW m \in 0..(n-1), m \in T PROVE m + 1 \in T
  <2>1. PICK k \in 1..n : k = m + 1 /\ k - 1 = m /\ k \in 0..n
    OBVIOUS
  <2>2. PICK u, E : /\ u = f[m] /\ E = Upto(m) /\ Laid(u, E, z, h) /\ Grows(w, u, D, E, z)
    BY <1>6
  <2>3. CASE k \in PassHas(p)
    <3>1. Upto(k) = E \cup {k} /\ k \notin E /\ E \subseteq 1..Len(out) /\ D \subseteq E
      <4>1. \A i \in PassHas(p) : i <= k <=> i <= m \/ i = k
        BY <1>4, <2>1
      <4>2. {i \in PassHas(p) : i <= k} = {i \in PassHas(p) : i <= m} \cup {k}
        BY <2>3, <4>1
      <4>3. ~(k <= m)
        BY <2>1
      <4>4. k \notin D /\ PassHas(p) \subseteq 1..Len(out)
        BY <1>1, <1>4, <2>3
      <4>. QED  BY <2>2, <4>2, <4>3, <4>4
    <3>2. PICK t : t = f[k] /\ t = PutOnDisk(u, k)
      BY <1>3, <2>1, <2>2, <2>3 DEF PassHas
    <3>3. Laid(t, E \cup {k}, z, h) /\ Grows(u, t, E, E \cup {k}, z)
      BY <1>1, <2>2, <3>1, <3>2, PutOnDiskLays
    <3>4. Grows(w, t, D, E \cup {k}, z)
      <4>1. w.next \in Nat /\ u.next \in Nat /\ t.next \in Nat
        BY <2>2, <3>3 DEF Laid
      <4>2. w.next <= u.next /\ u.next <= t.next
        BY <2>2, <3>3 DEF Grows
      <4>3. \A i \in D : t.out[i] = w.out[i]
        BY <2>2, <3>1, <3>3 DEF Grows
      <4>4. ASSUME NEW i \in E \cup {k}, i \notin D, z[i] > 0 PROVE w.next <= t.out[i].offset
        <5>1. CASE i \in E
          <6>1. t.out[i] = u.out[i] /\ w.next <= u.out[i].offset
            BY <2>2, <3>3, <4>4, <5>1 DEF Grows
          <6>. QED  BY <6>1
        <5>2. CASE i \notin E
          <6>1. u.next <= t.out[i].offset
            BY <3>3, <4>4, <5>2 DEF Grows
          <6>2. t.out[i].offset \in Nat
            BY <3>3, <4>4 DEF Laid
          <6>. QED  BY <4>1, <4>2, <6>1, <6>2
        <5>. QED  BY <5>1, <5>2
      <4>5. w.next <= t.next
        BY <4>1, <4>2
      <4>. QED  BY <4>3, <4>4, <4>5 DEF Grows
    <3>. HIDE DEF Upto
    <3>. QED  BY <2>1, <3>1, <3>2, <3>3, <3>4
  <2>4. CASE k \notin PassHas(p)
    <3>1. Upto(k) = E
      BY <1>4, <2>1, <2>2, <2>4
    <3>2. f[k] = u
      BY <1>1, <1>3, <2>1, <2>2, <2>4 DEF PassHas
    <3>. HIDE DEF Upto
    <3>. QED  BY <2>1, <2>2, <3>1, <3>2
  <2>. QED  BY <2>3, <2>4
<1>7. 0..n \subseteq T
  <2>. HIDE DEF T
  <2>. QED  BY <1>5, <1>6, UpTo
<1>8. n \in 0..n /\ Upto(n) = D \cup PassHas(p)
  BY <1>4
<1>. HIDE DEF Upto
<1>. QED  BY <1>3, <1>7, <1>8

LEMMA HeaderEndIs ==
  ASSUME IsSeq(out)
  PROVE  HeaderEnd \in Nat /\ HeaderEnd % 64 = 0 /\ 64 + 40 * Len(out) <= HeaderEnd
<1>1. PICK n \in Nat : n = Len(out)
  BY SeqIs
<1>2. AlignUp(52, 64) = 64
  BY DEF AlignUp
<1>3. PICK m \in Nat : m = 64 + 40 * n
  OBVIOUS
<1>4. HeaderEnd = AlignUp(m, 64)
  BY <1>1, <1>2, <1>3 DEF HeaderEnd
<1>. QED  BY <1>1, <1>3, <1>4, Aligned

LEMMA PassOfIs ==
  ASSUME NEW s, s.addr \in Nat, ~(s.type \in {"CRCS", "FILEINFO"} /\ s.addr # 0)
  PROVE  /\ PassOf(s) \in {1, 2, 3, 4}
         /\ InData(s.addr) => PassOf(s) = 2
         /\ s.addr >= WiiuLoadAddress => PassOf(s) = 3
<1>1. InData(s.addr) => s.addr # 0 /\ ~(s.addr >= WiiuLoadAddress)
  BY NumbersAre DEF InData
<1>2. s.addr >= WiiuLoadAddress => s.addr # 0
  BY NumbersAre
<1>3. CASE s.type \in {"CRCS", "FILEINFO"}
  <2>1. PassOf(s) = 1
    BY <1>3 DEF PassOf
  <2>. QED  BY <1>1, <1>2, <1>3, <2>1
<1>4. CASE s.type \notin {"CRCS", "FILEINFO"} /\ InData(s.addr)
  <2>1. PassOf(s) = 2
    BY <1>1, <1>4 DEF PassOf
  <2>. QED  BY <1>1, <1>4, <2>1
<1>5. CASE s.type \notin {"CRCS", "FILEINFO"} /\ s.addr >= WiiuLoadAddress
  <2>1. PassOf(s) = 3
    BY <1>1, <1>5 DEF PassOf
  <2>. QED  BY <1>1, <1>5, <2>1
<1>6. CASE s.type \notin {"CRCS", "FILEINFO"} /\ ~InData(s.addr) /\ ~(s.addr >= WiiuLoadAddress)
  <2>1. PassOf(s) = 4
    BY <1>6 DEF PassOf
  <2>. QED  BY <1>6, <2>1
<1>. QED  BY <1>3, <1>4, <1>5, <1>6

(* The four passes together: every section without an offset gets one, and *)
(* those of the data region stand before those of the load region.         *)
Settled(o, z) ==
  \E w : /\ o = w.out /\ Laid(w, {k \in 1..Len(out) : out[k].offset = Max32}, z, HeaderEnd)
         /\ \A k \in PassHas(2), j \in PassHas(3) :
                z[k] > 0 /\ z[j] > 0 => w.out[k].offset + z[k] <= w.out[j].offset

LEMMA FourPasses ==
  ASSUME IsSeq(out), \A k \in 1..Len(out) : Sec(out[k]) /\ PassOf(out[k]) \in {1, 2, 3, 4},
         NEW z, SizesOf(z), SetOffsets
  PROVE  Settled(out', z)
<1>1. PICK h \in Nat : h = HeaderEnd /\ h % 64 = 0
  BY HeaderEndIs
<1>2. PICK w0, w1, w2, w3, w4 :
        /\ w0 = [out |-> out, next |-> HeaderEnd] /\ w1 = Pass(w0, 1) /\ w2 = Pass(w1, 2)
        /\ w3 = Pass(w2, 3) /\ w4 = Pass(w3, 4) /\ out' = w4.out
  BY DEF SetOffsets
<1>3. PICK D1, D2, D3, D4 :
        /\ D1 = {} \cup PassHas(1) /\ D2 = D1 \cup PassHas(2) /\ D3 = D2 \cup PassHas(3)
        /\ D4 = D3 \cup PassHas(4)
  OBVIOUS
<1>4. /\ {} \cap PassHas(1) = {} /\ D1 \cap PassHas(2) = {} /\ D2 \cap PassHas(3) = {}
      /\ D3 \cap PassHas(4) = {}
  BY <1>3 DEF PassHas
<1>5. \A p : PassHas(p) \subseteq 1..Len(out)
  BY DEF PassHas
<1>6. {} \subseteq 1..Len(out) /\ D1 \subseteq 1..Len(out) /\ D2 \subseteq 1..Len(out) /\ D3 \subseteq 1..Len(out)
  BY <1>3, <1>5
<1>7. Laid(w0, {}, z, h)
  <2>1. DOMAIN w0 = {"out", "next"} /\ w0.out = out /\ w0.next = h
    BY <1>1, <1>2
  <2>2. DOMAIN out = 1..Len(out)
    BY SeqIs
  <2>3. h <= h
    OBVIOUS
  <2>. QED  BY <1>1, <2>1, <2>2, <2>3 DEF Laid
<1>8. \A k \in 1..Len(out) : Sec(out[k])
  OBVIOUS
<1>9. Laid(w1, D1, z, h)
  BY <1>2, <1>3, <1>4, <1>6, <1>7, <1>8, PassLays
<1>10. Laid(w2, D2, z, h)
  BY <1>2, <1>3, <1>4, <1>6, <1>8, <1>9, PassLays
<1>11. Laid(w3, D3, z, h) /\ Grows(w2, w3, D2, D3, z)
  BY <1>2, <1>3, <1>4, <1>6, <1>8, <1>10, PassLays
<1>12. Laid(w4, D4, z, h) /\ Grows(w3, w4, D3, D4, z)
  BY <1>2, <1>3, <1>4, <1>6, <1>8, <1>11, PassLays
<1>13. D4 = {k \in 1..Len(out) : out[k].offset = Max32}
  BY <1>3 DEF PassHas
<1>14. ASSUME NEW k \in PassHas(2), NEW j \in PassHas(3), z[k] > 0, z[j] > 0
       PROVE  w4.out[k].offset + z[k] <= w4.out[j].offset
  <2>1. k \in D2 /\ k \in D3 /\ j \in D3 /\ j \notin D2
    BY <1>3, <1>4
  <2>2. w4.out[k] = w2.out[k] /\ w4.out[j] = w3.out[j]
    BY <1>11, <1>12, <2>1 DEF Grows
  <2>3. w2.out[k].offset \in Nat /\ w2.out[k].offset + z[k] <= w2.next
    BY <1>10, <1>14, <2>1 DEF Laid
  <2>4. w2.next <= w3.out[j].offset
    BY <1>11, <1>14, <2>1 DEF Grows
  <2>5. w3.out[j].offset \in Nat
    BY <1>11, <1>14, <2>1 DEF Laid
  <2>6. w2.next \in Nat
    BY <1>10 DEF Laid
  <2>7. z[k] \in Nat
    BY <1>5 DEF SizesOf
  <2>. QED  BY <2>2, <2>3, <2>4, <2>5, <2>6, <2>7
<1>15. \A k \in PassHas(2), j \in PassHas(3) :
          z[k] > 0 /\ z[j] > 0 => w4.out[k].offset + z[k] <= w4.out[j].offset
  BY <1>14
<1>. QED  BY <1>1, <1>2, <1>12, <1>13, <1>15 DEF Settled

(* What is written has the sizes it says it has.                           *)
LEMMA SecOfInformed ==
  ASSUME Informed(out), NEW k \in 1..Len(out)
  PROVE  /\ Sec(out[k]) /\ ~(out[k].type \in {"CRCS", "FILEINFO"} /\ out[k].addr # 0)
         /\ out[k].offset = Max32 \/ (out[k].type = "NULL" /\ out[k].size = 0)
         /\ out[k].type = "CRCS" <=> k = Len(out) - 1
         /\ out[k].type = "FILEINFO" <=> k = Len(out)
         /\ k \in 1..(Len(out) - 2) => Ready(out[k])
<1>1. PICK n \in Nat : n = Len(out) /\ n >= 2
  BY SeqIs DEF Informed
<1>2. k \in 1..(n - 2) \/ k = n - 1 \/ k = n
  BY <1>1
<1>3. CASE k \in 1..(n - 2)
  <2>1. Ready(out[k])
    BY <1>1, <1>3 DEF Informed
  <2>2. k # n - 1 /\ k # n
    BY <1>3
  <2>3. out[k].type \notin {"CRCS", "FILEINFO"}
    BY <2>1 DEF Ready, EarlyTypes
  <2>. QED  BY <1>1, <2>1, <2>2, <2>3 DEF Ready
<1>4. CASE k = n - 1
  <2>1. Describes(out[k], "CRCS")
    BY <1>1, <1>4 DEF Informed
  <2>2. k # n /\ k \notin 1..(n - 2)
    BY <1>4
  <2>. QED  BY <1>1, <1>4, <2>1, <2>2 DEF Describes
<1>5. CASE k = n
  <2>1. Describes(out[k], "FILEINFO")
    BY <1>1, <1>5 DEF Informed
  <2>2. k # n - 1 /\ k \notin 1..(n - 2)
    BY <1>5
  <2>. QED  BY <1>1, <1>5, <2>1, <2>2 DEF Describes
<1>. QED  BY <1>2, <1>3, <1>4, <1>5

(* t is the section that s has become.                                     *)
Is(s, t) == /\ t.type = s.type /\ t.addr = s.addr /\ t.data = s.data
            /\ s.type # "NOBITS" => t.size = DataSize(s)
            /\ s.type = "NOBITS" => t.size = s.size

LEMMA NullHasNone ==
  ASSUME NEW s, Sec(s), s.type \in {"NULL", "NOBITS"}
  PROVE  DataSize(s) = 0
<1>1. DataSize(s) = 0 * Len(s.data)
  BY DEF DataSize, EntrySize
<1>2. Len(s.data) \in Nat
  BY SeqIs DEF Sec
<1>. QED  BY <1>1, <1>2

LEMMA SettledIs ==
  ASSUME Informed(out), NEW z, SizesOf(z), NEW o, Settled(o, z), NEW k \in 1..Len(out)
  PROVE  /\ Is(out[k], o[k]) /\ DataSize(o[k]) = z[k]
         /\ z[k] > 0 => out[k].offset = Max32 /\ o[k].size = z[k]
<1>1. PICK w : o = w.out /\ Laid(w, {i \in 1..Len(out) : out[i].offset = Max32}, z, HeaderEnd)
  BY DEF Settled
<1>2. Sec(out[k]) /\ (out[k].offset = Max32 \/ (out[k].type = "NULL" /\ out[k].size = 0))
  BY SecOfInformed
<1>3. CASE out[k].offset = Max32
  <2>1. Same(out[k], o[k])
    BY <1>1, <1>3 DEF Laid
  <2>2. Is(out[k], o[k])
    BY <2>1 DEF Same, Is
  <2>3. DataSize(o[k]) = DataSize(out[k])
    BY <2>1, SameData DEF Same
  <2>4. z[k] = DataSize(out[k])
    BY DEF SizesOf
  <2>5. z[k] > 0 => out[k].type # "NOBITS"
    BY <1>2, <2>4, NullHasNone
  <2>. QED  BY <1>3, <2>2, <2>3, <2>4, <2>5 DEF Is
<1>4. CASE out[k].offset # Max32
  <2>1. o[k] = out[k]
    BY <1>1, <1>4 DEF Laid
  <2>2. DataSize(out[k]) = 0 /\ out[k].type = "NULL" /\ out[k].size = 0
    BY <1>2, <1>4, NullHasNone
  <2>3. z[k] = 0
    BY <2>2 DEF SizesOf
  <2>. QED  BY <2>1, <2>2, <2>3 DEF Is
<1>. QED  BY <1>3, <1>4

LEMMA SettledLaid ==
  ASSUME Informed(out), NEW z, SizesOf(z), NEW o, Settled(o, z)
  PROVE  LaidOut(o)
<1>. DEFINE D == {i \in 1..Len(out) : out[i].offset = Max32}
            stored == {i \in DOMAIN o : DataSize(o[i]) > 0}
            Before(k, j) == o[k].offset + o[k].size <= o[j].offset
<1>1. PICK w : /\ o = w.out /\ Laid(w, D, z, HeaderEnd)
               /\ \A k \in PassHas(2), j \in PassHas(3) :
                     z[k] > 0 /\ z[j] > 0 => w.out[k].offset + z[k] <= w.out[j].offset
  BY DEF Settled
<1>2. DOMAIN o = 1..Len(out) /\ IsSeq(o)
  BY <1>1 DEF Laid
<1>3. PICK n \in Nat : n = Len(out) /\ n = Len(o)
  <2>1. PICK m \in Nat : m = Len(out)
    BY SeqIs DEF Informed
  <2>2. PICK l \in Nat : l = Len(o) /\ DOMAIN o = 1..l
    BY <1>2, SeqIs
  <2>3. 1..m = 1..l
    BY <1>2, <2>1, <2>2
  <2>4. m = l
    BY <2>3
  <2>. QED  BY <2>1, <2>2, <2>4
<1>4. ASSUME NEW k \in stored
      PROVE  /\ k \in 1..Len(out) /\ k \in D /\ z[k] > 0 /\ o[k].size = z[k] /\ z[k] \in Nat
             /\ o[k].addr = out[k].addr
             /\ o[k].offset \in Nat /\ o[k].offset % 64 = 0 /\ HeaderEnd <= o[k].offset
  <2>1. k \in 1..Len(out)
    BY <1>2
  <2>2. Is(out[k], o[k]) /\ DataSize(o[k]) = z[k] /\ (z[k] > 0 => out[k].offset = Max32 /\ o[k].size = z[k])
    BY <2>1, SettledIs
  <2>3. z[k] > 0 /\ z[k] \in Nat
    BY <1>4, <2>1, <2>2 DEF SizesOf
  <2>4. k \in D
    BY <2>1, <2>2, <2>3
  <2>. HIDE DEF D
  <2>. QED  BY <1>1, <2>1, <2>2, <2>3, <2>4 DEF Laid, Is
<1>5. ASSUME NEW k \in stored PROVE o[k].offset % 64 = 0 /\ o[k].offset >= 64 + 40 * Len(o)
  <2>1. 64 + 40 * n <= HeaderEnd /\ HeaderEnd \in Nat
    BY <1>3, HeaderEndIs DEF Informed
  <2>2. o[k].offset \in Nat /\ o[k].offset % 64 = 0 /\ HeaderEnd <= o[k].offset
    BY <1>4
  <2>. QED  BY <1>3, <2>1, <2>2
<1>6. ASSUME NEW k \in stored, NEW j \in stored, k # j PROVE Before(k, j) \/ Before(j, k)
  <2>1. k \in D /\ j \in D /\ z[k] > 0 /\ z[j] > 0 /\ o[k].size = z[k] /\ o[j].size = z[j]
    BY <1>4
  <2>. HIDE DEF D
  <2>2. Apart(w, z, k, j)
    BY <1>1, <1>6, <2>1 DEF Laid
  <2>. QED  BY <1>1, <2>1, <2>2 DEF Apart
<1>7. ASSUME NEW k \in stored, NEW j \in stored, InData(o[k].addr), o[j].addr >= WiiuLoadAddress
      PROVE  Before(k, j)
  <2>1. /\ k \in 1..Len(out) /\ j \in 1..Len(out) /\ k \in D /\ j \in D /\ z[k] > 0 /\ z[j] > 0
        /\ o[k].size = z[k] /\ o[k].addr = out[k].addr /\ o[j].addr = out[j].addr
    BY <1>4
  <2>2. \A i \in 1..Len(out) : out[i].addr \in Nat /\ ~(out[i].type \in {"CRCS", "FILEINFO"} /\ out[i].addr # 0)
    BY SecOfInformed DEF Sec
  <2>3. PassOf(out[k]) = 2
    BY <1>7, <2>1, <2>2, PassOfIs
  <2>4. PassOf(out[j]) = 3
    BY <1>7, <2>1, <2>2, PassOfIs
  <2>5. k \in PassHas(2) /\ j \in PassHas(3)
    BY <2>1, <2>3, <2>4 DEF PassHas
  <2>. HIDE DEF D
  <2>. QED  BY <1>1, <2>1, <2>5
<1>. HIDE DEF stored, Before
<1>8. /\ \A k \in stored : o[k].offset % 64 = 0 /\ o[k].offset >= 64 + 40 * Len(o)
      /\ \A k, j \in stored : k # j => Before(k, j) \/ Before(j, k)
      /\ \A k, j \in stored : InData(o[k].addr) /\ o[j].addr >= WiiuLoadAddress => Before(k, j)
  BY <1>5, <1>6, <1>7
<1>. QED  BY <1>8 DEF LaidOut, stored, Before

LEMMA SettledDescribed ==
  ASSUME Informed(out), Checked(out), NEW z, SizesOf(z), NEW o, Settled(o, z)
  PROVE  Described(o)
<1>1. PICK n \in Nat : n = Len(out) /\ n >= 2
  BY SeqIs DEF Informed
<1>2. DOMAIN o = 1..n
  BY <1>1 DEF Settled, Laid
<1>3. \A k \in 1..n : Is(out[k], o[k]) /\ DataSize(o[k]) = DataSize(out[k])
  <2>1. ASSUME NEW k \in 1..n PROVE Is(out[k], o[k]) /\ DataSize(o[k]) = DataSize(out[k])
    <3>1. k \in 1..Len(out)
      BY <1>1
    <3>2. Is(out[k], o[k]) /\ DataSize(o[k]) = z[k]
      BY <3>1, SettledIs
    <3>3. z[k] = DataSize(out[k])
      BY <3>1 DEF SizesOf
    <3>. QED  BY <3>2, <3>3
  <2>. QED  BY <2>1
<1>4. \A k \in 1..n : /\ Sec(out[k])
                      /\ out[k].type = "CRCS" <=> k = n - 1
                      /\ out[k].type = "FILEINFO" <=> k = n
                      /\ k \in 1..(n - 2) => Ready(out[k])
  BY <1>1, SecOfInformed
<1>5. PICK m \in 1..n : m = n - 1
  BY <1>1
<1>6. n \in 1..n
  BY <1>1
<1>7. {k \in DOMAIN o : o[k].type = "CRCS"} = {m} /\ {k \in DOMAIN o : o[k].type = "FILEINFO"} = {n}
  <2>1. \A k \in 1..n : o[k].type = out[k].type
    BY <1>3 DEF Is
  <2>2. \A k \in 1..n : (o[k].type = "CRCS" <=> k = m) /\ (o[k].type = "FILEINFO" <=> k = n)
    BY <1>4, <1>5, <2>1
  <2>. QED  BY <1>2, <1>6, <2>2
<1>8. Min({m}) = m /\ Min({n}) = n
  <2>1. {m} \subseteq Nat /\ {m} # {} /\ {n} \subseteq Nat /\ {n} # {}
    OBVIOUS
  <2>2. Min({m}) \in {m} /\ Min({n}) \in {n}
    BY <2>1, Least
  <2>. QED  BY <2>2
<1>. DEFINE crcs == o[m].data
            info == o[n].data[1]
<1>9. o[m].data = out[m].data /\ o[n].data = out[n].data
  BY <1>3, <1>6 DEF Is
<1>10. \A k \in 1..n : k # m => k \in DOMAIN crcs /\ crcs[k] = o[k].data
  <2>1. \A k \in 1..n : o[k].data = out[k].data
    BY <1>3 DEF Is
  <2>. QED  BY <1>1, <1>5, <1>9, <2>1 DEF Checked
<1>11. \A k \in 1..n : o[k].type # "NOBITS" => o[k].size = DataSize(o[k])
  BY <1>3 DEF Is
<1>12. ASSUME NEW k \in 1..n PROVE RoomFor(o[k], info)
  <2>1. Is(out[k], o[k]) /\ Sec(out[k])
    BY <1>3, <1>4
  <2>2. CASE k \in 1..(n - 2)
    <3>1. Ready(out[k]) /\ RoomFor(out[k], out[n].data[1])
      BY <1>1, <2>2 DEF Informed
    <3>2. o[k].addr = out[k].addr /\ o[k].size = out[k].size
      BY <2>1, <3>1 DEF Is, Ready
    <3>3. RoomFor(out[k], info)
      BY <1>9, <3>1
    <3>. HIDE DEF info
    <3>. QED  BY <3>2, <3>3 DEF RoomFor
  <2>3. CASE k \notin 1..(n - 2)
    <3>1. k = n - 1 \/ k = n
      BY <2>3
    <3>2. out[k].addr = 0
      BY <1>1, <3>1 DEF Informed, Describes
    <3>3. o[k].addr = 0
      BY <2>1, <3>2 DEF Is
    <3>4. ~InCode(o[k].addr) /\ ~InData(o[k].addr) /\ ~(o[k].addr >= WiiuLoadAddress)
      BY <3>3, NumbersAre DEF InCode, InData
    <3>. HIDE DEF info
    <3>. QED  BY <3>4 DEF RoomFor
  <2>. QED  BY <2>2, <2>3
<1>. HIDE DEF crcs, info
<1>13. \A k \in DOMAIN o \ {m} : k \in DOMAIN crcs /\ crcs[k] = o[k].data
  BY <1>2, <1>10
<1>. QED  BY <1>2, <1>7, <1>8, <1>11, <1>12, <1>13 DEF Described, crcs, info

LEMMA OffsetsMake ==
  ASSUME FileOk(file), Informed(out), Checked(out), SetOffsets
  PROVE  FileOk(file') /\ pc' = "write" /\ LaidOut(out') /\ Described(out')
<1>1. FileOk(file') /\ pc' = "write"
  BY DEF SetOffsets
<1>2. \A k \in 1..Len(out) : Sec(out[k]) /\ PassOf(out[k]) \in {1, 2, 3, 4}
  <2>1. ASSUME NEW k \in 1..Len(out) PROVE Sec(out[k]) /\ PassOf(out[k]) \in {1, 2, 3, 4}
    <3>1. Sec(out[k]) /\ ~(out[k].type \in {"CRCS", "FILEINFO"} /\ out[k].addr # 0)
      BY SecOfInformed
    <3>2. out[k].addr \in Nat
      BY <3>1 DEF Sec
    <3>. QED  BY <3>1, <3>2, PassOfIs
  <2>. QED  BY <2>1
<1>3. PICK z : SizesOf(z)
  <2>. DEFINE y == [k \in 1..Len(out) |-> DataSize(out[k])]
  <2>1. \A k \in 1..Len(out) : DataSize(out[k]) \in Nat
    BY <1>2, DataSizeNat
  <2>2. SizesOf(y)
    BY <2>1 DEF SizesOf
  <2>. QED  BY <2>2
<1>4. Settled(out', z)
  BY <1>2, <1>3, FourPasses DEF Informed
<1>5. PICK o : o = out'
  OBVIOUS
<1>6. LaidOut(o) /\ Described(o)
  BY <1>3, <1>4, <1>5, SettledLaid, SettledDescribed
<1>. QED  BY <1>1, <1>5, <1>6

-----------------------------------------------------------------------------
(***************************************************************************)
(* The file that is written is what it says it is.                         *)
(***************************************************************************)
(* What the sections are like in each of the phases after the links.       *)
Later ==
  /\ pc \in TablePhases => Tabled(out)
  /\ pc = "fileinfo" => AllReady(out)
  /\ pc = "crcs" => Informed(out)
  /\ pc = "offsets" => Informed(out) /\ Checked(out)
  /\ pc \in {"write", "done"} => LaidOut(out) /\ Described(out)
LaterPhases == TablePhases \cup {"fileinfo", "crcs", "offsets", "write", "done"}

FileInv == ReadOk /\ TablesOk /\ Built /\ Later

LEMMA FileInvInit == Init => FileInv
<1>. SUFFICES ASSUME Init PROVE FileInv
  OBVIOUS
<1>1. InOk
  BY InputsAssumption DEF Init, InOk
<1>2. FileOk(file)
  <2>1. DOMAIN EmptyFile = {"sections", "symbols", "heap", "relocations", "libs"}
        /\ EmptyFile.sections = <<>> /\ EmptyFile.symbols = <<>> /\ EmptyFile.heap = <<>>
        /\ EmptyFile.libs = <<>> /\ EmptyFile.relocations = <<>>
    BY DEF EmptyFile
  <2>2. \A S : <<>> \in Seq(S)
    OBVIOUS
  <2>. QED  BY <2>1, <2>2, NoneIsSeq DEF Init, FileOk
<1>3. pc \notin ReadPhases /\ pc \notin EarlyPhases /\ pc \notin BuildPhases /\ pc \notin LaterPhases
  BY DEF Init, ReadPhases, EarlyPhases, BuildPhases, LaterPhases, TablePhases
<1>4. TablesOk
  BY DEF Init, TablesOk
<1>. QED  BY <1>1, <1>2, <1>3, <1>4 DEF FileInv, ReadOk, Built, Later, LaterPhases

LEMMA ReadStep ==
  ASSUME FileInv, Read
  PROVE  FileInv'
<1>1. ReadOk'
  BY ReadKeeps DEF FileInv
<1>2. tables' = tables
  BY DEF Read, ReadHeader, LoaderRelocations, ReadSections, ReadSymbols, ReadImports,
         ReadRelocations, ReadDynRelocations
<1>3. pc' \in ReadPhases \cup {"loader", "sections", "failed", "crash"}
  <2>1. CASE ReadHeader
    BY <2>1 DEF ReadHeader
  <2>2. CASE LoaderRelocations
    BY <2>2 DEF LoaderRelocations
  <2>3. CASE ReadSections
    BY <2>3 DEF ReadSections, ReadPhases
  <2>4. CASE ReadSymbols
    BY <2>4 DEF ReadSymbols, ReadPhases
  <2>5. CASE ReadImports
    BY <2>5 DEF ReadImports, ReadPhases
  <2>6. CASE ReadRelocations
    BY <2>6, Zenon DEF ReadRelocations, ReadPhases
  <2>7. CASE ReadDynRelocations
    BY <2>7 DEF ReadDynRelocations, ReadPhases
  <2>. QED  BY <2>1, <2>2, <2>3, <2>4, <2>5, <2>6, <2>7 DEF Read
<1>4. pc' \notin EarlyPhases /\ pc' \notin BuildPhases /\ pc' \notin LaterPhases
  BY <1>3 DEF ReadPhases, EarlyPhases, BuildPhases, LaterPhases, TablePhases
<1>5. Built' /\ Later'
  BY <1>4 DEF Built, Later, LaterPhases
<1>6. TablesOk'
  BY <1>2 DEF FileInv, TablesOk
<1>. QED  BY <1>1, <1>5, <1>6 DEF FileInv

(* A phase of write() leaves the input alone.                              *)
LEMMA WriteFrame ==
  ASSUME ReadOk, FileOk(file'), UNCHANGED in, pc' \notin ReadPhases
  PROVE  ReadOk'
BY DEF ReadOk, InOk

(* The phases that add sections.                                           *)
LEMMA BuildStep ==
  ASSUME FileInv,
         \/ CreateDataSections \/ CreateRelaSections \/ Predict \/ PlaceImports \/ Prune \/ Convert
  PROVE  FileInv'
<1>1. FileOk(file') /\ Built'
  BY DataSectionsBuild, RelaSectionsBuild, PredictBuild, PlaceImportsBuild, PruneBuild, ConvertBuild
     DEF FileInv
<1>2. UNCHANGED in
  BY DEF CreateDataSections, CreateRelaSections, Predict, PlaceImports, Prune, Convert
<1>3. pc' \in EarlyPhases \cup {"failed", "crash"}
  BY DEF CreateDataSections, CreateRelaSections, Predict, PlaceImports, Prune, Convert, EarlyPhases
<1>4. pc' \notin ReadPhases /\ pc' \notin LaterPhases
  BY <1>3 DEF EarlyPhases, ReadPhases, LaterPhases, TablePhases
<1>5. TablesOk'
  <2>1. CASE Predict
    BY <2>1, PredictBuild DEF FileInv
  <2>2. CASE ~Predict
    <3>1. UNCHANGED tables
      BY <2>2 DEF CreateDataSections, CreateRelaSections, PlaceImports, Prune, Convert
    <3>. QED  BY <3>1 DEF FileInv, TablesOk
  <2>. QED  BY <2>1, <2>2
<1>6. ReadOk'
  BY <1>1, <1>2, <1>4, WriteFrame DEF FileInv
<1>7. Later'
  BY <1>4 DEF Later, LaterPhases
<1>. QED  BY <1>1, <1>5, <1>6, <1>7 DEF FileInv

(* From the links on no section is added but the last two.                 *)
LEMMA LaterStep ==
  ASSUME FileInv, FileOk(file'), UNCHANGED <<in, tables>>, pc' \in LaterPhases \cup {"failed"}, Later'
  PROVE  FileInv'
<1>1. pc' \notin ReadPhases /\ pc' \notin EarlyPhases /\ pc' \notin BuildPhases
  BY DEF LaterPhases, TablePhases, ReadPhases, EarlyPhases, BuildPhases
<1>2. ReadOk'
  BY <1>1, WriteFrame DEF FileInv
<1>3. Built'
  BY <1>1 DEF Built
<1>4. TablesOk'
  BY DEF FileInv, TablesOk
<1>. QED  BY <1>2, <1>3, <1>4 DEF FileInv

LEMMA TablesStep ==
  ASSUME FileInv,
         \/ LinkTables \/ CreateSymtab \/ CreateShstrtab \/ CreateFileInfo \/ CreateCrcs
         \/ SetOffsets \/ WriteFile
  PROVE  FileInv'
<1>1. UNCHANGED <<in, tables>>
  BY DEF LinkTables, CreateSymtab, CreateShstrtab, CreateFileInfo, CreateCrcs, SetOffsets, WriteFile
<1>2. FileOk(file) /\ ReadOk /\ Built /\ TablesOk /\ Later
  BY DEF FileInv, ReadOk
<1>3. CASE LinkTables
  <2>1. FileOk(file') /\ pc' = "symtab" /\ Tabled(out')
    BY <1>2, <1>3, LinkTablesMakes
  <2>2. Later' /\ pc' \in LaterPhases
    BY <2>1 DEF Later, LaterPhases, TablePhases
  <2>. QED  BY <1>1, <2>1, <2>2, LaterStep
<1>4. CASE CreateSymtab
  <2>1. Tabled(out)
    BY <1>2, <1>4 DEF CreateSymtab, Later, TablePhases
  <2>2. FileOk(file') /\ pc' \in {"shstrtab", "failed"} /\ Tabled(out')
    BY <1>2, <1>4, <2>1, SymtabKeeps
  <2>3. Later' /\ pc' \in LaterPhases \cup {"failed"}
    BY <2>2 DEF Later, LaterPhases, TablePhases
  <2>. QED  BY <1>1, <2>2, <2>3, LaterStep
<1>5. CASE CreateShstrtab
  <2>1. Tabled(out)
    BY <1>2, <1>5 DEF CreateShstrtab, Later, TablePhases
  <2>2. FileOk(file') /\ pc' = "fileinfo" /\ AllReady(out')
    BY <1>2, <1>5, <2>1, ShstrtabMakes
  <2>3. Later' /\ pc' \in LaterPhases
    BY <2>2 DEF Later, LaterPhases, TablePhases
  <2>. QED  BY <1>1, <2>2, <2>3, LaterStep
<1>6. CASE CreateFileInfo
  <2>1. AllReady(out)
    BY <1>2, <1>6 DEF CreateFileInfo, Later
  <2>2. FileOk(file') /\ pc' = "crcs" /\ Informed(out')
    BY <1>2, <1>6, <2>1, FileInfoMakes
  <2>3. Later' /\ pc' \in LaterPhases
    BY <2>2 DEF Later, LaterPhases, TablePhases
  <2>. QED  BY <1>1, <2>2, <2>3, LaterStep
<1>7. CASE CreateCrcs
  <2>1. Informed(out)
    BY <1>2, <1>7 DEF CreateCrcs, Later
  <2>2. FileOk(file') /\ pc' = "offsets" /\ Informed(out') /\ Checked(out')
    BY <1>2, <1>7, <2>1, CrcsMakes
  <2>3. Later' /\ pc' \in LaterPhases
    BY <2>2 DEF Later, LaterPhases, TablePhases
  <2>. QED  BY <1>1, <2>2, <2>3, LaterStep
<1>8. CASE SetOffsets
  <2>1. Informed(out) /\ Checked(out)
    BY <1>2, <1>8 DEF SetOffsets, Later
  <2>2. FileOk(file') /\ pc' = "write" /\ LaidOut(out') /\ Described(out')
    BY <1>2, <1>8, <2>1, OffsetsMake
  <2>3. Later' /\ pc' \in LaterPhases
    BY <2>2 DEF Later, LaterPhases, TablePhases
  <2>. QED  BY <1>1, <2>2, <2>3, LaterStep
<1>9. CASE WriteFile
  <2>1. pc = "write" /\ pc' \in {"done", "failed"} /\ file' = file /\ out' = out
    BY <1>9 DEF WriteFile
  <2>2. LaidOut(out) /\ Described(out)
    BY <1>2, <2>1 DEF Later
  <2>3. FileOk(file') /\ LaidOut(out') /\ Described(out')
    BY <1>2, <2>1, <2>2
  <2>4. Later' /\ pc' \in LaterPhases \cup {"failed"}
    BY <2>1, <2>3 DEF Later, LaterPhases, TablePhases
  <2>. QED  BY <1>1, <2>3, <2>4, LaterStep
<1>. QED  BY <1>3, <1>4, <1>5, <1>6, <1>7, <1>8, <1>9

LEMMA FileInvStep ==
  ASSUME FileInv, [Next]_vars
  PROVE  FileInv'
<1>1. CASE UNCHANGED vars
  <2>1. pc' = pc /\ in' = in /\ file' = file /\ out' = out /\ itr' = itr /\ tables' = tables
    BY <1>1 DEF vars
  <2>2. ReadOk' /\ TablesOk' /\ Built'
    BY <2>1 DEF FileInv, ReadOk, InOk, TablesOk, Built
  <2>3. Later'
    BY <2>1 DEF FileInv, Later
  <2>. QED  BY <2>2, <2>3 DEF FileInv
<1>2. CASE Read
  BY <1>2, ReadStep
<1>3. CASE Write
  BY <1>3, BuildStep, TablesStep DEF Write
<1>. QED  BY <1>1, <1>2, <1>3 DEF Next

(* Whatever ELF file is read, and whatever the memory of pruned symbols    *)
(* shows: when write() has ended, the sections stand on multiples of 64    *)
(* behind the headers without overlapping, the data region before the load *)
(* region, each as large as its header says and with its own checksum, and *)
(* the FILEINFO section gives every region the room its sections need      *)
(* (main.cpp 959-1148).                                                    *)
THEOREM FileIsTrue == Spec => []FileTrue
<1>1. FileInv => FileTrue
  BY DEF FileInv, Later, FileTrue, Done
<1>. QED  BY <1>1, FileInvInit, FileInvStep, PTL DEF Spec
=============================================================================
