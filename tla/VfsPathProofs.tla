--------------------------- MODULE VfsPathProofs ---------------------------
(***************************************************************************)
(* What is proved of module VfsPath, for any file system, any arguments    *)
(* and any limit on the length of a path.                                  *)
(***************************************************************************)
EXTENDS VfsPath, FiniteSetTheorems, Loops

-----------------------------------------------------------------------------
LEMMA FrontIs ==
  ASSUME NEW S, NEW s \in Seq(S), s # <<>>
  PROVE  /\ Len(s) \in Nat \ {0}
         /\ Front(s) \in Seq(S) /\ Len(Front(s)) = Len(s) - 1
         /\ \A i \in 1..(Len(s) - 1) : Front(s)[i] = s[i]
<1>1. Len(s) \in Nat \ {0}
  BY EmptySeq
<1>2. \A i \in 1..(Len(s) - 1) : s[i] \in S
  BY <1>1, ElementOfSeq
<1>3. PICK n \in Nat : n = Len(s) - 1
  BY <1>1
<1>4. /\ SubSeq(s, 1, n) \in Seq(S)
      /\ Len(SubSeq(s, 1, n)) = IF 1 <= n THEN n - 1 + 1 ELSE 0
      /\ \A i \in 1..(n - 1 + 1) : SubSeq(s, 1, n)[i] = s[1+i-1]
  BY <1>2, <1>3, SubSeqProperties
<1>. QED  BY <1>1, <1>3, <1>4 DEF Front

LEMMA FrontOfAppend ==
  ASSUME NEW S, NEW s \in Seq(S), NEW x \in S
  PROVE  Front(Append(s, x)) = s
<1>1. PICK t \in Seq(S) : t = Append(s, x)
  BY AppendProperties
<1>2. Len(t) = Len(s) + 1 /\ t # <<>> /\ \A i \in 1..Len(s) : t[i] = s[i]
  <2>1. /\ Append(s, x) # <<>> /\ Len(Append(s, x)) = Len(s) + 1
        /\ \A i \in 1..Len(s) : Append(s, x)[i] = s[i]
    BY AppendProperties
  <2>. QED  BY <1>1, <2>1
<1>3. Front(t) \in Seq(S) /\ Len(Front(t)) = Len(t) - 1 /\ \A i \in 1..(Len(t) - 1) : Front(t)[i] = t[i]
  BY <1>2, FrontIs
<1>4. Len(s) \in Nat /\ Len(Front(t)) = Len(s) /\ \A i \in 1..Len(s) : Front(t)[i] = s[i]
  BY <1>2, <1>3
<1>. QED  BY <1>1, <1>3, <1>4, SeqEqual

LEMMA PushedIs ==
  ASSUME NEW S, NEW stack \in Seq(S), NEW name \in S
  PROVE  Pushed(stack, name) \in Seq(S)
<1>1. stack # <<>> => Front(stack) \in Seq(S)
  BY FrontIs
<1>2. Append(stack, name) \in Seq(S)
  OBVIOUS
<1>. QED  BY <1>1, <1>2, Zenon DEF Pushed

(***************************************************************************)
(* The stack of vfs_path_resolve(), name by name.                          *)
(***************************************************************************)
Pushes(names) ==
  [k \in 1..Len(names) |-> [stack \in Seq(Name) |-> Pushed(stack, names[k])]]

Stacks(f, names) ==
  /\ f \in [0..Len(names) -> Seq(Name)] /\ f[0] = <<>>
  /\ \A k \in 1..Len(names) : f[k] = Pushed(f[k - 1], names[k])

LEMMA ResolveRuns ==
  ASSUME NEW names \in Seq(Name)
  PROVE  \E f : Stacks(f, names) /\ Resolve(names) = f[Len(names)]
<1>. DEFINE n == Len(names)
            Body(f) == [k \in 0..n |-> IF k = 0 THEN <<>> ELSE Pushed(f[k - 1], names[k])]
            Stack == CHOOSE f : f = Body(f)
<1>1. n \in Nat /\ <<>> \in Seq(Name)
  OBVIOUS
<1>2. Pushes(names) \in [1..n -> [Seq(Name) -> Seq(Name)]]
  <2>1. \A k \in 1..n : \A stack \in Seq(Name) : Pushed(stack, names[k]) \in Seq(Name)
    BY PushedIs, ElementOfSeq
  <2>. QED  BY <2>1 DEF Pushes
<1>3. PICK f : Runs(f, n, Seq(Name), <<>>, Pushes(names))
  <2>. HIDE DEF n
  <2>. QED  BY <1>1, <1>2, LoopRuns
<1>4. f = Body(f)
  <2>1. \A k \in 1..n : k - 1 \in 0..n /\ f[k-1] \in Seq(Name)
    <3>1. \A k \in 1..n : k - 1 \in 0..n
      BY <1>1
    <3>2. f \in [0..n -> Seq(Name)]
      BY <1>3 DEF Runs
    <3>. QED  BY <3>1, <3>2
  <2>2. \A k \in 1..n : f[k] = Pushes(names)[k][f[k-1]]
    BY <1>3 DEF Runs
  <2>3. \A k \in 1..n : f[k] = Pushed(f[k-1], names[k])
    BY <2>1, <2>2 DEF Pushes
  <2>. QED  BY <2>1, <2>3, <1>1, <1>3 DEF Runs
<1>5. Stack = Body(Stack)
  <2>. HIDE DEF Body
  <2>. QED  BY <1>4
<1>6. Stack[n] = f[n]
  <2>. HIDE DEF Stack
  <2>1. Stack[0] = <<>> /\ \A k \in 1..n : Stack[k] = Pushed(Stack[k-1], names[k])
    BY <1>5, <1>1
  <2>2. Follows(Stack, n, Seq(Name), <<>>, Pushes(names))
    BY <2>1 DEF Pushes, Follows
  <2>3. n \in 0..n
    BY <1>1
  <2>. HIDE DEF n
  <2>. QED  BY <1>1, <1>3, <2>2, <2>3, LoopIsUnique
<1>7. Resolve(names) = Stack[n]
  BY DEF Resolve
<1>8. Stacks(f, names)
  <2>. HIDE DEF Stack
  <2>1. \A k \in 1..n : k \in 0..n /\ k # 0
    BY <1>1
  <2>2. \A k \in 1..n : f[k] = Pushed(f[k-1], names[k])
    BY <1>4, <2>1, Zenon
  <2>. QED  BY <1>3, <2>2 DEF Runs, Stacks
<1>. QED  BY <1>6, <1>7, <1>8

LEMMA ResolveIs ==
  ASSUME NEW names \in Seq(Name)
  PROVE  Resolve(names) \in Seq(Name)
<1>1. PICK f : Stacks(f, names) /\ Resolve(names) = f[Len(names)]
  BY ResolveRuns
<1>2. Len(names) \in 0..Len(names)
  BY LenProperties
<1>. QED  BY <1>1, <1>2 DEF Stacks

(***************************************************************************)
(* The names that stat() sees, name by name.                               *)
(***************************************************************************)
Keeps(names) ==
  [k \in 1..Len(names) |-> [kept \in Seq(Name) |-> Kept(kept, names[k])]]

LEMMA DirectoryIs ==
  ASSUME NEW names \in Seq(Name)
  PROVE  \E f : /\ Runs(f, Len(names), Seq(Name), <<>>, Keeps(names))
                /\ Directory(names) = f[Len(names)]
<1>. DEFINE n == Len(names)
            Body(f) == [k \in 0..n |-> IF k = 0 THEN <<>> ELSE Kept(f[k - 1], names[k])]
            Names == CHOOSE f : f = Body(f)
<1>1. n \in Nat /\ <<>> \in Seq(Name)
  OBVIOUS
<1>2. Keeps(names) \in [1..n -> [Seq(Name) -> Seq(Name)]]
  <2>1. \A k \in 1..n : names[k] \in Name
    BY ElementOfSeq
  <2>2. \A k \in 1..n : \A kept \in Seq(Name) : Kept(kept, names[k]) \in Seq(Name)
    BY <2>1 DEF Kept
  <2>. QED  BY <2>2 DEF Keeps
<1>3. PICK f : Runs(f, n, Seq(Name), <<>>, Keeps(names))
  <2>. HIDE DEF n
  <2>. QED  BY <1>1, <1>2, LoopRuns
<1>4. f = Body(f)
  <2>1. \A k \in 1..n : k - 1 \in 0..n /\ f[k-1] \in Seq(Name)
    <3>1. \A k \in 1..n : k - 1 \in 0..n
      BY <1>1
    <3>2. f \in [0..n -> Seq(Name)]
      BY <1>3 DEF Runs
    <3>. QED  BY <3>1, <3>2
  <2>2. \A k \in 1..n : f[k] = Keeps(names)[k][f[k-1]]
    BY <1>3 DEF Runs
  <2>3. \A k \in 1..n : f[k] = Kept(f[k-1], names[k])
    BY <2>1, <2>2 DEF Keeps
  <2>. QED  BY <2>1, <2>3, <1>1, <1>3 DEF Runs
<1>5. Names = Body(Names)
  <2>. HIDE DEF Body
  <2>. QED  BY <1>4
<1>6. Names[n] = f[n]
  <2>. HIDE DEF Names
  <2>1. Names[0] = <<>> /\ \A k \in 1..n : Names[k] = Kept(Names[k-1], names[k])
    BY <1>5, <1>1
  <2>2. Follows(Names, n, Seq(Name), <<>>, Keeps(names))
    BY <2>1 DEF Keeps, Follows
  <2>3. n \in 0..n
    BY <1>1
  <2>. HIDE DEF n
  <2>. QED  BY <1>1, <1>3, <2>2, <2>3, LoopIsUnique
<1>7. Directory(names) = Names[n]
  BY DEF Directory
<1>. QED  BY <1>3, <1>6, <1>7

(***************************************************************************)
(* A path without its last name leads to the parent directory, or to the   *)
(* same one if that name was empty.                                        *)
(***************************************************************************)
LEMMA ParentIsDirectory ==
  ASSUME NEW names \in Seq(Name), names # <<>>, IsDirectory(names)
  PROVE  IsDirectory(Front(names))
<1>. DEFINE n == Len(names)
            up == Front(names)
<1>1. /\ n \in Nat \ {0} /\ n - 1 \in Nat /\ up \in Seq(Name) /\ Len(up) = n - 1
      /\ \A k \in 1..(n - 1) : up[k] = names[k]
  BY FrontIs
<1>2. PICK f : Runs(f, n, Seq(Name), <<>>, Keeps(names)) /\ Directory(names) = f[n]
  BY DirectoryIs
<1>3. PICK g : Runs(g, n - 1, Seq(Name), <<>>, Keeps(up)) /\ Directory(up) = g[n - 1]
  <2>. HIDE DEF up
  <2>. QED  BY <1>1, DirectoryIs
<1>4. Follows(f, n - 1, Seq(Name), <<>>, Keeps(up))
  <2>. HIDE DEF up
  <2>1. ASSUME NEW k \in 1..(n - 1), f[k-1] \in Seq(Name) PROVE f[k] = Keeps(up)[k][f[k-1]]
    <3>1. k \in 1..n /\ k \in 1..Len(up)
      BY <1>1
    <3>2. f[k] = Keeps(names)[k][f[k-1]]
      BY <1>2, <3>1 DEF Runs
    <3>3. f[k] = Kept(f[k-1], names[k])
      BY <2>1, <3>1, <3>2 DEF Keeps
    <3>4. Keeps(up)[k][f[k-1]] = Kept(f[k-1], up[k])
      BY <2>1, <3>1 DEF Keeps
    <3>. QED  BY <1>1, <3>3, <3>4
  <2>2. f[0] = <<>>
    BY <1>2 DEF Runs
  <2>. QED  BY <2>1, <2>2 DEF Follows
<1>5. Directory(up) = f[n - 1]
  <2>1. PICK m \in Nat : m = n - 1
    BY <1>1
  <2>2. m \in 0..m /\ m \in Nat
    BY <2>1
  <2>3. \A k \in 0..m : f[k] = g[k]
    <3>. HIDE DEF up, n
    <3>. QED  BY <1>3, <1>4, <2>1, <2>2, LoopIsUnique
  <2>. QED  BY <1>3, <2>1, <2>2, <2>3
<1>6. f[n - 1] \in Seq(Name) /\ Directory(names) = Kept(f[n - 1], names[n])
  <2>1. n \in 1..n /\ n - 1 \in 0..n
    BY <1>1
  <2>2. f[n - 1] \in Seq(Name) /\ f[n] = Keeps(names)[n][f[n - 1]]
    BY <1>2, <2>1 DEF Runs
  <2>. QED  BY <1>2, <2>1, <2>2 DEF Keeps
<1>7. names[n] \in Name
  BY <1>1, ElementOfSeq
<1>8. Directory(up) \in Dirs
  <2>1. PICK d \in Seq(Name) : d = f[n - 1]
    BY <1>6
  <2>2. PICK x \in Name : x = names[n]
    BY <1>7
  <2>3. Kept(d, x) \in Dirs
    BY <1>6, <2>1, <2>2 DEF IsDirectory
  <2>4. CASE x = <<>>
    BY <1>5, <2>1, <2>3, <2>4 DEF Kept
  <2>5. CASE x # <<>>
    <3>1. Append(d, x) \in Dirs /\ Append(d, x) # <<>>
      BY <2>3, <2>5 DEF Kept
    <3>2. Front(Append(d, x)) = d
      BY FrontOfAppend
    <3>. QED  BY <1>5, <2>1, <3>1, <3>2, TreeAssumption
  <2>. QED  BY <2>4, <2>5
<1>. QED  BY <1>8 DEF IsDirectory

(***************************************************************************)
(* The string of an absolute path, part by part.                           *)
(***************************************************************************)
Path(names) == [absolute |-> TRUE, names |-> names]

Parts(names) ==
  [k \in 1..Len(names) |-> [text \in Seq(Char) |-> text \o Part(names, k)]]

LEMMA PartIs ==
  ASSUME NEW names \in Seq(Name), NEW k \in 1..Len(names)
  PROVE  Part(names, k) \in Seq(Char)
<1>1. names[k] \in Seq(Char) /\ Slash \in Char
  <2>1. names[k] \in Seq(Char \ {Slash})
    BY ElementOfSeq DEF Name
  <2>2. names[k] \in Seq(Char)
    BY <2>1, SeqMonotonic
  <2>. QED  BY <2>2 DEF Char
<1>2. Append(names[k], Slash) \in Seq(Char)
  BY <1>1
<1>. QED  BY <1>1, <1>2 DEF Part

LEMMA PathStringIs ==
  ASSUME NEW names \in Seq(Name)
  PROVE  \E f : /\ Runs(f, Len(names), Seq(Char), <<Slash>>, Parts(names))
                /\ PathString(Path(names)) = f[Len(names)]
<1>0. PICK start : start = <<Slash>>
  OBVIOUS
<1>. DEFINE n == Len(names)
            Body(f) == [k \in 0..n |-> IF k = 0 THEN start ELSE f[k - 1] \o Part(names, k)]
            Text == CHOOSE f : f = Body(f)
<1>1. n \in Nat /\ start \in Seq(Char)
  <2>1. Slash \in Char /\ start = <<Slash>>
    BY <1>0 DEF Char
  <2>. QED  BY <2>1
<1>2. Parts(names) \in [1..n -> [Seq(Char) -> Seq(Char)]]
  <2>1. \A k \in 1..n : \A text \in Seq(Char) : text \o Part(names, k) \in Seq(Char)
    BY <1>1, PartIs, ConcatProperties
  <2>. QED  BY <2>1 DEF Parts
<1>3. PICK f : Runs(f, n, Seq(Char), start, Parts(names))
  <2>. HIDE DEF n
  <2>. QED  BY <1>1, <1>2, LoopRuns
<1>4. f = Body(f)
  <2>1. \A k \in 1..n : k - 1 \in 0..n /\ f[k-1] \in Seq(Char)
    BY <1>1, <1>3 DEF Runs
  <2>2. \A k \in 1..n : f[k] = Parts(names)[k][f[k-1]]
    BY <1>3 DEF Runs
  <2>3. \A k \in 1..n : f[k] = f[k-1] \o Part(names, k)
    BY <2>1, <2>2 DEF Parts
  <2>. QED  BY <2>1, <2>3, <1>1, <1>3 DEF Runs
<1>5. Text = Body(Text)
  <2>. HIDE DEF Body
  <2>. QED  BY <1>4
<1>6. Text[n] = f[n]
  <2>. HIDE DEF Text
  <2>1. Text[0] = start /\ \A k \in 1..n : Text[k] = Text[k-1] \o Part(names, k)
    <3>1. \A k \in 0..n : Text[k] = IF k = 0 THEN start ELSE Text[k - 1] \o Part(names, k)
      BY <1>5, Zenon
    <3>2. 0 \in 0..n /\ \A k \in 1..n : k \in 0..n /\ k # 0
      BY <1>1
    <3>. QED  BY <3>1, <3>2, Zenon
  <2>2. Follows(Text, n, Seq(Char), start, Parts(names))
    BY <1>1, <2>1 DEF Parts, Follows
  <2>3. n \in 0..n
    BY <1>1
  <2>. HIDE DEF n
  <2>. QED  BY <1>1, <1>3, <2>2, <2>3, LoopIsUnique
<1>7. PathString(Path(names)) = Text[n]
  <2>1. Path(names).names = names /\ Path(names).absolute = TRUE
    BY DEF Path
  <2>2. (IF Path(names).absolute THEN <<Slash>> ELSE <<>>) = <<Slash>>
    BY <2>1
  <2>. QED  BY <1>0, <2>1, <2>2, Zenon DEF PathString
<1>. QED  BY <1>0, <1>3, <1>6, <1>7

(***************************************************************************)
(* Without its last name a path has a shorter string, or none is needed.   *)
(***************************************************************************)
LEMMA ParentHasString ==
  ASSUME NEW names \in Seq(Name), names # <<>>, ~TooLong(Path(names))
  PROVE  ~TooLong(Path(Front(names)))
<1>. PICK up : up = Front(names)
  OBVIOUS
<1>. PICK n : n = Len(names)
  OBVIOUS
<1>1. /\ n \in Nat \ {0} /\ n - 1 \in Nat /\ up \in Seq(Name) /\ Len(up) = n - 1
      /\ \A k \in 1..(n - 1) : up[k] = names[k]
  BY FrontIs
<1>2. PICK f : Runs(f, n, Seq(Char), <<Slash>>, Parts(names)) /\ PathString(Path(names)) = f[n]
  BY PathStringIs
<1>3. PICK g : Runs(g, n - 1, Seq(Char), <<Slash>>, Parts(up)) /\ PathString(Path(up)) = g[n - 1]
  BY <1>1, PathStringIs
<1>4. ASSUME NEW k \in 1..n
      PROVE  /\ f[k - 1] \in Seq(Char) /\ f[k] = f[k - 1] \o Part(names, k)
             /\ Len(f[k]) = Len(f[k - 1]) + Len(Part(names, k))
             /\ Len(f[k - 1]) \in Nat /\ Len(Part(names, k)) \in Nat
  <2>1. k - 1 \in 0..n /\ k \in 1..Len(names)
    BY <1>1
  <2>2. f[k - 1] \in Seq(Char) /\ f[k] = Parts(names)[k][f[k - 1]]
    BY <1>2, <2>1 DEF Runs
  <2>3. f[k] = f[k - 1] \o Part(names, k)
    BY <2>1, <2>2 DEF Parts
  <2>4. Part(names, k) \in Seq(Char)
    BY <1>1, <2>1, PartIs
  <2>5. Len(f[k - 1] \o Part(names, k)) = Len(f[k - 1]) + Len(Part(names, k))
    BY <2>2, <2>4, ConcatProperties
  <2>. QED  BY <2>2, <2>3, <2>4, <2>5, LenProperties
<1>5. ASSUME n - 1 # 0 PROVE Len(g[n - 1]) <= Len(f[n - 1])
  <2>1. PICK m \in Nat : m = n - 2
    <3>1. n \in Nat \ {0} /\ n # 1
      BY <1>1, <1>5
    <3>. QED  BY <3>1
  <2>2. m \in 0..(n - 1) /\ m + 1 = n - 1 /\ m + 1 \in 1..n /\ m + 1 \in 1..(n - 1)
    BY <1>1, <2>1
  <2>3. ASSUME NEW k \in 1..m PROVE Part(names, k) = Part(up, k)
    <3>1. k \in 1..(n - 1) /\ k < n - 1 /\ k < n
      BY <1>1, <2>1
    <3>. QED  BY <1>1, <3>1 DEF Part
  <2>4. Follows(f, m, Seq(Char), <<Slash>>, Parts(up))
    <3>1. ASSUME NEW k \in 1..m PROVE f[k] = Parts(up)[k][f[k - 1]]
      <4>1. k \in 1..n /\ k \in 1..Len(up)
        BY <1>1, <2>2
      <4>2. f[k - 1] \in Seq(Char) /\ f[k] = f[k - 1] \o Part(up, k)
        BY <1>4, <2>3, <4>1
      <4>. QED  BY <4>1, <4>2 DEF Parts
    <3>2. f[0] = <<Slash>>
      BY <1>2 DEF Runs
    <3>. QED  BY <3>1, <3>2 DEF Follows
  <2>5. f[m] = g[m]
    <3>1. \A k \in 0..m : f[k] = g[k]
      BY <1>1, <1>3, <2>2, <2>4, LoopIsUnique
    <3>. QED  BY <3>1
  <2>6. /\ f[m + 1] = f[m] \o Part(names, m + 1) /\ f[m] \in Seq(Char)
        /\ Len(f[m + 1]) = Len(f[m]) + Len(Part(names, m + 1)) /\ Len(f[m]) \in Nat
    <3>1. (m + 1) - 1 = m
      OBVIOUS
    <3>. QED  BY <1>4, <2>2, <3>1
  <2>7. Len(Part(names, m + 1)) = Len(up[m + 1]) + 1
    <3>1. m + 1 < Len(names) /\ up[m + 1] = names[m + 1] /\ up[m + 1] \in Name
      BY <1>1, <2>2, ElementOfSeq
    <3>2. Part(names, m + 1) = Append(up[m + 1], Slash)
      BY <3>1 DEF Part
    <3>3. up[m + 1] \in Seq(Char \ {Slash})
      BY <3>1 DEF Name
    <3>4. up[m + 1] \in Seq(Char) /\ Slash \in Char
      <4>1. (Char \ {Slash}) \subseteq Char
        OBVIOUS
      <4>2. up[m + 1] \in Seq(Char)
        BY <3>3, <4>1, SeqMonotonic
      <4>. QED  BY <4>2 DEF Char
    <3>. QED  BY <3>2, <3>4, AppendProperties
  <2>8. Len(g[m + 1]) = Len(f[m]) + Len(up[m + 1]) /\ Len(up[m + 1]) \in Nat
    <3>1. m + 1 \in 1..Len(up) /\ (m + 1) - 1 = m
      BY <1>1, <2>2
    <3>2. g[m + 1] = Parts(up)[m + 1][g[m]]
      BY <1>3, <2>2, <3>1 DEF Runs
    <3>3. g[m + 1] = f[m] \o Part(up, m + 1)
      BY <2>5, <2>6, <3>1, <3>2 DEF Parts
    <3>4. Part(up, m + 1) = up[m + 1]
      BY <1>1, <2>2 DEF Part
    <3>5. up[m + 1] \in Seq(Char)
      BY <1>1, <3>1, <3>4, PartIs
    <3>6. Len(f[m] \o up[m + 1]) = Len(f[m]) + Len(up[m + 1])
      BY <2>6, <3>5, ConcatProperties
    <3>7. Len(up[m + 1]) \in Nat
      BY <3>5, LenProperties
    <3>. QED  BY <3>3, <3>4, <3>6, <3>7
  <2>9. Len(g[m + 1]) <= Len(f[m + 1])
    BY <2>6, <2>7, <2>8
  <2>. QED  BY <2>2, <2>9
<1>6. CASE n - 1 = 0
  <2>1. up = <<>>
    BY <1>1, <1>6, EmptySeq
  <2>2. Path(up).names = up
    BY DEF Path
  <2>. QED  BY <2>1, <2>2 DEF TooLong
<1>7. CASE n - 1 # 0
  <2>1. n \in 1..n /\ n - 1 \in 0..(n - 1)
    BY <1>1
  <2>2. Len(f[n]) = Len(f[n - 1]) + Len(Part(names, n))
        /\ Len(f[n - 1]) \in Nat /\ Len(Part(names, n)) \in Nat
    BY <1>4, <2>1
  <2>3. g[n - 1] \in Seq(Char)
    BY <1>3, <2>1 DEF Runs
  <2>4. Len(g[n - 1]) \in Nat
    BY <2>3, LenProperties
  <2>5. ~(Len(f[n]) + 1 >= PathMax)
    <3>1. Path(names).names # <<>>
      BY DEF Path
    <3>. QED  BY <1>2, <3>1 DEF TooLong
  <2>6. ~(Len(g[n - 1]) + 1 >= PathMax)
    BY <1>5, <1>7, <2>2, <2>4, <2>5, TreeAssumption
  <2>. QED  BY <1>3, <2>6 DEF TooLong
<1>. QED  BY <1>6, <1>7

-----------------------------------------------------------------------------
(***************************************************************************)
(* The parser.                                                             *)
(***************************************************************************)
Memory == Char \union {NUL}

LEMMA MinIsLeast ==
  ASSUME NEW S \in SUBSET Nat, S # {}
  PROVE  Min(S) \in S /\ \A y \in S : Min(S) <= y
<1>. DEFINE R == OpToRel(<, Nat)
<1>1. IsWellFoundedOn(R, Nat)
  BY NatLessThanWellFounded
<1>2. \E x \in S : \A y \in S : ~(<<y, x>> \in R)
  <2>. HIDE DEF R
  <2>. QED  BY <1>1, WFMin
<1>3. \A x \in Nat, y \in Nat : ~(<<y, x>> \in R) => x <= y
  BY DEF OpToRel
<1>4. \E x \in S : \A y \in S : x <= y
  BY <1>2, <1>3
<1>. QED  BY <1>4 DEF Min

(* A string is a piece of the memory, and ends in front of the first NUL.  *)
LEMMA StringIs ==
  ASSUME NEW mem \in Seq(Memory), NEW from \in 1..Len(mem), NEW to \in 1..Len(mem)
  PROVE  /\ StringAt(mem, from, to) \in Seq(Memory)
         /\ (\E d \in from..to : mem[d] = NUL /\ \A j \in from..d : mem[j] # Slash)
              => StringAt(mem, from, to) \in Name
<1>. DEFINE I == {j \in from..to : mem[j] = NUL}
<1>0. Len(mem) \in Nat /\ from \in Nat /\ to \in Nat /\ I \subseteq Nat
  BY LenProperties
<1>1. PICK sel : sel = IF I # {} THEN Min(I) ELSE 0
  OBVIOUS
<1>2. StringAt(mem, from, to) = SubSeq(mem, from, sel - 1)
  BY <1>1, Zenon DEF StringAt, SelectInSubSeq
<1>3. I # {} => sel \in I /\ \A y \in I : sel <= y
  <2>. HIDE DEF I
  <2>. QED  BY <1>0, <1>1, MinIsLeast
<1>4. I = {} => sel = 0
  BY <1>1
<1>5. sel \in Nat /\ sel - 1 \in Int /\ \A j \in from..(sel - 1) : j \in 1..Len(mem)
  BY <1>0, <1>3, <1>4
<1>6. StringAt(mem, from, to) \in Seq(Memory)
  <2>1. \A j \in from..(sel - 1) : mem[j] \in Memory
    BY <1>5, ElementOfSeq
  <2>. QED  BY <1>0, <1>2, <1>5, <2>1, SubSeqProperties
<1>7. ASSUME NEW d \in from..to, mem[d] = NUL, \A j \in from..d : mem[j] # Slash
      PROVE  StringAt(mem, from, to) \in Name
  <2>1. d \in I
    BY <1>7
  <2>2. sel \in I /\ sel <= d
    BY <1>3, <2>1
  <2>3. ASSUME NEW j \in from..(sel - 1) PROVE mem[j] \in Char \ {Slash}
    <3>1. j \in from..d /\ j \in from..to /\ ~(sel <= j)
      BY <1>0, <2>2
    <3>2. j \notin I
      BY <1>3, <2>1, <3>1
    <3>3. mem[j] # NUL /\ mem[j] # Slash
      BY <1>7, <3>1, <3>2
    <3>4. mem[j] \in Memory
      BY <1>5, ElementOfSeq
    <3>. QED  BY <3>3, <3>4 DEF Memory
  <2>4. SubSeq(mem, from, sel - 1) \in Seq(Char \ {Slash})
    BY <1>0, <1>5, <2>3, SubSeqProperties
  <2>. QED  BY <1>2, <2>4 DEF Name
<1>. QED  BY <1>6, <1>7

(* One character.                                                          *)
Modes == {"lead", "scan", "seps", "done", "error"}

States(mem) == [mode : Modes, entity : 1..Len(mem), names : Seq(Seq(Memory))]

Step(st, mem, i, next) ==
  \/ /\ st.mode = "lead" /\ mem[i] = NUL
     /\ next = [st EXCEPT !.mode = "done", !.entity = i]
  \/ /\ st.mode = "scan" /\ mem[i] = NUL
     /\ next = [st EXCEPT !.mode = "done"]
  \/ /\ st.mode \in {"lead", "scan"} /\ mem[i] = Bell
     /\ next = [st EXCEPT !.mode = "error"]
  \/ /\ st.mode = "scan" /\ mem[i] = Slash
     /\ next = [st EXCEPT !.mode = "seps", !.names = Append(@, NamedUpTo(mem, st.entity, i))]
  \/ /\ st.mode \in {"lead", "seps"} /\ mem[i] # Slash
     /\ st.mode = "lead" => mem[i] # NUL
     /\ next = [st EXCEPT !.mode = "scan", !.entity = i]
  \/ /\ \/ st.mode \in {"lead", "seps"} /\ mem[i] = Slash
        \/ st.mode = "scan" /\ mem[i] \notin {Slash, NUL, Bell}
        \/ st.mode \in {"done", "error"}
     /\ next = st

LEMMA ScannedIs ==
  ASSUME NEW st, NEW mem, NEW i, st.mode \in Modes
  PROVE  Step(st, mem, i, Scanned(st, mem, i))
<1>1. NUL # Bell /\ NUL # Slash /\ Bell # Slash
  BY DEF NUL, Bell, Slash
<1>. QED  BY <1>1, Zenon DEF Scanned, Modes, Step

LEMMA ScannedTyped ==
  ASSUME NEW mem \in Seq(Memory), NEW i \in 1..Len(mem), NEW st \in States(mem)
  PROVE  Scanned(st, mem, i) \in States(mem)
<1>1. PICK next : next = Scanned(st, mem, i)
  OBVIOUS
<1>2. st.mode \in Modes /\ st.entity \in 1..Len(mem) /\ st.names \in Seq(Seq(Memory))
  BY DEF States
<1>3. NamedUpTo(mem, st.entity, i) \in Seq(Memory)
  <2>1. PICK cut : cut = [mem EXCEPT ![i] = NUL]
    OBVIOUS
  <2>2. cut \in Seq(Memory) /\ Len(cut) = Len(mem)
    BY <2>1, ExceptSeq DEF Memory
  <2>3. StringAt(cut, st.entity, i) \in Seq(Memory)
    BY <1>2, <2>2, StringIs
  <2>. QED  BY <2>1, <2>3 DEF NamedUpTo
<1>4. Append(st.names, NamedUpTo(mem, st.entity, i)) \in Seq(Seq(Memory))
  BY <1>2, <1>3, AppendProperties
<1>5. \A md \in Modes, e \in 1..Len(mem), ns \in Seq(Seq(Memory)) :
        /\ [st EXCEPT !.mode = md, !.entity = e] \in States(mem)
        /\ [st EXCEPT !.mode = md] \in States(mem)
        /\ [st EXCEPT !.mode = md, !.names = ns] \in States(mem)
  BY DEF States
<1>6. {"scan", "seps", "done", "error"} \subseteq Modes
  BY DEF Modes
<1>7. next \in States(mem)
  <2>1. PICK ns \in Seq(Seq(Memory)) : ns = Append(st.names, NamedUpTo(mem, st.entity, i))
    BY <1>4
  <2>2. [st EXCEPT !.mode = "seps", !.names = ns] \in States(mem)
    BY <1>5, <1>6
  <2>3. [st EXCEPT !.mode = "seps", !.names = Append(@, NamedUpTo(mem, st.entity, i))] \in States(mem)
    BY <2>1, <2>2
  <2>4. /\ [st EXCEPT !.mode = "done", !.entity = i] \in States(mem)
        /\ [st EXCEPT !.mode = "done"] \in States(mem)
        /\ [st EXCEPT !.mode = "error"] \in States(mem)
        /\ [st EXCEPT !.mode = "scan", !.entity = i] \in States(mem)
    BY <1>5, <1>6
  <2>5. Step(st, mem, i, next)
    BY <1>1, <1>2, ScannedIs
  <2>. QED  BY <2>3, <2>4, <2>5, Zenon DEF Step
<1>. QED  BY <1>1, <1>7

(***************************************************************************)
(* The parser, character by character.                                     *)
(***************************************************************************)
Scans(mem) == [i \in 1..Len(mem) |-> [st \in States(mem) |-> Scanned(st, mem, i)]]

Start == [mode |-> "lead", entity |-> 1, names |-> <<>>]

LEMMA ScanIs ==
  ASSUME NEW mem \in Seq(Memory), mem # <<>>
  PROVE  \E f : Runs(f, Len(mem), States(mem), Start, Scans(mem)) /\ Scan(mem) = f[Len(mem)]
<1>. DEFINE n == Len(mem)
            Body(f) == [i \in 0..n |-> IF i = 0 THEN Start ELSE Scanned(f[i - 1], mem, i)]
            State == CHOOSE f : f = Body(f)
<1>1. n \in Nat /\ Start \in States(mem)
  <2>1. n \in Nat /\ 1 \in 1..n /\ <<>> \in Seq(Seq(Memory)) /\ "lead" \in Modes
    BY EmptySeq DEF Modes
  <2>. QED  BY <2>1 DEF States, Start
<1>2. Scans(mem) \in [1..n -> [States(mem) -> States(mem)]]
  BY ScannedTyped DEF Scans
<1>3. PICK f : Runs(f, n, States(mem), Start, Scans(mem))
  <2>. HIDE DEF n
  <2>. QED  BY <1>1, <1>2, LoopRuns
<1>4. f = Body(f)
  <2>1. \A k \in 1..n : k - 1 \in 0..n /\ f[k-1] \in States(mem)
    BY <1>1, <1>3 DEF Runs
  <2>2. \A k \in 1..n : f[k] = Scans(mem)[k][f[k-1]]
    BY <1>3 DEF Runs
  <2>3. \A k \in 1..n : f[k] = Scanned(f[k-1], mem, k)
    BY <2>1, <2>2 DEF Scans
  <2>. QED  BY <2>1, <2>3, <1>1, <1>3 DEF Runs
<1>5. State = Body(State)
  <2>. HIDE DEF Body
  <2>. QED  BY <1>4
<1>6. State[n] = f[n]
  <2>. HIDE DEF State
  <2>1. State[0] = Start /\ \A k \in 1..n : State[k] = Scanned(State[k-1], mem, k)
    BY <1>5, <1>1
  <2>2. Follows(State, n, States(mem), Start, Scans(mem))
    BY <2>1 DEF Scans, Follows
  <2>3. n \in 0..n
    BY <1>1
  <2>. HIDE DEF n
  <2>. QED  BY <1>1, <1>3, <2>2, <2>3, LoopIsUnique
<1>7. Scan(mem) = State[n]
  BY Zenon DEF Scan, Start
<1>. QED  BY <1>3, <1>6, <1>7

(***************************************************************************)
(* The names found so far have no separator, and the name that is being    *)
(* scanned has none up to here.  A terminator ends the loop unless the     *)
(* loop steps over it; two of them end it.                                 *)
(***************************************************************************)
NoSlash(mem, from, to) == \A j \in from..to : mem[j] # Slash

Parsing(st, mem, i) ==
  /\ st.names \in Seq(Name)
  /\ st.mode = "scan" => st.entity \in 1..i /\ NoSlash(mem, st.entity, i)
  /\ st.mode = "done" => \E d \in st.entity..i : mem[d] = NUL /\ NoSlash(mem, st.entity, d)
  /\ i # 0 /\ mem[i] = NUL => st.mode \notin {"lead", "seps"}
  /\ i > 1 /\ mem[i] = NUL /\ mem[i - 1] = NUL => st.mode \in {"done", "error"}

LEMMA ParsingGoesOn ==
  ASSUME NEW mem \in Seq(Memory), NEW i \in Nat, i + 1 <= Len(mem),
         NEW st \in States(mem), Parsing(st, mem, i)
  PROVE  Parsing(Scanned(st, mem, i + 1), mem, i + 1)
<1>1. PICK next : next = Scanned(st, mem, i + 1)
  OBVIOUS
<1>2. st.mode \in Modes /\ st.entity \in 1..Len(mem) /\ st.names \in Seq(Name) /\ Len(mem) \in Nat
  BY DEF States, Parsing
<1>3. NUL # Bell /\ NUL # Slash /\ Bell # Slash
  BY DEF NUL, Bell, Slash
<1>4. PICK c : c = mem[i + 1]
  OBVIOUS
<1>5. i + 1 \in Nat /\ i + 1 \in 1..Len(mem) /\ i + 1 # 0 /\ (i + 1) - 1 = i
  BY <1>2
<1>6. PICK x \in Nat : x = i + 1
  OBVIOUS
<1>7. next = Scanned(st, mem, x) /\ mem[x] = c
  BY <1>1, <1>4, <1>6
<1>8. i + 1 > 1 => i # 0
  OBVIOUS
<1>9. CASE st.mode = "lead" /\ c = NUL /\ next = [st EXCEPT !.mode = "done", !.entity = i + 1]
  <2>1. next.mode = "done" /\ next.entity = i + 1 /\ next.names = st.names
    BY <1>9 DEF States
  <2>2. mem[i + 1] = NUL /\ NoSlash(mem, i + 1, i + 1) /\ i + 1 \in (i + 1)..(i + 1)
    <3>1. x \in x..x /\ \A j \in x..x : j = x
      BY <1>6
    <3>2. mem[x] = NUL /\ NoSlash(mem, x, x)
      BY <1>3, <1>9, <1>7, <3>1, Zenon DEF NoSlash
    <3>. QED  BY <1>6, <3>1, <3>2
  <2>. QED  BY <1>1, <1>2, <2>1, <2>2 DEF Parsing
<1>10. CASE st.mode = "scan" /\ c = NUL /\ next = [st EXCEPT !.mode = "done"]
  <2>1. next.mode = "done" /\ next.entity = st.entity /\ next.names = st.names
    BY <1>10 DEF States
  <2>2. st.entity \in 1..i /\ NoSlash(mem, st.entity, i)
    BY <1>10 DEF Parsing
  <2>3. mem[i + 1] = NUL /\ NoSlash(mem, st.entity, i + 1) /\ i + 1 \in st.entity..(i + 1)
    <3>1. PICK e \in 1..i : e = st.entity
      BY <2>2
    <3>2. i + 1 \in e..(i + 1) /\ \A j \in e..(i + 1) : j = i + 1 \/ j \in e..i
      BY <1>5
    <3>. QED  BY <1>3, <1>4, <1>10, <2>2, <3>1, <3>2 DEF NoSlash
  <2>. QED  BY <1>1, <1>2, <2>1, <2>3 DEF Parsing
<1>11. CASE st.mode \in {"lead", "scan"} /\ c = Bell /\ next = [st EXCEPT !.mode = "error"]
  <2>1. next.mode = "error" /\ next.names = st.names
    BY <1>11 DEF States
  <2>. QED  BY <1>1, <1>2, <2>1 DEF Parsing
<1>12. CASE /\ st.mode = "scan" /\ c = Slash
            /\ next = [st EXCEPT !.mode = "seps",
                                 !.names = Append(@, NamedUpTo(mem, st.entity, i + 1))]
  <2>1. next.mode = "seps" /\ next.names = Append(st.names, NamedUpTo(mem, st.entity, i + 1))
    BY <1>12 DEF States
  <2>2. st.entity \in 1..i /\ NoSlash(mem, st.entity, i)
    BY <1>12 DEF Parsing
  <2>3. NamedUpTo(mem, st.entity, i + 1) \in Name
    <3>1. PICK cut : cut = [mem EXCEPT ![i + 1] = NUL]
      OBVIOUS
    <3>2. PICK y : y = i + 1
      OBVIOUS
    <3>3. y \in 1..Len(mem) /\ cut = [mem EXCEPT ![y] = NUL] /\ NUL \in Memory
      BY <1>5, <3>1, <3>2 DEF Memory
    <3>4. /\ cut \in Seq(Memory) /\ Len(cut) = Len(mem)
          /\ \A j \in 1..Len(mem) : cut[j] = IF j = y THEN NUL ELSE mem[j]
      BY <3>3, ExceptSeq
    <3>5. PICK e : e = st.entity
      OBVIOUS
    <3>6. e \in 1..Len(mem) /\ y \in e..y /\ \A j \in e..y : j \in 1..Len(mem) /\ (j # y => j \in e..i)
      BY <1>2, <2>2, <3>2, <3>3, <3>5
    <3>7. cut[y] = NUL /\ \A j \in e..y : cut[j] # Slash
      BY <1>3, <2>2, <3>3, <3>4, <3>5, <3>6 DEF NoSlash
    <3>8. StringAt(cut, e, y) \in Name
      BY <3>3, <3>4, <3>6, <3>7, StringIs
    <3>. QED  BY <3>1, <3>2, <3>5, <3>8 DEF NamedUpTo
  <2>4. next.names \in Seq(Name)
    BY <1>2, <2>1, <2>3, AppendProperties
  <2>. QED  BY <1>1, <1>3, <1>4, <1>12, <2>1, <2>4 DEF Parsing
<1>13. CASE /\ st.mode \in {"lead", "seps"} /\ c # Slash
            /\ st.mode = "lead" => c # NUL
            /\ next = [st EXCEPT !.mode = "scan", !.entity = i + 1]
  <2>1. next.mode = "scan" /\ next.entity = i + 1 /\ next.names = st.names
    BY <1>13 DEF States
  <2>2. i + 1 \in 1..(i + 1) /\ NoSlash(mem, i + 1, i + 1)
    BY <1>4, <1>13 DEF NoSlash
  <2>3. i # 0 => mem[i] # NUL
    BY <1>13 DEF Parsing
  <2>. QED  BY <1>1, <1>2, <1>5, <1>8, <2>1, <2>2, <2>3 DEF Parsing
<1>14. CASE /\ \/ st.mode \in {"lead", "seps"} /\ c = Slash
               \/ st.mode = "scan" /\ c \notin {Slash, NUL, Bell}
               \/ st.mode \in {"done", "error"}
            /\ next = st
  <2>1. st.mode = "scan" => st.entity \in 1..(i + 1) /\ NoSlash(mem, st.entity, i + 1)
    BY <1>4, <1>14 DEF Parsing, NoSlash
  <2>2. st.mode = "done" => \E d \in st.entity..(i + 1) : mem[d] = NUL /\ NoSlash(mem, st.entity, d)
    BY <1>2 DEF Parsing
  <2>. QED  BY <1>1, <1>2, <1>3, <1>4, <1>14, <2>1, <2>2 DEF Parsing
<1>15. Step(st, mem, i + 1, next)
  BY <1>1, <1>2, ScannedIs
<1>. QED  BY <1>4, <1>9, <1>10, <1>11, <1>12, <1>13, <1>14, <1>15, Zenon DEF Step

LEMMA ParseIs ==
  ASSUME NEW mem \in Seq(Memory), NEW n \in Nat, n = Len(mem), n >= 2,
         mem[n] = NUL, mem[n - 1] = NUL
  PROVE  Parse(mem) \in Seq(Name)
<1>1. mem # <<>> /\ n \in 0..n /\ n # 0 /\ n > 1
  BY EmptySeq
<1>2. PICK f : Runs(f, n, States(mem), Start, Scans(mem)) /\ Scan(mem) = f[n]
  BY <1>1, ScanIs
<1>. DEFINE T == {k \in 0..n : Parsing(f[k], mem, k)}
<1>3. 0 \in T
  <2>1. f[0] = Start /\ 0 \in 0..n
    BY <1>2 DEF Runs
  <2>2. Parsing(Start, mem, 0)
    BY EmptySeq DEF Parsing, Start
  <2>. QED  BY <2>1, <2>2
<1>4. ASSUME NEW k \in 0..(n - 1), k \in T PROVE k + 1 \in T
  <2>1. k \in Nat /\ k + 1 \in 1..n /\ (k + 1) - 1 = k /\ k \in 0..n /\ k + 1 \in 0..n /\ k + 1 <= Len(mem)
    OBVIOUS
  <2>2. f[k] \in States(mem) /\ f[k + 1] = Scans(mem)[k + 1][f[k]]
    BY <1>2, <2>1 DEF Runs
  <2>3. f[k + 1] = Scanned(f[k], mem, k + 1)
    BY <2>1, <2>2 DEF Scans
  <2>4. Parsing(f[k], mem, k)
    BY <1>4
  <2>5. Parsing(Scanned(f[k], mem, k + 1), mem, k + 1)
    BY <2>1, <2>2, <2>4, ParsingGoesOn
  <2>. QED  BY <2>1, <2>3, <2>5
<1>5. 0..n \subseteq T
  <2>. HIDE DEF T
  <2>. QED  BY <1>3, <1>4, UpTo
<1>6. PICK st \in States(mem) : st = Scan(mem) /\ Parsing(st, mem, n)
  BY <1>1, <1>2, <1>5 DEF Runs
<1>7. st.mode \in {"done", "error"} /\ st.entity \in 1..n /\ st.names \in Seq(Name)
  BY <1>1, <1>6 DEF Parsing, States
<1>8. st.mode = "done" => StringAt(mem, st.entity, n) \in Name
  <2>1. st.mode = "done" =>
          \E d \in st.entity..n : mem[d] = NUL /\ \A j \in st.entity..d : mem[j] # Slash
    BY <1>6 DEF Parsing, NoSlash
  <2>2. n \in 1..n
    BY <1>1
  <2>. QED  BY <1>7, <2>1, <2>2, StringIs
<1>9. st.mode = "done" => Append(st.names, StringAt(mem, st.entity, n)) \in Seq(Name)
  BY <1>7, <1>8, AppendProperties
<1>10. Parse(mem) = IF st.mode = "error" THEN <<>>
                    ELSE IF mem[st.entity] = NUL THEN st.names
                    ELSE Append(st.names, StringAt(mem, st.entity, n))
  BY <1>6 DEF Parse
<1>11. <<>> \in Seq(Name)
  OBVIOUS
<1>. QED  BY <1>7, <1>9, <1>10, <1>11, Zenon

-----------------------------------------------------------------------------
(***************************************************************************)
(* Paths of a command.                                                     *)
(***************************************************************************)
PathType == [absolute : BOOLEAN, names : Seq(Name)]

LEMMA AbsoluteIs ==
  ASSUME NEW p \in PathType, p.absolute = TRUE
  PROVE  p = Path(p.names)
BY DEF PathType, Path

LEMMA PaddedParses ==
  ASSUME NEW line \in Seq(Memory)
  PROVE  Parse(Padded(line)) \in Seq(Name)
<1>1. PICK pad : pad = <<NUL, NUL>>
  OBVIOUS
<1>2. pad \in Seq(Memory) /\ Len(pad) = 2 /\ pad[1] = NUL /\ pad[2] = NUL
  <2>1. NUL \in Memory
    BY DEF Memory
  <2>. QED  BY <1>1, <2>1
<1>3. PICK m \in Nat : m = Len(line)
  BY LenProperties
<1>4. /\ line \o pad \in Seq(Memory) /\ Len(line \o pad) = m + 2
      /\ \A i \in 1..(m + 2) : (line \o pad)[i] = IF i <= m THEN line[i] ELSE pad[i - m]
  <2>1. /\ line \o pad \in Seq(Memory) /\ Len(line \o pad) = Len(line) + Len(pad)
        /\ \A i \in 1..(Len(line) + Len(pad)) :
             (line \o pad)[i] = IF i <= Len(line) THEN line[i] ELSE pad[i - Len(line)]
    BY <1>2, ConcatProperties
  <2>. QED  BY <1>2, <1>3, <2>1
<1>5. PICK mem \in Seq(Memory) : mem = line \o pad
  BY <1>4
<1>6. PICK n \in Nat : n = m + 2
  OBVIOUS
<1>7. n = Len(mem) /\ n >= 2 /\ mem[n] = NUL /\ mem[n - 1] = NUL
  <2>1. n \in 1..n /\ n - 1 \in 1..n /\ ~(n <= m) /\ ~(n - 1 <= m) /\ n - m = 2 /\ (n - 1) - m = 1
    BY <1>6
  <2>. QED  BY <1>2, <1>4, <1>5, <1>6, <2>1
<1>8. Parse(mem) \in Seq(Name)
  BY <1>7, ParseIs
<1>9. Padded(line) = mem
  BY <1>1, <1>5, Zenon DEF Padded
<1>. QED  BY <1>8, <1>9

LEMMA PaddedIs ==
  ASSUME NEW line \in Seq(Memory)
  PROVE  Resolve(Parse(Padded(line))) \in Seq(Name)
BY PaddedParses, ResolveIs

LEMMA MergeIs ==
  ASSUME NEW dest \in PathType, NEW src \in PathType
  PROVE  Merge(dest, src) \in PathType
<1>1. dest.names \o src.names \in Seq(Name)
  BY ConcatProperties DEF PathType
<1>2. Resolve(dest.names \o src.names) \in Seq(Name)
  BY <1>1, ResolveIs
<1>3. [dest EXCEPT !.names = Resolve(dest.names \o src.names)] \in PathType
  BY <1>2 DEF PathType
<1>. QED  BY <1>3, Zenon DEF Merge

LEMMA StoredIs ==
  ASSUME NEW arg \in Seq(Char), args \in Seq(Memory), args # <<>> => Last(args) = NUL
  PROVE  Stored(arg) \in Seq(Memory) /\ Stored(arg) # <<>> /\ Last(Stored(arg)) = NUL
<1>1. PICK line : line = Append(arg, NUL)
  OBVIOUS
<1>2. PICK k \in Nat : k = Len(arg)
  BY LenProperties
<1>3. line \in Seq(Memory) /\ Len(line) = k + 1 /\ line[k + 1] = NUL
  <2>1. Char \subseteq Memory /\ NUL \in Memory
    BY DEF Memory
  <2>2. arg \in Seq(Memory)
    BY <2>1, SeqMonotonic
  <2>. QED  BY <1>1, <1>2, <2>1, <2>2, AppendProperties
<1>4. PICK b \in Nat : b = Len(args)
  BY LenProperties
<1>5. PICK a \in Nat : a = k + 2
  OBVIOUS
<1>6. PICK rest : rest = SubSeq(args, a, b)
  OBVIOUS
<1>7. \A i \in a..b : args[i] \in Memory
  <2>1. \A i \in a..b : i \in 1..Len(args)
    BY <1>4, <1>5
  <2>. QED  BY <2>1, ElementOfSeq
<1>8. /\ rest \in Seq(Memory) /\ Len(rest) = IF a <= b THEN b - a + 1 ELSE 0
      /\ \A i \in 1..(b - a + 1) : rest[i] = args[a + i - 1]
  BY <1>6, <1>7, SubSeqProperties
<1>9. PICK r \in Nat : r = Len(rest)
  BY <1>8, LenProperties
<1>10. /\ line \o rest \in Seq(Memory) /\ Len(line \o rest) = k + 1 + r
       /\ \A i \in 1..(k + 1 + r) :
            (line \o rest)[i] = IF i <= k + 1 THEN line[i] ELSE rest[i - (k + 1)]
  <2>1. /\ line \o rest \in Seq(Memory) /\ Len(line \o rest) = Len(line) + Len(rest)
        /\ \A i \in 1..(Len(line) + Len(rest)) :
             (line \o rest)[i] = IF i <= Len(line) THEN line[i] ELSE rest[i - Len(line)]
    BY <1>3, <1>8, ConcatProperties
  <2>. QED  BY <1>3, <1>8, <1>9, <2>1
<1>11. PICK all \in Seq(Memory) : all = line \o rest
  BY <1>10
<1>12. PICK n \in Nat : n = k + 1 + r
  OBVIOUS
<1>13. Len(all) = n /\ n \in 1..n /\ n # 0 /\ all # <<>>
  <2>1. Len(all) = n /\ n \in 1..n /\ n # 0
    BY <1>10, <1>11, <1>12
  <2>. QED  BY <2>1, EmptySeq
<1>14. all[n] = NUL
  <2>1. CASE a <= b
    <3>1. r = b - a + 1 /\ r \in 1..(b - a + 1) /\ a + r - 1 = b /\ ~(n <= k + 1) /\ n - (k + 1) = r
          /\ b # 0
      BY <1>5, <1>8, <1>9, <1>12, <2>1
    <3>2. all[n] = rest[r]
      BY <1>10, <1>11, <1>12, <1>13, <3>1
    <3>3. rest[r] = args[b]
      BY <1>8, <3>1
    <3>4. args # <<>>
      BY <1>4, <3>1, EmptySeq
    <3>. QED  BY <1>4, <3>2, <3>3, <3>4 DEF Last
  <2>2. CASE ~(a <= b)
    <3>1. r = 0 /\ n = k + 1 /\ n <= k + 1
      BY <1>8, <1>9, <1>12, <2>2
    <3>2. all[n] = line[n]
      BY <1>10, <1>11, <1>12, <1>13, <3>1
    <3>. QED  BY <1>3, <3>1, <3>2
  <2>. QED  BY <2>1, <2>2
<1>15. Stored(arg) = all
  <2>1. Len(line) + 1 = a
    BY <1>3, <1>5
  <2>2. SubSeq(args, Len(line) + 1, Len(args)) = rest
    BY <1>4, <1>6, <2>1
  <2>. QED  BY <1>1, <1>11, <2>2, Zenon DEF Stored
<1>. QED  BY <1>13, <1>14, <1>15 DEF Last

-----------------------------------------------------------------------------
(***************************************************************************)
(* The inductive invariant: the current path is absolute, of names without *)
(* separators; it is a directory with a string; and what the parser may    *)
(* read behind an argument ends with a terminator.                         *)
(***************************************************************************)
PathInv == TypeOK /\ CwdUsable /\ cwd \in PathType

LEMMA RootUsable == IsDirectory(<<>>) /\ ~TooLong(Root)
<1>1. PICK f : Runs(f, Len(<<>>), Seq(Name), <<>>, Keeps(<<>>)) /\ Directory(<<>>) = f[Len(<<>>)]
  BY DirectoryIs, EmptySeq
<1>2. Directory(<<>>) = <<>>
  BY <1>1, EmptySeq DEF Runs
<1>. QED  BY <1>2, TreeAssumption DEF IsDirectory, TooLong, Root

LEMMA PathStarts == Init => PathInv
<1>. SUFFICES ASSUME Init PROVE PathInv
  OBVIOUS
<1>1. cwd \in PathType /\ cwd.absolute = TRUE /\ cwd.names = <<>> /\ cwd.names \in Seq(Name)
  BY DEF Init, Root, PathType
<1>2. args = <<>> /\ args \in Seq(Char \union {NUL}) /\ reply \in {220, 250, 257, 550}
  BY DEF Init
<1>3. IsDirectory(cwd.names) /\ ~TooLong(cwd)
  BY <1>1, RootUsable DEF Init
<1>. QED  BY <1>1, <1>2, <1>3 DEF PathInv, TypeOK, CwdUsable, CwdIsDirectory, CwdHasString

(* A path that vfs_can_chdir() accepts can be used.                        *)
LEMMA ChangedKeeps ==
  ASSUME PathInv, NEW result \in PathType, Changed(result)
  PROVE  /\ cwd' \in PathType /\ cwd'.absolute = TRUE /\ cwd'.names \in Seq(Name)
         /\ CwdUsable' /\ reply' \in {250, 550}
<1>1. CASE CanChdir(result) /\ cwd' = result /\ reply' = 250
  <2>1. result.absolute = TRUE /\ result.names \in Seq(Name)
    BY <1>1 DEF CanChdir, PathType
  <2>2. IsDirectory(result.names) /\ ~TooLong(result)
    <3>1. CASE result.names = <<>>
      BY <3>1, RootUsable DEF TooLong
    <3>2. CASE result.names # <<>>
      BY <1>1, <3>2 DEF CanChdir
    <3>. QED  BY <3>1, <3>2
  <2>. QED  BY <1>1, <2>1, <2>2 DEF CwdUsable, CwdIsDirectory, CwdHasString
<1>2. CASE cwd' = cwd /\ reply' = 550
  BY <1>2 DEF PathInv, TypeOK, CwdUsable, CwdIsDirectory, CwdHasString
<1>3. \/ CanChdir(result) /\ cwd' = result /\ reply' = 250
      \/ cwd' = cwd /\ reply' = 550
  BY Zenon DEF Changed
<1>4. reply' = 250 \/ reply' = 550 => reply' \in {250, 550}
  OBVIOUS
<1>. QED  BY <1>1, <1>2, <1>3, <1>4, Zenon

LEMMA ArgsKept ==
  ASSUME PathInv, NEW arg \in Seq(Char), args' = Stored(arg)
  PROVE  args' \in Seq(Memory) /\ args' # <<>> /\ Last(args') = NUL
BY StoredIs DEF PathInv, TypeOK, Memory

LEMMA CwdKeeps ==
  ASSUME PathInv, NEW arg \in Args, Cwd(arg) \/ CwdNoMemory(arg)
  PROVE  PathInv'
<1>1. arg \in Seq(Char) /\ args' = Stored(arg)
  BY TreeAssumption DEF Cwd, CwdNoMemory
<1>2. args' \in Seq(Memory) /\ args' # <<>> /\ Last(args') = NUL
  BY <1>1, ArgsKept
<1>3. PICK line \in Seq(Memory) : line = args'
  BY <1>2
<1>4. cwd \in PathType
  BY DEF PathInv
<1>5. /\ cwd' \in PathType /\ cwd'.absolute = TRUE /\ cwd'.names \in Seq(Name)
      /\ CwdUsable' /\ reply' \in {250, 550}
  <2>1. CASE UNCHANGED cwd /\ reply' = 550
    BY <2>1 DEF PathInv, TypeOK, CwdUsable, CwdIsDirectory, CwdHasString
  <2>2. CASE Changed(Merge(cwd, NewPath(Padded(args'))))
    <3>1. NewPath(Padded(line)) \in PathType
      <4>1. Resolve(Parse(Padded(line))) \in Seq(Name)
        BY PaddedIs
      <4>2. (Padded(line)[1] = Slash) \in BOOLEAN
        OBVIOUS
      <4>. QED  BY <4>1, <4>2 DEF NewPath, PathType
    <3>2. Merge(cwd, NewPath(Padded(args'))) \in PathType
      BY <1>3, <1>4, <3>1, MergeIs
    <3>. QED  BY <2>2, <3>2, ChangedKeeps
  <2>3. CASE Changed(Merge(cwd, [absolute |-> arg[1] = Slash, names |-> <<>>]))
    <3>1. [absolute |-> arg[1] = Slash, names |-> <<>>] \in PathType
      BY DEF PathType
    <3>2. Merge(cwd, [absolute |-> arg[1] = Slash, names |-> <<>>]) \in PathType
      BY <1>4, <3>1, MergeIs
    <3>. QED  BY <2>3, <3>2, ChangedKeeps
  <2>. QED  BY <2>1, <2>2, <2>3 DEF Cwd, CwdNoMemory
<1>6. reply' \in {220, 250, 257, 550}
  BY <1>5
<1>. QED  BY <1>2, <1>5, <1>6 DEF PathInv, TypeOK, Memory

LEMMA CdupKeeps ==
  ASSUME PathInv, Cdup
  PROVE  PathInv'
<1>1. args' = Stored(<<>>) /\ cwd' = DetachLast(cwd) /\ reply' \in {220, 250, 257, 550}
  BY DEF Cdup
<1>2. args' \in Seq(Memory) /\ args' # <<>> /\ Last(args') = NUL
  BY <1>1, ArgsKept, EmptySeq
<1>3. PICK names \in Seq(Name) : names = cwd.names
  BY DEF PathInv, TypeOK
<1>4. cwd = Path(names) /\ IsDirectory(names) /\ ~TooLong(Path(names))
  <2>1. cwd = Path(names)
    BY <1>3, AbsoluteIs DEF PathInv, TypeOK
  <2>. QED  BY <1>3, <2>1 DEF PathInv, CwdUsable, CwdIsDirectory, CwdHasString
<1>5. /\ cwd' \in PathType /\ cwd'.absolute = TRUE /\ cwd'.names \in Seq(Name)
      /\ IsDirectory(cwd'.names) /\ ~TooLong(cwd')
  <2>1. CASE names = <<>>
    <3>1. cwd' = cwd
      BY <1>1, <1>3, <2>1 DEF DetachLast
    <3>. QED  BY <1>3, <1>4, <3>1 DEF Path, PathType
  <2>2. CASE names # <<>>
    <3>1. PICK up \in Seq(Name) : up = Front(names)
      BY <2>2, FrontIs
    <3>2. cwd' = Path(up)
      <4>1. cwd' = [cwd EXCEPT !.names = up]
        BY <1>1, <1>3, <2>2, <3>1, ZenonT(20) DEF DetachLast
      <4>2. cwd \in PathType /\ cwd.absolute = TRUE
        BY DEF PathInv, TypeOK
      <4>3. cwd' \in PathType /\ cwd'.absolute = TRUE /\ cwd'.names = up
        BY <4>1, <4>2 DEF PathType
      <4>. QED  BY <4>3, AbsoluteIs
    <3>3. IsDirectory(up) /\ ~TooLong(Path(up))
      BY <1>4, <2>2, <3>1, ParentIsDirectory, ParentHasString
    <3>. QED  BY <3>2, <3>3 DEF Path, PathType
  <2>. QED  BY <2>1, <2>2
<1>6. CwdUsable'
  BY <1>5 DEF CwdUsable, CwdIsDirectory, CwdHasString
<1>. QED  BY <1>1, <1>2, <1>5, <1>6 DEF PathInv, TypeOK, Memory

LEMMA PathKept == PathInv /\ [Next]_vars => PathInv'
<1>. SUFFICES ASSUME PathInv, [Next]_vars PROVE PathInv'
  OBVIOUS
<1>1. CASE \E arg \in Args : Cwd(arg) \/ CwdNoMemory(arg)
  BY <1>1, CwdKeeps
<1>2. CASE Cdup
  BY <1>2, CdupKeeps
<1>3. CASE Pwd
  BY <1>3 DEF Pwd, PathInv, TypeOK, CwdUsable, CwdIsDirectory, CwdHasString
<1>4. CASE UNCHANGED vars
  BY <1>4 DEF vars, PathInv, TypeOK, CwdUsable, CwdIsDirectory, CwdHasString
<1>. QED  BY <1>1, <1>2, <1>3, <1>4 DEF Next

LEMMA PathAlways == Spec => []PathInv
BY PathStarts, PathKept, PTL DEF Spec

(***************************************************************************)
(* Whatever the arguments, the parser and what lies behind an argument     *)
(* make of it, the current path stays absolute, of names without a         *)
(* separator, and the memory of the argument ends with a terminator.       *)
(***************************************************************************)
THEOREM PathTyped == Spec => []TypeOK
<1>1. PathInv => TypeOK
  BY DEF PathInv
<1>. QED  BY <1>1, PathAlways, PTL

(***************************************************************************)
(* The current directory exists and has a string that fits PATH_MAX, after *)
(* CDUP, which checks neither, and when malloc() fails inside CWD.         *)
(***************************************************************************)
THEOREM DirectoryUsable == Spec => []CwdUsable
<1>1. PathInv => CwdUsable
  BY DEF PathInv
<1>. QED  BY <1>1, PathAlways, PTL


-----------------------------------------------------------------------------
(***************************************************************************)
(* What the reference definitions pick out of a sequence: the entries v[k] *)
(* for the k in I, in their order, round by round.                         *)
(***************************************************************************)
Picks(g, v, I, n, S) ==
  /\ g \in [0..n -> Seq(S)] /\ g[0] = <<>>
  /\ \A k \in 1..n : g[k] = IF k \in I THEN Append(g[k - 1], v[k]) ELSE g[k - 1]

(* One more entry.                                                         *)
LEMMA PickOn ==
  ASSUME NEW S, NEW v, NEW I, NEW J, NEW n \in Nat, NEW g, Picks(g, v, I, n, S),
         \A i \in 1..n : i \in J <=> i \in I, n + 1 \in J => v[n + 1] \in S
  PROVE  \E h : /\ Picks(h, v, J, n + 1, S)
                /\ h[n + 1] = IF n + 1 \in J THEN Append(g[n], v[n + 1]) ELSE g[n]
<1>. DEFINE new == IF n + 1 \in J THEN Append(g[n], v[n + 1]) ELSE g[n]
            h == [k \in 0..(n + 1) |-> IF k = n + 1 THEN new ELSE g[k]]
<1>1. g \in [0..n -> Seq(S)] /\ g[0] = <<>> /\ n \in 0..n
  BY DEF Picks
<1>2. new \in Seq(S)
  <2>1. g[n] \in Seq(S)
    BY <1>1
  <2>2. n + 1 \in J => Append(g[n], v[n + 1]) \in Seq(S)
    BY <2>1, AppendProperties
  <2>. QED  BY <2>1, <2>2
<1>. HIDE DEF new
<1>3. \A k \in 0..(n + 1) : k # n + 1 => k \in 0..n
  OBVIOUS
<1>4. h \in [0..(n + 1) -> Seq(S)]
  BY <1>1, <1>2, <1>3
<1>5. h[0] = <<>> /\ h[n + 1] = new
  BY <1>1
<1>6. ASSUME NEW k \in 1..(n + 1)
      PROVE  h[k] = IF k \in J THEN Append(h[k - 1], v[k]) ELSE h[k - 1]
  <2>1. k - 1 \in 0..n /\ k - 1 \in 0..(n + 1) /\ k - 1 # n + 1 /\ k \in 0..(n + 1)
    OBVIOUS
  <2>2. h[k - 1] = g[k - 1]
    BY <2>1
  <2>3. CASE k = n + 1
    <3>1. h[k] = new /\ k - 1 = n
      BY <2>3
    <3>. QED  BY <2>2, <2>3, <3>1 DEF new
  <2>4. CASE k # n + 1
    <3>1. k \in 1..n /\ h[k] = g[k]
      BY <2>4
    <3>2. g[k] = IF k \in I THEN Append(g[k - 1], v[k]) ELSE g[k - 1]
      BY <3>1 DEF Picks
    <3>. QED  BY <2>2, <3>1, <3>2
  <2>. QED  BY <2>3, <2>4
<1>. HIDE DEF h
<1>. QED  BY <1>4, <1>5, <1>6 DEF Picks, new

(* Nothing is picked behind the last place in I.                           *)
LEMMA PickRests ==
  ASSUME NEW S, NEW v, NEW I, NEW n \in Nat, NEW g, Picks(g, v, I, n, S),
         NEW m \in 0..n, \A i \in (m + 1)..n : i \notin I
  PROVE  \A j \in m..n : g[j] = g[m]
<1>. DEFINE T == {d \in 0..(n - m) : g[m + d] = g[m]}
<1>1. n - m \in Nat /\ 0 \in T
  OBVIOUS
<1>2. ASSUME NEW d \in 0..((n - m) - 1), d \in T PROVE d + 1 \in T
  <2>1. m + (d + 1) \in 1..n /\ m + (d + 1) \in (m + 1)..n /\ (m + (d + 1)) - 1 = m + d
        /\ d + 1 \in 0..(n - m)
    OBVIOUS
  <2>2. g[m + (d + 1)] = g[m + d]
    BY <2>1 DEF Picks
  <2>. QED  BY <1>2, <2>1, <2>2
<1>3. 0..(n - m) \subseteq T
  <2>. HIDE DEF T
  <2>. QED  BY <1>1, <1>2, UpTo
<1>4. ASSUME NEW j \in m..n PROVE g[j] = g[m]
  <2>1. j - m \in 0..(n - m) /\ m + (j - m) = j
    OBVIOUS
  <2>2. g[m + (j - m)] = g[m]
    BY <1>3, <2>1
  <2>. QED  BY <2>1, <2>2
<1>. QED  BY <1>4

(* The last place taken out of I takes the last entry away.                *)
Topmost(m, I, n) == I \subseteq 1..n /\ m \in I /\ \A i \in I : i <= m
Without(J, I, m) == \A i : i \in J <=> i \in I /\ i # m

LEMMA PickLess ==
  ASSUME NEW S, NEW v, NEW n \in Nat, NEW I, NEW g, Picks(g, v, I, n, S),
         NEW m, Topmost(m, I, n), v[m] \in S, NEW J, Without(J, I, m)
  PROVE  \E h : Picks(h, v, J, n, S) /\ g[n] # <<>> /\ h[n] = Front(g[n])
<1>0. \A i : i \in J <=> i \in I /\ i # m
  BY DEF Without
<1>. DEFINE h == [k \in 0..n |-> IF k < m THEN g[k] ELSE g[m - 1]]
<1>1. m \in I /\ m \in 1..n /\ g \in [0..n -> Seq(S)] /\ g[0] = <<>> /\ m - 1 \in 0..n /\ m \in 0..n
      /\ 0 < m /\ ~(n < m) /\ n \in 0..n /\ n \in m..n
  BY DEF Picks, Topmost
<1>2. g[m] = Append(g[m - 1], v[m]) /\ g[m - 1] \in Seq(S)
  BY <1>1 DEF Picks
<1>3. g[n] = g[m]
  <2>1. PICK x \in 0..n : x = m
    BY <1>1
  <2>2. \A i \in (x + 1)..n : i \notin I
    BY <1>1, <2>1 DEF Topmost
  <2>3. \A j \in x..n : g[j] = g[x]
    BY <2>2, PickRests
  <2>. QED  BY <1>1, <2>1, <2>3
<1>4. Front(g[n]) = g[m - 1] /\ g[n] # <<>>
  BY <1>2, <1>3, FrontOfAppend, AppendProperties
<1>5. h \in [0..n -> Seq(S)] /\ h[0] = <<>> /\ h[n] = g[m - 1]
  BY <1>1, <1>2
<1>6. ASSUME NEW k \in 1..n
      PROVE  h[k] = IF k \in J THEN Append(h[k - 1], v[k]) ELSE h[k - 1]
  <2>1. k - 1 \in 0..n /\ k \in 0..n
    OBVIOUS
  <2>2. CASE k < m
    <3>1. h[k] = g[k] /\ h[k - 1] = g[k - 1] /\ k # m
      BY <1>1, <2>1, <2>2
    <3>2. g[k] = IF k \in I THEN Append(g[k - 1], v[k]) ELSE g[k - 1]
      BY DEF Picks
    <3>. QED  BY <1>0, <3>1, <3>2
  <2>3. CASE k = m
    <3>1. h[k] = g[m - 1] /\ h[k - 1] = g[m - 1] /\ k \notin J
      BY <1>0, <2>1, <2>3
    <3>. QED  BY <3>1
  <2>4. CASE k > m
    <3>1. ~(k <= m) /\ ~(k - 1 < m) /\ ~(k < m) /\ k \notin I
      BY <1>1, <2>4 DEF Topmost
    <3>2. h[k] = g[m - 1] /\ h[k - 1] = g[m - 1] /\ k \notin J
      BY <1>0, <1>1, <2>1, <3>1
    <3>. QED  BY <3>2
  <2>. QED  BY <1>1, <2>2, <2>3, <2>4
<1>. HIDE DEF h
<1>. QED  BY <1>0, <1>4, <1>5, <1>6 DEF Picks

(* Nothing picked is nothing.                                              *)
LEMMA PickNone ==
  ASSUME NEW S, NEW v, NEW I, NEW n \in Nat, NEW g, Picks(g, v, I, n, S),
         \A i \in 1..n : i \notin I
  PROVE  g[n] = <<>>
<1>1. 0 \in 0..n /\ n \in 0..n /\ \A i \in (0 + 1)..n : i \notin I
  OBVIOUS
<1>2. \A j \in 0..n : g[j] = g[0]
  BY <1>1, PickRests
<1>. QED  BY <1>1, <1>2 DEF Picks

(* FlattenSeq of the community modules begins with the first entry.        *)
Valued(v, I, n, S) == \A k \in 1..n : k \in I => v[k] \in S
Entries(v, I, n) == [k \in 1..n |-> IF k \in I THEN <<v[k]>> ELSE <<>>]

LEMMA PickedIs ==
  ASSUME NEW S, NEW n \in Nat, NEW v, NEW I, Valued(v, I, n, S)
  PROVE  \E g : /\ Picks(g, v, I, n, S)
                /\ FlattenSeq(Entries(v, I, n)) = g[n]
<1>. DEFINE seqs == Entries(v, I, n)
            Body(f) == [k \in 1..n |-> IF k = 1 THEN seqs[k] ELSE f[k - 1] \o seqs[k]]
            Flat == CHOOSE f : f = Body(f)
            P == {m \in 0..n : \E g : Picks(g, v, I, m, S)}
<1>1. \A k \in 1..n : seqs[k] = IF k \in I THEN <<v[k]>> ELSE <<>>
  BY DEF Entries
<1>2. Len(seqs) = n
  BY DEF Entries
<1>3. PICK g : Picks(g, v, I, n, S)
  <2>1. 0 \in P
    <3>1. Picks([k \in 0..0 |-> <<>>], v, I, 0, S)
      BY EmptySeq DEF Picks
    <3>. QED  BY <3>1
  <2>2. ASSUME NEW m \in 0..(n - 1), m \in P PROVE m + 1 \in P
    <3>1. PICK g : Picks(g, v, I, m, S)
      BY <2>2
    <3>2. m \in Nat /\ m + 1 \in 1..n /\ m + 1 \in 0..n
      OBVIOUS
    <3>3. \E h : Picks(h, v, I, m + 1, S)
      BY <3>1, <3>2, PickOn DEF Valued
    <3>. QED  BY <3>2, <3>3
  <2>3. 0..n \subseteq P
    <3>. HIDE DEF P
    <3>. QED  BY <2>1, <2>2, UpTo
  <2>4. n \in 0..n
    OBVIOUS
  <2>. QED  BY <2>3, <2>4
<1>. HIDE DEF seqs
<1>4. \A k \in 1..n : k - 1 \in 0..n /\ g[k - 1] \in Seq(S) /\ g[k] = g[k - 1] \o seqs[k]
  <2>. TAKE k \in 1..n
  <2>1. k - 1 \in 0..n /\ g[k - 1] \in Seq(S)
    BY <1>3 DEF Picks
  <2>2. g[k] = IF k \in I THEN Append(g[k - 1], v[k]) ELSE g[k - 1]
    BY <1>3 DEF Picks
  <2>3. g[k - 1] \o <<>> = g[k - 1]
    BY <2>1, ConcatEmptySeq
  <2>4. k \in I => g[k - 1] \o <<v[k]>> = Append(g[k - 1], v[k])
    BY <2>1, AppendIsConcat
  <2>. QED  BY <1>1, <2>1, <2>2, <2>3, <2>4
<1>5. n # 0 => g[1] = seqs[1]
  <2>. SUFFICES ASSUME n # 0 PROVE g[1] = seqs[1]
    OBVIOUS
  <2>1. 1 \in 1..n /\ 1 - 1 = 0 /\ g[0] = <<>>
    BY <1>3 DEF Picks
  <2>2. g[1] = <<>> \o seqs[1]
    BY <1>4, <2>1
  <2>3. seqs[1] \in Seq(S)
    <3>1. CASE 1 \in I
      <4>1. PICK x \in S : x = v[1]
        BY <2>1, <3>1 DEF Valued
      <4>2. seqs[1] = <<x>>
        BY <1>1, <2>1, <3>1, <4>1
      <4>. QED  BY <4>2
    <3>2. CASE 1 \notin I
      <4>1. seqs[1] = <<>>
        BY <1>1, <2>1, <3>2
      <4>. QED  BY <4>1
    <3>. QED  BY <3>1, <3>2
  <2>. QED  BY <2>2, <2>3, ConcatEmptySeq
<1>6. CASE n = 0
  <2>1. FlattenSeq(seqs) = seqs
    BY <1>2, <1>6 DEF FlattenSeq
  <2>2. seqs = <<>>
    BY <1>6 DEF seqs, Entries
  <2>3. g[n] = <<>>
    BY <1>3, <1>6 DEF Picks
  <2>. QED  BY <1>3, <2>1, <2>2, <2>3 DEF seqs
<1>7. CASE n # 0
  <2>1. \E f : f = Body(f)
    <3>. DEFINE f == [k \in 1..n |-> g[k]]
    <3>1. \A k \in 1..n : k # 1 => k - 1 \in 1..n
      OBVIOUS
    <3>2. \A k \in 1..n : f[k] = IF k = 1 THEN seqs[k] ELSE f[k - 1] \o seqs[k]
      BY <1>4, <1>5, <1>7, <3>1
    <3>3. f = Body(f)
      BY <3>2
    <3>. QED  BY <3>3
  <2>2. Flat = Body(Flat)
    <3>. HIDE DEF Body
    <3>. QED  BY <2>1
  <2>3. FlattenSeq(seqs) = Flat[n]
    BY <1>2, <1>7 DEF FlattenSeq
  <2>4. \A k \in 1..n : Flat[k] = IF k = 1 THEN seqs[k] ELSE Flat[k - 1] \o seqs[k]
    <3>. HIDE DEF Flat
    <3>. QED  BY <2>2
  <2>. DEFINE Q == {d \in 0..(n - 1) : Flat[d + 1] = g[d + 1]}
  <2>. HIDE DEF Flat
  <2>5. n - 1 \in Nat /\ 0 \in Q
    <3>1. 1 \in 1..n /\ Flat[1] = seqs[1]
      BY <1>7, <2>4
    <3>. QED  BY <1>5, <1>7, <3>1
  <2>6. ASSUME NEW d \in 0..((n - 1) - 1), d \in Q PROVE d + 1 \in Q
    <3>1. /\ (d + 1) + 1 \in 1..n /\ (d + 1) + 1 # 1 /\ ((d + 1) + 1) - 1 = d + 1
          /\ d + 1 \in 0..(n - 1)
      OBVIOUS
    <3>2. Flat[(d + 1) + 1] = Flat[d + 1] \o seqs[(d + 1) + 1]
      BY <2>4, <3>1
    <3>3. g[(d + 1) + 1] = g[d + 1] \o seqs[(d + 1) + 1]
      BY <1>4, <3>1
    <3>. QED  BY <2>6, <3>1, <3>2, <3>3
  <2>7. 0..(n - 1) \subseteq Q
    <3>. HIDE DEF Q
    <3>. QED  BY <2>5, <2>6, UpTo
  <2>8. n - 1 \in 0..(n - 1) /\ (n - 1) + 1 = n
    BY <1>7
  <2>9. Flat[n] = g[n]
    BY <2>7, <2>8
  <2>. QED  BY <1>3, <2>3, <2>9 DEF seqs
<1>. QED  BY <1>6, <1>7

-----------------------------------------------------------------------------
(***************************************************************************)
(* Counting a name, or leaving it to the rest.                             *)
(***************************************************************************)
LEMMA Greatest ==
  ASSUME NEW n \in Nat, NEW S \in SUBSET (0..n), S # {}
  PROVE  \E m \in S : \A i \in S : i <= m
<1>. DEFINE T == {d \in 0..n : n - d \in S}
<1>1. T \in SUBSET Nat /\ T # {}
  <2>1. PICK i \in S : TRUE
    OBVIOUS
  <2>2. PICK d \in 0..n : n - d = i
    <3>1. i \in 0..n /\ n - i \in 0..n /\ n - (n - i) = i
      OBVIOUS
    <3>. QED  BY <3>1
  <2>3. d \in T
    BY <2>2
  <2>. QED  BY <2>3
<1>2. PICK d \in T : \A y \in T : d <= y
  <2>1. Min(T) \in T /\ \A y \in T : Min(T) <= y
    <3>. HIDE DEF T
    <3>. QED  BY <1>1, MinIsLeast
  <2>. QED  BY <2>1
<1>3. n - d \in S /\ d \in 0..n
  OBVIOUS
<1>4. ASSUME NEW i \in S PROVE i <= n - d
  <2>1. n - i \in 0..n /\ n - (n - i) = i /\ i \in 0..n
    OBVIOUS
  <2>2. d <= n - i
    BY <1>2, <2>1
  <2>. QED  BY <1>3, <2>1, <2>2
<1>. QED  BY <1>3, <1>4

Among(X, from, to) == {i \in from..to : i \in X}

LEMMA CountSplits ==
  ASSUME NEW X, NEW a \in Nat, NEW b \in Nat, a <= b
  PROVE  /\ Cardinality(Among(X, 1, a)) \in Nat /\ Cardinality(Among(X, a + 1, b)) \in Nat
         /\ Cardinality(Among(X, 1, b)) =
              Cardinality(Among(X, 1, a)) + Cardinality(Among(X, a + 1, b))
<1>. DEFINE A == Among(X, 1, a)
            B == Among(X, a + 1, b)
<1>1. IsFiniteSet(1..b)
  BY FS_Interval
<1>2. A \subseteq 1..b /\ B \subseteq 1..b
  BY DEF Among
<1>3. IsFiniteSet(A) /\ IsFiniteSet(B)
  BY <1>1, <1>2, FS_Subset
<1>4. A \cup B = Among(X, 1, b) /\ A \cap B = {}
  BY DEF Among
<1>5. Cardinality(A) \in Nat /\ Cardinality(B) \in Nat
  BY <1>3, FS_CardinalityType
<1>6. Cardinality(A \cup B) = Cardinality(A) + Cardinality(B) - Cardinality(A \cap B)
  <2>. HIDE DEF A, B
  <2>. QED  BY <1>3, FS_Union
<1>7. Cardinality({}) = 0
  BY FS_EmptySet
<1>8. Cardinality(A \cap B) = 0
  BY <1>4, <1>7
<1>9. Cardinality(A \cup B) = Cardinality(Among(X, 1, b))
  BY <1>4
<1>. HIDE DEF A, B
<1>10. Cardinality(Among(X, 1, b)) = Cardinality(A) + Cardinality(B)
  BY <1>5, <1>6, <1>8, <1>9
<1>. QED  BY <1>5, <1>10 DEF A, B

LEMMA CountOne ==
  ASSUME NEW X, NEW k \in Nat
  PROVE  Cardinality(Among(X, k, k)) = IF k \in X THEN 1 ELSE 0
<1>1. k..k = {k}
  OBVIOUS
<1>2. CASE k \in X
  <2>1. Among(X, k, k) = {k}
    BY <1>1, <1>2 DEF Among
  <2>. QED  BY <1>2, <2>1, FS_Singleton
<1>3. CASE k \notin X
  <2>1. Among(X, k, k) = {}
    BY <1>1, <1>3 DEF Among
  <2>. QED  BY <1>3, <2>1, FS_EmptySet
<1>. QED  BY <1>2, <1>3

(* How far the first k names lead down, if no ".." is ignored.             *)
Downs(names)   == {i \in DOMAIN names : Ordinary(names[i])}
Ups(names)     == {i \in DOMAIN names : names[i] = Parent}
Depth(names, k) == Cardinality(Among(Downs(names), 1, k)) - Cardinality(Among(Ups(names), 1, k))

LEMMA DepthIs ==
  ASSUME NEW names \in Seq(Name)
  PROVE  /\ \A k \in 0..Len(names) : Depth(names, k) \in Int
         /\ Depth(names, 0) = 0
         /\ \A k \in 1..Len(names) :
              /\ Ordinary(names[k])  => Depth(names, k) = Depth(names, k - 1) + 1
              /\ names[k] = Parent   => Depth(names, k) = Depth(names, k - 1) - 1
              /\ names[k] # Parent /\ ~Ordinary(names[k]) => Depth(names, k) = Depth(names, k - 1)
         /\ \A a \in 0..Len(names), b \in 0..Len(names) :
              a <= b => (Climbs(names, a + 1, b) <=> Depth(names, b) < Depth(names, a))
<1>. DEFINE n == Len(names)
            D == Downs(names)
            U == Ups(names)
            d(k) == Cardinality(Among(D, 1, k))
            u(k) == Cardinality(Among(U, 1, k))
<1>1. n \in Nat /\ DOMAIN names = 1..n
  BY LenProperties
<1>2. ASSUME NEW a \in 0..n, NEW b \in 0..n, a <= b
      PROVE  /\ d(a) \in Nat /\ d(b) \in Nat /\ Cardinality(Among(D, a + 1, b)) \in Nat
             /\ d(b) = d(a) + Cardinality(Among(D, a + 1, b))
             /\ u(a) \in Nat /\ u(b) \in Nat /\ Cardinality(Among(U, a + 1, b)) \in Nat
             /\ u(b) = u(a) + Cardinality(Among(U, a + 1, b))
  <2>1. a \in Nat /\ b \in Nat /\ b <= b
    BY <1>1
  <2>. HIDE DEF D, U
  <2>. QED  BY <1>2, <2>1, CountSplits
<1>3. \A k \in 0..n : Depth(names, k) = d(k) - u(k) /\ d(k) \in Nat /\ u(k) \in Nat
  <2>1. \A k \in 0..n : k <= k
    BY <1>1
  <2>2. \A k \in 0..n : d(k) \in Nat /\ u(k) \in Nat
    <3>. HIDE DEF D, U
    <3>. QED  BY <1>2, <2>1
  <2>. QED  BY <2>2 DEF Depth
<1>4. Depth(names, 0) = 0
  <2>1. Among(D, 1, 0) = {} /\ Among(U, 1, 0) = {}
    BY DEF Among
  <2>2. Cardinality(Among(D, 1, 0)) = 0 /\ Cardinality(Among(U, 1, 0)) = 0
    BY <2>1, FS_EmptySet
  <2>3. Depth(names, 0) = d(0) - u(0) /\ d(0) = 0 /\ u(0) = 0
    BY <2>2 DEF Depth
  <2>. HIDE DEF d, u
  <2>. QED  BY <2>3
<1>5. ASSUME NEW k \in 1..n
      PROVE  /\ Ordinary(names[k])  => Depth(names, k) = Depth(names, k - 1) + 1
             /\ names[k] = Parent   => Depth(names, k) = Depth(names, k - 1) - 1
             /\ names[k] # Parent /\ ~Ordinary(names[k]) => Depth(names, k) = Depth(names, k - 1)
  <2>1. PICK a \in Nat : a = k - 1
    BY <1>1
  <2>2. a \in 0..n /\ k \in 0..n /\ a <= k /\ a + 1 = k /\ k \in Nat
    BY <1>1, <2>1
  <2>3. /\ d(k) = d(a) + Cardinality(Among(D, k, k)) /\ d(a) \in Nat
        /\ u(k) = u(a) + Cardinality(Among(U, k, k)) /\ u(a) \in Nat
    <3>. HIDE DEF D, U, d, u
    <3>. QED  BY <1>2, <2>2
  <2>4. /\ Cardinality(Among(D, k, k)) = IF k \in D THEN 1 ELSE 0
        /\ Cardinality(Among(U, k, k)) = IF k \in U THEN 1 ELSE 0
    BY <2>2, CountOne
  <2>5. (k \in D <=> Ordinary(names[k])) /\ (k \in U <=> names[k] = Parent)
    BY <1>1 DEF Downs, Ups
  <2>6. Ordinary(names[k]) => names[k] # Parent
    BY DEF Ordinary
  <2>7. Depth(names, k) = d(k) - u(k) /\ Depth(names, k - 1) = d(a) - u(a)
    BY <1>3, <2>1, <2>2
  <2>. HIDE DEF d, u, D, U
  <2>. QED  BY <2>3, <2>4, <2>5, <2>6, <2>7
<1>6. ASSUME NEW a \in 0..n, NEW b \in 0..n, a <= b
      PROVE  Climbs(names, a + 1, b) <=> Depth(names, b) < Depth(names, a)
  <2>1. /\ {i \in (a + 1)..b : names[i] = Parent} = Among(U, a + 1, b)
        /\ {i \in (a + 1)..b : Ordinary(names[i])} = Among(D, a + 1, b)
    <3>1. \A i \in (a + 1)..b : i \in 1..n
      BY <1>1
    <3>. QED  BY <1>1, <3>1 DEF Among, Ups, Downs
  <2>2. Climbs(names, a + 1, b) <=>
          Cardinality(Among(U, a + 1, b)) > Cardinality(Among(D, a + 1, b))
    BY <2>1, Zenon DEF Climbs
  <2>3. /\ d(a) \in Nat /\ Cardinality(Among(D, a + 1, b)) \in Nat
        /\ d(b) = d(a) + Cardinality(Among(D, a + 1, b))
        /\ u(a) \in Nat /\ Cardinality(Among(U, a + 1, b)) \in Nat
        /\ u(b) = u(a) + Cardinality(Among(U, a + 1, b))
    <3>. HIDE DEF d, u, D, U
    <3>. QED  BY <1>2, <1>6
  <2>4. Depth(names, a) = d(a) - u(a) /\ Depth(names, b) = d(b) - u(b)
    <3>. HIDE DEF d, u
    <3>. QED  BY <1>3
  <2>. HIDE DEF d, u, D, U
  <2>. QED  BY <2>2, <2>3, <2>4
<1>. QED  BY <1>3, <1>4, <1>5, <1>6

(* What is on the stack after k names: those that nothing has cancelled.   *)
Upright(names, i, k) ==
  Ordinary(names[i]) /\ \A j \in (i + 1)..k : Depth(names, i) <= Depth(names, j)
Uprights(names, k) == {i \in 1..k : Upright(names, i, k)}

LEMMA UprightStays ==
  ASSUME NEW names \in Seq(Name), NEW k \in 1..Len(names), names[k] # Parent
  PROVE  /\ \A i \in 1..(k - 1) : i \in Uprights(names, k) <=> i \in Uprights(names, k - 1)
         /\ k \in Uprights(names, k) <=> Ordinary(names[k])
<1>. DEFINE n == Len(names)
            d(i) == Depth(names, i)
<1>1. n \in Nat /\ k \in 0..n /\ k - 1 \in 0..n /\ \A i \in 1..k : i \in 0..n
  BY LenProperties
<1>2. (\A i \in 0..n : d(i) \in Int) /\ (d(k) = d(k - 1) + 1 \/ d(k) = d(k - 1))
  BY DepthIs
<1>. HIDE DEF d
<1>3. ASSUME NEW i \in 1..(k - 1)
      PROVE  (\A j \in (i + 1)..k : d(i) <= d(j)) <=> (\A j \in (i + 1)..(k - 1) : d(i) <= d(j))
  <2>1. d(i) \in Int /\ d(k) \in Int /\ d(k - 1) \in Int
    BY <1>1, <1>2
  <2>2. ASSUME \A j \in (i + 1)..(k - 1) : d(i) <= d(j) PROVE d(i) <= d(k)
    <3>1. CASE i = k - 1
      BY <1>2, <2>1, <3>1
    <3>2. CASE i # k - 1
      <4>1. k - 1 \in (i + 1)..(k - 1)
        BY <3>2
      <4>2. d(i) <= d(k - 1)
        BY <2>2, <4>1
      <4>. QED  BY <1>2, <2>1, <4>2
    <3>. QED  BY <3>1, <3>2
  <2>3. \A j \in (i + 1)..k : j = k \/ j \in (i + 1)..(k - 1)
    OBVIOUS
  <2>4. \A j \in (i + 1)..(k - 1) : j \in (i + 1)..k
    OBVIOUS
  <2>. QED  BY <2>2, <2>3, <2>4
<1>4. \A i \in 1..(k - 1) : i \in 1..k
  OBVIOUS
<1>5. k \in 1..k /\ \A j \in (k + 1)..k : FALSE
  OBVIOUS
<1>. QED  BY <1>3, <1>4, <1>5 DEF Uprights, Upright, d

(* ".." cancels the last one.                                              *)
LEMMA UprightFalls ==
  ASSUME NEW names \in Seq(Name), NEW k \in 1..Len(names), names[k] = Parent,
         NEW m \in Uprights(names, k - 1), \A i \in Uprights(names, k - 1) : i <= m
  PROVE  /\ m \in 1..(k - 1) /\ k \notin Uprights(names, k)
         /\ \A i \in 1..(k - 1) : i \in Uprights(names, k) <=> i \in Uprights(names, k - 1) /\ i # m
<1>. DEFINE n == Len(names)
            d(i) == Depth(names, i)
<1>1. n \in Nat /\ k \in 0..n /\ k - 1 \in 0..n /\ (\A i \in 1..k : i \in 0..n) /\ m \in 1..(k - 1)
  BY LenProperties DEF Uprights
<1>2. (\A i \in 0..n : d(i) \in Int) /\ d(k) = d(k - 1) - 1
  <2>1. ~Ordinary(Parent)
    BY DEF Ordinary
  <2>. QED  BY <2>1, DepthIs
<1>3. \A i \in 1..n : Ordinary(names[i]) => d(i) = d(i - 1) + 1
  BY DepthIs
<1>4. \A i \in 1..n : d(i) <= d(i - 1) + 1 /\ (d(i - 1) < d(i) => Ordinary(names[i]))
  <2>1. \A i \in 1..n : i - 1 \in 0..n
    BY <1>1
  <2>2. \A i \in 1..n : names[i] = Parent /\ ~Ordinary(names[i]) => d(i) = d(i - 1) - 1
    BY DepthIs
  <2>3. \A i \in 1..n : names[i] # Parent /\ ~Ordinary(names[i]) => d(i) = d(i - 1)
    BY DepthIs
  <2>. HIDE DEF d
  <2>. QED  BY <1>2, <1>3, <2>1, <2>2, <2>3
<1>. HIDE DEF d
<1>5. Ordinary(names[m]) /\ \A j \in (m + 1)..(k - 1) : d(m) <= d(j)
  BY DEF Uprights, Upright, d
<1>6. d(m) \in Int /\ d(k) \in Int /\ d(k - 1) \in Int /\ m \in 1..n
  BY <1>1, <1>2
<1>7. d(m) <= d(k - 1)
  <2>1. m = k - 1 \/ k - 1 \in (m + 1)..(k - 1)
    BY <1>1
  <2>. QED  BY <1>5, <1>6, <2>1
(* A higher place behind m would leave one upright behind m.               *)
<1>8. d(k - 1) <= d(m)
  <2>1. SUFFICES ASSUME d(m) < d(k - 1) PROVE FALSE
    BY <1>6
  <2>. DEFINE Low == {j \in m..(k - 1) : d(j) <= d(m)}
  <2>2. Low \in SUBSET (0..n) /\ m \in Low
    BY <1>1, <1>6
  <2>3. PICK p \in Low : \A j \in Low : j <= p
    <3>. HIDE DEF Low
    <3>. QED  BY <1>1, <2>2, Greatest
  <2>4. p \in m..(k - 1) /\ d(p) <= d(m) /\ p # k - 1 /\ d(p) \in Int
    BY <1>1, <1>2, <1>6, <2>1, SMTT(30)
  <2>5. PICK q \in 0..n : q = p + 1
    BY <1>1, <2>4
  <2>6. q \in 1..(k - 1) /\ q \in 1..n /\ q - 1 = p /\ m < q /\ q \in m..(k - 1) /\ d(q) \in Int
    BY <1>1, <1>2, <2>4, <2>5
  <2>7. \A j \in q..(k - 1) : d(m) < d(j)
    <3>1. ASSUME NEW j \in q..(k - 1) PROVE d(m) < d(j)
      <4>1. j \in m..(k - 1) /\ ~(j <= p) /\ j \in 0..n
        BY <1>1, <2>4, <2>6
      <4>2. j \notin Low
        BY <2>3, <4>1
      <4>3. d(j) \in Int
        BY <1>2, <4>1
      <4>. QED  BY <1>6, <4>1, <4>2, <4>3
    <3>. QED  BY <3>1
  <2>8. d(p) < d(q) /\ d(q) <= d(m) + 1
    <3>1. q \in q..(k - 1)
      BY <2>6
    <3>2. d(m) < d(q)
      BY <2>7, <3>1
    <3>3. d(q) <= d(p) + 1
      BY <1>4, <2>6
    <3>. QED  BY <1>6, <2>4, <2>6, <3>2, <3>3
  <2>9. Ordinary(names[q])
    BY <1>4, <2>6, <2>8
  <2>10. \A j \in (q + 1)..(k - 1) : d(q) <= d(j)
    <3>1. \A j \in (q + 1)..(k - 1) : j \in q..(k - 1) /\ j \in 0..n
      BY <1>1, <2>6
    <3>. QED  BY <1>2, <1>6, <2>6, <2>7, <2>8, <3>1
  <2>11. q \in Uprights(names, k - 1)
    BY <2>6, <2>9, <2>10 DEF Uprights, Upright, d
  <2>12. q <= m
    BY <2>11
  <2>13. m < q /\ ~(q <= m)
    BY <1>1, <2>6
  <2>. QED  BY <2>12, <2>13
<1>9. d(k) < d(m)
  BY <1>2, <1>6, <1>7, <1>8
<1>10. ASSUME NEW i \in 1..(k - 1)
       PROVE  i \in Uprights(names, k) <=> i \in Uprights(names, k - 1) /\ i # m
  <2>1. d(i) \in Int /\ i \in 1..k
    BY <1>1, <1>2
  <2>2. ASSUME i \in Uprights(names, k) PROVE i \in Uprights(names, k - 1) /\ i # m
    <3>1. Ordinary(names[i]) /\ \A j \in (i + 1)..k : d(i) <= d(j)
      BY <2>2 DEF Uprights, Upright, d
    <3>2. k \in (i + 1)..k /\ \A j \in (i + 1)..(k - 1) : j \in (i + 1)..k
      OBVIOUS
    <3>3. d(i) <= d(k)
      BY <3>1, <3>2
    <3>4. i # m
      BY <1>6, <1>9, <2>1, <3>3
    <3>5. \A j \in (i + 1)..(k - 1) : d(i) <= d(j)
      BY <3>1, <3>2
    <3>. QED  BY <3>1, <3>4, <3>5 DEF Uprights, Upright, d
  <2>3. ASSUME i \in Uprights(names, k - 1), i # m PROVE i \in Uprights(names, k)
    <3>1. Ordinary(names[i]) /\ \A j \in (i + 1)..(k - 1) : d(i) <= d(j)
      BY <2>3 DEF Uprights, Upright, d
    <3>2. i < m
      BY <1>1, <2>3
    <3>3. d(m) = d(m - 1) + 1 /\ d(m - 1) \in Int
      BY <1>1, <1>2, <1>3, <1>5, <1>6
    <3>4. i = m - 1 \/ m - 1 \in (i + 1)..(k - 1)
      BY <1>1, <3>2
    <3>5. d(i) <= d(m - 1)
      BY <2>1, <3>1, <3>3, <3>4
    <3>6. d(i) <= d(k)
      BY <1>2, <1>6, <1>7, <2>1, <3>3, <3>5
    <3>7. \A j \in (i + 1)..k : j = k \/ j \in (i + 1)..(k - 1)
      OBVIOUS
    <3>8. \A j \in (i + 1)..k : d(i) <= d(j)
      BY <3>1, <3>6, <3>7
    <3>. QED  BY <2>1, <3>1, <3>8 DEF Uprights, Upright, d
  <2>. QED  BY <2>2, <2>3
<1>11. k \notin Uprights(names, k)
  <2>1. ~Ordinary(names[k])
    BY DEF Ordinary
  <2>. QED  BY <2>1 DEF Uprights, Upright
<1>. QED  BY <1>1, <1>10, <1>11

LEMMA NoneUpright ==
  ASSUME NEW names \in Seq(Name), NEW k \in 1..Len(names), names[k] = Parent,
         Uprights(names, k - 1) = {}
  PROVE  Uprights(names, k) = {}
<1>1. ASSUME NEW i \in Uprights(names, k) PROVE FALSE
  <2>1. i \in 1..k /\ Ordinary(names[i]) /\ \A j \in (i + 1)..k : Depth(names, i) <= Depth(names, j)
    BY DEF Uprights, Upright
  <2>2. i # k
    BY <2>1 DEF Ordinary
  <2>3. i \in 1..(k - 1) /\ \A j \in (i + 1)..(k - 1) : j \in (i + 1)..k
    BY <2>1, <2>2
  <2>4. i \in Uprights(names, k - 1)
    BY <2>1, <2>3 DEF Uprights, Upright
  <2>. QED  BY <2>4
<1>. QED  BY <1>1

(* Whoever picks the same, has the same.                                   *)
LEMMA PickSame ==
  ASSUME NEW S, NEW v, NEW I, NEW J, NEW n \in Nat, NEW g, NEW h,
         Picks(g, v, I, n, S), Picks(h, v, J, n, S), \A i \in 1..n : i \in I <=> i \in J
  PROVE  g[n] = h[n]
<1>. DEFINE T == {k \in 0..n : g[k] = h[k]}
<1>1. 0 \in T
  BY DEF Picks
<1>2. ASSUME NEW k \in 0..(n - 1), k \in T PROVE k + 1 \in T
  <2>1. k + 1 \in 1..n /\ (k + 1) - 1 = k /\ k + 1 \in 0..n
    OBVIOUS
  <2>2. g[k + 1] = IF k + 1 \in I THEN Append(g[k], v[k + 1]) ELSE g[k]
    BY <2>1 DEF Picks
  <2>3. h[k + 1] = IF k + 1 \in J THEN Append(h[k], v[k + 1]) ELSE h[k]
    BY <2>1 DEF Picks
  <2>. QED  BY <1>2, <2>1, <2>2, <2>3
<1>3. 0..n \subseteq T
  <2>. HIDE DEF T
  <2>. QED  BY <1>1, <1>2, UpTo
<1>4. n \in 0..n
  OBVIOUS
<1>. QED  BY <1>3, <1>4

(***************************************************************************)
(* vfs_path_resolve() leaves the names that the reference leaves.          *)
(***************************************************************************)
OnStack(g, names, k) == Picks(g, names, Uprights(names, k), k, Name)

(* One more name on the stack or not.                                      *)
LEMMA OnStackOn ==
  ASSUME NEW names \in Seq(Name), NEW a \in Nat, a + 1 \in 1..Len(names), NEW I, NEW g,
         Picks(g, names, I, a, Name), \A i \in 1..a : i \in Uprights(names, a + 1) <=> i \in I
  PROVE  \E h : /\ OnStack(h, names, a + 1)
                /\ h[a + 1] = IF a + 1 \in Uprights(names, a + 1) THEN Append(g[a], names[a + 1])
                                                                  ELSE g[a]
<1>1. PICK J : J = Uprights(names, a + 1)
  OBVIOUS
<1>2. PICK v : v = names
  OBVIOUS
<1>3. v[a + 1] \in Name
  BY <1>2, ElementOfSeq
<1>4. Picks(g, v, I, a, Name) /\ (\A i \in 1..a : i \in J <=> i \in I)
      /\ (a + 1 \in J => v[a + 1] \in Name)
  BY <1>1, <1>2, <1>3
<1>5. \E h : /\ Picks(h, v, J, a + 1, Name)
             /\ h[a + 1] = IF a + 1 \in J THEN Append(g[a], v[a + 1]) ELSE g[a]
  BY <1>4, PickOn
<1>. QED  BY <1>1, <1>2, <1>5, Zenon DEF OnStack

LEMMA PushPicks ==
  ASSUME NEW names \in Seq(Name), NEW k \in 1..Len(names), NEW stack, NEW g,
         OnStack(g, names, k - 1), g[k - 1] = stack
  PROVE  \E h : OnStack(h, names, k) /\ h[k] = Pushed(stack, names[k])
<1>. PICK a \in Nat : a = k - 1
  BY LenProperties
<1>1. k = a + 1 /\ k \in 1..Len(names) /\ names[k] \in Name /\ Picks(g, names, Uprights(names, a), a, Name)
  BY ElementOfSeq, LenProperties DEF OnStack
<1>2. Ordinary(names[k]) <=> names[k] # Parent /\ names[k] # Self
  BY DEF Ordinary
<1>3. CASE names[k] # Parent
  <2>1. /\ \A i \in 1..a : i \in Uprights(names, a + 1) <=> i \in Uprights(names, a)
        /\ a + 1 \in Uprights(names, a + 1) <=> Ordinary(names[k])
    <3>1. /\ \A i \in 1..(k - 1) : i \in Uprights(names, k) <=> i \in Uprights(names, k - 1)
          /\ k \in Uprights(names, k) <=> Ordinary(names[k])
      BY <1>3, UprightStays
    <3>. QED  BY <1>1, <3>1
  <2>3. PICK h : /\ OnStack(h, names, a + 1)
                 /\ h[a + 1] = IF a + 1 \in Uprights(names, a + 1) THEN Append(g[a], names[a + 1])
                                                                   ELSE g[a]
    BY <1>1, <2>1, OnStackOn
  <2>4. h[k] = IF Ordinary(names[k]) THEN Append(stack, names[k]) ELSE stack
    BY <1>1, <2>1, <2>3
  <2>5. h[k] = Pushed(stack, names[k])
    BY <1>2, <1>3, <2>4, Zenon DEF Pushed
  <2>. QED  BY <1>1, <2>3, <2>5
<1>4. CASE names[k] = Parent /\ Uprights(names, a) = {}
  <2>1. Uprights(names, a + 1) = {}
    BY <1>1, <1>4, NoneUpright
  <2>2. /\ \A i \in 1..a : i \in Uprights(names, a + 1) <=> i \in Uprights(names, a)
        /\ a + 1 \notin Uprights(names, a + 1) /\ \A i \in 1..a : i \notin Uprights(names, a)
    BY <1>4, <2>1
  <2>3. g[a] = <<>>
    BY <1>1, <2>2, PickNone
  <2>4. PICK h : /\ OnStack(h, names, a + 1)
                 /\ h[a + 1] = IF a + 1 \in Uprights(names, a + 1) THEN Append(g[a], names[a + 1])
                                                                   ELSE g[a]
    BY <1>1, <2>2, OnStackOn
  <2>5. h[k] = <<>> /\ stack = <<>>
    BY <1>1, <2>2, <2>3, <2>4
  <2>6. h[k] = Pushed(stack, names[k])
    BY <1>4, <2>5, Zenon DEF Pushed
  <2>. QED  BY <1>1, <2>4, <2>6
<1>5. CASE names[k] = Parent /\ Uprights(names, a) # {}
  <2>1. PICK m \in Uprights(names, a) : \A i \in Uprights(names, a) : i <= m
    <3>1. Uprights(names, a) \in SUBSET (0..a)
      BY DEF Uprights
    <3>. QED  BY <1>5, <3>1, Greatest
  <2>2. /\ m \in 1..a /\ k \notin Uprights(names, k)
        /\ \A i \in 1..a : i \in Uprights(names, k) <=> i \in Uprights(names, a) /\ i # m
    <3>1. k - 1 = a
      BY <1>1
    <3>2. /\ m \in Uprights(names, k - 1) /\ \A i \in Uprights(names, k - 1) : i <= m
      BY <2>1, <3>1
    <3>3. /\ m \in 1..(k - 1) /\ k \notin Uprights(names, k)
          /\ \A i \in 1..(k - 1) :
               i \in Uprights(names, k) <=> i \in Uprights(names, k - 1) /\ i # m
      BY <1>5, <3>2, UprightFalls
    <3>. QED  BY <3>1, <3>3
  <2>. DEFINE J == Uprights(names, a) \ {m}
  <2>3. PICK h : Picks(h, names, J, a, Name) /\ g[a] # <<>> /\ h[a] = Front(g[a])
    <3>1. names[m] \in Name
      <4>1. m \in 1..Len(names)
        BY <1>1, <2>2
      <4>. QED  BY <4>1, ElementOfSeq
    <3>2. PICK I : I = Uprights(names, a)
      OBVIOUS
    <3>3. PICK v : v = names
      OBVIOUS
    <3>4. Picks(g, v, I, a, Name) /\ v[m] \in Name /\ Topmost(m, I, a) /\ Without(J, I, m)
      BY <1>1, <2>1, <3>1, <3>2, <3>3 DEF Topmost, Without, Uprights
    <3>. HIDE DEF J
    <3>5. \E h : Picks(h, v, J, a, Name) /\ g[a] # <<>> /\ h[a] = Front(g[a])
      BY <3>4, PickLess
    <3>. QED  BY <3>2, <3>3, <3>5, Zenon
  <2>4. /\ \A i \in 1..a : i \in Uprights(names, a + 1) <=> i \in J
        /\ a + 1 \notin Uprights(names, a + 1)
    BY <1>1, <2>2
  <2>. HIDE DEF J
  <2>5. PICK e : /\ OnStack(e, names, a + 1)
                 /\ e[a + 1] = IF a + 1 \in Uprights(names, a + 1) THEN Append(h[a], names[a + 1])
                                                                   ELSE h[a]
    BY <1>1, <2>3, <2>4, OnStackOn
  <2>6. e[k] = Front(stack) /\ stack # <<>>
    BY <1>1, <2>3, <2>4, <2>5
  <2>7. e[k] = Pushed(stack, names[k])
    <3>1. PICK x : x = names[k] /\ x = Parent
      BY <1>5
    <3>2. Parent # Self
      BY DEF Parent, Self
    <3>3. Pushed(stack, x) = Front(stack)
      BY <2>6, <3>1, <3>2, Zenon DEF Pushed
    <3>. QED  BY <2>6, <3>1, <3>3
  <2>. QED  BY <1>1, <2>5, <2>7
<1>. QED  BY <1>3, <1>4, <1>5

LEMMA ResolveMeans ==
  ASSUME NEW names \in Seq(Name)
  PROVE  Resolve(names) = Meaning(names)
<1>. DEFINE n == Len(names)
<1>1. n \in Nat /\ DOMAIN names = 1..n /\ 0 \in 0..n /\ n \in 0..n
  BY LenProperties
<1>2. PICK f : Stacks(f, names) /\ Resolve(names) = f[n]
  BY ResolveRuns
<1>. DEFINE T == {k \in 0..n : \E g : OnStack(g, names, k) /\ g[k] = f[k]}
<1>3. 0 \in T
  <2>. DEFINE g == [k \in 0..0 |-> <<>>]
  <2>1. OnStack(g, names, 0) /\ g[0] = <<>>
    BY EmptySeq DEF OnStack, Picks
  <2>2. f[0] = <<>>
    BY <1>2 DEF Stacks
  <2>. QED  BY <1>1, <2>1, <2>2
<1>4. ASSUME NEW k \in 0..(n - 1), k \in T PROVE k + 1 \in T
  <2>1. PICK j \in 1..n : j = k + 1 /\ j - 1 = k /\ j \in 0..n
    BY <1>1
  <2>2. PICK g : OnStack(g, names, k) /\ g[k] = f[k]
    BY <1>4
  <2>3. OnStack(g, names, j - 1) /\ g[j - 1] = f[k]
    BY <2>1, <2>2
  <2>4. \E h : OnStack(h, names, j) /\ h[j] = Pushed(f[k], names[j])
    BY <2>3, PushPicks
  <2>5. f[j] = Pushed(f[k], names[j])
    BY <1>2, <2>1 DEF Stacks
  <2>. QED  BY <2>1, <2>4, <2>5
<1>5. 0..n \subseteq T
  <2>. HIDE DEF T
  <2>. QED  BY <1>1, <1>3, <1>4, UpTo
<1>6. PICK g : OnStack(g, names, n) /\ g[n] = f[n]
  BY <1>1, <1>5
<1>. DEFINE I == {k \in 1..n : Stays(names, k)}
<1>7. \A k \in 1..n : k \in Uprights(names, n) <=> k \in I
  <2>. TAKE k \in 1..n
  <2>1. k \in 0..n /\ Depth(names, k) \in Int
    BY <1>1, DepthIs
  <2>2. ASSUME NEW j \in (k + 1)..n
        PROVE  ~Climbs(names, k + 1, j) <=> Depth(names, k) <= Depth(names, j)
    <3>1. j \in 0..n /\ k <= j
      BY <1>1
    <3>2. Depth(names, j) \in Int
      BY <3>1, DepthIs
    <3>3. Climbs(names, k + 1, j) <=> Depth(names, j) < Depth(names, k)
      BY <2>1, <3>1, DepthIs
    <3>. QED  BY <2>1, <3>2, <3>3
  <2>. QED  BY <2>2 DEF Uprights, Upright, Stays
<1>8. Valued(names, I, n, Name)
  BY ElementOfSeq DEF Valued
<1>9. PICK h : /\ Picks(h, names, I, n, Name)
               /\ FlattenSeq(Entries(names, I, n)) = h[n]
  <2>1. PICK v : v = names
    OBVIOUS
  <2>2. PICK m \in Nat : m = n
    BY <1>1
  <2>. HIDE DEF I, n
  <2>3. Valued(v, I, m, Name)
    BY <1>8, <2>1, <2>2
  <2>4. \E h : /\ Picks(h, v, I, m, Name)
               /\ FlattenSeq(Entries(v, I, m)) = h[m]
    BY <2>3, PickedIs
  <2>. QED  BY <2>1, <2>2, <2>4, Zenon
<1>10. Entries(names, I, n) = [k \in DOMAIN names |-> IF Stays(names, k) THEN <<names[k]>> ELSE <<>>]
  BY <1>1 DEF Entries
<1>11. Meaning(names) = h[n]
  BY <1>9, <1>10, Zenon DEF Meaning
<1>12. g[n] = h[n]
  <2>. HIDE DEF I
  <2>. QED  BY <1>1, <1>6, <1>7, <1>9, PickSame DEF OnStack
<1>. QED  BY <1>2, <1>6, <1>11, <1>12

-----------------------------------------------------------------------------
(***************************************************************************)
(* Names that are neither "." nor "..", as on every stack.                 *)
(***************************************************************************)
Plain == Name \ {Parent, Self}

LEMMA PushedPlain ==
  ASSUME NEW stack \in Seq(Plain), NEW name \in Name
  PROVE  Pushed(stack, name) \in Seq(Plain)
<1>1. stack # <<>> => Front(stack) \in Seq(Plain)
  BY FrontIs
<1>2. name # Parent /\ name # Self => Append(stack, name) \in Seq(Plain)
  BY AppendProperties DEF Plain
<1>. QED  BY <1>1, <1>2, Zenon DEF Pushed

LEMMA ResolvePlain ==
  ASSUME NEW names \in Seq(Name)
  PROVE  Resolve(names) \in Seq(Plain)
<1>1. PICK f : Stacks(f, names) /\ Resolve(names) = f[Len(names)]
  BY ResolveRuns
<1>. DEFINE n == Len(names)
            T == {k \in 0..n : f[k] \in Seq(Plain)}
<1>2. n \in Nat /\ n \in 0..n
  BY LenProperties
<1>3. 0 \in T
  <2>1. f[0] = <<>> /\ <<>> \in Seq(Plain)
    BY <1>1 DEF Stacks
  <2>2. 0 \in 0..n
    BY <1>2
  <2>. QED  BY <2>1, <2>2, Zenon
<1>4. ASSUME NEW k \in 0..(n - 1), k \in T PROVE k + 1 \in T
  <2>1. k + 1 \in 1..n /\ (k + 1) - 1 = k /\ k + 1 \in 0..n
    BY <1>2
  <2>2. f[k + 1] = Pushed(f[k], names[k + 1])
    BY <1>1, <2>1 DEF Stacks
  <2>3. names[k + 1] \in Name
    BY <2>1, ElementOfSeq
  <2>. QED  BY <1>4, <2>1, <2>2, <2>3, PushedPlain
<1>5. 0..n \subseteq T
  <2>. HIDE DEF T
  <2>. QED  BY <1>2, <1>3, <1>4, UpTo
<1>. QED  BY <1>1, <1>2, <1>5

LEMMA PlainIsName == Seq(Plain) \subseteq Seq(Name)
<1>1. Plain \subseteq Name
  BY DEF Plain
<1>. QED  BY <1>1, SeqMonotonic

(* Plain names at the start all stay.                                      *)
LEMMA PlainStays ==
  ASSUME NEW names \in Seq(Name), NEW f, Stacks(f, names),
         NEW c \in Seq(Plain), Len(c) <= Len(names), \A i \in 1..Len(c) : names[i] = c[i]
  PROVE  f[Len(c)] = c
<1>. DEFINE m == Len(c)
            T == {k \in 0..m : Len(f[k]) = k /\ \A i \in 1..k : f[k][i] = c[i]}
<1>1. m \in Nat /\ m \in 0..m /\ Len(names) \in Nat
  BY LenProperties
<1>2. 0 \in T
  <2>1. f[0] = <<>>
    BY DEF Stacks
  <2>2. Len(<<>>) = 0 /\ \A i \in 1..0 : FALSE
    OBVIOUS
  <2>. QED  BY <1>1, <2>1, <2>2
<1>3. ASSUME NEW k \in 0..(m - 1), k \in T PROVE k + 1 \in T
  <2>1. /\ k + 1 \in 1..m /\ (k + 1) - 1 = k /\ k + 1 \in 0..m /\ k + 1 \in 1..Len(names)
        /\ k \in 0..Len(names)
    BY <1>1
  <2>2. f[k + 1] = Pushed(f[k], names[k + 1]) /\ f[k] \in Seq(Name)
    BY <2>1 DEF Stacks
  <2>3. c[k + 1] \in Plain
    BY <2>1, ElementOfSeq
  <2>4. names[k + 1] = c[k + 1] /\ c[k + 1] \in Name /\ c[k + 1] # Parent /\ c[k + 1] # Self
    BY <2>1, <2>3 DEF Plain
  <2>5. f[k + 1] = Append(f[k], c[k + 1])
    BY <2>2, <2>4, Zenon DEF Pushed
  <2>6. /\ Len(Append(f[k], c[k + 1])) = Len(f[k]) + 1
        /\ \A i \in 1..Len(f[k]) : Append(f[k], c[k + 1])[i] = f[k][i]
        /\ Append(f[k], c[k + 1])[Len(f[k]) + 1] = c[k + 1]
    BY <2>2, <2>4, AppendProperties
  <2>7. Len(f[k]) = k /\ \A i \in 1..k : f[k][i] = c[i]
    BY <1>3
  <2>8. \A i \in 1..(k + 1) : i = k + 1 \/ i \in 1..k
    OBVIOUS
  <2>9. Len(f[k + 1]) = k + 1 /\ \A i \in 1..(k + 1) : f[k + 1][i] = c[i]
    BY <2>5, <2>6, <2>7, <2>8
  <2>. QED  BY <2>1, <2>9
<1>4. 0..m \subseteq T
  <2>. HIDE DEF T
  <2>. QED  BY <1>1, <1>2, <1>3, UpTo
<1>5. Len(f[m]) = m /\ \A i \in 1..m : f[m][i] = c[i]
  BY <1>1, <1>4
<1>6. f[m] \in Seq(Name)
  BY <1>1 DEF Stacks
<1>7. c \in Seq(Name)
  BY PlainIsName
<1>. QED  BY <1>5, <1>6, <1>7, SeqEqual

LEMMA ResolveKeeps ==
  ASSUME NEW c \in Seq(Plain)
  PROVE  Resolve(c) = c
<1>1. c \in Seq(Name) /\ Len(c) \in Nat
  BY PlainIsName, LenProperties
<1>2. PICK f : Stacks(f, c) /\ Resolve(c) = f[Len(c)]
  BY <1>1, ResolveRuns
<1>3. Len(c) <= Len(c) /\ \A i \in 1..Len(c) : c[i] = c[i]
  BY <1>1
<1>. QED  BY <1>1, <1>2, <1>3, PlainStays

(* Where ".." is never ignored the stack is as high as the names lead down.*)
NeverUp(w) == \A j \in 1..Len(w) : 0 <= Depth(w, j)

LEMMA HeightIs ==
  ASSUME NEW w \in Seq(Name), NeverUp(w), NEW f, Stacks(f, w), NEW k \in 0..Len(w)
  PROVE  Len(f[k]) = Depth(w, k)
<1>. DEFINE n == Len(w)
            T == {i \in 0..n : Len(f[i]) = Depth(w, i)}
<1>1. n \in Nat
  BY LenProperties
<1>2. 0 \in T
  <2>1. f[0] = <<>> /\ Depth(w, 0) = 0
    BY DepthIs DEF Stacks
  <2>. QED  BY <1>1, <2>1
<1>3. ASSUME NEW i \in 0..(n - 1), i \in T PROVE i + 1 \in T
  <2>1. i + 1 \in 1..n /\ (i + 1) - 1 = i /\ i + 1 \in 0..n /\ i \in 0..n
    BY <1>1
  <2>2. f[i + 1] = Pushed(f[i], w[i + 1]) /\ f[i] \in Seq(Name) /\ w[i + 1] \in Name
    BY <2>1, ElementOfSeq DEF Stacks
  <2>3. Len(f[i]) = Depth(w, i) /\ Depth(w, i) \in Int /\ Len(f[i]) \in Nat
    BY <1>3, <2>1, <2>2, DepthIs, LenProperties
  <2>4. CASE Ordinary(w[i + 1])
    <3>1. Depth(w, i + 1) = Depth(w, i) + 1
      BY <2>1, <2>4, DepthIs
    <3>2. f[i + 1] = Append(f[i], w[i + 1])
      <4>1. w[i + 1] # Parent /\ w[i + 1] # Self
        BY <2>4 DEF Ordinary
      <4>. QED  BY <2>2, <4>1, Zenon DEF Pushed
    <3>3. Len(f[i + 1]) = Len(f[i]) + 1
      BY <2>2, <3>2, AppendProperties
    <3>. QED  BY <2>1, <2>3, <3>1, <3>3
  <2>5. CASE w[i + 1] = Parent
    <3>1. Depth(w, i + 1) = Depth(w, i) - 1
      BY <2>1, <2>5, DepthIs
    <3>2. 0 <= Depth(w, i + 1)
      BY <2>1 DEF NeverUp
    <3>3. f[i] # <<>>
      <4>1. Len(f[i]) # 0
        BY <2>3, <3>1, <3>2
      <4>. QED  BY <4>1
    <3>4. f[i + 1] = Front(f[i])
      <4>1. Parent # Self
        BY DEF Parent, Self
      <4>. QED  BY <2>2, <2>5, <3>3, <4>1, Zenon DEF Pushed
    <3>5. Len(f[i + 1]) = Len(f[i]) - 1
      BY <2>2, <3>3, <3>4, FrontIs
    <3>. QED  BY <2>1, <2>3, <3>1, <3>5
  <2>6. CASE w[i + 1] # Parent /\ ~Ordinary(w[i + 1])
    <3>1. Depth(w, i + 1) = Depth(w, i)
      BY <2>1, <2>6, DepthIs
    <3>2. w[i + 1] = Self
      BY <2>6 DEF Ordinary
    <3>3. f[i + 1] = f[i]
      BY <2>2, <2>6, <3>2, Zenon DEF Pushed
    <3>. QED  BY <2>1, <2>3, <3>1, <3>3
  <2>. QED  BY <2>4, <2>5, <2>6
<1>4. 0..n \subseteq T
  <2>. HIDE DEF T
  <2>. QED  BY <1>1, <1>2, <1>3, UpTo
<1>. QED  BY <1>4

(* From plain names on, the stack of the rest stands on them.              *)
LEMMA PushedOn ==
  ASSUME NEW c \in Seq(Plain), NEW s \in Seq(Name), NEW x \in Name, x = Parent => s # <<>>
  PROVE  Pushed(c \o s, x) = c \o Pushed(s, x)
<1>1. c \in Seq(Name)
  BY PlainIsName
<1>2. Parent # Self
  BY DEF Parent, Self
<1>3. ASSUME NEW t \in Seq(Name), NEW y \in Name PROVE Append(c \o t, y) = c \o Append(t, y)
  <2>1. <<y>> \in Seq(Name) /\ c \o t \in Seq(Name)
    BY <1>1, ConcatProperties
  <2>2. Append(c \o t, y) = (c \o t) \o <<y>>
    BY <2>1, AppendIsConcat
  <2>3. (c \o t) \o <<y>> = c \o (t \o <<y>>)
    BY <1>1, <2>1, ConcatAssociative
  <2>4. t \o <<y>> = Append(t, y)
    BY AppendIsConcat
  <2>. QED  BY <2>2, <2>3, <2>4
<1>4. CASE x = Parent
  <2>1. PICK t \in Seq(Name), y \in Name : s = Append(t, y)
    BY <1>4, SequenceEmptyOrAppend
  <2>2. c \o t \in Seq(Name)
    BY <1>1, ConcatProperties
  <2>3. Front(s) = t
    BY <2>1, FrontOfAppend
  <2>4. c \o s = Append(c \o t, y)
    BY <1>3, <2>1
  <2>5. Front(c \o s) = c \o t /\ c \o s # <<>>
    <3>1. PICK z \in Seq(Name) : z = c \o t
      BY <2>2
    <3>2. Front(Append(z, y)) = z /\ Append(z, y) # <<>>
      BY FrontOfAppend, AppendProperties
    <3>. QED  BY <2>4, <3>1, <3>2
  <2>6. Pushed(c \o s, x) = Front(c \o s)
    BY <1>2, <1>4, <2>5, Zenon DEF Pushed
  <2>7. Pushed(s, x) = Front(s)
    BY <1>2, <1>4, Zenon DEF Pushed
  <2>. QED  BY <2>3, <2>5, <2>6, <2>7
<1>5. CASE x = Self
  <2>1. Pushed(c \o s, x) = c \o s /\ Pushed(s, x) = s
    BY <1>2, <1>5, Zenon DEF Pushed
  <2>. QED  BY <2>1
<1>6. CASE x # Parent /\ x # Self
  <2>1. Pushed(c \o s, x) = Append(c \o s, x) /\ Pushed(s, x) = Append(s, x)
    BY <1>6, Zenon DEF Pushed
  <2>. QED  BY <1>3, <2>1
<1>. QED  BY <1>4, <1>5, <1>6

LEMMA RelativeResolve ==
  ASSUME NEW c \in Seq(Plain), NEW w \in Seq(Name), NeverUp(w)
  PROVE  Resolve(c \o w) = c \o Resolve(w)
<1>1. PICK a \in Nat : a = Len(c)
  BY LenProperties
<1>2. PICK n \in Nat : n = Len(w)
  BY LenProperties
<1>3. PICK all : all = c \o w
  OBVIOUS
<1>4. /\ all \in Seq(Name) /\ Len(all) = a + n
      /\ \A i \in 1..(a + n) : all[i] = IF i <= a THEN c[i] ELSE w[i - a]
      /\ c \in Seq(Name)
  <2>1. c \in Seq(Name)
    BY PlainIsName
  <2>. QED  BY <1>1, <1>2, <1>3, <2>1, ConcatProperties
<1>5. PICK f : Stacks(f, all) /\ Resolve(all) = f[Len(all)]
  BY <1>4, ResolveRuns
<1>6. PICK h : Stacks(h, w) /\ Resolve(w) = h[n]
  BY <1>2, ResolveRuns
<1>. DEFINE T == {k \in 0..n : f[a + k] = c \o h[k]}
<1>7. 0 \in T
  <2>1. \A i \in 1..a : i \in 1..(a + n) /\ i <= a
    OBVIOUS
  <2>2. Len(c) <= Len(all) /\ \A i \in 1..Len(c) : all[i] = c[i]
    BY <1>1, <1>4, <2>1
  <2>3. f[Len(c)] = c
    BY <1>4, <1>5, <2>2, PlainStays
  <2>4. h[0] = <<>> /\ c \o <<>> = c
    BY <1>6, ConcatEmptySeq DEF Stacks
  <2>5. a + 0 = Len(c) /\ 0 \in 0..n
    BY <1>1
  <2>6. f[a + 0] = c \o h[0]
    BY <2>3, <2>4, <2>5
  <2>. QED  BY <2>5, <2>6
<1>8. ASSUME NEW k \in 0..(n - 1), k \in T PROVE k + 1 \in T
  <2>1. /\ k + 1 \in 1..n /\ (k + 1) - 1 = k /\ k + 1 \in 0..n /\ k \in 0..n
        /\ a + (k + 1) \in 1..(a + n) /\ (a + (k + 1)) - 1 = a + k
        /\ ~(a + (k + 1) <= a) /\ (a + (k + 1)) - a = k + 1
    OBVIOUS
  <2>2. f[a + (k + 1)] = Pushed(f[a + k], w[k + 1])
    <3>1. f[a + (k + 1)] = Pushed(f[(a + (k + 1)) - 1], all[a + (k + 1)])
      BY <1>4, <1>5, <2>1 DEF Stacks
    <3>2. all[a + (k + 1)] = w[k + 1]
      BY <1>4, <2>1
    <3>. QED  BY <2>1, <3>1, <3>2
  <2>3. h[k + 1] = Pushed(h[k], w[k + 1]) /\ h[k] \in Seq(Name) /\ w[k + 1] \in Name
    BY <1>2, <1>6, <2>1, ElementOfSeq DEF Stacks
  <2>4. w[k + 1] = Parent => h[k] # <<>>
    <3>. SUFFICES ASSUME w[k + 1] = Parent, h[k] = <<>> PROVE FALSE
      OBVIOUS
    <3>1. Depth(w, k + 1) = Depth(w, k) - 1
      BY <1>2, <2>1, DepthIs
    <3>2. 0 <= Depth(w, k + 1)
      BY <1>2, <2>1 DEF NeverUp
    <3>3. Len(h[k]) = Depth(w, k)
      BY <1>2, <1>6, <2>1, HeightIs
    <3>4. Len(h[k]) = 0
      OBVIOUS
    <3>. QED  BY <3>1, <3>2, <3>3, <3>4
  <2>5. Pushed(c \o h[k], w[k + 1]) = c \o Pushed(h[k], w[k + 1])
    BY <2>3, <2>4, PushedOn
  <2>6. f[a + k] = c \o h[k]
    BY <1>8
  <2>7. f[a + (k + 1)] = c \o h[k + 1]
    BY <2>2, <2>3, <2>5, <2>6
  <2>. QED  BY <2>1, <2>7
<1>9. 0..n \subseteq T
  <2>. HIDE DEF T
  <2>. QED  BY <1>7, <1>8, UpTo
<1>10. f[a + n] = c \o h[n]
  <2>1. n \in 0..n
    OBVIOUS
  <2>. QED  BY <1>9, <2>1
<1>. QED  BY <1>3, <1>4, <1>5, <1>6, <1>10

(* What vfs_path_merge() makes of two resolved paths.                      *)
LEMMA MergeMeans ==
  ASSUME NEW c \in Seq(Plain), NEW w \in Seq(Name), NeverUp(w)
  PROVE  /\ Resolve(w) # <<>> => Resolve(c \o Resolve(w)) = Meaning(c \o w)
         /\ Resolve(w) = <<>> => c = Meaning(c \o w)
<1>1. PICK r \in Seq(Plain) : r = Resolve(w)
  BY ResolvePlain
<1>2. c \in Seq(Name) /\ c \o w \in Seq(Name) /\ c \o r \in Seq(Plain)
  <2>1. c \in Seq(Name)
    BY PlainIsName
  <2>. QED  BY <2>1, ConcatProperties
<1>3. Meaning(c \o w) = c \o r
  BY <1>1, <1>2, RelativeResolve, ResolveMeans
<1>4. Resolve(c \o r) = c \o r
  BY <1>2, ResolveKeeps
<1>5. c \o <<>> = c
  BY ConcatEmptySeq
<1>. QED  BY <1>1, <1>3, <1>4, <1>5

-----------------------------------------------------------------------------
(***************************************************************************)
(* The parser finds the words.                                             *)
(***************************************************************************)
LEMMA FirstIs ==
  ASSUME NEW I \in SUBSET Nat, NEW z \in I, \A j \in I : z <= j
  PROVE  Min(I) = z
<1>1. Min(I) \in I /\ \A j \in I : Min(I) <= j
  BY MinIsLeast
<1>2. Min(I) \in Nat /\ z \in Nat /\ Min(I) <= z /\ z <= Min(I)
  BY <1>1
<1>. QED  BY <1>2

LEMMA StringEnds ==
  ASSUME NEW mem \in Seq(Memory), NEW from \in 1..Len(mem), NEW to \in 1..Len(mem),
         NEW z \in from..to, mem[z] = NUL, \A j \in from..(z - 1) : mem[j] # NUL
  PROVE  StringAt(mem, from, to) = SubSeq(mem, from, z - 1)
<1>. DEFINE I == {j \in from..to : mem[j] = NUL}
<1>1. I \in SUBSET Nat /\ z \in I /\ z \in Nat
  BY LenProperties
<1>2. \A j \in I : z <= j
  <2>1. \A j \in from..to : j \in from..(z - 1) \/ z <= j
    BY LenProperties
  <2>. QED  BY <2>1
<1>3. Min(I) = z
  <2>. HIDE DEF I
  <2>. QED  BY <1>1, <1>2, FirstIs
<1>4. I # {}
  BY <1>1
<1>5. StringAt(mem, from, to) = SubSeq(mem, from, (IF I # {} THEN Min(I) ELSE 0) - 1)
  BY Zenon DEF StringAt, SelectInSubSeq
<1>. QED  BY <1>3, <1>4, <1>5, Zenon

(* A word ends in front of the next separator.                             *)
LEMMA WordEnds ==
  ASSUME NEW s \in Seq(Char), NEW i \in 1..Len(s), NEW z \in i..(Len(s) + 1),
         z = Len(s) + 1 \/ s[z] = Slash, \A j \in i..(z - 1) : s[j] # Slash
  PROVE  WordEnd(s, i) = z - 1
<1>. PICK t : t = Append(s, Slash)
  OBVIOUS
<1>. PICK n \in Nat : n = Len(s)
  BY LenProperties
<1>0. Slash \in Char
  BY DEF Char
<1>1. Len(t) = n + 1 /\ t[n + 1] = Slash /\ \A j \in 1..n : t[j] = s[j]
  BY <1>0, AppendProperties
<1>. DEFINE I == {j \in i..(n + 1) : t[j] = Slash}
<1>2. t[z] = Slash /\ \A j \in i..(z - 1) : t[j] # Slash
  <2>1. z = n + 1 \/ (z \in 1..n /\ z # n + 1)
    OBVIOUS
  <2>2. \A j \in i..(z - 1) : j \in 1..n
    OBVIOUS
  <2>. QED  BY <1>1, <2>1, <2>2
<1>3. I \in SUBSET Nat /\ z \in I /\ z \in Nat
  BY <1>2
<1>4. \A j \in I : z <= j
  <2>1. \A j \in i..(n + 1) : j \in i..(z - 1) \/ z <= j
    OBVIOUS
  <2>. QED  BY <1>2, <2>1
<1>5. Min(I) = z
  <2>. HIDE DEF I
  <2>. QED  BY <1>3, <1>4, FirstIs
<1>6. I # {}
  BY <1>3
<1>7. WordEnd(s, i) = (IF I # {} THEN Min(I) ELSE 0) - 1
  BY Zenon DEF WordEnd, SelectInSubSeq
<1>. QED  BY <1>5, <1>6, <1>7, Zenon

(* The same piece of two memories.                                         *)
Piece(s, a, b) == SubSeq(s, a, b)
Agree(s, t, a, b) == \A j \in a..b : s[j] = t[j]

LEMMA SamePiece ==
  ASSUME NEW S, NEW s \in Seq(S), NEW t \in Seq(S), NEW a \in Nat, NEW b \in Nat, 1 <= a,
         b <= Len(s), b <= Len(t), Agree(s, t, a, b)
  PROVE  Piece(s, a, b) = Piece(t, a, b)
<1>1. \A j \in a..b : s[j] \in S /\ t[j] \in S
  <2>1. \A j \in a..b : j \in 1..Len(s) /\ j \in 1..Len(t)
    BY LenProperties
  <2>. QED  BY <2>1, ElementOfSeq
<1>2. PICK x : x = SubSeq(s, a, b)
  OBVIOUS
<1>3. PICK y : y = SubSeq(t, a, b)
  OBVIOUS
<1>4. /\ x \in Seq(S) /\ Len(x) = IF a <= b THEN b - a + 1 ELSE 0
      /\ \A i \in 1..(b - a + 1) : x[i] = s[a + i - 1]
  BY <1>1, <1>2, SubSeqProperties
<1>5. /\ y \in Seq(S) /\ Len(y) = IF a <= b THEN b - a + 1 ELSE 0
      /\ \A i \in 1..(b - a + 1) : y[i] = t[a + i - 1]
  BY <1>1, <1>3, SubSeqProperties
<1>6. \A i \in 1..Len(x) : i \in 1..(b - a + 1) /\ a + i - 1 \in a..b
  BY <1>4
<1>7. Len(x) = Len(y) /\ \A i \in 1..Len(x) : x[i] = y[i]
  BY <1>4, <1>5, <1>6 DEF Agree
<1>8. x = y
  BY <1>4, <1>5, <1>7, SeqEqual
<1>. QED  BY <1>2, <1>3, <1>8, Zenon DEF Piece

LEMMA CharIsMemory == Seq(Char) \subseteq Seq(Memory)
<1>1. Char \subseteq Memory
  BY DEF Memory
<1>. QED  BY <1>1, SeqMonotonic

(* The memory begins with this string.                                     *)
Holds(mem, arg) ==
  /\ mem \in Seq(Memory) /\ Len(arg) + 1 <= Len(mem) /\ mem[Len(arg) + 1] = NUL
  /\ \A i \in 1..Len(arg) : mem[i] = arg[i]

WordAt(s, i) == SubSeq(s, i, WordEnd(s, i))

LEMMA WordIs ==
  ASSUME NEW s \in Seq(Char), NEW i \in 1..Len(s)
  PROVE  WordAt(s, i) \in Name
<1>. PICK n \in Nat : n = Len(s)
  BY LenProperties
<1>. DEFINE Ends == {j \in i..(n + 1) : j = n + 1 \/ s[j] = Slash}
<1>1. Ends \in SUBSET Nat /\ n + 1 \in Ends
  OBVIOUS
<1>2. PICK z \in Ends : \A j \in Ends : z <= j
  <2>1. Min(Ends) \in Ends /\ \A j \in Ends : Min(Ends) <= j
    <3>. HIDE DEF Ends
    <3>. QED  BY <1>1, MinIsLeast
  <2>. QED  BY <2>1
<1>3. z \in i..(n + 1) /\ (z = n + 1 \/ s[z] = Slash)
  OBVIOUS
<1>4. \A j \in i..(z - 1) : s[j] # Slash /\ j \in 1..n
  <2>1. \A j \in i..(z - 1) : j \in i..(n + 1) /\ ~(z <= j) /\ j \in 1..n
    BY <1>3
  <2>. QED  BY <1>2, <2>1
<1>5. WordEnd(s, i) = z - 1
  BY <1>3, <1>4, WordEnds
<1>6. \A j \in i..(z - 1) : s[j] \in Char \ {Slash}
  BY <1>4, ElementOfSeq
<1>7. SubSeq(s, i, z - 1) \in Seq(Char \ {Slash})
  BY <1>3, <1>6, SubSeqProperties
<1>. QED  BY <1>5, <1>7 DEF WordAt, Name

(* A name ends where the parser puts a terminator over the separator.      *)
LEMMA NamedIs ==
  ASSUME NEW arg \in Seq(Char), NEW mem, Holds(mem, arg), NEW y \in 1..Len(arg), arg[y] = Slash,
         NEW e \in 1..(y - 1), NoSlash(arg, e, y - 1)
  PROVE  NamedUpTo(mem, e, y) = WordAt(arg, e)
<1>. PICK n \in Nat : n = Len(arg)
  BY LenProperties
<1>0. PICK cut : cut = [mem EXCEPT ![y] = NUL]
  OBVIOUS
<1>1. /\ mem \in Seq(Memory) /\ y \in 1..Len(mem) /\ NUL \in Memory /\ Len(mem) \in Nat
      /\ n <= Len(mem) /\ \A j \in 1..n : mem[j] = arg[j]
  <2>1. mem \in Seq(Memory) /\ n + 1 <= Len(mem) /\ \A j \in 1..n : mem[j] = arg[j]
    BY DEF Holds
  <2>. QED  BY <2>1, LenProperties DEF Memory
<1>2. /\ cut \in Seq(Memory) /\ Len(cut) = Len(mem)
      /\ \A j \in 1..Len(mem) : cut[j] = IF j = y THEN NUL ELSE mem[j]
  BY <1>0, <1>1, ExceptSeq
<1>3. /\ e \in 1..Len(cut) /\ y \in 1..Len(cut) /\ y \in e..y
      /\ \A j \in e..(y - 1) : j \in 1..n /\ j \in 1..Len(mem) /\ j # y
  BY <1>1, <1>2
<1>4. \A j \in e..(y - 1) : cut[j] = arg[j] /\ arg[j] \in Char
  BY <1>1, <1>2, <1>3, ElementOfSeq
<1>5. cut[y] = NUL /\ \A j \in e..(y - 1) : cut[j] # NUL
  <2>1. NUL \notin Char
    BY DEF Char, NUL, Letter, Dot, Slash, Bell
  <2>. QED  BY <1>1, <1>2, <1>4, <2>1
<1>6. StringAt(cut, e, y) = SubSeq(cut, e, y - 1)
  BY <1>2, <1>3, <1>5, StringEnds
<1>7. SubSeq(cut, e, y - 1) = SubSeq(arg, e, y - 1)
  <2>1. PICK b \in Nat : b = y - 1
    OBVIOUS
  <2>2. e \in Nat /\ 1 <= e /\ b <= Len(cut) /\ b <= Len(arg) /\ Agree(cut, arg, e, b)
    BY <1>1, <1>2, <1>4, <2>1 DEF Agree
  <2>3. arg \in Seq(Memory) /\ cut \in Seq(Memory)
    BY <1>2, CharIsMemory
  <2>4. Piece(cut, e, b) = Piece(arg, e, b)
    BY <2>2, <2>3, SamePiece
  <2>. QED  BY <2>1, <2>4, Zenon DEF Piece
<1>8. WordEnd(arg, e) = y - 1
  <2>1. e \in 1..Len(arg) /\ y \in e..(Len(arg) + 1) /\ \A j \in e..(y - 1) : arg[j] # Slash
    BY DEF NoSlash
  <2>. QED  BY <2>1, WordEnds
<1>. QED  BY <1>0, <1>6, <1>7, <1>8 DEF NamedUpTo, WordAt

(* What the parser knows after i characters, and the words so far.         *)
Finding(st, arg, i, words) ==
  \/ /\ st.mode = "lead" /\ st.names = <<>> /\ words = <<>>
     /\ i # 0 => arg[i] = Slash
  \/ /\ st.mode = "scan" /\ st.entity \in WordStarts(arg) /\ st.entity \in 1..i
     /\ NoSlash(arg, st.entity, i) /\ words = Append(st.names, WordAt(arg, st.entity))
  \/ /\ st.mode = "seps" /\ i # 0 /\ arg[i] = Slash /\ words = st.names

LEMMA FindingGoesOn ==
  ASSUME NEW arg \in Seq(Char), Printable(arg), NEW mem, Holds(mem, arg), NEW i \in Nat,
         i + 1 <= Len(arg), NEW st \in States(mem), NEW words, Finding(st, arg, i, words)
  PROVE  Finding(Scanned(st, mem, i + 1), arg, i + 1,
                 IF i + 1 \in WordStarts(arg) THEN Append(words, WordAt(arg, i + 1)) ELSE words)
<1>. PICK n \in Nat : n = Len(arg)
  BY LenProperties
<1>. PICK x \in 1..n : x = i + 1
  OBVIOUS
<1>. PICK next : next = Scanned(st, mem, x)
  OBVIOUS
<1>. PICK c : c = arg[x]
  OBVIOUS
<1>. PICK new : new = IF x \in WordStarts(arg) THEN Append(words, WordAt(arg, x)) ELSE words
  OBVIOUS
<1>1. mem[x] = c /\ c \in Char /\ c # Bell /\ c # NUL /\ DOMAIN arg = 1..n /\ x - 1 = i /\ x # 0
  <2>1. NUL \notin Char
    BY DEF Char, NUL, Letter, Dot, Slash, Bell
  <2>2. c \in Char /\ mem[x] = c /\ DOMAIN arg = 1..n
    BY ElementOfSeq, LenProperties DEF Holds
  <2>. QED  BY <2>1, <2>2 DEF Printable
<1>2. x \in WordStarts(arg) <=> c # Slash /\ (i = 0 \/ arg[i] = Slash)
  <2>1. x = 1 <=> i = 0
    OBVIOUS
  <2>. QED  BY <1>1, <2>1 DEF WordStarts
<1>3. Step(st, mem, x, next)
  <2>1. st.mode \in Modes
    BY DEF States
  <2>. QED  BY <2>1, ScannedIs
<1>4. NUL # Bell /\ NUL # Slash /\ Bell # Slash
  BY DEF NUL, Bell, Slash
<1>5. CASE st.mode = "lead" /\ st.names = <<>> /\ words = <<>> /\ (i # 0 => arg[i] = Slash)
  <2>1. CASE c = Slash
    <3>1. next = st /\ new = words
      BY <1>1, <1>2, <1>3, <1>4, <1>5, <2>1 DEF Step
    <3>. QED  BY <1>1, <1>5, <2>1, <3>1 DEF Finding
  <2>2. CASE c # Slash
    <3>1. next = [st EXCEPT !.mode = "scan", !.entity = x]
      BY <1>1, <1>3, <1>5, <2>2 DEF Step
    <3>2. next.mode = "scan" /\ next.entity = x /\ next.names = st.names
      BY <3>1 DEF States
    <3>3. x \in WordStarts(arg) /\ new = Append(words, WordAt(arg, x))
      BY <1>2, <1>5, <2>2
    <3>4. x \in 1..x /\ NoSlash(arg, x, x)
      BY <2>2 DEF NoSlash
    <3>5. Finding(next, arg, x, new)
      BY <1>5, <3>2, <3>3, <3>4 DEF Finding
    <3>. QED  BY <3>5
  <2>. QED  BY <2>1, <2>2
<1>6. CASE /\ st.mode = "scan" /\ st.entity \in WordStarts(arg) /\ st.entity \in 1..i
           /\ NoSlash(arg, st.entity, i) /\ words = Append(st.names, WordAt(arg, st.entity))
  <2>0. arg[i] # Slash /\ i # 0
    <3>1. i \in (st.entity)..i /\ i # 0
      BY <1>6
    <3>. QED  BY <1>6, <3>1 DEF NoSlash
  <2>1. new = words
    BY <1>2, <2>0
  <2>2. CASE c = Slash
    <3>1. next = [st EXCEPT !.mode = "seps", !.names = Append(@, NamedUpTo(mem, st.entity, x))]
      BY <1>1, <1>3, <1>4, <1>6, <2>2 DEF Step
    <3>2. next.mode = "seps" /\ next.names = Append(st.names, NamedUpTo(mem, st.entity, x))
      BY <3>1 DEF States
    <3>3. NamedUpTo(mem, st.entity, x) = WordAt(arg, st.entity)
      <4>1. PICK e \in 1..(x - 1) : e = st.entity
        BY <1>1, <1>6
      <4>2. NoSlash(arg, e, x - 1) /\ arg[x] = Slash /\ x \in 1..Len(arg)
        BY <1>1, <1>6, <2>2, <4>1
      <4>3. NamedUpTo(mem, e, x) = WordAt(arg, e)
        BY <4>2, NamedIs
      <4>. QED  BY <4>1, <4>3
    <3>4. Finding(next, arg, x, new)
      BY <1>1, <1>6, <2>1, <2>2, <3>2, <3>3 DEF Finding
    <3>. QED  BY <3>4
  <2>3. CASE c # Slash
    <3>1. next = st
      BY <1>1, <1>3, <1>6, <2>3 DEF Step
    <3>2. st.entity \in 1..x /\ NoSlash(arg, st.entity, x)
      <4>1. PICK e \in 1..i : e = st.entity
        BY <1>6
      <4>2. e \in 1..x /\ \A j \in e..x : j = x \/ j \in e..i
        OBVIOUS
      <4>3. NoSlash(arg, e, x)
        BY <1>6, <2>3, <4>1, <4>2 DEF NoSlash
      <4>. QED  BY <4>1, <4>2, <4>3
    <3>3. Finding(next, arg, x, new)
      BY <1>6, <2>1, <3>1, <3>2 DEF Finding
    <3>. QED  BY <3>3
  <2>. QED  BY <2>2, <2>3
<1>7. CASE st.mode = "seps" /\ i # 0 /\ arg[i] = Slash /\ words = st.names
  <2>1. CASE c = Slash
    <3>1. next = st /\ new = words
      BY <1>1, <1>2, <1>3, <1>7, <2>1 DEF Step
    <3>2. Finding(next, arg, x, new)
      BY <1>1, <1>7, <2>1, <3>1 DEF Finding
    <3>. QED  BY <3>2
  <2>2. CASE c # Slash
    <3>1. next = [st EXCEPT !.mode = "scan", !.entity = x]
      BY <1>1, <1>3, <1>7, <2>2 DEF Step
    <3>2. next.mode = "scan" /\ next.entity = x /\ next.names = st.names
      BY <3>1 DEF States
    <3>3. x \in WordStarts(arg) /\ new = Append(words, WordAt(arg, x))
      BY <1>2, <1>7, <2>2
    <3>4. x \in 1..x /\ NoSlash(arg, x, x)
      BY <2>2 DEF NoSlash
    <3>5. Finding(next, arg, x, new)
      BY <1>7, <3>2, <3>3, <3>4 DEF Finding
    <3>. QED  BY <3>5
  <2>. QED  BY <2>1, <2>2
<1>. QED  BY <1>5, <1>6, <1>7 DEF Finding

LEMMA WordsAre ==
  ASSUME NEW arg \in Seq(Char)
  PROVE  \E g : /\ Picks(g, [i \in 1..Len(arg) |-> WordAt(arg, i)], WordStarts(arg), Len(arg), Name)
                /\ Words(arg) = g[Len(arg)] /\ Words(arg) \in Seq(Name)
<1>. PICK n \in Nat : n = Len(arg)
  BY LenProperties
<1>a. PICK v : v = [i \in 1..n |-> WordAt(arg, i)]
  OBVIOUS
<1>b. PICK I : I = WordStarts(arg)
  OBVIOUS
<1>1. \A i \in 1..n : v[i] = WordAt(arg, i) /\ v[i] \in Name
  BY <1>a, WordIs
<1>2. Valued(v, I, n, Name)
  BY <1>1 DEF Valued
<1>3. PICK g : Picks(g, v, I, n, Name) /\ FlattenSeq(Entries(v, I, n)) = g[n]
  BY <1>2, PickedIs
<1>4. Entries(v, I, n)
        = [i \in DOMAIN arg |->
             IF i \in WordStarts(arg) THEN <<SubSeq(arg, i, WordEnd(arg, i))>> ELSE <<>>]
  <2>1. DOMAIN arg = 1..n
    BY LenProperties
  <2>2. \A i \in 1..n : v[i] = SubSeq(arg, i, WordEnd(arg, i))
    BY <1>1 DEF WordAt
  <2>. QED  BY <1>b, <2>1, <2>2 DEF Entries
<1>5. Words(arg) = g[n]
  BY <1>3, <1>4, Zenon DEF Words
<1>6. g[n] \in Seq(Name)
  <2>1. n \in 0..n
    OBVIOUS
  <2>. QED  BY <1>3, <2>1 DEF Picks
<1>. QED  BY <1>a, <1>b, <1>3, <1>5, <1>6

(***************************************************************************)
(* vfs_pathent_parse() finds the words of a tidy argument, whatever lies   *)
(* behind its terminator.                                                  *)
(***************************************************************************)
LEMMA ParseMeans ==
  ASSUME NEW arg \in Seq(Char), Tidy(arg), NEW mem, Holds(mem, arg)
  PROVE  Parse(mem) = Words(arg)
<1>. PICK n \in Nat : n = Len(arg)
  BY LenProperties
<1>1. /\ n # 0 /\ Printable(arg) /\ arg[n] # Slash
      /\ mem \in Seq(Memory) /\ mem # <<>> /\ n + 1 <= Len(mem) /\ Len(mem) \in Nat
      /\ mem[n + 1] = NUL /\ \A i \in 1..n : mem[i] = arg[i]
  <2>1. mem \in Seq(Memory) /\ n + 1 <= Len(mem) /\ mem[n + 1] = NUL /\ \A i \in 1..n : mem[i] = arg[i]
    BY DEF Holds
  <2>2. Len(mem) \in Nat /\ Len(mem) # 0
    BY <2>1, LenProperties
  <2>3. mem # <<>>
    BY <2>2
  <2>4. n # 0
    BY EmptySeq DEF Tidy
  <2>. QED  BY <2>1, <2>2, <2>3, <2>4 DEF Tidy, Last
<1>. PICK len \in Nat : len = Len(mem)
  BY <1>1
<1>2. PICK f : Runs(f, len, States(mem), Start, Scans(mem)) /\ Scan(mem) = f[len]
  BY <1>1, ScanIs
<1>3. ASSUME NEW k \in 1..len
      PROVE  f[k] = Scanned(f[k - 1], mem, k) /\ f[k - 1] \in States(mem)
  <2>1. k - 1 \in 0..len
    OBVIOUS
  <2>2. f[k - 1] \in States(mem) /\ f[k] = Scans(mem)[k][f[k - 1]]
    BY <1>2, <2>1 DEF Runs
  <2>. QED  BY <2>2 DEF Scans
<1>4. PICK g : /\ Picks(g, [i \in 1..n |-> WordAt(arg, i)], WordStarts(arg), n, Name)
               /\ Words(arg) = g[n]
  BY WordsAre
<1>5. Finding(f[n], arg, n, g[n])
  <2>. DEFINE T == {k \in 0..n : Finding(f[k], arg, k, g[k])}
  <2>1. 0 \in T
    <3>1. f[0] = Start /\ g[0] = <<>>
      BY <1>2, <1>4 DEF Runs, Picks
    <3>2. Finding(f[0], arg, 0, g[0])
      BY <3>1 DEF Finding, Start
    <3>. QED  BY <3>2
  <2>2. ASSUME NEW k \in 0..(n - 1), k \in T PROVE k + 1 \in T
    <3>1. /\ k \in Nat /\ k + 1 \in 1..n /\ k + 1 \in 1..len /\ (k + 1) - 1 = k /\ k + 1 \in 0..n
          /\ k + 1 <= Len(arg)
      BY <1>1
    <3>2. f[k + 1] = Scanned(f[k], mem, k + 1) /\ f[k] \in States(mem)
      BY <1>3, <3>1
    <3>3. g[k + 1] = IF k + 1 \in WordStarts(arg) THEN Append(g[k], WordAt(arg, k + 1)) ELSE g[k]
      BY <1>4, <3>1 DEF Picks
    <3>4. Finding(f[k], arg, k, g[k])
      BY <2>2
    <3>5. Finding(Scanned(f[k], mem, k + 1), arg, k + 1,
                  IF k + 1 \in WordStarts(arg) THEN Append(g[k], WordAt(arg, k + 1)) ELSE g[k])
      BY <1>1, <3>1, <3>2, <3>4, FindingGoesOn
    <3>. QED  BY <3>1, <3>2, <3>3, <3>5
  <2>3. 0..n \subseteq T
    <3>. HIDE DEF T
    <3>. QED  BY <2>1, <2>2, UpTo
  <2>4. n \in 0..n
    OBVIOUS
  <2>. QED  BY <2>3, <2>4
<1>6. /\ f[n].mode = "scan" /\ f[n].entity \in 1..n /\ NoSlash(arg, f[n].entity, n)
      /\ Words(arg) = Append(f[n].names, WordAt(arg, f[n].entity))
  BY <1>1, <1>4, <1>5 DEF Finding
<1>. PICK e \in 1..n : e = f[n].entity
  BY <1>6
<1>. PICK names : names = f[n].names
  OBVIOUS
(* The terminator ends the loop.                                           *)
<1>7. f[len].mode = "done" /\ f[len].entity = e /\ f[len].names = names
  <2>. DEFINE T == {d \in 0..(len - (n + 1)) :
                      /\ f[(n + 1) + d].mode = "done" /\ f[(n + 1) + d].entity = e
                      /\ f[(n + 1) + d].names = names}
  <2>1. len - (n + 1) \in Nat /\ (n + 1) + (len - (n + 1)) = len
    BY <1>1
  <2>2. 0 \in T
    <3>1. n + 1 \in 1..len /\ (n + 1) - 1 = n /\ (n + 1) + 0 = n + 1
      BY <1>1
    <3>2. f[n + 1] = Scanned(f[n], mem, n + 1) /\ f[n] \in States(mem)
      BY <1>3, <3>1
    <3>3. Step(f[n], mem, n + 1, f[n + 1])
      BY <3>2, ScannedIs DEF States
    <3>4. NUL # Bell /\ NUL # Slash
      BY DEF NUL, Bell, Slash
    <3>5. f[n + 1] = [f[n] EXCEPT !.mode = "done"]
      BY <1>1, <1>6, <3>3, <3>4 DEF Step
    <3>6. f[n + 1].mode = "done" /\ f[n + 1].entity = e /\ f[n + 1].names = names
      BY <3>2, <3>5 DEF States
    <3>. QED  BY <2>1, <3>1, <3>6
  <2>3. ASSUME NEW d \in 0..((len - (n + 1)) - 1), d \in T PROVE d + 1 \in T
    <3>1. /\ (n + 1) + (d + 1) \in 1..len /\ ((n + 1) + (d + 1)) - 1 = (n + 1) + d
          /\ d + 1 \in 0..(len - (n + 1))
      BY <2>1
    <3>. PICK k : k = (n + 1) + d
      OBVIOUS
    <3>. PICK x \in 1..len : x = (n + 1) + (d + 1)
      BY <3>1
    <3>2. x - 1 = k
      BY <3>1
    <3>3. f[x] = Scanned(f[k], mem, x) /\ f[k] \in States(mem)
      BY <1>3, <3>2
    <3>4. Step(f[k], mem, x, f[x])
      BY <3>3, ScannedIs DEF States
    <3>5. f[k].mode = "done" /\ f[k].entity = e /\ f[k].names = names
      BY <2>3
    <3>6. f[x] = f[k]
      BY <3>4, <3>5 DEF Step
    <3>. QED  BY <3>1, <3>5, <3>6
  <2>4. 0..(len - (n + 1)) \subseteq T
    <3>. HIDE DEF T
    <3>. QED  BY <2>1, <2>2, <2>3, UpTo
  <2>5. len - (n + 1) \in T
    <3>1. len - (n + 1) \in 0..(len - (n + 1))
      BY <2>1
    <3>. HIDE DEF T
    <3>. QED  BY <2>4, <3>1
  <2>. QED  BY <2>1, <2>5
<1>8. mem[e] = arg[e] /\ arg[e] \in Char /\ \A j \in e..n : mem[j] # NUL
  <2>1. NUL \notin Char
    BY DEF Char, NUL, Letter, Dot, Slash, Bell
  <2>2. \A j \in 1..n : arg[j] \in Char /\ mem[j] = arg[j]
    BY <1>1, ElementOfSeq
  <2>3. \A j \in e..n : j \in 1..n
    OBVIOUS
  <2>. QED  BY <2>1, <2>2, <2>3
<1>9. Parse(mem) = Append(names, StringAt(mem, e, len))
  <2>1. mem[e] # NUL
    BY <1>8
  <2>. QED  BY <1>2, <1>7, <2>1 DEF Parse
<1>10. StringAt(mem, e, len) = SubSeq(mem, e, n)
  <2>1. PICK z \in Nat : z = n + 1
    OBVIOUS
  <2>2. /\ e \in 1..Len(mem) /\ len \in 1..Len(mem) /\ z \in e..len /\ mem[z] = NUL
        /\ \A j \in e..(z - 1) : mem[j] # NUL
    BY <1>1, <1>8, <2>1
  <2>3. StringAt(mem, e, len) = SubSeq(mem, e, z - 1)
    BY <1>1, <2>2, StringEnds, ZenonT(30)
  <2>4. z - 1 = n
    BY <2>1
  <2>. QED  BY <2>3, <2>4
<1>11. SubSeq(mem, e, n) = SubSeq(arg, e, n)
  <2>1. e \in Nat /\ 1 <= e /\ n <= Len(mem) /\ n <= Len(arg) /\ Agree(mem, arg, e, n)
    BY <1>1 DEF Agree
  <2>2. mem \in Seq(Memory) /\ arg \in Seq(Memory)
    BY <1>1, CharIsMemory
  <2>3. Piece(mem, e, n) = Piece(arg, e, n)
    BY <2>1, <2>2, SamePiece
  <2>. QED  BY <2>3, Zenon DEF Piece
<1>12. WordAt(arg, e) = SubSeq(arg, e, n)
  <2>1. PICK z \in Nat : z = n + 1
    OBVIOUS
  <2>2. /\ e \in 1..Len(arg) /\ z \in e..(Len(arg) + 1) /\ z = Len(arg) + 1
        /\ \A j \in e..(z - 1) : arg[j] # Slash
    BY <1>6, <2>1 DEF NoSlash
  <2>3. WordEnd(arg, e) = z - 1
    BY <2>2, WordEnds
  <2>4. z - 1 = n
    BY <2>1
  <2>. QED  BY <2>3, <2>4 DEF WordAt
<1>. QED  BY <1>6, <1>9, <1>10, <1>11, <1>12

-----------------------------------------------------------------------------
(***************************************************************************)
(* What CWD makes of its argument.                                         *)
(***************************************************************************)
LEMMA ArgumentIs ==
  ASSUME NEW mem \in Seq(Memory), mem # <<>>, Last(mem) = NUL
  PROVE  Argument(mem) \in Seq(Char)
<1>. PICK n \in Nat : n = Len(mem)
  BY LenProperties
<1>. DEFINE I == {j \in 1..n : mem[j] = NUL}
<1>1. I \in SUBSET Nat /\ n \in I
  <2>1. n # 0
    BY EmptySeq
  <2>2. n \in 1..n /\ mem[n] = NUL
    BY <2>1 DEF Last
  <2>. QED  BY <2>2
<1>2. PICK z \in I : \A j \in I : z <= j
  <2>1. Min(I) \in I /\ \A j \in I : Min(I) <= j
    <3>. HIDE DEF I
    <3>. QED  BY <1>1, MinIsLeast
  <2>. QED  BY <2>1
<1>3. z \in 1..n /\ mem[z] = NUL
  OBVIOUS
<1>4. \A j \in 1..(z - 1) : j \in 1..n /\ mem[j] # NUL
  <2>1. \A j \in 1..(z - 1) : j \in 1..n /\ ~(z <= j)
    BY <1>3
  <2>. QED  BY <1>2, <2>1
<1>5. StringAt(mem, 1, n) = SubSeq(mem, 1, z - 1)
  <2>1. 1 \in 1..Len(mem) /\ n \in 1..Len(mem)
    BY <1>3
  <2>. HIDE DEF I
  <2>. QED  BY <1>3, <1>4, <2>1, StringEnds
<1>6. \A j \in 1..(z - 1) : mem[j] \in Char
  <2>1. \A j \in 1..(z - 1) : mem[j] \in Memory
    BY <1>4, ElementOfSeq
  <2>. QED  BY <1>4, <2>1 DEF Memory
<1>7. SubSeq(mem, 1, z - 1) \in Seq(Char)
  BY <1>3, <1>6, SubSeqProperties
<1>. QED  BY <1>5, <1>7 DEF Argument

LEMMA PaddedHolds ==
  ASSUME NEW arg \in Seq(Char), args \in Seq(Memory)
  PROVE  Holds(Padded(Stored(arg)), arg)
<1>. PICK n \in Nat : n = Len(arg)
  BY LenProperties
<1>1. PICK line : line = Append(arg, NUL)
  OBVIOUS
<1>2. /\ line \in Seq(Memory) /\ Len(line) = n + 1 /\ line[n + 1] = NUL
      /\ \A i \in 1..n : line[i] = arg[i]
  <2>1. arg \in Seq(Memory) /\ NUL \in Memory
    BY CharIsMemory DEF Memory
  <2>. QED  BY <1>1, <2>1, AppendProperties
<1>3. PICK rest : rest = SubSeq(args, Len(line) + 1, Len(args))
  OBVIOUS
<1>4. rest \in Seq(Memory)
  <2>1. PICK a \in Nat, b \in Nat : a = Len(line) + 1 /\ b = Len(args)
    BY <1>2, LenProperties
  <2>2. \A i \in a..b : i \in 1..Len(args)
    BY <1>2, <2>1
  <2>3. \A i \in a..b : args[i] \in Memory
    BY <2>2, ElementOfSeq
  <2>4. SubSeq(args, a, b) \in Seq(Memory)
    BY <2>3, SubSeqProperties
  <2>. QED  BY <1>3, <2>1, <2>4
<1>5. PICK pad \in Seq(Memory) : pad = <<NUL, NUL>>
  <2>1. NUL \in Memory
    BY DEF Memory
  <2>2. <<NUL, NUL>> \in Seq(Memory)
    BY <2>1
  <2>. QED  BY <2>2
<1>6. Padded(Stored(arg)) = (line \o rest) \o pad
  BY <1>1, <1>3, <1>5, Zenon DEF Padded, Stored
<1>7. PICK tail : tail = rest \o pad
  OBVIOUS
<1>8. tail \in Seq(Memory) /\ (line \o rest) \o pad = line \o tail
  BY <1>2, <1>4, <1>5, <1>7, ConcatAssociative, ConcatProperties, SMTT(30)
<1>9. PICK mem : mem = line \o tail
  OBVIOUS
<1>10. /\ mem \in Seq(Memory) /\ Len(mem) = (n + 1) + Len(tail) /\ Len(tail) \in Nat
       /\ \A i \in 1..((n + 1) + Len(tail)) : mem[i] = IF i <= n + 1 THEN line[i] ELSE tail[i - (n + 1)]
  BY <1>2, <1>8, <1>9, ConcatProperties, LenProperties
<1>11. \A i \in 1..(n + 1) : mem[i] = line[i]
  <2>1. \A i \in 1..(n + 1) : i \in 1..((n + 1) + Len(tail)) /\ i <= n + 1
    BY <1>10
  <2>. QED  BY <1>10, <2>1
<1>12. Holds(mem, arg)
  BY <1>2, <1>10, <1>11 DEF Holds
<1>. QED  BY <1>6, <1>8, <1>9, <1>12

(* In the current path there are only plain names.                         *)
PlainInv == PathInv /\ cwd.names \in Seq(Plain)

LEMMA MergePlain ==
  ASSUME NEW dest \in PathType, NEW src \in PathType,
         dest.names \in Seq(Plain), src.names \in Seq(Plain)
  PROVE  Merge(dest, src).names \in Seq(Plain)
<1>1. dest.names \o src.names \in Seq(Name)
  BY ConcatProperties DEF PathType
<1>2. PICK r \in Seq(Plain) : r = Resolve(dest.names \o src.names)
  BY <1>1, ResolvePlain
<1>3. [dest EXCEPT !.names = r].names = r
  BY DEF PathType
<1>4. [dest EXCEPT !.names = Resolve(dest.names \o src.names)].names \in Seq(Plain)
  BY <1>2, <1>3
<1>. QED  BY <1>4, Zenon DEF Merge

LEMMA NewPathIs ==
  ASSUME NEW arg \in Seq(Char), args \in Seq(Memory), args # <<>> => Last(args) = NUL
  PROVE  /\ NewPath(Padded(Stored(arg))) \in PathType
         /\ NewPath(Padded(Stored(arg))).names = Resolve(Parse(Padded(Stored(arg))))
         /\ NewPath(Padded(Stored(arg))).names \in Seq(Plain)
         /\ Parse(Padded(Stored(arg))) \in Seq(Name)
<1>1. PICK line \in Seq(Memory) : line = Stored(arg)
  BY StoredIs
<1>2. Parse(Padded(line)) \in Seq(Name)
  BY PaddedParses
<1>3. Resolve(Parse(Padded(line))) \in Seq(Plain)
  BY <1>2, ResolvePlain
<1>4. Resolve(Parse(Padded(line))) \in Seq(Name)
  BY <1>3, PlainIsName
<1>5. (Padded(line)[1] = Slash) \in BOOLEAN
  OBVIOUS
<1>. QED  BY <1>1, <1>2, <1>3, <1>4, <1>5 DEF NewPath, PathType

LEMMA PlainKept ==
  ASSUME PlainInv, [Next]_vars
  PROVE  cwd'.names \in Seq(Plain)
<1>1. cwd \in PathType /\ cwd.names \in Seq(Plain) /\ cwd.absolute = TRUE
      /\ args \in Seq(Memory) /\ (args # <<>> => Last(args) = NUL)
  BY DEF PlainInv, PathInv, TypeOK, Memory
<1>2. ASSUME NEW result, result.names \in Seq(Plain), Changed(result)
      PROVE  cwd'.names \in Seq(Plain)
  <2>1. cwd' = result \/ cwd' = cwd
    BY <1>2, Zenon DEF Changed
  <2>. QED  BY <1>1, <1>2, <2>1
<1>3. ASSUME NEW arg \in Args, Cwd(arg) PROVE cwd'.names \in Seq(Plain)
  <2>1. arg \in Seq(Char) /\ args' = Stored(arg)
    BY <1>3, TreeAssumption DEF Cwd
  <2>2. Merge(cwd, NewPath(Padded(Stored(arg)))).names \in Seq(Plain)
    BY <1>1, <2>1, NewPathIs, MergePlain
  <2>3. CASE UNCHANGED cwd
    BY <1>1, <2>3
  <2>4. CASE Changed(Merge(cwd, NewPath(Padded(args'))))
    BY <1>2, <2>1, <2>2, <2>4
  <2>. QED  BY <1>3, <2>3, <2>4 DEF Cwd
<1>4. ASSUME NEW arg \in Args, CwdNoMemory(arg) PROVE cwd'.names \in Seq(Plain)
  <2>1. PICK src : src = [absolute |-> arg[1] = Slash, names |-> <<>>]
    OBVIOUS
  <2>2. src \in PathType /\ src.names \in Seq(Plain)
    BY <2>1 DEF PathType
  <2>3. Merge(cwd, src).names \in Seq(Plain)
    BY <1>1, <2>2, MergePlain
  <2>4. CASE UNCHANGED cwd
    BY <1>1, <2>4
  <2>5. CASE Changed(Merge(cwd, [absolute |-> arg[1] = Slash, names |-> <<>>]))
    BY <1>2, <2>1, <2>3, <2>5
  <2>. QED  BY <1>4, <2>4, <2>5 DEF CwdNoMemory
<1>5. CASE Cdup
  <2>1. cwd.names # <<>> => Front(cwd.names) \in Seq(Plain)
    BY <1>1, FrontIs
  <2>2. cwd.names # <<>> => [cwd EXCEPT !.names = Front(@)].names = Front(cwd.names)
    BY <1>1 DEF PathType
  <2>3. cwd' = DetachLast(cwd)
    BY <1>5 DEF Cdup
  <2>. QED  BY <1>1, <2>1, <2>2, <2>3, Zenon DEF DetachLast
<1>6. CASE Pwd
  BY <1>1, <1>6 DEF Pwd
<1>7. CASE UNCHANGED vars
  BY <1>1, <1>7 DEF vars
<1>. QED  BY <1>3, <1>4, <1>5, <1>6, <1>7 DEF Next

(* One CWD with a tidy argument.                                           *)
LEMMA CwdReaches ==
  ASSUME PlainInv, NEW arg \in Seq(Char), Tidy(arg), StaysBelow(arg), Cwd(arg)
  PROVE  IF Reachable(Target(arg)) THEN cwd'.names = Target(arg) /\ reply' = 250
                                   ELSE cwd' = cwd /\ reply' = 550
<1>1. /\ cwd \in PathType /\ cwd.names \in Seq(Plain) /\ cwd.absolute = TRUE
      /\ args \in Seq(Memory) /\ (args # <<>> => Last(args) = NUL)
  BY DEF PlainInv, PathInv, TypeOK, Memory
<1>2. PICK mem : mem = Padded(Stored(arg))
  OBVIOUS
<1>3. PICK w : w = Words(arg)
  OBVIOUS
<1>4. Holds(mem, arg) /\ Parse(mem) = w /\ w \in Seq(Name)
  <2>1. Holds(mem, arg)
    BY <1>1, <1>2, PaddedHolds
  <2>2. Parse(mem) = w
    BY <1>3, <2>1, ParseMeans
  <2>3. w \in Seq(Name)
    BY <1>3, WordsAre
  <2>. QED  BY <2>1, <2>2, <2>3
<1>5. mem[1] = arg[1]
  <2>1. Len(arg) \in Nat /\ Len(arg) # 0
    BY EmptySeq, LenProperties DEF Tidy
  <2>2. 1 \in 1..Len(arg)
    BY <2>1
  <2>. QED  BY <1>4, <2>2 DEF Holds
<1>6. PICK src : src = NewPath(mem)
  OBVIOUS
<1>7. src \in PathType /\ src.names = Resolve(w) /\ (src.absolute <=> arg[1] = Slash)
  <2>1. src \in PathType /\ src.names = Resolve(Parse(mem))
    BY <1>1, <1>2, <1>6, NewPathIs
  <2>2. src.absolute = (mem[1] = Slash)
    BY <1>6 DEF NewPath
  <2>. QED  BY <1>4, <1>5, <2>1, <2>2
<1>8. PICK result : result = Merge(cwd, src)
  OBVIOUS
<1>9. Changed(result)
  BY <1>2, <1>6, <1>8, Zenon DEF Cwd, Tidy
<1>10. result \in PathType /\ result.absolute = TRUE /\ result.names = Target(arg)
  <2>1. result \in PathType
    BY <1>1, <1>7, <1>8, MergeIs
  <2>2. CASE arg[1] = Slash
    <3>1. result = src
      BY <1>7, <1>8, <2>2, Zenon DEF Merge
    <3>2. Target(arg) = Meaning(w)
      BY <1>3, <2>2, Zenon DEF Target
    <3>3. result.absolute = TRUE
      BY <1>7, <2>2, <3>1 DEF PathType
    <3>. QED  BY <1>4, <1>7, <2>1, <3>1, <3>2, <3>3, ResolveMeans
  <2>3. CASE arg[1] # Slash
    <3>1. PICK c \in Seq(Plain) : c = cwd.names
      BY <1>1
    <3>2. Target(arg) = Meaning(c \o w)
      BY <1>3, <2>3, <3>1, Zenon DEF Target
    <3>3. NeverUp(w)
      <4>1. \A j \in 1..Len(w) : ~Climbs(w, 1, j)
        <5>1. DOMAIN w = 1..Len(w)
          BY <1>4, LenProperties
        <5>. QED  BY <1>3, <2>3, <5>1 DEF StaysBelow
      <4>. SUFFICES ASSUME NEW j \in 1..Len(w) PROVE 0 <= Depth(w, j)
        BY DEF NeverUp
      <4>2. 0 \in 0..Len(w) /\ j \in 0..Len(w) /\ 0 <= j /\ 0 + 1 = 1
        BY <1>4, LenProperties
      <4>3. Climbs(w, 0 + 1, j) <=> Depth(w, j) < Depth(w, 0)
        BY <1>4, <4>2, DepthIs
      <4>4. Depth(w, 0) = 0 /\ Depth(w, j) \in Int
        BY <1>4, <4>2, DepthIs
      <4>. QED  BY <4>1, <4>2, <4>3, <4>4
    <3>4. /\ Resolve(w) # <<>> => Resolve(c \o Resolve(w)) = Meaning(c \o w)
          /\ Resolve(w) = <<>> => c = Meaning(c \o w)
      BY <1>4, <3>3, MergeMeans
    <3>5. ~src.absolute
      BY <1>7, <2>3
    <3>6. CASE Resolve(w) = <<>>
      <4>1. result = cwd
        BY <1>7, <1>8, <3>5, <3>6, Zenon DEF Merge
      <4>. QED  BY <1>1, <2>1, <3>1, <3>2, <3>4, <3>6, <4>1
    <3>7. CASE Resolve(w) # <<>>
      <4>1. PICK r : r = Resolve(c \o Resolve(w))
        OBVIOUS
      <4>2. result = [cwd EXCEPT !.names = r]
        <5>1. result = [cwd EXCEPT !.names = Resolve(cwd.names \o src.names)]
          BY <1>7, <1>8, <3>5, <3>7, Zenon DEF Merge
        <5>. QED  BY <1>7, <3>1, <4>1, <5>1, Zenon
      <4>3. result.names = r /\ result.absolute = TRUE
        BY <1>1, <4>2 DEF PathType
      <4>. QED  BY <2>1, <3>2, <3>4, <3>7, <4>1, <4>3
    <3>. QED  BY <3>6, <3>7
  <2>. QED  BY <2>2, <2>3
<1>11. CanChdir(result) <=> Reachable(Target(arg))
  <2>1. result = Path(result.names)
    BY <1>10, AbsoluteIs
  <2>2. CASE result.names = <<>>
    <3>1. CanChdir(result)
      BY <1>10, <2>2 DEF CanChdir
    <3>2. Path(<<>>) = Root
      BY DEF Path, Root
    <3>3. Reachable(<<>>)
      BY <3>2, RootUsable DEF Reachable, Path
    <3>. QED  BY <1>10, <2>2, <3>1, <3>3
  <2>3. CASE result.names # <<>>
    <3>1. CanChdir(result) <=> ~TooLong(result) /\ IsDirectory(result.names)
      BY <1>10, <2>3 DEF CanChdir
    <3>2. Reachable(result.names) <=> IsDirectory(result.names) /\ ~TooLong(Path(result.names))
      BY DEF Reachable, Path
    <3>. QED  BY <1>10, <2>1, <3>1, <3>2
  <2>. QED  BY <2>2, <2>3
<1>12. IF CanChdir(result) THEN cwd' = result /\ reply' = 250 ELSE cwd' = cwd /\ reply' = 550
  BY <1>9, Zenon DEF Changed
<1>. QED  BY <1>10, <1>11, <1>12

LEMMA StepUnderstood == PlainInv /\ PathInv' /\ [Next]_vars => [Understood]_vars
<1>. SUFFICES ASSUME PlainInv, PathInv' PROVE Understood
  OBVIOUS
<1>1. PICK arg : arg = Argument(args')
  OBVIOUS
<1>2. ASSUME Tidy(arg), StaysBelow(arg), Cwd(arg)
      PROVE  IF Reachable(Target(arg)) THEN cwd'.names = Target(arg) /\ reply' = 250
                                       ELSE cwd' = cwd /\ reply' = 550
  <2>1. args' \in Seq(Memory) /\ (args' # <<>> => Last(args') = NUL)
    BY DEF PathInv, TypeOK, Memory
  <2>2. args' # <<>>
    <3>. SUFFICES ASSUME args' = <<>> PROVE FALSE
      OBVIOUS
    <3>1. arg = StringAt(<<>>, 1, 0)
      BY <1>1 DEF Argument
    <3>2. StringAt(<<>>, 1, 0) = SubSeq(<<>>, 1, -1)
      <4>1. {i \in 1..0 : <<>>[i] = NUL} = {}
        OBVIOUS
      <4>2. StringAt(<<>>, 1, 0) =
              SubSeq(<<>>, 1, (IF {i \in 1..0 : <<>>[i] = NUL} # {}
                               THEN Min({i \in 1..0 : <<>>[i] = NUL}) ELSE 0) - 1)
        BY Zenon DEF StringAt, SelectInSubSeq
      <4>3. 0 - 1 = -1
        OBVIOUS
      <4>. QED  BY <4>1, <4>2, <4>3
    <3>3. SubSeq(<<>>, 1, -1) = <<>>
      BY SubSeqEmpty
    <3>. QED  BY <1>2, <3>1, <3>2, <3>3 DEF Tidy
  <2>3. arg \in Seq(Char)
    <3>1. PICK mem \in Seq(Memory) : mem = args'
      BY <2>1
    <3>2. Argument(mem) \in Seq(Char)
      BY <2>1, <2>2, <3>1, ArgumentIs
    <3>. QED  BY <1>1, <3>1, <3>2
  <2>. QED  BY <1>2, <2>3, CwdReaches
<1>. QED  BY <1>1, <1>2, Zenon DEF Understood

(***************************************************************************)
(* CWD does what its argument says: whatever is left behind the argument   *)
(* in the buffer, the names that the parser finds are its words, what the  *)
(* stack leaves of them is what "." and ".." mean, and vfs_path_merge()    *)
(* leads to the directory meant, or everything stays as it is.             *)
(***************************************************************************)
THEOREM TargetReached == Spec => CwdMeansTarget
<1>1. Init => PlainInv
  <2>1. Init => cwd.names = <<>>
    BY DEF Init, Root
  <2>2. <<>> \in Seq(Plain)
    OBVIOUS
  <2>. QED  BY <2>1, <2>2, PathStarts DEF PlainInv
<1>2. PlainInv /\ [Next]_vars => PlainInv'
  BY PathKept, PlainKept DEF PlainInv
<1>3. PlainInv' => PathInv'
  BY DEF PlainInv
<1>. QED  BY <1>1, <1>2, <1>3, StepUnderstood, PTL DEF Spec, CwdMeansTarget
=============================================================================
