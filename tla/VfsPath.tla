------------------------------ MODULE VfsPath ------------------------------
(***************************************************************************)
(* The current directory of a client: src/src/vfs/vfs_pathent.c,           *)
(* vfs_path.c and the commands CWD, CDUP and PWD.                          *)
(*                                                                         *)
(* Characters count here, for the parser looks at each of them: "/", ".",  *)
(* one letter that stands for all printable ones, and one character that   *)
(* is not printable.  Blanks are left out: get_mnemonic() skips those in   *)
(* front of an argument, and inside it they are letters.  A name is a      *)
(* sequence of characters, a path a sequence of names and whether it is    *)
(* absolute.                                                               *)
(*                                                                         *)
(* The argument of a command is a string inside the `line' array of the    *)
(* input buffer, which iobuffer_next_line() overwrites line by line and    *)
(* never clears: behind the terminator of a short line is what is left of  *)
(* a longer one.                                                           *)
(***************************************************************************)
EXTENDS Integers, Sequences, SequencesExt

CONSTANTS
  Dirs,      (* the directories of the file system, as sequences of names  *)
  PathMax,   (* PATH_MAX                                                   *)
  Args       (* bound: the arguments of CWD                                *)

Letter == "a"
Dot    == "."
Slash  == "/"
Bell   == "bell"
NUL    == "nul"
Char   == {Letter, Dot, Slash, Bell}

Name   == Seq(Char \ {Slash})
Parent == <<Dot, Dot>>
Self   == <<Dot>>
Root   == [absolute |-> TRUE, names |-> <<>>]

(* The root is a directory, and so is the parent of a directory.           *)
ASSUME TreeAssumption ==
  /\ <<>> \in Dirs
  /\ \A d \in Dirs : d # <<>> => Front(d) \in Dirs
  /\ PathMax \in Nat /\ Args \subseteq Seq(Char)

-----------------------------------------------------------------------------
(* The C string that starts at mem[from] and ends at the first NUL, or in  *)
(* front of mem[to] where the parser has put one.                          *)
StringAt(mem, from, to) ==
  SubSeq(mem, from, SelectInSubSeq(mem, from, to, LAMBDA c : c = NUL) - 1)

NamedUpTo(mem, from, i) == StringAt([mem EXCEPT ![i] = NUL], from, i)

(***************************************************************************)
(* vfs_pathent_parse(): what it does with the character mem[i].  "lead" is *)
(* skip_separator(), "scan" the for loop, "seps" its inner while.  The     *)
(* while leaves i at the first character of the next name, and the i++ of  *)
(* the for loop steps over it unseen: over the terminator, too.            *)
(***************************************************************************)
Scanned(st, mem, i) ==
  CASE st.mode = "lead" /\ mem[i] = NUL -> [st EXCEPT !.mode = "done", !.entity = i]
    [] st.mode = "scan" /\ mem[i] = NUL -> [st EXCEPT !.mode = "done"]
    [] st.mode \in {"lead", "scan"} /\ mem[i] = Bell -> [st EXCEPT !.mode = "error"]
    [] st.mode = "scan" /\ mem[i] = Slash ->
         [st EXCEPT !.mode = "seps", !.names = Append(@, NamedUpTo(mem, st.entity, i))]
    [] \/ st.mode = "lead" /\ mem[i] \notin {Slash, NUL, Bell}
       \/ st.mode = "seps" /\ mem[i] # Slash -> [st EXCEPT !.mode = "scan", !.entity = i]
    [] OTHER -> st

Scan(mem) ==
  LET State[i \in 0..Len(mem)] ==
        IF i = 0 THEN [mode |-> "lead", entity |-> 1, names |-> <<>>]
                 ELSE Scanned(State[i - 1], mem, i)
  IN  State[Len(mem)]

(* The names of the string at the start of mem, NULL (no names) on error.  *)
Parse(mem) ==
  LET st == Scan(mem)
  IN  IF st.mode = "error" THEN <<>>
      ELSE IF mem[st.entity] = NUL THEN st.names
      ELSE Append(st.names, StringAt(mem, st.entity, Len(mem)))

(* Bug: ".." at the bottom of the stack is kept as a name.                 *)
PushedParent(stack, n) ==
  CASE n = Parent /\ stack # <<>> -> Front(stack)
    [] n = Self -> stack
    [] OTHER    -> Append(stack, n)

(* The stack after one more name.                                          *)
Pushed(stack, n) ==
  CASE n = Parent -> IF stack = <<>> THEN stack ELSE Front(stack)
    [] n = Self   -> stack
    [] OTHER      -> Append(stack, n)

(* vfs_path_resolve()                                                      *)
Resolve(names) ==
  LET Stack[k \in 0..Len(names)] == IF k = 0 THEN <<>> ELSE Pushed(Stack[k - 1], names[k])
  IN  Stack[Len(names)]

(* new_vfs_path() of a string that is not empty                            *)
NewPath(mem) == [absolute |-> mem[1] = Slash, names |-> Resolve(Parse(mem))]

(* vfs_path_merge() where dest is absolute                                 *)
Merge(dest, src) ==
  IF src.absolute THEN src
  ELSE IF src.names = <<>> THEN dest
  ELSE [dest EXCEPT !.names = Resolve(dest.names \o src.names)]

(* vfs_path_acquire(): "/", the names and the separators between them.     *)
Part(names, k) == IF k < Len(names) THEN Append(names[k], Slash) ELSE names[k]

PathString(p) ==
  LET start == IF p.absolute THEN <<Slash>> ELSE <<>>
      Text[k \in 0..Len(p.names)] == IF k = 0 THEN start ELSE Text[k - 1] \o Part(p.names, k)
  IN  Text[Len(p.names)]

(* It returns NULL when the string and one more byte do not fit.           *)
TooLong(p) == p.names # <<>> /\ Len(PathString(p)) + 1 >= PathMax

(* stat() of the string: the file system takes "//" for "/".               *)
Kept(kept, n) == IF n = <<>> THEN kept ELSE Append(kept, n)

Directory(names) ==
  LET Names[k \in 0..Len(names)] == IF k = 0 THEN <<>> ELSE Kept(Names[k - 1], names[k])
  IN  Names[Len(names)]

IsDirectory(names) == Directory(names) \in Dirs

(* Bug: a path without a string is taken for a directory.                  *)
CanChdirUnchecked(p) == p.absolute /\ (p.names = <<>> \/ TooLong(p) \/ IsDirectory(p.names))

(* vfs_can_chdir()                                                         *)
CanChdir(p) == p.absolute /\ (p.names = <<>> \/ (~TooLong(p) /\ IsDirectory(p.names)))

(* detach_last_pathent()                                                   *)
DetachLast(p) == IF p.names = <<>> THEN p ELSE [p EXCEPT !.names = Front(@)]

-----------------------------------------------------------------------------
VARIABLES
  cwd,    (* client->cwd                                                   *)
  args,   (* the part of input_buffer->line behind "CWD "                  *)
  reply   (* the code of the last reply                                    *)

vars == <<cwd, args, reply>>

Padded(line) == line \o <<NUL, NUL>>

(* Bug: line[bytesToCopy] = 0 is left out.                                 *)
StoredBare(arg) == arg \o SubSeq(args, Len(arg) + 1, Len(args))

(* iobuffer_next_line() stores an argument and its terminator.             *)
Stored(arg) ==
  LET line == Append(arg, NUL)
  IN  line \o SubSeq(args, Len(line) + 1, Len(args))

Init == cwd = Root /\ args = <<>> /\ reply = 220

(* The end of do_cwd(), with the path that vfs_path_merge() has returned.  *)
Changed(result) ==
  IF CanChdir(result) THEN cwd' = result /\ reply' = 250
                      ELSE UNCHANGED cwd /\ reply' = 550

(* do_cwd()                                                                *)
Cwd(arg) ==
  /\ args' = Stored(arg)
  /\ IF arg = <<>> THEN UNCHANGED cwd /\ reply' = 550
     ELSE Changed(Merge(cwd, NewPath(Padded(args'))))

(***************************************************************************)
(* malloc() fails in do_cwd(): there is no path, or no string for stat();  *)
(* or there are no names, which vfs_pathent_parse() reports the way it     *)
(* reports an empty path.  (Where a NULL is read there is no next state.)  *)
(***************************************************************************)
CwdNoMemory(arg) ==
  /\ args' = Stored(arg)
  /\ \/ UNCHANGED cwd /\ reply' = 550
     \/ /\ arg # <<>>
        /\ Changed(Merge(cwd, [absolute |-> arg[1] = Slash, names |-> <<>>]))

(* do_cdup(); "CDUP" ends where an argument of CWD would begin.            *)
Cdup ==
  /\ args' = Stored(<<>>)
  /\ cwd' = DetachLast(cwd)
  /\ reply' = 250

(* do_pwd(); "PWD" ends in front of args.                                  *)
Pwd == reply' = 257 /\ UNCHANGED <<cwd, args>>

Next == (\E arg \in Args : Cwd(arg) \/ CwdNoMemory(arg)) \/ Cdup \/ Pwd

Spec == Init /\ [][Next]_vars

-----------------------------------------------------------------------------
(* The reference: what a path means, without a parser and without a stack. *)

(* The words of a string are its longest parts without a separator.        *)
WordStarts(s) == {i \in DOMAIN s : s[i] # Slash /\ (i = 1 \/ s[i-1] = Slash)}
WordEnd(s, i) == SelectInSubSeq(Append(s, Slash), i, Len(s) + 1, LAMBDA c : c = Slash) - 1
Words(s) ==
  FlattenSeq([i \in DOMAIN s |->
                IF i \in WordStarts(s) THEN <<SubSeq(s, i, WordEnd(s, i))>> ELSE <<>>])

(* A name stays unless the names and the ".." behind it cancel it.         *)
Ordinary(n) == n \notin {Parent, Self}
Climbs(names, from, to) ==
  Cardinality({i \in from..to : names[i] = Parent}) > Cardinality({i \in from..to : Ordinary(names[i])})
Stays(names, k) ==
  Ordinary(names[k]) /\ \A j \in k+1..Len(names) : ~Climbs(names, k + 1, j)
Meaning(names) ==
  FlattenSeq([k \in DOMAIN names |-> IF Stays(names, k) THEN <<names[k]>> ELSE <<>>])

(* The argument of the last command, for it is still in args.              *)
Argument(mem) == StringAt(mem, 1, Len(mem))

Target(arg) ==
  IF arg[1] = Slash THEN Meaning(Words(arg)) ELSE Meaning(cwd.names \o Words(arg))

(* Arguments without surprises: no control character, no separator at the  *)
(* end; if relative, they never climb above where they start.              *)
Printable(arg) == \A i \in DOMAIN arg : arg[i] # Bell
Tidy(arg)      == arg # <<>> /\ Printable(arg) /\ Last(arg) # Slash
StaysBelow(arg) ==
  arg[1] = Slash \/ \A j \in DOMAIN Words(arg) : ~Climbs(Words(arg), 1, j)

-----------------------------------------------------------------------------
(***************************************************************************)
(* The current directory is an absolute path and no name in it holds a     *)
(* separator, whatever the arguments and whatever lies behind them.  What  *)
(* lies behind them always ends with a terminator, too.                    *)
(***************************************************************************)
TypeOK ==
  /\ cwd.absolute = TRUE /\ cwd.names \in Seq(Name)
  /\ args \in Seq(Char \union {NUL}) /\ (args # <<>> => Last(args) = NUL)
  /\ reply \in {220, 250, 257, 550}

(***************************************************************************)
(* The current directory is a directory: CWD checks the path it stores,    *)
(* and CDUP, which checks nothing, only ever shortens it.                  *)
(***************************************************************************)
CwdIsDirectory == IsDirectory(cwd.names)

(***************************************************************************)
(* The current directory always has a string: do_pwd() and LIST use what   *)
(* vfs_path_acquire() returns without asking whether it is NULL.           *)
(***************************************************************************)
CwdHasString == ~TooLong(cwd)

(***************************************************************************)
(* Every user of the current directory can work with it.                   *)
(***************************************************************************)
CwdUsable == CwdIsDirectory /\ CwdHasString

(***************************************************************************)
(* A tidy argument means what it says.  "." and ".." are resolved, an      *)
(* absolute path replaces the current one; the answer is 250 and the       *)
(* current directory the one meant, if that exists and its string fits;    *)
(* else 550, and nothing has changed.                                      *)
(***************************************************************************)
Reachable(names) == IsDirectory(names) /\ ~TooLong([absolute |-> TRUE, names |-> names])

Understood ==
  LET arg == Argument(args')
  IN  Tidy(arg) /\ StaysBelow(arg) /\ Cwd(arg) =>
        IF Reachable(Target(arg)) THEN cwd'.names = Target(arg) /\ reply' = 250
                                  ELSE cwd' = cwd /\ reply' = 550

CwdMeansTarget == [][Understood]_vars

(***************************************************************************)
(* Not kept.  ".." is an indirect link, "/usr/local/../bin => /usr/bin"    *)
(* (vfs_path.c:89): from /usr/local, CWD ../bin goes to /usr/bin.          *)
(***************************************************************************)
ParentIsMeant ==
  [][LET arg == Argument(args')
     IN  Tidy(arg) /\ Cwd(arg) /\ reply' = 250 => cwd'.names = Target(arg)]_vars

=============================================================================
