------------------------------- MODULE Scanner -------------------------------
(***************************************************************************)
(* The search of src/relay/discovery/scanner.cpp: a recursive walk over    *)
(* the roots a host nominated, with a limit on the files it reads and on   *)
(* how deep it goes, that picks out the files whose first bytes are those  *)
(* of a module.  The recursion is a stack of what is left to do in each    *)
(* directory, so that a step handles one entry and each of the three tests *)
(* of the limit happens where the code has it.                             *)
(*                                                                         *)
(* A path is a sequence of names, and names are numbers; std::filesystem   *)
(* compares paths name by name, which is the order used here.  The disk    *)
(* does not change during one search.                                      *)
(***************************************************************************)
EXTENDS Integers, SequencesExt

CONSTANTS
  Disks,         \* what the file system may hold: functions from paths to kinds
  Content,       \* the bytes of a regular file of some kind
  RootLists,     \* the roots a host may nominate
  LimitChoices,  \* ScanLimits: [files, depth]
  HeaderBytes    \* kModuleHeaderBytes

\* A disk is a tree: a path leads through paths. What is in a file is known of
\* regular files alone.
ASSUME ScannerAssumption ==
  /\ \A d \in Disks :
       /\ IsFiniteSet(DOMAIN d) /\ DOMAIN d \subseteq Seq(Nat) \ {<< >>}
       /\ \A p \in DOMAIN d : \A n \in 1 .. Len(p) : SubSeq(p, 1, n) \in DOMAIN d
  /\ {"directory", "locked"} \cap DOMAIN Content = {}
  /\ \A kind \in DOMAIN Content : Content[kind].size \in Nat /\ Content[kind].pointer \in Nat
  /\ RootLists \subseteq Seq(Seq(Nat) \ {<< >>})
  /\ LimitChoices \subseteq [files : Nat, depth : Nat]
  /\ HeaderBytes \in Nat /\ HeaderBytes >= 64

VARIABLES
  disk, roots, limits,
  next,          \* how many of the roots have been taken
  stack,         \* per directory being walked, innermost last: its entries to do
  examined,      \* history: the files opened; filesExamined is their number
  candidates,    \* result.candidates, as paths
  truncated      \* result.truncated

inputVars == <<disk, roots, limits>>
resultVars == <<examined, candidates, truncated>>
scanVars == <<inputVars, next, stack, resultVars>>

-----------------------------------------------------------------------------
(* Module formats.  A content is [size, magic, pointer, signed]: how many   *)
(* bytes can be read, which magic they begin with, where an MZ header       *)
(* points, and whether "PE\0\0" is found there.                             *)

LooksLikePortableExecutable(content, got) ==
  got >= 64 /\ content.magic = "MZ" /\ content.pointer + 4 =< got /\ content.signed

\* Of the bytes readHeader gets.
IdentifyModuleFormat(content) ==
  LET got == Min({content.size, HeaderBytes})
  IN  CASE got < 4                                        -> "unknown"
        [] got >= 4 /\ content.magic \in {"elf", "macho"} -> content.magic
        [] got >= 4 /\ LooksLikePortableExecutable(content, got) -> "pe"
        [] OTHER                                          -> "unknown"

Loadable(path) == IdentifyModuleFormat(Content[disk[path]]) # "unknown"

-----------------------------------------------------------------------------
IsDirectory(path) == path \in DOMAIN disk /\ disk[path] \in {"directory", "locked"}
IsFile(path) == path \in DOMAIN disk /\ disk[path] \in DOMAIN Content

\* The order of paths: name by name, a directory before what is in it.
Sorts(p, q) ==
  \/ IsStrictPrefix(p, q)
  \/ \E i \in DOMAIN p \cap DOMAIN q :
       p[i] < q[i] /\ \A j \in 1 .. i - 1 : p[j] = q[j]

\* std::sort: the path that has i - 1 others before it comes at i.
Sorted(paths) ==
  [i \in 1 .. Cardinality(paths) |->
     CHOOSE p \in paths : Cardinality({q \in paths : Sorts(q, p)}) = i - 1]

\* Mutant: entries come as the file system has them, here backwards.
ListedBackwards(directory) ==
  IF disk[directory] = "locked" THEN << >>
  ELSE Reverse(Sorted({p \in DOMAIN disk : Front(p) = directory}))

\* The entries of a directory, sorted; none of one that cannot be read.
Entries(directory) ==
  IF disk[directory] = "locked" THEN << >>
  ELSE Sorted({p \in DOMAIN disk : Front(p) = directory})

Full == Len(examined) >= limits.files

\* Mutant: a directory that is too deep is left out silently.
WalkQuietly(directory, below) ==
  /\ truncated' = (truncated \/ Full)
  /\ stack' = IF Len(below) > limits.depth \/ Full THEN below
              ELSE Append(below, Entries(directory))

\* A call of walk, made by the walks of below; its depth is their number.
Walk(directory, below) ==
  IF Len(below) > limits.depth \/ Full
  THEN truncated' = TRUE /\ stack' = below
  ELSE UNCHANGED truncated /\ stack' = Append(below, Entries(directory))

ScanInit ==
  /\ disk \in Disks
  /\ roots \in RootLists
  /\ limits \in LimitChoices
  /\ next = 0
  /\ stack = << >>
  /\ examined = << >>
  /\ candidates = << >>
  /\ truncated = FALSE

Scanned == stack = << >> /\ next = Len(roots)

\* The loop of scanForCandidates, which a full result breaks.
TakeRoot ==
  /\ stack = << >> /\ next < Len(roots)
  /\ \/ /\ Full
        /\ truncated' = TRUE
        /\ next' = Len(roots)
        /\ UNCHANGED stack
     \/ /\ ~ Full
        /\ next' = next + 1
        /\ IF IsDirectory(roots[next + 1]) THEN Walk(roots[next + 1], << >>)
           ELSE UNCHANGED <<stack, truncated>>
  /\ UNCHANGED <<inputVars, examined, candidates>>

\* The innermost walk is past its last entry.
Return ==
  /\ stack # << >> /\ Last(stack) = << >>
  /\ stack' = Front(stack)
  /\ UNCHANGED <<inputVars, next, resultVars>>

\* The innermost walk is at an entry.
Entry == Head(Last(stack))
AfterEntry == Append(Front(stack), Tail(Last(stack)))
AtEntry == stack # << >> /\ Last(stack) # << >>

StopShort ==
  /\ AtEntry /\ Full
  /\ truncated' = TRUE
  /\ stack' = Front(stack)
  /\ UNCHANGED <<inputVars, next, examined, candidates>>

\* Links, sockets, and what cannot be asked about.
Skip ==
  /\ AtEntry /\ ~ Full
  /\ ~ IsDirectory(Entry) /\ ~ IsFile(Entry)
  /\ stack' = AfterEntry
  /\ UNCHANGED <<inputVars, next, resultVars>>

Descend ==
  /\ AtEntry /\ ~ Full
  /\ IsDirectory(Entry)
  /\ Walk(Entry, AfterEntry)
  /\ UNCHANGED <<inputVars, next, examined, candidates>>

Examine ==
  /\ AtEntry /\ ~ Full
  /\ IsFile(Entry)
  /\ examined' = Append(examined, Entry)
  /\ candidates' = IF Loadable(Entry) THEN Append(candidates, Entry) ELSE candidates
  /\ stack' = AfterEntry
  /\ UNCHANGED <<inputVars, next, truncated>>

ScanNext == TakeRoot \/ Return \/ StopShort \/ Skip \/ Descend \/ Examine

-----------------------------------------------------------------------------
(* Properties *)

\* What a nominated root gives leave to see: the files that can be reached
\* from it through directories alone, however deep or at most so deep.
Reachable(root) ==
  {p \in DOMAIN disk :
     /\ IsFile(p) /\ IsStrictPrefix(root, p)
     /\ \A q \in DOMAIN disk : IsPrefix(root, q) /\ IsStrictPrefix(q, p)
                                 => disk[q] = "directory"}

Within(root, depth) == {p \in Reachable(root) : Len(p) - Len(root) - 1 =< depth}

InOrder(FilesOf(_)) ==
  FlattenSeq([i \in DOMAIN roots |-> Sorted(FilesOf(roots[i]))])

AllFiles == InOrder(Reachable)
AllowedFiles == InOrder(LAMBDA root : Within(root, limits.depth))

\* A file is a module when its whole content says so and its signature lies in
\* the window that is read.
IsModule(path) ==
  LET content == Content[disk[path]]
  IN  \/ content.magic \in {"elf", "macho"} /\ content.size >= 4
      \/ /\ content.magic = "MZ" /\ content.signed /\ content.size >= 64
         /\ \A i \in 0 .. 3 : content.pointer + i < Min({content.size, HeaderBytes})

\* The candidates are the modules among the files opened, in the same order.
CandidatesPicked ==
  \E place \in [DOMAIN candidates -> DOMAIN examined] :
    /\ \A i, j \in DOMAIN candidates : i < j => place[i] < place[j]
    /\ \A i \in DOMAIN candidates : candidates[i] = examined[place[i]]
    /\ {place[i] : i \in DOMAIN candidates} = {n \in DOMAIN examined : IsModule(examined[n])}

\* The search opens the files that are reachable from the roots within the
\* depth limit, each once per root, in one fixed order, follows no link out of
\* them, opens never more than the limit, and stops short of none it may open;
\* the candidates are the modules among them in that order
\* (scanner.hpp:154-165, module_format.hpp:39-44).
ExaminesInOrder ==
  /\ IsPrefix(examined, AllowedFiles)
  /\ Len(examined) =< limits.files
  /\ Scanned => Len(examined) = Min({limits.files, Len(AllowedFiles)})
  /\ CandidatesPicked

\* A result that is not marked as truncated leaves out no reachable file,
\* neither by depth nor by count nor by a root not visited (scanner.hpp:150).
UntruncatedIsComplete == Scanned /\ ~ truncated => examined = AllFiles

=============================================================================
