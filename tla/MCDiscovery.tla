---------------------------- MODULE MCDiscovery ----------------------------
(***************************************************************************)
(* Two roots: one with a file, a directory with a directory in it, and     *)
(* another file; one that may be a directory, a link, a file or missing.   *)
(* Root lists include a root twice and a root inside another.              *)
(***************************************************************************)
EXTENDS Binder

MCContent == [
  engine  |-> [size |-> 2000, magic |-> "elf", pointer |-> 0, signed |-> FALSE],
  partial |-> [size |-> 4, magic |-> "macho", pointer |-> 0, signed |-> FALSE],
  foreign |-> [size |-> 2000, magic |-> "MZ", pointer |-> 1020, signed |-> TRUE],
  late    |-> [size |-> 2000, magic |-> "MZ", pointer |-> 1021, signed |-> TRUE],
  stub    |-> [size |-> 3, magic |-> "elf", pointer |-> 0, signed |-> FALSE]]

MCModules == [
  engine  |-> [loads |-> TRUE, exports |-> {"fire", "level"}],
  partial |-> [loads |-> TRUE, exports |-> {"fire"}],
  foreign |-> [loads |-> FALSE, exports |-> {}],
  late    |-> [loads |-> TRUE, exports |-> {"fire", "level"}],
  stub    |-> [loads |-> FALSE, exports |-> {}]]

One(path, kinds) == {path :> kind : kind \in kinds}
Both(trees, others) == {a @@ b : a \in trees, b \in others}

Inner == One(<<1, 2, 1>>, {"partial", "link"})
         \cup Both(One(<<1, 2, 1>>, {"directory"}), One(<<1, 2, 1, 1>>, {"engine"}))
         \cup One(<<1, 2, 1>>, {"directory"})

Middle == One(<<1, 2>>, {"socket", "late"})
          \cup Both(One(<<1, 2>>, {"directory"}), Inner)
          \cup Both(One(<<1, 2>>, {"locked"}), One(<<1, 2, 1>>, {"engine"}))

Second == {<< >>} \cup One(<<2>>, {"link", "engine"})
          \cup Both(One(<<2>>, {"directory"}), One(<<2, 1>>, {"engine"}))

MCDisks == Both(Both(Both(One(<<1>>, {"directory"}), One(<<1, 1>>, {"partial", "foreign", "stub"})),
                     Both(Middle, One(<<1, 3>>, {"engine", "link"}))), Second)

MCRootLists == {<< <<1>>, <<2>> >>, << <<2>>, <<1>> >>, << <<1, 2>>, <<1>>, <<1, 2>> >>}

MCLimits == [files : {0, 1, 2, 4}, depth : 0 .. 2]

Binds(role, symbol, shape) == [role |-> role, symbol |-> symbol, shape |-> shape]

Levels == [class |-> "levels", bindings |-> <<Binds("set", "level", "level"),
                                              Binds("post", "level", "level")>>]
Named == [class |-> "named", bindings |-> <<Binds("post", "fire", "name")>>]

MCProfileLists == {<< >>, <<Levels>>, <<Levels, Named>>}

=============================================================================
