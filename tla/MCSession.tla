----------------------------- MODULE MCSession -----------------------------
(***************************************************************************)
(* Three modules' worth of symbols and the profile files that tell the     *)
(* binding rules apart: a full engine, profiles that only some modules     *)
(* satisfy, two profiles that name different symbols or shapes for one     *)
(* role, and an audio role that is not a sink.                             *)
(***************************************************************************)
EXTENDS Session

Binds(role, symbol, shape) == [role |-> role, symbol |-> symbol, shape |-> shape]

Named == [class |-> "named", bindings |-> <<Binds("post", "fire", "name")>>]
Levels == [class |-> "levels", bindings |-> <<Binds("set", "level", "level"),
                                              Binds("post", "fire", "name")>>]
Audio == [class |-> "audio", bindings |-> <<Binds("bulk", "install", "sink")>>]
Rival == [class |-> "rival", bindings |-> <<Binds("post", "level", "level")>>]
Loose == [class |-> "loose", bindings |-> <<Binds("bulk", "install", "name")>>]

MCProfileFiles == {<< >>, <<Named, Levels, Audio>>, <<Rival, Named>>, <<Named, Rival>>, <<Loose, Levels>>}

Module(exports) == [loads |-> TRUE, exports |-> exports]
Unloadable == [loads |-> FALSE, exports |-> {}]
Found(examined, truncated, candidates) ==
  [examined |-> examined, truncated |-> truncated, candidates |-> candidates]

MCScans == {
  Found(0, FALSE, << >>),
  Found(3, TRUE, <<Unloadable, Module({"other"})>>),
  Found(2, FALSE, <<Module({"fire"}), Module({"fire", "level", "install"})>>),
  Found(4, FALSE, <<Unloadable, Module({"fire", "level", "install"})>>)}

\* 9 is 1 plus the eight numbers an int holds here.
MCOffers == {{}, {2, 3}, {1, 2}, {9}}
MCHandleFields == {-1, 0, 1, 2, 3, 8}

=============================================================================
