----------------------------- MODULE LumiStore ------------------------------
(***************************************************************************)
(* What the virtual machine promises about a program's persistent state,   *)
(* without instructions, stack or storage layout: one shared vector of     *)
(* globals and one vector of key variables for each key, both starting at  *)
(* the program's initial values; a section may write globals, only render  *)
(* may write key variables and the colour, and only those of the key it    *)
(* was called for.                                                         *)
(***************************************************************************)
EXTENDS Naturals, Sequences

CONSTANTS Cell, KeySlots, Mode

VARIABLES
  image,    \* [globals, row]: the program's initial values
  created,  \* whether there is a state
  global,   \* the globals
  rows,     \* the vector of key variables of each key
  call,     \* the section being run, Nobody between calls
  painted   \* whether the last section run set the colour

storeVars == <<image, created, global, rows, call, painted>>

Nobody == [mode |-> "none", key |-> 0]

Fresh == [k \in 0..KeySlots-1 |-> image.row]
NoRows == [k \in 0..KeySlots-1 |-> << >>]

StoreInit ==
  /\ image \in [globals : Seq(Cell), row : Seq(Cell)]
  /\ created = FALSE
  /\ global = << >>
  /\ rows = NoRows
  /\ call = Nobody
  /\ painted = FALSE

\* The state is created, created again, or reset.
Restore ==
  /\ call = Nobody
  /\ created' = TRUE
  /\ global' = image.globals
  /\ rows' = Fresh
  /\ UNCHANGED <<image, call, painted>>

Begin(mode, key) ==
  /\ call = Nobody
  /\ created
  /\ mode # "render" => key = 0
  /\ mode = "render" => key < KeySlots
  /\ call' = [mode |-> mode, key |-> key]
  /\ painted' = FALSE
  /\ UNCHANGED <<image, created, global, rows>>

WriteGlobal ==
  /\ call # Nobody
  /\ \E i \in DOMAIN global, v \in Cell : global' = [global EXCEPT ![i] = v]
  /\ UNCHANGED <<image, created, rows, call, painted>>

WriteKey ==
  /\ call.mode = "render"
  /\ \E i \in DOMAIN image.row, v \in Cell :
       rows' = [rows EXCEPT ![call.key] = [@ EXCEPT ![i] = v]]
  /\ UNCHANGED <<image, created, global, call, painted>>

Paint ==
  /\ call.mode = "render"
  /\ painted' = TRUE
  /\ UNCHANGED <<image, created, global, rows, call>>

End ==
  /\ call # Nobody
  /\ call' = Nobody
  /\ UNCHANGED <<image, created, global, rows, painted>>

StoreNext ==
  \/ Restore
  \/ \E mode \in Mode, key \in 0..KeySlots : Begin(mode, key)
  \/ WriteGlobal \/ WriteKey \/ Paint \/ End

StoreSpec == StoreInit /\ [][StoreNext]_storeVars
=============================================================================
