---------------------------- MODULE ControlStore ----------------------------
(***************************************************************************)
(* The stores compile reserves for the controls of a patch (steps 10 and   *)
(* 11 of crates/engine/src/schedule.rs): one smoother per parameter, one   *)
(* scalar per readout, contiguous by node.  A control is addressed by a    *)
(* bare index into its store; Schedule::param and Schedule::readout make   *)
(* one of a node and its id.  One node is one action.                      *)
(***************************************************************************)
EXTENDS Integers, Sequences

VARIABLES
  declared,   \* how many controls each node declares
  base,       \* where the controls of each node reserved so far begin
  length      \* the length of the store

storeVars == <<declared, base, length>>

StoreInit ==
  /\ declared \in Seq(Nat)
  /\ base = <<>> /\ length = 0

Reserved == Len(base)
AllReserved == Reserved = Len(declared)

\* Mutant: the next node begins at the last control of this one.
Overlapping(n) == length' = IF declared[n] = 0 THEN length ELSE length + declared[n] - 1

PushControls(n) == length' = length + declared[n]

Reserve ==
  /\ ~ AllReserved
  /\ base' = Append(base, length)
  /\ PushControls(Reserved + 1)
  /\ UNCHANGED declared

StoreSpec == StoreInit /\ [][Reserve]_storeVars

-----------------------------------------------------------------------------
\* The handle of a node's control (Schedule::param, Schedule::readout), and
\* those of all of them.
Handle(n, id) == base[n] + id
Handles(n) == {Handle(n, id) : id \in 0..(declared[n] - 1)}

\* Every handle is an index of the store, and no two nodes have the same.
HandlesAreApart ==
  /\ \A n \in 1..Reserved : Handles(n) \subseteq 0..(length - 1)
  /\ \A n, k \in 1..Reserved : n # k => Handles(n) \cap Handles(k) = {}
=============================================================================
