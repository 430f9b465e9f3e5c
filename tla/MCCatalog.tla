----------------------------- MODULE MCCatalog -----------------------------
(* Small instances of Catalog for TLC. *)
EXTENDS Catalog

Model(name, prompt, context, params) ==
  [name |-> name, provider |-> name % 2, words |-> {name},
   created |-> IF params = {} THEN Unknown ELSE name,
   prompt |-> prompt, completion |-> prompt, context |-> context, top |-> 2,
   params |-> params, modalities |-> IF params = {} THEN {"text", "image"} ELSE {"text"}]

\* Known, unknown, variable and no prices, contexts that tie, an entry that is rejected;
\* the list after prices have changed.
Lists ==
  << <<Model(2, 1, 0, {"tools"}), Bad, Model(1, -1, 3, {}), Model(3, 0, 2, {"tool_choice", "seed"})>>,
     <<Model(2, 2, 0, {"tools"}), Model(1, Unknown, 3, {}), Model(3, 0, 2, {"tool_choice", "seed"})>> >>

InBundle == <<Model(1, 1, Unknown, {"tools"})>>

SomeCriteria ==
  [search : {NotGiven, 1}, provider : {NotGiven, 1}, role : {NotGiven, "worker"},
   tools : {NotGiven, TRUE}, vision : {NotGiven, TRUE}, free : BOOLEAN,
   price : {NotGiven, 4}, context : {NotGiven, 2}, sort : SortKeys]

SymmetricSyncs == Permutations(Syncs)
=============================================================================
