---------------------------- MODULE CatalogQuery ----------------------------
(***************************************************************************)
(* What the catalog says of a model, and what a listing shows of them:     *)
(* the derived values of catalog/models.py and catalog/capabilities.py,    *)
(* and filtering, sorting, counting and paging in catalog/query.py.        *)
(*                                                                         *)
(* A price is in such a unit that the blended price of a million tokens is *)
(* 3 * prompt + completion.  Names are numbers, by their order.            *)
(***************************************************************************)
EXTENDS Integers, Sequences, FiniteSets, SequencesExt

CONSTANTS
  Unknown,   \* a value that is None
  NotGiven        \* a criterion that is not given

ASSUME QueryAssumption == Unknown \notin Int

SortKeys == {"name", "price_asc", "price_desc", "context_desc", "newest"}

-----------------------------------------------------------------------------
(* A model, as OpenRouter delivers it: name, provider, words, created, prompt, completion,  *)
(* context, top (the context of top_provider), params, modalities                           *)

\* What is compared is a number; what may be missing, a number or Unknown.
IsModel(m) ==
  /\ m.name \in Int /\ m.provider \in Int
  /\ {m.created, m.prompt, m.completion, m.context, m.top} \subseteq Int \cup {Unknown}

\* _to_decimal
Price(x) == IF x = Unknown \/ x < 0 THEN Unknown ELSE x

Blended(m) ==
  IF Unknown \in {Price(m.prompt), Price(m.completion)}
  THEN Unknown
  ELSE 3 * Price(m.prompt) + Price(m.completion)

\* `or`: a context length of 0 is not taken either.
Context(m) == IF m.context \in {Unknown, 0} THEN m.top ELSE m.context

Free(m) == Price(m.prompt) = 0 /\ Price(m.completion) = 0

\* derive_capabilities
SupportsTools(m)  == m.params \cap {"tools", "tool_choice"} # {}
SupportsVision(m) == "image" \in m.modalities

\* Capabilities.roles
Roles(m) ==
  {"scout"} \cup (IF SupportsTools(m) THEN {"worker", "queen"} ELSE {})
            \cup (IF SupportsVision(m) THEN {"inspector"} ELSE {})

Summary(m) ==
  [name     |-> m.name,
   provider |-> m.provider,
   words    |-> m.words,
   created  |-> m.created,
   context  |-> Context(m),
   blended  |-> Blended(m),
   tools    |-> SupportsTools(m),
   vision   |-> SupportsVision(m),
   free     |-> Free(m),
   roles    |-> Roles(m)]

-----------------------------------------------------------------------------
(* A listing *)

\* CatalogFilter.matches
Matches(c, s) ==
  /\ c.search # NotGiven => c.search \in s.words
  /\ c.provider # NotGiven => s.provider = c.provider
  /\ c.role # NotGiven => c.role \in s.roles
  /\ c.tools # NotGiven => s.tools = c.tools
  /\ c.vision # NotGiven => s.vision = c.vision
  /\ c.free => s.free
  /\ c.price # NotGiven => s.blended # Unknown /\ s.blended <= c.price
  /\ c.context # NotGiven => s.context # Unknown /\ s.context >= c.context

\* Fault: what is missing counts as 0.
FaultyKeyOf(value, sign) == <<0, IF value = Unknown THEN 0 ELSE sign * value>>

KeyOf(value, sign) == IF value = Unknown THEN <<1, 0>> ELSE <<0, sign * value>>

\* _sort_value
SortValue(sort, s) ==
  CASE sort = "name"         -> <<0, s.name>>
    [] sort = "price_asc"    -> KeyOf(s.blended, 1)
    [] sort = "price_desc"   -> KeyOf(s.blended, -1)
    [] sort = "context_desc" -> KeyOf(s.context, -1)
    [] sort = "newest"       -> KeyOf(s.created, -1)

Below(a, b) == a[1] < b[1] \/ (a[1] = b[1] /\ a[2] < b[2])

\* f of the elements of S, by the order Before.
Ordered(f, S, Before(_, _)) ==
  [n \in 1..Cardinality(S) |->
     f[CHOOSE x \in S : Cardinality({y \in S : Before(y, x)}) = n - 1]]

\* The elements of a list at these positions.
Kept(list, positions) == Ordered(list, positions, LAMBDA i, j : i < j)

\* sorted, of the elements at these positions: what compares equal keeps its order.
Sorted(list, positions, sort) ==
  LET Key(i)       == SortValue(sort, list[i])
      Before(i, j) == Below(Key(i), Key(j)) \/ (Key(i) = Key(j) /\ i < j)
  IN  Ordered(list, positions, Before)

Summaries(models) == [i \in DOMAIN models |-> Summary(models[i])]

ApplyFilter(models, c) ==
  LET all == Summaries(models)
  IN  Sorted(all, {i \in DOMAIN all : Matches(c, all[i])}, c.sort)

Paginate(items, offset, limit) ==
  SubSeq(items, offset + 1, IF offset + limit < Len(items) THEN offset + limit ELSE Len(items))

\* provider_facets: every provider with the number of its models, the largest first.
ProviderFacets(models) ==
  LET Count(p)     == Cardinality({i \in DOMAIN models : models[i].provider = p})
      Providers    == {models[i].provider : i \in DOMAIN models}
      Before(p, q) == Below(<<-Count(p), p>>, <<-Count(q), q>>)
  IN  Ordered([p \in Providers |-> [provider |-> p, count |-> Count(p)]], Providers, Before)
=============================================================================
