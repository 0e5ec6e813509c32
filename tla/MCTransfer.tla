----------------------------- MODULE MCTransfer -----------------------------
(* Import and export on small instances. *)
EXTENDS Transfer, TLC

Symmetry == Permutations(Requests)

CONSTANTS a, b

Item(valid, web, order) == [valid |-> valid, web |-> web, order |-> order]

Good == Item(TRUE, TRUE, 0)
Bad == Item(FALSE, FALSE, 0)

Document(source, slug, items) ==
  [source |-> source, slug |-> slug, name |-> b, readable |-> TRUE, links |-> items]

\* One file of each format, with links that are skipped before links that are not.
Files ==
  { Document("linktree", NoSlug, <<Bad, Good>>),
    Document("linkstack", Slug(a, "own", 0), <<Item(TRUE, TRUE, 2), Good, Item(TRUE, TRUE, 1)>>),
    Document("carrd", NoSlug, <<Bad, Good>>),
    Document("aboutme", InvalidSlug, <<Good>>),
    Document("csv", NoSlug, <<Bad, Good, Good, Good>>),
    Document("json", NoSlug, <<Good, Bad, Good>>) }
============================================================================
