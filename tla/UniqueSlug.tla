----------------------------- MODULE UniqueSlug -----------------------------
(* The slugs of src/posts/helpers: <<title, n>> is the slug of the title,   *)
(* with the suffix -n if n > 1.                                             *)
EXTENDS Naturals, FiniteSets

\* generateUniqueSlug tries title, title-2, title-3, ... until one is not
\* among the slugs; of n + 1 of them n slugs cannot be all.
UniqueNumber(title, slugs) ==
  CHOOSE n \in 1..Cardinality(slugs) + 1 :
    /\ <<title, n>> \notin slugs
    /\ \A m \in 1..n - 1 : <<title, m>> \in slugs
=============================================================================
