---------------------------- MODULE ContentUniverse ----------------------------
(***************************************************************************)
(* The ids, kinds, columns and locales of the documents of a service, and  *)
(* what a store says of the rows of a document: that they are one tree,    *)
(* and that each row passes the check of its place.                        *)
(***************************************************************************)
EXTENDS ContentRowsTs

CONSTANTS Uuid,         \* UUIDs of sections and blocks
          Kinds,        \* kinds of sections and blocks that are used
          Columns,      \* column ids
          OtherLocales  \* locales beside the source

ASSUME UuidAssumption == Uuid \subseteq Nat \ {0}
ASSUME ColumnsAssumption == Columns \subseteq Nat \ {0, NotAColumn}
ASSUME LocalesAssumption == Source \notin OtherLocales

\* An id may be spelled in lower case or in upper case.
Spellings == Uuid \cup {-u : u \in Uuid}
Locales == {Source} \cup OtherLocales

\* No index of a graph, or of a page, is too large for a position.
Fit(nodes) == \A i \in DOMAIN nodes : nodes[i].index < HalfRange
PageFits(page) ==
    /\ Fit(page.nodes)
    /\ \A i \in DOMAIN page.nodes : page.nodes[i].shared.case = "rich-text" => Fit(page.nodes[i].blocks)

\* The rows are one tree of distinct ids.
Tree(rows) == UniqueIds(rows) /\ Grounded(rows)

\* The store checks a row under its parent row, and finds the parent.
ParentChecked(profile, rows) ==
    \A i \in DOMAIN rows :
        LET r == rows[i]
        IN IF r.parent = 0 THEN ValidateContentStorageParent(profile, {}, r)
           ELSE r.parent \in Ids(rows) /\ ValidateContentStorageParent(profile, {RowOf(rows, r.parent)}, r)

\* A row as it comes back: a section has an empty value in the locales only its blocks have values in.
Completed(rows, r) ==
    [r EXCEPT !.locales = [l \in LocalesOf(Source, BlocksOf(rows), r) |->
                              IF l \in DOMAIN r.locales THEN r.locales[l] ELSE [case |-> "rich-text", text |-> ""]]]
================================================================================
