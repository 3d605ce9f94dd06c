----------------------------- MODULE ContentRowsTs -----------------------------
(***************************************************************************)
(* The same contract as the TypeScript runtime implements it.  Its         *)
(* validators look at the whole graph where the Go runtime looks at one    *)
(* row at a time, they compare ids as they were sent, and they know from   *)
(* the type of a payload whether it is a block's or a section's.           *)
(***************************************************************************)
EXTENDS ContentRows

\* The family of a stored row: blocks are the rows in a content slot.
IsRichFamily(row) == row.slot = Content

(***************************************************************************)
(* normalizeContentStorageShared and -Locale: kinds by family.             *)
(***************************************************************************)
TsKindAllowed(profile, rich, kind) ==
    IF rich THEN kind \in ProfileBlocks[profile] ELSE profile = "page" /\ kind \in PageKinds

TsPayloadValid(profile, rich, shared, mode) ==
    /\ TsKindAllowed(profile, rich, shared.case)
    /\ shared.media = "missing" => mode = "RESTORE_SNAPSHOT"

(***************************************************************************)
(* The overlays of a graph: the source locale is there, and every value    *)
(* belongs to a node of its kind.                                          *)
(***************************************************************************)
OverlaysMatch(source, nodes, overlays) ==
    /\ source \in DOMAIN overlays
    /\ \A l \in DOMAIN overlays : \A id \in DOMAIN overlays[l] :
          \E i \in DOMAIN nodes : nodes[i].id = id /\ nodes[i].shared.case = overlays[l][id].case

\* No two nodes share what f gives for them.
Distinct(nodes, f(_)) == Cardinality({f(nodes[i]) : i \in DOMAIN nodes}) = Len(nodes)

validateRichGraph(source, profile, nodes, overlays, mode) ==
    /\ Len(nodes) <= MaxDocumentBlocks
    /\ Distinct(nodes, LAMBDA n : n.id)
    /\ Distinct(nodes, LAMBDA n : <<n.parent, n.index>>)
    /\ \A i \in DOMAIN nodes : TsPayloadValid(profile, TRUE, nodes[i].shared, mode)
    /\ \A i \in DOMAIN nodes : nodes[i].parent # 0 => \E j \in DOMAIN nodes : nodes[j].id = nodes[i].parent
    /\ OverlaysMatch(source, nodes, overlays)

\* A section outside the root level is in a declared column of a columns section.
ColumnPlaced(nodes, node) ==
    \E j \in DOMAIN nodes : /\ nodes[j].id = node.parent
                            /\ nodes[j].shared.case = "columns"
                            /\ node.column \in nodes[j].shared.columns
                            /\ node.shared.case \in ColumnChildKinds

validatePageGraph(source, nodes, overlays, mode) ==
    /\ Distinct(nodes, LAMBDA n : n.id)
    /\ Distinct(nodes, LAMBDA n : <<n.parent, n.column, n.index>>)
    /\ \A i \in DOMAIN nodes : /\ TsPayloadValid("page", FALSE, nodes[i].shared, mode)
                               /\ (nodes[i].parent = 0) <=> (nodes[i].column = 0)
                               /\ nodes[i].parent # 0 => ColumnPlaced(nodes, nodes[i])
    /\ OverlaysMatch(source, nodes, overlays)

\* The overlays of a section's rich text, looked up by the id as it was sent.
TsNestedOverlays(node, overlays) ==
    [l \in DOMAIN overlays |-> IF node.id \in DOMAIN overlays[l] THEN overlays[l][node.id].blocks ELSE NoValues]

TsFlattenPageAccepts(page, mode) ==
    /\ validatePageGraph(Source, page.nodes, page.overlays, mode)
    /\ \A i \in DOMAIN page.nodes :
          page.nodes[i].shared.case = "rich-text" =>
             validateRichGraph(Source, "page", page.nodes[i].blocks, TsNestedOverlays(page.nodes[i], page.overlays), mode)

(***************************************************************************)
(* Rebuilding: the rich-text rows of a section are the ones whose parents, *)
(* followed through rich-text rows only, reach it.  A position is decoded  *)
(* as an index, which no negative number is.                               *)
(***************************************************************************)
TsRichRows(rows) == Where(rows, IsRichFamily)
TsSectionRows(rows) == Where(rows, LAMBDA r : ~IsRichFamily(r))

TsDescendants(rows, section) ==
    LET rich  == TsRichRows(rows)
        below == Where(rich, LAMBDA r : section \in Lineage(rich, r.id))
    IN [i \in DOMAIN below |->
          IF below[i].parent = section THEN [below[i] EXCEPT !.parent = 0] ELSE below[i]]

TsMaterializePage(source, rows) ==
    PageOf(source, InPlacementOrder(TsSectionRows(rows)), [id \in Ids(rows) |-> TsDescendants(rows, id)])

TsMaterializeRichAccepts(source, profile, rows) ==
    /\ UniqueIds(rows)
    /\ \A i \in DOMAIN rows : /\ rows[i].kind \in RichKinds
                              /\ rows[i].shared.case = rows[i].kind
                              /\ rows[i].pos >= 0
                              /\ source \in DOMAIN rows[i].locales
    /\ validateRichGraph(source, profile, RichNodes(rows), RichOverlays(source, rows), "RESTORE_SNAPSHOT")

TsMaterializePageAccepts(source, rows) ==
    LET sections == TsSectionRows(rows)
        page     == TsMaterializePage(source, rows)
    IN /\ UniqueIds(rows)
       /\ \A i \in DOMAIN sections :
             LET s == sections[i]
             IN /\ s.kind \in PageKinds
                /\ s.shared.case = s.kind
                /\ s.pos >= 0
                /\ source \in DOMAIN s.locales
                /\ IF s.parent = 0 THEN s.slot = Sections ELSE s.slot[1] = "column"
                /\ s.kind = "rich-text" => TsMaterializeRichAccepts(source, "page", TsDescendants(rows, s.id))
       /\ \A id \in Ids(TsRichRows(rows)) :
             \E i \in DOMAIN sections : sections[i].kind = "rich-text" /\ id \in Ids(TsDescendants(rows, sections[i].id))
       /\ validatePageGraph(source, page.nodes, page.overlays, "RESTORE_SNAPSHOT")
================================================================================
