---------------------------- MODULE ContentDocuments ----------------------------
(***************************************************************************)
(* The two forms of documents a service stores: a page, whose sections may *)
(* hold rich text, and a post, which is one rich text.  A post is held     *)
(* like a page, [nodes, overlays], its nodes being blocks and its values   *)
(* having no blocks of their own.  The service calls the functions of the  *)
(* form by the profile of the document.                                    *)
(***************************************************************************)
EXTENDS ContentUniverse

FlattenDocument(profile, document) ==
    IF profile = "page" THEN FlattenPageDocumentStorage(document) ELSE RichRows(document.nodes, document.overlays)

TsFlattenDocumentAccepts(profile, document, mode) ==
    IF profile = "page" THEN TsFlattenPageAccepts(document, mode)
                        ELSE validateRichGraph(Source, profile, document.nodes, document.overlays, mode)

DocumentFits(profile, document) == IF profile = "page" THEN PageFits(document) ELSE Fit(document.nodes)

MaterializeDocument(profile, rows) ==
    IF profile = "page" THEN MaterializePageDocumentStorage(Source, rows)
                        ELSE [nodes |-> RichNodes(rows), overlays |-> RichOverlays(Source, rows)]

MaterializeDocumentAccepts(profile, rows) ==
    IF profile = "page" THEN MaterializePageDocumentStorageAccepts(Source, rows)
                        ELSE MaterializeRichTextDocumentStorageAccepts(Source, profile, rows)

TsMaterializeDocumentAccepts(profile, rows) ==
    IF profile = "page" THEN TsMaterializePageAccepts(Source, rows) ELSE TsMaterializeRichAccepts(Source, profile, rows)
=================================================================================
