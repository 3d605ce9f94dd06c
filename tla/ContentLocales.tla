----------------------------- MODULE ContentLocales -----------------------------
(***************************************************************************)
(* The stored page in one of its locales: a reader opens it with this      *)
(* locale for the source, and gets the nodes and the overlay of it.        *)
(***************************************************************************)
EXTENDS ContentStorage

View(page, locale) == [nodes |-> page.nodes, overlay |-> page.overlays[locale]]

MaterializeLocalizedPageDocumentStorage(locale, stored) == View(MaterializePageDocumentStorage(locale, stored), locale)

TsMaterializeLocalizedPage(locale, stored) == View(TsMaterializePage(locale, stored), locale)

(***************************************************************************)
(* What the TypeScript runtime opens in one locale the Go runtime opens in *)
(* it as well and as the same, with the sections, the blocks and the       *)
(* values of the page as a whole; and a page that is translated in full    *)
(* can be opened in every locale of it.                                    *)
(***************************************************************************)
LocalizedViewsAgree ==
    saved # "none" =>
        \A l \in RowLocales(rows) :
            /\ TsMaterializePageAccepts(Source, rows) /\ (\A i \in DOMAIN rows : l \in DOMAIN rows[i].locales) =>
                  TsMaterializePageAccepts(l, rows)
            /\ TsMaterializePageAccepts(l, rows) =>
                  /\ MaterializePageDocumentStorageAccepts(l, rows)
                  /\ MaterializeLocalizedPageDocumentStorage(l, rows) = TsMaterializeLocalizedPage(l, rows)
                  /\ MaterializeLocalizedPageDocumentStorage(l, rows)
                        = View(MaterializePageDocumentStorage(Source, rows), l)
=================================================================================
