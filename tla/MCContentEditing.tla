---------------------------- MODULE MCContentEditing ----------------------------
(***************************************************************************)
(* Values TLC gives the constants of content editing: the kinds,           *)
(* positions and locales of each form of document, lists of contributors,  *)
(* and editors that are alike.                                             *)
(***************************************************************************)
EXTENDS ContentEditing, TLC

PairForms == [page |-> [kinds |-> {"rich-text", "paragraph"}, indexes |-> {0}, locales |-> {"ko"}],
              post |-> [kinds |-> {"paragraph"}, indexes |-> {0}, locales |-> {"ko"}]]

\* A map is a section of a page and a block of a post.
ColumnForms == [page |-> [kinds |-> {"rich-text", "columns", "paragraph", "map"}, indexes |-> {0, 2}, locales |-> {}],
                post |-> [kinds |-> {"map"}, indexes |-> {0, 1, 2}, locales |-> {"ko"}]]

OneMember == {<<1>>}
Contributors == {<<1>>, <<1, 2>>, <<-1, 2>>, <<>>, <<1, 1>>, <<1, -1>>}
EditorsAlike == Permutations(Editors)
=================================================================================
